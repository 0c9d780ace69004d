----------------------------- MODULE AgentStop -----------------------------
(***************************************************************************)
(* Stopping a spawned agent: a journalled parent over a runtime close and  *)
(* a checkout.                                                             *)
(*                                                                         *)
(* A stop is planned against the runtime it saw (its fence), authorized    *)
(* together with the close it uses in one transaction, and then driven,    *)
(* under the agent's lock, by the request or by the recovery worker: take  *)
(* the permit to remove the checkout, stop the session, advance the close, *)
(* remove or keep the checkout, and record the outcome                     *)
(* (control-plane/src/agent_dispatch_stop_apply.rs and checkout.rs,        *)
(* agent_runtime_close_apply.rs, agent_runtime_recovery.rs, and the        *)
(* stores).  A plain stop of the runtime admits a close of its own, or     *)
(* resumes the one it finds.                                               *)
(*                                                                         *)
(* Runtime transitions are not modelled, so the runtime selection of an    *)
(* agent never changes and a fence is a close or nothing.                  *)
(***************************************************************************)
EXTENDS AgentSpawn

Active == {"Planned", "Authorized"}
Terminal == {"Succeeded", "WorkspacePreserved", "WorkspaceReplaced", "SourceRetained"}

Closes == Attempt \cup {Plain}

\* A row of agent_dispatch_stops: the operation, what the plan froze and was asked for, and
\* the close it uses once it is authorized.
StopRecord ==
    [operation : Operation,
     state : Active \cup Terminal \cup {"Superseded"},
     fence : [close : Closes, state : {"Admitted", "Stopped"}] \cup {None},
     remove : BOOLEAN,
     child : Closes \cup {None}]

\* None is neither an id nor a record, and a plain close has an id of its own.
ASSUME StopAssumption ==
    None \notin Attempt /\ None \notin StopRecord /\ Plain \notin Attempt

StopCall(at, a, k) ==
    [at |-> at, operation |-> stops[a].operation, stop |-> a, close |-> k,
     admission |-> None, outcome |-> None]
CloseCall(o, k) ==
    [at |-> "closing", operation |-> o, stop |-> None, close |-> k,
     admission |-> None, outcome |-> None]

At(c, at) == calls[c] # None /\ calls[c].at = at

OutcomeIs(c, at, outcome) == calls' = [calls EXCEPT ![c].at = at, ![c].outcome = outcome]

AdmissionIs(c, admission) ==
    calls' = [calls EXCEPT ![c].at = "closing", ![c].admission = admission]

\* The state of the close a caller drives.
CloseState(c) == closes[calls[c].operation][calls[c].close]

-----------------------------------------------------------------------------
(* Planning and authorizing *)

\* The runtime as a plan freezes it: stable, or closed by one close in one state.
Fence(o) ==
    IF Effective(o) = {} THEN None
    ELSE LET k == CHOOSE k \in Effective(o) : TRUE
         IN  [close |-> k, state |-> closes[o][k]]

\* The stop that is active for an operation.
ActiveStops(o) ==
    {a \in Attempt : stops[a] # None /\ stops[a].operation = o /\ stops[a].state \in Active}

\* A planned stop gives way to one that saw another runtime; an authorized one to none.
Supersedable(a, o) == stops[a].state = "Planned" /\ stops[a].fence # Fence(o)

\* The attempt is one that was not used before, as which one makes no difference.
PlanStop(a, o, remove) ==
    /\ stops[a] = None /\ a = CHOOSE b \in Attempt : stops[b] = None
    /\ Exists(o) /\ LockFree(o)
    /\ journal[o].completed > 0 /\ world[o].bound # 0
    /\ remove => journal[o].plan.dedicated
    /\ \A b \in ActiveStops(o) : Supersedable(b, o)
    /\ stops' = [b \in Attempt |->
                   IF b = a THEN [operation |-> o, state |-> "Planned", fence |-> Fence(o),
                                  remove |-> remove, child |-> None]
                   ELSE IF b \in ActiveStops(o) THEN [stops[b] EXCEPT !.state = "Superseded"]
                   ELSE stops[b]]
    /\ UNCHANGED <<journal, world, calls, closes, gated, faults>>

\* The runtime is the one the plan froze, or the close it froze has ended since.
Converges(a) ==
    LET o == stops[a].operation
        fence == stops[a].fence
    IN  IF fence = None THEN Effective(o) = {}
        ELSE LET now == closes[o][fence.close]
             IN  /\ now = fence.state \/ fence.state = "Admitted"
                 /\ now = "SourceRetained" => Effective(o) = {}

\* The close a stop uses: the one it found, or one of its own.
Child(a) == IF stops[a].fence = None THEN a ELSE stops[a].fence.close

\* The close names the session that is bound when it is admitted.
Names(o) == [world EXCEPT ![o].closing = world[o].bound]

\* One transaction admits the close and authorizes the stop; the request drives it on.
AuthorizeStop(c, a) ==
    /\ calls[c] = None
    /\ stops[a] # None /\ stops[a].state = "Planned"
    /\ LockFree(stops[a].operation)
    /\ Converges(a)
    /\ stops' = [stops EXCEPT ![a].state = "Authorized", ![a].child = Child(a)]
    /\ closes' = [closes EXCEPT ![stops[a].operation][Child(a)] =
                    IF @ = "none" THEN "Admitted" ELSE @]
    /\ world' = IF stops[a].fence = None THEN Names(stops[a].operation) ELSE world
    /\ calls' = [calls EXCEPT ![c] = StopCall("driving", a, Child(a))]
    /\ UNCHANGED <<journal, gated, faults>>

\* Faulty: takes up only the stops whose close is still open.
DriveStopFaulty(c, a) ==
    /\ calls[c] = None
    /\ stops[a] # None /\ stops[a].state = "Authorized"
    /\ closes[stops[a].operation][stops[a].child] = "Admitted"
    /\ LockFree(stops[a].operation)
    /\ calls' = [calls EXCEPT ![c] = StopCall("driving", a, stops[a].child)]
    /\ UNCHANGED <<journal, world>> /\ Keeps

\* A repeated request, or the recovery worker, takes up an authorized stop.
DriveStop(c, a) ==
    /\ calls[c] = None
    /\ stops[a] # None /\ stops[a].state = "Authorized"
    /\ LockFree(stops[a].operation)
    /\ calls' = [calls EXCEPT ![c] = StopCall("driving", a, stops[a].child)]
    /\ UNCHANGED <<journal, world>> /\ Keeps

-----------------------------------------------------------------------------
(* A plain stop of the runtime *)

AdmitClose(c, o) ==
    /\ calls[c] = None /\ LockFree(o)
    /\ world[o].bound # 0 /\ Effective(o) = {} /\ closes[o][Plain] = "none"
    /\ closes' = [closes EXCEPT ![o][Plain] = "Admitted"]
    /\ world' = Names(o)
    /\ calls' = [calls EXCEPT ![c] = CloseCall(o, Plain)]
    /\ UNCHANGED <<journal, stops, gated, faults>>

\* A later stop request, or the recovery worker, resumes the close that is admitted,
\* whoever admitted it.
DriveClose(c, o) ==
    /\ calls[c] = None /\ LockFree(o)
    /\ \E k \in Effective(o) :
         /\ closes[o][k] = "Admitted"
         /\ calls' = [calls EXCEPT ![c] = CloseCall(o, k)]
    /\ UNCHANGED <<journal, world>> /\ Keeps

-----------------------------------------------------------------------------
(* Driving *)

\* Of a close that kept its source only the permit is left to release.  Otherwise the
\* permit to remove the checkout comes before the session is stopped; a permit that is
\* held already is used again without a look at the checkout.
AdmitRemoval(c) ==
    /\ At(c, "driving")
    /\ LET o == calls[c].operation
           a == calls[c].stop
           released == [world EXCEPT ![o].permit = IF @ = a THEN None ELSE @]
       IN  \/ /\ CloseState(c) = "SourceRetained"
              /\ world' = released
              /\ OutcomeIs(c, "terminalizing", "SourceRetained")
           \/ /\ CloseState(c) # "SourceRetained" /\ ~stops[a].remove
              /\ AdmissionIs(c, "Preserve")
              /\ UNCHANGED world
           \/ /\ CloseState(c) # "SourceRetained" /\ stops[a].remove
              /\ world[o].workspace = "replaced" /\ world[o].permit # a
              /\ AdmissionIs(c, "Replaced")
              /\ UNCHANGED world
           \/ /\ CloseState(c) # "SourceRetained" /\ stops[a].remove
              /\ world[o].permit = a
                   \/ (world[o].permit = None /\ world[o].workspace # "replaced")
              /\ AdmissionIs(c, "Remove")
              /\ world' = [world EXCEPT ![o].permit =
                             IF world[o].workspace = "removed" THEN @ ELSE a]
    /\ UNCHANGED journal /\ Keeps

\* The session the close names is stopped, or found over; or it is kept, as the host says
\* or because another session is bound by now.  A successor that is not the named session
\* is let alone.
StopSession(c) ==
    /\ At(c, "closing")
    /\ LET o == calls[c].operation
       IN  \/ /\ CloseState(c) = "Stopped"
              /\ OutcomeIs(c, "closed", "Stopped")
              /\ UNCHANGED world
           \/ /\ CloseState(c) = "Admitted" /\ world[o].closing = world[o].bound
              /\ OutcomeIs(c, "advancing", "Stopped")
              /\ world' = IF world[o].closing = world[o].started
                          THEN [world EXCEPT ![o].session = "stopped"] ELSE world
           \/ /\ CloseState(c) = "Admitted"
              /\ world[o].closing # world[o].bound
                   \/ (world[o].closing = world[o].started /\ Running(o))
              /\ OutcomeIs(c, "advancing", "SourceRetained")
              /\ UNCHANGED world
    /\ UNCHANGED journal /\ Keeps

AdvanceClose(c) ==
    /\ At(c, "advancing")
    /\ closes' = [closes EXCEPT ![calls[c].operation][calls[c].close] = calls[c].outcome]
    /\ IF calls[c].stop = None THEN Return(c) ELSE Goes(c, "closed")
    /\ UNCHANGED <<journal, world, stops, gated, faults>>

\* Faulty: leaves the permit behind.
KeepSourceFaulty(c) ==
    /\ At(c, "closed") /\ calls[c].outcome = "SourceRetained"
    /\ OutcomeIs(c, "terminalizing", "SourceRetained")
    /\ UNCHANGED <<journal, world>> /\ Keeps

\* The session was kept, so the checkout is: the permit is released.
KeepSource(c) ==
    /\ At(c, "closed") /\ calls[c].outcome = "SourceRetained"
    /\ world' = IF calls[c].admission = "Remove"
                THEN [world EXCEPT ![calls[c].operation].permit = None] ELSE world
    /\ OutcomeIs(c, "terminalizing", "SourceRetained")
    /\ UNCHANGED journal /\ Keeps

\* The session is gone, and the checkout is left, found replaced, or removed.  A checkout
\* that is left is only taken off the register of owned checkouts, which nothing here reads;
\* an error of that release is a StopFails.
SettleCheckout(c) ==
    /\ At(c, "closed") /\ calls[c].outcome = "Stopped"
    /\ LET o == calls[c].operation
           admission == calls[c].admission
           ends(outcome) == OutcomeIs(c, "terminalizing", outcome)
       IN  \/ /\ admission = "Preserve"
              /\ ends("WorkspacePreserved") /\ UNCHANGED world
           \/ /\ admission = "Replaced" \/ (admission = "Remove" /\ world[o].workspace = "replaced")
              /\ ends("WorkspaceReplaced") /\ UNCHANGED world
           \/ /\ admission = "Remove" /\ world[o].workspace # "replaced"
              /\ world' = [world EXCEPT ![o].workspace = "removed", ![o].permit = None]
              /\ ends("Succeeded")
    /\ UNCHANGED journal /\ Keeps

Terminalize(c) ==
    /\ At(c, "terminalizing")
    /\ stops' = [stops EXCEPT ![calls[c].stop].state =
                   IF @ = "Authorized" THEN calls[c].outcome ELSE @]
    /\ Return(c)
    /\ UNCHANGED <<journal, world, closes, gated, faults>>

\* The host, the checkout or the store answers with an error, or its answer is lost after
\* the effect; the stop stays as it is recorded until it is driven again.
StopFails(c) ==
    /\ calls[c] # None
    /\ calls[c].at \in {"driving", "closing", "advancing", "closed", "terminalizing"}
    /\ Fault
    /\ Return(c)
    /\ UNCHANGED <<journal, world, stops, closes, gated>>

\* Somebody removes the checkout and makes another one in its place.
ReplaceCheckout(o) ==
    /\ ActiveStops(o) # {} /\ world[o].workspace = "kept"
    /\ world' = [world EXCEPT ![o].workspace = "replaced"]
    /\ UNCHANGED <<journal, calls>> /\ Keeps

-----------------------------------------------------------------------------
Driving(c) ==
    \/ AdmitRemoval(c) \/ StopSession(c) \/ AdvanceClose(c)
    \/ KeepSource(c) \/ SettleCheckout(c) \/ Terminalize(c)

Next ==
    \/ SpawnNext
    \/ \E a \in Attempt, o \in Operation, remove \in BOOLEAN : PlanStop(a, o, remove)
    \/ \E c \in Caller, a \in Attempt : AuthorizeStop(c, a) \/ DriveStop(c, a)
    \/ \E c \in Caller, o \in Operation : AdmitClose(c, o) \/ DriveClose(c, o)
    \/ \E c \in Caller : Driving(c) \/ StopFails(c)
    \/ \E o \in Operation : ReplaceCheckout(o)

Spec == SpawnInit /\ [][Next]_vars

\* A request that has begun goes on, and the lock is granted in the order it was asked
\* for; the recovery worker scans for authorized stops again and again and drives each one
\* until it has ended.
FairSpec ==
    /\ Spec
    /\ \A c \in Caller : WF_vars(Spawning(c) \/ Driving(c))
    /\ \A a \in Attempt : SF_vars(\E c \in Caller : DriveStop(c, a))

-----------------------------------------------------------------------------
(* Properties *)

\* The session the close named is over.  The agent need not be: a launch that was repeated
\* after a plain close may have started a successor ("This proves only this generation's
\* exit").
NamedIsOver(w) == w.closing # 0 /\ (w.session = "stopped" \/ w.closing < w.started)

\* What a stop reports is what happened: a stop that says it ended the agent ended the
\* session its close named (and, asked to remove the checkout, removed it or found another
\* one there); one that says the source was kept holds no permit on the checkout; one that
\* was superseded never admitted a close.  A checkout goes only after that session was
\* stopped, and only for a stop that was asked to remove it.
StopIsTruthful ==
    /\ \A a \in Attempt : stops[a] # None =>
         LET s == stops[a]
             w == world[s.operation]
         IN  /\ s.state \in Terminal \ {"SourceRetained"} => NamedIsOver(w)
             /\ s.state = "Succeeded" => w.workspace = "removed" /\ s.remove
             /\ s.state = "WorkspaceReplaced" => w.workspace = "replaced" /\ s.remove
             /\ s.state = "SourceRetained" => w.permit # a
             /\ s.state = "Superseded" => closes[s.operation][a] = "none"
    /\ \A o \in Operation : world[o].workspace = "removed" =>
         /\ NamedIsOver(world[o])
         /\ \E a \in Attempt : /\ stops[a] # None /\ stops[a].operation = o /\ stops[a].remove
                               /\ stops[a].state \in {"Authorized", "Succeeded"}

\* A stop that was authorized comes to an outcome, through crashes, lost answers, plain
\* stops that take its close over and checkouts that are replaced, provided that errors of
\* the host and of the checkout do not last.
StopSettles ==
    \A a \in Attempt :
      (stops[a] # None /\ stops[a].state = "Authorized")
        ~> (stops[a] # None /\ stops[a].state \in Terminal)
=============================================================================
