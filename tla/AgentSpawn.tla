----------------------------- MODULE AgentSpawn -----------------------------
(***************************************************************************)
(* Spawning an agent: a journalled saga of two or three stages.            *)
(*                                                                         *)
(* A preview appends the plan of an operation under the request's          *)
(* idempotency key; an apply carries the operation through its stages      *)
(* (workspace, runtime, prompt) and appends an event before and after each *)
(* effect.  The receipt is a fold of the events, and its recovery          *)
(* directive alone says what the next apply may do                         *)
(* (src/agent_spawn.rs, control-plane/src/agent_spawn_apply.rs,            *)
(* sqlite/src/agent_spawn.rs).                                             *)
(*                                                                         *)
(* An apply holds the agent's lock, and is refused while a stop of the     *)
(* agent is recorded (module AgentStop).  The workspace, the terminal host *)
(* and the provider may do what they are asked and their answer be lost;   *)
(* a session may exit at any time, and a launch that is repeated then      *)
(* starts a successor with the same command.  One idempotency key is       *)
(* modelled, and receipts written by this version only.                    *)
(*                                                                         *)
(* Attempt numbers are left out: an event is appended at an exact sequence *)
(* and the sequence determines the attempt that is in flight.              *)
(***************************************************************************)
EXTENDS Naturals, Sequences, FiniteSets

CONSTANTS
    Operation,      \* the ids previews mint
    Caller,         \* requests being handled
    Plan,           \* the requests a preview may carry
    Attempt,        \* attempts to stop the agent
    Plain,          \* the close of a stop that is not an attempt of these
    None,
    MaxEvents,      \* events of a journal (16384)
    MaxSessions,    \* sessions of one launch (MAX_MANAGED_CREATE_CHAIN_STOP_IDENTITIES)
    MaxFaults       \* bound on failures, lost answers and crashes

Plans == [native : BOOLEAN,     \* the native CLI, or the structured protocol
          prompt : BOOLEAN,     \* prompt_digest
          carries : BOOLEAN,    \* the launch command takes the prompt as an argument
          dedicated : BOOLEAN]  \* a checkout of its own, registered to the operation

ASSUME SpawnAssumption ==
    /\ Plan \subseteq Plans
    /\ \A p \in Plan : p.carries => p.native /\ p.prompt
    /\ MaxEvents \in Nat \ {0} /\ MaxSessions \in Nat \ {0} /\ MaxFaults \in Nat

VARIABLES
    journal,    \* agent_spawn_events, per operation folded into its receipt
    world,      \* per operation, what happened outside the journals: its workspace
                \* ("none", "kept", "removed", "replaced"), how many sessions were started
                \* and the state of the last ("none", "running", "exited", "stopped"), the
                \* session the stored selection names and the one the last close named
                \* (0: none), prompts handed to providers, and the attempt that holds the
                \* permit to remove the checkout
    calls,      \* per caller None or the request it handles
    stops,      \* agent_dispatch_stops: per attempt None or its record
    closes,     \* agent_runtime_closes: per operation and close "none", "Admitted",
                \* "Stopped" or "SourceRetained"
    gated,      \* a first-run question that keeps the prompt from being typed is still up
    faults

vars == <<journal, world, calls, stops, closes, gated, faults>>

-----------------------------------------------------------------------------
(* The journal *)

Stages(plan) ==
    LET launch == IF plan.native THEN "RuntimeLaunch" ELSE "StructuredLaunch"
        delivery == IF plan.native THEN "PromptDelivery" ELSE "StructuredPromptDelivery"
    IN  IF plan.prompt THEN <<"Worktree", launch, delivery>> ELSE <<"Worktree", launch>>

\* The stage that is in flight, has failed or comes next.
Stage(r) == Stages(r.plan)[r.completed + 1]

Finished(r) == r.completed = Len(Stages(r.plan))

NoReceipt == [plan |-> None, sequence |-> 0]

\* The receipt: the fold of the events so far.
Planned(plan) ==
    [plan |-> plan, sequence |-> 1, completed |-> 0, inFlight |-> FALSE,
     failure |-> "none",     \* or "certain", or "uncertain": a prompt may have been written
     claimed |-> FALSE,      \* checkout_registration
     accepted |-> FALSE,     \* initial_prompt_accepted
     gate |-> "none",        \* startup_gate: "open", or "carried" by launch_prompt_carried
     outcome |-> "none"]     \* or "Succeeded", or "ManualInterventionRequired"

Event(kind) == [kind |-> kind, accepted |-> FALSE, gate |-> "none", written |-> "unknown"]
Launched(accepted, gate) ==
    [Event("StageCommitted") EXCEPT !.accepted = accepted, !.gate = gate]
StageFailed(written) == [Event("StageFailed") EXCEPT !.written = written]

\* Native typing has no receipt to look up: anything but a firm no is uncertain.
PromptWriteIsUncertain(stage, written) == stage = "PromptDelivery" /\ written # "no"

\* The fold accepts the event after the events before it.
Admits(r, e) ==
    /\ r.outcome = "none"
    /\ CASE e.kind = "StagePrepared" -> ~r.inFlight /\ r.failure = "none" /\ ~Finished(r)
         [] e.kind \in {"StageCommitted", "StageFailed"} -> r.inFlight
         [] e.kind = "CheckoutClaimed" ->
              (r.completed > 0 \/ r.inFlight) /\ ~r.claimed
         [] e.kind = "RetryAuthorized" -> r.failure = "certain"
         [] e.kind = "Terminated" -> r.inFlight \/ r.failure # "none"
         [] e.kind = "Succeeded" -> ~r.inFlight /\ r.failure = "none" /\ Finished(r)

Folded(r, e) ==
    LET s == [r EXCEPT !.sequence = @ + 1]
    IN  CASE e.kind = "StagePrepared" -> [s EXCEPT !.inFlight = TRUE]
          [] e.kind = "StageCommitted" ->
               [s EXCEPT !.inFlight = FALSE, !.completed = @ + 1,
                         !.accepted = @ \/ e.accepted,
                         !.gate = IF e.gate = "none" THEN @ ELSE e.gate]
          [] e.kind = "CheckoutClaimed" -> [s EXCEPT !.claimed = TRUE]
          [] e.kind = "StageFailed" ->
               [s EXCEPT !.inFlight = FALSE,
                         !.failure = IF PromptWriteIsUncertain(Stage(r), e.written)
                                     THEN "uncertain" ELSE "certain"]
          [] e.kind = "RetryAuthorized" -> [s EXCEPT !.failure = "none"]
          [] e.kind = "Terminated" -> [s EXCEPT !.outcome = "ManualInterventionRequired"]
          [] e.kind = "Succeeded" -> [s EXCEPT !.outcome = "Succeeded"]

\* Faulty: inspects a prompt delivery like any other stage in flight.
RecoveryFaulty(r) ==
    IF r.outcome # "none" THEN "None"
    ELSE IF r.failure = "uncertain" THEN "DoNotReplayPrompt"
    ELSE IF r.failure = "certain" THEN "RetryRequired"
    ELSE IF r.inFlight THEN "InspectBeforeRetry"
    ELSE IF Finished(r) THEN "Finish"
    ELSE "Continue"

Recovery(r) ==
    IF r.outcome # "none" THEN "None"
    ELSE IF r.failure = "uncertain" THEN "DoNotReplayPrompt"
    ELSE IF r.failure = "certain" THEN "RetryRequired"
    ELSE IF r.inFlight
         THEN IF Stage(r) = "PromptDelivery" THEN "DoNotReplayPrompt" ELSE "InspectBeforeRetry"
    ELSE IF Finished(r) THEN "Finish"
    ELSE "Continue"

-----------------------------------------------------------------------------
(* The store *)

Exists(o) == journal[o].sequence > 0

\* The sequence after the receipt's is free, and the journal has room for it.
Appendable(o, r) == journal[o].sequence = r.sequence /\ r.sequence < MaxEvents

-----------------------------------------------------------------------------
(* Requests *)

Call(at, o, r) == [at |-> at, operation |-> o, receipt |-> r, event |-> None]

\* The caller holds the agent's lock.
Holds(c) == calls[c] # None /\ calls[c].at \notin {"previewing", "observed"}

LockFree(o) == \A c \in Caller : Holds(c) => calls[c].operation # o

\* The request ends, answered or refused; its lock is released.
Return(c) == calls' = [calls EXCEPT ![c] = None]

Goes(c, at) == calls' = [calls EXCEPT ![c].at = at]

\* The next step appends e and then goes on as `at` says.
Records(c, at, e) == calls' = [calls EXCEPT ![c].at = at, ![c].event = e]

Fault == faults < MaxFaults /\ faults' = faults + 1

Keeps == UNCHANGED <<stops, closes, gated, faults>>

-----------------------------------------------------------------------------
(* Preview *)

\* A request that finds the operation of its key is answered from it, or refused when the
\* plan is another one; either way nothing changes.
Preview(c) ==
    /\ calls[c] = None
    /\ ~\E o \in Operation : Exists(o)
    /\ calls' = [calls EXCEPT ![c] = Call("previewing", None, NoReceipt)]
    /\ UNCHANGED <<journal, world>> /\ Keeps

\* No operation owns the key; an owner that appeared since is read and answered from.
KeyIsFree == \A o \in Operation : ~Exists(o)

AppendPlan(c, plan) ==
    /\ calls[c] # None /\ calls[c].at = "previewing"
    /\ Return(c)
    /\ UNCHANGED world /\ Keeps
    /\ \E o \in Operation : ~Exists(o)
    /\ LET o == CHOOSE o \in Operation : ~Exists(o)     \* a new id
       IN  journal' = IF KeyIsFree THEN [journal EXCEPT ![o] = Planned(plan)]
                      ELSE journal

-----------------------------------------------------------------------------
(* Apply *)

\* The client names the sequence it last saw.  An operation that is over is answered from
\* its receipt, and nothing changes.
Observe(c, o) ==
    /\ calls[c] = None
    /\ Exists(o) /\ journal[o].outcome = "none"
    /\ calls' = [calls EXCEPT ![c] = Call("observed", o, journal[o])]
    /\ UNCHANGED <<journal, world>> /\ Keeps

\* Of the stops of an operation the active one counts, then a terminal one, and only
\* last a superseded one.
StopInProgress(o) ==
    \E a \in Attempt : stops[a] # None /\ stops[a].operation = o /\ stops[a].state # "Superseded"

\* Faulty: does not look for a stop again under the lock.
AuthorizeFaulty(c) ==
    /\ calls[c] # None /\ calls[c].at = "observed"
    /\ LockFree(calls[c].operation)
    /\ IF journal[calls[c].operation].sequence = calls[c].receipt.sequence
       THEN Goes(c, "applying")
       ELSE Return(c)
    /\ UNCHANGED <<journal, world>> /\ Keeps

\* Under the lock the request is authorized again, against the sequence it names.  A
\* succeeded operation answers an older one too, and then nothing is left to do.
Authorize(c) ==
    /\ calls[c] # None /\ calls[c].at = "observed"
    /\ LockFree(calls[c].operation)
    /\ IF /\ journal[calls[c].operation].sequence = calls[c].receipt.sequence
          /\ ~StopInProgress(calls[c].operation)
       THEN Goes(c, "applying")
       ELSE Return(c)
    /\ UNCHANGED <<journal, world>> /\ Keeps

\* One turn of the loop that follows the directive, up to its append.
Directs(c) ==
    LET r == calls[c].receipt
    IN  CASE Recovery(r) \in {"None", "DoNotReplayPrompt"} -> Return(c)
          [] Recovery(r) = "Finish" -> Records(c, "looping", Event("Succeeded"))
          [] Recovery(r) = "Continue" -> Records(c, "preparing", Event("StagePrepared"))
          [] Recovery(r) = "InspectBeforeRetry" -> Goes(c, "executing")
          [] Recovery(r) = "RetryRequired" -> Records(c, "looping", Event("RetryAuthorized"))

FollowDirective(c) ==
    /\ calls[c] # None /\ calls[c].at = "applying"
    /\ Directs(c)
    /\ UNCHANGED <<journal, world>> /\ Keeps

\* A stage that needs the client, and so ends the apply that ran it.
RequiresClientAction(r) ==
    Recovery(r) \in {"InspectBeforeRetry", "RetryRequired", "DoNotReplayPrompt"}

\* Where the caller goes once its event is in the journal, with the receipt it got back.
After(c, r) ==
    CASE calls[c].at = "looping" -> [calls[c] EXCEPT !.at = "applying", !.receipt = r]
      [] calls[c].at = "preparing" -> [calls[c] EXCEPT !.at = "executing", !.receipt = r]
      [] calls[c].at = "claiming" ->
           [calls[c] EXCEPT !.at = "committing", !.receipt = r, !.event = Event("StageCommitted")]
      [] calls[c].at = "committing" ->
           IF RequiresClientAction(r) THEN None
           ELSE [calls[c] EXCEPT !.at = "applying", !.receipt = r]

\* The event is appended, or another event owns its sequence and the request fails.
AppendEvent(c) ==
    /\ calls[c] # None
    /\ calls[c].at \in {"looping", "preparing", "claiming", "committing"}
    /\ LET o == calls[c].operation
           r == calls[c].receipt
           e == calls[c].event
       IN  IF Appendable(o, r) /\ Admits(journal[o], e)
           THEN /\ journal' = [journal EXCEPT ![o] = Folded(@, e)]
                /\ calls' = [calls EXCEPT ![c] = After(c, Folded(journal[o], e))]
           ELSE Return(c) /\ UNCHANGED journal
    /\ UNCHANGED world /\ Keeps

-----------------------------------------------------------------------------
(* The effect of a stage, and the event that reports it *)

Executes(c, stage) ==
    /\ calls[c] # None /\ calls[c].at = "executing"
    /\ Stage(calls[c].receipt) = stage

\* The effect happened and its answer arrived.
Answered == Keeps
\* The effect failed, or it happened and its answer was lost.
Failed == Fault /\ UNCHANGED <<stops, closes, gated>>

AcquireWorktree(c) ==
    /\ Executes(c, "Worktree")
    /\ LET o == calls[c].operation
           r == calls[c].receipt
       IN  \/ /\ world' = [world EXCEPT ![o].workspace = "kept"]
              /\ Answered
              /\ IF r.plan.dedicated /\ ~r.claimed
                 THEN Records(c, "claiming", Event("CheckoutClaimed"))
                 ELSE Records(c, "committing", Event("StageCommitted"))
           \/ /\ \/ world' = [world EXCEPT ![o].workspace = "kept"]
                 \/ UNCHANGED world
              /\ Failed
              /\ Records(c, "committing", StageFailed("unknown"))
    /\ UNCHANGED journal

Running(o) == world[o].session = "running"

\* The closes that still hold the agent's runtime.
Effective(o) == {k \in Attempt \cup {Plain} : closes[o][k] \in {"Admitted", "Stopped"}}

\* The session that runs under the launch key is returned.  In the place of one that is
\* over a successor is started, with the same command; a structured one takes over the
\* binding, which a close forbids.
Startable(o, plan) ==
    \/ Running(o)
    \/ world[o].started < MaxSessions /\ (plan.native \/ Effective(o) = {})

SessionStarted(o, plan) ==
    IF Running(o) THEN world
    ELSE LET n == world[o].started + 1
         IN  [world EXCEPT ![o].session = "running", ![o].started = n,
                           ![o].bound = IF plan.native \/ @ = 0 THEN @ ELSE n,
                           ![o].handed = IF plan.carries THEN @ + 1 ELSE @]

\* Nothing is started, or a session is and its answer is lost or names another one.
LaunchFails(c) ==
    LET o == calls[c].operation
        plan == calls[c].receipt.plan
    IN  \/ /\ Startable(o, plan)
           /\ world' \in {world, SessionStarted(o, plan)}
           /\ \E e \in {StageFailed("unknown"), Event("Terminated")} :
                Records(c, "committing", e)
           /\ Failed
        \/ /\ ~Startable(o, plan)
           /\ Records(c, "committing", StageFailed("unknown"))
           /\ UNCHANGED world /\ Answered

\* There is no question or its state cannot be read, and none is claimed; or one is up.
SeenGates(plan) == {"none", IF plan.carries THEN "carried" ELSE "open"}

\* Faulty: takes a started provider for one that has its prompt.
AcceptedFaulty(plan, gate) == gate = "none"
\* initial_prompt_accepted
Accepted(plan, gate) == plan.carries /\ gate = "none"

LaunchRuntime(c) ==
    /\ Executes(c, "RuntimeLaunch")
    /\ LET o == calls[c].operation
           plan == calls[c].receipt.plan
       IN  \/ /\ Startable(o, plan) /\ world' = SessionStarted(o, plan)
              /\ \E gate \in SeenGates(plan) :
                   /\ gated' = (gate = "open")
                   /\ Records(c, "launched", Launched(Accepted(plan, gate), gate))
              /\ UNCHANGED <<stops, closes, faults>>
           \/ LaunchFails(c)
    /\ UNCHANGED journal

LaunchStructured(c) ==
    /\ Executes(c, "StructuredLaunch")
    /\ LET o == calls[c].operation
           plan == calls[c].receipt.plan
       IN  \/ /\ Startable(o, plan) /\ world' = SessionStarted(o, plan)
              /\ Records(c, "launched", Event("StageCommitted"))
              /\ Answered
           \/ LaunchFails(c)
    /\ UNCHANGED journal

\* The binding and the runtime selection of the agent are stored before the commit, also
\* while a close of an earlier session holds the agent.
PersistSelection(c) ==
    /\ calls[c] # None /\ calls[c].at = "launched"
    /\ \/ /\ world' = [world EXCEPT ![calls[c].operation].bound = world[calls[c].operation].started]
          /\ Goes(c, "committing")
          /\ Answered
       \/ /\ Records(c, "committing", StageFailed("unknown"))
          /\ Failed
          /\ UNCHANGED world
    /\ UNCHANGED journal

\* The question recorded at launch keeps the prompt out of the dialog until it is read as
\* answered; a prompt the launch carried waits behind it and is never typed.
HeldAtGate(r) == r.gate = "carried" \/ (r.gate = "open" /\ gated)

DeliverPrompt(c) ==
    /\ Executes(c, "PromptDelivery")
    /\ LET o == calls[c].operation
           r == calls[c].receipt
           typed == [world EXCEPT ![o].handed = @ + 1]
       IN  \/ /\ HeldAtGate(r)
              /\ Records(c, "committing", StageFailed(IF r.gate = "carried" THEN "yes" ELSE "no"))
              /\ UNCHANGED world /\ Answered
           \/ /\ ~HeldAtGate(r) /\ r.accepted
              /\ Records(c, "committing", Event("StageCommitted"))
              /\ UNCHANGED world /\ Answered
           \/ /\ ~HeldAtGate(r) /\ ~r.accepted
              /\ Running(o) /\ world' = typed
              /\ Records(c, "committing", Event("StageCommitted"))
              /\ Answered
           \* Not written, written or perhaps written; written and the provider stays silent.
           \/ /\ ~HeldAtGate(r) /\ ~r.accepted
              /\ \/ UNCHANGED world /\ \E written \in {"no", "yes"} :
                      Records(c, "committing", StageFailed(written))
                 \/ Running(o) /\ world' = typed /\ Records(c, "committing", StageFailed("yes"))
              /\ IF Running(o) THEN Failed ELSE Answered
    /\ UNCHANGED journal

\* The turn and the message have ids derived from the operation: a repeat is the same turn.
\* A turn that is new is refused once a close holds the runtime.
DeliverTurn(c) ==
    /\ Executes(c, "StructuredPromptDelivery")
    /\ LET o == calls[c].operation
           takes == Running(o) /\ Effective(o) = {}
           started == [world EXCEPT ![o].handed = 1]
       IN  \/ /\ takes \/ world[o].handed = 1
              /\ world' = started
              /\ Answered
              /\ Records(c, "committing", Event("StageCommitted"))
           \/ /\ \/ UNCHANGED world
                 \/ takes /\ world' = started
              /\ IF takes THEN Failed ELSE Answered
              /\ Records(c, "committing", StageFailed("unknown"))
    /\ UNCHANGED journal

\* An error that is returned without an event: no project, workspace, runtime or provider.
GiveUp(c) ==
    /\ calls[c] # None /\ calls[c].at \in {"applying", "executing"}
    /\ Fault
    /\ Return(c)
    /\ UNCHANGED <<journal, world, stops, closes, gated>>

-----------------------------------------------------------------------------
(* The environment *)

\* The backend stops; its successor finds the store.
Crash ==
    /\ Fault
    /\ \E c \in Caller : calls[c] # None
    /\ calls' = [c \in Caller |-> None]
    /\ UNCHANGED <<journal, world, stops, closes, gated>>

\* A person trusts the folder or signs in, in the session that asks.
AnswerGate ==
    /\ gated /\ \E o \in Operation : Running(o)
    /\ gated' = FALSE
    /\ UNCHANGED <<journal, world, calls, stops, closes, faults>>

\* The provider ends, by itself or because somebody ends it.
SessionExits(o) ==
    /\ Running(o)
    /\ world' = [world EXCEPT ![o].session = "exited"]
    /\ UNCHANGED <<journal, calls>> /\ Keeps

-----------------------------------------------------------------------------
Untouched == [workspace |-> "none", session |-> "none", started |-> 0, bound |-> 0, closing |-> 0,
              handed |-> 0, permit |-> None]

SpawnInit ==
    /\ journal = [o \in Operation |-> NoReceipt]
    /\ world = [o \in Operation |-> Untouched]
    /\ calls = [c \in Caller |-> None]
    /\ stops = [a \in Attempt |-> None]
    /\ closes = [o \in Operation |-> [k \in Attempt \cup {Plain} |-> "none"]]
    /\ gated = FALSE
    /\ faults = 0

Spawning(c) ==
    \/ \E plan \in Plan : AppendPlan(c, plan)
    \/ Authorize(c) \/ FollowDirective(c) \/ AppendEvent(c)
    \/ AcquireWorktree(c) \/ LaunchRuntime(c) \/ LaunchStructured(c) \/ PersistSelection(c)
    \/ DeliverPrompt(c) \/ DeliverTurn(c)

SpawnNext ==
    \/ \E c \in Caller, o \in Operation : Observe(c, o)
    \/ \E c \in Caller : Preview(c) \/ Spawning(c) \/ GiveUp(c)
    \/ Crash
    \/ AnswerGate
    \/ \E o \in Operation : SessionExits(o)

-----------------------------------------------------------------------------
(* Properties *)

\* A prompt goes to a provider again in one case only: the launch command carries it, the
\* session that had it is over, and its launch is not on record as committed, so that the
\* launch is repeated and starts a successor.  A prompt that is typed or sent as a turn, or
\* whose launch was committed, is never handed over twice, through retries, crashes, exits
\* and lost answers; nor does a second operation hand it over when two previews of the
\* request race ("an uncertain prompt delivery must never be replayed").
PromptNotReplayed ==
    [][\A o \in Operation : world'[o].handed # world[o].handed =>
         /\ world'[o].handed = world[o].handed + 1
         /\ \A p \in Operation \ {o} : world[p].handed = 0
         /\ \/ world[o].handed = 0
            \/ journal[o].plan.carries /\ journal[o].completed = 1 /\ ~Running(o)]_vars

\* What the journal says was done was done: a committed stage has its workspace, a session
\* that was started and that the stored selection names, or its prompt with a provider,
\* and with one only if it was typed or sent; a retry of the prompt is offered only while
\* nothing has been written.
CommittedStagesHappened ==
    \A o \in Operation : Exists(o) =>
      LET r == journal[o]
          w == world[o]
      IN  /\ r.completed >= 1 => w.workspace # "none"
          /\ r.completed >= 2 => w.session # "none" /\ w.bound = w.started
          /\ r.completed = 3 => w.handed = 1 \/ (r.plan.carries /\ w.handed > 1)
          /\ r.failure = "certain" /\ Stage(r) = "PromptDelivery" => w.handed = 0

\* From the moment a stop of the agent is recorded, its journal stands still: no apply
\* that read the store before goes on, and none starts ("agent_spawn_stop_in_progress").
FrozenByStop ==
    [][\A o \in Operation : StopInProgress(o) => journal'[o] = journal[o]]_<<journal, stops>>
=============================================================================
