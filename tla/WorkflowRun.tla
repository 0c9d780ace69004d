---------------------------- MODULE WorkflowRun ----------------------------
(***************************************************************************)
(* The execution of one workflow run by the detached service loops of      *)
(* several backend processes (control-plane/src/workflow_graph/runtime.rs).*)
(* A process is replaced while it runs, so two loops can hold a snapshot   *)
(* of the same run.  Whoever is about to act first commits its intention   *)
(* with a compare-and-set on the whole run record; the effect comes after. *)
(*                                                                         *)
(* The agent-spawn journal that an agent action goes through is reduced to *)
(* what the loop sees of it: one plan per dispatch, whose applies are one  *)
(* effect however many sessions they start (see AgentSpawn).               *)
(***************************************************************************)
EXTENDS Naturals, FiniteSets

CONSTANTS
    Executor,           \* backend processes that run the loop
    N,                  \* actions of the run, in the compiled order
    Kind,               \* [1 .. N -> {"command", "agent"}]
    None,
    MaxTakeovers,       \* bound: changes of the mutation authority
    MaxCrashes          \* bound: process crashes

Action == 1 .. N

ASSUME WorkflowAssumption ==
    /\ N \in Nat \ {0}
    /\ Kind \in [Action -> {"command", "agent"}]
    /\ MaxTakeovers \in Nat
    /\ MaxCrashes \in Nat

VARIABLES
    run,                \* the durable record: revision and the task states
    loop,               \* [Executor -> what one advance() call holds in memory]
    holder,             \* the executor with the mutation authority
    journal,            \* [Action -> state of the agent spawn receipt]
    reported,           \* the agent actions whose worker has reported completion
    begun,              \* history: [Action -> times its effect began]
    seen,               \* history: <<action, outcome>> definitive results seen by an executor
    takeovers, crashes  \* history: bounded counters

vars == <<run, loop, holder, journal, reported, begun, seen, takeovers, crashes>>
environment == <<holder, reported, takeovers, crashes>>

-----------------------------------------------------------------------------
(* ExecutingWorkflow: pure transitions of a run record.                    *)

Pending == [state |-> "pending", effect |-> FALSE, uncertain |-> FALSE]

Has(r, state) == {n \in Action : r.tasks[n].state = state}

\* status() is completed, failed or uncertain.
Settled(r) == Has(r, "failed") # {} \/ Has(r, "completed") = Action

\* Faulty: does not ask whether an earlier task is under way or has failed.
StartableFaulty(r) == {n \in Has(r, "pending") : \A m \in Has(r, "pending") : n <= m}

\* The first pending task, when nothing is started and the run is not settled.
Startable(r) ==
    IF Settled(r) \/ Has(r, "started") # {} THEN {}
    ELSE {n \in Has(r, "pending") : \A m \in Has(r, "pending") : n <= m}

Touched(r, n, task) == [revision |-> r.revision + 1, tasks |-> [r.tasks EXCEPT ![n] = task]]

Started(r, n) == Touched(r, n, [r.tasks[n] EXCEPT !.state = "started"])

\* Faulty: revises the run and forgets the reference.
BoundFaulty(r, n) == Touched(r, n, r.tasks[n])

Bound(r, n) == Touched(r, n, [r.tasks[n] EXCEPT !.effect = TRUE])
Completed(r, n) == Touched(r, n, [r.tasks[n] EXCEPT !.state = "completed"])
Failed(r, n, uncertain) ==
    Touched(r, n, [r.tasks[n] EXCEPT !.state = "failed", !.uncertain = uncertain])

-----------------------------------------------------------------------------
(* update_workflow_run: the record is replaced when it is still the one    *)
(* the executor read; otherwise nothing is written and the call fails.     *)

\* Faulty: overwrites whatever is there.
CurrentFaulty(prior) == TRUE

Current(prior) == run = prior

Commit(prior, next) == Current(prior) /\ run' = next

Conflict(prior) == ~Current(prior) /\ UNCHANGED run

Idle == [pc |-> "idle", run |-> None, task |-> 0, result |-> None]

\* The executor gives up this call of advance().
Return(e) == loop' = [loop EXCEPT ![e] = Idle]

Goto(e, pc, r, n, result) ==
    loop' = [loop EXCEPT ![e] = [pc |-> pc, run |-> r, task |-> n, result |-> result]]

\* The next step of the call, with what it holds.
At(e, pc) == Goto(e, pc, loop[e].run, loop[e].task, loop[e].result)

-----------------------------------------------------------------------------
(* advance(), up to the effect.                                            *)

\* Faulty: leaves a run with a started task to whoever started it.
LoadFaulty(e) ==
    /\ loop[e].pc = "idle"
    /\ holder = e
    /\ ~Settled(run)
    /\ Has(run, "started") = {}
    /\ Goto(e, "loaded", run, 0, None)
    /\ UNCHANGED <<run, journal, begun, seen, environment>>

\* The loop picks an unsettled run while it has the authority, and restores it.
Load(e) ==
    /\ loop[e].pc = "idle"
    /\ holder = e
    /\ ~Settled(run)
    /\ Goto(e, "loaded", run, 0, None)
    /\ UNCHANGED <<run, journal, begun, seen, environment>>

\* A started command has no retained result and is never run again.
LostCommand(r) == {n \in Has(r, "started") : Kind[n] = "command"}

\* Faulty: records the lost command as a failure that had no effect.
LostOutcomeFaulty(r, n) == Failed(r, n, FALSE)

LostOutcome(r, n) == Failed(r, n, TRUE)

FailLostCommand(e) ==
    /\ loop[e].pc = "loaded"
    /\ \E n \in LostCommand(loop[e].run) :
         \/ Commit(loop[e].run, LostOutcome(loop[e].run, n))
         \/ Conflict(loop[e].run)
    /\ Return(e)
    /\ UNCHANGED <<journal, begun, seen, environment>>

StartNext(e) ==
    /\ loop[e].pc = "loaded"
    /\ \E n \in Startable(loop[e].run) :
         \/ Commit(loop[e].run, Started(loop[e].run, n))
            /\ Goto(e, "started", Started(loop[e].run, n), n, None)
         \/ Conflict(loop[e].run) /\ Return(e)
    /\ UNCHANGED <<journal, begun, seen, environment>>

ResumeStarted(e) ==
    /\ loop[e].pc = "loaded"
    /\ \E n \in Has(loop[e].run, "started") \ LostCommand(loop[e].run) :
         Goto(e, "started", loop[e].run, n, None)
    /\ UNCHANGED <<run, journal, begun, seen, environment>>

\* The authority is checked again before the effect and before its result is recorded.
LoseAuthority(e) ==
    /\ loop[e].pc \in {"started", "finish"}
    /\ holder # e
    /\ Return(e)
    /\ UNCHANGED <<run, journal, begun, seen, environment>>

Admit(e) ==
    /\ loop[e].pc = "started"
    /\ holder = e
    /\ At(e, Kind[loop[e].task])
    /\ UNCHANGED <<run, journal, begun, seen, environment>>

-----------------------------------------------------------------------------
(* The command action.                                                     *)

Finish(e, result) == Goto(e, "finish", loop[e].run, loop[e].task, result)

\* No directory, no script or no process: nothing ran.
RefuseCommand(e) ==
    /\ loop[e].pc = "command"
    /\ Finish(e, "failed")
    /\ UNCHANGED <<run, journal, begun, seen, environment>>

SpawnCommand(e) ==
    /\ loop[e].pc = "command"
    /\ At(e, "running")
    /\ begun' = [begun EXCEPT ![loop[e].task] = @ + 1]
    /\ UNCHANGED <<run, journal, seen, environment>>

\* The exit code, output that is not text (a failure of its own), or a timeout, a signal
\* or a broken pipe that leaves the result unknown.
CommandEnds(e) ==
    /\ loop[e].pc = "running"
    /\ \E result \in {"completed", "failed", "uncertain"} :
         /\ Finish(e, result)
         /\ seen' = IF result = "uncertain" THEN seen
                    ELSE seen \cup {<<loop[e].task, result>>}
    /\ UNCHANGED <<run, journal, begun, environment>>

-----------------------------------------------------------------------------
(* The agent action.                                                       *)

\* The worker's report, which fails the action when it carries no result.
AgentReported(e) ==
    /\ loop[e].pc = "agent"
    /\ loop[e].task \in reported
    /\ \E result \in {"completed", "failed"} :
         /\ Finish(e, result)
         /\ seen' = seen \cup {<<loop[e].task, result>>}
    /\ UNCHANGED <<run, journal, begun, environment>>

\* No report in time, or a read that failed.
AgentTimesOut(e) ==
    /\ loop[e].pc = "agent"
    /\ Finish(e, "uncertain")
    /\ UNCHANGED <<run, journal, begun, seen, environment>>

\* Without a bound effect the spawn is planned under the dispatch's own key, and
\* the plan is bound to the run before it is applied.
PlanAgent(e) ==
    LET r == loop[e].run
        n == loop[e].task
    IN  /\ loop[e].pc = "agent"
        /\ n \notin reported
        /\ ~r.tasks[n].effect
        /\ journal' = [journal EXCEPT ![n] = IF @ = "none" THEN "applying" ELSE @]
        /\ \/ Commit(r, Bound(r, n)) /\ Goto(e, "spawn", Bound(r, n), n, None)
           \/ Conflict(r) /\ Goto(e, "finish", Bound(r, n), n, "uncertain")
        /\ UNCHANGED <<begun, seen, environment>>

\* The prompt is invalid or the plan is refused: nothing was launched by this call.
RefuseAgent(e) ==
    /\ loop[e].pc = "agent"
    /\ loop[e].task \notin reported
    /\ ~loop[e].run.tasks[loop[e].task].effect
    /\ Finish(e, "failed")
    /\ UNCHANGED <<run, journal, begun, seen, environment>>

ResumeAgent(e) ==
    /\ loop[e].pc = "agent"
    /\ loop[e].task \notin reported
    /\ loop[e].run.tasks[loop[e].task].effect
    /\ At(e, "spawn")
    /\ UNCHANGED <<run, journal, begun, seen, environment>>

\* apply_agent_spawn on a plan that is still applying.
ApplySpawn(e) ==
    LET n == loop[e].task
    IN  /\ loop[e].pc = "spawn"
        /\ journal[n] = "applying"
        /\ \E outcome \in {"succeeded", "failed", "unknown"} :
             /\ journal' = [journal EXCEPT ![n] = outcome]
             /\ begun' = [begun EXCEPT ![n] = IF outcome = "failed" THEN @ ELSE @ + 1]
        /\ UNCHANGED <<run, loop, seen, environment>>

\* The receipt cannot be read or the launch answers with an error.
SpawnUnavailable(e) ==
    /\ loop[e].pc = "spawn"
    /\ Finish(e, "uncertain")
    /\ UNCHANGED <<run, journal, begun, seen, environment>>

\* A launched agent is polled again on a later tick.
SpawnSettled(e) ==
    LET n == loop[e].task
    IN  /\ loop[e].pc = "spawn"
        /\ \/ journal[n] = "succeeded" /\ Return(e) /\ UNCHANGED seen
           \/ /\ journal[n] = "failed"
              /\ Finish(e, "failed")
              /\ seen' = seen \cup {<<n, "failed">>}
           \/ journal[n] = "unknown" /\ Finish(e, "uncertain") /\ UNCHANGED seen
        /\ UNCHANGED <<run, journal, begun, environment>>

-----------------------------------------------------------------------------
(* advance(), after the effect: the result is recorded.                    *)

\* Outputs that do not fit the action's contract make a completion a failure.
Outcomes(r, n, result) ==
    CASE result = "completed" -> {Completed(r, n), Failed(r, n, FALSE)}
      [] result = "failed"    -> {Failed(r, n, FALSE)}
      [] result = "uncertain" -> {Failed(r, n, TRUE)}

Record(e) ==
    LET r == loop[e].run
    IN  /\ loop[e].pc = "finish"
        /\ holder = e
        /\ \/ \E next \in Outcomes(r, loop[e].task, loop[e].result) : Commit(r, next)
           \/ Conflict(r)
        /\ Return(e)
        /\ UNCHANGED <<journal, begun, seen, environment>>

-----------------------------------------------------------------------------
(* The environment.                                                        *)

\* The worker of a launched agent completes its dispatch (see InteractionStore).
Report(n) ==
    /\ Kind[n] = "agent"
    /\ journal[n] \in {"succeeded", "unknown"}
    /\ n \notin reported
    /\ reported' = reported \cup {n}
    /\ UNCHANGED <<run, loop, holder, journal, begun, seen, takeovers, crashes>>

\* Another backend process becomes the authority; the old one runs on.
Takeover(e) ==
    /\ holder # e
    /\ takeovers < MaxTakeovers
    /\ holder' = e
    /\ takeovers' = takeovers + 1
    /\ UNCHANGED <<run, loop, journal, reported, begun, seen, crashes>>

\* A process stops wherever it is, and starts again with nothing in memory.
Crash(e) ==
    /\ loop[e].pc # "idle"
    /\ crashes < MaxCrashes
    /\ crashes' = crashes + 1
    /\ Return(e)
    /\ UNCHANGED <<run, holder, journal, reported, begun, seen, takeovers>>

-----------------------------------------------------------------------------
Init ==
    /\ run = [revision |-> 1, tasks |-> [n \in Action |-> Pending]]
    /\ loop = [e \in Executor |-> Idle]
    /\ holder \in Executor
    /\ journal = [n \in Action |-> "none"]
    /\ reported = {}
    /\ begun = [n \in Action |-> 0]
    /\ seen = {}
    /\ takeovers = 0
    /\ crashes = 0

Step(e) ==
    \/ Load(e) \/ FailLostCommand(e) \/ StartNext(e) \/ ResumeStarted(e)
    \/ LoseAuthority(e) \/ Admit(e)
    \/ RefuseCommand(e) \/ SpawnCommand(e) \/ CommandEnds(e)
    \/ AgentReported(e) \/ AgentTimesOut(e) \/ PlanAgent(e) \/ RefuseAgent(e)
    \/ ResumeAgent(e) \/ ApplySpawn(e) \/ SpawnUnavailable(e) \/ SpawnSettled(e)
    \/ Record(e)

Next ==
    \/ \E e \in Executor : Step(e) \/ Takeover(e) \/ Crash(e)
    \/ \E n \in Action : Report(n)

Spec == Init /\ [][Next]_vars

\* The loop ticks every three seconds and every await in advance() is bounded; a
\* launched agent that never reports is given up when its timeout has passed.
FairSpec ==
    /\ Spec
    /\ \A e \in Executor : WF_vars(Step(e)) /\ SF_vars(AgentReported(e) \/ AgentTimesOut(e))

-----------------------------------------------------------------------------
TaskRecord == [state : {"pending", "started", "completed", "failed"},
               effect : BOOLEAN, uncertain : BOOLEAN]
RunRecord == [revision : Nat, tasks : [Action -> TaskRecord]]

(* Every variable has its type. *)
TypeOK ==
    /\ run \in RunRecord
    /\ loop \in [Executor -> [pc : {"idle", "loaded", "started", "command", "running", "agent",
                                    "spawn", "finish"},
                              run : {None} \cup RunRecord,
                              task : Action \cup {0},
                              result : {None, "completed", "failed", "uncertain"}]]
    /\ holder \in Executor
    /\ journal \in [Action -> {"none", "applying", "succeeded", "failed", "unknown"}]
    /\ reported \subseteq Action
    /\ begun \in [Action -> Nat]
    /\ seen \subseteq Action \X {"completed", "failed"}
    /\ takeovers \in 0 .. MaxTakeovers
    /\ crashes \in 0 .. MaxCrashes

-----------------------------------------------------------------------------
(* Safety *)

\* The effect of an action begins at most once, whatever crashes, changes of authority
\* and stale snapshots ("another executor must never assume it is safe to repeat").  The
\* effect of an agent is its plan: what repeated applies of one plan do is AgentSpawn's.
EffectAtMostOnce == \A n \in Action : begun[n] <= 1

\* A result is never invented: an action on record as completed was seen to complete
\* by some executor, and a failure that is not marked uncertain is one where nothing
\* happened or whose outcome was seen.
RecordedResultsWereSeen ==
    \A n \in Action :
        /\ run.tasks[n].state = "completed" => <<n, "completed">> \in seen
        /\ run.tasks[n].state = "failed" /\ ~run.tasks[n].uncertain =>
             begun[n] = 0 \/ \E result \in {"completed", "failed"} : <<n, result>> \in seen

\* An agent is launched only from a plan that is bound to the run, so that every later
\* executor finds the operation and never plans another.
LaunchIsBound ==
    \A n \in Action : Kind[n] = "agent" /\ begun[n] > 0 => run.tasks[n].effect

\* What the record says of an action, with an uncertain failure as an outcome of its own.
RecordedState(task) == IF task.state = "failed" /\ task.uncertain THEN "uncertain" ELSE task.state

Sequential == INSTANCE SequentialRun WITH
    record <- [n \in Action |-> RecordedState(run.tasks[n])],
    performed <- {n \in Action : begun[n] > 0}

\* The run implements a sequential run: one action at a time, in order, each effect
\* after its recorded start, nothing after a failure.
ImplementsSequentialRun == Sequential!ASpec

\* Every run is settled in the end: no crash, takeover or silent agent leaves it open.
RunSettles == <>Settled(run)
=============================================================================
