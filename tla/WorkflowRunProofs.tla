------------------------- MODULE WorkflowRunProofs -------------------------
(***************************************************************************)
(* Proofs about WorkflowRun for every set of executors, every number and   *)
(* kind of actions and any number of crashes and changes of authority.     *)
(***************************************************************************)
EXTENDS WorkflowRun, TLAPS

-----------------------------------------------------------------------------
(* The inductive invariant.                                                *)

\* The steps of advance() between the recorded start and the recorded result.
Working == {"started", "command", "running", "agent", "spawn", "finish"}

\* An executor works on an action that it knows as started, with the steps of its kind.
Grounded ==
    \A e \in Executor :
        /\ loop[e].pc # "idle" => loop[e].run \in RunRecord
        /\ loop[e].pc = "loaded" => \A n \in Action :
             loop[e].run.tasks[n].state # "pending" => run.tasks[n].state # "pending"
        /\ loop[e].pc \in Working =>
             /\ loop[e].task \in Action
             /\ loop[e].run.tasks[loop[e].task].state = "started"
             /\ run.tasks[loop[e].task].state # "pending"
        /\ loop[e].pc \in {"command", "running"} => Kind[loop[e].task] = "command"
        /\ loop[e].pc \in {"agent", "spawn"} => Kind[loop[e].task] = "agent"
        /\ loop[e].pc = "finish" => loop[e].result \in {"completed", "failed", "uncertain"}

\* A command belongs to the executor that started it, until it is given up for lost.
Owned ==
    \A e \in Executor :
        loop[e].pc \in Working /\ Kind[loop[e].task] = "command" =>
            /\ \A f \in Executor : loop[f].pc \in Working /\ loop[f].task = loop[e].task => f = e
            /\ RecordedState(run.tasks[loop[e].task]) \in {"started", "uncertain"}
            /\ loop[e].pc \in {"started", "command"} => begun[loop[e].task] = 0
            /\ loop[e].pc = "running" => begun[loop[e].task] = 1

\* A snapshot never knows of a plan that the record does not; only a plan that is known
\* to be bound is applied.
PlansKnown ==
    \A e \in Executor :
        /\ loop[e].pc \in {"loaded", "started", "agent", "spawn"} =>
             \A n \in Action : loop[e].run.tasks[n].effect => run.tasks[n].effect
        /\ loop[e].pc = "spawn" => loop[e].run.tasks[loop[e].task].effect

\* What has begun: nothing of an action that is pending, at most once a command, and an
\* agent exactly when its launch was journalled as applied.
BegunAsKnown ==
    \A n \in Action :
        /\ begun[n] \in {0, 1}
        /\ run.tasks[n].state = "pending" => begun[n] = 0
        /\ Kind[n] = "agent" =>
             (begun[n] = 1 <=> journal[n] \in {"succeeded", "unknown"})
        /\ n \in reported => Kind[n] = "agent" /\ journal[n] \in {"succeeded", "unknown"}

\* What was seen really happened: a completion after a beginning, and the outcome of an
\* agent after its launch was decided.
SeenHappened ==
    \A n \in Action :
        /\ <<n, "completed">> \in seen => begun[n] = 1
        /\ \A result \in {"completed", "failed"} :
             <<n, result>> \in seen /\ Kind[n] = "agent" =>
                 journal[n] \in {"succeeded", "failed", "unknown"}

\* A result in an executor's hands was seen, or the executor knows that nothing began.
ResultsHeld ==
    \A e \in Executor : loop[e].pc = "finish" =>
        /\ loop[e].result = "completed" => <<loop[e].task, "completed">> \in seen
        /\ loop[e].result = "failed" =>
             \/ <<loop[e].task, "failed">> \in seen
             \/ Kind[loop[e].task] = "command" /\ begun[loop[e].task] = 0
             \/ Kind[loop[e].task] = "agent" /\ ~loop[e].run.tasks[loop[e].task].effect

\* A result on record was seen, or nothing began and nothing will.
ResultsRecorded ==
    \A n \in Action :
        /\ run.tasks[n].state = "completed" => <<n, "completed">> \in seen
        /\ run.tasks[n].state = "failed" /\ ~run.tasks[n].uncertain =>
             \/ \E result \in {"completed", "failed"} : <<n, result>> \in seen
             \/ Kind[n] = "command" /\ begun[n] = 0
             \/ Kind[n] = "agent" /\ ~run.tasks[n].effect

IInv ==
    /\ TypeOK
    /\ Grounded
    /\ Owned
    /\ PlansKnown
    /\ BegunAsKnown
    /\ LaunchIsBound
    /\ SeenHappened
    /\ ResultsHeld
    /\ ResultsRecorded

-----------------------------------------------------------------------------
(* The transitions of a run record.                                        *)

TaskOf(state, effect, uncertain) == [state |-> state, effect |-> effect, uncertain |-> uncertain]

\* The record next is r with the record of task n replaced.
Replaces(r, n, next, state, effect, uncertain) ==
    /\ next \in RunRecord
    /\ next.tasks[n].state = state
    /\ next.tasks[n].effect <=> effect
    /\ next.tasks[n].uncertain <=> uncertain
    /\ \A m \in Action \ {n} : next.tasks[m] = r.tasks[m]

(* Replacing the record of one task leaves the others as they were. *)
LEMMA TouchedTasks ==
    ASSUME NEW r \in RunRecord, NEW n \in Action, NEW effect \in BOOLEAN, NEW uncertain \in BOOLEAN,
           NEW state \in {"pending", "started", "completed", "failed"}
    PROVE  Replaces(r, n, Touched(r, n, TaskOf(state, effect, uncertain)), state, effect, uncertain)
<1> DEFINE task == TaskOf(state, effect, uncertain)
<1>1. /\ task \in TaskRecord
      /\ task.state = state /\ task.effect = effect /\ task.uncertain = uncertain
  BY DEF TaskOf, TaskRecord
<1> HIDE DEF task
<1>2. /\ Touched(r, n, task) \in RunRecord
      /\ Touched(r, n, task).tasks[n] = task
      /\ \A m \in Action \ {n} : Touched(r, n, task).tasks[m] = r.tasks[m]
  BY <1>1 DEF Touched, RunRecord
<1>3. Replaces(r, n, Touched(r, n, task), state, effect, uncertain)
  BY <1>1, <1>2, Zenon DEF Replaces
<1> QED BY <1>3 DEF task

(* The updates of a task record by start, bind, complete and fail. *)
LEMMA TaskUpdates ==
    ASSUME NEW t \in TaskRecord, NEW u \in BOOLEAN
    PROVE  /\ [t EXCEPT !.state = "started"] = TaskOf("started", t.effect, t.uncertain)
           /\ [t EXCEPT !.effect = TRUE] = TaskOf(t.state, TRUE, t.uncertain)
           /\ [t EXCEPT !.state = "completed"] = TaskOf("completed", t.effect, t.uncertain)
           /\ [t EXCEPT !.state = "failed", !.uncertain = u] = TaskOf("failed", t.effect, u)
<1>1. [t EXCEPT !.state = "started"] = TaskOf("started", t.effect, t.uncertain)
  BY DEF TaskRecord, TaskOf
<1>2. [t EXCEPT !.effect = TRUE] = TaskOf(t.state, TRUE, t.uncertain)
  <2> DEFINE b == [t EXCEPT !.effect = TRUE]
  <2>1. b.state = t.state /\ b.effect = TRUE /\ b.uncertain = t.uncertain /\ b \in TaskRecord
    BY DEF TaskRecord
  <2> HIDE DEF b
  <2>2. b = [state |-> t.state, effect |-> TRUE, uncertain |-> t.uncertain]
    BY <2>1 DEF TaskRecord
  <2> QED BY <2>2 DEF b, TaskOf
<1>3. [t EXCEPT !.state = "completed"] = TaskOf("completed", t.effect, t.uncertain)
  BY DEF TaskRecord, TaskOf
<1>4. [t EXCEPT !.state = "failed", !.uncertain = u] = TaskOf("failed", t.effect, u)
  <2> DEFINE a == [t EXCEPT !.state = "failed", !.uncertain = u]
  <2>1. a.state = "failed" /\ a.effect = t.effect /\ a.uncertain = u /\ a \in TaskRecord
    BY DEF TaskRecord
  <2> HIDE DEF a
  <2>2. a = [state |-> "failed", effect |-> t.effect, uncertain |-> u]
    BY <2>1 DEF TaskRecord
  <2> QED BY <2>2 DEF a, TaskOf
<1> QED BY <1>1, <1>2, <1>3, <1>4

(* What the transitions of ExecutingWorkflow do to a run record. *)
LEMMA TransitionTasks ==
    ASSUME NEW r \in RunRecord, NEW n \in Action, NEW u \in BOOLEAN
    PROVE  LET t == r.tasks[n]
           IN  /\ Replaces(r, n, Started(r, n), "started", t.effect, t.uncertain)
               /\ Replaces(r, n, Bound(r, n), t.state, TRUE, t.uncertain)
               /\ Replaces(r, n, Completed(r, n), "completed", t.effect, t.uncertain)
               /\ Replaces(r, n, Failed(r, n, u), "failed", t.effect, u)
<1> DEFINE t == r.tasks[n]
<1>1. /\ t \in TaskRecord
      /\ t.state \in {"pending", "started", "completed", "failed"}
      /\ t.effect \in BOOLEAN /\ t.uncertain \in BOOLEAN
  BY DEF RunRecord, TaskRecord
<1>2. /\ Started(r, n) = Touched(r, n, TaskOf("started", t.effect, t.uncertain))
      /\ Bound(r, n) = Touched(r, n, TaskOf(t.state, TRUE, t.uncertain))
      /\ Completed(r, n) = Touched(r, n, TaskOf("completed", t.effect, t.uncertain))
      /\ Failed(r, n, u) = Touched(r, n, TaskOf("failed", t.effect, u))
  BY <1>1, TaskUpdates, Zenon DEF Started, Bound, Completed, Failed
<1> HIDE DEF t
<1>3. /\ Replaces(r, n, Started(r, n), "started", t.effect, t.uncertain)
      /\ Replaces(r, n, Bound(r, n), t.state, TRUE, t.uncertain)
      /\ Replaces(r, n, Completed(r, n), "completed", t.effect, t.uncertain)
      /\ Replaces(r, n, Failed(r, n, u), "failed", t.effect, u)
  <2>1. /\ TRUE \in BOOLEAN
        /\ {"started", "completed", "failed"}
             \subseteq {"pending", "started", "completed", "failed"}
    OBVIOUS
  <2> QED BY <1>1, <1>2, <2>1, TouchedTasks, Zenon
<1> QED BY <1>3 DEF t

-----------------------------------------------------------------------------
(* Every step keeps the invariant.                                         *)

(* The conjuncts about the record and the world do not depend on what executors hold. *)
LEMMA MemoryOnly ==
    ASSUME IInv, UNCHANGED <<run, journal, reported, begun, seen>>
    PROVE  BegunAsKnown' /\ LaunchIsBound' /\ SeenHappened' /\ ResultsRecorded'
  BY DEF IInv, BegunAsKnown, LaunchIsBound, SeenHappened, ResultsRecorded

(* An executor that gives up leaves everything as it is. *)
LEMMA GivenUp ==
    ASSUME IInv, NEW e \in Executor, Return(e),
           UNCHANGED <<run, journal, begun, seen, environment>>
    PROVE  IInv'
<1> USE WorkflowAssumption DEF Return, Idle, environment, Working
<1>1. TypeOK' /\ Grounded'
  BY DEF IInv, TypeOK, Grounded
<1>2. Owned'
  BY DEF IInv, TypeOK, Grounded, Owned
<1>3. PlansKnown' /\ ResultsHeld'
  BY DEF IInv, TypeOK, Grounded, PlansKnown, ResultsHeld
<1> QED BY <1>1, <1>2, <1>3, MemoryOnly DEF IInv

(* An executor that restores the run holds the record itself. *)
LEMMA LoadStep ==
    ASSUME IInv, NEW e \in Executor, Load(e)
    PROVE  IInv'
<1> USE WorkflowAssumption DEF Load, Goto, environment, Working
<1>1. TypeOK' /\ Grounded'
  BY DEF IInv, TypeOK, Grounded
<1>2. Owned'
  BY DEF IInv, TypeOK, Grounded, Owned
<1>3. PlansKnown'
  BY DEF IInv, TypeOK, Grounded, PlansKnown
<1>4. ResultsHeld'
  BY DEF IInv, TypeOK, Grounded, Owned, ResultsHeld
<1> QED BY <1>1, <1>2, <1>3, <1>4, MemoryOnly DEF IInv

(* A started agent action is taken up again; a started command never is. *)
LEMMA ResumeStartedStep ==
    ASSUME IInv, NEW e \in Executor, ResumeStarted(e)
    PROVE  IInv'
<1> USE WorkflowAssumption DEF ResumeStarted, Goto, LostCommand, Has, environment, Working
<1>1. TypeOK' /\ Grounded'
  BY DEF IInv, TypeOK, Grounded
<1>2. Owned'
  BY DEF IInv, TypeOK, Grounded, Owned
<1>3. PlansKnown'
  BY DEF IInv, TypeOK, Grounded, PlansKnown
<1>4. ResultsHeld'
  BY DEF IInv, TypeOK, Grounded, Owned, ResultsHeld
<1> QED BY <1>1, <1>2, <1>3, <1>4, MemoryOnly DEF IInv

(* An executor without the authority gives up. *)
LEMMA LoseAuthorityStep ==
    ASSUME IInv, NEW e \in Executor, LoseAuthority(e)
    PROVE  IInv'
  BY GivenUp DEF LoseAuthority

(* An executor with the authority goes on with the action of its kind. *)
LEMMA AdmitStep ==
    ASSUME IInv, NEW e \in Executor, Admit(e)
    PROVE  IInv'
<1> USE WorkflowAssumption DEF Admit, Goto, At, environment, Working
<1>1. TypeOK' /\ Grounded'
  BY DEF IInv, TypeOK, Grounded
<1>2. Owned'
  BY DEF IInv, TypeOK, Grounded, Owned
<1>3. PlansKnown'
  BY DEF IInv, TypeOK, Grounded, PlansKnown
<1>4. ResultsHeld'
  BY DEF IInv, TypeOK, Grounded, Owned, ResultsHeld
<1> QED BY <1>1, <1>2, <1>3, <1>4, MemoryOnly DEF IInv

(* A command that is refused never began: its executor is the only one that could. *)
LEMMA RefuseCommandStep ==
    ASSUME IInv, NEW e \in Executor, RefuseCommand(e)
    PROVE  IInv'
<1> USE WorkflowAssumption DEF RefuseCommand, Goto, Finish, environment, Working
<1>1. TypeOK' /\ Grounded'
  BY DEF IInv, TypeOK, Grounded
<1>2. Owned'
  BY DEF IInv, TypeOK, Grounded, Owned
<1>3. PlansKnown'
  BY DEF IInv, TypeOK, Grounded, PlansKnown
<1>4. ResultsHeld'
  BY DEF IInv, TypeOK, Grounded, Owned, ResultsHeld
<1> QED BY <1>1, <1>2, <1>3, <1>4, MemoryOnly DEF IInv

(* An agent that does not report in time leaves an uncertain result. *)
LEMMA AgentTimesOutStep ==
    ASSUME IInv, NEW e \in Executor, AgentTimesOut(e)
    PROVE  IInv'
<1> USE WorkflowAssumption DEF AgentTimesOut, Goto, Finish, environment, Working
<1>1. TypeOK' /\ Grounded'
  BY DEF IInv, TypeOK, Grounded
<1>2. Owned'
  BY DEF IInv, TypeOK, Grounded, Owned
<1>3. PlansKnown'
  BY DEF IInv, TypeOK, Grounded, PlansKnown
<1>4. ResultsHeld'
  BY DEF IInv, TypeOK, Grounded, Owned, ResultsHeld
<1> QED BY <1>1, <1>2, <1>3, <1>4, MemoryOnly DEF IInv

(* A refusal is definitive only while the executor knows of no plan. *)
LEMMA RefuseAgentStep ==
    ASSUME IInv, NEW e \in Executor, RefuseAgent(e)
    PROVE  IInv'
<1> USE WorkflowAssumption DEF RefuseAgent, Goto, Finish, environment, Working
<1>1. TypeOK' /\ Grounded'
  BY DEF IInv, TypeOK, Grounded
<1>2. Owned'
  BY DEF IInv, TypeOK, Grounded, Owned
<1>3. PlansKnown'
  BY DEF IInv, TypeOK, Grounded, PlansKnown
<1>4. ResultsHeld'
  BY DEF IInv, TypeOK, Grounded, Owned, ResultsHeld
<1> QED BY <1>1, <1>2, <1>3, <1>4, MemoryOnly DEF IInv

(* A plan that the executor knows is bound to the record. *)
LEMMA ResumeAgentStep ==
    ASSUME IInv, NEW e \in Executor, ResumeAgent(e)
    PROVE  IInv'
<1> USE WorkflowAssumption DEF ResumeAgent, Goto, At, environment, Working
<1>1. TypeOK' /\ Grounded'
  BY DEF IInv, TypeOK, Grounded
<1>2. Owned'
  BY DEF IInv, TypeOK, Grounded, Owned
<1>3. PlansKnown'
  BY DEF IInv, TypeOK, Grounded, PlansKnown
<1>4. ResultsHeld'
  BY DEF IInv, TypeOK, Grounded, Owned, ResultsHeld
<1> QED BY <1>1, <1>2, <1>3, <1>4, MemoryOnly DEF IInv

(* A launch without an answer leaves an uncertain result. *)
LEMMA SpawnUnavailableStep ==
    ASSUME IInv, NEW e \in Executor, SpawnUnavailable(e)
    PROVE  IInv'
<1> USE WorkflowAssumption DEF SpawnUnavailable, Goto, Finish, environment, Working
<1>1. TypeOK' /\ Grounded'
  BY DEF IInv, TypeOK, Grounded
<1>2. Owned'
  BY DEF IInv, TypeOK, Grounded, Owned
<1>3. PlansKnown'
  BY DEF IInv, TypeOK, Grounded, PlansKnown
<1>4. ResultsHeld'
  BY DEF IInv, TypeOK, Grounded, Owned, ResultsHeld
<1> QED BY <1>1, <1>2, <1>3, <1>4, MemoryOnly DEF IInv

(* A change of the authority changes nothing else. *)
LEMMA TakeoverStep ==
    ASSUME IInv, NEW e \in Executor, Takeover(e)
    PROVE  IInv'
<1> USE WorkflowAssumption DEF Takeover, Working
<1>1. TypeOK' /\ Grounded'
  BY DEF IInv, TypeOK, Grounded
<1>2. Owned'
  BY DEF IInv, TypeOK, Grounded, Owned
<1>3. PlansKnown' /\ ResultsHeld'
  BY DEF IInv, TypeOK, Grounded, PlansKnown, ResultsHeld
<1> QED BY <1>1, <1>2, <1>3, MemoryOnly DEF IInv

(* A crash loses what the executor held and nothing else. *)
LEMMA CrashStep ==
    ASSUME IInv, NEW e \in Executor, Crash(e)
    PROVE  IInv'
<1> USE WorkflowAssumption DEF Crash, Return, Idle, Working
<1>1. TypeOK' /\ Grounded'
  BY DEF IInv, TypeOK, Grounded
<1>2. Owned'
  BY DEF IInv, TypeOK, Grounded, Owned
<1>3. PlansKnown' /\ ResultsHeld'
  BY DEF IInv, TypeOK, Grounded, PlansKnown, ResultsHeld
<1> QED BY <1>1, <1>2, <1>3, MemoryOnly DEF IInv

(* Only the worker of a launched agent reports. *)
LEMMA ReportStep ==
    ASSUME IInv, NEW n \in Action, Report(n)
    PROVE  IInv'
<1>1. TypeOK' /\ Grounded' /\ Owned' /\ PlansKnown'
  BY DEF IInv, TypeOK, Grounded, Owned, PlansKnown, Report
<1>2. BegunAsKnown'
  BY DEF IInv, BegunAsKnown, Report
<1>3. LaunchIsBound' /\ SeenHappened' /\ ResultsHeld' /\ ResultsRecorded'
  BY DEF IInv, LaunchIsBound, SeenHappened, ResultsHeld, ResultsRecorded, Report
<1> QED BY <1>1, <1>2, <1>3 DEF IInv

(* A command is spawned by the executor that started it, which nobody else repeats. *)
LEMMA SpawnCommandStep ==
    ASSUME IInv, NEW e \in Executor, SpawnCommand(e)
    PROVE  IInv'
<1> USE WorkflowAssumption DEF SpawnCommand, At, Goto, environment, Working
<1>1. TypeOK' /\ Grounded'
  BY DEF IInv, TypeOK, Grounded
<1>2. Owned'
  BY DEF IInv, TypeOK, Grounded, Owned
<1>3. PlansKnown'
  BY DEF IInv, TypeOK, Grounded, PlansKnown
<1>4. BegunAsKnown' /\ LaunchIsBound'
  BY DEF IInv, TypeOK, Grounded, Owned, BegunAsKnown, LaunchIsBound
<1>5. /\ loop[e].task \in Action /\ Kind[loop[e].task] = "command"
      /\ begun[loop[e].task] = 0 /\ begun'[loop[e].task] = 1
      /\ \A m \in Action \ {loop[e].task} : begun'[m] = begun[m]
      /\ RecordedState(run.tasks[loop[e].task]) \in {"started", "uncertain"}
      /\ UNCHANGED <<run, seen, journal>>
  BY DEF IInv, TypeOK, Grounded, Owned
<1>6. SeenHappened'
  BY <1>5 DEF IInv, SeenHappened
<1>7. ResultsHeld'
  BY DEF IInv, TypeOK, Grounded, Owned, ResultsHeld
<1>8. ResultsRecorded'
  BY <1>5 DEF IInv, ResultsRecorded, RecordedState
<1> QED BY <1>1, <1>2, <1>3, <1>4, <1>6, <1>7, <1>8 DEF IInv

(* A command that ended had begun; its executor alone holds what it saw. *)
LEMMA CommandEndsStep ==
    ASSUME IInv, NEW e \in Executor, CommandEnds(e)
    PROVE  IInv'
<1> USE WorkflowAssumption DEF CommandEnds, Finish, Goto, environment, Working
<1>1. TypeOK' /\ Grounded'
  BY DEF IInv, TypeOK, Grounded
<1>2. Owned'
  BY DEF IInv, TypeOK, Grounded, Owned
<1>3. PlansKnown' /\ BegunAsKnown' /\ LaunchIsBound'
  BY DEF IInv, TypeOK, Grounded, PlansKnown, BegunAsKnown, LaunchIsBound
<1>4. /\ begun[loop[e].task] = 1 /\ Kind[loop[e].task] = "command"
      /\ loop[e].task \in Action
      /\ \A n \in Action, result \in {"completed", "failed"} :
           <<n, result>> \in seen' => <<n, result>> \in seen \/ n = loop[e].task
      /\ seen \subseteq seen'
      /\ UNCHANGED <<run, journal, begun>>
  BY DEF IInv, TypeOK, Grounded, Owned
<1>5. SeenHappened'
  BY <1>4 DEF IInv, SeenHappened
<1>6. ResultsHeld'
  BY DEF IInv, TypeOK, Grounded, Owned, ResultsHeld
<1>7. ResultsRecorded'
  BY <1>4 DEF IInv, ResultsRecorded
<1> QED BY <1>1, <1>2, <1>3, <1>5, <1>6, <1>7 DEF IInv

(* An agent that reported had been launched. *)
LEMMA AgentReportedStep ==
    ASSUME IInv, NEW e \in Executor, AgentReported(e)
    PROVE  IInv'
<1> USE WorkflowAssumption DEF AgentReported, Finish, Goto, environment, Working
<1>1. TypeOK' /\ Grounded'
  BY DEF IInv, TypeOK, Grounded
<1>2. Owned'
  BY DEF IInv, TypeOK, Grounded, Owned
<1>3. PlansKnown' /\ BegunAsKnown' /\ LaunchIsBound'
  BY DEF IInv, TypeOK, Grounded, PlansKnown, BegunAsKnown, LaunchIsBound
<1>4. SeenHappened'
  BY DEF IInv, TypeOK, Grounded, BegunAsKnown, SeenHappened
<1>5. ResultsHeld'
  BY DEF IInv, TypeOK, Grounded, ResultsHeld
<1>6. ResultsRecorded'
  BY DEF IInv, TypeOK, Grounded, ResultsRecorded
<1> QED BY <1>1, <1>2, <1>3, <1>4, <1>5, <1>6 DEF IInv

(* A plan is applied once, and only one that is bound to the record. *)
LEMMA ApplySpawnStep ==
    ASSUME IInv, NEW e \in Executor, ApplySpawn(e)
    PROVE  IInv'
<1> USE WorkflowAssumption DEF environment, Working
<1>1. TypeOK' /\ Grounded' /\ PlansKnown'
  BY DEF IInv, TypeOK, Grounded, PlansKnown, ApplySpawn
<1>2. PICK n \in Action :
        /\ n = loop[e].task /\ Kind[n] = "agent" /\ journal[n] = "applying"
        /\ run.tasks[n].effect /\ run.tasks[n].state # "pending"
  BY DEF IInv, TypeOK, Grounded, PlansKnown, ApplySpawn
<1>3. /\ UNCHANGED <<run, loop, seen, reported>>
      /\ \A m \in Action \ {n} : begun'[m] = begun[m] /\ journal'[m] = journal[m]
      /\ \/ journal'[n] \in {"succeeded", "unknown"} /\ begun'[n] = begun[n] + 1
         \/ journal'[n] = "failed" /\ begun'[n] = begun[n]
  BY <1>2 DEF IInv, TypeOK, ApplySpawn
<1>4. begun[n] = 0
  BY <1>2 DEF IInv, BegunAsKnown
<1>5. Owned'
  BY <1>2, <1>3 DEF IInv, Grounded, Owned
<1>6. BegunAsKnown'
  BY <1>2, <1>3, <1>4 DEF IInv, BegunAsKnown
<1>7. LaunchIsBound'
  BY <1>2, <1>3 DEF IInv, LaunchIsBound
<1>8. SeenHappened'
  BY <1>2, <1>3, <1>4 DEF IInv, SeenHappened
<1>9. ResultsHeld'
  BY <1>2, <1>3 DEF IInv, Grounded, ResultsHeld
<1>10. ResultsRecorded'
  BY <1>2, <1>3, <1>4 DEF IInv, ResultsRecorded
<1> QED BY <1>1, <1>5, <1>6, <1>7, <1>8, <1>9, <1>10 DEF IInv

(* A settled launch: only one that failed is a definitive result. *)
LEMMA SpawnSettledStep ==
    ASSUME IInv, NEW e \in Executor, SpawnSettled(e)
    PROVE  IInv'
<1> USE WorkflowAssumption DEF SpawnSettled, Finish, Return, Idle, Goto, environment, Working
<1>1. TypeOK' /\ Grounded'
  BY DEF IInv, TypeOK, Grounded
<1>2. PICK n \in Action : n = loop[e].task /\ Kind[n] = "agent"
  BY DEF IInv, TypeOK, Grounded
<1>3. /\ UNCHANGED <<run, journal, begun, reported>>
      /\ \A f \in Executor \ {e} : loop'[f] = loop[f]
      /\ loop'[e].pc \in Working => loop'[e].task = n
  BY <1>2 DEF IInv, TypeOK, Grounded
<1>4. /\ seen \subseteq seen'
      /\ \A m \in Action, result \in {"completed", "failed"} :
           <<m, result>> \in seen' =>
               \/ <<m, result>> \in seen
               \/ m = n /\ result = "failed" /\ journal[n] = "failed"
  BY <1>2
<1>5. Owned'
  BY <1>2, <1>3 DEF IInv, TypeOK, Grounded, Owned
<1>6. PlansKnown' /\ BegunAsKnown' /\ LaunchIsBound'
  BY DEF IInv, TypeOK, Grounded, PlansKnown, BegunAsKnown, LaunchIsBound
<1>7. SeenHappened'
  BY <1>3, <1>4 DEF IInv, SeenHappened
<1>8. ResultsHeld'
  BY DEF IInv, TypeOK, Grounded, ResultsHeld
<1>9. ResultsRecorded'
  BY <1>3, <1>4 DEF IInv, ResultsRecorded
<1> QED BY <1>1, <1>5, <1>6, <1>7, <1>8, <1>9 DEF IInv

(* A command found started is given up as uncertain, whoever may be running it. *)
LEMMA FailLostCommandStep ==
    ASSUME IInv, NEW e \in Executor, FailLostCommand(e)
    PROVE  IInv'
<1> USE WorkflowAssumption DEF environment, Working
<1>1. PICK n \in Action :
        /\ loop[e].run.tasks[n].state = "started" /\ Kind[n] = "command"
        /\ \/ Commit(loop[e].run, LostOutcome(loop[e].run, n))
           \/ Conflict(loop[e].run)
  BY DEF FailLostCommand, LostCommand, Has
<1>2. loop[e].pc = "loaded" /\ Return(e) /\ UNCHANGED <<journal, begun, seen, environment>>
  BY DEF FailLostCommand
<1>3. CASE Conflict(loop[e].run)
  BY <1>2, <1>3, GivenUp DEF Conflict
<1>4. CASE Commit(loop[e].run, LostOutcome(loop[e].run, n))
  <2>1. /\ run' = Failed(run, n, TRUE) /\ run \in RunRecord
        /\ run.tasks[n].state = "started" /\ Kind[n] = "command"
    BY <1>1, <1>4 DEF Commit, Current, LostOutcome, IInv, TypeOK
  <2>2. Replaces(run, n, run', "failed", run.tasks[n].effect, TRUE)
    BY <2>1, TransitionTasks
  <2> USE <1>2, <2>2 DEF Replaces, Return, Idle
  <2>3. TypeOK' /\ Grounded'
    BY DEF IInv, TypeOK, Grounded
  <2>4. Owned'
    BY DEF IInv, TypeOK, Grounded, Owned, RecordedState
  <2>5. PlansKnown'
    BY DEF IInv, TypeOK, Grounded, PlansKnown
  <2>6. BegunAsKnown'
    <3>1. \A m \in Action : run'.tasks[m].state = "pending" => run.tasks[m].state = "pending"
      OBVIOUS
    <3> QED BY ONLY IInv, <1>2, <3>1 DEF IInv, BegunAsKnown, environment
  <2>7. LaunchIsBound'
    BY <2>1 DEF IInv, TypeOK, LaunchIsBound
  <2>8. SeenHappened' /\ ResultsHeld'
    BY DEF IInv, TypeOK, SeenHappened, ResultsHeld
  <2>9. ResultsRecorded'
    BY DEF IInv, ResultsRecorded
  <2> QED BY <2>3, <2>4, <2>5, <2>6, <2>7, <2>8, <2>9 DEF IInv
<1> QED BY <1>1, <1>3, <1>4

(* The executor whose start is committed is the only one that works on the action. *)
LEMMA StartNextStep ==
    ASSUME IInv, NEW e \in Executor, StartNext(e)
    PROVE  IInv'
<1> USE WorkflowAssumption DEF environment, Working
<1>1. PICK n \in Action :
        /\ loop[e].run.tasks[n].state = "pending"
        /\ \/ /\ Commit(loop[e].run, Started(loop[e].run, n))
              /\ Goto(e, "started", Started(loop[e].run, n), n, None)
           \/ Conflict(loop[e].run) /\ Return(e)
  BY DEF StartNext, Startable, Has
<1>2. loop[e].pc = "loaded" /\ UNCHANGED <<journal, begun, seen, environment>>
  BY DEF StartNext
<1>3. CASE Conflict(loop[e].run) /\ Return(e)
  BY <1>2, <1>3, GivenUp DEF Conflict
<1>4. CASE /\ Commit(loop[e].run, Started(loop[e].run, n))
           /\ Goto(e, "started", Started(loop[e].run, n), n, None)
  <2>1. /\ run' = Started(run, n) /\ run \in RunRecord
        /\ run.tasks[n].state = "pending"
        /\ loop' = [loop EXCEPT ![e] = [pc |-> "started", run |-> run', task |-> n,
                                        result |-> None]]
    BY <1>1, <1>4 DEF Commit, Current, Goto, IInv, TypeOK
  <2>2. Replaces(run, n, run', "started", run.tasks[n].effect, run.tasks[n].uncertain)
    BY <2>1, TransitionTasks
  <2>3. \A f \in Executor : loop[f].pc \in Working => loop[f].task # n
    BY <2>1 DEF IInv, Grounded
  <2>4. begun[n] = 0
    BY <2>1 DEF IInv, BegunAsKnown
  <2> USE <1>2, <2>2 DEF Replaces
  <2>5. TypeOK'
    BY <2>1 DEF IInv, TypeOK
  <2>6. Grounded'
    <3>1. \A m \in Action : run'.tasks[m].state = "pending" => run.tasks[m].state = "pending"
      OBVIOUS
    <3>2. \A f \in Executor \ {e} : loop'[f] = loop[f]
      BY <2>1
    <3>3. /\ loop'[e].pc = "started" /\ loop'[e].run = run' /\ loop'[e].task = n
          /\ run' \in RunRecord /\ run'.tasks[n].state = "started"
      BY <2>1 DEF IInv, TypeOK
    <3> QED BY ONLY IInv, <3>1, <3>2, <3>3 DEF IInv, Grounded, Working
  <2>7. Owned'
    BY <2>1, <2>3, <2>4 DEF IInv, TypeOK, Grounded, Owned, RecordedState
  <2>8. PlansKnown'
    BY <2>1 DEF IInv, TypeOK, Grounded, PlansKnown
  <2>9. BegunAsKnown' /\ LaunchIsBound'
    BY DEF IInv, TypeOK, BegunAsKnown, LaunchIsBound
  <2>10. SeenHappened' /\ ResultsHeld'
    BY <2>1 DEF IInv, TypeOK, SeenHappened, ResultsHeld
  <2>11. ResultsRecorded'
    BY DEF IInv, ResultsRecorded
  <2> QED BY <2>5, <2>6, <2>7, <2>8, <2>9, <2>10, <2>11 DEF IInv
<1> QED BY <1>1, <1>3, <1>4

(* A plan is journalled once, and the executor applies it only when it is bound. *)
LEMMA PlanAgentStep ==
    ASSUME IInv, NEW e \in Executor, PlanAgent(e)
    PROVE  IInv'
<1> USE WorkflowAssumption DEF environment, Working
<1>1. PICK n \in Action :
        /\ n = loop[e].task /\ Kind[n] = "agent" /\ loop[e].pc = "agent"
        /\ loop[e].run \in RunRecord /\ loop[e].run.tasks[n].state = "started"
        /\ run.tasks[n].state # "pending"
  BY DEF IInv, Grounded, PlanAgent
<1>2. /\ journal' = [journal EXCEPT ![n] = IF @ = "none" THEN "applying" ELSE @]
      /\ UNCHANGED <<begun, seen, environment>>
  BY <1>1 DEF PlanAgent
<1>3. /\ \A m \in Action \ {n} : journal'[m] = journal[m]
      /\ journal'[n] = journal[n] \/ (journal[n] = "none" /\ journal'[n] = "applying")
      /\ journal' \in [Action -> {"none", "applying", "succeeded", "failed", "unknown"}]
  BY <1>2 DEF IInv, TypeOK
<1>4. /\ Bound(loop[e].run, n) \in RunRecord
      /\ Bound(loop[e].run, n).tasks[n].state = "started"
      /\ Bound(loop[e].run, n).tasks[n].effect
  <2>1. Replaces(loop[e].run, n, Bound(loop[e].run, n), "started", TRUE,
                 loop[e].run.tasks[n].uncertain)
    BY <1>1, TransitionTasks
  <2> QED BY <2>1 DEF Replaces
<1>5. SeenHappened'
  BY <1>2, <1>3 DEF IInv, SeenHappened
<1>6. CASE Conflict(loop[e].run) /\ Goto(e, "finish", Bound(loop[e].run, n), n, "uncertain")
  <2>1. loop' = [loop EXCEPT ![e] = [pc |-> "finish", run |-> Bound(loop[e].run, n), task |-> n,
                                     result |-> "uncertain"]]
    BY <1>6 DEF Goto
  <2>2. UNCHANGED run
    BY <1>6 DEF Conflict
  <2> USE <1>1, <1>2, <1>3, <1>4, <2>1, <2>2
  <2>3. TypeOK' /\ Grounded'
    BY DEF IInv, TypeOK, Grounded
  <2>4. Owned' /\ PlansKnown'
    BY DEF IInv, TypeOK, Grounded, Owned, PlansKnown
  <2>5. BegunAsKnown' /\ LaunchIsBound'
    BY DEF IInv, TypeOK, BegunAsKnown, LaunchIsBound
  <2>6. ResultsHeld' /\ ResultsRecorded'
    BY DEF IInv, TypeOK, ResultsHeld, ResultsRecorded
  <2> QED BY <1>5, <2>3, <2>4, <2>5, <2>6 DEF IInv
<1>7. CASE /\ Commit(loop[e].run, Bound(loop[e].run, n))
           /\ Goto(e, "spawn", Bound(loop[e].run, n), n, None)
  <2>1. /\ run' = Bound(run, n) /\ run \in RunRecord
        /\ run.tasks[n].state = "started"
        /\ loop' = [loop EXCEPT ![e] = [pc |-> "spawn", run |-> run', task |-> n, result |-> None]]
    BY <1>1, <1>7 DEF Commit, Current, Goto, IInv, TypeOK
  <2>2. Replaces(run, n, run', "started", TRUE, run.tasks[n].uncertain)
    BY <2>1, TransitionTasks
  <2>3. /\ run'.tasks[n].state = "started" /\ run'.tasks[n].effect
        /\ \A m \in Action \ {n} : run'.tasks[m] = run.tasks[m]
        /\ run' \in RunRecord
    BY <2>2 DEF Replaces
  <2>4. TypeOK'
    BY <1>1, <1>2, <1>3, <2>1, <2>3 DEF IInv, TypeOK
  <2>5. Grounded'
    <3>1. \A m \in Action : run'.tasks[m].state = "pending" => run.tasks[m].state = "pending"
      BY <2>3
    <3>2. \A f \in Executor \ {e} : loop'[f] = loop[f]
      BY <2>1
    <3>3. loop'[e].pc = "spawn" /\ loop'[e].run = run' /\ loop'[e].task = n
      BY <2>1 DEF IInv, TypeOK
    <3> QED BY ONLY IInv, <1>1, <2>3, <3>1, <3>2, <3>3 DEF IInv, Grounded, Working
  <2>6. Owned'
    BY <1>1, <1>2, <2>1, <2>3 DEF IInv, TypeOK, Grounded, Owned, RecordedState
  <2>7. PlansKnown'
    BY <1>1, <2>1, <2>3 DEF IInv, TypeOK, Grounded, PlansKnown
  <2>8. BegunAsKnown' /\ LaunchIsBound'
    BY <1>1, <1>2, <1>3, <2>1, <2>3 DEF IInv, TypeOK, BegunAsKnown, LaunchIsBound
  <2>9. ResultsHeld'
    BY <1>2, <2>1 DEF IInv, TypeOK, ResultsHeld
  <2>10. ResultsRecorded'
    BY <1>2, <2>3 DEF IInv, ResultsRecorded
  <2> QED BY <1>5, <2>4, <2>5, <2>6, <2>7, <2>8, <2>9, <2>10 DEF IInv
<1> QED BY <1>1, <1>6, <1>7 DEF PlanAgent

(* A result is recorded only by an executor whose snapshot is the record. *)
LEMMA RecordStep ==
    ASSUME IInv, NEW e \in Executor, Record(e)
    PROVE  IInv'
<1> USE WorkflowAssumption DEF environment, Working
<1>1. PICK n \in Action :
        /\ n = loop[e].task /\ loop[e].pc = "finish"
        /\ loop[e].run.tasks[n].state = "started"
        /\ loop[e].result \in {"completed", "failed", "uncertain"}
  BY DEF IInv, Grounded, Record
<1>2. Return(e) /\ UNCHANGED <<journal, begun, seen, environment>>
  BY DEF Record
<1>3. CASE Conflict(loop[e].run)
  BY <1>2, <1>3, GivenUp DEF Conflict
<1>4. ASSUME NEW next \in Outcomes(loop[e].run, n, loop[e].result), Commit(loop[e].run, next)
      PROVE  IInv'
  <2>1. run = loop[e].run /\ run' = next /\ run \in RunRecord /\ run.tasks[n].state = "started"
    BY <1>1, <1>4 DEF Commit, Current, IInv, TypeOK
  <2>2. \/ run' = Completed(run, n) /\ loop[e].result = "completed"
        \/ run' = Failed(run, n, FALSE) /\ loop[e].result \in {"completed", "failed"}
        \/ run' = Failed(run, n, TRUE) /\ loop[e].result = "uncertain"
    BY <1>1, <1>4, <2>1 DEF Outcomes
  <2>3. PICK state \in {"completed", "failed"}, u \in BOOLEAN :
          /\ Replaces(run, n, run', state, run.tasks[n].effect, u)
          /\ state = "completed" => loop[e].result = "completed"
          /\ state = "failed" /\ ~u => loop[e].result \in {"completed", "failed"}
    <3>1. run.tasks[n].uncertain \in BOOLEAN
      BY <2>1 DEF RunRecord, TaskRecord
    <3> QED BY <2>1, <2>2, <3>1, TransitionTasks
  <2> USE <1>2, <2>3 DEF Replaces, Return, Idle
  <2>4. TypeOK' /\ Grounded'
    BY DEF IInv, TypeOK, Grounded
  <2>5. Owned'
    BY <1>1 DEF IInv, TypeOK, Grounded, Owned
  <2>6. PlansKnown'
    BY DEF IInv, TypeOK, Grounded, PlansKnown
  <2>7. BegunAsKnown' /\ LaunchIsBound'
    BY <2>1 DEF IInv, TypeOK, BegunAsKnown, LaunchIsBound
  <2>8. SeenHappened' /\ ResultsHeld'
    BY DEF IInv, TypeOK, SeenHappened, ResultsHeld
  <2>9. ResultsRecorded'
    <3>1. state = "completed" => <<n, "completed">> \in seen
      BY <1>1 DEF IInv, ResultsHeld
    <3>2. state = "failed" /\ ~u =>
            \/ \E result \in {"completed", "failed"} : <<n, result>> \in seen
            \/ Kind[n] = "command" /\ begun[n] = 0
            \/ Kind[n] = "agent" /\ ~run.tasks[n].effect
      BY <1>1, <2>1 DEF IInv, ResultsHeld
    <3> QED BY <3>1, <3>2 DEF IInv, ResultsRecorded
  <2> QED BY <2>4, <2>5, <2>6, <2>7, <2>8, <2>9 DEF IInv
<1> QED BY <1>1, <1>3, <1>4 DEF Record

-----------------------------------------------------------------------------
(* The invariant holds initially and is kept, and the theorems.            *)

(* Nothing is started, held, begun or seen at first. *)
LEMMA InitIInv == Init => IInv
<1> SUFFICES ASSUME Init PROVE IInv
  OBVIOUS
<1> USE WorkflowAssumption DEF Init, Pending, Idle, Working
<1>1. TypeOK
  BY DEF TypeOK, RunRecord, TaskRecord
<1>2. Grounded /\ Owned /\ PlansKnown
  BY DEF Grounded, Owned, PlansKnown
<1>3. BegunAsKnown /\ LaunchIsBound /\ SeenHappened /\ ResultsHeld
  BY DEF BegunAsKnown, LaunchIsBound, SeenHappened, ResultsHeld
<1>4. ResultsRecorded
  BY DEF ResultsRecorded
<1> QED BY <1>1, <1>2, <1>3, <1>4 DEF IInv

(* The invariant is inductive: one lemma per step of an executor or of its environment. *)
LEMMA NextIInv == IInv /\ [Next]_vars => IInv'
<1> SUFFICES ASSUME IInv, [Next]_vars PROVE IInv'
  OBVIOUS
<1>1. ASSUME NEW e \in Executor, Step(e) PROVE IInv'
  BY <1>1, LoadStep, FailLostCommandStep, StartNextStep, ResumeStartedStep, LoseAuthorityStep,
     AdmitStep, RefuseCommandStep, SpawnCommandStep, CommandEndsStep, AgentReportedStep,
     AgentTimesOutStep, PlanAgentStep, RefuseAgentStep, ResumeAgentStep, ApplySpawnStep,
     SpawnUnavailableStep, SpawnSettledStep, RecordStep DEF Step
<1>2. ASSUME NEW e \in Executor, Takeover(e) \/ Crash(e) PROVE IInv'
  BY <1>2, TakeoverStep, CrashStep
<1>3. ASSUME NEW n \in Action, Report(n) PROVE IInv'
  BY <1>3, ReportStep
<1>4. CASE UNCHANGED vars
  BY <1>4 DEF vars, IInv, TypeOK, Grounded, Owned, PlansKnown, BegunAsKnown, LaunchIsBound,
              SeenHappened, ResultsHeld, ResultsRecorded
<1> QED BY <1>1, <1>2, <1>3, <1>4 DEF Next

(* The inductive invariant holds of every run. *)
LEMMA Inductive == Spec => []IInv
  BY InitIInv, NextIInv, PTL DEF Spec

(* Every variable of a run keeps its type. *)
THEOREM TypeCorrect == Spec => []TypeOK
<1>1. IInv => TypeOK
  BY DEF IInv
<1> QED BY Inductive, <1>1, PTL

(* The effect of an action begins at most once: a start is committed before the effect, a   *)
(* started command is never run by an executor that did not start it, and a plan is applied *)
(* once.                                                                                    *)
THEOREM EffectsHappenOnce == Spec => []EffectAtMostOnce
<1>1. IInv => EffectAtMostOnce
  BY DEF IInv, BegunAsKnown, EffectAtMostOnce
<1> QED BY Inductive, <1>1, PTL

(* A result on record was seen, or nothing happened: finish is committed on the snapshot *)
(* that the executor acted on, and an uncertain result is recorded as one.               *)
THEOREM ResultsAreNotInvented == Spec => []RecordedResultsWereSeen
<1>1. IInv => RecordedResultsWereSeen
  <2> SUFFICES ASSUME IInv, NEW n \in Action
               PROVE  /\ run.tasks[n].state = "completed" => <<n, "completed">> \in seen
                      /\ run.tasks[n].state = "failed" /\ ~run.tasks[n].uncertain =>
                           \/ begun[n] = 0
                           \/ \E result \in {"completed", "failed"} : <<n, result>> \in seen
    BY DEF RecordedResultsWereSeen
  <2>1. Kind[n] = "agent" /\ ~run.tasks[n].effect => begun[n] = 0
    BY DEF IInv, LaunchIsBound, BegunAsKnown
  <2> QED BY <2>1 DEF IInv, ResultsRecorded
<1> QED BY Inductive, <1>1, PTL

(* An agent is launched only from a plan that is bound to the run record. *)
THEOREM LaunchesAreBound == Spec => []LaunchIsBound
<1>1. IInv => LaunchIsBound
  BY DEF IInv
<1> QED BY Inductive, <1>1, PTL

-----------------------------------------------------------------------------
(* The refinement of SequentialRun.                                        *)

\* The abstract state: what is recorded of each action and whose effect has happened.
Recorded == [n \in Action |-> RecordedState(run.tasks[n])]
Performed == {n \in Action : begun[n] > 0}

(* A step that leaves the task states and the effects alone is a stutter of the abstract run. *)
LEMMA StutterRefines ==
    ASSUME \A n \in Action : RecordedState(run'.tasks[n]) = RecordedState(run.tasks[n]),
           UNCHANGED begun
    PROVE  UNCHANGED Sequential!avars
  BY DEF Sequential!avars

(* A commit changes the abstract record of one action. *)
LEMMA CommitRecorded ==
    ASSUME NEW n \in Action, NEW state, NEW effect, NEW u, Replaces(run, n, run', state, effect, u)
    PROVE  Recorded' = [Recorded EXCEPT ![n] = RecordedState(run'.tasks[n])]
<1>1. \A m \in Action \ {n} : RecordedState(run'.tasks[m]) = RecordedState(run.tasks[m])
  BY DEF Replaces
<1> QED BY <1>1 DEF Recorded

(* A committed start starts the first action after completed ones. *)
LEMMA StartNextRefines ==
    ASSUME IInv, NEW e \in Executor, StartNext(e)
    PROVE  Sequential!ANext \/ UNCHANGED Sequential!avars
<1>1. PICK n \in Startable(loop[e].run) :
        \/ Commit(loop[e].run, Started(loop[e].run, n))
        \/ Conflict(loop[e].run)
  BY DEF StartNext
<1>2. UNCHANGED begun
  BY DEF StartNext
<1>3. CASE Conflict(loop[e].run)
  BY <1>2, <1>3, StutterRefines DEF Conflict
<1>4. CASE Commit(loop[e].run, Started(loop[e].run, n))
  <2>1. run' = Started(run, n) /\ n \in Startable(run) /\ run \in RunRecord
    BY <1>1, <1>4 DEF Commit, Current, IInv, TypeOK
  <2>2. /\ n \in Action /\ run.tasks[n].state = "pending"
        /\ \A m \in 1 .. n - 1 : m \in Action /\ run.tasks[m].state = "completed"
    <3>1. /\ n \in Action /\ run.tasks[n].state = "pending"
          /\ \A m \in Action : /\ run.tasks[m].state = "pending" => n <= m
                               /\ run.tasks[m].state \notin {"started", "failed"}
      BY <2>1 DEF Startable, Settled, Has
    <3>2. \A m \in Action : run.tasks[m].state \in {"pending", "started", "completed", "failed"}
      BY <2>1 DEF RunRecord, TaskRecord
    <3>3. \A m \in 1 .. n - 1 : m \in Action /\ ~(n <= m)
      BY <3>1, WorkflowAssumption DEF Action
    <3> QED BY <3>1, <3>2, <3>3
  <2>3. Replaces(run, n, run', "started", run.tasks[n].effect, run.tasks[n].uncertain)
    BY <2>1, <2>2, TransitionTasks
  <2>4. RecordedState(run'.tasks[n]) = "started"
    BY <2>3 DEF Replaces, RecordedState
  <2>5. Recorded' = [Recorded EXCEPT ![n] = "started"]
    BY <2>2, <2>3, <2>4, CommitRecorded
  <2>6. /\ Recorded[n] = "pending"
        /\ \A m \in 1 .. n - 1 : Recorded[m] = "completed"
    BY <2>2 DEF Recorded, RecordedState
  <2>7. Sequential!Start(n)
    BY <1>2, <2>5, <2>6 DEF Sequential!Start, Recorded
  <2> QED BY <2>2, <2>7 DEF Sequential!ANext, Sequential!Action, Action
<1> QED BY <1>1, <1>3, <1>4

(* A command that is given up for lost fails, uncertain. *)
LEMMA FailLostCommandRefines ==
    ASSUME IInv, NEW e \in Executor, FailLostCommand(e)
    PROVE  Sequential!ANext \/ UNCHANGED Sequential!avars
<1>1. PICK n \in Action :
        /\ loop[e].run.tasks[n].state = "started"
        /\ \/ Commit(loop[e].run, LostOutcome(loop[e].run, n))
           \/ Conflict(loop[e].run)
  BY DEF FailLostCommand, LostCommand, Has
<1>2. UNCHANGED begun
  BY DEF FailLostCommand
<1>3. CASE Conflict(loop[e].run)
  BY <1>2, <1>3, StutterRefines DEF Conflict
<1>4. CASE Commit(loop[e].run, LostOutcome(loop[e].run, n))
  <2>1. run' = Failed(run, n, TRUE) /\ run.tasks[n].state = "started" /\ run \in RunRecord
    BY <1>1, <1>4 DEF Commit, Current, LostOutcome, IInv, TypeOK
  <2>2. Replaces(run, n, run', "failed", run.tasks[n].effect, TRUE)
    BY <2>1, TransitionTasks
  <2>3. RecordedState(run'.tasks[n]) = "uncertain"
    BY <2>2 DEF Replaces, RecordedState
  <2>4. Recorded' = [Recorded EXCEPT ![n] = "uncertain"] /\ Recorded[n] = "started"
    BY <2>1, <2>2, <2>3, CommitRecorded DEF Recorded, RecordedState
  <2>5. Sequential!Fail(n)
    BY <1>2, <2>4 DEF Sequential!Fail, Recorded
  <2> QED BY <2>5 DEF Sequential!ANext, Sequential!Action, Action
<1> QED BY <1>1, <1>3, <1>4

(* Binding a plan is not a step of the abstract run. *)
LEMMA PlanAgentRefines ==
    ASSUME IInv, NEW e \in Executor, PlanAgent(e)
    PROVE  UNCHANGED Sequential!avars
<1>1. PICK n \in Action :
        /\ n = loop[e].task
        /\ \/ Commit(loop[e].run, Bound(loop[e].run, n))
           \/ Conflict(loop[e].run)
  BY DEF IInv, Grounded, Working, PlanAgent
<1>2. UNCHANGED begun
  BY DEF PlanAgent
<1>3. CASE Conflict(loop[e].run)
  BY <1>2, <1>3, StutterRefines DEF Conflict
<1>4. CASE Commit(loop[e].run, Bound(loop[e].run, n))
  <2>1. run' = Bound(run, n) /\ run \in RunRecord
    BY <1>4 DEF Commit, Current, IInv, TypeOK
  <2>2. Replaces(run, n, run', run.tasks[n].state, TRUE, run.tasks[n].uncertain)
    BY <2>1, TransitionTasks
  <2>3. \A m \in Action : RecordedState(run'.tasks[m]) = RecordedState(run.tasks[m])
    BY <2>2 DEF Replaces, RecordedState
  <2> QED BY <1>2, <2>3, StutterRefines
<1> QED BY <1>1, <1>3, <1>4

(* A result is recorded for an action that is started; a completed one was performed. *)
LEMMA RecordRefines ==
    ASSUME IInv, NEW e \in Executor, Record(e)
    PROVE  Sequential!ANext \/ UNCHANGED Sequential!avars
<1>1. PICK n \in Action :
        /\ n = loop[e].task /\ loop[e].pc = "finish"
        /\ loop[e].run.tasks[n].state = "started"
        /\ loop[e].result \in {"completed", "failed", "uncertain"}
  BY DEF IInv, Grounded, Working, Record
<1>2. UNCHANGED begun
  BY DEF Record
<1>3. CASE Conflict(loop[e].run)
  BY <1>2, <1>3, StutterRefines DEF Conflict
<1>4. ASSUME NEW next \in Outcomes(loop[e].run, n, loop[e].result), Commit(loop[e].run, next)
      PROVE  Sequential!ANext
  <2>1. run = loop[e].run /\ run' = next /\ run \in RunRecord /\ run.tasks[n].state = "started"
    BY <1>1, <1>4 DEF Commit, Current, IInv, TypeOK
  <2>2. Recorded[n] = "started" /\ run.tasks[n].uncertain \in BOOLEAN
    BY <2>1 DEF Recorded, RecordedState, RunRecord, TaskRecord
  <2>3. CASE run' = Completed(run, n) /\ loop[e].result = "completed"
    <3>1. Replaces(run, n, run', "completed", run.tasks[n].effect, run.tasks[n].uncertain)
      BY <2>1, <2>2, <2>3, TransitionTasks
    <3>2. RecordedState(run'.tasks[n]) = "completed"
      BY <3>1 DEF Replaces, RecordedState
    <3>3. Recorded' = [Recorded EXCEPT ![n] = "completed"]
      BY <3>1, <3>2, CommitRecorded
    <3>4. n \in Performed
      <4>1. <<n, "completed">> \in seen
        BY <1>1, <2>3 DEF IInv, ResultsHeld
      <4>2. begun[n] = 1
        BY <4>1 DEF IInv, SeenHappened
      <4> QED BY <4>2 DEF Performed
    <3>5. Sequential!Succeed(n)
      BY <1>2, <2>2, <3>3, <3>4 DEF Sequential!Succeed, Recorded, Performed
    <3> QED BY <3>5 DEF Sequential!ANext, Sequential!Action, Action
  <2>4. ASSUME NEW u \in BOOLEAN, run' = Failed(run, n, u) PROVE Sequential!ANext
    <3>1. Replaces(run, n, run', "failed", run.tasks[n].effect, u)
      BY <2>1, <2>4, TransitionTasks
    <3>2. RecordedState(run'.tasks[n]) \in {"failed", "uncertain"}
      BY <3>1 DEF Replaces, RecordedState
    <3>3. Recorded' = [Recorded EXCEPT ![n] = RecordedState(run'.tasks[n])]
      BY <3>1, CommitRecorded
    <3>4. Sequential!Fail(n)
      BY <1>2, <2>2, <3>2, <3>3 DEF Sequential!Fail, Recorded
    <3> QED BY <3>4 DEF Sequential!ANext, Sequential!Action, Action
  <2> QED BY <1>1, <1>4, <2>1, <2>3, <2>4 DEF Outcomes
<1> QED BY <1>1, <1>3, <1>4 DEF Record

(* The effect of one action happens: it was recorded as started, and is not repeated. *)
LEMMA PerformRefines ==
    ASSUME TypeOK, NEW n \in Action, RecordedState(run.tasks[n]) \in {"started", "uncertain"},
           begun[n] = 0, begun' = [begun EXCEPT ![n] = 1], UNCHANGED run
    PROVE  Sequential!ANext
<1>1. n \notin Performed /\ Performed' = Performed \cup {n}
  BY DEF TypeOK, Performed
<1>2. Recorded[n] \in {"started", "uncertain"} /\ Recorded' = Recorded
  BY DEF Recorded
<1>3. Sequential!Perform(n)
  BY <1>1, <1>2 DEF Sequential!Perform, Recorded, Performed
<1> QED BY <1>3 DEF Sequential!ANext, Sequential!Action, Action

(* A spawned command is an effect of a started action, or of one given up as uncertain. *)
LEMMA SpawnCommandRefines ==
    ASSUME IInv, NEW e \in Executor, SpawnCommand(e)
    PROVE  Sequential!ANext
<1>1. PICK n \in Action :
        /\ n = loop[e].task /\ begun[n] = 0
        /\ RecordedState(run.tasks[n]) \in {"started", "uncertain"}
  BY DEF IInv, Grounded, Owned, Working, SpawnCommand
<1>2. begun' = [begun EXCEPT ![n] = 1] /\ UNCHANGED run
  BY <1>1 DEF SpawnCommand
<1> QED BY <1>1, <1>2, PerformRefines DEF IInv

(* A launch is applied while the action is started or uncertain: a definitive result would  *)
(* mean that the launch was settled, or that no plan was bound and none can be any more.     *)
LEMMA ApplySpawnRefines ==
    ASSUME IInv, NEW e \in Executor, ApplySpawn(e)
    PROVE  Sequential!ANext \/ UNCHANGED Sequential!avars
<1>1. PICK n \in Action :
        /\ n = loop[e].task /\ Kind[n] = "agent" /\ journal[n] = "applying"
        /\ run.tasks[n].effect /\ run.tasks[n].state # "pending"
  BY DEF IInv, TypeOK, Grounded, PlansKnown, Working, ApplySpawn
<1>2. begun[n] = 0
  BY <1>1 DEF IInv, BegunAsKnown
<1>3. RecordedState(run.tasks[n]) \in {"started", "uncertain"}
  <2>1. \A result \in {"completed", "failed"} : <<n, result>> \notin seen
    BY <1>1 DEF IInv, SeenHappened
  <2>2. run.tasks[n].state \in {"pending", "started", "completed", "failed"}
    BY DEF IInv, TypeOK, RunRecord, TaskRecord
  <2>3. run.tasks[n].state # "completed"
    BY <2>1 DEF IInv, ResultsRecorded
  <2>4. run.tasks[n].state = "failed" => run.tasks[n].uncertain
    BY <1>1, <2>1 DEF IInv, ResultsRecorded
  <2> QED BY <1>1, <2>2, <2>3, <2>4 DEF RecordedState
<1>4. /\ UNCHANGED run
      /\ begun' = [begun EXCEPT ![n] = 1] \/ UNCHANGED begun
  <2>1. PICK outcome \in {"succeeded", "failed", "unknown"} :
          begun' = [begun EXCEPT ![n] = IF outcome = "failed" THEN @ ELSE @ + 1]
    BY <1>1 DEF ApplySpawn
  <2>2. begun \in [Action -> Nat] /\ UNCHANGED run
    BY DEF IInv, TypeOK, ApplySpawn
  <2>3. CASE outcome = "failed"
    BY <2>1, <2>2, <2>3
  <2>4. CASE outcome # "failed"
    BY <1>2, <2>1, <2>2, <2>4
  <2> QED BY <2>2, <2>3, <2>4
<1>5. CASE UNCHANGED begun
  BY <1>4, <1>5, StutterRefines
<1>6. CASE begun' = [begun EXCEPT ![n] = 1]
  BY <1>2, <1>3, <1>4, <1>6, PerformRefines DEF IInv
<1> QED BY <1>4, <1>5, <1>6

(* Every step of a run is a step of the sequential run, or leaves it as it is. *)
LEMMA NextRefines == IInv /\ [Next]_vars => [Sequential!ANext]_(Sequential!avars)
<1> SUFFICES ASSUME IInv, [Next]_vars
             PROVE  Sequential!ANext \/ UNCHANGED Sequential!avars
  OBVIOUS
<1>1. ASSUME UNCHANGED <<run, begun>>
      PROVE  UNCHANGED Sequential!avars
  BY <1>1, StutterRefines
<1>2. ASSUME NEW e \in Executor, Step(e)
      PROVE  Sequential!ANext \/ UNCHANGED Sequential!avars
  <2>1. ASSUME \/ Load(e) \/ ResumeStarted(e) \/ LoseAuthority(e) \/ Admit(e)
               \/ RefuseCommand(e) \/ CommandEnds(e) \/ AgentReported(e) \/ AgentTimesOut(e)
               \/ RefuseAgent(e) \/ ResumeAgent(e) \/ SpawnUnavailable(e) \/ SpawnSettled(e)
        PROVE  UNCHANGED <<run, begun>>
    BY <2>1 DEF Load, ResumeStarted, LoseAuthority, Admit, RefuseCommand, CommandEnds,
                AgentReported, AgentTimesOut, RefuseAgent, ResumeAgent, SpawnUnavailable,
                SpawnSettled
  <2> QED BY <1>1, <1>2, <2>1, FailLostCommandRefines, StartNextRefines, SpawnCommandRefines,
             PlanAgentRefines, ApplySpawnRefines, RecordRefines DEF Step
<1>3. ASSUME NEW e \in Executor, Takeover(e) \/ Crash(e)
      PROVE  UNCHANGED Sequential!avars
  BY <1>1, <1>3 DEF Takeover, Crash
<1>4. ASSUME NEW n \in Action, Report(n)
      PROVE  UNCHANGED Sequential!avars
  BY <1>1, <1>4 DEF Report
<1>5. CASE UNCHANGED vars
  BY <1>1, <1>5 DEF vars
<1> QED BY <1>2, <1>3, <1>4, <1>5 DEF Next

(* The run implements a sequential run with one atomic actor: whatever executors crash, take *)
(* over and act on stale snapshots, the actions are started one at a time and in order, each *)
(* effect happens at most once and after its start is on record, and a failure ends the run. *)
THEOREM Refinement == Spec => ImplementsSequentialRun
<1>1. Init => Sequential!AInit
  BY DEF Init, Pending, RecordedState, Sequential!AInit, Sequential!Action, Action
<1> QED BY <1>1, NextRefines, Inductive, PTL DEF Spec, ImplementsSequentialRun, Sequential!ASpec
=============================================================================
