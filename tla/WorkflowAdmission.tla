------------------------- MODULE WorkflowAdmission -------------------------
(***************************************************************************)
(* Workflow definitions, their versions, and the admission of runs.        *)
(*                                                                         *)
(* Editors save, pause, activate and run workflows by requests that carry  *)
(* an idempotency key and the revision they expect                         *)
(* (control-plane/src/workflow_graph/definitions.rs).  Saving and pausing  *)
(* are one transaction; activating and running once read and compile the   *)
(* draft first and compare it again in a transaction of their own.  The    *)
(* service loop (runtime.rs) admits the runs that are due and hands the    *)
(* oldest unsettled runs to at most Slots workers; what a worker does to a *)
(* run is module WorkflowRun, here it settles it or leaves it.             *)
(*                                                                         *)
(* A replayed or refused put or pause changes nothing and has no action.   *)
(***************************************************************************)
EXTENDS WorkflowGraph

CONSTANTS
    Workflow,       \* numbers, in the order of the ids
    Key,            \* idempotency keys
    Caller,         \* requests being handled
    Backend,
    Draft,          \* the definitions an editor saves
    Submitted,      \* the requests editors make, pairs of a key and a request
    Trigger,        \* a subset of {"manual", "every_minute", "unparsable"}
    None,
    Slots,          \* worker slots of the loop (4)
    MaxActive,      \* unsettled runs (64)
    MaxWorkflows,   \* saved workflows (128)
    MaxRevision,    \* bound
    MaxMinute,      \* bound
    MaxFaults       \* bound on crashes and takeovers

Put == [op : {"put"}, workflow : Workflow, expected : 0 .. MaxRevision - 1,
        definition : Draft, trigger : Trigger]
Change(op) == [op : {op}, workflow : Workflow, expected : 1 .. MaxRevision - 1]
Requests == Put \cup UNION {Change(op) : op \in {"pause", "activate", "run_once"}}

\* A row of workflow_definitions; active is 0 before the first activation.
Record == [revision : 1 .. MaxRevision, definition : Draft, trigger : Trigger,
           enabled : BOOLEAN, active : Nat]

ASSUME AdmissionAssumption ==
    /\ Workflow \subseteq Nat
    /\ Trigger \subseteq {"manual", "every_minute", "unparsable"}
    /\ Submitted \subseteq Key \X Requests
    /\ Draft \subseteq Definitions /\ \A d \in Draft : IsFiniteSet(d.nodes)
    /\ Backend # {}
    /\ Slots \in Nat \ {0} /\ MaxActive \in Nat \ {0} /\ MaxWorkflows \in Nat
    /\ MaxRevision \in Nat /\ MaxMinute \in Nat \ {0} /\ MaxFaults \in Nat

\* The key of a scheduled run is derived from its workflow and its minute, and is no
\* editor's idempotency key.
ASSUME KeyAssumption == Key \cap (Workflow \X (1 .. MaxMinute)) = {}

ASSUME NoneAssumption == None \notin Requests /\ None \notin Record

VARIABLES
    definitions,    \* workflow_definitions: per workflow None or its record
    versions,       \* workflow_versions: per workflow, the snapshots taken so far
    receipts,       \* workflow_definition_receipts: per key None or the request
    runs,           \* workflow_run_sources in rowid order
    calls,          \* per caller None or the activate or run_once it has compiled
    admitting,      \* per backend None or the rest of the tick's admissions
    workers,        \* per backend, the rows its workers advance
    holder,         \* the backend with the mutation authority
    minute,
    faults,
    saved           \* history: every draft that was saved, with its revision

vars == <<definitions, versions, receipts, runs, calls, admitting, workers, holder, minute,
          faults, saved>>

stored == <<definitions, versions, receipts, runs, saved>>
process == <<calls, admitting, workers, holder, minute, faults>>

-----------------------------------------------------------------------------
(* Definitions *)

Fresh(k) == receipts[k] = None

Revision(w) == IF definitions[w] = None THEN 0 ELSE definitions[w].revision

\* The record's revision is the one the request names (save, check_change).
Expected(r) == Revision(r.workflow) = r.expected

RoomForWorkflow(w) ==
    definitions[w] # None \/ Cardinality({v \in Workflow : definitions[v] # None}) < MaxWorkflows

PutDefinition(k, r) ==
    /\ r.op = "put"
    /\ Fresh(k) /\ RoomForWorkflow(r.workflow) /\ Expected(r)
    /\ LET current == definitions[r.workflow]
       IN  definitions' = [definitions EXCEPT ![r.workflow] =
             [revision |-> r.expected + 1, definition |-> r.definition, trigger |-> r.trigger,
              enabled |-> current # None /\ current.enabled,
              active |-> IF current = None THEN 0 ELSE current.active]]
    /\ saved' = saved \cup {<<r.workflow, r.expected + 1, r.definition, r.trigger>>}
    /\ receipts' = [receipts EXCEPT ![k] = r]
    /\ UNCHANGED <<versions, runs>> /\ UNCHANGED process

\* The draft is kept; a later activation or pause has a revision of its own.
Resaved(w) ==
    saved \cup {<<w, Revision(w) + 1, definitions[w].definition, definitions[w].trigger>>}

PauseDefinition(k, r) ==
    /\ r.op = "pause"
    /\ Fresh(k) /\ Expected(r)
    /\ definitions' = [definitions EXCEPT ![r.workflow].revision = @ + 1,
                                          ![r.workflow].enabled = FALSE]
    /\ saved' = Resaved(r.workflow)
    /\ receipts' = [receipts EXCEPT ![k] = r]
    /\ UNCHANGED <<versions, runs>> /\ UNCHANGED process

-----------------------------------------------------------------------------
(* Activation and run once: read and compile, then compare and commit *)

TriggerParses(trigger) == trigger # "unparsable"

\* The handler up to the transaction.  A request that was answered before, whose workflow
\* is missing or does not compile, or whose trigger an activation refuses, ends here.
Compile(c, k, r) ==
    /\ r.op \in {"activate", "run_once"}
    /\ calls[c] = None
    /\ Fresh(k)
    /\ definitions[r.workflow] # None
    /\ r.op = "activate" => TriggerParses(definitions[r.workflow].trigger)
    /\ Compiles(definitions[r.workflow].definition)
    /\ calls' = [calls EXCEPT ![c] = [key |-> k, request |-> r,
                                      source |-> definitions[r.workflow].definition]]
    /\ UNCHANGED <<admitting, workers, holder, minute, faults>> /\ UNCHANGED stored

\* Faulty: trusts the revision alone.
SnapshotAdmittedFaulty(call) == Expected(call.request)

\* check_change, and the test of snapshot that the graph was compiled from this draft.
SnapshotAdmitted(call) ==
    /\ Expected(call.request)
    /\ definitions[call.request.workflow].definition = call.source

\* The next version: the compiled graph with the record's name and trigger.
Snapshot(call) ==
    LET w == call.request.workflow
    IN  Append(versions[w], [source |-> Revision(w), definition |-> Compiled(call.source),
                             trigger |-> definitions[w].trigger])

EndCall(c) ==
    /\ calls' = [calls EXCEPT ![c] = None]
    /\ UNCHANGED <<admitting, workers, holder, minute, faults>>

Activate(c) ==
    /\ calls[c] # None
    /\ LET call == calls[c]
           w == call.request.workflow
       IN  /\ call.request.op = "activate"
           /\ Fresh(call.key) /\ SnapshotAdmitted(call)
           /\ versions' = [versions EXCEPT ![w] = Snapshot(call)]
           /\ definitions' = [definitions EXCEPT ![w].revision = @ + 1, ![w].enabled = TRUE,
                                                 ![w].active = Len(versions[w]) + 1]
           /\ saved' = Resaved(w)
           /\ receipts' = [receipts EXCEPT ![call.key] = call.request]
    /\ EndCall(c)
    /\ UNCHANGED runs

Unsettled == {i \in DOMAIN runs : ~runs[i].settled}

\* Faulty: off by one.
RoomForRunFaulty == Cardinality(Unsettled) <= MaxActive

\* insert: the limit on unsettled runs.
RoomForRun == Cardinality(Unsettled) < MaxActive

RunRow(w, version, key) ==
    [workflow |-> w, version |-> version, key |-> key, settled |-> FALSE]

StartManualRun(c) ==
    /\ calls[c] # None
    /\ LET call == calls[c]
           w == call.request.workflow
       IN  /\ call.request.op = "run_once"
           /\ Fresh(call.key) /\ SnapshotAdmitted(call) /\ RoomForRun
           /\ versions' = [versions EXCEPT ![w] = Snapshot(call)]
           /\ runs' = Append(runs, RunRow(w, Len(versions[w]) + 1, call.key))
           /\ receipts' = [receipts EXCEPT ![call.key] = call.request]
    /\ EndCall(c)
    /\ UNCHANGED <<definitions, saved>>

\* The transaction answers with the receipt of a call that overtook this one, or refuses.
CallChangesNothing(c) ==
    /\ calls[c] # None
    /\ \/ ~Fresh(calls[c].key)
       \/ ~SnapshotAdmitted(calls[c])
       \/ calls[c].request.op = "run_once" /\ ~RoomForRun
    /\ EndCall(c)
    /\ UNCHANGED stored

-----------------------------------------------------------------------------
(* The service loop *)

Enabled == {w \in Workflow : definitions[w] # None /\ definitions[w].enabled}

Summary(w) == [workflow |-> w, version |-> definitions[w].active]

\* workflow_summaries with the enabled rows kept, in the order of their ids (the only
\* sequence of this set).
EnabledSummaries ==
    {todo \in [1 .. Cardinality(Enabled) -> {Summary(w) : w \in Enabled}] :
        \A i, j \in DOMAIN todo : i < j => todo[i].workflow < todo[j].workflow}

Tick(b) ==
    /\ holder = b /\ admitting[b] = None
    /\ \E todo \in EnabledSummaries :
         admitting' = [admitting EXCEPT ![b] = [todo |-> todo, minute |-> minute]]
    /\ UNCHANGED <<calls, workers, holder, minute, faults>> /\ UNCHANGED stored

Admitting(b) == admitting[b] # None /\ admitting[b].todo # <<>>
Candidate(b) == Head(admitting[b].todo)
CandidateVersion(b) == versions[Candidate(b).workflow][Candidate(b).version]
ScheduledKey(b) == <<Candidate(b).workflow, admitting[b].minute>>

\* Faulty: admits again what an earlier tick of the minute has admitted.
UnclaimedFaulty(key) == TRUE

\* No row has this key (the lookup of claim_scheduled_workflow_run, and UNIQUE).
Unclaimed(key) == \A i \in DOMAIN runs : runs[i].key # key

\* Faulty: claims for the summary that was listed, whatever became of the workflow since.
StillActiveFaulty(b) == TRUE

\* The workflow is still enabled with the version that was listed.
StillActive(b) ==
    LET current == definitions[Candidate(b).workflow]
    IN  current.enabled /\ current.active = Candidate(b).version

Claimable(b) ==
    /\ CandidateVersion(b).trigger = "every_minute"
    /\ StillActive(b) /\ Unclaimed(ScheduledKey(b))

Proceed(b, todo) ==
    /\ admitting' = [admitting EXCEPT ![b].todo = todo]
    /\ UNCHANGED <<calls, workers, holder, minute, faults>>

ClaimScheduledRun(b) ==
    /\ Admitting(b) /\ Claimable(b) /\ RoomForRun
    /\ runs' = Append(runs, RunRow(Candidate(b).workflow, Candidate(b).version, ScheduledKey(b)))
    /\ Proceed(b, Tail(admitting[b].todo))
    /\ UNCHANGED <<definitions, versions, receipts, saved>>

SkipSchedule(b) ==
    /\ Admitting(b) /\ ~Claimable(b) /\ TriggerParses(CandidateVersion(b).trigger)
    /\ Proceed(b, Tail(admitting[b].todo))
    /\ UNCHANGED stored

\* Faulty: a failed admission ends the whole tick, as the other errors of the loop do.
AdmissionFailsFaulty(b) ==
    /\ Admitting(b)
    /\ \/ ~TriggerParses(CandidateVersion(b).trigger)
       \/ Claimable(b)
    /\ admitting' = [admitting EXCEPT ![b] = None]
    /\ UNCHANGED <<calls, workers, holder, minute, faults>> /\ UNCHANGED stored

\* An error ends the admissions of this tick, and the loop goes on to the workers: a trigger
\* that does not parse, no room for a run, or a pinned version that ExecutingWorkflow::admit
\* refuses under the contracts of this build.
AdmissionFails(b) ==
    /\ Admitting(b)
    /\ \/ ~TriggerParses(CandidateVersion(b).trigger)
       \/ Claimable(b)
    /\ Proceed(b, <<>>)
    /\ UNCHANGED stored

\* The rows a tick may give to the free slots: the oldest unsettled ones without a worker,
\* as many as there are slots for (the only set of this set).
Spawned(b) ==
    LET waiting == Unsettled \ workers[b]
        free == Slots - Cardinality(workers[b])
    IN  {rows \in SUBSET waiting :
           /\ Cardinality(rows) <= free
           /\ rows # waiting => Cardinality(rows) = free
           /\ \A i \in rows, j \in waiting \ rows : i < j}

SpawnWorkers(b) ==
    /\ admitting[b] # None /\ admitting[b].todo = <<>>
    /\ \E rows \in Spawned(b) : workers' = [workers EXCEPT ![b] = @ \cup rows]
    /\ admitting' = [admitting EXCEPT ![b] = None]
    /\ UNCHANGED <<calls, holder, minute, faults>> /\ UNCHANGED stored

\* A worker records the last result of its run, or a failure.
Settle(b, i) ==
    /\ i \in workers[b] /\ ~runs[i].settled
    /\ runs' = [runs EXCEPT ![i].settled = TRUE]
    /\ UNCHANGED <<definitions, versions, receipts, saved>> /\ UNCHANGED process

\* The loop joins a worker that has returned, with an error, early or after a panic too.
JoinWorker(b, i) ==
    /\ i \in workers[b]
    /\ workers' = [workers EXCEPT ![b] = @ \ {i}]
    /\ UNCHANGED <<calls, admitting, holder, minute, faults>> /\ UNCHANGED stored

-----------------------------------------------------------------------------
NextMinute ==
    /\ minute < MaxMinute
    /\ minute' = minute + 1
    /\ UNCHANGED <<calls, admitting, workers, holder, faults>> /\ UNCHANGED stored

\* A backend stops and starts again: its loop, its workers and the
\* requests it was handling are gone.
Crash(b) ==
    /\ faults < MaxFaults
    /\ faults' = faults + 1
    /\ \E lost \in SUBSET Caller :
         calls' = [c \in Caller |-> IF c \in lost THEN None ELSE calls[c]]
    /\ admitting' = [admitting EXCEPT ![b] = None]
    /\ workers' = [workers EXCEPT ![b] = {}]
    /\ UNCHANGED <<holder, minute>> /\ UNCHANGED stored

\* Another backend gets the authority while this one is still in its tick or its workers.
Takeover(b) ==
    /\ faults < MaxFaults /\ holder # b
    /\ faults' = faults + 1
    /\ holder' = b
    /\ UNCHANGED <<calls, admitting, workers, minute>> /\ UNCHANGED stored

Init ==
    /\ definitions = [w \in Workflow |-> None]
    /\ versions = [w \in Workflow |-> <<>>]
    /\ receipts = [k \in Key |-> None]
    /\ runs = <<>>
    /\ calls = [c \in Caller |-> None]
    /\ admitting = [b \in Backend |-> None]
    /\ workers = [b \in Backend |-> {}]
    /\ holder = CHOOSE b \in Backend : TRUE
    /\ minute = 1
    /\ faults = 0
    /\ saved = {}

Edit(k, r) ==
    \/ PutDefinition(k, r)
    \/ PauseDefinition(k, r)
    \/ \E c \in Caller : Compile(c, k, r)

Commit(c) == Activate(c) \/ StartManualRun(c) \/ CallChangesNothing(c)

Admit(b) == Tick(b) \/ ClaimScheduledRun(b) \/ SkipSchedule(b) \/ AdmissionFails(b)
            \/ SpawnWorkers(b)

Settles == \E b \in Backend, i \in DOMAIN runs : Settle(b, i)
Join(b) == \E i \in DOMAIN runs : JoinWorker(b, i)

Next ==
    \/ \E s \in Submitted : Edit(s[1], s[2])
    \/ \E c \in Caller : Commit(c)
    \/ \E b \in Backend : Admit(b) \/ Join(b) \/ Crash(b) \/ Takeover(b)
    \/ Settles
    \/ NextMinute

Spec == Init /\ [][Next]_vars

\* Row names every run there can be.
Row ==
    LET manual == {s[1] : s \in {t \in Submitted : t[2].op = "run_once"}}
    IN  1 .. Cardinality(manual) + Cardinality(Workflow) * MaxMinute

\* The loop ticks every three seconds, and advancing a run again and again settles it:
\* a command is bounded by its timeout, an agent that does not report by its own.
FairSpec ==
    /\ Spec
    /\ \A b \in Backend : WF_vars(Admit(b)) /\ WF_vars(Join(b))
    /\ SF_vars(Settles)

-----------------------------------------------------------------------------
(* Every variable has its type, and every reference to a version or a row has its target. *)
TypeOK ==
    /\ definitions \in [Workflow -> {None} \cup Record]
    /\ \A w \in Workflow :
         /\ definitions[w] # None => definitions[w].active <= Len(versions[w])
         /\ definitions[w] # None /\ definitions[w].enabled => definitions[w].active > 0
    /\ receipts \in [Key -> {None} \cup Requests]
    /\ \A i \in DOMAIN runs : runs[i].version \in DOMAIN versions[runs[i].workflow]
    /\ \A b \in Backend : workers[b] \subseteq DOMAIN runs /\ Cardinality(workers[b]) <= Slots
    /\ Cardinality(Unsettled) <= MaxActive
    /\ holder \in Backend
    /\ minute \in 1 .. MaxMinute

\* A run_once key and a workflow's minute admit one run each: not two callers that both
\* found no receipt, nor the ticks of two backends, nor a retry after a crash.
OneRunPerRequest ==
    \A i, j \in DOMAIN runs : runs[i].key = runs[j].key => i = j

\* Whatever was saved while it was compiled, a version is exactly one saved draft: the one
\* of its source revision, with that draft's trigger, and the order that every later
\* compilation of the version gives runs all its nodes after what they depend on.
VersionsAreSavedDrafts ==
    \A w \in Workflow : \A n \in DOMAIN versions[w] :
        LET v == versions[w][n]
        IN  \E d \in Draft :
              /\ <<w, v.source, d, v.trigger>> \in saved
              /\ v.definition = Compiled(d)
              /\ Compiles(v.definition)
              /\ Executable(d, Order(v.definition))

\* A tick that listed a workflow before it was paused, or before another version was
\* activated, admits nothing for it.
ScheduledWhileActive ==
    [][\A i \in DOMAIN runs' \ DOMAIN runs :
         runs'[i].key \notin Key =>
            /\ definitions[runs'[i].workflow].enabled
            /\ definitions[runs'[i].workflow].active = runs'[i].version]_vars

\* Every admitted run settles: a table at its limit, a schedule that cannot be evaluated, a
\* worker that fails and a restart keep no run from the worker slots for ever.
RunsSettle ==
    \A i \in Row : i \in DOMAIN runs ~> (i \in DOMAIN runs /\ runs[i].settled)

\* "Admission can never pin a version validated from stale data": the trigger of the version
\* an enabled workflow runs has been validated.
ActiveTriggerParses ==
    \A w \in Workflow :
        definitions[w] # None /\ definitions[w].enabled =>
            TriggerParses(versions[w][definitions[w].active].trigger)
=============================================================================
