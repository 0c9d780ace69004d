----------------------------- MODULE Schedules -----------------------------
(***************************************************************************)
(* Schedules, their occurrences and the ticks that launch them             *)
(* (sqlite/src/schedules.rs, sqlite/src/schedule_occurrences.rs,           *)
(* control-plane/src/schedule_runtime.rs).                                 *)
(*                                                                         *)
(* A tick first executes the occurrences that are still pending, then      *)
(* claims one occurrence for every schedule that is due in its minute.     *)
(* The authority is checked when a tick begins and not again, so a backend *)
(* that was replaced finishes its tick beside the ticks of its successor.  *)
(*                                                                         *)
(* The agent spawn journal is reduced to what a tick sees of it: one plan  *)
(* per idempotency key, which launches one agent, however many sessions    *)
(* that takes (see AgentSpawn).                                            *)
(***************************************************************************)
EXTENDS Naturals, FiniteSets

CONSTANTS
    Schedule,           \* schedule ids, as numbers in their sorting order
    Backend,            \* backend processes that run the loop
    Template,           \* run templates
    Expression,         \* cron expressions, each the set of minutes it is due in
    ManualKey,          \* idempotency keys of run-once requests
    MutationKey,        \* idempotency keys of put and delete requests
    None,
    MaxMinute,          \* bound: the last minute of the clock
    MaxRevision,        \* bound: revisions of a schedule
    Retained,           \* finished occurrences kept per schedule (256 in the code)
    MaxTakeovers,       \* bound: changes of the mutation authority
    MaxCrashes          \* bound: process crashes

ASSUME SchedulesAssumption ==
    /\ Schedule \subseteq Nat
    /\ Expression \subseteq SUBSET (1 .. MaxMinute)
    /\ Retained \in Nat /\ MaxMinute \in Nat \ {0} /\ MaxRevision \in Nat

VARIABLES
    schedules,          \* [Schedule -> None or the row]
    receipts,           \* [MutationKey -> None or the request and the revision it made]
    occurrences,        \* the rows of schedule_occurrences, a function of their keys
    spawns,             \* [occurrence key -> what the spawn journal holds for it]
    loop,               \* [Backend -> what one tick holds in memory]
    holder,             \* the backend with the mutation authority
    minute,             \* the clock, in minutes
    admitted,           \* history: [key -> times an occurrence was admitted]
    published,          \* history: <<schedule, revision, template>> ever stored
    launchedWith,       \* history: <<key, template>> of every launch
    contradicted,       \* history: mutation keys whose retry got another answer than the first try
    takeovers, crashes  \* history: bounded counters

vars == <<schedules, receipts, occurrences, spawns, loop, holder, minute, admitted, published,
          launchedWith, contradicted, takeovers, crashes>>

Minute == 1 .. MaxMinute
Revision == 1 .. MaxRevision

\* occurrence_idempotency_key is a digest of the schedule and the minute.
ScheduledKey == Schedule \X Minute
Key == ScheduledKey \cup ManualKey

\* A run-once request comes under a token of the caller's own, never under such a digest.
ASSUME KeysAssumption == ManualKey \cap ScheduledKey = {}

-----------------------------------------------------------------------------
(* put_schedule and delete_schedule                                        *)

Put == [kind : {"put"}, schedule : Schedule, expected : 0 .. MaxRevision - 1, enabled : BOOLEAN,
        expression : Expression, template : Template]
Delete == [kind : {"delete"}, schedule : Schedule, expected : 1 .. MaxRevision - 1]

StoredRevision(s) == IF schedules[s] = None THEN 0 ELSE schedules[s].revision

Mutable(s, expected) ==
    /\ schedules[s] # None => ~schedules[s].deleted
    /\ StoredRevision(s) = expected

\* The row a put writes; the admission watermark is kept.
PutRow(r) ==
    [revision |-> r.expected + 1, enabled |-> r.enabled, expression |-> r.expression,
     template |-> r.template, deleted |-> FALSE,
     watermark |-> IF schedules[r.schedule] = None THEN 0 ELSE schedules[r.schedule].watermark]

DeleteRow(r) == [schedules[r.schedule] EXCEPT !.revision = @ + 1, !.deleted = TRUE]

\* A caller whose request was answered under this key retries it and is told otherwise.
Answer(k, r, revision) ==
    contradicted' = IF receipts[k] = None \/ receipts[k] = [request |-> r, revision |-> revision]
                       \/ receipts[k].request # r
                    THEN contradicted ELSE contradicted \cup {k}

UnchangedByMutation ==
    UNCHANGED <<occurrences, spawns, loop, holder, minute, admitted, launchedWith, takeovers,
                crashes>>

ApplyMutation(k, r, row) ==
    /\ schedules' = [schedules EXCEPT ![r.schedule] = row]
    /\ receipts' = [receipts EXCEPT ![k] = [request |-> r, revision |-> row.revision]]
    /\ published' = published \cup {<<r.schedule, row.revision, row.template>>}
    /\ Answer(k, r, row.revision)
    /\ UnchangedByMutation

\* Faulty: asks the revision before the receipt.
FreshFaulty(k, r) == TRUE

\* No receipt under this key: the request is a new one.
Fresh(k, r) == receipts[k] = None

PutSchedule(k, r) ==
    /\ Fresh(k, r)
    /\ Mutable(r.schedule, r.expected)
    /\ ApplyMutation(k, r, PutRow(r))

DeleteSchedule(k, r) ==
    /\ Fresh(k, r)
    /\ schedules[r.schedule] # None
    /\ Mutable(r.schedule, r.expected)
    /\ ApplyMutation(k, r, DeleteRow(r))

\* Deleted, unknown or at another revision: nothing is written.
RefuseMutation(k, r) ==
    /\ Fresh(k, r)
    /\ \/ ~Mutable(r.schedule, r.expected)
       \/ r.kind = "delete" /\ schedules[r.schedule] = None
    /\ Answer(k, r, None)
    /\ UNCHANGED <<schedules, receipts, published>>
    /\ UnchangedByMutation

\* The receipt answers a retry; another request under the same key is refused.
ReplayMutation(k, r) ==
    /\ ~Fresh(k, r)
    /\ Answer(k, r, IF receipts[k].request = r THEN receipts[k].revision ELSE None)
    /\ UNCHANGED <<schedules, receipts, published>>
    /\ UnchangedByMutation

-----------------------------------------------------------------------------
(* admit_schedule_occurrence                                               *)

Exists(k) == k \in DOMAIN occurrences

\* The row of another schedule, trigger or revision under this key.
IdentityChanged(k, s, revision) ==
    occurrences[k].schedule # s \/ occurrences[k].revision # revision

\* Faulty: trusts that a finished minute still has its row.
AdmissibleMinuteFaulty(s, m) == schedules[s].enabled

AdmissibleMinute(s, m) == schedules[s].enabled /\ schedules[s].watermark < m

CurrentSchedule(s, revision) ==
    schedules[s] # None /\ ~schedules[s].deleted /\ schedules[s].revision = revision

\* Faulty: still writes the state of the older schema.
OccurrenceFaulty(s, k, revision) ==
    [schedule |-> s, revision |-> revision, template |-> schedules[s].template,
     state |-> "running", operation |-> FALSE, dispatch |-> "none"]

\* The pending row, with the template of this revision.
Occurrence(s, k, revision) ==
    [schedule |-> s, revision |-> revision, template |-> schedules[s].template,
     state |-> "pending", operation |-> FALSE, dispatch |-> "none"]

Insert(k, row) ==
    /\ occurrences' = [j \in DOMAIN occurrences \cup {k} |-> IF j = k THEN row ELSE occurrences[j]]
    /\ admitted' = [admitted EXCEPT ![k] = @ + 1]

\* run_schedule_once.  A repeated key is answered with the row it made.
RunOnce(s, k, revision) ==
    /\ ~Exists(k)
    /\ CurrentSchedule(s, revision)
    /\ Insert(k, Occurrence(s, k, revision))
    /\ UNCHANGED <<schedules, receipts, spawns, loop, holder, minute, published, launchedWith,
                   contradicted, takeovers, crashes>>

-----------------------------------------------------------------------------
(* tick: the pending occurrences, then the schedules that are due          *)

Idle == [pc |-> "idle", minute |-> 0, pending |-> {}, listed |-> FALSE, due |-> {}, key |-> None,
         template |-> None, operation |-> FALSE, started |-> FALSE]

UnchangedByTick ==
    UNCHANGED <<receipts, holder, minute, published, contradicted, takeovers, crashes>>

\* Faulty: leaves a pending row to the tick that claimed it.
TickFaulty(b) ==
    /\ loop[b].pc = "idle"
    /\ holder = b
    /\ loop' = [loop EXCEPT ![b] = [Idle EXCEPT !.pc = "next", !.minute = minute]]
    /\ UNCHANGED <<schedules, occurrences, spawns, admitted, launchedWith>>
    /\ UnchangedByTick

\* run_loop: the authority reads the clock and the pending rows.
Tick(b) ==
    /\ loop[b].pc = "idle"
    /\ holder = b
    /\ loop' = [loop EXCEPT ![b] =
         [Idle EXCEPT !.pc = "next", !.minute = minute,
                      !.pending = {[key |-> k, template |-> occurrences[k].template] :
                                     k \in {j \in DOMAIN occurrences :
                                              occurrences[j].state = "pending"}}]]
    /\ UNCHANGED <<schedules, occurrences, spawns, admitted, launchedWith>>
    /\ UnchangedByTick

\* Faulty: launches what the schedule says now.
ExecuteFaulty(b, k, template) ==
    [loop[b] EXCEPT !.pc = "preview", !.key = k, !.operation = FALSE, !.started = FALSE,
                    !.template = IF Exists(k) THEN schedules[occurrences[k].schedule].template
                                 ELSE template]

Execute(b, k, template) ==
    [loop[b] EXCEPT !.pc = "preview", !.key = k, !.template = template, !.operation = FALSE,
                    !.started = FALSE]

\* Rows of one millisecond are ordered by a digest: any order is possible.
TakePending(b) ==
    /\ loop[b].pc = "next"
    /\ \E p \in loop[b].pending :
         loop' = [loop EXCEPT ![b] =
                    [Execute(b, p.key, p.template) EXCEPT !.pending = @ \ {p}]]
    /\ UNCHANGED <<schedules, occurrences, spawns, admitted, launchedWith>>
    /\ UnchangedByTick

Due(s, m) == schedules[s] # None /\ ~schedules[s].deleted /\ schedules[s].enabled
             /\ m \in schedules[s].expression

ListSchedules(b) ==
    /\ loop[b].pc = "next"
    /\ loop[b].pending = {}
    /\ ~loop[b].listed
    /\ loop' = [loop EXCEPT ![b].listed = TRUE,
                            ![b].due = {[id |-> s, revision |-> schedules[s].revision] :
                                          s \in {t \in Schedule : Due(t, loop[b].minute)}}]
    /\ UNCHANGED <<schedules, occurrences, spawns, admitted, launchedWith>>
    /\ UnchangedByTick

\* The first of the listed schedules that are left.
FirstDue(b) == {d \in loop[b].due : \A e \in loop[b].due : d.id <= e.id}

\* An occurrence is admitted: its row and the watermark of its schedule are one commit.
ClaimNew(b) ==
    \E d \in FirstDue(b) :
        LET k == <<d.id, loop[b].minute>>
        IN  /\ loop[b].pc = "next" /\ loop[b].listed
            /\ ~Exists(k)
            /\ CurrentSchedule(d.id, d.revision)
            /\ AdmissibleMinute(d.id, loop[b].minute)
            /\ Insert(k, Occurrence(d.id, k, d.revision))
            /\ schedules' = [schedules EXCEPT ![d.id].watermark = loop[b].minute]
            /\ loop' = [loop EXCEPT ![b] = [Execute(b, k, schedules[d.id].template)
                                              EXCEPT !.due = @ \ {d}]]
            /\ UNCHANGED <<spawns, launchedWith>>
            /\ UnchangedByTick

\* The row is there: executed again while it is pending, passed over when it is not,
\* and the end of the tick when the schedule was edited since.
ClaimExisting(b) ==
    \E d \in FirstDue(b) :
        LET k == <<d.id, loop[b].minute>>
        IN  /\ loop[b].pc = "next" /\ loop[b].listed
            /\ Exists(k)
            /\ loop' = [loop EXCEPT ![b] =
                 IF IdentityChanged(k, d.id, d.revision) THEN Idle
                 ELSE IF occurrences[k].state = "pending"
                      THEN [Execute(b, k, occurrences[k].template) EXCEPT !.due = @ \ {d}]
                      ELSE [loop[b] EXCEPT !.due = @ \ {d}]]
            /\ UNCHANGED <<schedules, occurrences, spawns, admitted, launchedWith>>
            /\ UnchangedByTick

\* Edited, deleted, disabled or already admitted past this minute.
ClaimNothing(b) ==
    \E d \in FirstDue(b) :
        /\ loop[b].pc = "next" /\ loop[b].listed
        /\ ~Exists(<<d.id, loop[b].minute>>)
        /\ ~(CurrentSchedule(d.id, d.revision) /\ AdmissibleMinute(d.id, loop[b].minute))
        /\ loop' = [loop EXCEPT ![b].due = @ \ {d}]
        /\ UNCHANGED <<schedules, occurrences, spawns, admitted, launchedWith>>
        /\ UnchangedByTick

EndTick(b) ==
    /\ loop[b].pc = "next" /\ loop[b].listed /\ loop[b].due = {}
    /\ loop' = [loop EXCEPT ![b] = Idle]
    /\ UNCHANGED <<schedules, occurrences, spawns, admitted, launchedWith>>
    /\ UnchangedByTick

-----------------------------------------------------------------------------
(* execute_occurrence and spawn_occurrence                                 *)

\* The launch is over: the operation it went by, if any, and whether it succeeded.
Settle(b, operation, started) ==
    loop' = [loop EXCEPT ![b].pc = "finish", ![b].operation = operation, ![b].started = started]

\* preview_agent_spawn finds or makes the one plan under the occurrence's key.  The receipt
\* it returns is the one the trust check reads: that of a finished launch shows the runtime,
\* that of an unfinished one may or may not.
Preview(b) ==
    /\ loop[b].pc = "preview"
    /\ spawns' = [spawns EXCEPT ![loop[b].key].planned = TRUE]
    /\ loop' = [loop EXCEPT ![b].pc = IF spawns[loop[b].key].succeeded THEN "bind" ELSE "trust"]
    /\ UNCHANGED <<schedules, occurrences, admitted, launchedWith>>
    /\ UnchangedByTick

\* The project, the profile, the runtime or the provider refuses; the receipt of an
\* earlier plan does not come to light then.
PreviewFails(b) ==
    /\ loop[b].pc = "preview"
    /\ Settle(b, FALSE, FALSE)
    /\ UNCHANGED <<schedules, occurrences, spawns, admitted, launchedWith>>
    /\ UnchangedByTick

\* check_unattended_claude_workspace refuses; it is not asked when the receipt read at the
\* preview shows the runtime, whatever the journal says since.
TrustRefused(b) ==
    /\ loop[b].pc = "trust"
    /\ Settle(b, TRUE, FALSE)
    /\ UNCHANGED <<schedules, occurrences, spawns, admitted, launchedWith>>
    /\ UnchangedByTick

Bindable(k) == Exists(k) /\ occurrences[k].state = "pending"

\* bind_schedule_spawn, after the trust check or without one: the launch identity is stored
\* before the agent can enroll.
Bind(b) ==
    /\ loop[b].pc \in {"trust", "bind"}
    /\ \/ /\ Bindable(loop[b].key)
          /\ occurrences' = [occurrences EXCEPT ![loop[b].key].operation = TRUE]
          /\ loop' = [loop EXCEPT ![b].pc = "apply"]
       \/ /\ ~Bindable(loop[b].key)
          /\ Settle(b, TRUE, FALSE)
          /\ UNCHANGED occurrences
    /\ UNCHANGED <<schedules, spawns, admitted, launchedWith>>
    /\ UnchangedByTick

\* apply_agent_spawn: the agent runs and the receipt says so, the agent runs and the
\* receipt does not say so yet, or nothing was launched by this call.
Apply(b) ==
    LET k == loop[b].key
    IN  /\ loop[b].pc = "apply"
        /\ \/ /\ spawns' = [spawns EXCEPT ![k].launched = TRUE, ![k].succeeded = TRUE]
              /\ Settle(b, TRUE, TRUE)
           \/ /\ ~spawns[k].succeeded
              /\ \E launched \in {spawns[k].launched, TRUE} :
                   spawns' = [spawns EXCEPT ![k].launched = launched]
              /\ Settle(b, TRUE, FALSE)
        /\ launchedWith' = IF spawns'[k].launched /\ ~spawns[k].launched
                           THEN launchedWith \cup {<<k, loop[b].template>>} ELSE launchedWith
        /\ UNCHANGED <<schedules, occurrences, admitted>>
        /\ UnchangedByTick

\* Faulty: the last outcome wins.
OpenFaulty(k) == Exists(k)

Open(k) == Exists(k) /\ occurrences[k].state = "pending"

\* Faulty: finishes a row that another launch has bound.
SameOperationFaulty(k, operation) == TRUE

\* A bound row is finished under its own operation only.
SameOperation(k, operation) == occurrences[k].operation => operation

\* Scheduled occurrences of s whose launch failed or whose report is in.
Finished(rows, s) ==
    {k \in DOMAIN rows : /\ k \in ScheduledKey
                         /\ rows[k].schedule = s
                         /\ rows[k].state = "failed" \/ rows[k].dispatch = "completed"}

\* Faulty: sorts the oldest first.
CompactedFaulty(rows, s) ==
    LET stale == {k \in Finished(rows, s) :
                    Cardinality({j \in Finished(rows, s) : j[2] < k[2]}) >= Retained}
    IN  [k \in DOMAIN rows \ stale |-> rows[k]]

\* The rows that stay: all but the finished ones beyond the Retained latest.
Compacted(rows, s) ==
    LET stale == {k \in Finished(rows, s) :
                    Cardinality({j \in Finished(rows, s) : j[2] > k[2]}) >= Retained}
    IN  [k \in DOMAIN rows \ stale |-> rows[k]]

\* The tick goes on with its next occurrence.
Continue(b) ==
    loop' = [loop EXCEPT ![b].pc = "next", ![b].key = None, ![b].template = None,
                         ![b].operation = FALSE, ![b].started = FALSE]

\* finish_schedule_launch, which also compacts the history of the schedule.
Finish(b) ==
    LET k == loop[b].key
    IN  /\ loop[b].pc = "finish"
        /\ Open(k)
        /\ SameOperation(k, loop[b].operation)
        /\ LET rows == [occurrences EXCEPT
                          ![k].state = IF loop[b].started THEN "started" ELSE "failed",
                          ![k].operation = loop[b].operation]
           IN  occurrences' = Compacted(rows, occurrences[k].schedule)
        /\ Continue(b)
        /\ UNCHANGED <<schedules, spawns, admitted, launchedWith>>
        /\ UnchangedByTick

\* The row is gone, already finished or bound otherwise, or the write fails.
FinishIsLost(b) ==
    /\ loop[b].pc = "finish"
    /\ Continue(b)
    /\ UNCHANGED <<schedules, occurrences, spawns, admitted, launchedWith>>
    /\ UnchangedByTick

-----------------------------------------------------------------------------
(* The environment.                                                        *)

\* workflow_effect_bindings: the first Dispatch the launched agent reports under is
\* bound to the occurrence that owns the operation.
Enroll(k) ==
    /\ spawns[k].launched
    /\ Exists(k) /\ occurrences[k].operation /\ occurrences[k].dispatch = "none"
    /\ occurrences' = [occurrences EXCEPT ![k].dispatch = "open"]
    /\ UNCHANGED <<schedules, receipts, spawns, loop, holder, minute, admitted, published,
                   launchedWith, contradicted, takeovers, crashes>>

Report(k) ==
    /\ Exists(k) /\ occurrences[k].dispatch = "open"
    /\ occurrences' = [occurrences EXCEPT ![k].dispatch = "completed"]
    /\ UNCHANGED <<schedules, receipts, spawns, loop, holder, minute, admitted, published,
                   launchedWith, contradicted, takeovers, crashes>>

NextMinute ==
    /\ minute < MaxMinute
    /\ minute' = minute + 1
    /\ UNCHANGED <<schedules, receipts, occurrences, spawns, loop, holder, admitted, published,
                   launchedWith, contradicted, takeovers, crashes>>

\* Another process becomes the authority; the old one goes on with its tick.
Takeover(b) ==
    /\ holder # b
    /\ takeovers < MaxTakeovers
    /\ holder' = b
    /\ takeovers' = takeovers + 1
    /\ UNCHANGED <<schedules, receipts, occurrences, spawns, loop, minute, admitted, published,
                   launchedWith, contradicted, crashes>>

Crash(b) ==
    /\ loop[b].pc # "idle"
    /\ crashes < MaxCrashes
    /\ crashes' = crashes + 1
    /\ loop' = [loop EXCEPT ![b] = Idle]
    /\ UNCHANGED <<schedules, receipts, occurrences, spawns, holder, minute, admitted, published,
                   launchedWith, contradicted, takeovers>>

-----------------------------------------------------------------------------
Init ==
    /\ schedules = [s \in Schedule |-> None]
    /\ receipts = [k \in MutationKey |-> None]
    /\ occurrences = [k \in {} |-> None]
    /\ spawns = [k \in Key |-> [planned |-> FALSE, launched |-> FALSE, succeeded |-> FALSE]]
    /\ loop = [b \in Backend |-> Idle]
    /\ holder \in Backend
    /\ minute = 1
    /\ admitted = [k \in Key |-> 0]
    /\ published = {}
    /\ launchedWith = {}
    /\ contradicted = {}
    /\ takeovers = 0
    /\ crashes = 0

Launch(b) == Preview(b) \/ PreviewFails(b) \/ TrustRefused(b) \/ Bind(b) \/ Apply(b)
             \/ Finish(b) \/ FinishIsLost(b)

Step(b) == Tick(b) \/ TakePending(b) \/ ListSchedules(b) \/ ClaimNew(b) \/ ClaimExisting(b)
           \/ ClaimNothing(b) \/ EndTick(b) \/ Launch(b)

Mutate(k) ==
    \/ \E r \in Put : PutSchedule(k, r)
    \/ \E r \in Delete : DeleteSchedule(k, r)
    \/ \E r \in Put \cup Delete : RefuseMutation(k, r) \/ ReplayMutation(k, r)

Next ==
    \/ \E b \in Backend : Step(b) \/ Takeover(b) \/ Crash(b)
    \/ \E k \in MutationKey : Mutate(k)
    \/ \E s \in Schedule, k \in ManualKey, revision \in Revision : RunOnce(s, k, revision)
    \/ \E k \in Key : Enroll(k) \/ Report(k)
    \/ NextMinute

Spec == Init /\ [][Next]_vars

\* The loop ticks every 30 seconds and every call in it is bounded; a store that refuses a
\* write, and a project, profile or provider that refuses a plan, does so for a while only.
FairSpec ==
    /\ Spec
    /\ \A b \in Backend : WF_vars(Step(b)) /\ SF_vars(Preview(b)) /\ SF_vars(Finish(b))

-----------------------------------------------------------------------------
ScheduleRow == [revision : Revision, enabled : BOOLEAN, expression : Expression,
                template : Template, deleted : BOOLEAN, watermark : 0 .. MaxMinute]
OccurrenceRow == [schedule : Schedule, revision : Revision, template : Template,
                  state : {"pending", "started", "failed"}, operation : BOOLEAN,
                  dispatch : {"none", "open", "completed"}]

\* The absence of a schedule is no schedule.
ASSUME NoneAssumption == None \notin ScheduleRow

(* Every variable has its type; a started row has its operation (the table's CHECK). *)
TypeOK ==
    /\ schedules \in [Schedule -> {None} \cup ScheduleRow]
    /\ receipts \in [MutationKey -> {None} \cup [request : Put \cup Delete, revision : Revision]]
    /\ DOMAIN occurrences \subseteq Key
    /\ \A k \in DOMAIN occurrences :
         /\ occurrences[k] \in OccurrenceRow
         /\ occurrences[k].state = "started" => occurrences[k].operation
    /\ spawns \in [Key -> [planned : BOOLEAN, launched : BOOLEAN, succeeded : BOOLEAN]]
    /\ \A b \in Backend : loop[b].pc \in {"idle", "next", "preview", "trust", "bind", "apply",
                                              "finish"}
    /\ holder \in Backend
    /\ minute \in Minute
    /\ admitted \in [Key -> Nat]
    /\ contradicted \subseteq MutationKey

-----------------------------------------------------------------------------
(* Safety *)

\* One occurrence per schedule and minute, and per run-once key, for ever: not even the
\* compaction of finished rows and the late tick of a replaced backend admit it again
\* ("A durable watermark prevents replay even after old launch receipts are compacted").
AdmittedOnce == \A k \in Key : admitted[k] <= 1

\* An occurrence runs the template its schedule had at the revision it was admitted at,
\* however often the schedule is edited before the launch.
TemplateOfItsRevision ==
    \A k \in DOMAIN occurrences :
        /\ <<occurrences[k].schedule, occurrences[k].revision, occurrences[k].template>>
             \in published
        /\ \A l \in launchedWith : l[1] = k => l[2] = occurrences[k].template

\* A row whose agent runs names the operation, so that the agent's report finds it; in
\* particular nothing was launched for a row that failed without one ("Persist the launch
\* identity before an agent can enroll its reporting Run").
LaunchNamesItsRow ==
    \A k \in DOMAIN occurrences : spawns[k].launched => occurrences[k].operation

\* A put or delete that is retried under its key is answered as it was the first time,
\* whatever happened to the schedule since.
RetryIsAnsweredAlike == contradicted = {}

\* Two backends that execute one occurrence agree on its outcome: the first that is
\* recorded stays.
OutcomeIsFinal ==
    [][\A k \in DOMAIN occurrences \cap DOMAIN occurrences' :
         occurrences[k].state # "pending" =>
           /\ occurrences'[k].state = occurrences[k].state
           /\ occurrences'[k].operation = occurrences[k].operation]_vars

\* The launch of k is being recorded as failed.
FailsNow(k) ==
    \E b \in Backend : /\ loop[b].pc = "finish" /\ loop[b].key = k /\ ~loop[b].started
                       /\ loop'[b].pc = "next"

\* The occurrence k has a failed launch or a report.
IsOver(rows, k) == rows[k].state = "failed" \/ rows[k].dispatch = "completed"

\* The rows of a schedule that are over and newer than minute m.
NewerOver(rows, s, m) ==
    {j \in DOMAIN rows : j \in ScheduledKey /\ rows[j].schedule = s /\ j[2] > m /\ IsOver(rows, j)}

\* Whichever backend finishes last, the history of a schedule loses old outcomes only: a row
\* that goes is no run-once row, its launch failed or its agent has reported, and Retained
\* newer outcomes of its schedule are still there afterwards.  (The row may be pending: one
\* whose agent reported before its launch was recorded as accepted goes with the others,
\* although the comment on the query says "Keep pending work".)
OnlyOldOutcomesGo ==
    [][\A k \in DOMAIN occurrences \ DOMAIN occurrences' :
         /\ k \in ScheduledKey
         /\ IsOver(occurrences, k) \/ FailsNow(k)
         /\ Cardinality(NewerOver(occurrences', occurrences[k].schedule, k[2])) >= Retained]_vars

\* "Keep pending work and missing reports": the row of an agent that has enrolled and has
\* not reported yet stays.
MissingReportsAreKept ==
    [][\A k \in DOMAIN occurrences :
         occurrences[k].dispatch = "open" => k \in DOMAIN occurrences']_vars

\* Every admitted occurrence is launched or given up in the end.
PendingSettles ==
    \A k \in Key : Open(k) ~> ~Open(k)
=============================================================================
