-------------------------- MODULE InteractionStore --------------------------
(***************************************************************************)
(* The durable interaction store of one authority scope (StoreState in     *)
(* orchestration/src/ports/state.rs): the dispatches, the interactions     *)
(* opened on them, the event log, the inbox delivery of every event and    *)
(* the receipts of accepted requests.  Each operation runs in one          *)
(* transaction on one copy of the state, so each is one action; an         *)
(* operation that is refused, or that replays a remembered receipt, writes *)
(* nothing and is a stuttering step.  Clients may send any request of the  *)
(* request sets at any time, again and in any order: a lost response, a    *)
(* retry and a delayed duplicate are all the same to the store.            *)
(*                                                                         *)
(* Capabilities are abstracted to the roles they stand for: a request here *)
(* presents the capability negotiated for its dispatch, and one that       *)
(* presents another is refused before anything changes.                    *)
(***************************************************************************)
EXTENDS Naturals, Sequences, FiniteSets, DeliveryWake

CONSTANTS
    Target,             \* dispatch targets: run, task, dispatch id and generation
    Session,            \* session identities a worker endpoint can have
    Participant,        \* coordinators, workers and other audience members
    InteractionId,      \* interaction ids that clients choose
    CoordinatorOf,      \* [Target -> Participant]: participant of the coordinator grant
    WorkerOf,           \* [Target -> Participant]: participant of the worker endpoint
    Wakeable,           \* targets whose endpoint negotiated a wake capability
    Instant,            \* wall clock readings
    WakeOutcome,        \* effect references and reason codes of wakes
    CreateRequests, OpenRequests, AnswerRequests, CompleteRequests,
    DeadlineRequests, ReadRequests, WakeRequests,
    Moves               \* <<source, target>> sessions of possible rebinds

ASSUME RolesAssumption ==
    /\ CoordinatorOf \in [Target -> Participant]
    /\ WorkerOf \in [Target -> Participant]
    /\ \A t \in Target : CoordinatorOf[t] # WorkerOf[t]

ASSUME NamesAssumption ==
    /\ IsFiniteSet(Target)
    /\ None \notin Session
    /\ None \notin Target
    /\ None \notin InteractionId
    /\ None \notin Instant
    /\ \A n \in Instant : n \in Nat
    /\ None \notin {"deadline"} \X Nat
    /\ \A i \in InteractionId : i \notin {"deadline"} \X Nat
    /\ CapabilityUnavailable \in WakeOutcome

\* What the contract types guarantee of a request that reaches the store.
ASSUME RequestsAssumption ==
    /\ \A r \in CreateRequests : /\ r.op = "create_run"
                                 /\ r.target \in Target
                                 /\ r.session \in Session
    /\ \A r \in OpenRequests : /\ r.op = "open"
                               /\ r.target \in Target
                               /\ r.id \in InteractionId
                               /\ r.audience \subseteq Participant
    /\ \A r \in AnswerRequests : r.op = "answer" /\ r.target \in Target /\ r.id \in InteractionId
    /\ \A r \in CompleteRequests : /\ r.op = "complete"
                                   /\ r.target \in Target
                                   /\ r.id \in InteractionId
                                   /\ r.audience \subseteq Participant
    /\ \A r \in DeadlineRequests : /\ r.op = "deadline"
                                   /\ r.target \in Target
                                   /\ r.due \in Instant \cup {None}
    /\ \A r \in WakeRequests : /\ r.kind \in WakeKinds
                               /\ r.outcome \in WakeOutcome \cup {None}
                               /\ r.at \in Nat
    /\ Moves \subseteq Session \X Session

VARIABLES
    dispatches,         \* [Target -> DispatchRecord], state "absent" before create_run
    interactions,       \* interaction id -> InteractionRecord, a growing map
    events,             \* the event log; an event's cursor is its position
    deliveries,         \* <<cursor, participant>> -> DeliveryEntry, a growing map
    idempotency,        \* operation key -> accepted request and the cursors it produced
    ackIdempotency      \* acknowledgement key -> the read request that used it

vars == <<dispatches, interactions, events, deliveries, idempotency, ackIdempotency>>

-----------------------------------------------------------------------------
(* Records *)

DispatchStates == {"absent", "active", "blocked", "completed"}
DeliveryStates == {"queued", "observed", "acknowledged"}

\* The id of a deadline message is derived from the cursor of its event.
DeadlineId(cursor) == <<"deadline", cursor>>

Absent == [state |-> "absent", revision |-> 0, blockedBy |-> None,
           due |-> None, overdue |-> 0, session |-> None]

NextCursor == Len(events) + 1

\* Faulty: forgets that a completed dispatch is finished.
UnfinishedFaulty(t) == dispatches[t].state # "absent"

Unfinished(t) == dispatches[t].state \in {"active", "blocked"}

Event(t, kind, id) == [target |-> t, kind |-> kind, id |-> id]

\* f with f[x] = y, whether or not x was in its domain.
Put(f, x, y) == [z \in DOMAIN f \cup {x} |-> IF z = x THEN y ELSE f[z]]

-----------------------------------------------------------------------------
(* Idempotency: the operation key scopes a client's key by operation and   *)
(* target; the fingerprint of a request is the request.                    *)

OperationKey(r) == <<r.op, IF r.op = "create_run" THEN None ELSE r.target, r.key>>

\* Faulty: looks for the fingerprint and not for the key.
FreshFaulty(r) == \A k \in DOMAIN idempotency : idempotency[k].request # r

Fresh(r) == OperationKey(r) \notin DOMAIN idempotency

\* Faulty: claims the cursor of the event before the first it appended.
RememberFaultyFirst(r, count) ==
    idempotency' = Put(idempotency, OperationKey(r),
                       [request |-> r, first |-> Len(events), last |-> Len(events) + count])

\* Faulty: records only the first of the events it appended.
RememberFaultyLast(r, count) ==
    idempotency' = Put(idempotency, OperationKey(r),
                       [request |-> r, first |-> NextCursor, last |-> NextCursor])

Remember(r, count) ==
    idempotency' = Put(idempotency, OperationKey(r),
                       [request |-> r, first |-> NextCursor, last |-> Len(events) + count])

-----------------------------------------------------------------------------
(* append_event and queue_deliveries.  The worker's own deliveries carry   *)
(* the identity of its endpoint; the others have no endpoint.              *)

NewDelivery(k) ==
    LET t == events'[k[1]].target
    IN  [state |-> "queued",
         session |-> IF k[2] = WorkerOf[t] THEN dispatches'[t].session ELSE None,
         wake |-> NoWake]

\* Appends the events of new, and queues new[i] for the participants of to[i].
Publish(new, to) ==
    /\ events' = events \o new
    /\ deliveries' =
         [k \in DOMAIN deliveries
                  \cup {d \in (NextCursor .. Len(events) + Len(new)) \X Participant :
                            d[2] \in to[d[1] - Len(events)]}
            |-> IF k \in DOMAIN deliveries THEN deliveries[k] ELSE NewDelivery(k)]

-----------------------------------------------------------------------------
(* create_run: one dispatch per target, and a session that still works on  *)
(* an unfinished dispatch takes no other.                                  *)

Unassigned(s) == \A t \in Target : Unfinished(t) => dispatches[t].session # s

CreateRun(r) ==
    /\ Fresh(r)
    /\ dispatches[r.target].state = "absent"
    /\ Unassigned(r.session)
    /\ dispatches' = [dispatches EXCEPT ![r.target] =
                        [Absent EXCEPT !.state = "active", !.revision = 1, !.session = r.session]]
    /\ Publish(<<Event(r.target, "run_created", None)>>,
               <<{CoordinatorOf[r.target], WorkerOf[r.target]}>>)
    /\ Remember(r, 1)
    /\ UNCHANGED <<interactions, ackIdempotency>>

-----------------------------------------------------------------------------
(* open: an update message never changes the dispatch, and is accepted in  *)
(* every state of it; a decision blocks an active dispatch.                *)

OpenAdmitted(r) ==
    /\ Fresh(r)
    /\ dispatches[r.target].state # "absent"
    /\ dispatches[r.target].revision = r.expected
    /\ r.id \notin DOMAIN interactions

Interaction(r, kind, status) ==
    [kind |-> kind, target |-> r.target, audience |-> r.audience,
     revision |-> 1, status |-> status]

BlockedBy(d, id) ==
    [d EXCEPT !.state = "blocked", !.blockedBy = id, !.revision = d.revision + 1]

OpenMessage(r) ==
    /\ r.kind = "message"
    /\ OpenAdmitted(r)
    /\ UNCHANGED <<dispatches, ackIdempotency>>
    /\ Publish(<<Event(r.target, "interaction_opened", r.id)>>, <<r.audience>>)
    /\ interactions' = Put(interactions, r.id, Interaction(r, "message", "none"))
    /\ Remember(r, 1)

OpenDecision(r) ==
    /\ r.kind = "decision"
    /\ OpenAdmitted(r)
    /\ dispatches[r.target].state = "active"
    /\ dispatches' = [dispatches EXCEPT ![r.target] = BlockedBy(@, r.id)]
    /\ Publish(<<Event(r.target, "interaction_opened", r.id),
                 Event(r.target, "dispatch_blocked", r.id)>>, <<r.audience, {}>>)
    /\ interactions' = Put(interactions, r.id, Interaction(r, "decision", "open"))
    /\ Remember(r, 2)
    /\ UNCHANGED ackIdempotency

-----------------------------------------------------------------------------
(* answer: a member of the audience answers the one decision that blocks   *)
(* the dispatch, at the revisions it has seen.  The worker gets the answer *)
(* even when the audience left it out.                                     *)

\* Faulty: does not compare the dispatch revision.
AnswerAdmittedFaulty(r) ==
    /\ Fresh(r)
    /\ r.id \in DOMAIN interactions
    /\ interactions[r.id].target = r.target
    /\ interactions[r.id].status = "open"
    /\ r.by \in interactions[r.id].audience

AnswerAdmitted(r) ==
    /\ Fresh(r)
    /\ r.id \in DOMAIN interactions
    /\ interactions[r.id].kind = "decision"
    /\ interactions[r.id].target = r.target
    /\ interactions[r.id].revision = r.expectedInteraction
    /\ dispatches[r.target].revision = r.expected
    /\ interactions[r.id].status = "open"
    /\ dispatches[r.target].state = "blocked"
    /\ dispatches[r.target].blockedBy = r.id
    /\ r.by \in interactions[r.id].audience

\* Faulty: forgets queue_worker_delivery.
AnswerRecipientsFaulty(r) == interactions[r.id].audience

AnswerRecipients(r) == interactions[r.id].audience \cup {WorkerOf[r.target]}

Answered(i) == [i EXCEPT !.status = "answered", !.revision = i.revision + 1]

Unblocked(d) == [d EXCEPT !.state = "active", !.blockedBy = None, !.revision = d.revision + 1]

Answer(r) ==
    /\ AnswerAdmitted(r)
    /\ interactions' = [interactions EXCEPT ![r.id] = Answered(@)]
    /\ dispatches' = [dispatches EXCEPT ![r.target] = Unblocked(@)]
    /\ Publish(<<Event(r.target, "decision_answered", r.id),
                 Event(r.target, "dispatch_unblocked", r.id)>>,
               <<AnswerRecipients(r), {}>>)
    /\ Remember(r, 2)
    /\ UNCHANGED ackIdempotency

-----------------------------------------------------------------------------
(* complete: the worker, at the endpoint it has now, finishes an active    *)
(* dispatch with a completion report.                                      *)

\* Faulty: completes a dispatch that waits for a decision.
CompleteAdmittedFaulty(r) ==
    /\ Fresh(r)
    /\ Unfinished(r.target)
    /\ dispatches[r.target].revision = r.expected
    /\ r.by = WorkerOf[r.target]
    /\ r.session = dispatches[r.target].session
    /\ r.id \notin DOMAIN interactions

CompleteAdmitted(r) ==
    /\ Fresh(r)
    /\ dispatches[r.target].state = "active"
    /\ dispatches[r.target].revision = r.expected
    /\ r.by = WorkerOf[r.target]
    /\ r.session = dispatches[r.target].session
    /\ r.id \notin DOMAIN interactions

Completed(d) == [d EXCEPT !.state = "completed", !.revision = d.revision + 1]

Complete(r) ==
    /\ CompleteAdmitted(r)
    /\ dispatches' = [dispatches EXCEPT ![r.target] = Completed(@)]
    /\ Publish(<<Event(r.target, "dispatch_completed", r.id)>>, <<r.audience>>)
    /\ interactions' = Put(interactions, r.id, Interaction(r, "completion", "none"))
    /\ Remember(r, 1)
    /\ UNCHANGED ackIdempotency

-----------------------------------------------------------------------------
(* Deadlines are attention: setting one revises the dispatch and tells the *)
(* coordinator; the backend clock reports an incomplete dispatch once per  *)
(* setting and changes neither its revision nor its state.                 *)

DeadlineMessage(t) ==
    [kind |-> "deadline", target |-> t, audience |-> {CoordinatorOf[t]},
     revision |-> 1, status |-> "none"]

\* A new setting, which has not been reported.
DueAt(d, due) == [d EXCEPT !.due = due, !.overdue = 0, !.revision = d.revision + 1]

SetDeadline(r) ==
    /\ Fresh(r)
    /\ Unfinished(r.target)
    /\ dispatches[r.target].revision = r.expected
    /\ dispatches' = [dispatches EXCEPT ![r.target] = DueAt(@, r.due)]
    /\ Publish(<<Event(r.target, "interaction_opened", DeadlineId(NextCursor))>>,
               <<{CoordinatorOf[r.target]}>>)
    /\ interactions' = Put(interactions, DeadlineId(NextCursor), DeadlineMessage(r.target))
    /\ Remember(r, 1)
    /\ UNCHANGED ackIdempotency

\* Faulty: reports a dispatch again on every tick.
OverdueFaultyRepeat(t, now) ==
    Unfinished(t) /\ dispatches[t].due # None /\ dispatches[t].due <= now

\* Faulty: an instant that is due is not yet late.
OverdueFaultyStrict(t, now) ==
    /\ Unfinished(t)
    /\ dispatches[t].due # None
    /\ dispatches[t].due < now
    /\ dispatches[t].overdue = 0

Overdue(t, now) ==
    /\ Unfinished(t)
    /\ dispatches[t].due # None
    /\ dispatches[t].due <= now
    /\ dispatches[t].overdue = 0

\* The orders in which one pass over the dispatches can meet those of S.
OrderingsOf(S) ==
    {order \in [1 .. Cardinality(S) -> S] :
        \A t \in S : \E i \in 1 .. Cardinality(S) : order[i] = t}

\* One tick of the backend clock: every overdue dispatch is reported in one pass.
ExpireDeadlines(now) ==
    LET late == {t \in Target : Overdue(t, now)}
    IN  /\ late # {}
        /\ \E order \in OrderingsOf(late) :
             LET new == [i \in 1 .. Cardinality(late) |->
                           Event(order[i], "interaction_opened", DeadlineId(Len(events) + i))]
                 cursorOf(t) == Len(events) + (CHOOSE i \in DOMAIN order : order[i] = t)
             IN  /\ dispatches' = [t \in Target |->
                                     IF t \in late
                                     THEN [dispatches[t] EXCEPT !.overdue = cursorOf(t)]
                                     ELSE dispatches[t]]
                 /\ Publish(new, [i \in DOMAIN new |-> {CoordinatorOf[order[i]]}])
                 /\ interactions' =
                      [id \in DOMAIN interactions \cup {new[i].id : i \in DOMAIN new} |->
                         IF id \in DOMAIN interactions THEN interactions[id]
                         ELSE DeadlineMessage(events'[id[2]].target)]
        /\ UNCHANGED <<idempotency, ackIdempotency>>

-----------------------------------------------------------------------------
(* read_events: a worker reads the inbox of its dispatch under the fence   *)
(* of its endpoint, everyone else reads the deliveries without endpoint.   *)
(* An acknowledgement is cumulative within the scope of the read; what the *)
(* read returns becomes observed.                                          *)

Inbox(r) ==
    {k \in DOMAIN deliveries :
        /\ k[2] = r.participant
        /\ (deliveries[k].session = None) = (r.session = None)
        /\ r.target = None \/ events[k[1]].target = r.target}

FenceHolds(r) ==
    /\ r.session # None =>
         /\ dispatches[r.target].state # "absent"
         /\ WorkerOf[r.target] = r.participant
         /\ dispatches[r.target].session = r.session
    /\ \A k \in Inbox(r) : deliveries[k].session = r.session

\* The cursors of the page: the first r.limit after r.after.
Selected(r) ==
    LET later == {k[1] : k \in {d \in Inbox(r) : d[1] > r.after}}
    IN  {c \in later : Cardinality({d \in later : d <= c}) <= r.limit}

AckKey(r) == <<r.participant, r.session, r.ack.key>>

\* Only an event that has been read can be acknowledged through.
AckAdmitted(r) ==
    /\ AckKey(r) \in DOMAIN ackIdempotency => ackIdempotency[AckKey(r)] = r
    /\ \E k \in Inbox(r) : k[1] = r.ack.through /\ deliveries[k].state # "queued"

\* Faulty: acknowledges one event instead of everything up to it.
AcknowledgedFaulty(r) ==
    IF r.ack = None THEN {} ELSE {k \in Inbox(r) : k[1] = r.ack.through}

Acknowledged(r) ==
    IF r.ack = None THEN {} ELSE {k \in Inbox(r) : k[1] <= r.ack.through}

\* Faulty: marks what was already acknowledged as merely observed.
NewlyObservedFaulty(r) ==
    {k \in DOMAIN deliveries : k[1] \in Selected(r) /\ k[2] = r.participant}

NewlyObserved(r) ==
    {k \in DOMAIN deliveries : /\ k[1] \in Selected(r)
                               /\ k[2] = r.participant
                               /\ deliveries[k].state = "queued"}

ReadEvents(r) ==
    /\ FenceHolds(r)
    /\ r.ack # None => AckAdmitted(r)
    /\ deliveries' =
         [k \in DOMAIN deliveries |->
            IF k \in Acknowledged(r) THEN [deliveries[k] EXCEPT !.state = "acknowledged"]
            ELSE IF k \in NewlyObserved(r) THEN [deliveries[k] EXCEPT !.state = "observed"]
            ELSE deliveries[k]]
    /\ ackIdempotency' = IF r.ack = None THEN ackIdempotency
                         ELSE Put(ackIdempotency, AckKey(r), r)
    /\ UNCHANGED <<dispatches, interactions, events, idempotency>>

-----------------------------------------------------------------------------
(* transition_delivery_wake, with the validation that guards every commit: *)
(* a delivery without an endpoint has nobody to wake.                      *)

WakeAdmitted(r) ==
    /\ r.receipt \in DOMAIN deliveries
    /\ LET d == deliveries[r.receipt]
           t == events[r.receipt[1]].target
       IN  /\ r.capable = (d.session # None /\ t \in Wakeable)
           /\ r.kind # "request" => r.capable
           /\ dispatches[t].session = r.session
           /\ d.session # None
           /\ WakeApplies(d.wake, d.state = "queued", r.kind)
           /\ r.at >= d.wake.at

TransitionWake(r) ==
    /\ WakeAdmitted(r)
    /\ deliveries' = [deliveries EXCEPT ![r.receipt].wake =
                        WakeReplacement(r.kind, r.capable, r.outcome, r.at)]
    /\ UNCHANGED <<dispatches, interactions, events, idempotency, ackIdempotency>>

-----------------------------------------------------------------------------
(* Session rebind: after a rehost the worker continues in another session. *)
(* The unfinished dispatch of the source moves unless the target has one   *)
(* of its own; completed dispatches move while they have mail to drain.    *)

ActiveOn(s) == {t \in Target : Unfinished(t) /\ dispatches[t].session = s}

\* A completed dispatch needs a successor once the coordinator has read all of
\* its mail and the worker has read every interaction.
SuccessorRequired(t) ==
    /\ dispatches[t].state = "completed"
    /\ \A k \in DOMAIN deliveries :
         /\ events[k[1]].target = t
         /\ \/ k[2] = CoordinatorOf[t]
            \/ k[2] = WorkerOf[t] /\ events[k[1]].kind = "interaction_opened"
         => deliveries[k].state # "queued"

DrainableOn(s) ==
    {t \in Target : /\ dispatches[t].state = "completed"
                    /\ dispatches[t].session = s
                    /\ ~SuccessorRequired(t)}

RebindAdmitted(from, to) ==
    /\ Cardinality(ActiveOn(from)) <= 1
    /\ Cardinality(ActiveOn(to)) <= 1
    /\ ~ (/\ ActiveOn(from) # {}
          /\ ActiveOn(to) # {}
          /\ DrainableOn(from) = {}
          /\ DrainableOn(to) = {})

\* Faulty: moves the unfinished dispatch to a session that has one of its own.
ReboundFaulty(from, to) == DrainableOn(from) \cup ActiveOn(from)

Rebound(from, to) ==
    DrainableOn(from) \cup (IF ActiveOn(to) = {} THEN ActiveOn(from) ELSE {})

\* Faulty: leaves the mail of the worker with the endpoint it had.
MovedDeliveriesFaulty(S, to) == deliveries

\* move_dispatch_session for every dispatch of S: the endpoint, and with it the
\* endpoint of every delivery already queued for the worker.
MovedDeliveries(S, to) ==
    [k \in DOMAIN deliveries |->
        IF events[k[1]].target \in S /\ k[2] = WorkerOf[events[k[1]].target]
        THEN [deliveries[k] EXCEPT !.session = to]
        ELSE deliveries[k]]

MoveSessions(S, to) ==
    /\ dispatches' = [t \in Target |-> IF t \in S THEN [dispatches[t] EXCEPT !.session = to]
                                       ELSE dispatches[t]]
    /\ deliveries' = MovedDeliveries(S, to)
    /\ UNCHANGED <<interactions, events, idempotency, ackIdempotency>>

RebindSession(from, to) ==
    /\ RebindAdmitted(from, to)
    /\ MoveSessions(Rebound(from, to), to)

\* The same for one exact dispatch: a completed one follows even when drained.
ReconcileSession(t, from, to) ==
    /\ dispatches[t].session \in {from, to}
    /\ RebindAdmitted(from, to)
    /\ dispatches[t].session = from /\ t \notin Rebound(from, to) =>
         dispatches[t].state = "completed"
    /\ MoveSessions(Rebound(from, to) \cup
                      (IF dispatches[t].session = from THEN {t} ELSE {}), to)

-----------------------------------------------------------------------------
EmptyMap == [x \in {} |-> None]

Init ==
    /\ dispatches = [t \in Target |-> Absent]
    /\ interactions = EmptyMap
    /\ events = << >>
    /\ deliveries = EmptyMap
    /\ idempotency = EmptyMap
    /\ ackIdempotency = EmptyMap

Next ==
    \/ \E r \in CreateRequests : CreateRun(r)
    \/ \E r \in OpenRequests : OpenMessage(r)
    \/ \E r \in OpenRequests : OpenDecision(r)
    \/ \E r \in AnswerRequests : Answer(r)
    \/ \E r \in CompleteRequests : Complete(r)
    \/ \E r \in DeadlineRequests : SetDeadline(r)
    \/ \E now \in Instant : ExpireDeadlines(now)
    \/ \E r \in ReadRequests : ReadEvents(r)
    \/ \E r \in WakeRequests : TransitionWake(r)
    \/ \E m \in Moves : RebindSession(m[1], m[2])
    \/ \E m \in Moves, t \in Target : ReconcileSession(t, m[1], m[2])

Spec == Init /\ [][Next]_vars

\* The backend checks deadlines every few seconds for as long as it runs.
FairSpec == Spec /\ WF_vars(\E now \in Instant : ExpireDeadlines(now))

-----------------------------------------------------------------------------
(* Type correctness *)

Cursor == Nat \ {0}
DeadlineIds == {"deadline"} \X Cursor
AllIds == InteractionId \cup DeadlineIds

DispatchRecord ==
    [state : DispatchStates, revision : Nat, blockedBy : InteractionId \cup {None},
     due : Instant \cup {None}, overdue : Nat, session : Session \cup {None}]

InteractionRecord ==
    [kind : {"message", "decision", "completion", "deadline"}, target : Target,
     audience : SUBSET Participant, revision : Nat, status : {"none", "open", "answered"}]

EventKinds == {"run_created", "interaction_opened", "dispatch_blocked", "decision_answered",
               "dispatch_unblocked", "dispatch_completed"}

EventRecord == [target : Target, kind : EventKinds, id : {None} \cup AllIds]

DeliveryEntry ==
    [state : DeliveryStates, session : Session \cup {None},
     wake : [state : WakeStates, outcome : WakeOutcome \cup {None}, at : Nat]]

AllRequests == UNION {CreateRequests, OpenRequests, AnswerRequests, CompleteRequests,
                      DeadlineRequests}

Receipt == [request : AllRequests, first : Cursor, last : Nat]

(* Every variable has its type: the maps grow over the ids, cursors and keys in use. *)
TypeOK ==
    /\ dispatches \in [Target -> DispatchRecord]
    /\ DOMAIN interactions \subseteq AllIds
    /\ interactions \in [DOMAIN interactions -> InteractionRecord]
    /\ events \in Seq(EventRecord)
    /\ DOMAIN deliveries \subseteq (1 .. Len(events)) \X Participant
    /\ deliveries \in [DOMAIN deliveries -> DeliveryEntry]
    /\ idempotency \in [DOMAIN idempotency -> Receipt]
    /\ ackIdempotency \in [DOMAIN ackIdempotency -> ReadRequests]

-----------------------------------------------------------------------------
(* Safety *)

\* The open decisions of a dispatch are exactly the one it is blocked by: no
\* dispatch waits for a decision that nobody can answer any more (open, answer
\* and complete keep the two records in step).
BlockedByItsOpenDecision ==
    \A t \in Target :
        {i \in DOMAIN interactions : interactions[i].target = t /\ interactions[i].status = "open"}
          = IF dispatches[t].state = "blocked" THEN {dispatches[t].blockedBy} ELSE {}

\* A session works on at most one unfinished dispatch, whatever the order of
\* create_run, completion and session rebinds (the GenerationConflict guard of
\* create_run and the active-match rules of rebind_dispatch_session).
SessionExclusive ==
    \A t, u \in Target :
        Unfinished(t) /\ Unfinished(u) /\ dispatches[t].session = dispatches[u].session => t = u

\* What StoreState::validate asks of deliveries before every load and commit: a
\* delivery names the endpoint its worker has now, after any rebind, and only a
\* delivery with an endpoint that can be woken is ever being woken.
DeliveriesFenced ==
    \A k \in DOMAIN deliveries :
        LET t == events[k[1]].target
            d == deliveries[k]
        IN  /\ dispatches[t].state # "absent"
            /\ d.session = IF k[2] = WorkerOf[t] THEN dispatches[t].session ELSE None
            /\ d.wake.state # "none" => k[2] = WorkerOf[t]
            /\ d.wake.state \in {"pending", "uncertain", "triggered"} => t \in Wakeable

\* The requests that revise a dispatch.
Revising(r) ==
    \/ r.op \in {"answer", "complete", "deadline"}
    \/ r.op = "open" /\ r.kind = "decision"

RevisingReceipts(t) ==
    {k \in DOMAIN idempotency :
        idempotency[k].request.target = t /\ Revising(idempotency[k].request)}

\* No lost update: each revision of a dispatch was spent by exactly one accepted
\* request, the one that expected it (the revision checks of open, answer,
\* complete and set_dispatch_deadline).
EachRevisionSpentOnce ==
    \A t \in Target : dispatches[t].state # "absent" =>
        /\ \A k, l \in RevisingReceipts(t) :
             idempotency[k].request.expected = idempotency[l].request.expected => k = l
        /\ {idempotency[k].request.expected : k \in RevisingReceipts(t)}
             = 1 .. dispatches[t].revision - 1

\* The receipts that produced the event at cursor c.
Producers(c) == {k \in DOMAIN idempotency : idempotency[k].first <= c /\ c <= idempotency[k].last}

\* Every event of the log is the effect of exactly one accepted request on its own
\* dispatch, or an overdue report of the clock: retries add nothing to the log.
EventsAccounted ==
    \A c \in DOMAIN events :
        /\ \A k, l \in Producers(c) : k = l
        /\ \A k \in Producers(c) : idempotency[k].request.target = events[c].target
        /\ Producers(c) = {} => events[c].id = DeadlineId(c)

\* The overdue reports on a dispatch are at most as many as the deadlines it was
\* given ("one informational coordinator Message per setting").
OverdueOncePerSetting ==
    \A t \in Target :
        Cardinality({c \in DOMAIN events : events[c].target = t /\ Producers(c) = {}})
          <= Cardinality({k \in RevisingReceipts(t) :
                            /\ idempotency[k].request.op = "deadline"
                            /\ idempotency[k].request.due # None})

\* After the completion of a dispatch its log holds nothing but informational
\* messages that clients sent: no block, answer, deadline or second completion.
NothingAfterCompletion ==
    \A c, d \in DOMAIN events :
        /\ events[c].kind = "dispatch_completed"
        /\ c < d
        /\ events[d].target = events[c].target
        => /\ events[d].kind = "interaction_opened"
           /\ interactions[events[d].id].kind = "message"

\* A worker whose decision was answered has the answer in its inbox, under the
\* endpoint it has now, even when the decision's audience left it out.
AnswerReachesWorker ==
    \A c \in DOMAIN events :
        events[c].kind = "decision_answered" =>
            LET t == events[c].target
            IN  /\ <<c, WorkerOf[t]>> \in DOMAIN deliveries
                /\ deliveries[<<c, WorkerOf[t]>>].session = dispatches[t].session

\* Acknowledgement is a prefix of a participant's inbox of one dispatch: what came
\* before an acknowledged delivery is acknowledged (cumulative read_events).
AcknowledgedPrefix ==
    \A k, l \in DOMAIN deliveries :
        /\ k[2] = l[2]
        /\ k[1] < l[1]
        /\ events[k[1]].target = events[l[1]].target
        /\ deliveries[l].state = "acknowledged"
        => deliveries[k].state = "acknowledged"

-----------------------------------------------------------------------------
(* Action properties *)

DeliveryRank(state) ==
    CASE state = "queued" -> 0 [] state = "observed" -> 1 [] state = "acknowledged" -> 2

\* What the store has told somebody stays so.  A completed dispatch is never revised,
\* reopened or given a deadline again (only its endpoint can still move); a remembered
\* receipt is never replaced or forgotten, so a retry is answered by it for ever; and a
\* delivery never goes back to an earlier state, through reads, acknowledgements, wakes
\* and rebinds alike.
HistoryIsPermanent ==
    [][/\ \A t \in Target : dispatches[t].state = "completed" =>
            dispatches'[t] = [dispatches[t] EXCEPT !.session = dispatches'[t].session]
       /\ \A k \in DOMAIN idempotency :
            k \in DOMAIN idempotency' /\ idempotency'[k] = idempotency[k]
       /\ \A k \in DOMAIN ackIdempotency :
            k \in DOMAIN ackIdempotency' /\ ackIdempotency'[k] = ackIdempotency[k]
       /\ \A k \in DOMAIN deliveries :
            /\ k \in DOMAIN deliveries'
            /\ DeliveryRank(deliveries[k].state) <= DeliveryRank(deliveries'[k].state)]_vars

\* A wake that may have been written is settled, never claimed again, and a
\* triggered wake keeps its effect for ever.
UncertainWakeIsSettled ==
    [][\A k \in DOMAIN deliveries :
          LET old == deliveries[k].wake
              new == deliveries'[k].wake
          IN  /\ old.state = "triggered" => new = old
              /\ old.state = "uncertain" => \/ new = old
                                            \/ new.state \in {"triggered", "queued"}
              /\ old.state = "queued" /\ new # old => /\ new.state = "uncertain"
                                                      /\ deliveries[k].state = "queued"]_vars

-----------------------------------------------------------------------------
(* Liveness *)

\* A deadline that an unfinished dispatch outlives is eventually reported, unless the
\* dispatch completes or its deadline is set again or cleared first.
OverdueIsReported ==
    \A t \in Target : \A due \in Instant :
        (Unfinished(t) /\ dispatches[t].due = due /\ dispatches[t].overdue = 0)
          ~> (~Unfinished(t) \/ dispatches[t].due # due \/ dispatches[t].overdue # 0)
=============================================================================
