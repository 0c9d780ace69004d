----------------------- MODULE InteractionStoreProofs -----------------------
(***************************************************************************)
(* Proofs about InteractionStore for every set of targets, sessions,       *)
(* participants and requests that satisfies its assumptions.               *)
(***************************************************************************)
EXTENDS InteractionStore, FiniteSetTheorems, SequenceTheorems, TLAPS

(* Putting an entry into a map keeps the type of the map (the growing maps of StoreState). *)
LEMMA PutType ==
    ASSUME NEW S, NEW f, f \in [DOMAIN f -> S], NEW x, NEW y \in S
    PROVE  /\ Put(f, x, y) \in [DOMAIN Put(f, x, y) -> S]
           /\ DOMAIN Put(f, x, y) = DOMAIN f \cup {x}
  BY DEF Put

(* append_event and queue_deliveries keep the types of the log and the inbox. *)
LEMMA PublishType ==
    ASSUME TypeOK, NEW new \in Seq(EventRecord), NEW to, Publish(new, to),
           dispatches' \in [Target -> DispatchRecord]
    PROVE  /\ events' \in Seq(EventRecord)
           /\ Len(events') = Len(events) + Len(new)
           /\ DOMAIN deliveries' \subseteq (1 .. Len(events')) \X Participant
           /\ deliveries' \in [DOMAIN deliveries' -> DeliveryEntry]
<1>1. /\ events \in Seq(EventRecord)
      /\ DOMAIN deliveries \subseteq (1 .. Len(events)) \X Participant
      /\ deliveries \in [DOMAIN deliveries -> DeliveryEntry]
  BY DEF TypeOK
<1>2. events' \in Seq(EventRecord) /\ Len(events') = Len(events) + Len(new)
  BY <1>1 DEF Publish
<1>3. Len(events) \in Nat /\ Len(new) \in Nat
  BY <1>1
<1> DEFINE added == {d \in (NextCursor .. Len(events) + Len(new)) \X Participant :
                        d[2] \in to[d[1] - Len(events)]}
<1>4. added \subseteq (1 .. Len(events')) \X Participant
  BY <1>2, <1>3 DEF NextCursor
<1>5. DOMAIN deliveries' = DOMAIN deliveries \cup added
  BY DEF Publish
<1>6. DOMAIN deliveries' \subseteq (1 .. Len(events')) \X Participant
  <2>1. (1 .. Len(events)) \X Participant \subseteq (1 .. Len(events')) \X Participant
    BY <1>2, <1>3
  <2> QED BY <2>1, <1>1, <1>4, <1>5
<1>7. \A k \in added : NewDelivery(k) \in DeliveryEntry
  <2> SUFFICES ASSUME NEW k \in added PROVE NewDelivery(k) \in DeliveryEntry
    OBVIOUS
  <2>1. k[1] \in 1 .. Len(events')
    BY <1>4
  <2>2. events'[k[1]] \in EventRecord
    BY <2>1, <1>2
  <2>3. events'[k[1]].target \in Target
    BY <2>2 DEF EventRecord
  <2>4. dispatches'[events'[k[1]].target].session \in Session \cup {None}
    BY <2>3 DEF DispatchRecord
  <2> QED BY <2>4 DEF NewDelivery, DeliveryEntry, DeliveryStates, NoWake, WakeStates
<1>8. deliveries' = [k \in DOMAIN deliveries \cup added |->
                       IF k \in DOMAIN deliveries THEN deliveries[k] ELSE NewDelivery(k)]
  BY DEF Publish
<1>9. \A k \in DOMAIN deliveries' : deliveries'[k] \in DeliveryEntry
  BY <1>1, <1>5, <1>7, <1>8
<1> QED BY <1>2, <1>6, <1>9, <1>8

(* The receipt of an accepted request has its type (remember, at the end of each operation). *)
LEMMA RememberType ==
    ASSUME TypeOK, NEW r \in AllRequests, NEW count \in Nat, Remember(r, count)
    PROVE  idempotency' \in [DOMAIN idempotency' -> Receipt]
<1>1. Len(events) \in Nat /\ idempotency \in [DOMAIN idempotency -> Receipt]
  BY DEF TypeOK
<1>2. [request |-> r, first |-> NextCursor, last |-> Len(events) + count] \in Receipt
  BY <1>1 DEF Receipt, NextCursor, Cursor
<1> QED BY <1>1, <1>2, PutType DEF Remember

(* The events that the operations append have their type. *)
LEMMA EventType ==
    ASSUME NEW t \in Target, NEW kind \in EventKinds, NEW id \in {None} \cup AllIds
    PROVE  Event(t, kind, id) \in EventRecord
  BY DEF Event, EventRecord

(* The records that open, complete and the deadline operations insert have their type. *)
LEMMA InteractionType ==
    /\ \A r, kind, status :
          /\ r.target \in Target
          /\ r.audience \subseteq Participant
          /\ kind \in {"message", "decision", "completion", "deadline"}
          /\ status \in {"none", "open", "answered"}
          => Interaction(r, kind, status) \in InteractionRecord
    /\ \A t \in Target : DeadlineMessage(t) \in InteractionRecord
<1>1. \A t \in Target : CoordinatorOf[t] \in Participant
  BY RolesAssumption
<1> QED BY <1>1 DEF Interaction, DeadlineMessage, InteractionRecord

(* Inserting an interaction keeps the type of the map of interactions. *)
LEMMA InsertType ==
    ASSUME TypeOK, NEW id \in AllIds, NEW record \in InteractionRecord,
           interactions' = Put(interactions, id, record)
    PROVE  /\ DOMAIN interactions' \subseteq AllIds
           /\ interactions' \in [DOMAIN interactions' -> InteractionRecord]
  BY DEF TypeOK, Put

(* The updates of a dispatch or an interaction record keep its type. *)
LEMMA RevisedType ==
    ASSUME NEW d \in DispatchRecord
    PROVE  /\ \A id \in InteractionId : BlockedBy(d, id) \in DispatchRecord
           /\ Unblocked(d) \in DispatchRecord
           /\ Completed(d) \in DispatchRecord
           /\ \A due \in Instant \cup {None} : DueAt(d, due) \in DispatchRecord
<1>1. d.revision + 1 \in Nat
  BY DEF DispatchRecord
<1> QED BY <1>1 DEF DispatchRecord, DispatchStates, BlockedBy, Unblocked, Completed, DueAt

(* Answering an interaction keeps the type of its record. *)
LEMMA AnsweredType ==
    ASSUME NEW i \in InteractionRecord
    PROVE  Answered(i) \in InteractionRecord
<1>1. i.revision + 1 \in Nat
  BY DEF InteractionRecord
<1> QED BY <1>1 DEF InteractionRecord, Answered

(* create_run keeps the type of every variable. *)
LEMMA CreateRunType ==
    ASSUME TypeOK, NEW r \in CreateRequests, CreateRun(r)
    PROVE  TypeOK'
<1>1. r.target \in Target /\ r.session \in Session /\ r \in AllRequests
  BY RequestsAssumption DEF AllRequests
<1>2. dispatches' \in [Target -> DispatchRecord]
  <2>1. [Absent EXCEPT !.state = "active", !.revision = 1, !.session = r.session] \in DispatchRecord
    BY <1>1 DEF Absent, DispatchRecord, DispatchStates
  <2> QED BY <2>1, <1>1 DEF CreateRun, TypeOK
<1>3. <<Event(r.target, "run_created", None)>> \in Seq(EventRecord)
  BY <1>1, EventType DEF EventKinds
<1>4. /\ events' \in Seq(EventRecord)
      /\ DOMAIN deliveries' \subseteq (1 .. Len(events')) \X Participant
      /\ deliveries' \in [DOMAIN deliveries' -> DeliveryEntry]
  BY <1>2, <1>3, PublishType DEF CreateRun
<1>5. idempotency' \in [DOMAIN idempotency' -> Receipt]
  BY <1>1, RememberType DEF CreateRun
<1> QED BY <1>2, <1>4, <1>5 DEF CreateRun, TypeOK

(* open keeps the type of every variable. *)
LEMMA OpenType ==
    ASSUME TypeOK, NEW r \in OpenRequests, OpenMessage(r) \/ OpenDecision(r)
    PROVE  TypeOK'
<1>1. /\ r.target \in Target
      /\ r.id \in InteractionId
      /\ r.audience \subseteq Participant
      /\ r \in AllRequests
  BY RequestsAssumption DEF AllRequests
<1>2. dispatches' \in [Target -> DispatchRecord]
  <2>1. dispatches \in [Target -> DispatchRecord] /\ dispatches[r.target] \in DispatchRecord
    BY <1>1 DEF TypeOK
  <2> QED BY <1>1, <2>1, RevisedType DEF OpenMessage, OpenDecision
<1>3. /\ interactions' \in [DOMAIN interactions' -> InteractionRecord]
      /\ DOMAIN interactions' \subseteq AllIds
  <2>1. r.id \in AllIds
    BY <1>1 DEF AllIds
  <2>2. /\ Interaction(r, "message", "none") \in InteractionRecord
        /\ Interaction(r, "decision", "open") \in InteractionRecord
    BY <1>1, InteractionType
  <2> QED BY <2>1, <2>2, InsertType DEF OpenMessage, OpenDecision
<1>4. /\ events' \in Seq(EventRecord)
      /\ DOMAIN deliveries' \subseteq (1 .. Len(events')) \X Participant
      /\ deliveries' \in [DOMAIN deliveries' -> DeliveryEntry]
  <2>1. /\ Event(r.target, "interaction_opened", r.id) \in EventRecord
        /\ Event(r.target, "dispatch_blocked", r.id) \in EventRecord
    BY <1>1, EventType DEF EventKinds, AllIds
  <2>2. CASE OpenMessage(r)
    <3>1. <<Event(r.target, "interaction_opened", r.id)>> \in Seq(EventRecord)
      BY <2>1
    <3> QED BY <1>2, <3>1, <2>2, PublishType DEF OpenMessage
  <2>3. CASE OpenDecision(r)
    <3>1. <<Event(r.target, "interaction_opened", r.id),
            Event(r.target, "dispatch_blocked", r.id)>> \in Seq(EventRecord)
      BY <2>1
    <3> QED BY <1>2, <3>1, <2>3, PublishType DEF OpenDecision
  <2> QED BY <2>2, <2>3
<1>5. idempotency' \in [DOMAIN idempotency' -> Receipt]
  BY <1>1, RememberType DEF OpenMessage, OpenDecision
<1> QED BY <1>2, <1>3, <1>4, <1>5 DEF OpenMessage, OpenDecision, TypeOK

(* answer keeps the type of every variable. *)
LEMMA AnswerType ==
    ASSUME TypeOK, NEW r \in AnswerRequests, Answer(r)
    PROVE  TypeOK'
<1>1. r.target \in Target /\ r.id \in InteractionId /\ r \in AllRequests
  BY RequestsAssumption DEF AllRequests
<1>2. dispatches' \in [Target -> DispatchRecord]
  <2>1. dispatches \in [Target -> DispatchRecord] /\ dispatches[r.target] \in DispatchRecord
    BY <1>1 DEF TypeOK
  <2> QED BY <1>1, <2>1, RevisedType DEF Answer
<1>3. /\ interactions' \in [DOMAIN interactions' -> InteractionRecord]
      /\ DOMAIN interactions' \subseteq AllIds
  <2>1. /\ DOMAIN interactions \subseteq AllIds
        /\ interactions \in [DOMAIN interactions -> InteractionRecord]
        /\ interactions[r.id] \in InteractionRecord
    BY DEF TypeOK, Answer, AnswerAdmitted
  <2>2. interactions' = [interactions EXCEPT ![r.id] = Answered(interactions[r.id])]
    BY DEF Answer
  <2> QED BY <2>1, <2>2, AnsweredType
<1>4. /\ events' \in Seq(EventRecord)
      /\ DOMAIN deliveries' \subseteq (1 .. Len(events')) \X Participant
      /\ deliveries' \in [DOMAIN deliveries' -> DeliveryEntry]
  <2>1. /\ Event(r.target, "decision_answered", r.id) \in EventRecord
        /\ Event(r.target, "dispatch_unblocked", r.id) \in EventRecord
    BY <1>1, EventType DEF EventKinds, AllIds
  <2>2. <<Event(r.target, "decision_answered", r.id),
          Event(r.target, "dispatch_unblocked", r.id)>> \in Seq(EventRecord)
    BY <2>1
  <2> QED BY <1>2, <2>2, PublishType DEF Answer
<1>5. idempotency' \in [DOMAIN idempotency' -> Receipt]
  BY <1>1, RememberType DEF Answer
<1> QED BY <1>2, <1>3, <1>4, <1>5 DEF Answer, TypeOK

(* complete keeps the type of every variable. *)
LEMMA CompleteType ==
    ASSUME TypeOK, NEW r \in CompleteRequests, Complete(r)
    PROVE  TypeOK'
<1>1. /\ r.target \in Target
      /\ r.id \in InteractionId
      /\ r.audience \subseteq Participant
      /\ r \in AllRequests
  BY RequestsAssumption DEF AllRequests
<1>2. dispatches' \in [Target -> DispatchRecord]
  <2>1. dispatches \in [Target -> DispatchRecord] /\ dispatches[r.target] \in DispatchRecord
    BY <1>1 DEF TypeOK
  <2> QED BY <1>1, <2>1, RevisedType DEF Complete
<1>3. /\ interactions' \in [DOMAIN interactions' -> InteractionRecord]
      /\ DOMAIN interactions' \subseteq AllIds
  <2>1. r.id \in AllIds
    BY <1>1 DEF AllIds
  <2>2. Interaction(r, "completion", "none") \in InteractionRecord
    BY <1>1, InteractionType
  <2> QED BY <2>1, <2>2, InsertType DEF Complete
<1>4. /\ events' \in Seq(EventRecord)
      /\ DOMAIN deliveries' \subseteq (1 .. Len(events')) \X Participant
      /\ deliveries' \in [DOMAIN deliveries' -> DeliveryEntry]
  <2>1. Event(r.target, "dispatch_completed", r.id) \in EventRecord
    BY <1>1, EventType DEF EventKinds, AllIds
  <2>2. <<Event(r.target, "dispatch_completed", r.id)>> \in Seq(EventRecord)
    BY <2>1
  <2> QED BY <1>2, <2>2, PublishType DEF Complete
<1>5. idempotency' \in [DOMAIN idempotency' -> Receipt]
  BY <1>1, RememberType DEF Complete
<1> QED BY <1>2, <1>3, <1>4, <1>5 DEF Complete, TypeOK

(* set_dispatch_deadline keeps the type of every variable. *)
LEMMA SetDeadlineType ==
    ASSUME TypeOK, NEW r \in DeadlineRequests, SetDeadline(r)
    PROVE  TypeOK'
<1>1. r.target \in Target /\ r.due \in Instant \cup {None} /\ r \in AllRequests
  BY RequestsAssumption DEF AllRequests
<1>2. dispatches' \in [Target -> DispatchRecord]
  <2>1. dispatches \in [Target -> DispatchRecord] /\ dispatches[r.target] \in DispatchRecord
    BY <1>1 DEF TypeOK
  <2> QED BY <1>1, <2>1, RevisedType DEF SetDeadline
<1>3. DeadlineId(NextCursor) \in AllIds
  <2>1. Len(events) \in Nat
    BY DEF TypeOK
  <2> QED BY <2>1 DEF DeadlineId, NextCursor, AllIds, DeadlineIds, Cursor
<1>4. /\ interactions' \in [DOMAIN interactions' -> InteractionRecord]
      /\ DOMAIN interactions' \subseteq AllIds
  BY <1>1, <1>3, InteractionType, InsertType DEF SetDeadline
<1>5. /\ events' \in Seq(EventRecord)
      /\ DOMAIN deliveries' \subseteq (1 .. Len(events')) \X Participant
      /\ deliveries' \in [DOMAIN deliveries' -> DeliveryEntry]
  <2>1. Event(r.target, "interaction_opened", DeadlineId(NextCursor)) \in EventRecord
    BY <1>1, <1>3, EventType DEF EventKinds
  <2>2. <<Event(r.target, "interaction_opened", DeadlineId(NextCursor))>> \in Seq(EventRecord)
    BY <2>1
  <2> QED BY <1>2, <2>2, PublishType DEF SetDeadline
<1>6. idempotency' \in [DOMAIN idempotency' -> Receipt]
  BY <1>1, RememberType DEF SetDeadline
<1> QED BY <1>2, <1>4, <1>5, <1>6 DEF SetDeadline, TypeOK

(* A tick of the clock keeps the type of every variable, whatever the number of overdue *)
(* dispatches it reports.                                                               *)
LEMMA ExpireDeadlinesType ==
    ASSUME TypeOK, NEW now \in Instant, ExpireDeadlines(now)
    PROVE  TypeOK'
<1> DEFINE late == {t \in Target : Overdue(t, now)}
           n == Cardinality(late)
<1>1. IsFiniteSet(late) /\ n \in Nat
  BY NamesAssumption, FS_Subset, FS_CardinalityType
<1>2. PICK order \in OrderingsOf(late) :
        LET new == [i \in 1 .. n |->
                      Event(order[i], "interaction_opened", DeadlineId(Len(events) + i))]
            cursorOf(t) == Len(events) + (CHOOSE i \in DOMAIN order : order[i] = t)
        IN  /\ dispatches' = [t \in Target |->
                                IF t \in late
                                THEN [dispatches[t] EXCEPT !.overdue = cursorOf(t)]
                                ELSE dispatches[t]]
            /\ Publish(new, [i \in DOMAIN new |-> {CoordinatorOf[order[i]]}])
            /\ interactions' =
                 [id \in DOMAIN interactions \cup {new[i].id : i \in DOMAIN new} |->
                    IF id \in DOMAIN interactions THEN interactions[id]
                    ELSE DeadlineMessage(events'[id[2]].target)]
  BY DEF ExpireDeadlines
<1> DEFINE new == [i \in 1 .. n |->
                     Event(order[i], "interaction_opened", DeadlineId(Len(events) + i))]
           cursorOf(t) == Len(events) + (CHOOSE i \in DOMAIN order : order[i] = t)
<1>3. order \in [1 .. n -> late] /\ Len(events) \in Nat
  BY DEF OrderingsOf, TypeOK
<1>4. \A i \in 1 .. n : DeadlineId(Len(events) + i) \in AllIds
  BY <1>1, <1>3 DEF DeadlineId, AllIds, DeadlineIds, Cursor
<1>5. new \in Seq(EventRecord) /\ Len(new) = n
  <2>1. \A i \in 1 .. n : new[i] \in EventRecord
    BY <1>1, <1>3, <1>4, EventType DEF EventKinds
  <2> QED BY <2>1, <1>1
<1>6. dispatches' \in [Target -> DispatchRecord]
  <2>1. \A t \in late : cursorOf(t) \in Nat
    BY <1>1, <1>3 DEF OrderingsOf
  <2>2. \A t \in late : [dispatches[t] EXCEPT !.overdue = cursorOf(t)] \in DispatchRecord
    BY <2>1 DEF TypeOK, DispatchRecord
  <2>3. dispatches' = [t \in Target |-> IF t \in late
                                        THEN [dispatches[t] EXCEPT !.overdue = cursorOf(t)]
                                        ELSE dispatches[t]]
    BY <1>2
  <2>4. \A t \in Target : dispatches[t] \in DispatchRecord
    BY DEF TypeOK
  <2> HIDE DEF late, cursorOf
  <2> QED BY <2>2, <2>3, <2>4
<1>7. /\ events' \in Seq(EventRecord)
      /\ events' = events \o new
      /\ Len(events') = Len(events) + n
      /\ DOMAIN deliveries' \subseteq (1 .. Len(events')) \X Participant
      /\ deliveries' \in [DOMAIN deliveries' -> DeliveryEntry]
  <2>1. Publish(new, [i \in DOMAIN new |-> {CoordinatorOf[order[i]]}])
    BY <1>2
  <2>2. events' = events \o new
    BY <2>1 DEF Publish
  <2> HIDE DEF new, n
  <2> QED BY <1>5, <1>6, <2>1, <2>2, PublishType
<1>8. /\ interactions' \in [DOMAIN interactions' -> InteractionRecord]
      /\ DOMAIN interactions' \subseteq AllIds
  <2>1. \A i \in DOMAIN new : new[i].id \in AllIds /\ new[i].id = <<"deadline", Len(events) + i>>
    BY <1>4 DEF Event, DeadlineId
  <2>2. \A i \in DOMAIN new : events'[new[i].id[2]].target \in Target
    <3> SUFFICES ASSUME NEW i \in DOMAIN new PROVE events'[new[i].id[2]].target \in Target
      OBVIOUS
    <3>1. new[i].id = <<"deadline", Len(events) + i>>
      BY <2>1
    <3>2. i \in 1 .. n
      OBVIOUS
    <3> HIDE DEF new, n
    <3>3. new[i].id[2] \in 1 .. Len(events')
      BY <3>1, <3>2, <1>1, <1>3, <1>7
    <3>4. events'[new[i].id[2]] \in EventRecord
      BY <3>3, <1>7
    <3> QED BY <3>4 DEF EventRecord
  <2>3. interactions' =
          [id \in DOMAIN interactions \cup {new[i].id : i \in DOMAIN new} |->
             IF id \in DOMAIN interactions THEN interactions[id]
             ELSE DeadlineMessage(events'[id[2]].target)]
    BY <1>2
  <2> HIDE DEF new
  <2>4. \A id \in {new[i].id : i \in DOMAIN new} :
          DeadlineMessage(events'[id[2]].target) \in InteractionRecord
    BY <2>2, InteractionType
  <2>5. /\ DOMAIN interactions \subseteq AllIds
        /\ interactions \in [DOMAIN interactions -> InteractionRecord]
    BY DEF TypeOK
  <2>6. \A id \in DOMAIN interactions' : interactions'[id] \in InteractionRecord
    BY <2>3, <2>4, <2>5
  <2> QED BY <2>1, <2>3, <2>5, <2>6
<1> QED
  <2>1. UNCHANGED <<idempotency, ackIdempotency>>
    BY DEF ExpireDeadlines
  <2> QED BY <1>6, <1>7, <1>8, <2>1 DEF TypeOK

(* read_events keeps the type of every variable. *)
LEMMA ReadEventsType ==
    ASSUME TypeOK, NEW r \in ReadRequests, ReadEvents(r)
    PROVE  TypeOK'
<1>1. /\ DOMAIN deliveries' = DOMAIN deliveries
      /\ deliveries' \in [DOMAIN deliveries' -> DeliveryEntry]
  <2>1. \A d \in DeliveryEntry : /\ [d EXCEPT !.state = "acknowledged"] \in DeliveryEntry
                                 /\ [d EXCEPT !.state = "observed"] \in DeliveryEntry
    BY DEF DeliveryEntry, DeliveryStates
  <2>2. \A k \in DOMAIN deliveries : deliveries[k] \in DeliveryEntry
    BY DEF TypeOK
  <2> QED BY <2>1, <2>2 DEF ReadEvents
<1>2. ackIdempotency' \in [DOMAIN ackIdempotency' -> ReadRequests]
  <2>1. ackIdempotency \in [DOMAIN ackIdempotency -> ReadRequests]
    BY DEF TypeOK
  <2>2. \/ ackIdempotency' = ackIdempotency
        \/ ackIdempotency' = Put(ackIdempotency, AckKey(r), r)
    BY DEF ReadEvents
  <2> QED BY <2>1, <2>2 DEF Put
<1> QED BY <1>1, <1>2 DEF ReadEvents, TypeOK

(* transition_delivery_wake keeps the type of every variable. *)
LEMMA TransitionWakeType ==
    ASSUME TypeOK, NEW r \in WakeRequests, TransitionWake(r)
    PROVE  TypeOK'
<1>1. /\ r.receipt \in DOMAIN deliveries
      /\ deliveries \in [DOMAIN deliveries -> DeliveryEntry]
      /\ deliveries[r.receipt] \in DeliveryEntry
  BY DEF TransitionWake, WakeAdmitted, TypeOK
<1> DEFINE wake == WakeReplacement(r.kind, r.capable, r.outcome, r.at)
<1>2. wake \in [state : WakeStates, outcome : WakeOutcome \cup {None}, at : Nat]
  <2>1. /\ r.kind \in WakeKinds
        /\ r.outcome \in WakeOutcome \cup {None}
        /\ r.at \in Nat
        /\ CapabilityUnavailable \in WakeOutcome
    BY RequestsAssumption, NamesAssumption
  <2>2. CASE r.kind = "request" /\ r.capable
    BY <2>1, <2>2 DEF WakeReplacement, WakeStates
  <2>3. CASE r.kind = "request" /\ ~r.capable
    BY <2>1, <2>3 DEF WakeReplacement, WakeStates
  <2>4. CASE r.kind = "claim"
    BY <2>1, <2>4 DEF WakeReplacement, WakeStates
  <2>5. CASE r.kind \in {"triggered", "queued"}
    BY <2>1, <2>5 DEF WakeReplacement, WakeStates
  <2> QED BY <2>1, <2>2, <2>3, <2>4, <2>5 DEF WakeKinds
<1>3. [deliveries[r.receipt] EXCEPT !.wake = wake] \in DeliveryEntry
  BY <1>1, <1>2 DEF DeliveryEntry
<1>4. deliveries' = [deliveries EXCEPT ![r.receipt] = [deliveries[r.receipt] EXCEPT !.wake = wake]]
  BY DEF TransitionWake
<1>5. /\ DOMAIN deliveries' = DOMAIN deliveries
      /\ deliveries' \in [DOMAIN deliveries' -> DeliveryEntry]
  BY <1>1, <1>3, <1>4
<1> QED BY <1>5 DEF TransitionWake, TypeOK

(* A session rebind keeps the type of every variable. *)
LEMMA MoveSessionsType ==
    ASSUME TypeOK, NEW S, NEW to \in Session, MoveSessions(S, to)
    PROVE  TypeOK'
<1>1. dispatches' \in [Target -> DispatchRecord]
  <2>1. \A d \in DispatchRecord : [d EXCEPT !.session = to] \in DispatchRecord
    BY DEF DispatchRecord
  <2>2. \A t \in Target : dispatches[t] \in DispatchRecord
    BY DEF TypeOK
  <2> QED BY <2>1, <2>2 DEF MoveSessions
<1>2. /\ DOMAIN deliveries' = DOMAIN deliveries
      /\ deliveries' \in [DOMAIN deliveries' -> DeliveryEntry]
  <2>1. \A d \in DeliveryEntry : [d EXCEPT !.session = to] \in DeliveryEntry
    BY DEF DeliveryEntry
  <2>2. \A k \in DOMAIN deliveries : deliveries[k] \in DeliveryEntry
    BY DEF TypeOK
  <2> QED BY <2>1, <2>2 DEF MoveSessions, MovedDeliveries
<1> QED BY <1>1, <1>2 DEF MoveSessions, TypeOK

(* The seeded state has its type. *)
LEMMA InitType == Init => TypeOK
<1> SUFFICES ASSUME Init PROVE TypeOK
  OBVIOUS
<1>1. Absent \in DispatchRecord
  BY DEF Absent, DispatchRecord, DispatchStates
<1>2. DOMAIN EmptyMap = {}
  BY DEF EmptyMap
<1> QED BY <1>1, <1>2 DEF Init, TypeOK, EmptyMap

(* Every operation keeps the type of every variable. *)
LEMMA NextType == TypeOK /\ [Next]_vars => TypeOK'
<1> SUFFICES ASSUME TypeOK, [Next]_vars PROVE TypeOK'
  OBVIOUS
<1>1. ASSUME NEW r \in CreateRequests, CreateRun(r) PROVE TypeOK'
  BY <1>1, CreateRunType
<1>2. ASSUME NEW r \in OpenRequests, OpenMessage(r) \/ OpenDecision(r) PROVE TypeOK'
  BY <1>2, OpenType
<1>3. ASSUME NEW r \in AnswerRequests, Answer(r) PROVE TypeOK'
  BY <1>3, AnswerType
<1>4. ASSUME NEW r \in CompleteRequests, Complete(r) PROVE TypeOK'
  BY <1>4, CompleteType
<1>5. ASSUME NEW r \in DeadlineRequests, SetDeadline(r) PROVE TypeOK'
  BY <1>5, SetDeadlineType
<1>6. ASSUME NEW now \in Instant, ExpireDeadlines(now) PROVE TypeOK'
  BY <1>6, ExpireDeadlinesType
<1>7. ASSUME NEW r \in ReadRequests, ReadEvents(r) PROVE TypeOK'
  BY <1>7, ReadEventsType
<1>8. ASSUME NEW r \in WakeRequests, TransitionWake(r) PROVE TypeOK'
  BY <1>8, TransitionWakeType
<1>9. ASSUME NEW m \in Moves, RebindSession(m[1], m[2]) PROVE TypeOK'
  <2>1. m[2] \in Session
    BY RequestsAssumption
  <2> QED BY <1>9, <2>1, MoveSessionsType DEF RebindSession
<1>10. ASSUME NEW m \in Moves, NEW t \in Target, ReconcileSession(t, m[1], m[2]) PROVE TypeOK'
  <2>1. m[2] \in Session
    BY RequestsAssumption
  <2> QED BY <1>10, <2>1, MoveSessionsType DEF ReconcileSession
<1>11. CASE UNCHANGED vars
  BY <1>11 DEF vars, TypeOK
<1> QED
  BY <1>1, <1>2, <1>3, <1>4, <1>5, <1>6, <1>7, <1>8, <1>9, <1>10, <1>11 DEF Next

(* Every reachable state of the store is well typed, whatever the requests and their order: *)
(* the maps only hold entries for ids, cursors and keys that exist (StoreState).            *)
THEOREM TypeCorrect == Spec => []TypeOK
  BY InitType, NextType, PTL DEF Spec

-----------------------------------------------------------------------------
(* A session works on at most one unfinished dispatch.  SessionExclusive is *)
(* inductive relative to TypeOK: only create_run adds an unfinished         *)
(* dispatch and only a rebind moves one.                                    *)

\* The step neither moves a session nor makes a finished dispatch unfinished.
KeepsSessions ==
    \A t \in Target : /\ dispatches'[t].session = dispatches[t].session
                      /\ Unfinished(t)' => Unfinished(t)

(* A step that keeps the sessions keeps them exclusive. *)
LEMMA KeepsSessionsExclusive ==
    ASSUME SessionExclusive, KeepsSessions
    PROVE  SessionExclusive'
  BY DEF SessionExclusive, KeepsSessions

(* open, answer, complete and set_dispatch_deadline keep the sessions: each rewrites *)
(* one dispatch, which is unfinished already or finished by the step.               *)
LEMMA RevisionsKeepSessions ==
    ASSUME TypeOK,
           \/ \E r \in OpenRequests : OpenMessage(r) \/ OpenDecision(r)
           \/ \E r \in AnswerRequests : Answer(r)
           \/ \E r \in CompleteRequests : Complete(r)
           \/ \E r \in DeadlineRequests : SetDeadline(r)
    PROVE  KeepsSessions
<1>1. \A t \in Target : dispatches[t] \in DispatchRecord
  BY DEF TypeOK
<1>2. dispatches \in [Target -> DispatchRecord]
  BY DEF TypeOK
<1>3. ASSUME NEW r \in OpenRequests, OpenMessage(r) PROVE KeepsSessions
  BY <1>3 DEF OpenMessage, KeepsSessions, Unfinished
<1>4. ASSUME NEW r \in OpenRequests, OpenDecision(r) PROVE KeepsSessions
  BY <1>1, <1>2, <1>4 DEF OpenDecision, BlockedBy, KeepsSessions, Unfinished, DispatchRecord
<1>5. ASSUME NEW r \in AnswerRequests, Answer(r) PROVE KeepsSessions
  BY <1>1, <1>2, <1>5
  DEF Answer, AnswerAdmitted, Unblocked, KeepsSessions, Unfinished, DispatchRecord
<1>6. ASSUME NEW r \in CompleteRequests, Complete(r) PROVE KeepsSessions
  BY <1>1, <1>2, <1>6
  DEF Complete, CompleteAdmitted, Completed, KeepsSessions, Unfinished, DispatchRecord
<1>7. ASSUME NEW r \in DeadlineRequests, SetDeadline(r) PROVE KeepsSessions
  BY <1>1, <1>2, <1>7 DEF SetDeadline, DueAt, KeepsSessions, Unfinished, DispatchRecord
<1> QED BY <1>3, <1>4, <1>5, <1>6, <1>7

(* A tick of the clock keeps the sessions: it writes only the overdue mark. *)
LEMMA ExpireKeepsSessions ==
    ASSUME TypeOK, NEW now \in Instant, ExpireDeadlines(now)
    PROVE  KeepsSessions
<1>1. \A t \in Target : dispatches[t] \in DispatchRecord
  BY DEF TypeOK
<1>2. \A t \in Target : \/ dispatches'[t] = dispatches[t]
                        \/ \E c : dispatches'[t] = [dispatches[t] EXCEPT !.overdue = c]
  BY DEF ExpireDeadlines
<1> QED BY <1>1, <1>2 DEF KeepsSessions, Unfinished, DispatchRecord

(* create_run keeps the sessions exclusive: its guard refuses a busy session. *)
LEMMA CreateKeepsExclusive ==
    ASSUME TypeOK, SessionExclusive, NEW r \in CreateRequests, CreateRun(r)
    PROVE  SessionExclusive'
<1>1. dispatches \in [Target -> DispatchRecord] /\ r.target \in Target
  BY RequestsAssumption DEF TypeOK
<1>2. /\ dispatches'[r.target].session = r.session
      /\ \A t \in Target \ {r.target} : dispatches'[t] = dispatches[t]
  BY <1>1 DEF CreateRun, Absent
<1>3. \A t \in Target \ {r.target} :
        Unfinished(t)' => Unfinished(t) /\ dispatches'[t].session # r.session
  BY <1>2 DEF CreateRun, Unassigned, Unfinished
<1> QED BY <1>2, <1>3 DEF SessionExclusive

(* Moving a set of dispatches to a session keeps the sessions exclusive when the set *)
(* brings at most one unfinished dispatch, and the session has none of its own.      *)
LEMMA MoveKeepsExclusive ==
    ASSUME TypeOK, SessionExclusive, NEW S \in SUBSET Target, NEW from, NEW to,
           MoveSessions(S, to),
           \A t \in S : dispatches[t].session = from,
           \A t \in S : Unfinished(t) => ActiveOn(to) = {}
    PROVE  SessionExclusive'
<1>1. dispatches \in [Target -> DispatchRecord]
  BY DEF TypeOK
<1>2. \A t \in Target : /\ Unfinished(t)' = Unfinished(t)
                        /\ t \in S => dispatches'[t].session = to
                        /\ t \notin S => dispatches'[t].session = dispatches[t].session
  BY <1>1 DEF MoveSessions, Unfinished, DispatchRecord
<1> SUFFICES ASSUME NEW t \in Target, NEW u \in Target, Unfinished(t)', Unfinished(u)',
                    dispatches'[t].session = dispatches'[u].session
             PROVE  t = u
  BY DEF SessionExclusive
<1>3. CASE t \in S /\ u \in S
  BY <1>2, <1>3 DEF SessionExclusive
<1>4. CASE t \in S /\ u \notin S
  BY <1>2, <1>4 DEF ActiveOn
<1>5. CASE t \notin S /\ u \in S
  BY <1>2, <1>5 DEF ActiveOn
<1>6. CASE t \notin S /\ u \notin S
  BY <1>2, <1>6 DEF SessionExclusive
<1> QED BY <1>3, <1>4, <1>5, <1>6

(* What a rebind moves lies on the source session, and is unfinished only when the *)
(* target session has no unfinished dispatch of its own.                           *)
LEMMA ReboundFacts ==
    ASSUME NEW from, NEW to
    PROVE  /\ Rebound(from, to) \subseteq Target
           /\ \A t \in Rebound(from, to) : dispatches[t].session = from
           /\ \A t \in Rebound(from, to) : Unfinished(t) => ActiveOn(to) = {}
  BY DEF Rebound, DrainableOn, ActiveOn, Unfinished

(* Every operation keeps the sessions exclusive. *)
LEMMA NextExclusive == TypeOK /\ SessionExclusive /\ [Next]_vars => SessionExclusive'
<1> SUFFICES ASSUME TypeOK, SessionExclusive, [Next]_vars PROVE SessionExclusive'
  OBVIOUS
<1>1. ASSUME NEW r \in CreateRequests, CreateRun(r) PROVE SessionExclusive'
  BY <1>1, CreateKeepsExclusive
<1>2. CASE \/ \E r \in OpenRequests : OpenMessage(r) \/ OpenDecision(r)
           \/ \E r \in AnswerRequests : Answer(r)
           \/ \E r \in CompleteRequests : Complete(r)
           \/ \E r \in DeadlineRequests : SetDeadline(r)
  BY <1>2, RevisionsKeepSessions, KeepsSessionsExclusive
<1>3. ASSUME NEW now \in Instant, ExpireDeadlines(now) PROVE SessionExclusive'
  BY <1>3, ExpireKeepsSessions, KeepsSessionsExclusive
<1>4. CASE \/ \E r \in ReadRequests : ReadEvents(r)
           \/ \E r \in WakeRequests : TransitionWake(r)
           \/ UNCHANGED vars
  <2>1. dispatches' = dispatches
    BY <1>4 DEF ReadEvents, TransitionWake, vars
  <2> QED BY <2>1, KeepsSessionsExclusive DEF KeepsSessions, Unfinished
<1>5. ASSUME NEW m \in Moves, RebindSession(m[1], m[2]) PROVE SessionExclusive'
  <2>1. MoveSessions(Rebound(m[1], m[2]), m[2])
    BY <1>5 DEF RebindSession
  <2> DEFINE S == Rebound(m[1], m[2])
  <2>2. /\ S \in SUBSET Target
        /\ \A u \in S : dispatches[u].session = m[1]
        /\ \A u \in S : Unfinished(u) => ActiveOn(m[2]) = {}
    BY ReboundFacts
  <2> HIDE DEF S
  <2> QED BY <2>1, <2>2, MoveKeepsExclusive DEF S
<1>6. ASSUME NEW m \in Moves, NEW t \in Target, ReconcileSession(t, m[1], m[2])
      PROVE  SessionExclusive'
  <2> DEFINE S == Rebound(m[1], m[2]) \cup (IF dispatches[t].session = m[1] THEN {t} ELSE {})
  <2>1. /\ MoveSessions(S, m[2])
        /\ dispatches[t].session = m[1] /\ t \notin Rebound(m[1], m[2]) =>
             dispatches[t].state = "completed"
    BY <1>6 DEF ReconcileSession
  <2>2. /\ S \in SUBSET Target
        /\ \A u \in S : dispatches[u].session = m[1]
        /\ \A u \in S : Unfinished(u) => ActiveOn(m[2]) = {}
    BY <2>1, ReboundFacts DEF Unfinished
  <2> HIDE DEF S
  <2> QED BY <2>1, <2>2, MoveKeepsExclusive
<1> QED BY <1>1, <1>2, <1>3, <1>4, <1>5, <1>6 DEF Next

(* A session works on at most one unfinished dispatch, for any number of dispatches and *)
(* sessions: create_run refuses a busy session, and neither rebind nor reconciliation   *)
(* brings a second unfinished dispatch to one.                                          *)
THEOREM SessionsExclusive == Spec => []SessionExclusive
<1>1. Init => SessionExclusive
  BY DEF Init, SessionExclusive, Unfinished, Absent
<1> QED BY <1>1, NextExclusive, TypeCorrect, PTL DEF Spec

-----------------------------------------------------------------------------
(* The open decisions of a dispatch are the one it is blocked by.  The      *)
(* invariant is inductive relative to TypeOK, which makes the id that       *)
(* blocks a dispatch a client's id and never that of a deadline message.    *)

\* The open decisions of dispatch t.
OpenOn(t) ==
    {i \in DOMAIN interactions : interactions[i].target = t /\ interactions[i].status = "open"}

(* A deadline message never takes the place of an open decision. *)
LEMMA DeadlineIdIsNew ==
    ASSUME TypeOK, BlockedByItsOpenDecision, NEW t \in Target, NEW c \in Nat
    PROVE  DeadlineId(c) \notin OpenOn(t)
<1>1. dispatches[t].blockedBy \in InteractionId \cup {None}
  BY DEF TypeOK, DispatchRecord
<1>2. DeadlineId(c) \in {"deadline"} \X Nat
  BY DEF DeadlineId
<1>3. DeadlineId(c) # dispatches[t].blockedBy
  BY <1>1, <1>2, NamesAssumption
<1> QED BY <1>3 DEF BlockedByItsOpenDecision, OpenOn

(* Inserting a record that is not an open decision, under an id that no open decision *)
(* has, leaves the open decisions alone.                                              *)
LEMMA InsertKeepsOpen ==
    ASSUME TypeOK, NEW id, NEW record, record.status # "open",
           interactions' = Put(interactions, id, record),
           \A t \in Target : id \notin OpenOn(t)
    PROVE  \A t \in Target : OpenOn(t)' = OpenOn(t)
<1> SUFFICES ASSUME NEW t \in Target PROVE OpenOn(t)' = OpenOn(t)
  OBVIOUS
<1>1. DOMAIN interactions' = DOMAIN interactions \cup {id}
  BY DEF Put
<1>2. interactions'[id] = record
  BY DEF Put
<1>3. \A i \in DOMAIN interactions \ {id} : interactions'[i] = interactions[i]
  BY DEF Put
<1> QED BY <1>1, <1>2, <1>3 DEF OpenOn

(* Blocked dispatches and open decisions in step, when neither side changes. *)
LEMMA StaysBlocked ==
    ASSUME BlockedByItsOpenDecision,
           \A t \in Target : /\ OpenOn(t)' = OpenOn(t)
                             /\ dispatches'[t].state = "blocked" <=> dispatches[t].state = "blocked"
                             /\ dispatches[t].state = "blocked" =>
                                  dispatches'[t].blockedBy = dispatches[t].blockedBy
    PROVE  BlockedByItsOpenDecision'
  BY DEF BlockedByItsOpenDecision, OpenOn

(* Opening a decision keeps the two in step: the dispatch had none and now has this one. *)
LEMMA OpenDecisionBlocks ==
    ASSUME TypeOK, BlockedByItsOpenDecision, NEW r \in OpenRequests, OpenDecision(r)
    PROVE  BlockedByItsOpenDecision'
<1>1. /\ r.target \in Target
      /\ r.id \notin DOMAIN interactions
      /\ dispatches[r.target].state = "active"
      /\ dispatches \in [Target -> DispatchRecord]
      /\ dispatches' = [dispatches EXCEPT ![r.target] = BlockedBy(dispatches[r.target], r.id)]
      /\ interactions' = Put(interactions, r.id, Interaction(r, "decision", "open"))
  BY RequestsAssumption DEF OpenDecision, OpenAdmitted, TypeOK
<1>2. /\ DOMAIN interactions' = DOMAIN interactions \cup {r.id}
      /\ interactions'[r.id].target = r.target
      /\ interactions'[r.id].status = "open"
      /\ \A i \in DOMAIN interactions : interactions'[i] = interactions[i]
  BY <1>1 DEF Put, Interaction
<1>3. /\ dispatches'[r.target].state = "blocked"
      /\ dispatches'[r.target].blockedBy = r.id
      /\ \A t \in Target \ {r.target} : dispatches'[t] = dispatches[t]
  <2>1. dispatches[r.target] \in DispatchRecord
    BY <1>1
  <2>2. /\ BlockedBy(dispatches[r.target], r.id).state = "blocked"
        /\ BlockedBy(dispatches[r.target], r.id).blockedBy = r.id
    BY <2>1 DEF BlockedBy, DispatchRecord
  <2> QED BY <1>1, <2>2
<1>4. OpenOn(r.target) = {}
  BY <1>1 DEF BlockedByItsOpenDecision, OpenOn
<1>5. OpenOn(r.target)' = {r.id}
  BY <1>1, <1>2, <1>4 DEF OpenOn
<1>6. \A t \in Target \ {r.target} : OpenOn(t)' = OpenOn(t)
  BY <1>1, <1>2 DEF OpenOn
<1> QED BY <1>3, <1>5, <1>6 DEF BlockedByItsOpenDecision, OpenOn

(* Answering keeps the two in step: the dispatch had this decision only and now has none. *)
LEMMA AnswerUnblocks ==
    ASSUME TypeOK, BlockedByItsOpenDecision, NEW r \in AnswerRequests, Answer(r)
    PROVE  BlockedByItsOpenDecision'
<1>1. /\ r.target \in Target
      /\ r.id \in DOMAIN interactions
      /\ interactions[r.id] \in InteractionRecord
      /\ interactions[r.id].target = r.target
      /\ dispatches[r.target].state = "blocked"
      /\ dispatches[r.target].blockedBy = r.id
      /\ dispatches \in [Target -> DispatchRecord]
      /\ dispatches' = [dispatches EXCEPT ![r.target] = Unblocked(dispatches[r.target])]
      /\ interactions' = [interactions EXCEPT ![r.id] = Answered(interactions[r.id])]
  BY RequestsAssumption DEF Answer, AnswerAdmitted, TypeOK
<1>2. /\ DOMAIN interactions' = DOMAIN interactions
      /\ interactions'[r.id].status = "answered"
      /\ \A i \in DOMAIN interactions \ {r.id} : interactions'[i] = interactions[i]
  BY <1>1 DEF Answered, InteractionRecord
<1>3. /\ dispatches'[r.target].state = "active"
      /\ \A t \in Target \ {r.target} : dispatches'[t] = dispatches[t]
  <2>1. dispatches[r.target] \in DispatchRecord
    BY <1>1
  <2>2. Unblocked(dispatches[r.target]).state = "active"
    BY <2>1 DEF Unblocked, DispatchRecord
  <2> QED BY <1>1, <2>2
<1>4. OpenOn(r.target) = {r.id}
  BY <1>1 DEF BlockedByItsOpenDecision, OpenOn
<1>5. OpenOn(r.target)' = {}
  BY <1>2, <1>4 DEF OpenOn
<1>6. \A t \in Target \ {r.target} : OpenOn(t)' = OpenOn(t)
  BY <1>1, <1>2 DEF OpenOn
<1> QED BY <1>3, <1>5, <1>6 DEF BlockedByItsOpenDecision, OpenOn

(* The operations that insert a record other than a decision keep the two in step. *)
LEMMA InsertStaysBlocked ==
    ASSUME TypeOK, BlockedByItsOpenDecision,
           \/ \E r \in OpenRequests : OpenMessage(r)
           \/ \E r \in CompleteRequests : Complete(r)
           \/ \E r \in DeadlineRequests : SetDeadline(r)
    PROVE  BlockedByItsOpenDecision'
<1>1. /\ dispatches \in [Target -> DispatchRecord]
      /\ \A t \in Target : dispatches[t] \in DispatchRecord
  BY DEF TypeOK
<1>2. ASSUME NEW r \in OpenRequests, OpenMessage(r) PROVE BlockedByItsOpenDecision'
  <2>1. /\ interactions' = Put(interactions, r.id, Interaction(r, "message", "none"))
        /\ r.id \notin DOMAIN interactions
        /\ dispatches' = dispatches
    BY <1>2 DEF OpenMessage, OpenAdmitted
  <2>2. /\ Interaction(r, "message", "none").status # "open"
        /\ \A t \in Target : r.id \notin OpenOn(t)
    BY <2>1 DEF Interaction, OpenOn
  <2>3. \A t \in Target : OpenOn(t)' = OpenOn(t)
    BY <2>1, <2>2, InsertKeepsOpen
  <2> QED BY <2>1, <2>3, StaysBlocked
<1>3. ASSUME NEW r \in CompleteRequests, Complete(r) PROVE BlockedByItsOpenDecision'
  <2>1. /\ interactions' = Put(interactions, r.id, Interaction(r, "completion", "none"))
        /\ r.id \notin DOMAIN interactions
        /\ r.target \in Target
        /\ dispatches[r.target].state = "active"
        /\ dispatches' = [dispatches EXCEPT ![r.target] = Completed(dispatches[r.target])]
    BY <1>3, RequestsAssumption DEF Complete, CompleteAdmitted
  <2>2. /\ Interaction(r, "completion", "none").status # "open"
        /\ \A t \in Target : r.id \notin OpenOn(t)
    BY <2>1 DEF Interaction, OpenOn
  <2>3. \A t \in Target : OpenOn(t)' = OpenOn(t)
    BY <2>1, <2>2, InsertKeepsOpen
  <2>4. Completed(dispatches[r.target]).state = "completed"
    BY <1>1, <2>1 DEF Completed, DispatchRecord
  <2> QED BY <1>1, <2>1, <2>3, <2>4, StaysBlocked
<1>4. ASSUME NEW r \in DeadlineRequests, SetDeadline(r) PROVE BlockedByItsOpenDecision'
  <2>1. /\ interactions' = Put(interactions, DeadlineId(NextCursor), DeadlineMessage(r.target))
        /\ r.target \in Target
        /\ dispatches' = [dispatches EXCEPT ![r.target] = DueAt(dispatches[r.target], r.due)]
    BY <1>4, RequestsAssumption DEF SetDeadline
  <2>2. NextCursor \in Nat
    BY DEF NextCursor, TypeOK
  <2>3. /\ DeadlineMessage(r.target).status # "open"
        /\ \A t \in Target : DeadlineId(NextCursor) \notin OpenOn(t)
    BY <2>2, DeadlineIdIsNew DEF DeadlineMessage
  <2>4. \A t \in Target : OpenOn(t)' = OpenOn(t)
    BY <2>1, <2>3, InsertKeepsOpen
  <2>5. /\ DueAt(dispatches[r.target], r.due).state = dispatches[r.target].state
        /\ DueAt(dispatches[r.target], r.due).blockedBy = dispatches[r.target].blockedBy
    BY <1>1, <2>1 DEF DueAt, DispatchRecord
  <2> QED BY <1>1, <2>1, <2>4, <2>5, StaysBlocked
<1> QED BY <1>2, <1>3, <1>4

(* A tick of the clock keeps the two in step: it inserts deadline messages only. *)
LEMMA ExpireStaysBlocked ==
    ASSUME TypeOK, BlockedByItsOpenDecision, NEW now \in Instant, ExpireDeadlines(now)
    PROVE  BlockedByItsOpenDecision'
<1>1. \A t \in Target : dispatches[t] \in DispatchRecord
  BY DEF TypeOK
<1>2. \A t \in Target : \/ dispatches'[t] = dispatches[t]
                        \/ \E c : dispatches'[t] = [dispatches[t] EXCEPT !.overdue = c]
  BY DEF ExpireDeadlines
<1>3. \A t \in Target : /\ dispatches'[t].state = dispatches[t].state
                        /\ dispatches'[t].blockedBy = dispatches[t].blockedBy
  BY <1>1, <1>2 DEF DispatchRecord
<1>4. /\ DOMAIN interactions \subseteq DOMAIN interactions'
      /\ \A i \in DOMAIN interactions : interactions'[i] = interactions[i]
      /\ \A i \in DOMAIN interactions' \ DOMAIN interactions : interactions'[i].status = "none"
  BY DEF ExpireDeadlines, DeadlineMessage
<1>5. \A t \in Target : OpenOn(t)' = OpenOn(t)
  BY <1>4 DEF OpenOn
<1> QED BY <1>3, <1>5, StaysBlocked

(* create_run, reads, wakes and rebinds keep the two in step: they open and answer nothing. *)
LEMMA OthersStayBlocked ==
    ASSUME TypeOK, BlockedByItsOpenDecision,
           \/ \E r \in CreateRequests : CreateRun(r)
           \/ \E r \in ReadRequests : ReadEvents(r)
           \/ \E r \in WakeRequests : TransitionWake(r)
           \/ \E S, to : MoveSessions(S, to)
           \/ UNCHANGED vars
    PROVE  BlockedByItsOpenDecision'
<1>1. /\ dispatches \in [Target -> DispatchRecord]
      /\ \A t \in Target : dispatches[t] \in DispatchRecord
  BY DEF TypeOK
<1>2. interactions' = interactions
  BY DEF CreateRun, ReadEvents, TransitionWake, MoveSessions, vars
<1>3. \A t \in Target : OpenOn(t)' = OpenOn(t)
  BY <1>2 DEF OpenOn
<1>4. ASSUME NEW r \in CreateRequests, CreateRun(r) PROVE BlockedByItsOpenDecision'
  BY <1>1, <1>3, <1>4, StaysBlocked DEF CreateRun, Absent
<1>5. ASSUME NEW S, NEW to, MoveSessions(S, to) PROVE BlockedByItsOpenDecision'
  BY <1>1, <1>3, <1>5, StaysBlocked DEF MoveSessions, DispatchRecord
<1>6. CASE dispatches' = dispatches
  BY <1>3, <1>6, StaysBlocked
<1> QED BY <1>4, <1>5, <1>6 DEF ReadEvents, TransitionWake, vars

(* Every operation keeps blocked dispatches and open decisions in step. *)
LEMMA NextBlocked ==
    TypeOK /\ BlockedByItsOpenDecision /\ [Next]_vars => BlockedByItsOpenDecision'
  BY OpenDecisionBlocks, AnswerUnblocks, InsertStaysBlocked, ExpireStaysBlocked, OthersStayBlocked
  DEF Next, RebindSession, ReconcileSession

(* A dispatch that waits for a decision waits for one that is open and its own, and every *)
(* open decision is one that blocks its dispatch and so can still be answered, for any    *)
(* requests in any order.                                                                 *)
THEOREM DecisionsBlock == Spec => []BlockedByItsOpenDecision
<1>1. Init => BlockedByItsOpenDecision
  BY DEF Init, BlockedByItsOpenDecision, Absent, EmptyMap
<1> QED BY <1>1, NextBlocked, TypeCorrect, PTL DEF Spec

-----------------------------------------------------------------------------
(* The log and the inbox.  Every operation that changes them appends         *)
(* events, queues their deliveries and leaves the rest alone: that is stated  *)
(* once, for all of them.                                                     *)

(* append_event and queue_deliveries: what was logged and queued stays, and what is new *)
(* lies after it, for exactly the participants it is addressed to.                      *)
LEMMA PublishFacts ==
    ASSUME TypeOK, NEW new \in Seq(EventRecord), NEW to, Publish(new, to)
    PROVE  /\ Len(events) \in Nat
           /\ Len(new) \in Nat
           /\ Len(events') = Len(events) + Len(new)
           /\ DOMAIN events = 1 .. Len(events)
           /\ DOMAIN events' = 1 .. Len(events')
           /\ \A c \in 1 .. Len(events) : events'[c] = events[c]
           /\ \A i \in 1 .. Len(new) : events'[Len(events) + i] = new[i]
           /\ DOMAIN deliveries \subseteq DOMAIN deliveries'
           /\ \A k \in DOMAIN deliveries : deliveries'[k] = deliveries[k]
           /\ \A k \in DOMAIN deliveries' \ DOMAIN deliveries :
                /\ k[1] \in Len(events) + 1 .. Len(events')
                /\ deliveries'[k] = NewDelivery(k)
           /\ \A i \in 1 .. Len(new) : \A p \in Participant :
                p \in to[i] => <<Len(events) + i, p>> \in DOMAIN deliveries'
<1>1. /\ events \in Seq(EventRecord)
      /\ DOMAIN deliveries \subseteq (1 .. Len(events)) \X Participant
  BY DEF TypeOK
<1>2. Len(events) \in Nat /\ Len(new) \in Nat
  BY <1>1
<1>3. events' = events \o new
  BY DEF Publish
<1>4. /\ Len(events') = Len(events) + Len(new)
      /\ DOMAIN events = 1 .. Len(events)
      /\ DOMAIN events' = 1 .. Len(events')
      /\ \A c \in 1 .. Len(events) : events'[c] = events[c]
  BY <1>1, <1>2, <1>3
<1>5. \A i \in 1 .. Len(new) : events'[Len(events) + i] = new[i]
  BY <1>1, <1>2, <1>3
<1> DEFINE added == {d \in (NextCursor .. Len(events) + Len(new)) \X Participant :
                        d[2] \in to[d[1] - Len(events)]}
<1>6. deliveries' = [k \in DOMAIN deliveries \cup added |->
                       IF k \in DOMAIN deliveries THEN deliveries[k] ELSE NewDelivery(k)]
  BY DEF Publish
<1>7. \A k \in added : k[1] \in Len(events) + 1 .. Len(events')
  BY <1>4 DEF NextCursor
<1>8. \A i \in 1 .. Len(new) : \A p \in Participant :
        p \in to[i] => <<Len(events) + i, p>> \in added
  <2> SUFFICES ASSUME NEW i \in 1 .. Len(new), NEW p \in Participant, p \in to[i]
               PROVE  <<Len(events) + i, p>> \in added
    OBVIOUS
  <2>1. PICK d : d = <<Len(events) + i, p>>
    OBVIOUS
  <2>2. d \in (NextCursor .. Len(events) + Len(new)) \X Participant
    BY <1>2, <2>1 DEF NextCursor
  <2>3. d[1] - Len(events) = i /\ d[2] = p
    BY <1>2, <2>1
  <2> QED BY <2>1, <2>2, <2>3
<1> HIDE DEF added
<1>9. DOMAIN deliveries' = DOMAIN deliveries \cup added
  BY <1>6
<1>10. \A k \in DOMAIN deliveries : deliveries'[k] = deliveries[k]
  BY <1>6
<1>11. \A k \in DOMAIN deliveries' \ DOMAIN deliveries :
         k \in added /\ deliveries'[k] = NewDelivery(k)
  BY <1>6, <1>9
<1> QED BY <1>2, <1>4, <1>5, <1>7, <1>8, <1>9, <1>10, <1>11

\* The dispatch exists.
Present(t) == dispatches[t].state # "absent"

\* A step that appends the events of new, all of dispatches that then exist, and neither
\* removes a dispatch nor moves its session.
Publishes(new, to) ==
    /\ Publish(new, to)
    /\ \A t \in Target : Present(t) => Present(t)' /\ dispatches'[t].session = dispatches[t].session
    /\ \A i \in 1 .. Len(new) : Present(new[i].target)'

\* An accepted request: its key was free, its receipt covers the events it appends, and
\* these are of its own dispatch.
Accepts(r, new, to) ==
    /\ Fresh(r)
    /\ Remember(r, Len(new))
    /\ Publishes(new, to)
    /\ \A i \in 1 .. Len(new) : new[i].target = r.target

(* The logs of one and of two events, which is what the requests append. *)
LEMMA ShortLogs ==
    ASSUME NEW e \in EventRecord, NEW f \in EventRecord
    PROVE  /\ <<e>> \in Seq(EventRecord)
           /\ Len(<<e>>) = 1
           /\ \A i \in 1 .. 1 : <<e>>[i] = e
           /\ <<e, f>> \in Seq(EventRecord)
           /\ Len(<<e, f>>) = 2
           /\ <<e, f>>[1] = e
           /\ \A i \in 1 .. 2 : i # 1 => <<e, f>>[i] = f
  OBVIOUS

(* create_run publishes the creation to the coordinator and the worker. *)
LEMMA CreateAccepts ==
    ASSUME TypeOK, NEW r \in CreateRequests, CreateRun(r)
    PROVE  \E new, to :
             /\ new \in Seq(EventRecord)
             /\ Accepts(r, new, to)
             /\ \A i \in 1 .. Len(new) : new[i].kind = "run_created"
<1>1. /\ r.target \in Target
      /\ dispatches \in [Target -> DispatchRecord]
      /\ dispatches[r.target] \in DispatchRecord
      /\ dispatches[r.target].state = "absent"
  BY RequestsAssumption DEF TypeOK, CreateRun
<1>2. None \in {None} \cup AllIds
  OBVIOUS
<1>3. PICK e : e = Event(r.target, "run_created", None)
  OBVIOUS
<1>5. e \in EventRecord /\ e.target = r.target /\ e.kind = "run_created"
  BY <1>1, <1>2, <1>3, EventType DEF EventKinds, Event
<1>6. PICK new : new = <<e>>
  OBVIOUS
<1>7. PICK to : to = <<{CoordinatorOf[r.target], WorkerOf[r.target]}>>
  OBVIOUS
<1>8. Fresh(r) /\ Remember(r, 1) /\ Publish(new, to)
  BY <1>3, <1>6, <1>7 DEF CreateRun
<1>9. /\ new \in Seq(EventRecord) /\ Len(new) = 1
      /\ \A i \in 1 .. Len(new) : new[i] = e
  BY <1>5, <1>6, ShortLogs
<1>10. Present(r.target)'
  BY <1>1 DEF CreateRun, Absent, Present
<1>11. \A t \in Target : Present(t) => Present(t)' /\ dispatches'[t].session = dispatches[t].session
  BY <1>1 DEF CreateRun, Present
<1>12. Accepts(r, new, to)
  <2>1. \A i \in 1 .. Len(new) : new[i].target = r.target
    BY <1>5, <1>9
  <2> QED BY <1>8, <1>9, <1>10, <1>11, <2>1 DEF Accepts, Publishes
<1> QED BY <1>5, <1>9, <1>12

(* A message publishes its opening. *)
LEMMA OpenMessageAccepts ==
    ASSUME TypeOK, NEW r \in OpenRequests, OpenMessage(r)
    PROVE  \E new, to :
             /\ new \in Seq(EventRecord)
             /\ Accepts(r, new, to)
             /\ Len(new) = 1
             /\ new[1].kind = "interaction_opened"
             /\ new[1].id = r.id
<1>1. /\ r.target \in Target
      /\ dispatches \in [Target -> DispatchRecord]
      /\ dispatches[r.target] \in DispatchRecord
      /\ dispatches[r.target].state # "absent"
  BY RequestsAssumption DEF TypeOK, OpenMessage, OpenAdmitted
<1>2. r.id \in AllIds
  BY RequestsAssumption DEF AllIds
<1>3. PICK e : e = Event(r.target, "interaction_opened", r.id)
  OBVIOUS
<1>5. e \in EventRecord /\ e.target = r.target /\ e.kind = "interaction_opened" /\ e.id = r.id
  BY <1>1, <1>2, <1>3, EventType DEF EventKinds, Event
<1>6. PICK new : new = <<e>>
  OBVIOUS
<1>7. PICK to : to = <<r.audience>>
  OBVIOUS
<1>8. Fresh(r) /\ Remember(r, 1) /\ Publish(new, to)
  BY <1>3, <1>6, <1>7 DEF OpenMessage, OpenAdmitted
<1>9. /\ new \in Seq(EventRecord) /\ Len(new) = 1
      /\ \A i \in 1 .. Len(new) : new[i] = e
  BY <1>5, <1>6, ShortLogs
<1>10. Present(r.target)'
  BY <1>1 DEF OpenMessage, Present
<1>11. \A t \in Target : Present(t) => Present(t)' /\ dispatches'[t].session = dispatches[t].session
  BY <1>1 DEF OpenMessage, Present
<1>12. Accepts(r, new, to)
  <2>1. \A i \in 1 .. Len(new) : new[i].target = r.target
    BY <1>5, <1>9
  <2> QED BY <1>8, <1>9, <1>10, <1>11, <2>1 DEF Accepts, Publishes
<1> QED BY <1>5, <1>9, <1>12

(* A decision publishes its opening and the block of its dispatch. *)
LEMMA OpenDecisionAccepts ==
    ASSUME TypeOK, NEW r \in OpenRequests, OpenDecision(r)
    PROVE  \E new, to :
             /\ new \in Seq(EventRecord)
             /\ Accepts(r, new, to)
             /\ \A i \in 1 .. Len(new) :
                  /\ new[i].kind \in {"interaction_opened", "dispatch_blocked"}
                  /\ new[i].id = r.id
<1>1. /\ r.target \in Target
      /\ dispatches \in [Target -> DispatchRecord]
      /\ dispatches[r.target] \in DispatchRecord
      /\ dispatches' = [dispatches EXCEPT ![r.target] = BlockedBy(dispatches[r.target], r.id)]
  BY RequestsAssumption DEF TypeOK, OpenDecision
<1>2. r.id \in AllIds
  BY RequestsAssumption DEF AllIds
<1>3. PICK e : e = Event(r.target, "interaction_opened", r.id)
  OBVIOUS
<1>4. PICK f : f = Event(r.target, "dispatch_blocked", r.id)
  OBVIOUS
<1>5. /\ e \in EventRecord /\ e.target = r.target /\ e.kind = "interaction_opened" /\ e.id = r.id
      /\ f \in EventRecord /\ f.target = r.target /\ f.kind = "dispatch_blocked" /\ f.id = r.id
  BY <1>1, <1>2, <1>3, <1>4, EventType DEF EventKinds, Event
<1>6. PICK new : new = <<e, f>>
  OBVIOUS
<1>7. PICK to : to = <<r.audience, {}>>
  OBVIOUS
<1>8. Fresh(r) /\ Remember(r, 2) /\ Publish(new, to)
  BY <1>3, <1>4, <1>6, <1>7 DEF OpenDecision, OpenAdmitted
<1>9. /\ new \in Seq(EventRecord) /\ Len(new) = 2
      /\ \A i \in 1 .. Len(new) : new[i] = IF i = 1 THEN e ELSE f
  BY <1>5, <1>6, ShortLogs
<1>10. Present(r.target)'
  BY <1>1 DEF BlockedBy, Present, DispatchRecord
<1>11. \A t \in Target : Present(t) => Present(t)' /\ dispatches'[t].session = dispatches[t].session
  BY <1>1 DEF BlockedBy, Present, DispatchRecord
<1>12. Accepts(r, new, to)
  <2>1. \A i \in 1 .. Len(new) : new[i].target = r.target
    BY <1>5, <1>9
  <2> QED BY <1>8, <1>9, <1>10, <1>11, <2>1 DEF Accepts, Publishes
<1> QED BY <1>5, <1>9, <1>12

(* answer publishes the answer, to the worker also, and the unblock. *)
LEMMA AnswerAccepts ==
    ASSUME TypeOK, NEW r \in AnswerRequests, Answer(r)
    PROVE  \E new, to :
             /\ new \in Seq(EventRecord)
             /\ Accepts(r, new, to)
             /\ \A i \in 1 .. Len(new) : new[i].kind \in {"decision_answered", "dispatch_unblocked"}
             /\ \A i \in 1 .. Len(new) :
                  new[i].kind = "decision_answered" => WorkerOf[new[i].target] \in to[i]
<1>1. /\ r.target \in Target
      /\ dispatches \in [Target -> DispatchRecord]
      /\ dispatches[r.target] \in DispatchRecord
      /\ dispatches' = [dispatches EXCEPT ![r.target] = Unblocked(dispatches[r.target])]
  BY RequestsAssumption DEF TypeOK, Answer
<1>2. r.id \in AllIds
  BY RequestsAssumption DEF AllIds
<1>3. PICK e : e = Event(r.target, "decision_answered", r.id)
  OBVIOUS
<1>4. PICK f : f = Event(r.target, "dispatch_unblocked", r.id)
  OBVIOUS
<1>5. /\ e \in EventRecord /\ e.target = r.target /\ e.kind = "decision_answered"
      /\ f \in EventRecord /\ f.target = r.target /\ f.kind = "dispatch_unblocked"
  BY <1>1, <1>2, <1>3, <1>4, EventType DEF EventKinds, Event
<1>6. PICK new : new = <<e, f>>
  OBVIOUS
<1>7. PICK to : to = <<AnswerRecipients(r), {}>>
  OBVIOUS
<1>8. Fresh(r) /\ Remember(r, 2) /\ Publish(new, to)
  BY <1>3, <1>4, <1>6, <1>7 DEF Answer, AnswerAdmitted
<1>9. /\ new \in Seq(EventRecord) /\ Len(new) = 2
      /\ \A i \in 1 .. Len(new) : new[i] = IF i = 1 THEN e ELSE f
  BY <1>5, <1>6, ShortLogs
<1>10. Present(r.target)'
  BY <1>1 DEF Unblocked, Present, DispatchRecord
<1>11. \A t \in Target : Present(t) => Present(t)' /\ dispatches'[t].session = dispatches[t].session
  BY <1>1 DEF Unblocked, Present, DispatchRecord
<1>12. Accepts(r, new, to)
  <2>1. \A i \in 1 .. Len(new) : new[i].target = r.target
    BY <1>5, <1>9
  <2> QED BY <1>8, <1>9, <1>10, <1>11, <2>1 DEF Accepts, Publishes
<1>13. WorkerOf[r.target] \in to[1]
  BY <1>7 DEF AnswerRecipients
<1>14. \A i \in 1 .. Len(new) :
         new[i].kind = "decision_answered" => WorkerOf[new[i].target] \in to[i]
  BY <1>5, <1>9, <1>13
<1> QED BY <1>5, <1>9, <1>12, <1>14

(* complete publishes the completion. *)
LEMMA CompleteAccepts ==
    ASSUME TypeOK, NEW r \in CompleteRequests, Complete(r)
    PROVE  \E new, to :
             /\ new \in Seq(EventRecord)
             /\ Accepts(r, new, to)
             /\ Len(new) = 1
             /\ new[1].kind = "dispatch_completed"
<1>1. /\ r.target \in Target
      /\ dispatches \in [Target -> DispatchRecord]
      /\ dispatches[r.target] \in DispatchRecord
      /\ dispatches' = [dispatches EXCEPT ![r.target] = Completed(dispatches[r.target])]
  BY RequestsAssumption DEF TypeOK, Complete
<1>2. r.id \in AllIds
  BY RequestsAssumption DEF AllIds
<1>3. PICK e : e = Event(r.target, "dispatch_completed", r.id)
  OBVIOUS
<1>5. e \in EventRecord /\ e.target = r.target /\ e.kind = "dispatch_completed"
  BY <1>1, <1>2, <1>3, EventType DEF EventKinds, Event
<1>6. PICK new : new = <<e>>
  OBVIOUS
<1>7. PICK to : to = <<r.audience>>
  OBVIOUS
<1>8. Fresh(r) /\ Remember(r, 1) /\ Publish(new, to)
  BY <1>3, <1>6, <1>7 DEF Complete, CompleteAdmitted
<1>9. /\ new \in Seq(EventRecord) /\ Len(new) = 1
      /\ \A i \in 1 .. Len(new) : new[i] = e
  BY <1>5, <1>6, ShortLogs
<1>10. Present(r.target)'
  BY <1>1 DEF Completed, Present, DispatchRecord
<1>11. \A t \in Target : Present(t) => Present(t)' /\ dispatches'[t].session = dispatches[t].session
  BY <1>1 DEF Completed, Present, DispatchRecord
<1>12. Accepts(r, new, to)
  <2>1. \A i \in 1 .. Len(new) : new[i].target = r.target
    BY <1>5, <1>9
  <2> QED BY <1>8, <1>9, <1>10, <1>11, <2>1 DEF Accepts, Publishes
<1> QED BY <1>5, <1>9, <1>12

(* set_dispatch_deadline publishes the deadline message. *)
LEMMA SetDeadlineAccepts ==
    ASSUME TypeOK, NEW r \in DeadlineRequests, SetDeadline(r)
    PROVE  \E new, to :
             /\ new \in Seq(EventRecord)
             /\ Accepts(r, new, to)
             /\ Len(new) = 1
             /\ new[1].kind = "interaction_opened"
             /\ new[1].id = DeadlineId(NextCursor)
<1>1. /\ r.target \in Target
      /\ dispatches \in [Target -> DispatchRecord]
      /\ dispatches[r.target] \in DispatchRecord
      /\ Unfinished(r.target)
      /\ dispatches' = [dispatches EXCEPT ![r.target] = DueAt(dispatches[r.target], r.due)]
  BY RequestsAssumption DEF TypeOK, SetDeadline
<1>2. DeadlineId(NextCursor) \in AllIds
  <2>1. Len(events) \in Nat
    BY DEF TypeOK
  <2> QED BY <2>1 DEF DeadlineId, NextCursor, AllIds, DeadlineIds, Cursor
<1>3. PICK e : e = Event(r.target, "interaction_opened", DeadlineId(NextCursor))
  OBVIOUS
<1>5. /\ e \in EventRecord /\ e.target = r.target
      /\ e.kind = "interaction_opened" /\ e.id = DeadlineId(NextCursor)
  BY <1>1, <1>2, <1>3, EventType DEF EventKinds, Event
<1>6. PICK new : new = <<e>>
  OBVIOUS
<1>7. PICK to : to = <<{CoordinatorOf[r.target]}>>
  OBVIOUS
<1>8. Fresh(r) /\ Remember(r, 1) /\ Publish(new, to)
  BY <1>3, <1>6, <1>7 DEF SetDeadline
<1>9. /\ new \in Seq(EventRecord) /\ Len(new) = 1
      /\ \A i \in 1 .. Len(new) : new[i] = e
  BY <1>5, <1>6, ShortLogs
<1>10. Present(r.target)'
  BY <1>1 DEF DueAt, Unfinished, Present, DispatchRecord
<1>11. \A t \in Target : Present(t) => Present(t)' /\ dispatches'[t].session = dispatches[t].session
  BY <1>1 DEF DueAt, Present, DispatchRecord
<1>12. Accepts(r, new, to)
  <2>1. \A i \in 1 .. Len(new) : new[i].target = r.target
    BY <1>5, <1>9
  <2> QED BY <1>8, <1>9, <1>10, <1>11, <2>1 DEF Accepts, Publishes
<1> QED BY <1>5, <1>9, <1>12

\* A tick that reports the dispatches of order, in that order: the i-th report is the
\* event i places after the log.
Reports(n, order, new) ==
    /\ new = [i \in 1 .. n |-> Event(order[i], "interaction_opened", DeadlineId(Len(events) + i))]
    /\ Publish(new, [i \in 1 .. n |-> {CoordinatorOf[order[i]]}])
    /\ \A i \in 1 .. n :
         dispatches'[order[i]] = [dispatches[order[i]] EXCEPT !.overdue = Len(events) + i]
    /\ \A t \in Target : (\A i \in 1 .. n : order[i] # t) => dispatches'[t] = dispatches[t]
    /\ DOMAIN interactions' = DOMAIN interactions \cup {DeadlineId(Len(events) + i) : i \in 1 .. n}
    /\ \A id \in DOMAIN interactions : interactions'[id] = interactions[id]
    /\ UNCHANGED <<idempotency, ackIdempotency>>

(* A tick of the clock reports every overdue dispatch, each one once. *)
LEMMA ExpireReports ==
    ASSUME TypeOK, NEW now \in Instant, ExpireDeadlines(now)
    PROVE  \E n \in Nat : \E order \in [1 .. n -> Target], new \in Seq(EventRecord) :
             /\ Reports(n, order, new)
             /\ \A i \in 1 .. n : Overdue(order[i], now)
             /\ \A i, j \in 1 .. n : order[i] = order[j] => i = j
<1> DEFINE late == {t \in Target : Overdue(t, now)}
           n == Cardinality(late)
<1>1. /\ late \subseteq Target
      /\ \A t \in late : Overdue(t, now)
  OBVIOUS
<1>2. n = Cardinality(late)
  OBVIOUS
<1>3. IsFiniteSet(late) /\ n \in Nat
  BY NamesAssumption, FS_Subset, FS_CardinalityType
<1>4. PICK order \in OrderingsOf(late) :
        LET new == [i \in 1 .. n |->
                      Event(order[i], "interaction_opened", DeadlineId(Len(events) + i))]
            cursorOf(t) == Len(events) + (CHOOSE i \in DOMAIN order : order[i] = t)
        IN  /\ dispatches' = [t \in Target |->
                                IF t \in late
                                THEN [dispatches[t] EXCEPT !.overdue = cursorOf(t)]
                                ELSE dispatches[t]]
            /\ Publish(new, [i \in DOMAIN new |-> {CoordinatorOf[order[i]]}])
            /\ interactions' =
                 [id \in DOMAIN interactions \cup {new[i].id : i \in DOMAIN new} |->
                    IF id \in DOMAIN interactions THEN interactions[id]
                    ELSE DeadlineMessage(events'[id[2]].target)]
  BY DEF ExpireDeadlines
<1> HIDE DEF late, n
<1>5. /\ order \in [1 .. n -> late]
      /\ \A t \in late : \E i \in 1 .. n : order[i] = t
  BY <1>2 DEF OrderingsOf
<1>6. \A i, j \in 1 .. n : order[i] = order[j] => i = j
  <2>1. order \in Surjection(1 .. n, late)
    BY <1>5 DEF Surjection
  <2>2. IsFiniteSet(1 .. n) /\ Cardinality(1 .. n) = n
    BY <1>3, FS_Interval
  <2>3. order \in Injection(1 .. n, late)
    BY <1>2, <2>1, <2>2, FS_SurjSameCardinalityImpliesInj
  <2> QED BY <2>3 DEF Injection, IsInjective
<1>7. PICK new : new = [i \in 1 .. n |->
                          Event(order[i], "interaction_opened", DeadlineId(Len(events) + i))]
  OBVIOUS
<1>8. /\ DOMAIN new = 1 .. n
      /\ \A i \in 1 .. n : new[i].id = DeadlineId(Len(events) + i)
  BY <1>7 DEF Event
<1>9. Publish(new, [i \in 1 .. n |-> {CoordinatorOf[order[i]]}])
  BY <1>4, <1>7, <1>8
<1>10. \A i \in 1 .. n :
         dispatches'[order[i]] = [dispatches[order[i]] EXCEPT !.overdue = Len(events) + i]
  <2> SUFFICES ASSUME NEW i \in 1 .. n
               PROVE  dispatches'[order[i]] =
                        [dispatches[order[i]] EXCEPT !.overdue = Len(events) + i]
    OBVIOUS
  <2>1. (CHOOSE j \in DOMAIN order : order[j] = order[i]) = i
    <3>1. DOMAIN order = 1 .. n
      BY <1>5
    <3>2. (CHOOSE j \in 1 .. n : order[j] = order[i]) \in 1 .. n
      OBVIOUS
    <3>3. order[CHOOSE j \in 1 .. n : order[j] = order[i]] = order[i]
      OBVIOUS
    <3> QED BY <3>1, <3>2, <3>3, <1>6
  <2>2. order[i] \in late /\ order[i] \in Target
    BY <1>1, <1>5
  <2> QED BY <1>4, <2>1, <2>2
<1>11. \A t \in Target : (\A i \in 1 .. n : order[i] # t) => dispatches'[t] = dispatches[t]
  BY <1>4, <1>5
<1>12. /\ DOMAIN interactions' =
            DOMAIN interactions \cup {DeadlineId(Len(events) + i) : i \in 1 .. n}
       /\ \A id \in DOMAIN interactions : interactions'[id] = interactions[id]
  BY <1>4, <1>7, <1>8
<1>13. UNCHANGED <<idempotency, ackIdempotency>>
  BY DEF ExpireDeadlines
<1>14. Reports(n, order, new)
  BY <1>7, <1>9, <1>10, <1>11, <1>12, <1>13 DEF Reports
<1>15. order \in [1 .. n -> Target] /\ \A i \in 1 .. n : Overdue(order[i], now)
  BY <1>1, <1>5
<1>16. new \in Seq(EventRecord)
  <2>1. \A i \in 1 .. n : DeadlineId(Len(events) + i) \in AllIds
    BY <1>3 DEF TypeOK, DeadlineId, AllIds, DeadlineIds, Cursor
  <2>2. \A i \in 1 .. n : Event(order[i], "interaction_opened", DeadlineId(Len(events) + i))
                            \in EventRecord
    BY <1>15, <2>1, EventType DEF EventKinds
  <2>3. new \in [1 .. n -> EventRecord]
    BY <1>7, <2>2
  <2> QED BY <1>3, <2>3
<1> QED BY <1>3, <1>6, <1>14, <1>15, <1>16

(* The reports of a tick are events of dispatches that exist. *)
LEMMA ReportsPublish ==
    ASSUME TypeOK, NEW now \in Instant, NEW n \in Nat, NEW order \in [1 .. n -> Target], NEW new,
           Reports(n, order, new), \A i \in 1 .. n : Overdue(order[i], now)
    PROVE  /\ new \in Seq(EventRecord)
           /\ Len(new) = n
           /\ \A i \in 1 .. n : /\ new[i].target = order[i]
                                /\ new[i].kind = "interaction_opened"
                                /\ new[i].id = DeadlineId(Len(events) + i)
           /\ Publishes(new, [i \in 1 .. n |-> {CoordinatorOf[order[i]]}])
<1>1. Len(events) \in Nat /\ \A t \in Target : dispatches[t] \in DispatchRecord
  BY DEF TypeOK
<1>2. \A i \in 1 .. n : DeadlineId(Len(events) + i) \in AllIds
  BY <1>1 DEF DeadlineId, AllIds, DeadlineIds, Cursor
<1>3. \A i \in 1 .. n : /\ new[i] \in EventRecord
                        /\ new[i].target = order[i]
                        /\ new[i].kind = "interaction_opened"
                        /\ new[i].id = DeadlineId(Len(events) + i)
  BY <1>2, EventType DEF Reports, EventKinds, Event
<1>4. new \in Seq(EventRecord) /\ Len(new) = n
  <2>1. DOMAIN new = 1 .. n /\ new = [i \in 1 .. n |-> new[i]]
    BY DEF Reports
  <2>2. new \in [1 .. n -> EventRecord]
    BY <1>3, <2>1
  <2> QED BY <2>2
<1>5. \A i \in 1 .. n : Present(order[i])
  BY DEF Overdue, Unfinished, Present
<1>6. \A t \in Target : Present(t) => Present(t)' /\ dispatches'[t].session = dispatches[t].session
  <2> SUFFICES ASSUME NEW t \in Target, Present(t)
               PROVE  Present(t)' /\ dispatches'[t].session = dispatches[t].session
    OBVIOUS
  <2>1. CASE \E i \in 1 .. n : order[i] = t
    <3>1. PICK i \in 1 .. n : order[i] = t
      BY <2>1
    <3>2. dispatches'[t] = [dispatches[t] EXCEPT !.overdue = Len(events) + i]
      BY <3>1 DEF Reports
    <3> QED BY <1>1, <3>2 DEF Present, DispatchRecord
  <2>2. CASE \A i \in 1 .. n : order[i] # t
    BY <2>2 DEF Reports, Present
  <2> QED BY <2>1, <2>2
<1> QED BY <1>3, <1>4, <1>5, <1>6 DEF Publishes, Reports

(* Every step publishes, reads, moves a wake, moves sessions, or leaves the log, the inbox *)
(* and the endpoints alone.                                                                *)
LEMMA Steps ==
    ASSUME TypeOK, [Next]_vars
    PROVE  \/ \E new, to :
                /\ new \in Seq(EventRecord)
                /\ Publishes(new, to)
                /\ \A i \in 1 .. Len(new) :
                     new[i].kind = "decision_answered" => WorkerOf[new[i].target] \in to[i]
           \/ \E r \in ReadRequests : ReadEvents(r)
           \/ \E r \in WakeRequests : TransitionWake(r)
           \/ \E S, s : MoveSessions(S, s)
           \/ UNCHANGED vars
<1>1. ASSUME NEW now \in Instant, ExpireDeadlines(now)
      PROVE  \E new, to :
               /\ new \in Seq(EventRecord)
               /\ Publishes(new, to)
               /\ \A i \in 1 .. Len(new) : new[i].kind = "interaction_opened"
  <2>1. PICK n \in Nat : \E order \in [1 .. n -> Target], new \in Seq(EventRecord) :
          Reports(n, order, new) /\ \A i \in 1 .. n : Overdue(order[i], now)
    BY <1>1, ExpireReports
  <2>2. PICK order \in [1 .. n -> Target], new \in Seq(EventRecord) :
          Reports(n, order, new) /\ \A i \in 1 .. n : Overdue(order[i], now)
    BY <2>1
  <2>3. PICK to : to = [i \in 1 .. n |-> {CoordinatorOf[order[i]]}]
    OBVIOUS
  <2>4. /\ new \in Seq(EventRecord)
        /\ Len(new) = n
        /\ \A i \in 1 .. n : new[i].kind = "interaction_opened"
        /\ Publishes(new, to)
    BY ONLY TypeOK, now \in Instant, n \in Nat, order \in [1 .. n -> Target], <2>2, <2>3,
            ReportsPublish
  <2> QED BY <2>4
<1>2. ASSUME NEW r \in CreateRequests, CreateRun(r)
      PROVE  \E new, to :
               /\ new \in Seq(EventRecord)
               /\ Publishes(new, to)
               /\ \A i \in 1 .. Len(new) : new[i].kind = "run_created"
  BY <1>2, CreateAccepts DEF Accepts
<1>3. ASSUME NEW r \in OpenRequests, OpenMessage(r)
      PROVE  \E new, to :
               /\ new \in Seq(EventRecord)
               /\ Publishes(new, to)
               /\ \A i \in 1 .. Len(new) : new[i].kind = "interaction_opened"
  BY <1>3, OpenMessageAccepts DEF Accepts
<1>4. ASSUME NEW r \in OpenRequests, OpenDecision(r)
      PROVE  \E new, to :
               /\ new \in Seq(EventRecord)
               /\ Publishes(new, to)
               /\ \A i \in 1 .. Len(new) :
                    new[i].kind \in {"interaction_opened", "dispatch_blocked"}
  BY <1>4, OpenDecisionAccepts DEF Accepts
<1>5. ASSUME NEW r \in AnswerRequests, Answer(r)
      PROVE  \E new, to :
               /\ new \in Seq(EventRecord)
               /\ Publishes(new, to)
               /\ \A i \in 1 .. Len(new) :
                    new[i].kind = "decision_answered" => WorkerOf[new[i].target] \in to[i]
  BY <1>5, AnswerAccepts DEF Accepts
<1>6. ASSUME NEW r \in CompleteRequests, Complete(r)
      PROVE  \E new, to :
               /\ new \in Seq(EventRecord)
               /\ Publishes(new, to)
               /\ \A i \in 1 .. Len(new) : new[i].kind = "dispatch_completed"
  BY <1>6, CompleteAccepts DEF Accepts
<1>7. ASSUME NEW r \in DeadlineRequests, SetDeadline(r)
      PROVE  \E new, to :
               /\ new \in Seq(EventRecord)
               /\ Publishes(new, to)
               /\ \A i \in 1 .. Len(new) : new[i].kind = "interaction_opened"
  BY <1>7, SetDeadlineAccepts DEF Accepts
<1>8. CASE Next
  <2>1. \/ \E now \in Instant : ExpireDeadlines(now)
        \/ \E r \in CreateRequests : CreateRun(r)
        \/ \E r \in OpenRequests : OpenMessage(r)
        \/ \E r \in OpenRequests : OpenDecision(r)
        \/ \E r \in AnswerRequests : Answer(r)
        \/ \E r \in CompleteRequests : Complete(r)
        \/ \E r \in DeadlineRequests : SetDeadline(r)
        \/ \E r \in ReadRequests : ReadEvents(r)
        \/ \E r \in WakeRequests : TransitionWake(r)
        \/ \E S, s : MoveSessions(S, s)
    BY <1>8 DEF Next, RebindSession, ReconcileSession
  <2> QED BY <1>1, <1>2, <1>3, <1>4, <1>5, <1>6, <1>7, <2>1
<1> QED BY <1>8

(* read_events changes the state of deliveries and nothing else of them. *)
LEMMA ReadFacts ==
    ASSUME TypeOK, NEW r \in ReadRequests, ReadEvents(r)
    PROVE  /\ DOMAIN deliveries' = DOMAIN deliveries
           /\ dispatches' = dispatches /\ events' = events
           /\ \A k \in DOMAIN deliveries :
                /\ deliveries'[k].session = deliveries[k].session
                /\ deliveries'[k].wake = deliveries[k].wake
                /\ deliveries'[k].state =
                     IF k \in Acknowledged(r) THEN "acknowledged"
                     ELSE IF k \in NewlyObserved(r) THEN "observed"
                     ELSE deliveries[k].state
<1>1. \A k \in DOMAIN deliveries : deliveries[k] \in DeliveryEntry
  BY DEF TypeOK
<1>2. dispatches' = dispatches /\ events' = events
  BY DEF ReadEvents
<1>3. deliveries' =
         [k \in DOMAIN deliveries |->
            IF k \in Acknowledged(r) THEN [deliveries[k] EXCEPT !.state = "acknowledged"]
            ELSE IF k \in NewlyObserved(r) THEN [deliveries[k] EXCEPT !.state = "observed"]
            ELSE deliveries[k]]
  BY DEF ReadEvents
<1> QED BY <1>1, <1>2, <1>3 DEF DeliveryEntry

(* transition_delivery_wake replaces the wake of one delivery. *)
LEMMA WakeFacts ==
    ASSUME TypeOK, NEW r \in WakeRequests, TransitionWake(r)
    PROVE  /\ DOMAIN deliveries' = DOMAIN deliveries
           /\ dispatches' = dispatches /\ events' = events
           /\ r.receipt \in DOMAIN deliveries
           /\ \A k \in DOMAIN deliveries \ {r.receipt} : deliveries'[k] = deliveries[k]
           /\ deliveries'[r.receipt].session = deliveries[r.receipt].session
           /\ deliveries'[r.receipt].state = deliveries[r.receipt].state
           /\ deliveries'[r.receipt].wake = WakeReplacement(r.kind, r.capable, r.outcome, r.at)
<1>1. /\ r.receipt \in DOMAIN deliveries
      /\ deliveries \in [DOMAIN deliveries -> DeliveryEntry]
      /\ deliveries[r.receipt] \in DeliveryEntry
  BY DEF TransitionWake, WakeAdmitted, TypeOK
<1>2. PICK wake : wake = WakeReplacement(r.kind, r.capable, r.outcome, r.at)
  OBVIOUS
<1>3. deliveries' = [deliveries EXCEPT ![r.receipt] = [deliveries[r.receipt] EXCEPT !.wake = wake]]
  BY <1>2 DEF TransitionWake
<1>4. dispatches' = dispatches /\ events' = events
  BY DEF TransitionWake
<1> QED BY <1>1, <1>2, <1>3, <1>4 DEF DeliveryEntry

(* A rebind moves the endpoint of the dispatches and of their worker's deliveries. *)
LEMMA MoveFacts ==
    ASSUME TypeOK, NEW S, NEW s, MoveSessions(S, s)
    PROVE  /\ DOMAIN deliveries' = DOMAIN deliveries
           /\ events' = events
           /\ \A t \in Target :
                dispatches'[t] = [dispatches[t] EXCEPT !.session = dispatches'[t].session]
           /\ \A t \in Target :
                /\ dispatches'[t].state = dispatches[t].state
                /\ dispatches'[t].session = IF t \in S THEN s ELSE dispatches[t].session
           /\ \A k \in DOMAIN deliveries :
                /\ deliveries'[k].state = deliveries[k].state
                /\ deliveries'[k].wake = deliveries[k].wake
                /\ deliveries'[k].session =
                     IF events[k[1]].target \in S /\ k[2] = WorkerOf[events[k[1]].target]
                     THEN s ELSE deliveries[k].session
<1>1. \A k \in DOMAIN deliveries : deliveries[k] \in DeliveryEntry
  BY DEF TypeOK
<1>2. \A t \in Target : dispatches[t] \in DispatchRecord
  BY DEF TypeOK
<1>3. \A t \in Target :
        dispatches'[t] = IF t \in S THEN [dispatches[t] EXCEPT !.session = s] ELSE dispatches[t]
  BY DEF MoveSessions
<1>4. \A t \in Target :
        /\ dispatches'[t].state = dispatches[t].state
        /\ dispatches'[t].session = IF t \in S THEN s ELSE dispatches[t].session
  BY <1>2, <1>3 DEF DispatchRecord
<1>5. \A t \in Target :
        dispatches'[t] = [dispatches[t] EXCEPT !.session = dispatches'[t].session]
  BY <1>2, <1>3 DEF DispatchRecord
<1>6. DOMAIN deliveries' = DOMAIN deliveries /\ events' = events
  BY DEF MoveSessions, MovedDeliveries
<1>7. \A k \in DOMAIN deliveries :
        deliveries'[k] = IF events[k[1]].target \in S /\ k[2] = WorkerOf[events[k[1]].target]
                         THEN [deliveries[k] EXCEPT !.session = s]
                         ELSE deliveries[k]
  BY DEF MoveSessions, MovedDeliveries
<1>8. \A k \in DOMAIN deliveries :
        /\ deliveries'[k].state = deliveries[k].state
        /\ deliveries'[k].wake = deliveries[k].wake
        /\ deliveries'[k].session =
             IF events[k[1]].target \in S /\ k[2] = WorkerOf[events[k[1]].target]
             THEN s ELSE deliveries[k].session
  BY <1>1, <1>7 DEF DeliveryEntry
<1> QED BY <1>4, <1>5, <1>6, <1>8

(* Every delivery is of an event of the log, and so of a dispatch target. *)
LEMMA DeliveryTarget ==
    ASSUME TypeOK, NEW k \in DOMAIN deliveries
    PROVE  k[1] \in 1 .. Len(events) /\ k[2] \in Participant /\ events[k[1]].target \in Target
<1>1. k[1] \in 1 .. Len(events) /\ k[2] \in Participant /\ events \in Seq(EventRecord)
  BY DEF TypeOK
<1>2. events[k[1]] \in EventRecord
  BY <1>1
<1> QED BY <1>1, <1>2 DEF EventRecord

-----------------------------------------------------------------------------
(* Deliveries are fenced by the endpoint of their worker.  The invariant is  *)
(* inductive relative to TypeOK; it holds for new deliveries because a        *)
(* dispatch that is written to exists.                                        *)

\* DeliveriesFenced, of one delivery.
Fenced(k) ==
    LET t == events[k[1]].target
        d == deliveries[k]
    IN  /\ dispatches[t].state # "absent"
        /\ d.session = IF k[2] = WorkerOf[t] THEN dispatches[t].session ELSE None
        /\ d.wake.state # "none" => k[2] = WorkerOf[t]
        /\ d.wake.state \in {"pending", "uncertain", "triggered"} => t \in Wakeable

(* Publishing keeps the deliveries fenced. *)
LEMMA PublishFences ==
    ASSUME TypeOK, TypeOK', DeliveriesFenced, NEW new \in Seq(EventRecord), NEW to,
           Publishes(new, to)
    PROVE  DeliveriesFenced'
<1>1. Publish(new, to)
  BY DEF Publishes
<1> SUFFICES ASSUME NEW k \in DOMAIN deliveries' PROVE Fenced(k)'
  BY DEF DeliveriesFenced, Fenced
<1>2. CASE k \in DOMAIN deliveries
  <2>1. PICK t : t = events[k[1]].target
    OBVIOUS
  <2>2. t \in Target /\ k[1] \in 1 .. Len(events)
    BY <1>2, <2>1, DeliveryTarget
  <2>3. events'[k[1]].target = t /\ deliveries'[k] = deliveries[k]
    BY <1>1, <1>2, <2>1, <2>2, PublishFacts
  <2>4. Present(t) /\ Fenced(k)
    BY <1>2, <2>1 DEF DeliveriesFenced, Fenced, Present
  <2>5. Present(t)' /\ dispatches'[t].session = dispatches[t].session
    BY <2>2, <2>4 DEF Publishes
  <2> QED BY <2>1, <2>3, <2>4, <2>5 DEF Fenced, Present
<1>3. CASE k \notin DOMAIN deliveries
  <2>1. PICK i : i = k[1] - Len(events)
    OBVIOUS
  <2>2. /\ Len(events) \in Nat /\ Len(new) \in Nat /\ Len(events') = Len(events) + Len(new)
        /\ k[1] \in Len(events) + 1 .. Len(events')
        /\ deliveries'[k] = NewDelivery(k)
        /\ \A j \in 1 .. Len(new) : events'[Len(events) + j] = new[j]
    BY <1>1, <1>3, PublishFacts
  <2>3. i \in 1 .. Len(new) /\ k[1] = Len(events) + i
    BY <2>1, <2>2
  <2>4. events'[k[1]] = new[i]
    BY <2>2, <2>3
  <2>5. dispatches'[events'[k[1]].target].state # "absent"
    BY <2>3, <2>4 DEF Publishes, Present
  <2>6. /\ deliveries'[k].session = IF k[2] = WorkerOf[events'[k[1]].target]
                                    THEN dispatches'[events'[k[1]].target].session ELSE None
        /\ deliveries'[k].wake.state = "none"
    BY <2>2 DEF NewDelivery, NoWake
  <2> QED BY <2>5, <2>6 DEF Fenced
<1> QED BY <1>2, <1>3

(* A wake keeps the deliveries fenced: only a capable endpoint's wake leaves "queued". *)
LEMMA WakeFences ==
    ASSUME TypeOK, DeliveriesFenced, NEW r \in WakeRequests, TransitionWake(r)
    PROVE  DeliveriesFenced'
<1> SUFFICES ASSUME NEW k \in DOMAIN deliveries' PROVE Fenced(k)'
  BY DEF DeliveriesFenced, Fenced
<1>1. /\ k \in DOMAIN deliveries
      /\ dispatches' = dispatches /\ events' = events
      /\ k # r.receipt => deliveries'[k] = deliveries[k]
      /\ deliveries'[r.receipt].session = deliveries[r.receipt].session
      /\ deliveries'[r.receipt].wake = WakeReplacement(r.kind, r.capable, r.outcome, r.at)
  BY WakeFacts
<1>2. Fenced(k)
  BY <1>1 DEF DeliveriesFenced, Fenced
<1>3. CASE k # r.receipt
  BY <1>1, <1>2, <1>3 DEF Fenced
<1>4. CASE k = r.receipt
  <2>1. PICK t : t = events[k[1]].target
    OBVIOUS
  <2>2. /\ deliveries[k].session # None
        /\ r.kind # "request" => r.capable
        /\ r.capable = (deliveries[k].session # None /\ t \in Wakeable)
    BY <1>4, <2>1 DEF TransitionWake, WakeAdmitted
  <2>3. k[2] = WorkerOf[t]
    BY <1>2, <2>1, <2>2 DEF Fenced
  <2>4. r.kind \in WakeKinds
    BY RequestsAssumption
  <2>5. deliveries'[k].wake.state \in {"pending", "uncertain", "triggered"} => t \in Wakeable
    <3>1. deliveries'[k].wake = WakeReplacement(r.kind, r.capable, r.outcome, r.at)
      BY <1>1, <1>4
    <3>2. CASE r.capable
      BY <2>2, <3>2
    <3>3. CASE ~r.capable
      <4>1. r.kind = "request"
        BY <2>2, <3>3
      <4>2. deliveries'[k].wake.state = "queued"
        BY <3>1, <3>3, <4>1 DEF WakeReplacement
      <4> QED BY <4>2
    <3> QED BY <3>2, <3>3
  <2> QED BY <1>1, <1>2, <1>4, <2>1, <2>3, <2>5 DEF Fenced
<1> QED BY <1>3, <1>4

(* Every operation keeps the deliveries fenced. *)
LEMMA NextFenced == TypeOK /\ DeliveriesFenced /\ [Next]_vars => DeliveriesFenced'
<1> SUFFICES ASSUME TypeOK, DeliveriesFenced, [Next]_vars PROVE DeliveriesFenced'
  OBVIOUS
<1>1. TypeOK'
  BY NextType
<1>2. ASSUME NEW new \in Seq(EventRecord), NEW to, Publishes(new, to) PROVE DeliveriesFenced'
  BY <1>1, <1>2, PublishFences
<1>3. ASSUME NEW r \in ReadRequests, ReadEvents(r) PROVE DeliveriesFenced'
  BY <1>3, ReadFacts DEF DeliveriesFenced
<1>4. ASSUME NEW r \in WakeRequests, TransitionWake(r) PROVE DeliveriesFenced'
  BY <1>4, WakeFences
<1>5. ASSUME NEW S, NEW s, MoveSessions(S, s) PROVE DeliveriesFenced'
  <2> SUFFICES ASSUME NEW k \in DOMAIN deliveries' PROVE Fenced(k)'
    BY DEF DeliveriesFenced, Fenced
  <2>1. k \in DOMAIN deliveries
    BY <1>5, MoveFacts
  <2>2. PICK t : t = events[k[1]].target
    OBVIOUS
  <2>3. t \in Target /\ Fenced(k)
    BY <2>1, <2>2, DeliveryTarget DEF DeliveriesFenced, Fenced
  <2>4. /\ events' = events
        /\ dispatches'[t].state = dispatches[t].state
        /\ dispatches'[t].session = IF t \in S THEN s ELSE dispatches[t].session
        /\ deliveries'[k].wake = deliveries[k].wake
        /\ deliveries'[k].session =
             IF t \in S /\ k[2] = WorkerOf[t] THEN s ELSE deliveries[k].session
    BY <1>5, <2>1, <2>2, <2>3, MoveFacts
  <2> QED BY <2>2, <2>3, <2>4 DEF Fenced
<1>6. CASE UNCHANGED vars
  BY <1>6 DEF vars, DeliveriesFenced
<1> QED BY <1>2, <1>3, <1>4, <1>5, <1>6, Steps

(* Every delivery names the endpoint its worker has now, through any sequence of requests, *)
(* wakes and rebinds, and only one that can be woken is being woken: what                  *)
(* StoreState::validate asks of deliveries before every load and commit always holds.      *)
THEOREM DeliveriesAreFenced == Spec => []DeliveriesFenced
<1>1. Init => DeliveriesFenced
  BY DEF Init, DeliveriesFenced, EmptyMap
<1> QED BY <1>1, NextFenced, TypeCorrect, PTL DEF Spec

-----------------------------------------------------------------------------
(* Answers reach the worker.  That the worker has the answer in its inbox    *)
(* is inductive; that the delivery is under the worker's present endpoint is  *)
(* what DeliveriesFenced says of it.                                          *)

\* The worker of every answered decision has the answer in its inbox.
AnswersQueued ==
    \A c \in DOMAIN events :
        events[c].kind = "decision_answered" =>
            <<c, WorkerOf[events[c].target]>> \in DOMAIN deliveries

(* Every operation keeps the answers in the inbox of the worker. *)
LEMMA NextQueued == TypeOK /\ AnswersQueued /\ [Next]_vars => AnswersQueued'
<1> SUFFICES ASSUME TypeOK, AnswersQueued, [Next]_vars PROVE AnswersQueued'
  OBVIOUS
<1>1. ASSUME NEW new \in Seq(EventRecord), NEW to, Publishes(new, to),
             \A i \in 1 .. Len(new) :
               new[i].kind = "decision_answered" => WorkerOf[new[i].target] \in to[i]
      PROVE  AnswersQueued'
  <2>1. Publish(new, to)
    BY <1>1 DEF Publishes
  <2>2. /\ Len(events) \in Nat /\ Len(new) \in Nat
        /\ Len(events') = Len(events) + Len(new)
        /\ DOMAIN events = 1 .. Len(events)
        /\ DOMAIN events' = 1 .. Len(events')
        /\ \A c \in 1 .. Len(events) : events'[c] = events[c]
        /\ \A i \in 1 .. Len(new) : events'[Len(events) + i] = new[i]
        /\ DOMAIN deliveries \subseteq DOMAIN deliveries'
        /\ \A i \in 1 .. Len(new) : \A p \in Participant :
             p \in to[i] => <<Len(events) + i, p>> \in DOMAIN deliveries'
    BY <2>1, PublishFacts
  <2> SUFFICES ASSUME NEW c \in DOMAIN events', events'[c].kind = "decision_answered"
               PROVE  <<c, WorkerOf[events'[c].target]>> \in DOMAIN deliveries'
    BY DEF AnswersQueued
  <2>3. CASE c \in 1 .. Len(events)
    BY <2>2, <2>3 DEF AnswersQueued
  <2>4. CASE c \notin 1 .. Len(events)
    <3>1. PICK i : i = c - Len(events)
      OBVIOUS
    <3>2. i \in 1 .. Len(new) /\ c = Len(events) + i
      BY <2>2, <2>4, <3>1
    <3>3. events'[c] = new[i] /\ WorkerOf[new[i].target] \in to[i]
      BY <1>1, <2>2, <3>2
    <3>4. new[i].target \in Target
      <4>1. new[i] \in EventRecord
        BY <3>2
      <4> QED BY <4>1 DEF EventRecord
    <3>5. WorkerOf[new[i].target] \in Participant
      BY <3>4, RolesAssumption
    <3>6. <<Len(events) + i, WorkerOf[new[i].target]>> \in DOMAIN deliveries'
      BY <2>2, <3>2, <3>3, <3>5
    <3> QED BY <3>2, <3>3, <3>6
  <2> QED BY <2>3, <2>4
<1>2. CASE \/ \E r \in ReadRequests : ReadEvents(r)
           \/ \E r \in WakeRequests : TransitionWake(r)
           \/ \E S, s : MoveSessions(S, s)
           \/ UNCHANGED vars
  <2>1. events' = events /\ DOMAIN deliveries' = DOMAIN deliveries
    BY <1>2, ReadFacts, WakeFacts, MoveFacts DEF vars
  <2> QED BY <2>1 DEF AnswersQueued
<1> QED BY <1>1, <1>2, Steps

(* A worker whose decision was answered has the answer in its inbox, under the endpoint it *)
(* has now: for any audience of the decision and any rebind between the answer and the read. *)
THEOREM AnswersReachWorkers == Spec => []AnswerReachesWorker
<1>1. Init => AnswersQueued
  BY DEF Init, AnswersQueued
<1>2. TypeOK /\ AnswersQueued /\ DeliveriesFenced => AnswerReachesWorker
  <2> SUFFICES ASSUME TypeOK, AnswersQueued, DeliveriesFenced,
                      NEW c \in DOMAIN events, events[c].kind = "decision_answered"
               PROVE  LET t == events[c].target
                      IN  /\ <<c, WorkerOf[t]>> \in DOMAIN deliveries
                          /\ deliveries[<<c, WorkerOf[t]>>].session = dispatches[t].session
    BY DEF AnswerReachesWorker
  <2>1. PICK k : k = <<c, WorkerOf[events[c].target]>>
    OBVIOUS
  <2>2. k \in DOMAIN deliveries /\ k[1] = c /\ k[2] = WorkerOf[events[c].target]
    BY <2>1 DEF AnswersQueued
  <2>3. deliveries[k].session = dispatches[events[c].target].session
    BY <2>2 DEF DeliveriesFenced
  <2> QED BY <2>1, <2>2, <2>3
<1> QED BY <1>1, <1>2, NextQueued, TypeCorrect, DeliveriesAreFenced, PTL DEF Spec

-----------------------------------------------------------------------------
(* Acknowledgement is a prefix.  The invariant is inductive relative to      *)
(* DeliveriesFenced: the deliveries of one participant on one dispatch have   *)
(* the same endpoint, so one read's inbox holds all of them or none.          *)

(* A read acknowledges a prefix of the inbox of each dispatch. *)
LEMMA ReadAcknowledgesPrefix ==
    ASSUME TypeOK, DeliveriesFenced, AcknowledgedPrefix, NEW r \in ReadRequests, ReadEvents(r)
    PROVE  AcknowledgedPrefix'
<1>1. /\ DOMAIN deliveries' = DOMAIN deliveries
      /\ events' = events
      /\ \A k \in DOMAIN deliveries :
           deliveries'[k].state = IF k \in Acknowledged(r) THEN "acknowledged"
                                  ELSE IF k \in NewlyObserved(r) THEN "observed"
                                  ELSE deliveries[k].state
  BY ReadFacts
<1> SUFFICES ASSUME NEW k \in DOMAIN deliveries, NEW l \in DOMAIN deliveries,
                    k[2] = l[2], k[1] < l[1], events[k[1]].target = events[l[1]].target,
                    deliveries'[l].state = "acknowledged"
             PROVE  deliveries'[k].state = "acknowledged"
  BY <1>1 DEF AcknowledgedPrefix
<1>2. CASE l \in Acknowledged(r)
  <2>1. r.ack # None /\ l \in Inbox(r) /\ l[1] <= r.ack.through
    BY <1>2 DEF Acknowledged
  <2>2. \E j \in DOMAIN deliveries : j[1] = r.ack.through
    BY <2>1 DEF ReadEvents, AckAdmitted, Inbox
  <2>3. r.ack.through \in Nat /\ k[1] \in Nat /\ l[1] \in Nat
    BY <2>2, DeliveryTarget
  <2>4. k[1] <= r.ack.through
    BY <2>1, <2>3
  <2>5. deliveries[k].session = deliveries[l].session
    BY DEF DeliveriesFenced
  <2>6. k \in Inbox(r)
    BY <2>1, <2>5 DEF Inbox
  <2>7. k \in Acknowledged(r)
    BY <2>1, <2>4, <2>6 DEF Acknowledged
  <2> QED BY <1>1, <2>7
<1>3. CASE l \notin Acknowledged(r)
  <2>1. deliveries[l].state = "acknowledged"
    BY <1>1, <1>3
  <2>2. deliveries[k].state = "acknowledged"
    BY <2>1 DEF AcknowledgedPrefix
  <2>3. k \notin NewlyObserved(r)
    BY <2>2 DEF NewlyObserved
  <2> QED BY <1>1, <2>2, <2>3
<1> QED BY <1>2, <1>3

(* Every operation keeps acknowledgement a prefix: what is new lies behind it, unread. *)
LEMMA NextPrefix ==
    TypeOK /\ DeliveriesFenced /\ AcknowledgedPrefix /\ [Next]_vars => AcknowledgedPrefix'
<1> SUFFICES ASSUME TypeOK, DeliveriesFenced, AcknowledgedPrefix, [Next]_vars
             PROVE  AcknowledgedPrefix'
  OBVIOUS
<1>1. ASSUME NEW new \in Seq(EventRecord), NEW to, Publishes(new, to) PROVE AcknowledgedPrefix'
  <2>1. Publish(new, to)
    BY <1>1 DEF Publishes
  <2>2. /\ Len(events) \in Nat /\ Len(events') \in Nat
        /\ \A c \in 1 .. Len(events) : events'[c] = events[c]
        /\ \A k \in DOMAIN deliveries : deliveries'[k] = deliveries[k]
        /\ \A k \in DOMAIN deliveries' \ DOMAIN deliveries :
             /\ k[1] \in Len(events) + 1 .. Len(events')
             /\ deliveries'[k] = NewDelivery(k)
    BY <2>1, PublishFacts
  <2> SUFFICES ASSUME NEW k \in DOMAIN deliveries', NEW l \in DOMAIN deliveries',
                      k[2] = l[2], k[1] < l[1], events'[k[1]].target = events'[l[1]].target,
                      deliveries'[l].state = "acknowledged"
               PROVE  deliveries'[k].state = "acknowledged"
    BY DEF AcknowledgedPrefix
  <2>3. l \in DOMAIN deliveries
    BY <2>2 DEF NewDelivery
  <2>4. l[1] \in 1 .. Len(events)
    BY <2>3, DeliveryTarget
  <2>5. k \in DOMAIN deliveries
    BY <2>2, <2>4
  <2>6. k[1] \in 1 .. Len(events)
    BY <2>5, DeliveryTarget
  <2> QED BY <2>2, <2>3, <2>4, <2>5, <2>6 DEF AcknowledgedPrefix
<1>2. ASSUME NEW r \in ReadRequests, ReadEvents(r) PROVE AcknowledgedPrefix'
  BY <1>2, ReadAcknowledgesPrefix
<1>3. CASE \/ \E r \in WakeRequests : TransitionWake(r)
           \/ \E S, s : MoveSessions(S, s)
           \/ UNCHANGED vars
  <2>1. /\ events' = events
        /\ DOMAIN deliveries' = DOMAIN deliveries
        /\ \A k \in DOMAIN deliveries : deliveries'[k].state = deliveries[k].state
    BY <1>3, WakeFacts, MoveFacts DEF vars
  <2> QED BY <2>1 DEF AcknowledgedPrefix
<1> QED BY <1>1, <1>2, <1>3, Steps

(* What came before an acknowledged delivery is acknowledged, for any pages, keys and *)
(* rebinds: the cumulative acknowledgement of read_events leaves no gaps.             *)
THEOREM AcknowledgementIsAPrefix == Spec => []AcknowledgedPrefix
<1>1. Init => AcknowledgedPrefix
  BY DEF Init, AcknowledgedPrefix, EmptyMap
<1> QED BY <1>1, NextPrefix, TypeCorrect, DeliveriesAreFenced, PTL DEF Spec

-----------------------------------------------------------------------------
(* Action properties of the inbox and the receipts. *)

(* A wake transition settles an uncertain wake and leaves a triggered one alone. *)
LEMMA WakeSettles ==
    ASSUME TypeOK, NEW r \in WakeRequests, TransitionWake(r)
    PROVE  LET old == deliveries[r.receipt].wake
               new == deliveries'[r.receipt].wake
           IN  /\ old.state # "triggered"
               /\ old.state = "uncertain" => new.state \in {"triggered", "queued"}
               /\ old.state = "queued" => /\ new.state = "uncertain"
                                          /\ deliveries[r.receipt].state = "queued"
<1>1. /\ WakeApplies(deliveries[r.receipt].wake, deliveries[r.receipt].state = "queued", r.kind)
      /\ r.kind \in WakeKinds
  BY RequestsAssumption DEF TransitionWake, WakeAdmitted
<1>2. deliveries'[r.receipt].wake = WakeReplacement(r.kind, r.capable, r.outcome, r.at)
  BY WakeFacts
<1>3. /\ r.kind = "claim" => deliveries'[r.receipt].wake.state = "uncertain"
      /\ r.kind \in {"triggered", "queued"} => deliveries'[r.receipt].wake.state = r.kind
  BY <1>2 DEF WakeReplacement
<1> QED BY <1>1, <1>3 DEF WakeApplies, WakeKinds

(* A wake that may have been written is settled and never claimed again, and a triggered *)
(* one keeps its effect, whatever else happens to the delivery.                          *)
THEOREM UncertainWakesAreSettled == Spec => UncertainWakeIsSettled
<1>1. TypeOK /\ [Next]_vars =>
        [\A k \in DOMAIN deliveries :
          LET old == deliveries[k].wake
              new == deliveries'[k].wake
          IN  /\ old.state = "triggered" => new = old
              /\ old.state = "uncertain" => \/ new = old
                                            \/ new.state \in {"triggered", "queued"}
              /\ old.state = "queued" /\ new # old => /\ new.state = "uncertain"
                                                      /\ deliveries[k].state = "queued"]_vars
  <2> SUFFICES ASSUME TypeOK, [Next]_vars, NEW k \in DOMAIN deliveries
               PROVE  LET old == deliveries[k].wake
                          new == deliveries'[k].wake
                      IN  /\ old.state = "triggered" => new = old
                          /\ old.state = "uncertain" => \/ new = old
                                                        \/ new.state \in {"triggered", "queued"}
                          /\ old.state = "queued" /\ new # old =>
                               /\ new.state = "uncertain"
                               /\ deliveries[k].state = "queued"
    OBVIOUS
  <2>1. CASE \E r \in WakeRequests : TransitionWake(r)
    <3>1. PICK r \in WakeRequests : TransitionWake(r)
      BY <2>1
    <3>2. k # r.receipt => deliveries'[k] = deliveries[k]
      BY <3>1, WakeFacts
    <3> QED BY <3>1, <3>2, WakeSettles
  <2>2. CASE \/ \E new, to : new \in Seq(EventRecord) /\ Publishes(new, to)
             \/ \E r \in ReadRequests : ReadEvents(r)
             \/ \E S, s : MoveSessions(S, s)
             \/ UNCHANGED vars
    <3>1. deliveries'[k].wake = deliveries[k].wake
      BY <2>2, PublishFacts, ReadFacts, MoveFacts DEF Publishes, vars
    <3> QED BY <3>1
  <2> QED BY <2>1, <2>2, Steps
<1> QED BY <1>1, TypeCorrect, PTL DEF Spec, UncertainWakeIsSettled

(* A completed dispatch is neither revised, reopened nor given a deadline. *)
LEMMA CompletedStays ==
    ASSUME TypeOK, [Next]_vars, NEW t \in Target, dispatches[t].state = "completed"
    PROVE  dispatches'[t] = [dispatches[t] EXCEPT !.session = dispatches'[t].session]
<1>1. dispatches \in [Target -> DispatchRecord] /\ dispatches[t] \in DispatchRecord
  BY DEF TypeOK
<1>2. CASE dispatches'[t] = dispatches[t]
  BY <1>1, <1>2 DEF DispatchRecord
<1>3. ASSUME NEW r, \/ r \in CreateRequests /\ CreateRun(r)
                    \/ r \in OpenRequests /\ OpenDecision(r)
                    \/ r \in AnswerRequests /\ Answer(r)
                    \/ r \in CompleteRequests /\ Complete(r)
                    \/ r \in DeadlineRequests /\ SetDeadline(r)
      PROVE  dispatches'[t] = dispatches[t]
  <2>1. dispatches[r.target].state # "completed"
    BY <1>3 DEF CreateRun, OpenDecision, Answer, AnswerAdmitted, Complete, CompleteAdmitted,
                SetDeadline, Unfinished
  <2>2. \E d : dispatches' = [dispatches EXCEPT ![r.target] = d]
    BY <1>3 DEF CreateRun, OpenDecision, Answer, Complete, SetDeadline
  <2> QED BY <1>1, <2>1, <2>2
<1>4. ASSUME NEW now \in Instant, ExpireDeadlines(now) PROVE dispatches'[t] = dispatches[t]
  BY <1>4 DEF ExpireDeadlines, Overdue, Unfinished
<1>5. CASE \E S, s : MoveSessions(S, s)
  BY <1>5, MoveFacts
<1>6. CASE \/ \E r \in OpenRequests : OpenMessage(r)
           \/ \E r \in ReadRequests : ReadEvents(r)
           \/ \E r \in WakeRequests : TransitionWake(r)
           \/ UNCHANGED vars
  BY <1>2, <1>6 DEF OpenMessage, ReadEvents, TransitionWake, vars
<1> QED BY <1>2, <1>3, <1>4, <1>5, <1>6 DEF Next, RebindSession, ReconcileSession

(* Every step accepts one request, reports what is overdue, or leaves the log and the *)
(* receipts alone.                                                                    *)
LEMMA LogSteps ==
    ASSUME TypeOK, [Next]_vars
    PROVE  \/ \E r \in AllRequests : \E new, to :
                new \in Seq(EventRecord) /\ Accepts(r, new, to) /\ UNCHANGED ackIdempotency
           \/ \E now \in Instant : ExpireDeadlines(now)
           \/ UNCHANGED <<events, idempotency>>
<1>1. ASSUME NEW r \in CreateRequests, CreateRun(r)
      PROVE  /\ r \in AllRequests /\ UNCHANGED ackIdempotency
             /\ \E new, to : new \in Seq(EventRecord) /\ Accepts(r, new, to)
  BY <1>1, CreateAccepts DEF AllRequests, CreateRun
<1>2. ASSUME NEW r \in OpenRequests, OpenMessage(r) \/ OpenDecision(r)
      PROVE  /\ r \in AllRequests /\ UNCHANGED ackIdempotency
             /\ \E new, to : new \in Seq(EventRecord) /\ Accepts(r, new, to)
  BY <1>2, OpenMessageAccepts, OpenDecisionAccepts DEF AllRequests, OpenMessage, OpenDecision
<1>3. ASSUME NEW r \in AnswerRequests, Answer(r)
      PROVE  /\ r \in AllRequests /\ UNCHANGED ackIdempotency
             /\ \E new, to : new \in Seq(EventRecord) /\ Accepts(r, new, to)
  BY <1>3, AnswerAccepts DEF AllRequests, Answer
<1>4. ASSUME NEW r \in CompleteRequests, Complete(r)
      PROVE  /\ r \in AllRequests /\ UNCHANGED ackIdempotency
             /\ \E new, to : new \in Seq(EventRecord) /\ Accepts(r, new, to)
  BY <1>4, CompleteAccepts DEF AllRequests, Complete
<1>5. ASSUME NEW r \in DeadlineRequests, SetDeadline(r)
      PROVE  /\ r \in AllRequests /\ UNCHANGED ackIdempotency
             /\ \E new, to : new \in Seq(EventRecord) /\ Accepts(r, new, to)
  BY <1>5, SetDeadlineAccepts DEF AllRequests, SetDeadline
<1>6. CASE \/ \E r \in ReadRequests : ReadEvents(r)
           \/ \E r \in WakeRequests : TransitionWake(r)
           \/ \E S, s : MoveSessions(S, s)
           \/ UNCHANGED vars
  <2>1. UNCHANGED <<events, idempotency>>
    BY <1>6 DEF ReadEvents, TransitionWake, MoveSessions, vars
  <2> QED BY <2>1
<1> QED
  BY <1>1, <1>2, <1>3, <1>4, <1>5, <1>6 DEF Next, RebindSession, ReconcileSession

(* The receipt of an accepted request is added to the others and replaces none. *)
LEMMA AcceptFacts ==
    ASSUME TypeOK, NEW r, NEW new \in Seq(EventRecord), NEW to, Accepts(r, new, to)
    PROVE  /\ OperationKey(r) \notin DOMAIN idempotency
           /\ DOMAIN idempotency' = DOMAIN idempotency \cup {OperationKey(r)}
           /\ \A k \in DOMAIN idempotency : idempotency'[k] = idempotency[k]
           /\ idempotency'[OperationKey(r)].request = r
           /\ idempotency'[OperationKey(r)].first = Len(events) + 1
           /\ idempotency'[OperationKey(r)].last = Len(events')
<1>1. Publish(new, to)
  BY DEF Accepts, Publishes
<1>2. Len(events') = Len(events) + Len(new)
  BY <1>1, PublishFacts
<1> QED BY <1>2 DEF Accepts, Fresh, Remember, Put, NextCursor

(* Receipts and acknowledgements are never replaced or forgotten. *)
LEMMA ReceiptsStay ==
    ASSUME TypeOK, [Next]_vars
    PROVE  /\ \A k \in DOMAIN idempotency :
                k \in DOMAIN idempotency' /\ idempotency'[k] = idempotency[k]
           /\ \A k \in DOMAIN ackIdempotency :
                k \in DOMAIN ackIdempotency' /\ ackIdempotency'[k] = ackIdempotency[k]
<1>1. \A k \in DOMAIN idempotency : k \in DOMAIN idempotency' /\ idempotency'[k] = idempotency[k]
  <2>1. ASSUME NEW now \in Instant, ExpireDeadlines(now) PROVE UNCHANGED idempotency
    BY <2>1 DEF ExpireDeadlines
  <2> QED BY <2>1, LogSteps, AcceptFacts
<1>2. ASSUME NEW r \in ReadRequests, ReadEvents(r), NEW k \in DOMAIN ackIdempotency
      PROVE  k \in DOMAIN ackIdempotency' /\ ackIdempotency'[k] = ackIdempotency[k]
  <2>1. CASE r.ack = None
    BY <1>2, <2>1 DEF ReadEvents
  <2>2. CASE r.ack # None
    <3>1. /\ ackIdempotency' = Put(ackIdempotency, AckKey(r), r)
          /\ AckKey(r) \in DOMAIN ackIdempotency => ackIdempotency[AckKey(r)] = r
      BY <1>2, <2>2 DEF ReadEvents, AckAdmitted
    <3> QED BY <1>2, <3>1 DEF Put
  <2> QED BY <2>1, <2>2
<1>3. CASE UNCHANGED ackIdempotency
  BY <1>1, <1>3
<1>4. (\E r \in ReadRequests : ReadEvents(r)) \/ UNCHANGED ackIdempotency
  BY DEF Next, vars, CreateRun, OpenMessage, OpenDecision, Answer, Complete, SetDeadline,
         ExpireDeadlines, TransitionWake, RebindSession, ReconcileSession, MoveSessions
<1> QED BY <1>1, <1>2, <1>3, <1>4

(* A delivery never goes back to an earlier state. *)
LEMMA DeliveriesAdvance ==
    ASSUME TypeOK, [Next]_vars, NEW k \in DOMAIN deliveries
    PROVE  /\ k \in DOMAIN deliveries'
           /\ DeliveryRank(deliveries[k].state) <= DeliveryRank(deliveries'[k].state)
<1>1. deliveries[k].state \in DeliveryStates
  BY DEF TypeOK, DeliveryEntry
<1>2. CASE k \in DOMAIN deliveries' /\ deliveries'[k].state = deliveries[k].state
  BY <1>1, <1>2 DEF DeliveryStates, DeliveryRank
<1>3. ASSUME NEW r \in ReadRequests, ReadEvents(r)
      PROVE  /\ k \in DOMAIN deliveries'
             /\ DeliveryRank(deliveries[k].state) <= DeliveryRank(deliveries'[k].state)
  <2>1. /\ k \in DOMAIN deliveries'
        /\ \/ deliveries'[k].state = "acknowledged"
           \/ deliveries'[k].state = "observed" /\ deliveries[k].state = "queued"
           \/ deliveries'[k].state = deliveries[k].state
    BY <1>3, ReadFacts DEF NewlyObserved
  <2> QED BY <1>1, <2>1 DEF DeliveryStates, DeliveryRank
<1>4. CASE \/ \E new, to : new \in Seq(EventRecord) /\ Publishes(new, to)
           \/ \E r \in WakeRequests : TransitionWake(r)
           \/ \E S, s : MoveSessions(S, s)
           \/ UNCHANGED vars
  <2>1. k \in DOMAIN deliveries' /\ deliveries'[k].state = deliveries[k].state
    BY <1>4, PublishFacts, WakeFacts, MoveFacts DEF Publishes, vars
  <2> QED BY <1>2, <2>1
<1> QED BY <1>3, <1>4, Steps

(* What the store has told somebody stays so, whatever the requests and their order: a     *)
(* completed dispatch, a remembered receipt and the progress of a delivery are permanent. *)
THEOREM HistoryStays == Spec => HistoryIsPermanent
<1>1. TypeOK /\ [Next]_vars =>
        [/\ \A t \in Target : dispatches[t].state = "completed" =>
              dispatches'[t] = [dispatches[t] EXCEPT !.session = dispatches'[t].session]
         /\ \A k \in DOMAIN idempotency :
              k \in DOMAIN idempotency' /\ idempotency'[k] = idempotency[k]
         /\ \A k \in DOMAIN ackIdempotency :
              k \in DOMAIN ackIdempotency' /\ ackIdempotency'[k] = ackIdempotency[k]
         /\ \A k \in DOMAIN deliveries :
              /\ k \in DOMAIN deliveries'
              /\ DeliveryRank(deliveries[k].state) <= DeliveryRank(deliveries'[k].state)]_vars
  BY CompletedStays, ReceiptsStay, DeliveriesAdvance
<1> QED BY <1>1, TypeCorrect, PTL DEF Spec, HistoryIsPermanent

-----------------------------------------------------------------------------
(* Every event is accounted for.  EventsAccounted needs to know that no      *)
(* receipt claims a cursor the log has not reached, or the next event could   *)
(* have a producer already.                                                   *)

\* Receipts cover events of the log only.
ReceiptsWithin == \A k \in DOMAIN idempotency : idempotency[k].last <= Len(events)

(* The events an accepted request appends are its own, and those before keep theirs. *)
LEMMA AcceptProducers ==
    ASSUME TypeOK, ReceiptsWithin, NEW r, NEW new \in Seq(EventRecord), NEW to, Accepts(r, new, to)
    PROVE  /\ ReceiptsWithin'
           /\ \A c \in 1 .. Len(events) : Producers(c)' = Producers(c)
           /\ \A c \in 1 .. Len(events') : c \notin 1 .. Len(events) =>
                /\ Producers(c)' = {OperationKey(r)}
                /\ events'[c].target = r.target
<1>1. Publish(new, to)
  BY DEF Accepts, Publishes
<1>2. /\ Len(events) \in Nat /\ Len(new) \in Nat
      /\ Len(events') = Len(events) + Len(new)
      /\ \A i \in 1 .. Len(new) : events'[Len(events) + i] = new[i]
  BY <1>1, PublishFacts
<1>3. PICK key : key = OperationKey(r)
  OBVIOUS
<1>4. /\ key \notin DOMAIN idempotency
      /\ DOMAIN idempotency' = DOMAIN idempotency \cup {key}
      /\ \A k \in DOMAIN idempotency : idempotency'[k] = idempotency[k]
      /\ idempotency'[key].first = Len(events) + 1
      /\ idempotency'[key].last = Len(events')
  BY <1>3, AcceptFacts
<1>5. \A k \in DOMAIN idempotency : /\ idempotency[k].first \in Nat
                                    /\ idempotency[k].last \in Nat
                                    /\ idempotency[k].last <= Len(events)
  BY DEF TypeOK, Receipt, Cursor, ReceiptsWithin
<1>6. ReceiptsWithin'
  BY <1>2, <1>4, <1>5 DEF ReceiptsWithin
<1>7. \A c \in 1 .. Len(events) : Producers(c)' = Producers(c)
  BY <1>2, <1>4, <1>5 DEF Producers
<1>8. ASSUME NEW c \in 1 .. Len(events'), c \notin 1 .. Len(events)
      PROVE  Producers(c)' = {key} /\ events'[c].target = r.target
  <2>1. Producers(c)' = {key}
    BY <1>2, <1>4, <1>5, <1>8 DEF Producers
  <2>2. PICK i : i = c - Len(events)
    OBVIOUS
  <2>3. i \in 1 .. Len(new) /\ c = Len(events) + i
    BY <1>2, <1>8, <2>2
  <2>4. events'[c] = new[i]
    BY <1>2, <2>3
  <2> QED BY <2>1, <2>3, <2>4 DEF Accepts
<1> QED BY <1>3, <1>6, <1>7, <1>8

(* The reports of a tick have no producer, and the events before keep theirs. *)
LEMMA ReportProducers ==
    ASSUME TypeOK, ReceiptsWithin, NEW now \in Instant, NEW n \in Nat,
           NEW order \in [1 .. n -> Target], NEW new, Reports(n, order, new),
           \A i \in 1 .. n : Overdue(order[i], now)
    PROVE  /\ ReceiptsWithin'
           /\ Len(events) \in Nat /\ Len(events') = Len(events) + n
           /\ DOMAIN events = 1 .. Len(events) /\ DOMAIN events' = 1 .. Len(events')
           /\ \A c \in 1 .. Len(events) : events'[c] = events[c] /\ Producers(c)' = Producers(c)
           /\ \A i \in 1 .. n : \A c : c = Len(events) + i =>
                events'[c].target = order[i] /\ events'[c].id = DeadlineId(c) /\ Producers(c)' = {}
<1>1. /\ new \in Seq(EventRecord)
      /\ Len(new) = n
      /\ \A i \in 1 .. n : /\ new[i].target = order[i]
                           /\ new[i].id = DeadlineId(Len(events) + i)
  BY ONLY TypeOK, now \in Instant, n \in Nat, order \in [1 .. n -> Target],
          Reports(n, order, new), \A i \in 1 .. n : Overdue(order[i], now), ReportsPublish
<1>2. PICK to : Publish(new, to)
  BY DEF Reports
<1>3. /\ Len(events) \in Nat
      /\ Len(events') = Len(events) + n
      /\ DOMAIN events = 1 .. Len(events) /\ DOMAIN events' = 1 .. Len(events')
      /\ \A c \in 1 .. Len(events) : events'[c] = events[c]
      /\ \A i \in 1 .. n : events'[Len(events) + i] = new[i]
  BY <1>1, <1>2, PublishFacts
<1>4. idempotency' = idempotency
  BY DEF Reports
<1>5. \A k \in DOMAIN idempotency : /\ idempotency[k].last \in Nat
                                    /\ idempotency[k].last <= Len(events)
  BY DEF TypeOK, Receipt, Cursor, ReceiptsWithin
<1>6. ReceiptsWithin'
  BY <1>3, <1>4, <1>5 DEF ReceiptsWithin
<1>7. \A c : Producers(c)' = Producers(c)
  BY <1>4 DEF Producers
<1>8. \A i \in 1 .. n : \A c : c = Len(events) + i => Producers(c) = {}
  BY <1>3, <1>5 DEF Producers
<1> QED BY <1>1, <1>3, <1>6, <1>7, <1>8

(* Every operation keeps the events accounted for. *)
LEMMA NextAccounted ==
    TypeOK /\ ReceiptsWithin /\ EventsAccounted /\ [Next]_vars =>
        ReceiptsWithin' /\ EventsAccounted'
<1> SUFFICES ASSUME TypeOK, ReceiptsWithin, EventsAccounted, [Next]_vars
             PROVE  ReceiptsWithin' /\ EventsAccounted'
  OBVIOUS
<1>1. ASSUME NEW r \in AllRequests, NEW new \in Seq(EventRecord), NEW to, Accepts(r, new, to)
      PROVE  ReceiptsWithin' /\ EventsAccounted'
  <2>1. /\ ReceiptsWithin'
        /\ \A c \in 1 .. Len(events) : Producers(c)' = Producers(c)
        /\ \A c \in 1 .. Len(events') : c \notin 1 .. Len(events) =>
             /\ Producers(c)' = {OperationKey(r)}
             /\ events'[c].target = r.target
    BY <1>1, AcceptProducers
  <2>2. /\ DOMAIN events = 1 .. Len(events) /\ DOMAIN events' = 1 .. Len(events')
        /\ \A c \in 1 .. Len(events) : events'[c] = events[c]
    BY <1>1, PublishFacts DEF Accepts, Publishes
  <2>3. /\ \A k \in DOMAIN idempotency : idempotency'[k] = idempotency[k]
        /\ idempotency'[OperationKey(r)].request = r
    BY <1>1, AcceptFacts
  <2> SUFFICES ASSUME NEW c \in DOMAIN events'
               PROVE  /\ \A k, l \in Producers(c)' : k = l
                      /\ \A k \in Producers(c)' : idempotency'[k].request.target = events'[c].target
                      /\ Producers(c)' = {} => events'[c].id = DeadlineId(c)
    BY <2>1 DEF EventsAccounted
  <2>4. CASE c \in 1 .. Len(events)
    <3>1. /\ \A k, l \in Producers(c) : k = l
          /\ \A k \in Producers(c) : idempotency[k].request.target = events[c].target
          /\ Producers(c) = {} => events[c].id = DeadlineId(c)
      BY <2>2, <2>4 DEF EventsAccounted
    <3>2. \A k \in Producers(c) : k \in DOMAIN idempotency
      BY DEF Producers
    <3> QED BY <2>1, <2>2, <2>3, <2>4, <3>1, <3>2
  <2>5. CASE c \notin 1 .. Len(events)
    <3>1. Producers(c)' = {OperationKey(r)} /\ events'[c].target = r.target
      BY <2>1, <2>2, <2>5
    <3> QED BY <2>3, <3>1
  <2> QED BY <2>4, <2>5
<1>2. ASSUME NEW now \in Instant, ExpireDeadlines(now) PROVE ReceiptsWithin' /\ EventsAccounted'
  <2>1. PICK n \in Nat : \E order \in [1 .. n -> Target], new \in Seq(EventRecord) :
          Reports(n, order, new) /\ \A i \in 1 .. n : Overdue(order[i], now)
    BY <1>2, ExpireReports
  <2>2. PICK order \in [1 .. n -> Target], new \in Seq(EventRecord) :
          Reports(n, order, new) /\ \A i \in 1 .. n : Overdue(order[i], now)
    BY <2>1
  <2>3. /\ ReceiptsWithin'
        /\ Len(events) \in Nat /\ Len(events') = Len(events) + n
        /\ DOMAIN events = 1 .. Len(events) /\ DOMAIN events' = 1 .. Len(events')
        /\ \A c \in 1 .. Len(events) : events'[c] = events[c] /\ Producers(c)' = Producers(c)
        /\ \A i \in 1 .. n : \A c : c = Len(events) + i =>
             events'[c].target = order[i] /\ events'[c].id = DeadlineId(c) /\ Producers(c)' = {}
    BY ONLY TypeOK, ReceiptsWithin, now \in Instant, n \in Nat, order \in [1 .. n -> Target],
            <2>2, ReportProducers
  <2>4. idempotency' = idempotency
    BY <2>2 DEF Reports
  <2> SUFFICES ASSUME NEW c \in DOMAIN events'
               PROVE  /\ \A k, l \in Producers(c)' : k = l
                      /\ \A k \in Producers(c)' : idempotency'[k].request.target = events'[c].target
                      /\ Producers(c)' = {} => events'[c].id = DeadlineId(c)
    BY <2>3 DEF EventsAccounted
  <2>5. CASE c \in 1 .. Len(events)
    BY <2>3, <2>4, <2>5 DEF EventsAccounted
  <2>6. CASE c \notin 1 .. Len(events)
    <3>1. PICK i \in 1 .. n : c = Len(events) + i
      <4>1. c - Len(events) \in 1 .. n /\ c = Len(events) + (c - Len(events))
        BY <2>3, <2>6
      <4> QED BY <4>1
    <3> QED BY <2>3, <3>1
  <2> QED BY <2>5, <2>6
<1>3. CASE UNCHANGED <<events, idempotency>>
  BY <1>3 DEF ReceiptsWithin, EventsAccounted, Producers
<1> QED BY <1>1, <1>2, <1>3, LogSteps

(* The seeded store has no receipt and no event. *)
LEMMA InitAccounted == Init => ReceiptsWithin /\ EventsAccounted
  BY DEF Init, ReceiptsWithin, EventsAccounted, EmptyMap

(* Receipts never run ahead of the log. *)
LEMMA ReceiptsStayWithin == Spec => [](ReceiptsWithin /\ EventsAccounted)
  BY InitAccounted, NextAccounted, TypeCorrect, PTL DEF Spec

(* Every event of the log is the effect of exactly one accepted request on its own dispatch *)
(* or an overdue report of the clock, for any requests and retries: none is logged twice.   *)
THEOREM EventsAreAccounted == Spec => []EventsAccounted
  BY ReceiptsStayWithin, PTL

-----------------------------------------------------------------------------
(* Nothing after completion.  The log and the dispatch agree on what is      *)
(* completed, what the log says was opened is known, and the id of a deadline *)
(* message is that of an event of the log, so the next one's is free.         *)

\* A dispatch whose completion is logged is completed.
CompletionsHold ==
    \A c \in DOMAIN events :
        events[c].kind = "dispatch_completed" => dispatches[events[c].target].state = "completed"

\* Every interaction that the log says was opened is recorded.
OpenedAreKnown ==
    \A c \in DOMAIN events :
        events[c].kind = "interaction_opened" => events[c].id \in DOMAIN interactions

\* A deadline message is that of an event of the log.
DeadlinesWithin ==
    \A c \in Nat : DeadlineId(c) \in DOMAIN interactions => c <= Len(events)

\* The log after a completion, with what keeps it so.
LogInv == CompletionsHold /\ OpenedAreKnown /\ DeadlinesWithin /\ NothingAfterCompletion

\* A step that appends the events of new: completions and interactions stay, and an event of
\* a completed dispatch is the opening of a message.
Appends(new) ==
    /\ \E to : Publish(new, to)
    /\ \A t \in Target : dispatches[t].state = "completed" => dispatches'[t].state = "completed"
    /\ \A id \in DOMAIN interactions : /\ id \in DOMAIN interactions'
                                       /\ interactions'[id].kind = interactions[id].kind
    /\ DeadlinesWithin'
    /\ \A i \in 1 .. Len(new) :
         /\ dispatches[new[i].target].state = "completed" =>
              /\ new[i].kind = "interaction_opened"
              /\ interactions'[new[i].id].kind = "message"
         /\ new[i].kind = "dispatch_completed" =>
              /\ Len(new) = 1
              /\ dispatches'[new[i].target].state = "completed"
         /\ new[i].kind = "interaction_opened" => new[i].id \in DOMAIN interactions'

(* Appending keeps the log's invariant. *)
LEMMA AppendsKeeps ==
    ASSUME TypeOK, LogInv, NEW new \in Seq(EventRecord), Appends(new)
    PROVE  LogInv'
<1>1. PICK to : Publish(new, to)
  BY DEF Appends
<1>2. /\ Len(events) \in Nat /\ Len(new) \in Nat
      /\ Len(events') = Len(events) + Len(new)
      /\ DOMAIN events = 1 .. Len(events)
      /\ DOMAIN events' = 1 .. Len(events')
      /\ \A c \in 1 .. Len(events) : events'[c] = events[c]
      /\ \A i \in 1 .. Len(new) : events'[Len(events) + i] = new[i]
  BY <1>1, PublishFacts
<1>3. \A c \in DOMAIN events : events[c].target \in Target
  <2>1. events \in Seq(EventRecord)
    BY DEF TypeOK
  <2>2. \A c \in DOMAIN events : events[c] \in EventRecord
    BY <1>2, <2>1
  <2> QED BY <2>2 DEF EventRecord
<1>4. ASSUME NEW c \in DOMAIN events'
      PROVE  \/ c \in DOMAIN events /\ events'[c] = events[c]
             \/ \E i \in 1 .. Len(new) : c = Len(events) + i /\ events'[c] = new[i]
  <2>1. CASE c \in 1 .. Len(events)
    BY <1>2, <2>1
  <2>2. CASE c \notin 1 .. Len(events)
    <3>1. c - Len(events) \in 1 .. Len(new) /\ c = Len(events) + (c - Len(events))
      BY <1>2, <2>2
    <3> QED BY <1>2, <3>1
  <2> QED BY <2>1, <2>2
<1>5. CompletionsHold'
  BY <1>3, <1>4 DEF Appends, LogInv, CompletionsHold
<1>6. OpenedAreKnown'
  BY <1>4 DEF Appends, LogInv, OpenedAreKnown
<1>7. NothingAfterCompletion'
  <2> SUFFICES ASSUME NEW c \in DOMAIN events', NEW d \in DOMAIN events',
                      events'[c].kind = "dispatch_completed", c < d,
                      events'[d].target = events'[c].target
               PROVE  /\ events'[d].kind = "interaction_opened"
                      /\ interactions'[events'[d].id].kind = "message"
    BY DEF NothingAfterCompletion
  <2>1. CASE d \in DOMAIN events
    <3>1. c \in DOMAIN events /\ events'[c] = events[c] /\ events'[d] = events[d]
      BY <1>2, <2>1
    <3>2. events[d].kind = "interaction_opened" /\ interactions[events[d].id].kind = "message"
      BY <2>1, <3>1 DEF LogInv, NothingAfterCompletion
    <3>3. events[d].id \in DOMAIN interactions
      BY <2>1, <3>2 DEF LogInv, OpenedAreKnown
    <3> QED BY <3>1, <3>2, <3>3 DEF Appends
  <2>2. CASE d \notin DOMAIN events
    <3>1. PICK j \in 1 .. Len(new) : d = Len(events) + j /\ events'[d] = new[j]
      BY <1>4, <2>2
    <3>2. CASE c \in DOMAIN events
      <4>1. events[c] = events'[c]
        BY <1>2, <3>2
      <4>2. dispatches[new[j].target].state = "completed"
        BY <3>1, <3>2, <4>1 DEF LogInv, CompletionsHold
      <4> QED BY <3>1, <4>2 DEF Appends
    <3>3. CASE c \notin DOMAIN events
      <4>1. PICK i \in 1 .. Len(new) : c = Len(events) + i /\ events'[c] = new[i]
        BY <1>4, <3>3
      <4>2. Len(new) = 1
        BY <4>1 DEF Appends
      <4> QED BY <1>2, <3>1, <4>1, <4>2
    <3> QED BY <3>2, <3>3
  <2> QED BY <2>1, <2>2
<1> QED BY <1>5, <1>6, <1>7 DEF Appends, LogInv

(* Inserting a record under a new id keeps the interactions there were. *)
LEMMA InsertKeeps ==
    ASSUME NEW id, id \notin DOMAIN interactions, NEW record,
           interactions' = Put(interactions, id, record)
    PROVE  /\ DOMAIN interactions' = DOMAIN interactions \cup {id}
           /\ interactions'[id] = record
           /\ \A i \in DOMAIN interactions : interactions'[i] = interactions[i]
  BY DEF Put

(* Deadline ids are those of their cursors, and no client's. *)
LEMMA DeadlineIdsDiffer ==
    /\ \A c, d \in Nat : DeadlineId(c) = DeadlineId(d) => c = d
    /\ \A c \in Nat : DeadlineId(c) \notin InteractionId
<1>1. \A c \in Nat : DeadlineId(c) \in {"deadline"} \X Nat /\ DeadlineId(c)[2] = c
  BY DEF DeadlineId
<1> QED BY <1>1, NamesAssumption

(* A request that inserts a client's interaction appends to the log as it should. *)
LEMMA ClientAppends ==
    ASSUME TypeOK, LogInv, NEW r, r.id \in InteractionId,
           \/ r \in OpenRequests /\ OpenMessage(r)
           \/ r \in OpenRequests /\ OpenDecision(r)
           \/ r \in CompleteRequests /\ Complete(r)
    PROVE  \E new \in Seq(EventRecord) : Appends(new)
<1>1. /\ r.target \in Target
      /\ dispatches \in [Target -> DispatchRecord]
      /\ dispatches[r.target] \in DispatchRecord
      /\ r.id \notin DOMAIN interactions
  BY RequestsAssumption
  DEF TypeOK, OpenMessage, OpenDecision, OpenAdmitted, Complete, CompleteAdmitted
<1>2. PICK record : interactions' = Put(interactions, r.id, record)
  BY DEF OpenMessage, OpenDecision, Complete
<1>3. /\ DOMAIN interactions' = DOMAIN interactions \cup {r.id}
      /\ interactions'[r.id] = record
      /\ \A i \in DOMAIN interactions : interactions'[i] = interactions[i]
  BY <1>1, <1>2, InsertKeeps
<1>4. ASSUME NEW new \in Seq(EventRecord), NEW to, Accepts(r, new, to) PROVE DeadlinesWithin'
  <2>1. Publish(new, to)
    BY <1>4 DEF Accepts, Publishes
  <2>2. Len(events) \in Nat /\ Len(events') = Len(events) + Len(new) /\ Len(new) \in Nat
    BY <2>1, PublishFacts
  <2>3. \A c \in Nat :
          DeadlineId(c) \in DOMAIN interactions' => DeadlineId(c) \in DOMAIN interactions
    BY <1>3, DeadlineIdsDiffer
  <2> QED BY <2>2, <2>3 DEF LogInv, DeadlinesWithin
<1>5. CASE r \in OpenRequests /\ OpenMessage(r)
  <2>1. PICK new, to :
          /\ new \in Seq(EventRecord)
          /\ Accepts(r, new, to)
          /\ Len(new) = 1
          /\ new[1].kind = "interaction_opened"
          /\ new[1].id = r.id
    BY <1>5, OpenMessageAccepts
  <2>2. interactions'[r.id].kind = "message" /\ dispatches' = dispatches
    BY <1>5 DEF OpenMessage, Interaction, Put
  <2>3. Publish(new, to)
    BY <2>1 DEF Accepts, Publishes
  <2> QED BY <1>3, <1>4, <2>1, <2>2, <2>3 DEF Appends
<1>6. CASE r \in OpenRequests /\ OpenDecision(r)
  <2>1. PICK new, to :
          /\ new \in Seq(EventRecord)
          /\ Accepts(r, new, to)
          /\ \A i \in 1 .. Len(new) : /\ new[i].kind \in {"interaction_opened", "dispatch_blocked"}
                                      /\ new[i].id = r.id
    BY <1>6, OpenDecisionAccepts
  <2>2. /\ dispatches[r.target].state = "active"
        /\ \A t \in Target \ {r.target} : dispatches'[t] = dispatches[t]
    BY <1>1, <1>6 DEF OpenDecision
  <2>3. Publish(new, to) /\ \A i \in 1 .. Len(new) : new[i].target = r.target
    BY <2>1 DEF Accepts, Publishes
  <2> QED BY <1>3, <1>4, <2>1, <2>2, <2>3 DEF Appends
<1>7. CASE r \in CompleteRequests /\ Complete(r)
  <2>1. PICK new, to :
          /\ new \in Seq(EventRecord)
          /\ Accepts(r, new, to)
          /\ Len(new) = 1
          /\ new[1].kind = "dispatch_completed"
    BY <1>7, CompleteAccepts
  <2>2. /\ dispatches[r.target].state = "active"
        /\ dispatches' = [dispatches EXCEPT ![r.target] = Completed(dispatches[r.target])]
    BY <1>7 DEF Complete, CompleteAdmitted
  <2>3. /\ dispatches'[r.target].state = "completed"
        /\ \A t \in Target \ {r.target} : dispatches'[t] = dispatches[t]
    BY <1>1, <2>2 DEF Completed, DispatchRecord
  <2>4. Publish(new, to) /\ \A i \in 1 .. Len(new) : new[i].target = r.target
    BY <2>1 DEF Accepts, Publishes
  <2> QED BY <1>3, <1>4, <2>1, <2>2, <2>3, <2>4 DEF Appends
<1> QED BY <1>5, <1>6, <1>7

(* create_run and answer append to the log as they should: neither writes to a completed *)
(* dispatch.                                                                             *)
LEMMA OthersAppend ==
    ASSUME TypeOK, LogInv, NEW r,
           \/ r \in CreateRequests /\ CreateRun(r)
           \/ r \in AnswerRequests /\ Answer(r)
    PROVE  \E new \in Seq(EventRecord) : Appends(new)
<1>1. /\ r.target \in Target
      /\ dispatches \in [Target -> DispatchRecord]
      /\ dispatches[r.target].state # "completed"
  BY RequestsAssumption DEF TypeOK, CreateRun, Answer, AnswerAdmitted
<1>2. PICK new, to :
        /\ new \in Seq(EventRecord)
        /\ Accepts(r, new, to)
        /\ \A i \in 1 .. Len(new) :
             new[i].kind \in {"run_created", "decision_answered", "dispatch_unblocked"}
  BY CreateAccepts, AnswerAccepts
<1>3. Publish(new, to) /\ \A i \in 1 .. Len(new) : new[i].target = r.target
  BY <1>2 DEF Accepts, Publishes
<1>4. Len(events) \in Nat /\ Len(events') = Len(events) + Len(new) /\ Len(new) \in Nat
  BY <1>2, <1>3, PublishFacts
<1>5. \A t \in Target \ {r.target} : dispatches'[t] = dispatches[t]
  BY <1>1 DEF CreateRun, Answer
<1>6. /\ DOMAIN interactions' = DOMAIN interactions
      /\ \A id \in DOMAIN interactions : interactions'[id].kind = interactions[id].kind
  <2>1. CASE CreateRun(r)
    BY <2>1 DEF CreateRun
  <2>2. CASE Answer(r)
    <3>1. /\ interactions' = [interactions EXCEPT ![r.id] = Answered(interactions[r.id])]
          /\ r.id \in DOMAIN interactions
          /\ interactions[r.id] \in InteractionRecord
      BY <2>2 DEF Answer, AnswerAdmitted, TypeOK
    <3>2. Answered(interactions[r.id]).kind = interactions[r.id].kind
      BY <3>1 DEF Answered, InteractionRecord
    <3> QED BY <3>1, <3>2
  <2> QED BY <2>1, <2>2
<1>7. DeadlinesWithin'
  BY <1>4, <1>6 DEF LogInv, DeadlinesWithin
<1> QED BY <1>1, <1>2, <1>3, <1>5, <1>6, <1>7 DEF Appends

(* set_dispatch_deadline appends to the log as it should: its dispatch is unfinished and the *)
(* id of its message is new.                                                                 *)
LEMMA SetDeadlineAppends ==
    ASSUME TypeOK, LogInv, NEW r \in DeadlineRequests, SetDeadline(r)
    PROVE  \E new \in Seq(EventRecord) : Appends(new)
<1>1. /\ r.target \in Target
      /\ dispatches \in [Target -> DispatchRecord]
      /\ dispatches[r.target].state # "completed"
      /\ interactions' = Put(interactions, DeadlineId(NextCursor), DeadlineMessage(r.target))
  BY RequestsAssumption DEF TypeOK, SetDeadline, Unfinished
<1>2. PICK new, to :
        /\ new \in Seq(EventRecord)
        /\ Accepts(r, new, to)
        /\ Len(new) = 1
        /\ new[1].kind = "interaction_opened"
        /\ new[1].id = DeadlineId(NextCursor)
  BY SetDeadlineAccepts
<1>3. Publish(new, to) /\ \A i \in 1 .. Len(new) : new[i].target = r.target
  BY <1>2 DEF Accepts, Publishes
<1>4. Len(events) \in Nat /\ Len(events') = Len(events) + 1
  BY <1>2, <1>3, PublishFacts
<1>5. PICK id : id = DeadlineId(NextCursor)
  OBVIOUS
<1>6. id \notin DOMAIN interactions
  BY <1>4, <1>5 DEF LogInv, DeadlinesWithin, NextCursor
<1>7. /\ DOMAIN interactions' = DOMAIN interactions \cup {id}
      /\ \A i \in DOMAIN interactions : interactions'[i] = interactions[i]
  BY <1>1, <1>5, <1>6, InsertKeeps
<1>8. DeadlinesWithin'
  <2> SUFFICES ASSUME NEW c \in Nat, DeadlineId(c) \in DOMAIN interactions' PROVE c <= Len(events')
    BY DEF DeadlinesWithin, DeadlineId
  <2>1. CASE DeadlineId(c) = id
    <3>1. c = Len(events) + 1
      BY <1>4, <1>5, <2>1, DeadlineIdsDiffer DEF NextCursor
    <3> QED BY <1>4, <3>1
  <2>2. CASE DeadlineId(c) \in DOMAIN interactions
    <3>1. c <= Len(events)
      BY <2>2 DEF LogInv, DeadlinesWithin
    <3> QED BY <1>4, <3>1
  <2> QED BY <1>7, <2>1, <2>2
<1>9. \A t \in Target \ {r.target} : dispatches'[t] = dispatches[t]
  BY <1>1 DEF SetDeadline
<1> QED BY <1>1, <1>2, <1>3, <1>5, <1>7, <1>8, <1>9 DEF Appends

(* A tick appends to the log as it should: what it reports is unfinished, and the ids of *)
(* its messages are new.                                                                 *)
LEMMA ExpireAppends ==
    ASSUME TypeOK, LogInv, NEW now \in Instant, ExpireDeadlines(now)
    PROVE  \E new \in Seq(EventRecord) : Appends(new)
<1>1. PICK n \in Nat : \E order \in [1 .. n -> Target], new \in Seq(EventRecord) :
        Reports(n, order, new) /\ \A i \in 1 .. n : Overdue(order[i], now)
  BY ExpireReports
<1>2. PICK order \in [1 .. n -> Target], new \in Seq(EventRecord) :
        Reports(n, order, new) /\ \A i \in 1 .. n : Overdue(order[i], now)
  BY <1>1
<1>3. PICK to : to = [i \in 1 .. n |-> {CoordinatorOf[order[i]]}]
  OBVIOUS
<1>4. /\ new \in Seq(EventRecord)
      /\ Len(new) = n
      /\ \A i \in 1 .. n : /\ new[i].target = order[i]
                           /\ new[i].kind = "interaction_opened"
                           /\ new[i].id = DeadlineId(Len(events) + i)
      /\ Publishes(new, to)
  BY ONLY TypeOK, now \in Instant, n \in Nat, order \in [1 .. n -> Target], <1>2, <1>3,
          ReportsPublish
<1>5. Publish(new, to)
  BY <1>4 DEF Publishes
<1>6. Len(events) \in Nat /\ Len(events') = Len(events) + n
  BY <1>4, <1>5, PublishFacts
<1>7. /\ DOMAIN interactions' =
           DOMAIN interactions \cup {DeadlineId(Len(events) + i) : i \in 1 .. n}
      /\ \A id \in DOMAIN interactions : interactions'[id] = interactions[id]
  BY <1>2 DEF Reports
<1>8. DeadlinesWithin'
  <2> SUFFICES ASSUME NEW c \in Nat, DeadlineId(c) \in DOMAIN interactions' PROVE c <= Len(events')
    BY DEF DeadlinesWithin, DeadlineId
  <2>1. CASE \E i \in 1 .. n : DeadlineId(c) = DeadlineId(Len(events) + i)
    <3>1. PICK i \in 1 .. n : DeadlineId(c) = DeadlineId(Len(events) + i)
      BY <2>1
    <3>2. c = Len(events) + i
      BY <1>6, <3>1, DeadlineIdsDiffer
    <3> QED BY <1>6, <3>2
  <2>2. CASE DeadlineId(c) \in DOMAIN interactions
    <3>1. c <= Len(events)
      BY <2>2 DEF LogInv, DeadlinesWithin
    <3> QED BY <1>6, <3>1
  <2> QED BY <1>7, <2>1, <2>2
<1>9. \A i \in 1 .. n : dispatches[order[i]].state # "completed"
  BY <1>2 DEF Overdue, Unfinished
<1>10. \A t \in Target : dispatches[t].state = "completed" => dispatches'[t].state = "completed"
  BY <1>2, <1>9 DEF Reports
<1>11. \A i \in 1 .. n : new[i].id \in DOMAIN interactions'
  BY <1>4, <1>7
<1>12. \A i \in 1 .. Len(new) :
         /\ dispatches[new[i].target].state # "completed"
         /\ new[i].kind # "dispatch_completed"
         /\ new[i].id \in DOMAIN interactions'
  BY <1>4, <1>9, <1>11
<1>13. \A id \in DOMAIN interactions : /\ id \in DOMAIN interactions'
                                       /\ interactions'[id].kind = interactions[id].kind
  BY <1>7
<1> QED BY <1>4, <1>5, <1>8, <1>10, <1>12, <1>13 DEF Appends

(* Every operation keeps the log's invariant. *)
LEMMA NextLog == TypeOK /\ LogInv /\ [Next]_vars => LogInv'
<1> SUFFICES ASSUME TypeOK, LogInv, [Next]_vars PROVE LogInv'
  OBVIOUS
<1>1. CASE \E new \in Seq(EventRecord) : Appends(new)
  BY <1>1, AppendsKeeps
<1>2. ASSUME NEW r \in OpenRequests, OpenMessage(r) \/ OpenDecision(r) PROVE LogInv'
  <2>1. r.id \in InteractionId
    BY RequestsAssumption
  <2> QED BY <1>1, <1>2, <2>1, ClientAppends
<1>3. ASSUME NEW r \in CompleteRequests, Complete(r) PROVE LogInv'
  <2>1. r.id \in InteractionId
    BY RequestsAssumption
  <2> QED BY <1>1, <1>3, <2>1, ClientAppends
<1>4. CASE \/ \E r \in CreateRequests : CreateRun(r)
           \/ \E r \in AnswerRequests : Answer(r)
           \/ \E r \in DeadlineRequests : SetDeadline(r)
           \/ \E now \in Instant : ExpireDeadlines(now)
  BY <1>1, <1>4, OthersAppend, SetDeadlineAppends, ExpireAppends
<1>5. CASE \/ \E r \in ReadRequests : ReadEvents(r)
           \/ \E r \in WakeRequests : TransitionWake(r)
           \/ \E S, s : MoveSessions(S, s)
           \/ UNCHANGED vars
  <2>1. /\ UNCHANGED <<events, interactions>>
        /\ \A t \in Target : dispatches'[t].state = dispatches[t].state
    BY <1>5, MoveFacts DEF ReadEvents, TransitionWake, MoveSessions, vars
  <2>2. \A c \in DOMAIN events : events[c].target \in Target
    <3>1. events \in Seq(EventRecord)
      BY DEF TypeOK
    <3>2. \A c \in DOMAIN events : events[c] \in EventRecord
      BY <3>1
    <3> QED BY <3>2 DEF EventRecord
  <2>3. CompletionsHold'
    BY <2>1, <2>2 DEF LogInv, CompletionsHold
  <2>4. OpenedAreKnown' /\ DeadlinesWithin' /\ NothingAfterCompletion'
    BY <2>1 DEF LogInv, OpenedAreKnown, DeadlinesWithin, NothingAfterCompletion, DeadlineId
  <2> QED BY <2>3, <2>4 DEF LogInv
<1> QED BY <1>2, <1>3, <1>4, <1>5 DEF Next, RebindSession, ReconcileSession

(* After the completion of a dispatch its log holds nothing but messages that clients sent, *)
(* for any requests, deadlines and ticks that race the completion.                          *)
THEOREM CompletionIsLast == Spec => []NothingAfterCompletion
<1>1. Init => LogInv
  BY DEF Init, LogInv, CompletionsHold, OpenedAreKnown, DeadlinesWithin, NothingAfterCompletion,
         EmptyMap
<1>2. LogInv => NothingAfterCompletion
  BY DEF LogInv
<1> QED BY <1>1, <1>2, NextLog, TypeCorrect, PTL DEF Spec

-----------------------------------------------------------------------------
(* Each revision of a dispatch is spent once.  The invariant adds that a     *)
(* dispatch that does not exist has spent none, and that one that does is at  *)
(* least at its first revision.                                               *)

\* EachRevisionSpentOnce, of one dispatch, and what it starts from.
Spent(t) ==
    IF dispatches[t].state = "absent"
    THEN RevisingReceipts(t) = {}
    ELSE /\ dispatches[t].revision >= 1
         /\ \A k, l \in RevisingReceipts(t) :
              idempotency[k].request.expected = idempotency[l].request.expected => k = l
         /\ {idempotency[k].request.expected : k \in RevisingReceipts(t)}
              = 1 .. dispatches[t].revision - 1

(* An accepted request adds its receipt to those that revised its dispatch, if it revises. *)
LEMMA AcceptRevising ==
    ASSUME TypeOK, NEW r, NEW new \in Seq(EventRecord), NEW to, Accepts(r, new, to),
           NEW t \in Target
    PROVE  /\ r.target = t /\ Revising(r) =>
                RevisingReceipts(t)' = RevisingReceipts(t) \cup {OperationKey(r)}
           /\ ~(r.target = t /\ Revising(r)) => RevisingReceipts(t)' = RevisingReceipts(t)
<1>1. PICK key : key = OperationKey(r)
  OBVIOUS
<1>2. /\ key \notin DOMAIN idempotency
      /\ DOMAIN idempotency' = DOMAIN idempotency \cup {key}
      /\ \A k \in DOMAIN idempotency : idempotency'[k] = idempotency[k]
      /\ idempotency'[key].request = r
  BY <1>1, AcceptFacts
<1>3. RevisingReceipts(t)' = {k \in DOMAIN idempotency' : /\ idempotency'[k].request.target = t
                                                          /\ Revising(idempotency'[k].request)}
  BY DEF RevisingReceipts, Revising
<1> QED BY <1>1, <1>2, <1>3 DEF RevisingReceipts

(* A step that adds no revising receipt to a dispatch and keeps its revision spends nothing. *)
LEMMA SpendsNothing ==
    ASSUME NEW t \in Target, Spent(t), RevisingReceipts(t)' = RevisingReceipts(t),
           \A k \in DOMAIN idempotency : idempotency'[k] = idempotency[k],
           dispatches'[t].revision = dispatches[t].revision,
           dispatches'[t].state = "absent" <=> dispatches[t].state = "absent"
    PROVE  Spent(t)'
<1>1. RevisingReceipts(t) \subseteq DOMAIN idempotency
  BY DEF RevisingReceipts
<1>2. \A k \in RevisingReceipts(t) : idempotency'[k] = idempotency[k]
  BY <1>1
<1>3. {idempotency'[k].request.expected : k \in RevisingReceipts(t)}
        = {idempotency[k].request.expected : k \in RevisingReceipts(t)}
  BY <1>2
<1> QED BY <1>2, <1>3 DEF Spent

(* A step that accepts a revising request at the present revision spends that revision. *)
LEMMA SpendsOne ==
    ASSUME TypeOK, NEW t \in Target, Spent(t), dispatches[t].state # "absent",
           NEW r, r.expected = dispatches[t].revision,
           NEW key, key \notin DOMAIN idempotency, idempotency'[key].request = r,
           \A k \in DOMAIN idempotency : idempotency'[k] = idempotency[k],
           RevisingReceipts(t)' = RevisingReceipts(t) \cup {key},
           dispatches'[t].revision = dispatches[t].revision + 1,
           dispatches'[t].state # "absent"
    PROVE  Spent(t)'
<1>1. RevisingReceipts(t) \subseteq DOMAIN idempotency
  BY DEF RevisingReceipts
<1>2. PICK S : S = RevisingReceipts(t)
  OBVIOUS
<1>3. PICK n : n = dispatches[t].revision
  OBVIOUS
<1>4. /\ \A k \in S : k # key /\ idempotency'[k] = idempotency[k]
      /\ n \in Nat /\ n >= 1
      /\ \A k, l \in S : idempotency[k].request.expected = idempotency[l].request.expected => k = l
      /\ {idempotency[k].request.expected : k \in S} = 1 .. n - 1
  BY <1>1, <1>2, <1>3 DEF Spent, TypeOK, DispatchRecord
<1>5. \A k \in S : idempotency'[k].request.expected \in 1 .. n - 1
  BY <1>4
<1>6. idempotency'[key].request.expected = n
  BY <1>3
<1>7. \A k, l \in S \cup {key} :
        idempotency'[k].request.expected = idempotency'[l].request.expected => k = l
  BY <1>4, <1>5, <1>6
<1>8. {idempotency'[k].request.expected : k \in S \cup {key}} = 1 .. n
  <2>1. {idempotency'[k].request.expected : k \in S \cup {key}}
          = {idempotency[k].request.expected : k \in S} \cup {n}
    BY <1>4, <1>6
  <2>2. 1 .. n = (1 .. n - 1) \cup {n}
    BY <1>4
  <2> QED BY <1>4, <2>1, <2>2
<1>9. dispatches'[t].revision = n + 1 /\ RevisingReceipts(t)' = S \cup {key}
  BY <1>2, <1>3
<1>10. dispatches'[t].revision >= 1 /\ dispatches'[t].revision - 1 = n
  BY <1>4, <1>9
<1>11. \A k, l \in RevisingReceipts(t)' :
         idempotency'[k].request.expected = idempotency'[l].request.expected => k = l
  BY <1>7, <1>9
<1>12. {idempotency'[k].request.expected : k \in RevisingReceipts(t)'}
         = 1 .. dispatches'[t].revision - 1
  BY <1>8, <1>9, <1>10
<1> QED BY <1>10, <1>11, <1>12 DEF Spent

(* The requests that revise a dispatch: a decision, an answer, a completion and a deadline *)
(* are accepted at its present revision and revise it once.                                *)
LEMMA RevisingSteps ==
    ASSUME TypeOK, NEW r, \/ r \in OpenRequests /\ OpenDecision(r)
                          \/ r \in AnswerRequests /\ Answer(r)
                          \/ r \in CompleteRequests /\ Complete(r)
                          \/ r \in DeadlineRequests /\ SetDeadline(r)
    PROVE  /\ \E new, to : new \in Seq(EventRecord) /\ Accepts(r, new, to)
           /\ Revising(r)
           /\ r.target \in Target
           /\ r.expected = dispatches[r.target].revision
           /\ dispatches[r.target].state # "absent"
           /\ dispatches'[r.target].state # "absent"
           /\ dispatches'[r.target].revision = dispatches[r.target].revision + 1
           /\ \A t \in Target \ {r.target} : dispatches'[t] = dispatches[t]
<1>1. \E new, to : new \in Seq(EventRecord) /\ Accepts(r, new, to)
  BY OpenDecisionAccepts, AnswerAccepts, CompleteAccepts, SetDeadlineAccepts
<1>2. Revising(r) /\ r.target \in Target
  BY RequestsAssumption DEF Revising, OpenDecision
<1>3. r.expected = dispatches[r.target].revision /\ dispatches[r.target].state # "absent"
  BY DEF OpenDecision, OpenAdmitted, Answer, AnswerAdmitted, Complete, CompleteAdmitted,
         SetDeadline, Unfinished
<1>4. /\ dispatches \in [Target -> DispatchRecord]
      /\ dispatches[r.target] \in DispatchRecord
  BY <1>2 DEF TypeOK
<1>5. PICK d \in {BlockedBy(dispatches[r.target], r.id), Unblocked(dispatches[r.target]),
                  Completed(dispatches[r.target]), DueAt(dispatches[r.target], r.due)} :
        dispatches' = [dispatches EXCEPT ![r.target] = d]
  BY DEF OpenDecision, Answer, Complete, SetDeadline
<1>6. d.revision = dispatches[r.target].revision + 1 /\ d.state # "absent"
  BY <1>3, <1>4, <1>5 DEF BlockedBy, Unblocked, Completed, DueAt, DispatchRecord
<1> QED BY <1>1, <1>2, <1>3, <1>4, <1>5, <1>6

(* Every operation spends the present revision of one dispatch, or none. *)
LEMMA NextSpent ==
    TypeOK /\ (\A t \in Target : Spent(t)) /\ [Next]_vars => (\A t \in Target : Spent(t))'
<1> SUFFICES ASSUME TypeOK, \A u \in Target : Spent(u), [Next]_vars, NEW t \in Target
             PROVE  Spent(t)'
  OBVIOUS
<1>1. dispatches \in [Target -> DispatchRecord] /\ dispatches[t] \in DispatchRecord
  BY DEF TypeOK
<1>2. ASSUME NEW r, \/ r \in OpenRequests /\ OpenDecision(r)
                    \/ r \in AnswerRequests /\ Answer(r)
                    \/ r \in CompleteRequests /\ Complete(r)
                    \/ r \in DeadlineRequests /\ SetDeadline(r)
      PROVE  Spent(t)'
  <2>1. PICK new, to : new \in Seq(EventRecord) /\ Accepts(r, new, to)
    BY <1>2, RevisingSteps
  <2>2. PICK key : key = OperationKey(r)
    OBVIOUS
  <2>3. /\ key \notin DOMAIN idempotency
        /\ \A k \in DOMAIN idempotency : idempotency'[k] = idempotency[k]
        /\ idempotency'[key].request = r
    BY <2>1, <2>2, AcceptFacts
  <2>4. /\ Revising(r)
        /\ r.target = t => /\ r.expected = dispatches[t].revision
                           /\ dispatches[t].state # "absent"
                           /\ dispatches'[t].state # "absent"
                           /\ dispatches'[t].revision = dispatches[t].revision + 1
        /\ r.target # t => dispatches'[t] = dispatches[t]
    BY <1>2, RevisingSteps
  <2>5. /\ r.target = t => RevisingReceipts(t)' = RevisingReceipts(t) \cup {key}
        /\ r.target # t => RevisingReceipts(t)' = RevisingReceipts(t)
    BY <2>1, <2>2, <2>4, AcceptRevising
  <2>6. CASE r.target = t
    BY <2>3, <2>4, <2>5, <2>6, SpendsOne
  <2>7. CASE r.target # t
    BY <2>3, <2>4, <2>5, <2>7, SpendsNothing
  <2> QED BY <2>6, <2>7
<1>3. ASSUME NEW r \in CreateRequests, CreateRun(r) PROVE Spent(t)'
  <2>1. PICK new, to : new \in Seq(EventRecord) /\ Accepts(r, new, to)
    BY <1>3, CreateAccepts
  <2>2. ~Revising(r) /\ r.target \in Target
    BY RequestsAssumption DEF Revising
  <2>3. /\ RevisingReceipts(t)' = RevisingReceipts(t)
        /\ \A k \in DOMAIN idempotency : idempotency'[k] = idempotency[k]
    BY <2>1, <2>2, AcceptRevising, AcceptFacts
  <2>4. CASE r.target = t
    <3>1. /\ dispatches[t].state = "absent"
          /\ dispatches'[t].state = "active" /\ dispatches'[t].revision = 1
      BY <1>1, <1>3, <2>4 DEF CreateRun, Absent
    <3>2. RevisingReceipts(t)' = {}
      BY <2>3, <3>1 DEF Spent
    <3> QED BY <3>1, <3>2 DEF Spent
  <2>5. CASE r.target # t
    <3>1. dispatches'[t] = dispatches[t]
      BY <1>1, <1>3, <2>5 DEF CreateRun
    <3> QED BY <2>3, <3>1, SpendsNothing
  <2> QED BY <2>4, <2>5
<1>4. ASSUME NEW r \in OpenRequests, OpenMessage(r) PROVE Spent(t)'
  <2>1. PICK new, to : new \in Seq(EventRecord) /\ Accepts(r, new, to)
    BY <1>4, OpenMessageAccepts
  <2>2. ~Revising(r) /\ dispatches' = dispatches
    BY <1>4, RequestsAssumption DEF Revising, OpenMessage
  <2>3. /\ RevisingReceipts(t)' = RevisingReceipts(t)
        /\ \A k \in DOMAIN idempotency : idempotency'[k] = idempotency[k]
    BY <2>1, <2>2, AcceptRevising, AcceptFacts
  <2> QED BY <2>2, <2>3, SpendsNothing
<1>5. CASE \/ \E now \in Instant : ExpireDeadlines(now)
           \/ \E r \in ReadRequests : ReadEvents(r)
           \/ \E r \in WakeRequests : TransitionWake(r)
           \/ \E S, s : MoveSessions(S, s)
           \/ UNCHANGED vars
  <2>1. idempotency' = idempotency
    BY <1>5 DEF ExpireDeadlines, ReadEvents, TransitionWake, MoveSessions, vars
  <2>2. RevisingReceipts(t)' = RevisingReceipts(t)
    BY <2>1 DEF RevisingReceipts, Revising
  <2>3. \/ dispatches'[t] = dispatches[t]
        \/ \E c : dispatches'[t] = [dispatches[t] EXCEPT !.overdue = c]
        \/ \E s : dispatches'[t] = [dispatches[t] EXCEPT !.session = s]
    <3>1. ASSUME NEW now \in Instant, ExpireDeadlines(now)
          PROVE  \/ dispatches'[t] = dispatches[t]
                 \/ \E c : dispatches'[t] = [dispatches[t] EXCEPT !.overdue = c]
      BY <3>1 DEF ExpireDeadlines
    <3> QED BY <1>5, <3>1 DEF ReadEvents, TransitionWake, MoveSessions, vars
  <2>4. /\ dispatches'[t].revision = dispatches[t].revision
        /\ dispatches'[t].state = dispatches[t].state
    BY <1>1, <2>3 DEF DispatchRecord
  <2> QED BY <2>1, <2>2, <2>4, SpendsNothing
<1> QED BY <1>2, <1>3, <1>4, <1>5 DEF Next, RebindSession, ReconcileSession

(* No lost update, for any number of clients: each revision of a dispatch was spent by *)
(* exactly one accepted request, the one that expected it.                            *)
THEOREM RevisionsAreSpentOnce == Spec => []EachRevisionSpentOnce
<1>1. Init => \A t \in Target : Spent(t)
  BY DEF Init, Spent, RevisingReceipts, Absent, EmptyMap
<1>2. (\A t \in Target : Spent(t)) => EachRevisionSpentOnce
  BY DEF Spent, EachRevisionSpentOnce
<1> QED BY <1>1, <1>2, NextSpent, TypeCorrect, PTL DEF Spec

-----------------------------------------------------------------------------
(* One overdue report per setting.  A setting that is not yet reported is a  *)
(* report still to come, so it counts with those of the log.                  *)

\* The overdue reports on dispatch t, the deadlines it was given, and whether one is armed.
ReportsOn(t) == {c \in DOMAIN events : events[c].target = t /\ Producers(c) = {}}

SettingsOf(t) ==
    {k \in RevisingReceipts(t) :
        idempotency[k].request.op = "deadline" /\ idempotency[k].request.due # None}

Armed(t) == dispatches[t].due # None /\ dispatches[t].overdue = 0

\* The reports made and the one that is still to come were all asked for.
Asked(t) ==
    Cardinality(ReportsOn(t)) + (IF Armed(t) THEN 1 ELSE 0) <= Cardinality(SettingsOf(t))

OverdueInv ==
    /\ IsFiniteSet(DOMAIN idempotency)
    /\ ReceiptsWithin
    /\ \A t \in Target : Asked(t)

(* The sets that Asked compares are finite. *)
LEMMA CountsAreNumbers ==
    ASSUME TypeOK, IsFiniteSet(DOMAIN idempotency), NEW t
    PROVE  /\ IsFiniteSet(ReportsOn(t)) /\ Cardinality(ReportsOn(t)) \in Nat
           /\ IsFiniteSet(SettingsOf(t)) /\ Cardinality(SettingsOf(t)) \in Nat
<1>1. Len(events) \in Nat /\ DOMAIN events = 1 .. Len(events)
  BY DEF TypeOK
<1>2. IsFiniteSet(DOMAIN events)
  BY <1>1, FS_Interval
<1>3. ReportsOn(t) \in SUBSET DOMAIN events /\ SettingsOf(t) \in SUBSET DOMAIN idempotency
  BY DEF ReportsOn, SettingsOf, RevisingReceipts
<1>4. IsFiniteSet(ReportsOn(t)) /\ IsFiniteSet(SettingsOf(t))
  BY <1>2, <1>3, FS_Subset
<1> QED BY <1>4, FS_CardinalityType

(* A step that neither reports nor sets a deadline, and arms none, asks for nothing. *)
LEMMA AsksNothing ==
    ASSUME TypeOK, IsFiniteSet(DOMAIN idempotency), NEW t \in Target, Asked(t),
           ReportsOn(t)' = ReportsOn(t), SettingsOf(t)' = SettingsOf(t), Armed(t)' => Armed(t)
    PROVE  Asked(t)'
<1>1. Cardinality(ReportsOn(t)) \in Nat /\ Cardinality(SettingsOf(t)) \in Nat
  BY CountsAreNumbers
<1> QED BY <1>1 DEF Asked

(* An accepted request reports nothing, and adds a setting when it sets a deadline. *)
LEMMA AcceptCounts ==
    ASSUME TypeOK, OverdueInv, NEW r, NEW new \in Seq(EventRecord), NEW to, Accepts(r, new, to),
           NEW t \in Target
    PROVE  /\ IsFiniteSet(DOMAIN idempotency')
           /\ ReceiptsWithin'
           /\ ReportsOn(t)' = ReportsOn(t)
           /\ OperationKey(r) \notin SettingsOf(t)
           /\ r.target = t /\ r.op = "deadline" /\ r.due # None =>
                SettingsOf(t)' = SettingsOf(t) \cup {OperationKey(r)}
           /\ ~(r.target = t /\ r.op = "deadline" /\ r.due # None) =>
                SettingsOf(t)' = SettingsOf(t)
<1>1. PICK key : key = OperationKey(r)
  OBVIOUS
<1>2. /\ key \notin DOMAIN idempotency
      /\ DOMAIN idempotency' = DOMAIN idempotency \cup {key}
      /\ \A k \in DOMAIN idempotency : idempotency'[k] = idempotency[k]
      /\ idempotency'[key].request = r
  BY <1>1, AcceptFacts
<1>3. IsFiniteSet(DOMAIN idempotency')
  BY <1>2, FS_AddElement DEF OverdueInv
<1>4. /\ ReceiptsWithin'
      /\ \A c \in 1 .. Len(events) : Producers(c)' = Producers(c)
      /\ \A c \in 1 .. Len(events') : c \notin 1 .. Len(events) => Producers(c)' # {}
  BY AcceptProducers DEF OverdueInv
<1>5. /\ DOMAIN events = 1 .. Len(events) /\ DOMAIN events' = 1 .. Len(events')
      /\ Len(events) \in Nat /\ Len(events') = Len(events) + Len(new) /\ Len(new) \in Nat
      /\ \A c \in 1 .. Len(events) : events'[c] = events[c]
  BY PublishFacts DEF Accepts, Publishes
<1>6. ReportsOn(t)' = ReportsOn(t)
  <2>1. ReportsOn(t)' = {c \in DOMAIN events' : events'[c].target = t /\ Producers(c)' = {}}
    BY DEF ReportsOn
  <2>2. DOMAIN events \subseteq DOMAIN events'
    BY <1>5
  <2> QED BY <1>4, <1>5, <2>1, <2>2 DEF ReportsOn
<1>7. SettingsOf(t)' = {k \in DOMAIN idempotency' : /\ idempotency'[k].request.target = t
                                                    /\ idempotency'[k].request.op = "deadline"
                                                    /\ idempotency'[k].request.due # None}
  BY DEF SettingsOf, RevisingReceipts, Revising
<1>8. SettingsOf(t) = {k \in DOMAIN idempotency : /\ idempotency[k].request.target = t
                                                  /\ idempotency[k].request.op = "deadline"
                                                  /\ idempotency[k].request.due # None}
  BY DEF SettingsOf, RevisingReceipts, Revising
<1> QED BY <1>1, <1>2, <1>3, <1>4, <1>6, <1>7, <1>8

(* set_dispatch_deadline asks for one report more, or for none when it clears the deadline. *)
LEMMA SetDeadlineAsks ==
    ASSUME TypeOK, OverdueInv, NEW r \in DeadlineRequests, SetDeadline(r)
    PROVE  OverdueInv'
<1>1. PICK new, to : new \in Seq(EventRecord) /\ Accepts(r, new, to)
  BY SetDeadlineAccepts
<1>2. /\ r.op = "deadline" /\ r.target \in Target
      /\ dispatches \in [Target -> DispatchRecord]
      /\ dispatches[r.target] \in DispatchRecord
      /\ dispatches' = [dispatches EXCEPT ![r.target] = DueAt(dispatches[r.target], r.due)]
  BY RequestsAssumption DEF SetDeadline, TypeOK
<1>3. /\ dispatches'[r.target].due = r.due
      /\ \A t \in Target \ {r.target} : dispatches'[t] = dispatches[t]
  BY <1>2 DEF DueAt, DispatchRecord
<1>4. PICK key : key = OperationKey(r)
  OBVIOUS
<1>5. IsFiniteSet(DOMAIN idempotency') /\ ReceiptsWithin'
  BY <1>1, <1>2, AcceptCounts
<1>6. ASSUME NEW t \in Target PROVE Asked(t)'
  <2>1. /\ ReportsOn(t)' = ReportsOn(t)
        /\ key \notin SettingsOf(t)
        /\ r.target = t /\ r.due # None => SettingsOf(t)' = SettingsOf(t) \cup {key}
        /\ ~(r.target = t /\ r.due # None) => SettingsOf(t)' = SettingsOf(t)
    BY <1>1, <1>2, <1>4, AcceptCounts
  <2>2. /\ IsFiniteSet(DOMAIN idempotency) /\ Asked(t)
    BY DEF OverdueInv
  <2>3. CASE r.target = t /\ r.due # None
    <3>1. /\ Cardinality(ReportsOn(t)) \in Nat
          /\ IsFiniteSet(SettingsOf(t)) /\ Cardinality(SettingsOf(t)) \in Nat
      BY <2>2, CountsAreNumbers
    <3>2. Cardinality(SettingsOf(t)') = Cardinality(SettingsOf(t)) + 1
      BY <2>1, <2>3, <3>1, FS_AddElement
    <3>3. Cardinality(ReportsOn(t)') = Cardinality(ReportsOn(t))
      BY <2>1
    <3>4. Cardinality(ReportsOn(t)) <= Cardinality(SettingsOf(t))
      BY <2>2, <3>1 DEF Asked
    <3> QED BY <3>1, <3>2, <3>3, <3>4 DEF Asked
  <2>4. CASE ~(r.target = t /\ r.due # None)
    <3>1. Armed(t)' => Armed(t)
      BY <1>3, <2>4 DEF Armed
    <3> QED BY <2>1, <2>2, <2>4, <3>1, AsksNothing
  <2> QED BY <2>3, <2>4
<1> QED BY <1>5, <1>6 DEF OverdueInv

(* The other requests ask for nothing. *)
LEMMA OthersAsk ==
    ASSUME TypeOK, OverdueInv, NEW r, \/ r \in CreateRequests /\ CreateRun(r)
                                      \/ r \in OpenRequests /\ OpenMessage(r)
                                      \/ r \in OpenRequests /\ OpenDecision(r)
                                      \/ r \in AnswerRequests /\ Answer(r)
                                      \/ r \in CompleteRequests /\ Complete(r)
    PROVE  OverdueInv'
<1>1. PICK new, to : new \in Seq(EventRecord) /\ Accepts(r, new, to)
  BY CreateAccepts, OpenMessageAccepts, OpenDecisionAccepts, AnswerAccepts, CompleteAccepts
<1>2. r.op # "deadline" /\ r.target \in Target
  BY RequestsAssumption
<1>3. /\ dispatches \in [Target -> DispatchRecord]
      /\ dispatches[r.target] \in DispatchRecord
  BY <1>2 DEF TypeOK
<1>4. \A t \in Target : Armed(t)' => Armed(t)
  <2>1. CASE CreateRun(r)
    BY <1>2, <1>3, <2>1 DEF CreateRun, Absent, Armed
  <2>2. CASE OpenMessage(r)
    BY <2>2 DEF OpenMessage, Armed
  <2>3. CASE OpenDecision(r) \/ Answer(r) \/ Complete(r)
    <3>1. PICK d \in {BlockedBy(dispatches[r.target], r.id), Unblocked(dispatches[r.target]),
                      Completed(dispatches[r.target])} :
            dispatches' = [dispatches EXCEPT ![r.target] = d]
      BY <2>3 DEF OpenDecision, Answer, Complete
    <3>2. d.due = dispatches[r.target].due /\ d.overdue = dispatches[r.target].overdue
      BY <1>3, <3>1 DEF BlockedBy, Unblocked, Completed, DispatchRecord
    <3> QED BY <1>2, <1>3, <3>1, <3>2 DEF Armed
  <2> QED BY <2>1, <2>2, <2>3
<1>5. IsFiniteSet(DOMAIN idempotency') /\ ReceiptsWithin'
  BY <1>1, <1>2, AcceptCounts
<1>6. ASSUME NEW t \in Target PROVE Asked(t)'
  <2>1. ReportsOn(t)' = ReportsOn(t) /\ SettingsOf(t)' = SettingsOf(t)
    BY <1>1, <1>2, AcceptCounts
  <2> QED BY <1>4, <2>1, AsksNothing DEF OverdueInv
<1> QED BY <1>5, <1>6 DEF OverdueInv

(* A tick reports what is armed, each dispatch once, and disarms it. *)
LEMMA ExpireAsks ==
    ASSUME TypeOK, OverdueInv, NEW now \in Instant, ExpireDeadlines(now)
    PROVE  OverdueInv'
<1>1. PICK n \in Nat : \E order \in [1 .. n -> Target], new \in Seq(EventRecord) :
        /\ Reports(n, order, new)
        /\ \A i \in 1 .. n : Overdue(order[i], now)
        /\ \A i, j \in 1 .. n : order[i] = order[j] => i = j
  BY ExpireReports
<1>2. PICK order \in [1 .. n -> Target], new \in Seq(EventRecord) :
        /\ Reports(n, order, new)
        /\ \A i \in 1 .. n : Overdue(order[i], now)
        /\ \A i, j \in 1 .. n : order[i] = order[j] => i = j
  BY <1>1
<1>3. IsFiniteSet(DOMAIN idempotency) /\ ReceiptsWithin /\ \A t \in Target : Asked(t)
  BY DEF OverdueInv
<1> ReceiptsWithin
  BY <1>3
<1> Reports(n, order, new) /\ \A i \in 1 .. n : Overdue(order[i], now)
  BY <1>2
<1>4. /\ ReceiptsWithin'
      /\ Len(events) \in Nat /\ Len(events') = Len(events) + n
      /\ DOMAIN events = 1 .. Len(events) /\ DOMAIN events' = 1 .. Len(events')
      /\ \A c \in 1 .. Len(events) : events'[c] = events[c] /\ Producers(c)' = Producers(c)
      /\ \A i \in 1 .. n : \A c : c = Len(events) + i =>
           events'[c].target = order[i] /\ events'[c].id = DeadlineId(c) /\ Producers(c)' = {}
  BY ONLY TypeOK, ReceiptsWithin, now \in Instant, n \in Nat, order \in [1 .. n -> Target],
          Reports(n, order, new), \A i \in 1 .. n : Overdue(order[i], now), ReportProducers
<1>5. idempotency' = idempotency
  BY <1>2 DEF Reports
<1>6. \A c \in DOMAIN events' : c \in 1 .. Len(events) \/ \E i \in 1 .. n : c = Len(events) + i
  <2> SUFFICES ASSUME NEW c \in DOMAIN events', c \notin 1 .. Len(events)
               PROVE  \E i \in 1 .. n : c = Len(events) + i
    OBVIOUS
  <2>1. c - Len(events) \in 1 .. n /\ c = Len(events) + (c - Len(events))
    BY <1>4
  <2> QED BY <2>1
<1>7. ASSUME NEW t \in Target PROVE Asked(t)'
  <2>1. SettingsOf(t)' = SettingsOf(t)
    BY <1>5 DEF SettingsOf, RevisingReceipts, Revising
  <2>2. ReportsOn(t)' = {c \in DOMAIN events' : events'[c].target = t /\ Producers(c)' = {}}
    BY DEF ReportsOn
  <2>3. DOMAIN events \subseteq DOMAIN events'
    BY <1>4
  <2>4. CASE \E i \in 1 .. n : order[i] = t
    <3>1. PICK i \in 1 .. n : order[i] = t
      BY <2>4
    <3>2. PICK last : last = Len(events) + i
      OBVIOUS
    <3>3. last \in DOMAIN events' /\ last \notin DOMAIN events
      BY <1>4, <3>2
    <3>4. ReportsOn(t)' = ReportsOn(t) \cup {last}
      <4>1. ASSUME NEW c \in ReportsOn(t)' PROVE c \in ReportsOn(t) \cup {last}
        <5>1. c \in DOMAIN events' /\ events'[c].target = t /\ Producers(c)' = {}
          BY <2>2, <4>1
        <5>2. CASE c \in 1 .. Len(events)
          BY <1>4, <5>1, <5>2 DEF ReportsOn
        <5>3. CASE \E j \in 1 .. n : c = Len(events) + j
          <6>1. PICK j \in 1 .. n : c = Len(events) + j
            BY <5>3
          <6>2. order[j] = t
            BY <1>4, <5>1, <6>1
          <6> QED BY <1>2, <3>1, <3>2, <6>1, <6>2
        <5> QED BY <1>6, <5>1, <5>2, <5>3
      <4>2. \A c \in ReportsOn(t) \cup {last} : c \in ReportsOn(t)'
        BY <1>4, <2>2, <2>3, <3>1, <3>2, <3>3 DEF ReportsOn
      <4> QED BY <4>1, <4>2
    <3>5. /\ IsFiniteSet(ReportsOn(t)) /\ Cardinality(ReportsOn(t)) \in Nat
          /\ Cardinality(SettingsOf(t)) \in Nat
      BY <1>3, CountsAreNumbers
    <3>6. Cardinality(ReportsOn(t)') = Cardinality(ReportsOn(t)) + 1
      <4>1. last \notin ReportsOn(t)
        BY <3>3 DEF ReportsOn
      <4> QED BY <3>4, <3>5, <4>1, FS_AddElement
    <3>7. Armed(t)
      BY <1>2, <3>1 DEF Overdue, Armed
    <3>8. Cardinality(ReportsOn(t)) + 1 <= Cardinality(SettingsOf(t))
      BY <1>3, <3>7 DEF Asked
    <3>9. ~Armed(t)'
      <4>1. dispatches[t] \in DispatchRecord
        BY DEF TypeOK
      <4>2. dispatches'[t] = [dispatches[t] EXCEPT !.overdue = Len(events) + i]
        BY <1>2, <3>1 DEF Reports
      <4>3. dispatches'[t].overdue = Len(events) + i
        BY <4>1, <4>2 DEF DispatchRecord
      <4>4. Len(events) + i # 0
        BY <1>4
      <4> QED BY <4>3, <4>4 DEF Armed
    <3> QED BY <2>1, <3>5, <3>6, <3>8, <3>9 DEF Asked
  <2>5. CASE \A i \in 1 .. n : order[i] # t
    <3>1. dispatches'[t] = dispatches[t]
      BY <1>2, <2>5 DEF Reports
    <3>2. Armed(t)' => Armed(t)
      BY <3>1 DEF Armed
    <3>3. ReportsOn(t)' = ReportsOn(t)
      <4>1. ASSUME NEW c \in ReportsOn(t)' PROVE c \in ReportsOn(t)
        <5>1. c \in DOMAIN events' /\ events'[c].target = t /\ Producers(c)' = {}
          BY <2>2, <4>1
        <5>2. c \in 1 .. Len(events)
          BY <1>4, <1>6, <2>5, <5>1
        <5> QED BY <1>4, <5>1, <5>2 DEF ReportsOn
      <4>2. \A c \in ReportsOn(t) : c \in ReportsOn(t)'
        BY <1>4, <2>2, <2>3 DEF ReportsOn
      <4> QED BY <4>1, <4>2
    <3> QED BY <1>3, <2>1, <3>2, <3>3, AsksNothing
  <2> QED BY <2>4, <2>5
<1> QED BY <1>3, <1>4, <1>5, <1>7 DEF OverdueInv

(* Every operation keeps the reports within what was asked for. *)
LEMMA NextAsked == TypeOK /\ OverdueInv /\ [Next]_vars => OverdueInv'
<1> SUFFICES ASSUME TypeOK, OverdueInv, [Next]_vars PROVE OverdueInv'
  OBVIOUS
<1>1. CASE \/ \E r \in ReadRequests : ReadEvents(r)
           \/ \E r \in WakeRequests : TransitionWake(r)
           \/ \E S, s : MoveSessions(S, s)
           \/ UNCHANGED vars
  <2>1. UNCHANGED <<events, idempotency>>
    BY <1>1 DEF ReadEvents, TransitionWake, MoveSessions, vars
  <2>2. \A t \in Target : dispatches[t] \in DispatchRecord
    BY DEF TypeOK
  <2>3. \A t \in Target : Armed(t)' => Armed(t)
    BY <1>1, <2>2 DEF ReadEvents, TransitionWake, MoveSessions, vars, Armed, DispatchRecord
  <2>4. ReceiptsWithin' /\ IsFiniteSet(DOMAIN idempotency')
    BY <2>1 DEF OverdueInv, ReceiptsWithin
  <2>5. \A t \in Target : ReportsOn(t)' = ReportsOn(t) /\ SettingsOf(t)' = SettingsOf(t)
    BY <2>1 DEF ReportsOn, Producers, SettingsOf, RevisingReceipts, Revising
  <2>6. \A t \in Target : Asked(t)'
    BY <2>3, <2>5, AsksNothing DEF OverdueInv
  <2> QED BY <2>4, <2>6 DEF OverdueInv
<1> QED
  BY <1>1, SetDeadlineAsks, OthersAsk, ExpireAsks DEF Next, RebindSession, ReconcileSession

(* The overdue reports on a dispatch are at most as many as the deadlines it was given, for *)
(* any ticks, settings and completions: one informational message per setting.              *)
THEOREM OverdueIsReportedOnce == Spec => []OverdueOncePerSetting
<1>1. Init => OverdueInv
  <2> SUFFICES ASSUME Init PROVE OverdueInv
    OBVIOUS
  <2>1. DOMAIN idempotency = {} /\ events = << >> /\ DOMAIN events = {}
    BY DEF Init, EmptyMap
  <2>2. IsFiniteSet(DOMAIN idempotency) /\ ReceiptsWithin
    BY <2>1, FS_EmptySet DEF ReceiptsWithin
  <2>3. Cardinality({}) = 0
    BY FS_EmptySet
  <2>4. \A t \in Target : Asked(t)
    <3> SUFFICES ASSUME NEW t \in Target PROVE Asked(t)
      OBVIOUS
    <3>1. ReportsOn(t) = {} /\ SettingsOf(t) = {}
      BY <2>1 DEF ReportsOn, SettingsOf, RevisingReceipts
    <3>2. ~Armed(t)
      BY DEF Init, Absent, Armed
    <3> QED BY <2>3, <3>1, <3>2 DEF Asked
  <2> QED BY <2>2, <2>4 DEF OverdueInv
<1>2. TypeOK /\ OverdueInv => OverdueOncePerSetting
  <2> SUFFICES ASSUME TypeOK, OverdueInv, NEW t \in Target
               PROVE  Cardinality(ReportsOn(t)) <= Cardinality(SettingsOf(t))
    BY DEF OverdueOncePerSetting, ReportsOn, SettingsOf
  <2>1. Cardinality(ReportsOn(t)) \in Nat /\ Cardinality(SettingsOf(t)) \in Nat
    BY CountsAreNumbers DEF OverdueInv
  <2> QED BY <2>1 DEF OverdueInv, Asked
<1> QED BY <1>1, <1>2, NextAsked, TypeCorrect, PTL DEF Spec
=============================================================================
