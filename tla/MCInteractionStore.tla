------------------------- MODULE MCInteractionStore -------------------------
(***************************************************************************)
(* Small instances of InteractionStore for TLC.  Every run uses the same   *)
(* cast; the request sets of a run select the part of the store it drives. *)
(* Each idempotency key is accepted once per operation and dispatch, so    *)
(* the keys bound the event log and every instance is finite.              *)
(***************************************************************************)
EXTENDS InteractionStore

CONSTANTS i1, i2, i3

Targets == {"t1", "t2"}
People == {"boss", "worker1", "worker2"}
Bosses == [t \in Targets |-> "boss"]
Workers == [t \in Targets |-> IF t = "t1" THEN "worker1" ELSE "worker2"]
OneWakeable == {"t1"}
Reasons == {"wake_capability_unavailable", "hmux_busy", "effect"}

Creates(keys, targets, sessions) ==
    [op : {"create_run"}, key : keys, target : targets, session : sessions]
Opens(keys, targets, kinds, ids, audiences, revisions) ==
    [op : {"open"}, key : keys, target : targets, kind : kinds, id : ids,
     audience : audiences, expected : revisions]
Answers(keys, targets, ids, people, revisions) ==
    [op : {"answer"}, key : keys, target : targets, id : ids, by : people,
     expectedInteraction : {1}, expected : revisions]
Completes(keys, targets, ids, people, sessions, revisions) ==
    [op : {"complete"}, key : keys, target : targets, id : ids, by : people,
     session : sessions, audience : {{"boss"}}, expected : revisions]
Deadlines(keys, targets, dues, revisions) ==
    [op : {"deadline"}, key : keys, target : targets, due : dues, expected : revisions]

Nothing == {}

-----------------------------------------------------------------------------
(* Lifecycle: two dispatches of one authority, decisions and messages that *)
(* compete for ids, keys and revisions, and deadlines set, moved and       *)
(* cleared around blocks and completions while the clock reads either      *)
(* instant.                                                                *)
LifecycleCreates == Creates({"k1"}, {"t1"}, {"s1"}) \cup Creates({"k2"}, {"t2"}, {"s2"})
LifecycleTimes == {1, 2}
LifecycleOpens ==
    Opens({"k1"}, {"t1"}, {"decision", "message"}, {i1}, {{"boss"}}, 1 .. 3)
      \cup Opens({"k1"}, {"t2"}, {"decision"}, {i1, i2}, {{"boss"}}, {1})
LifecycleAnswers ==
    Answers({"k1"}, {"t1"}, {i1}, {"boss", "worker1"}, 2 .. 4)
      \cup Answers({"k1"}, {"t2"}, {i1}, {"boss"}, {2})
LifecycleCompletes == Completes({"k1"}, {"t1"}, {i2}, {"worker1"}, {"s1"}, 1 .. 5)
DeadlineSets ==
    Deadlines({"k1", "k2"}, {"t1"}, {1, 2, None}, 1 .. 5)
      \cup Deadlines({"k1"}, {"t2"}, {2}, {1})

-----------------------------------------------------------------------------
(* Mail: the coordinator of two dispatches and the worker of one page      *)
(* through their mail and acknowledge it, retrying with used keys, while   *)
(* wake drivers move the worker's receipts and its session is rebound.     *)
Reads(people, targets, sessions, afters, limits, acks) ==
    {r \in [participant : people, target : targets, session : sessions, after : afters,
            limit : limits, ack : acks] :
        /\ r.session # None => r.target # None
        /\ r.ack # None => r.ack.through <= r.after}
Acks(keys, throughs) == {None} \cup [key : keys, through : throughs]

MailTimes == {1, 2}
MailCreates == LifecycleCreates
MailOpens == Opens({"k1"}, {"t1"}, {"message"}, {i1}, {{"boss", "worker1"}}, {1})
MailReads ==
    Reads({"boss"}, {None, "t1"}, {None}, {0, 3}, {1, 4}, Acks({"k1"}, {2, 3}))
      \cup Reads({"worker1"}, {"t1"}, {"s1", "s3"}, {0, 3}, {1, 4}, Acks({"k1"}, {3}))
Wakes ==
    [receipt : (1 .. 3) \X {"boss", "worker1", "worker2"}, session : {"s1", "s2", "s3"},
     capable : BOOLEAN, kind : {"request"}, outcome : {None}, at : {1}]
      \cup [receipt : (1 .. 3) \X {"boss", "worker2"}, session : {"s1", "s2"},
            capable : {TRUE}, kind : {"claim"}, outcome : {None}, at : {1}]
      \cup [receipt : (1 .. 3) \X {"worker1"}, session : {"s1", "s3"},
            capable : {TRUE}, kind : {"claim"}, outcome : {None}, at : MailTimes]
      \cup [receipt : (1 .. 3) \X {"worker1"}, session : {"s1", "s3"}, capable : {TRUE},
            kind : {"queued"}, outcome : {"hmux_busy"}, at : {1}]
      \cup [receipt : (1 .. 3) \X {"worker1"}, session : {"s1", "s3"}, capable : {TRUE},
            kind : {"triggered"}, outcome : {"effect"}, at : {1}]
MailMoves == {<<"s1", "s3">>}

-----------------------------------------------------------------------------
(* Sessions: dispatches created on, completed on and rebound between three *)
(* sessions.  Three dispatches are needed for the case where both sessions *)
(* of a rebind are working and one has a completed dispatch with mail.     *)
SessionTimes == {0}
SessionTargets == {"t1", "t2", "t3"}
SessionBosses == [t \in SessionTargets |-> "boss"]
SessionWorkers == [t \in SessionTargets |-> IF t = "t1" THEN "worker1" ELSE "worker2"]
SessionCreates ==
    Creates({"k1"}, {"t1"}, {"s1"}) \cup Creates({"k2"}, {"t2"}, {"s2"})
      \cup Creates({"k3"}, {"t3"}, {"s1"})
SessionOpens == Opens({"k1"}, {"t1"}, {"decision"}, {i1}, {{"worker1"}, {"boss"}}, {1})
SessionAnswers == Answers({"k1"}, {"t1"}, {i1}, {"worker1", "boss"}, {2})
SessionCompletes ==
    Completes({"k1"}, {"t1"}, {i2}, {"worker1"}, {"s1", "s2"}, {3})
      \cup Completes({"k1"}, {"t3"}, {i3}, {"worker2"}, {"s1"}, {1})
SessionReads ==
    Reads({"boss"}, {"t3"}, {None}, {0}, {4}, {None})
      \cup Reads({"worker1"}, {"t1"}, {"s1"}, {0}, {4}, {None})
SessionMoves == {<<"s1", "s2">>, <<"s2", "s3">>, <<"s3", "s1">>}
=============================================================================
