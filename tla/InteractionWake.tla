-------------------------- MODULE InteractionWake --------------------------
(***************************************************************************)
(* The drivers that wake the readers of deliveries by typing a prompt into *)
(* their sessions (control-plane/src/interaction_wake.rs): the handler of  *)
(* the request that sent the delivery, one more for every time the client  *)
(* repeats that request, and one retry loop that rediscovers the wakes     *)
(* that were refused.  The receipts are those of DeliveryWake; the drivers *)
(* run concurrently, work from snapshots and lose everything in a crash.   *)
(*                                                                         *)
(* The prompt deliverer is external: it types the prompt, refuses it with  *)
(* proof that nothing was written, or fails without such proof.  Receipt   *)
(* timestamps are kept as the order in which wakes were queued.            *)
(***************************************************************************)
EXTENDS Naturals, Sequences, SequencesExt, DeliveryWake

CONSTANTS
    Delivery,           \* deliveries to endpoints that can be woken
    Sending,            \* the times a client sends the request of a delivery
    Dispatches,         \* the dispatches of the authority, in the order of the index
    Reaches,            \* <<delivery, dispatch>>: the dispatch's session reads the delivery
    Limit,              \* WAKE_RETRY_LIMIT: rows of queued wakes read per tick
    PerTick,            \* WAKE_RETRY_ATTEMPTS_PER_TICK
    MaxCrashes          \* bound: restarts of the backend

ASSUME WakeAssumption ==
    /\ Dispatches # << >>
    /\ Reaches \subseteq Delivery \X Range(Dispatches)
    /\ Limit \in Nat \ {0}
    /\ PerTick \in Nat \ {0}
    /\ MaxCrashes \in Nat

Retryable == "workflow_prompt_provider_busy"
Permanent == "provider_wake_runtime_unsupported"
Effect == "wake_effect"

VARIABLES
    wake,               \* [Delivery -> wake receipt]
    backlog,            \* the queued wakes, the one queued longest ago first
    unread,             \* deliveries that their reader has not observed
    expired,            \* deliveries past the retry window
    handler,            \* [Delivery \X Sending -> step of the request's handler]
    retry,              \* the retry loop: its step and the rest of its batch
    attempted,          \* deliveries the retry loop tried on its last tick
    typed,              \* history: [Delivery -> prompts typed]
    crashes

vars == <<wake, backlog, unread, expired, handler, retry, attempted, typed, crashes>>
outside == <<unread, expired, crashes>>

-----------------------------------------------------------------------------
(* transition_wake: one transition of a receipt in the store.              *)

Applies(d, kind) == WakeApplies(wake[d], d \in unread, kind)

\* The receipt, and the place of its delivery in the backlog.
Transition(d, kind, outcome) ==
    /\ wake' = [wake EXCEPT ![d] = WakeReplacement(kind, TRUE, outcome, 0)]
    /\ backlog' = IF kind = "queued" THEN Append(backlog, d)
                  ELSE RemoveFirst(backlog, d)

Unchanged == UNCHANGED <<wake, backlog>>

-----------------------------------------------------------------------------
(* claim_and_deliver for delivery d, for whichever driver: the step of the *)
(* driver after each of its parts.                                         *)

Refusal == {Retryable, Permanent}

\* Faulty: goes on to type although the claim is somebody else's.
AfterClaimFaulty(d) == "claimed"

AfterClaim(d) == IF Applies(d, "claim") THEN "claimed" ELSE "done"

Claim(d) == IF Applies(d, "claim") THEN Transition(d, "claim", None) ELSE Unchanged

\* deliver, the adapter to the terminal host: the request is refused before anything is typed
\* (invalid, another runtime, no such session), the prompt is typed, or the worker is lost on
\* the way, perhaps after it was typed.
Deliver(d, after) ==
    /\ Unchanged
    /\ \/ after \in {"typed", "done"} /\ typed' = [typed EXCEPT ![d] = @ + 1]
       \/ after \in Refusal \cup {"done"} /\ UNCHANGED typed

\* Faulty: records a refusal as a prompt that was typed.
OutcomeOfFaulty(step) == [kind |-> "triggered", outcome |-> Effect]

OutcomeOf(step) ==
    IF step = "typed" THEN [kind |-> "triggered", outcome |-> Effect]
    ELSE [kind |-> "queued", outcome |-> step]

\* The outcome of the claim is recorded, unless the receipt refuses it.
RecordOutcome(d, step) ==
    IF Applies(d, OutcomeOf(step).kind)
    THEN Transition(d, OutcomeOf(step).kind, OutcomeOf(step).outcome)
    ELSE Unchanged

-----------------------------------------------------------------------------
(* wake_exact_session_delivery                                             *)

HandlerAt(h, step) == handler' = [handler EXCEPT ![h] = step]

\* A repeated request goes on only with a wake that is still pending.
HandlerRequests(h) ==
    /\ handler[h] = "start"
    /\ \/ /\ Applies(h[1], "request")
          /\ Transition(h[1], "request", None)
          /\ HandlerAt(h, "requested")
       \/ /\ ~Applies(h[1], "request")
          /\ Unchanged
          /\ HandlerAt(h, IF wake[h[1]].state = "pending" THEN "requested" ELSE "done")
    /\ UNCHANGED <<retry, attempted, typed, outside>>

HandlerClaims(h) ==
    /\ handler[h] = "requested"
    /\ Claim(h[1])
    /\ HandlerAt(h, AfterClaim(h[1]))
    /\ UNCHANGED <<retry, attempted, typed, outside>>

HandlerDelivers(h) ==
    /\ handler[h] = "claimed"
    /\ \E after \in Refusal \cup {"typed", "done"} : Deliver(h[1], after) /\ HandlerAt(h, after)
    /\ UNCHANGED <<retry, attempted, outside>>

HandlerRecords(h) ==
    /\ handler[h] \in Refusal \cup {"typed"}
    /\ RecordOutcome(h[1], handler[h])
    /\ HandlerAt(h, "done")
    /\ UNCHANGED <<retry, attempted, typed, outside>>

-----------------------------------------------------------------------------
(* retry_queued_wakes                                                      *)

Take(rows, n) == SubSeq(rows, 1, IF Len(rows) < n THEN Len(rows) ELSE n)

\* queued_orchestration_wakes: unread, refused for a reason that can change, young
\* enough, oldest first and at most Limit rows.  The query joins a delivery with every
\* dispatch of its authority, so each wake comes with one row per dispatch.
QueuedWakes ==
    LET waiting == SelectSeq(backlog, LAMBDA d : /\ d \in unread \ expired
                                                 /\ wake[d].outcome = Retryable)
        width == Len(Dispatches)
    IN  Take([i \in 1 .. Len(waiting) * width |->
                <<waiting[1 + ((i - 1) \div width)], Dispatches[1 + ((i - 1) % width)]>>], Limit)

\* Faulty: tries the same wakes on every tick.
DueFaulty == Take(QueuedWakes, PerTick)

\* The wait between two attempts is at least two ticks.  All rows of a tick are chosen
\* before the first of them is tried.
Due == Take(SelectSeq(QueuedWakes, LAMBDA row : row[1] \notin attempted), PerTick)

RetryTick ==
    /\ retry.step = "idle"
    /\ retry' = [step |-> IF Due = << >> THEN "idle" ELSE "next", batch |-> Due]
    /\ attempted' = {row[1] : row \in ToSet(Due)}
    /\ UNCHANGED <<wake, backlog, handler, typed, outside>>

\* The batch goes on when an attempt is done, whatever became of it.
RetryAt(step) ==
    retry' = IF step # "done" THEN [step |-> step, batch |-> retry.batch]
             ELSE [step |-> IF Len(retry.batch) = 1 THEN "idle" ELSE "next",
                   batch |-> Tail(retry.batch)]

\* The delivery and the dispatch of the row that is being tried.
Trying == Head(retry.batch)

\* The session of the row is gone, or it is not the one that reads the delivery.
RetrySkips ==
    /\ retry.step = "next"
    /\ Trying \notin Reaches
    /\ RetryAt("done")
    /\ UNCHANGED <<wake, backlog, handler, attempted, typed, outside>>

RetryClaims ==
    /\ retry.step = "next"
    /\ Trying \in Reaches
    /\ Claim(Trying[1])
    /\ RetryAt(AfterClaim(Trying[1]))
    /\ UNCHANGED <<handler, attempted, typed, outside>>

RetryDelivers ==
    /\ retry.step = "claimed"
    /\ \E after \in Refusal \cup {"typed", "done"} :
         Deliver(Trying[1], after) /\ RetryAt(after)
    /\ UNCHANGED <<handler, attempted, outside>>

RetryRecords ==
    /\ retry.step \in Refusal \cup {"typed"}
    /\ RecordOutcome(Trying[1], retry.step)
    /\ RetryAt("done")
    /\ UNCHANGED <<handler, attempted, typed, outside>>

-----------------------------------------------------------------------------
(* The reader, the clock and the backend process.                          *)

Reads(d) ==
    /\ d \in unread
    /\ unread' = unread \ {d}
    /\ UNCHANGED <<wake, backlog, expired, handler, retry, attempted, typed, crashes>>

WindowCloses(d) ==
    /\ d \notin expired
    /\ expired' = expired \cup {d}
    /\ UNCHANGED <<wake, backlog, unread, handler, retry, attempted, typed, crashes>>

\* The backend restarts: handlers are gone, the retry loop starts afresh.
Crash ==
    /\ crashes < MaxCrashes
    /\ crashes' = crashes + 1
    /\ handler' = [h \in DOMAIN handler |-> IF handler[h] = "start" THEN "start" ELSE "done"]
    /\ retry' = [step |-> "idle", batch |-> << >>]
    /\ attempted' = {}
    /\ UNCHANGED <<wake, backlog, unread, expired, typed>>

-----------------------------------------------------------------------------
Init ==
    /\ wake = [d \in Delivery |-> NoWake]
    /\ backlog = << >>
    /\ unread = Delivery
    /\ expired = {}
    /\ handler = [h \in Delivery \X Sending |-> "start"]
    /\ retry = [step |-> "idle", batch |-> << >>]
    /\ attempted = {}
    /\ typed = [d \in Delivery |-> 0]
    /\ crashes = 0

RetryStep == RetryTick \/ RetrySkips \/ RetryClaims \/ RetryDelivers \/ RetryRecords

Next ==
    \/ \E h \in Delivery \X Sending : \/ HandlerRequests(h) \/ HandlerClaims(h)
                                      \/ HandlerDelivers(h) \/ HandlerRecords(h)
    \/ \E d \in Delivery : Reads(d) \/ WindowCloses(d)
    \/ RetryStep
    \/ Crash

Spec == Init /\ [][Next]_vars

\* The retry loop ticks for as long as the backend runs; a prompt delivery is bounded
\* by its own timeout.
FairSpec == Spec /\ WF_vars(RetryStep)

-----------------------------------------------------------------------------
Steps == Refusal \cup {"claimed", "typed"}

(* Every variable has its type. *)
TypeOK ==
    /\ wake \in [Delivery -> [state : WakeStates, outcome : {None, Retryable, Permanent, Effect},
                              at : {0}]]
    /\ backlog \in Seq(Delivery)
    /\ unread \subseteq Delivery
    /\ expired \subseteq Delivery
    /\ handler \in [Delivery \X Sending -> Steps \cup {"start", "requested", "done"}]
    /\ retry \in [step : Steps \cup {"idle", "next"}, batch : Seq(Delivery \X Range(Dispatches))]
    /\ attempted \subseteq Delivery
    /\ typed \in [Delivery -> Nat]
    /\ crashes \in 0 .. MaxCrashes

\* A prompt is typed at most once for a delivery, by handlers and retries together and
\* across restarts ("an uncertain write stays uncertain and is never retried").
TypedAtMostOnce == \A d \in Delivery : typed[d] <= 1

\* The receipt tells the truth about the terminal: a triggered wake was typed, and one
\* that may be claimed was not; and the backlog of the retries lists exactly the wakes
\* that are queued, each once.
ReceiptIsTruthful ==
    /\ \A d \in Delivery :
         /\ wake[d].state = "triggered" => typed[d] = 1
         /\ wake[d].state \in {"none", "pending", "queued"} => typed[d] = 0
    /\ ToSet(backlog) = {d \in Delivery : wake[d].state = "queued"}
    /\ Len(backlog) = Cardinality(ToSet(backlog))

\* A refused wake that the retry loop has to try again.
Waits(d) == wake[d].state = "queued" /\ wake[d].outcome = Retryable /\ d \in unread \ expired

\* Every delivery whose wake was refused for a passing reason, and whose session is still
\* there, is tried again while it is unread and its retry window is open ("Retry each
\* unread delivery until its Session admits the inbox prompt or the retry window closes").
RefusedIsRetried ==
    \A d \in Delivery :
        (\E t \in Range(Dispatches) : <<d, t>> \in Reaches) => (Waits(d) ~> ~Waits(d))
=============================================================================
