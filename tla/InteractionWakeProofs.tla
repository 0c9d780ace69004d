----------------------- MODULE InteractionWakeProofs -----------------------
(***************************************************************************)
(* Proofs about InteractionWake for any set of deliveries, any number of   *)
(* repeated requests and restarts, and any join of wakes with dispatches.  *)
(***************************************************************************)
EXTENDS InteractionWake, SequenceTheorems, FiniteSetTheorems, TLAPS

-----------------------------------------------------------------------------
(* Sequences without repetitions.                                          *)

Lists(s, x) == \E i \in 1 .. Len(s) : s[i] = x

Distinct(s) == \A i, j \in 1 .. Len(s) : s[i] = s[j] => i = j

(* Taking an element out of a sequence without repetitions. *)
LEMMA RemoveFirstDistinct ==
    ASSUME NEW S, NEW s \in Seq(S), Distinct(s), NEW e
    PROVE  /\ RemoveFirst(s, e) \in Seq(S)
           /\ Distinct(RemoveFirst(s, e))
           /\ \A x : Lists(RemoveFirst(s, e), x) <=> Lists(s, x) /\ x # e
<1>1. CASE ~Lists(s, e)
  <2>1. RemoveFirst(s, e) = s
    BY <1>1 DEF RemoveFirst, Lists
  <2> QED BY <1>1, <2>1 DEF Lists
<1>2. CASE Lists(s, e)
  <2>1. PICK i \in 1 .. Len(s) : s[i] = e
    BY <1>2 DEF Lists
  <2>2. {j \in 1 .. Len(s) : s[j] = e} = {i}
    BY <2>1 DEF Distinct
  <2>3. Len(s) \in Nat /\ i \in Nat
    BY <2>1
  <2>4. Min({i}) = i
    BY <2>3 DEF Min
  <2>5. SelectInSeq(s, LAMBDA v : v = e) = i
    BY <2>2, <2>4 DEF SelectInSeq
  <2>6. RemoveFirst(s, e) = RemoveAt(s, i)
    BY <1>2, <2>5 DEF RemoveFirst, Lists
  <2> DEFINE front == SubSeq(s, 1, i - 1)
             back == SubSeq(s, i + 1, Len(s))
             r == front \o back
  <2>7. /\ r \in Seq(S)
        /\ Len(r) = Len(s) - 1
        /\ \A k \in 1 .. Len(s) - 1 : r[k] = IF k < i THEN s[k] ELSE s[k + 1]
    <3>1. /\ front \in Seq(S) /\ Len(front) = i - 1
          /\ \A k \in 1 .. i - 1 : front[k] = s[k]
      BY <2>1, <2>3
    <3>2. /\ back \in Seq(S) /\ Len(back) = Len(s) - i
          /\ \A k \in 1 .. Len(s) - i : back[k] = s[k + i]
      BY <2>1, <2>3
    <3> HIDE DEF front, back
    <3>3. /\ r \in Seq(S) /\ Len(r) = Len(front) + Len(back)
          /\ \A k \in 1 .. Len(front) + Len(back) :
               r[k] = IF k <= Len(front) THEN front[k] ELSE back[k - Len(front)]
      BY <3>1, <3>2, ConcatProperties
    <3>4. Len(r) = Len(s) - 1
      BY <2>3, <3>1, <3>2, <3>3
    <3>5. ASSUME NEW k \in 1 .. Len(s) - 1 PROVE r[k] = IF k < i THEN s[k] ELSE s[k + 1]
      <4>1. CASE k < i
        BY <2>3, <3>1, <3>2, <3>3, <4>1
      <4>2. CASE ~(k < i)
        <5>1. k - (i - 1) \in 1 .. Len(s) - i /\ k - (i - 1) + i = k + 1
          BY <2>1, <2>3, <4>2
        <5>2. r[k] = back[k - (i - 1)]
          BY <2>3, <3>1, <3>2, <3>3, <4>2
        <5> QED BY <3>2, <4>2, <5>1, <5>2
      <4> QED BY <4>1, <4>2
    <3> QED BY <3>3, <3>4, <3>5
  <2> HIDE DEF r
  <2>8. Distinct(r)
    BY <2>1, <2>3, <2>7 DEF Distinct
  <2>9. ASSUME NEW x PROVE Lists(r, x) <=> Lists(s, x) /\ x # e
    <3>1. ASSUME Lists(r, x) PROVE Lists(s, x) /\ x # e
      <4>1. PICK k \in 1 .. Len(s) - 1 : r[k] = x
        BY <3>1, <2>7 DEF Lists
      <4>2. PICK j \in 1 .. Len(s) : s[j] = x /\ j # i
        BY <4>1, <2>1, <2>3, <2>7
      <4> QED BY <4>2, <2>1 DEF Lists, Distinct
    <3>2. ASSUME Lists(s, x), x # e PROVE Lists(r, x)
      <4>1. PICK j \in 1 .. Len(s) : s[j] = x
        BY <3>2 DEF Lists
      <4>2. j # i
        BY <4>1, <2>1, <3>2
      <4>3. CASE j < i
        BY <4>1, <4>3, <2>1, <2>3, <2>7 DEF Lists
      <4>4. CASE j > i
        <5>1. j - 1 \in 1 .. Len(s) - 1 /\ r[j - 1] = x
          BY <4>1, <4>4, <2>1, <2>3, <2>7
        <5> QED BY <5>1, <2>7 DEF Lists
      <4> QED BY <4>2, <4>3, <4>4, <2>3
    <3> QED BY <3>1, <3>2
  <2> QED BY <2>6, <2>7, <2>8, <2>9 DEF RemoveAt, front, back, r
<1> QED BY <1>1, <1>2

(* Putting a new element at the end of a sequence without repetitions. *)
LEMMA AppendDistinct ==
    ASSUME NEW S, NEW s \in Seq(S), Distinct(s), NEW e \in S, ~Lists(s, e)
    PROVE  /\ Append(s, e) \in Seq(S)
           /\ Distinct(Append(s, e))
           /\ \A x : Lists(Append(s, e), x) <=> Lists(s, x) \/ x = e
<1>1. /\ Append(s, e) \in Seq(S) /\ Len(Append(s, e)) = Len(s) + 1 /\ Len(s) \in Nat
      /\ \A k \in 1 .. Len(s) + 1 : Append(s, e)[k] = IF k = Len(s) + 1 THEN e ELSE s[k]
  OBVIOUS
<1>2. Distinct(Append(s, e))
  BY <1>1 DEF Distinct, Lists
<1>3. \A x : Lists(Append(s, e), x) => Lists(s, x) \/ x = e
  BY <1>1 DEF Lists
<1>4. \A x : Lists(s, x) => Lists(Append(s, e), x)
  BY <1>1 DEF Lists
<1>5. Lists(Append(s, e), e)
  BY <1>1 DEF Lists
<1> QED BY <1>1, <1>2, <1>3, <1>4, <1>5

(* A sequence without repetitions is as long as the set of its elements is large. *)
LEMMA DistinctLength ==
    ASSUME NEW S, NEW s \in Seq(S), Distinct(s)
    PROVE  Len(s) = Cardinality(ToSet(s))
<1>1. Len(s) \in Nat /\ DOMAIN s = 1 .. Len(s) /\ s \in [1 .. Len(s) -> ToSet(s)]
  BY DEF ToSet
<1>2. s \in Bijection(1 .. Len(s), ToSet(s))
  BY <1>1 DEF Bijection, Injection, Surjection, IsInjective, ToSet, Distinct
<1>3. ExistsBijection(1 .. Len(s), ToSet(s))
  BY <1>2 DEF ExistsBijection
<1> QED BY <1>1, <1>3, FS_CountingElements

-----------------------------------------------------------------------------
(* The inductive invariant.                                                *)

ReceiptRecord ==
    [state : WakeStates, outcome : {None, Retryable, Permanent, Effect}, at : {0}]

\* The types of what a wake is decided on (the batch of the retries is not one of them).
Types ==
    /\ wake \in [Delivery -> ReceiptRecord]
    /\ backlog \in Seq(Delivery)
    /\ handler \in [Delivery \X Sending -> Steps \cup {"start", "requested", "done"}]
    /\ retry.step \in Steps \cup {"idle", "next"}
    /\ typed \in [Delivery -> Nat]

\* What a driver in the middle of a delivery knows: the receipt is uncertain, and whether
\* the prompt was typed.
KnownAt(step, d) ==
    /\ wake[d].state = "uncertain"
    /\ step = "typed" => typed[d] = 1
    /\ step # "typed" => typed[d] = 0

ClaimsHeld ==
    /\ \A h \in Delivery \X Sending : handler[h] \in Steps => KnownAt(handler[h], h[1])
    /\ retry.step \in Steps => Trying \in Reaches /\ KnownAt(retry.step, Trying[1])

\* At most one driver is in the middle of a delivery.
ClaimsExclusive ==
    /\ \A g, h \in Delivery \X Sending :
         handler[g] \in Steps /\ handler[h] \in Steps /\ g[1] = h[1] => g = h
    /\ retry.step \in Steps =>
         \A h \in Delivery \X Sending : handler[h] \in Steps => h[1] # Trying[1]

\* What the receipt says of the terminal.
TypedAsKnown ==
    \A d \in Delivery :
        /\ typed[d] \in {0, 1}
        /\ wake[d].state = "triggered" => typed[d] = 1
        /\ wake[d].state \in {"none", "pending", "queued"} => typed[d] = 0

\* The backlog lists the queued wakes, each once.
BacklogExact ==
    /\ \A d \in Delivery : wake[d].state = "queued" <=> Lists(backlog, d)
    /\ Distinct(backlog)

IInv == Types /\ ClaimsHeld /\ ClaimsExclusive /\ TypedAsKnown /\ BacklogExact

-----------------------------------------------------------------------------
(* Every step keeps the invariant.                                         *)

StateAfter(kind) ==
    IF kind = "request" THEN "pending" ELSE IF kind = "claim" THEN "uncertain" ELSE kind

(* A transition of a receipt changes that receipt only, and keeps the backlog exact. *)
LEMMA TransitionEffect ==
    ASSUME Types, BacklogExact, NEW d \in Delivery, NEW kind \in WakeKinds,
           NEW outcome \in {None, Retryable, Permanent, Effect},
           Applies(d, kind), Transition(d, kind, outcome)
    PROVE  /\ wake' \in [Delivery -> ReceiptRecord]
           /\ wake'[d].state = StateAfter(kind)
           /\ \A x \in Delivery \ {d} : wake'[x] = wake[x]
           /\ backlog' \in Seq(Delivery)
           /\ BacklogExact'
<1>1. /\ WakeReplacement(kind, TRUE, outcome, 0) \in ReceiptRecord
      /\ WakeReplacement(kind, TRUE, outcome, 0).state = StateAfter(kind)
  BY DEF WakeReplacement, ReceiptRecord, WakeStates, WakeKinds, StateAfter
<1>2. /\ wake' \in [Delivery -> ReceiptRecord]
      /\ wake'[d].state = StateAfter(kind)
      /\ \A x \in Delivery \ {d} : wake'[x] = wake[x]
  BY <1>1 DEF Types, Transition
<1>3. CASE kind = "queued"
  <2>1. wake[d].state = "uncertain" /\ backlog' = Append(backlog, d)
    BY <1>3 DEF Applies, WakeApplies, Transition
  <2>2. ~Lists(backlog, d)
    BY <2>1 DEF BacklogExact
  <2>3. /\ backlog' \in Seq(Delivery) /\ Distinct(backlog')
        /\ \A x : Lists(backlog', x) <=> Lists(backlog, x) \/ x = d
    BY <2>1, <2>2, AppendDistinct DEF Types, BacklogExact
  <2>4. wake'[d].state = "queued"
    BY <1>2, <1>3 DEF StateAfter
  <2>5. \A x \in Delivery : wake'[x].state = "queued" <=> Lists(backlog', x)
    BY <1>2, <2>3, <2>4 DEF BacklogExact
  <2> QED BY <1>2, <2>3, <2>5 DEF BacklogExact
<1>4. CASE kind # "queued"
  <2>1. backlog' = RemoveFirst(backlog, d)
    BY <1>4 DEF Transition
  <2>2. /\ backlog' \in Seq(Delivery) /\ Distinct(backlog')
        /\ \A x : Lists(backlog', x) <=> Lists(backlog, x) /\ x # d
    BY <2>1, RemoveFirstDistinct DEF Types, BacklogExact
  <2>3. wake'[d].state # "queued"
    BY <1>2, <1>4 DEF StateAfter, WakeKinds
  <2>4. \A x \in Delivery : wake'[x].state = "queued" <=> Lists(backlog', x)
    BY <1>2, <2>2, <2>3 DEF BacklogExact
  <2> QED BY <1>2, <2>2, <2>4 DEF BacklogExact
<1> QED BY <1>3, <1>4

(* A claim that applies finds no driver in the middle of the delivery, and nothing typed. *)
LEMMA ClaimIsFresh ==
    ASSUME IInv, NEW d \in Delivery, Applies(d, "claim")
    PROVE  /\ \A h \in Delivery \X Sending : handler[h] \in Steps => h[1] # d
           /\ retry.step \in Steps => Trying[1] # d
           /\ typed[d] = 0
<1>1. wake[d].state \in {"pending", "queued"}
  BY DEF Applies, WakeApplies
<1> QED BY <1>1 DEF IInv, ClaimsHeld, KnownAt, TypedAsKnown

(* The row that is being tried names a delivery. *)
LEMMA TryingDelivery == Trying \in Reaches => Trying[1] \in Delivery
  BY WakeAssumption

(* A request finds no driver in the middle of the delivery. *)
LEMMA HandlerRequestsStep ==
    ASSUME IInv, NEW h \in Delivery \X Sending, HandlerRequests(h)
    PROVE  IInv'
<1>1. h[1] \in Delivery /\ handler[h] = "start" /\ UNCHANGED <<retry, typed>>
  BY DEF HandlerRequests
<1>2. PICK step \in {"requested", "done"} : HandlerAt(h, step)
  BY DEF HandlerRequests
<1>3. /\ handler' \in [Delivery \X Sending -> Steps \cup {"start", "requested", "done"}]
      /\ \A g \in Delivery \X Sending : handler'[g] \in Steps => g # h /\ handler'[g] = handler[g]
  BY <1>2 DEF IInv, Types, HandlerAt, Steps, Refusal, Retryable, Permanent
<1>4. CASE Applies(h[1], "request") /\ Transition(h[1], "request", None)
  <2>1. wake[h[1]].state = "none"
    BY <1>4 DEF Applies, WakeApplies
  <2>2. /\ wake' \in [Delivery -> ReceiptRecord]
        /\ wake'[h[1]].state = "pending"
        /\ \A x \in Delivery \ {h[1]} : wake'[x] = wake[x]
        /\ backlog' \in Seq(Delivery)
        /\ BacklogExact'
    BY <1>1, <1>4, TransitionEffect DEF IInv, WakeKinds, StateAfter
  <2>3. Types'
    BY <1>1, <1>3, <2>2 DEF IInv, Types
  <2>4. ClaimsHeld'
    <3>1. \A g \in Delivery \X Sending : handler'[g] \in Steps => KnownAt(handler[g], g[1])'
      BY <1>1, <1>3, <2>1, <2>2 DEF IInv, ClaimsHeld, KnownAt
    <3>2. retry'.step \in Steps => Trying' \in Reaches /\ KnownAt(retry.step, Trying[1])'
      BY <1>1, <2>1, <2>2, TryingDelivery DEF IInv, ClaimsHeld, KnownAt, Trying
    <3> QED BY <3>1, <3>2 DEF ClaimsHeld
  <2>5. ClaimsExclusive'
    BY <1>1, <1>3 DEF IInv, ClaimsExclusive, Trying
  <2>6. TypedAsKnown'
    BY <1>1, <2>1, <2>2 DEF IInv, TypedAsKnown
  <2> QED BY <2>2, <2>3, <2>4, <2>5, <2>6 DEF IInv
<1>5. CASE Unchanged
  <2>1. UNCHANGED <<wake, backlog>>
    BY <1>5 DEF Unchanged
  <2>2. Types' /\ TypedAsKnown' /\ BacklogExact'
    BY <1>1, <1>3, <2>1 DEF IInv, Types, TypedAsKnown, BacklogExact
  <2>3. ClaimsHeld' /\ ClaimsExclusive'
    BY <1>1, <1>3, <2>1 DEF IInv, ClaimsHeld, ClaimsExclusive, KnownAt, Trying
  <2> QED BY <2>2, <2>3 DEF IInv
<1> QED BY <1>4, <1>5 DEF HandlerRequests

(* A handler that stops leaves the delivery to the others. *)
LEMMA HandlerIsDone ==
    ASSUME IInv, NEW h \in Delivery \X Sending, handler' = [handler EXCEPT ![h] = "done"],
           UNCHANGED <<wake, backlog, retry, typed>>
    PROVE  IInv'
<1>1. /\ handler' \in [Delivery \X Sending -> Steps \cup {"start", "requested", "done"}]
      /\ \A g \in Delivery \X Sending : handler'[g] \in Steps => handler'[g] = handler[g]
  BY DEF IInv, Types, Steps, Refusal, Retryable, Permanent
<1>2. Types' /\ TypedAsKnown' /\ BacklogExact'
  BY <1>1 DEF IInv, Types, TypedAsKnown, BacklogExact
<1>3. ClaimsHeld' /\ ClaimsExclusive'
  BY <1>1 DEF IInv, ClaimsHeld, ClaimsExclusive, KnownAt, Trying
<1> QED BY <1>2, <1>3 DEF IInv

(* The receipt takes the outcome of a driver that holds the claim, and it is the truth. *)
LEMMA OutcomeEffect ==
    ASSUME IInv, NEW d \in Delivery, NEW step \in Refusal \cup {"typed"}, KnownAt(step, d),
           RecordOutcome(d, step)
    PROVE  /\ wake' \in [Delivery -> ReceiptRecord]
           /\ \A x \in Delivery \ {d} : wake'[x] = wake[x]
           /\ \/ wake'[d].state = "triggered" /\ typed[d] = 1
              \/ wake'[d].state = "queued" /\ typed[d] = 0
           /\ backlog' \in Seq(Delivery)
           /\ BacklogExact'
<1>1. /\ OutcomeOf(step).kind \in {"triggered", "queued"}
      /\ OutcomeOf(step).outcome \in {None, Retryable, Permanent, Effect}
      /\ OutcomeOf(step).kind = "triggered" <=> step = "typed"
  BY DEF OutcomeOf, Refusal, Retryable, Permanent
<1>2. Applies(d, OutcomeOf(step).kind)
  BY <1>1 DEF KnownAt, Applies, WakeApplies
<1>3. Transition(d, OutcomeOf(step).kind, OutcomeOf(step).outcome)
  BY <1>2 DEF RecordOutcome
<1>4. StateAfter(OutcomeOf(step).kind) = OutcomeOf(step).kind /\ OutcomeOf(step).kind \in WakeKinds
  BY <1>1 DEF StateAfter, WakeKinds
<1>5. /\ wake' \in [Delivery -> ReceiptRecord]
      /\ wake'[d].state = OutcomeOf(step).kind
      /\ \A x \in Delivery \ {d} : wake'[x] = wake[x]
      /\ backlog' \in Seq(Delivery)
      /\ BacklogExact'
  BY <1>1, <1>2, <1>3, <1>4, TransitionEffect DEF IInv
<1> QED BY <1>1, <1>5 DEF KnownAt

(* A handler whose claim applies is alone with the delivery. *)
LEMMA HandlerClaimsStep ==
    ASSUME IInv, NEW h \in Delivery \X Sending, HandlerClaims(h)
    PROVE  IInv'
<1>1. /\ h[1] \in Delivery /\ UNCHANGED <<retry, typed>>
      /\ HandlerAt(h, AfterClaim(h[1])) /\ Claim(h[1])
  BY DEF HandlerClaims
<1>2. CASE Applies(h[1], "claim")
  <2>1. /\ handler' \in [Delivery \X Sending -> Steps \cup {"start", "requested", "done"}]
        /\ handler'[h] = "claimed"
        /\ \A g \in Delivery \X Sending : g # h => handler'[g] = handler[g]
    BY <1>1, <1>2 DEF IInv, Types, HandlerAt, AfterClaim, Steps, Refusal, Retryable, Permanent
  <2>2. /\ wake' \in [Delivery -> ReceiptRecord]
        /\ wake'[h[1]].state = "uncertain"
        /\ \A x \in Delivery \ {h[1]} : wake'[x] = wake[x]
        /\ backlog' \in Seq(Delivery)
        /\ BacklogExact'
    BY <1>1, <1>2, TransitionEffect DEF IInv, Claim, WakeKinds, StateAfter
  <2>3. /\ \A g \in Delivery \X Sending : handler[g] \in Steps => g[1] # h[1]
        /\ retry.step \in Steps => Trying[1] # h[1]
        /\ typed[h[1]] = 0
    BY <1>1, <1>2, ClaimIsFresh
  <2>4. Types'
    BY <1>1, <2>1, <2>2 DEF IInv, Types
  <2>5. ClaimsHeld'
    <3>1. \A g \in Delivery \X Sending : handler'[g] \in Steps => KnownAt(handler[g], g[1])'
      BY <1>1, <2>1, <2>2, <2>3 DEF IInv, ClaimsHeld, KnownAt
    <3>2. retry'.step \in Steps => Trying' \in Reaches /\ KnownAt(retry.step, Trying[1])'
      BY <1>1, <2>2, <2>3, TryingDelivery DEF IInv, ClaimsHeld, KnownAt, Trying
    <3> QED BY <3>1, <3>2 DEF ClaimsHeld
  <2>6. ClaimsExclusive'
    BY <1>1, <2>1, <2>3 DEF IInv, ClaimsExclusive, Trying
  <2>7. TypedAsKnown'
    BY <1>1, <2>2, <2>3 DEF IInv, TypedAsKnown
  <2> QED BY <2>2, <2>4, <2>5, <2>6, <2>7 DEF IInv
<1>3. CASE ~Applies(h[1], "claim")
  <2>1. UNCHANGED <<wake, backlog, retry, typed>>
    BY <1>1, <1>3 DEF Claim, Unchanged
  <2>2. handler' = [handler EXCEPT ![h] = "done"]
    BY <1>1, <1>3 DEF HandlerAt, AfterClaim
  <2> QED BY <2>1, <2>2, HandlerIsDone
<1> QED BY <1>2, <1>3

(* A handler types the prompt, or is refused, and is still alone with the delivery. *)
LEMMA HandlerDeliversStep ==
    ASSUME IInv, NEW h \in Delivery \X Sending, HandlerDelivers(h)
    PROVE  IInv'
<1>1. PICK after \in Refusal \cup {"typed", "done"} : Deliver(h[1], after) /\ HandlerAt(h, after)
  BY DEF HandlerDelivers
<1>2. /\ h[1] \in Delivery /\ handler[h] = "claimed" /\ UNCHANGED <<wake, backlog, retry>>
      /\ typed' \in [Delivery -> Nat]
      /\ \A x \in Delivery \ {h[1]} : typed'[x] = typed[x]
      /\ after = "typed" => typed'[h[1]] = typed[h[1]] + 1
      /\ after \in Refusal => typed'[h[1]] = typed[h[1]]
      /\ typed'[h[1]] \in {typed[h[1]], typed[h[1]] + 1}
  BY <1>1 DEF IInv, Types, HandlerDelivers, Deliver, Unchanged, Refusal, Retryable, Permanent
<1>3. /\ wake[h[1]].state = "uncertain" /\ typed[h[1]] = 0
      /\ \A g \in Delivery \X Sending : handler[g] \in Steps /\ g[1] = h[1] => g = h
      /\ retry.step \in Steps => Trying[1] # h[1]
  BY <1>2 DEF IInv, ClaimsHeld, ClaimsExclusive, KnownAt, Steps
<1>4. /\ handler' \in [Delivery \X Sending -> Steps \cup {"start", "requested", "done"}]
      /\ handler'[h] = after
      /\ \A g \in Delivery \X Sending : g # h => handler'[g] = handler[g]
  BY <1>1 DEF IInv, Types, HandlerAt, Steps
<1>5. Types'
  BY <1>2, <1>4 DEF IInv, Types
<1>6. ClaimsHeld'
  <2>1. ASSUME NEW g \in Delivery \X Sending, handler'[g] \in Steps
        PROVE  KnownAt(handler[g], g[1])'
    <3>1. CASE g = h
      BY <1>2, <1>3, <1>4, <2>1, <3>1 DEF KnownAt, Steps, Refusal, Retryable, Permanent
    <3>2. CASE g # h
      BY <1>2, <1>3, <1>4, <2>1, <3>2 DEF IInv, ClaimsHeld, KnownAt
    <3> QED BY <3>1, <3>2
  <2>2. retry'.step \in Steps => Trying' \in Reaches /\ KnownAt(retry.step, Trying[1])'
    BY <1>2, <1>3, TryingDelivery DEF IInv, ClaimsHeld, KnownAt, Trying
  <2> QED BY <2>1, <2>2 DEF ClaimsHeld
<1>7. ClaimsExclusive'
  <2>1. handler[h] \in Steps
    BY <1>2 DEF Steps
  <2> QED BY <1>2, <1>3, <1>4, <2>1 DEF IInv, ClaimsExclusive, Trying
<1>8. TypedAsKnown' /\ BacklogExact'
  BY <1>2, <1>3 DEF IInv, TypedAsKnown, BacklogExact
<1> QED BY <1>5, <1>6, <1>7, <1>8 DEF IInv

(* A handler records what became of its own claim. *)
LEMMA HandlerRecordsStep ==
    ASSUME IInv, NEW h \in Delivery \X Sending, HandlerRecords(h)
    PROVE  IInv'
<1>1. /\ h[1] \in Delivery /\ UNCHANGED <<retry, typed>> /\ RecordOutcome(h[1], handler[h])
      /\ handler' = [handler EXCEPT ![h] = "done"] /\ handler[h] \in Refusal \cup {"typed"}
  BY DEF HandlerRecords, HandlerAt
<1>2. /\ handler[h] \in Steps /\ KnownAt(handler[h], h[1])
      /\ \A g \in Delivery \X Sending : handler[g] \in Steps /\ g[1] = h[1] => g = h
      /\ retry.step \in Steps => Trying[1] # h[1]
  BY <1>1 DEF IInv, ClaimsHeld, ClaimsExclusive, Steps
<1>3. /\ wake' \in [Delivery -> ReceiptRecord]
      /\ \A x \in Delivery \ {h[1]} : wake'[x] = wake[x]
      /\ \/ wake'[h[1]].state = "triggered" /\ typed[h[1]] = 1
         \/ wake'[h[1]].state = "queued" /\ typed[h[1]] = 0
      /\ backlog' \in Seq(Delivery)
      /\ BacklogExact'
  BY <1>1, <1>2, OutcomeEffect
<1>4. /\ handler' \in [Delivery \X Sending -> Steps \cup {"start", "requested", "done"}]
      /\ \A g \in Delivery \X Sending :
           handler'[g] \in Steps => g # h /\ handler'[g] = handler[g] /\ g[1] # h[1]
  BY <1>1, <1>2 DEF IInv, Types, Steps, Refusal, Retryable, Permanent
<1>5. Types'
  BY <1>1, <1>3, <1>4 DEF IInv, Types
<1>6. ClaimsHeld'
  <2>1. \A g \in Delivery \X Sending : handler'[g] \in Steps => KnownAt(handler[g], g[1])'
    BY <1>1, <1>3, <1>4 DEF IInv, ClaimsHeld, KnownAt
  <2>2. retry'.step \in Steps => Trying' \in Reaches /\ KnownAt(retry.step, Trying[1])'
    BY <1>1, <1>2, <1>3, TryingDelivery DEF IInv, ClaimsHeld, KnownAt, Trying
  <2> QED BY <2>1, <2>2 DEF ClaimsHeld
<1>7. ClaimsExclusive'
  BY <1>1, <1>4 DEF IInv, ClaimsExclusive, Trying
<1>8. TypedAsKnown'
  BY <1>1, <1>3 DEF IInv, TypedAsKnown
<1> QED BY <1>3, <1>5, <1>6, <1>7, <1>8 DEF IInv

(* The retry loop holds no claim while it chooses a batch or goes on to the next row. *)
LEMMA RetryHoldsNothing ==
    ASSUME IInv, retry'.step \in {"idle", "next"}, UNCHANGED <<wake, backlog, handler, typed>>
    PROVE  IInv'
<1>1. retry'.step \notin Steps
  BY DEF Steps, Refusal, Retryable, Permanent
<1>2. Types' /\ TypedAsKnown' /\ BacklogExact'
  BY <1>1 DEF IInv, Types, TypedAsKnown, BacklogExact
<1>3. ClaimsHeld' /\ ClaimsExclusive'
  BY <1>1 DEF IInv, ClaimsHeld, ClaimsExclusive, KnownAt
<1> QED BY <1>2, <1>3 DEF IInv

(* The next step of the retry loop. *)
LEMMA RetryAtEffect ==
    ASSUME NEW step, RetryAt(step)
    PROVE  /\ step = "done" => retry'.step \in {"idle", "next"}
           /\ step # "done" => retry'.step = step /\ Trying' = Trying
  BY DEF RetryAt, Trying

(* Choosing a batch and skipping a row change no receipt. *)
LEMMA RetryTickStep ==
    ASSUME IInv, RetryTick \/ RetrySkips
    PROVE  IInv'
<1>1. retry'.step \in {"idle", "next"} /\ UNCHANGED <<wake, backlog, handler, typed>>
  BY RetryAtEffect DEF RetryTick, RetrySkips
<1> QED BY <1>1, RetryHoldsNothing

(* A retry whose claim applies is alone with the delivery. *)
LEMMA RetryClaimsStep ==
    ASSUME IInv, RetryClaims
    PROVE  IInv'
<1> DEFINE d == Trying[1]
<1>1. /\ Trying \in Reaches /\ d \in Delivery /\ UNCHANGED <<handler, typed>>
      /\ Claim(d) /\ RetryAt(AfterClaim(d))
  BY TryingDelivery DEF RetryClaims
<1> HIDE DEF d
<1>2. CASE Applies(d, "claim")
  <2>1. retry'.step = "claimed" /\ Trying' = Trying
    BY <1>1, <1>2, RetryAtEffect DEF AfterClaim
  <2>2. /\ wake' \in [Delivery -> ReceiptRecord]
        /\ wake'[d].state = "uncertain"
        /\ \A x \in Delivery \ {d} : wake'[x] = wake[x]
        /\ backlog' \in Seq(Delivery)
        /\ BacklogExact'
    BY <1>1, <1>2, TransitionEffect DEF IInv, Claim, WakeKinds, StateAfter
  <2>3. /\ \A g \in Delivery \X Sending : handler[g] \in Steps => g[1] # d
        /\ typed[d] = 0
    BY <1>1, <1>2, ClaimIsFresh
  <2>4. Types'
    BY <1>1, <2>1, <2>2 DEF IInv, Types, Steps
  <2>5. ClaimsHeld'
    <3>1. \A g \in Delivery \X Sending : handler'[g] \in Steps => KnownAt(handler[g], g[1])'
      BY <1>1, <2>2, <2>3 DEF IInv, ClaimsHeld, KnownAt
    <3>2. Trying' \in Reaches /\ KnownAt(retry.step, Trying[1])'
      BY <1>1, <2>1, <2>2, <2>3 DEF KnownAt, d
    <3> QED BY <3>1, <3>2 DEF ClaimsHeld
  <2>6. ClaimsExclusive'
    BY <1>1, <2>1, <2>3 DEF IInv, ClaimsExclusive, d
  <2>7. TypedAsKnown'
    BY <1>1, <2>2, <2>3 DEF IInv, TypedAsKnown
  <2> QED BY <2>2, <2>4, <2>5, <2>6, <2>7 DEF IInv
<1>3. CASE ~Applies(d, "claim")
  <2>1. retry'.step \in {"idle", "next"} /\ UNCHANGED <<wake, backlog, handler, typed>>
    BY <1>1, <1>3, RetryAtEffect DEF Claim, Unchanged, AfterClaim
  <2> QED BY <2>1, RetryHoldsNothing
<1> QED BY <1>2, <1>3

(* A retry types the prompt, or is refused, and is still alone with the delivery. *)
LEMMA RetryDeliversStep ==
    ASSUME IInv, RetryDelivers
    PROVE  IInv'
<1> DEFINE d == Trying[1]
<1>1. PICK after \in Refusal \cup {"typed", "done"} : Deliver(d, after) /\ RetryAt(after)
  BY DEF RetryDelivers
<1>2. /\ retry.step = "claimed" /\ retry.step \in Steps /\ Trying \in Reaches /\ d \in Delivery
      /\ wake[d].state = "uncertain" /\ typed[d] = 0
      /\ \A g \in Delivery \X Sending : handler[g] \in Steps => g[1] # d
  BY TryingDelivery DEF RetryDelivers, IInv, ClaimsHeld, ClaimsExclusive, KnownAt, Steps
<1>3. /\ after # "done" => retry'.step = after /\ Trying' = Trying
      /\ after = "done" => retry'.step \notin Steps /\ retry'.step \in {"idle", "next"}
  BY <1>1, RetryAtEffect DEF Steps, Refusal, Retryable, Permanent
<1> HIDE DEF d
<1>4. /\ UNCHANGED <<wake, backlog, handler>>
      /\ typed' \in [Delivery -> Nat]
      /\ \A x \in Delivery \ {d} : typed'[x] = typed[x]
      /\ after = "typed" => typed'[d] = 1
      /\ after \in Refusal => typed'[d] = 0
      /\ typed'[d] \in {0, 1}
  BY <1>1, <1>2 DEF IInv, Types, RetryDelivers, Deliver, Unchanged, Refusal, Retryable, Permanent
<1>5. Types'
  BY <1>1, <1>3, <1>4 DEF IInv, Types, Steps
<1>6. ClaimsHeld'
  <2>1. \A g \in Delivery \X Sending : handler'[g] \in Steps => KnownAt(handler[g], g[1])'
    BY <1>2, <1>4 DEF IInv, ClaimsHeld, KnownAt
  <2>2. ASSUME retry'.step \in Steps PROVE Trying' \in Reaches /\ KnownAt(retry.step, Trying[1])'
    BY <1>1, <1>2, <1>3, <1>4, <2>2 DEF KnownAt, Steps, Refusal, Retryable, Permanent, d
  <2> QED BY <2>1, <2>2 DEF ClaimsHeld
<1>7. ClaimsExclusive'
  BY <1>2, <1>3, <1>4 DEF IInv, ClaimsExclusive, d
<1>8. TypedAsKnown' /\ BacklogExact'
  BY <1>2, <1>4 DEF IInv, TypedAsKnown, BacklogExact
<1> QED BY <1>5, <1>6, <1>7, <1>8 DEF IInv

(* A retry records what became of its own claim. *)
LEMMA RetryRecordsStep ==
    ASSUME IInv, RetryRecords
    PROVE  IInv'
<1> DEFINE d == Trying[1]
<1>1. /\ retry.step \in Refusal \cup {"typed"} /\ RecordOutcome(d, retry.step)
      /\ UNCHANGED <<handler, typed>> /\ RetryAt("done")
  BY DEF RetryRecords
<1>2. /\ d \in Delivery /\ KnownAt(retry.step, d)
      /\ \A g \in Delivery \X Sending : handler[g] \in Steps => g[1] # d
  BY <1>1, TryingDelivery DEF IInv, ClaimsHeld, ClaimsExclusive, Steps
<1>3. retry'.step \notin Steps /\ retry'.step \in {"idle", "next"}
  BY <1>1, RetryAtEffect DEF Steps, Refusal, Retryable, Permanent
<1> HIDE DEF d
<1>4. /\ wake' \in [Delivery -> ReceiptRecord]
      /\ \A x \in Delivery \ {d} : wake'[x] = wake[x]
      /\ \/ wake'[d].state = "triggered" /\ typed[d] = 1
         \/ wake'[d].state = "queued" /\ typed[d] = 0
      /\ backlog' \in Seq(Delivery)
      /\ BacklogExact'
  BY <1>1, <1>2, OutcomeEffect
<1>5. Types'
  BY <1>1, <1>3, <1>4 DEF IInv, Types
<1>6. ClaimsHeld' /\ ClaimsExclusive'
  BY <1>1, <1>2, <1>3, <1>4 DEF IInv, ClaimsHeld, ClaimsExclusive, KnownAt
<1>7. TypedAsKnown'
  BY <1>1, <1>2, <1>4 DEF IInv, TypedAsKnown
<1> QED BY <1>4, <1>5, <1>6, <1>7 DEF IInv

(* The reader, the clock and a restart leave the receipts alone; a restart drops the claims *)
(* of every driver, which leaves their receipts uncertain.                                  *)
LEMMA OutsideStep ==
    ASSUME IInv, (\E d \in Delivery : Reads(d) \/ WindowCloses(d)) \/ Crash \/ UNCHANGED vars
    PROVE  IInv'
<1>1. CASE (\E d \in Delivery : Reads(d) \/ WindowCloses(d)) \/ UNCHANGED vars
  <2>1. UNCHANGED <<wake, backlog, handler, retry, typed>>
    BY <1>1 DEF Reads, WindowCloses, vars
  <2> QED BY <2>1 DEF IInv, Types, TypedAsKnown, BacklogExact, ClaimsHeld, ClaimsExclusive,
                      KnownAt, Trying
<1>2. CASE Crash
  <2>1. /\ UNCHANGED <<wake, backlog, typed>> /\ retry'.step = "idle" /\ retry'.step \notin Steps
        /\ handler' \in [Delivery \X Sending -> {"start", "done"}]
    BY <1>2 DEF Crash, IInv, Types, Steps, Refusal, Retryable, Permanent
  <2>2. \A g \in Delivery \X Sending : handler'[g] \notin Steps
    BY <2>1 DEF Steps, Refusal, Retryable, Permanent
  <2>3. Types' /\ TypedAsKnown' /\ BacklogExact'
    BY <2>1 DEF IInv, Types, TypedAsKnown, BacklogExact
  <2> QED BY <2>1, <2>2, <2>3 DEF IInv, ClaimsHeld, ClaimsExclusive
<1> QED BY <1>1, <1>2

-----------------------------------------------------------------------------
(* The theorems.                                                           *)

(* Nothing is claimed, typed or queued at first. *)
LEMMA InitIInv == Init => IInv
<1> SUFFICES ASSUME Init PROVE IInv
  OBVIOUS
<1>1. /\ retry.step \notin Steps
      /\ \A h \in Delivery \X Sending : handler[h] \notin Steps
  BY DEF Init, Steps, Refusal, Retryable, Permanent
<1>2. Types
  BY DEF Init, Types, ReceiptRecord, NoWake, WakeStates
<1>3. TypedAsKnown /\ BacklogExact
  BY DEF Init, TypedAsKnown, BacklogExact, NoWake, Lists, Distinct
<1> QED BY <1>1, <1>2, <1>3 DEF IInv, ClaimsHeld, ClaimsExclusive

(* The invariant is inductive. *)
LEMMA Inductive == Spec => []IInv
<1>1. IInv /\ [Next]_vars => IInv'
  BY HandlerRequestsStep, HandlerClaimsStep, HandlerDeliversStep, HandlerRecordsStep,
     RetryTickStep, RetryClaimsStep, RetryDeliversStep, RetryRecordsStep, OutsideStep
     DEF Next, RetryStep
<1> QED BY InitIInv, <1>1, PTL DEF Spec

(* A prompt is typed at most once for a delivery: claim_and_deliver types only after a claim, *)
(* a claim is given to one driver, and an uncertain receipt is never claimed again.           *)
THEOREM PromptsAreTypedOnce == Spec => []TypedAtMostOnce
<1>1. IInv => TypedAtMostOnce
  BY DEF IInv, TypedAsKnown, TypedAtMostOnce
<1> QED BY Inductive, <1>1, PTL

(* A triggered receipt means that the prompt was typed, one that may still be claimed that it *)
(* was not, and the backlog of the retries is the set of queued wakes, each listed once.      *)
THEOREM ReceiptsAreTruthful == Spec => []ReceiptIsTruthful
<1>1. IInv => ReceiptIsTruthful
  <2> SUFFICES ASSUME IInv PROVE ReceiptIsTruthful
    OBVIOUS
  <2>1. backlog \in Seq(Delivery) /\ Distinct(backlog)
    BY DEF IInv, Types, BacklogExact
  <2>2. Len(backlog) = Cardinality(ToSet(backlog))
    BY <2>1, DistinctLength
  <2>3. \A x : x \in ToSet(backlog) <=> Lists(backlog, x)
    BY <2>1 DEF ToSet, Lists
  <2>4. ToSet(backlog) \subseteq Delivery
    BY <2>1 DEF ToSet
  <2>5. ToSet(backlog) = {d \in Delivery : wake[d].state = "queued"}
    BY <2>3, <2>4 DEF IInv, BacklogExact
  <2> QED BY <2>2, <2>5 DEF IInv, TypedAsKnown, ReceiptIsTruthful
<1> QED BY Inductive, <1>1, PTL
=============================================================================
