---------------------------- MODULE DeliveryWake ----------------------------
(***************************************************************************)
(* The wake receipt of one delivery: the durable record of whether the     *)
(* session that should read the delivery has been prompted about it.  A    *)
(* prompt is text typed into a terminal, so nobody can take it back and    *)
(* nobody can ask whether it arrived: the receipt is claimed before the    *)
(* text is typed and settled after.                                        *)
(*                                                                         *)
(*   none --request--> pending --claim--> uncertain --triggered--> triggered*)
(*     \                            ^          |                           *)
(*      request, no capability      claim   queued                         *)
(*        \                         |          v                           *)
(*         +----------------------> queued <---+                           *)
(***************************************************************************)
EXTENDS Naturals

CONSTANT None

WakeStates == {"none", "pending", "uncertain", "triggered", "queued"}
WakeKinds == {"request", "claim", "triggered", "queued"}

\* A delivery that was never asked to wake its reader (wake: Option::None).
NoWake == [state |-> "none", outcome |-> None, at |-> 0]

CapabilityUnavailable == "wake_capability_unavailable"

\* Faulty: claims a wake again while an earlier claim is still uncertain.
WakeAppliesFaulty(wake, unread, kind) ==
    \/ kind = "request" /\ wake.state = "none"
    \/ kind = "claim" /\ wake.state \in {"pending", "queued", "uncertain"}
    \/ kind \in {"triggered", "queued"} /\ wake.state = "uncertain"

(***************************************************************************)
(* The arms of the transition's match that produce a replacement receipt.  *)
(* A queued wake proved that nothing was written, so a delivery that is    *)
(* still unread may be claimed again; an uncertain one may not.            *)
(***************************************************************************)
WakeApplies(wake, unread, kind) ==
    \/ kind = "request" /\ wake.state = "none"
    \/ kind = "claim" /\ \/ wake.state = "pending"
                         \/ unread /\ wake.state = "queued"
    \/ kind \in {"triggered", "queued"} /\ wake.state = "uncertain"

\* The receipt that replaces the current one when WakeApplies.
WakeReplacement(kind, capable, outcome, at) ==
    CASE kind = "request" /\ capable  -> [state |-> "pending", outcome |-> None, at |-> at]
      [] kind = "request" /\ ~capable -> [state |-> "queued", outcome |-> CapabilityUnavailable, at |-> at]
      [] kind = "claim"               -> [state |-> "uncertain", outcome |-> None, at |-> at]
      [] OTHER                        -> [state |-> kind, outcome |-> outcome, at |-> at]
=============================================================================
