------------------------- MODULE MCInteractionWake -------------------------
(***************************************************************************)
(* Two deliveries in an authority with two dispatches, their handlers and  *)
(* the retry loop.  The session that reads the first delivery is gone; the *)
(* second is read by the session of the dispatch that the index puts last. *)
(***************************************************************************)
EXTENDS InteractionWake

CONSTANTS d1, d2

TwoDispatches == <<"t1", "t2">>
LastReachesSecond == {<<d2, "t2">>}
=============================================================================
