---------------------------- MODULE MCSchedules ----------------------------
(***************************************************************************)
(* Small instances of Schedules.                                           *)
(***************************************************************************)
EXTENDS Schedules

\* Due in every minute.
Always == {1 .. MaxMinute}
=============================================================================
