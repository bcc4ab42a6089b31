-------------------------- MODULE MCBfddSupervisor --------------------------
(* Instances of BfddSupervisor for TLC. *)
EXTENDS BfddSupervisor

MCBackoffs == <<1, 1, 1>>
MCChildBackoffs == <<1>>

\* One session and failures, or two sessions and none.
MCStarts == {<<1, 2>>, <<2, 0>>}
=============================================================================
