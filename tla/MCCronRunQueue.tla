---------------------------- MODULE MCCronRunQueue ----------------------------
(* Names of the workers for TLC, and what bounds the search of a run. *)
EXTENDS CronRunQueue

CONSTANTS timer, out

\* OneRunExecutes says nothing of what follows the incidents it excuses, none of which is
\* forgotten: a run that checks it alone needs to go no further.
NothingIsExcused == Quiet({"overrun", "discard", "cancel", "retry", "clear"})

\* Bound: one failure or death, whichever it is.
OneTrouble == incidents["failure"] + incidents["death"] <= 1
=============================================================================
