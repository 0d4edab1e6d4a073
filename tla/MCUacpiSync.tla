----------------------------- MODULE MCUacpiSync -----------------------------
(* Model-checking instance of UacpiSync: timeouts around the lengths of the   *)
(* sleeps, no wait at all and an infinite one.                                *)
EXTENDS UacpiSync

MCMutexTimeouts == {0, 1, 2, Infinite}
MCEventTimeouts == {0, EventSleep, EventSleep + 1, Infinite}
=============================================================================
