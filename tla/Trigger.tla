------------------------------ MODULE Trigger ------------------------------
(* struct trigger (tools/perf/util/trigger.h): an operation the main loop  *)
(* is to run when a signal was seen.  Each operator is the next state of a *)
(* trigger in state t.                                                     *)

TriggerStates == {"ERROR", "OFF", "READY", "HIT"}

trigger_is_available(t) == t \in {"READY", "HIT"}

trigger_on(t) == "READY"

trigger_ready(t) == IF trigger_is_available(t) THEN "READY" ELSE t

trigger_hit(t) == IF trigger_is_available(t) THEN "HIT" ELSE t

trigger_off(t) == IF trigger_is_available(t) THEN "OFF" ELSE t

trigger_error(t) == "ERROR"
=============================================================================
