------------------------------ MODULE MCTimer ------------------------------
(* The timer used by the event thread and one other goroutine. *)
EXTENDS EventTimer
=============================================================================
