----------------------------- MODULE MCBoundary -----------------------------
(* Run, the Lifetime callback and two host goroutines on one Receipt. *)
EXTENDS Boundary

CONSTANTS u1, u2

MCUsers == {u1, u2}
AllFinishResults == {"ok", "error", "nocontext", "panic", "contextPanic"}
FreshMayPanic == {"ok", "stale", "panic"}

=============================================================================
