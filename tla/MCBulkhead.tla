----------------------------- MODULE MCBulkhead -----------------------------
(* More calls than permits, and lifetimes that two calls may share. *)
EXTENDS Bulkhead

CONSTANTS c1, c2, c3, l1, l2

MCCalls == {c1, c2, c3}
MCLives == {l1, l2}

=============================================================================
