------------------------- MODULE MCFirstSuccessful -------------------------
(* Three handlers, every kind of result the collector treats differently. *)
EXTENDS FirstSuccessful, TLC

Result(e, a, p, o) == [err |-> e, action |-> a, payload |-> p, owned |-> o]

MCOutcomes ==
    { Result(FALSE, "stop", TRUE, TRUE),    \* an owned payload
      Result(FALSE, "stop", TRUE, FALSE),   \* a value payload
      Result(FALSE, "stop", FALSE, TRUE),   \* terminal, no payload, owned
      Result(FALSE, "next", TRUE, TRUE),    \* a fallthrough that owns something
      Result(TRUE, "stop", FALSE, TRUE),    \* an error with a partial resource
      Result(FALSE, "bad", FALSE, TRUE) }   \* abort without an error

=============================================================================
