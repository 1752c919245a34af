------------------------------- MODULE MCRace -------------------------------
(* Two workers and two plans. *)
EXTENDS Race, TLC

Ends(s, e, g, o) ==
    [started |-> s, err |-> e, good |-> g, owned |-> o, ready |-> TRUE, settle |-> {}]

MCRunResults ==
    { Ends(TRUE, {}, TRUE, TRUE),               \* an owned payload
      Ends(TRUE, {}, TRUE, FALSE),              \* a value payload
      Ends(TRUE, {}, FALSE, TRUE),              \* a result without a payload
      Ends(TRUE, {"provider"}, FALSE, TRUE),    \* an error with a partial resource
      Ends(FALSE, {"ctx"}, FALSE, FALSE) }      \* cancelled before dispatch

MCCloseErrors == {{}, {"control"}}
MCAcceptErrors == {{}}
NoOutcomes == {}

=============================================================================
