--------------------------- MODULE MCQuotaSession ---------------------------
(* Three concurrent calls choose among two identities and two amounts. *)
EXTENDS QuotaSession

CONSTANTS c1, c2, c3, i1, i2, v1, v2

MCClients == {c1, c2, c3}
MCIds == {i1, i2}
MCAmounts == {v1, v2}

=============================================================================
