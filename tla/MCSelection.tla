----------------------------- MODULE MCSelection -----------------------------
(***************************************************************************)
(* Two candidates, descriptors that age, miss a demand or lack a           *)
(* measurement, and affinities that differ in strength, stamp and expiry.  *)
(***************************************************************************)
EXTENDS Selection, TLC

MCKeys == <<"a", "b">>
MCScope == "a" :> "s" @@ "b" :> "s"

M(value, until) == [value |-> value, observed |-> 1, until |-> until, sound |-> TRUE]
Q(task, score_, until) ==
    [task |-> task, score |-> score_, samples |-> 1, observed |-> 1, until |-> until, sound |-> TRUE]

Base ==
    [capabilities |-> {"tools"}, window |-> 8, residency |-> "eu", retains |-> FALSE, freshUntil |-> 3,
     quality |-> Q("chat", 3, 9), estimates |-> [cost |-> M(5, 9), latency |-> M(1, 9)]]

MCDescriptors ==
    {Base,
     [Base EXCEPT !.estimates.cost = M(2, 2)],      \* cheaper, but the estimate ages
     [Base EXCEPT !.quality = None, !.estimates.cost = M(1, 9)],
     [Base EXCEPT !.quality = Q("chat", 3, 2)],
     [Base EXCEPT !.quality.sound = FALSE, !.estimates.cost = M(1, 9)],
     [Base EXCEPT !.freshUntil = 2],
     [Base EXCEPT !.capabilities = {}, !.retains = None],
     [Base EXCEPT !.estimates.cost = M(0, 9)]}

NoPin == [strength |-> "None", key |-> "a", scope |-> "s", trusted |-> "s", stamp |-> 0,
          expires |-> 0, compatible |-> {"a", "b"}]
MCAffinities ==
    {NoPin,
     [NoPin EXCEPT !.strength = "Preferred", !.key = "b", !.expires = 2],
     [NoPin EXCEPT !.strength = "Required", !.key = "b", !.stamp = 1, !.expires = 3],
     [NoPin EXCEPT !.strength = "Required", !.key = "b", !.stamp = 2, !.expires = 3],
     [NoPin EXCEPT !.strength = "Required", !.key = "b", !.stamp = 1, !.expires = 0, !.compatible = {}]}

MCRequest ==
    [required |-> {"tools"}, tokens |-> 4, residencies |-> {"eu"}, allowRetention |-> FALSE,
     task |-> "chat", minimum |-> 2]

MCDefaults == [quality |-> Q("chat", 3, 9), estimates |-> [cost |-> M(5, 9), latency |-> None]]
=============================================================================
