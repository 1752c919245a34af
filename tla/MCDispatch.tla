----------------------------- MODULE MCDispatch -----------------------------
(* A table with a decision group that a mounted table shares, whose entries   *)
(* end in a retry under a timeout, a fallback and a chain; and a predicate    *)
(* fallback around a retry of a chain.                                        *)
EXTENDS Dispatch

MCNodes ==
    [root |-> [op |-> "table", kids |-> <<"mount", "timed", "chain">>,
               match |-> <<"predicate", "k1", "k2">>, fallback |-> None],
     mount |-> [op |-> "table", kids |-> <<"leaf">>, match |-> <<"k2">>, fallback |-> "leaf"],
     timed |-> [op |-> "timeout", kids |-> <<"fallback">>],
     fallback |-> [op |-> "fallback", kids |-> <<"leaf", "robin">>],
     robin |-> [op |-> "robin", kids |-> <<"leaf", "leaf">>],
     weight |-> [op |-> "weight", kids |-> <<"leaf", "leaf">>],
     chain |-> [op |-> "chain", kids |-> <<"leaf", "leaf">>],
     predicate |-> [op |-> "predicate", kids |-> <<"retry", "weight">>],
     retry |-> [op |-> "retry", kids |-> <<"limited">>],
     limited |-> [op |-> "timeout", kids |-> <<"chain">>],
     leaf |-> [op |-> "leaf", kids |-> <<>>]]

=============================================================================
