----------------------------- MODULE MCNavigation -----------------------------
(* An issue, a source and a report of one, reached by links and clicks. *)
EXTENDS Navigation

Linked == {<<"episode", "e1">>, <<"notification", "r1", "episode", "e1">>}

Defined == {[kind |-> "policies", id |-> "p1"], [kind |-> "methods", id |-> "m1"]}

Members == <<"e1">>
=============================================================================
