------------------------------- MODULE MCPanel -------------------------------
(* Three issues of a device, of which one may open later, and a report of two. *)
EXTENDS IssueActions

Reported == <<"e1", "e2">>

Linked == {[kind |-> "episode", id |-> "e1"], [kind |-> "device", id |-> "device"]}
=============================================================================
