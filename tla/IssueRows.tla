----------------------------- MODULE IssueRows ------------------------------
(* What a listed issue says (problem.mjs, check-presentation.mjs,             *)
(* issues-workspace.mjs and issueRow in homeostatic.js): the condition of its *)
(* row below a heading, and the sources its dialog names.                     *)
(*                                                                            *)
(* A condition is a tuple: what is said, and of what.  Each reason has its    *)
(* wording in the code and is its own wording here.                           *)
EXTENDS IssueViews

Kind(d, id) == IF id \in DOMAIN d.rows THEN d.rows[id].kind ELSE "unknown"

----------------------------------------------------------------------------
(* The findings of an issue about other sources than its own.                 *)

RelatedFindings(issue) == {f \in Outstanding(issue) : f.node # issue.anchor}

\* The sources they are about, whichever of its checks found it.
RelatedMembers(d, issue) == {Canonical(d, f.node) : f \in RelatedFindings(issue)}

\* The row a member is described by: the source, or its check if that is not listed.
Described(d, issue, m) ==
    IF m \in DOMAIN d.rows THEN m
    ELSE (CHOOSE f \in RelatedFindings(issue) : Canonical(d, f.node) = m).node

RelatedGroup(d, issue, m) ==
    LET row == Described(d, issue, m)
    IN  IF Kind(d, row) \in {"device", "entity"} /\ d.rows[row].devices # <<>>
        THEN <<"device", Head(d.rows[row].devices)>> ELSE <<"source", m>>
RelatedGroups(d, issue) == {RelatedGroup(d, issue, m) : m \in RelatedMembers(d, issue)}

Unavailable == {"unavailable", "all_unavailable", "some_unavailable"}
UnavailableOnly(d, issue) ==
    /\ RelatedFindings(issue) # {}
    /\ \A m \in RelatedMembers(d, issue) : Kind(d, Described(d, issue, m)) \in {"device", "entity"}
    /\ \A f \in RelatedFindings(issue) : f.reason \in Unavailable

----------------------------------------------------------------------------
(* The row below a heading. *)

RowOf(issue, shared, recorded, reasons) ==
    [id |-> issue.id, anchor |-> issue.anchor, recorded |-> recorded, reasons |-> reasons,
     status |-> issue.status, shared |-> shared]

\* A variant: below a device the issue keeps all its members and findings.
RowUnderWhole(d, issue, device) == RowOf(issue, FALSE, issue.recorded, issue.reasons)

(* Below one of the devices of a connection that runs, the issue is narrowed  *)
(* to that device.                                                            *)
RowUnder(d, issue, device) ==
    LET here == {id \in Contributors(d, issue) : DeviceContext(d, id) = device}
        found == {f \in issue.reasons : f.node \in here \cup {issue.anchor}}
    IN  IF Divided(d, issue) THEN RowOf(issue, TRUE, here, found)
        ELSE RowOf(issue, FALSE, issue.recorded, issue.reasons)

\* One device has all the related findings of a connection that runs.
RowDevice(d, row) ==
    IF Loaded(d, row) /\ Cardinality(RelatedGroups(d, row)) = 1
       /\ \A g \in RelatedGroups(d, row) : g[1] = "device"
    THEN (CHOOSE g \in RelatedGroups(d, row) : TRUE)[2] ELSE None

\* A device without current findings is spoken for by its own checks.
SharedCondition(d, row) ==
    LET states == {d.current[id] : id \in row.recorded \ {row.anchor}}
    IN  IF states # {} /\ \A s \in states : s # None /\ s.status = "pass"
        THEN <<"available">> ELSE <<"waiting">>

\* A running connection cannot speak for the sources that still fail.
ConnectionCondition(d, row) ==
    IF ~Loaded(d, row) THEN <<"reported", CurrentReason(d, row)>>
    ELSE IF RelatedFindings(row) = {} THEN <<"confirming recovery">>
    ELSE <<"attention", RelatedMembers(d, row)>>

\* A failure that was not seen to end is still what is said.
OwnCondition(d, row) ==
    LET now == d.current[row.anchor]
        unconfirmed == /\ now # None /\ now.status = "unknown"
                       /\ now.failed \/ \E f \in row.reasons : Failing(f.status)
    IN  CASE Kind(d, row.anchor) \in {"device", "unknown"} -> <<"needs review">>
          [] Kind(d, row.anchor) \notin {"device", "unknown"} /\ unconfirmed -> <<"reported earlier">>
          [] OTHER -> IF Recovering(d, row) THEN <<"confirming recovery">>
                      ELSE <<"reported", CurrentReason(d, row)>>

UnavailableEntities(d, row) ==
    {m \in RelatedMembers(d, row) : Kind(d, Described(d, row, m)) = "entity"}

Condition(d, row) ==
    CASE Kind(d, row.anchor) # "integration" -> OwnCondition(d, row)
      [] OTHER ->
           IF RowDevice(d, row) # None /\ UnavailableOnly(d, row) /\ UnavailableEntities(d, row) # {}
           THEN <<"unavailable", UnavailableEntities(d, row)>>
           ELSE IF row.shared /\ RelatedFindings(row) = {} THEN SharedCondition(d, row)
           ELSE ConnectionCondition(d, row)

----------------------------------------------------------------------------
(* The dialog of one issue: its own source, the related ones with their       *)
(* findings, and every other source it has recorded.                          *)

Explained(d, issue) ==
    IF Kind(d, issue.anchor) = "integration" THEN RelatedMembers(d, issue) ELSE {}
Recorded(d, issue) ==
    {Canonical(d, id) : id \in MembersOf(issue)}
        \ (Explained(d, issue) \cup {Canonical(d, issue.anchor)})
DialogSources(d, issue) == {Canonical(d, issue.anchor)} \cup Explained(d, issue) \cup Recorded(d, issue)
DialogTitle(d, issue) ==
    CASE ~(Loaded(d, issue) /\ RelatedGroups(d, issue) # {}) -> Canonical(d, issue.anchor)
      [] OTHER -> IF RowDevice(d, issue) # None THEN RowDevice(d, issue) ELSE "Entity availability"
=============================================================================
