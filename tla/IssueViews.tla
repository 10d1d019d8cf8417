----------------------------- MODULE IssueViews -----------------------------
(* Which open issues the panel shows and where (issues-workspace.mjs,         *)
(* device-issue-model.mjs, model.mjs, problem.mjs), as functions of the data. *)
(*                                                                            *)
(* d.rows maps an identity to its inventory row, d.registry the registered    *)
(* devices to their connection, d.current an identity to the last report of   *)
(* its check, [status, reason, failed], where `failed` says a failure was     *)
(* recorded before; None when there is no report.  An issue is [id, anchor,   *)
(* recorded, reasons, status], and a reason [node, check, status, reason].    *)
(* Wording, importance, sorting and the page sizes are left out.              *)
EXTENDS FiniteSets, SourceTrees

Failing(status) == status \in {"warn", "fail"}
Gaps == {"unknown", "stale", "source_missing", "restored_state", "state_unknown", "incomplete_evidence"}

MembersOf(issue) == {issue.anchor} \cup issue.recorded \cup {f.node : f \in issue.reasons}
Outstanding(issue) == {f \in issue.reasons : f.status # "pass"}

----------------------------------------------------------------------------
(* Visibility. *)

\* Every member is unknown and none ever failed.
WaitingOnly(d, issue) ==
    \A id \in MembersOf(issue) :
        /\ d.current[id] # None
        /\ d.current[id].status = "unknown" /\ ~d.current[id].failed
        /\ ~\E f \in issue.reasons : f.node = id /\ Failing(f.status)

Comparable(d, id) == id \in DOMAIN d.rows /\ d.rows[id].kind \in {"entity", "device", "integration"}

\* The issue is only about evidence that is missing, stale or restored.
AvailabilityEvidenceGap(d, issue) ==
    LET found == Outstanding(issue)
        Gap(f) == /\ Comparable(d, f.node) /\ f.check = "availability"
                  /\ f.status = "unknown" /\ f.reason \in Gaps
                  /\ d.current[f.node] = None
                     \/ (~Failing(d.current[f.node].status) /\ d.current[f.node].reason \in Gaps)
        Calm(id) == /\ Comparable(d, id) /\ d.rows[id].check = "availability"
                    /\ IF d.current[id] = None THEN \E f \in found : f.node = id
                       ELSE d.current[id].status = "pass"
                            \/ (d.current[id].status = "unknown" /\ d.current[id].reason \in Gaps)
    IN  /\ found # {} \/ issue.status = "unknown"
        /\ \A f \in found : Gap(f)
        /\ \A id \in {issue.anchor} \cup issue.recorded \cup {f.node : f \in found} : Calm(id)

\* The reason a connection or an entity is said to have now.
CurrentReason(d, issue) ==
    LET own == {f \in issue.reasons : f.node = issue.anchor}
    IN  CASE d.rows[issue.anchor].kind = "entity" /\ d.rows[issue.anchor].disabled -> "disabled"
          [] ~(d.rows[issue.anchor].kind = "entity" /\ d.rows[issue.anchor].disabled)
             /\ d.current[issue.anchor] # None -> d.current[issue.anchor].reason
          [] OTHER -> IF own = {} THEN "unknown" ELSE (CHOOSE f \in own : TRUE).reason

\* A connection that runs or an entity that reports again: the issue is closing.
Recovering(d, issue) ==
    \/ d.rows[issue.anchor].kind = "integration" /\ CurrentReason(d, issue) = "loaded"
    \/ d.rows[issue.anchor].kind = "entity" /\ CurrentReason(d, issue) = "available"
       /\ Watched(d, issue.anchor)

NotProvidedVisible(d, issue) ==
    /\ Failing(issue.status) /\ d.current[issue.anchor] # None
    /\ d.current[issue.anchor].status = "warn"
    /\ d.current[issue.anchor].reason = "entity_not_provided"

Visible(d, issue) ==
    IF issue.anchor \notin DOMAIN d.rows THEN TRUE
    ELSE IF d.rows[issue.anchor].kind = "entity_not_provided" THEN NotProvidedVisible(d, issue)
    ELSE /\ ~WaitingOnly(d, issue)
         /\ ~AvailabilityEvidenceGap(d, issue)
         /\ \/ \E f \in Outstanding(issue) : f.node # issue.anchor
            \/ /\ ~Recovering(d, issue)
               /\ ~(d.rows[issue.anchor].kind = "entity" /\ CurrentReason(d, issue) = "value_unknown")

VisibleIssues(d) == {issue \in d.issues : Visible(d, issue)}

----------------------------------------------------------------------------
(* Whose issue it is. *)

Canonical(d, id) ==
    IF id \in DOMAIN d.rows /\ d.rows[id].source # None THEN d.rows[id].source ELSE id

\* The one registered device a source is on, for the headings of the list.
DeviceContext(d, id) ==
    LET c == IF Canonical(d, id) \in DOMAIN d.rows THEN Canonical(d, id) ELSE id
        Of(i) == IF i \in DOMAIN d.rows THEN d.rows[i].devices ELSE <<>>
        devices == IF Of(c) # <<>> THEN Of(c) ELSE Of(id)
    IN  IF \/ c \notin DOMAIN d.rows \/ Len(devices) # 1
           \/ d.rows[c].kind \in {"integration", "repair", "broken_automation", "situation"}
        THEN None ELSE Head(devices)

OneOf(devices) == IF Cardinality(devices) = 1 THEN CHOOSE v \in devices : TRUE ELSE None

\* An issue of a connection that runs is about its members.
Loaded(d, issue) ==
    /\ issue.anchor \in DOMAIN d.rows /\ d.rows[issue.anchor].kind = "integration"
    /\ CurrentReason(d, issue) = "loaded"
Contributors(d, issue) == MembersOf(issue) \ {issue.anchor}
EpisodeDevice(d, issue) ==
    LET anchored == IF issue.anchor \in DOMAIN d.rows /\ d.rows[issue.anchor].kind = "integration"
                    THEN Contributors(d, issue) ELSE MembersOf(issue)
        subject == IF Loaded(d, issue) /\ OneOf({DeviceContext(d, id) : id \in Contributors(d, issue)}) # None
                   THEN OneOf({DeviceContext(d, id) : id \in Contributors(d, issue)})
                   ELSE DeviceContext(d, issue.anchor)
    IN  IF \A id \in anchored : DeviceContext(d, id) = subject THEN subject ELSE None

\* The device that wholly owns the issue, whose dialog lists it.
DeviceKinds == Readings \cup {"device", "lock", "ups", "temperature_limit", "thermostat", "reported"}
OwningDevice(d, issue) ==
    LET Own(id) == LET c == Canonical(d, id)
                   IN  IF c \in DOMAIN d.rows /\ d.rows[c].kind \in DeviceKinds /\ Len(d.rows[c].devices) = 1
                       THEN Head(d.rows[c].devices) ELSE None
    IN  OneOf({Own(id) : id \in MembersOf(issue)})

RelatedDeviceIssues(d, device) ==
    {issue \in VisibleIssues(d) : OwningDevice(d, issue) = device /\ device # None}

----------------------------------------------------------------------------
(* The list. *)

(* Under its context's title each issue is listed below the device it is      *)
(* about, and below each device of its members if its connection runs.        *)
Owners(d, issue) == {DeviceContext(d, id) : id \in Contributors(d, issue)}
Divided(d, issue) ==
    /\ Loaded(d, issue) /\ d.current[issue.anchor] # None
    /\ Owners(d, issue) # {} /\ None \notin Owners(d, issue)
Headings(d, issue) ==
    IF Divided(d, issue) THEN Owners(d, issue) ELSE {EpisodeDevice(d, issue)}

GroupTitle(d, issue) ==
    LET device == EpisodeDevice(d, issue)
        owner == IF device \in DOMAIN d.registry THEN d.registry[device] ELSE None
        s == IF owner # None THEN owner ELSE Canonical(d, issue.anchor)
        row == d.rows[s]
        entry == IF row.kind = "integration" THEN s ELSE row.owner
    IN  CASE s \notin DOMAIN d.rows -> "other"
          [] s \in DOMAIN d.rows /\ row.kind \in {"broken_automation", "repair", "situation"} -> row.kind
          [] OTHER -> IF entry \in DOMAIN d.rows THEN FamilyOf(d.rows, entry) ELSE "other"

\* The issues in the list: of a notification only its own.
Included(d, scope) == IF scope = None THEN d.issues ELSE {i \in d.issues : i.id \in scope}
Listing(d, scope) == {i \in Included(d, scope) : Visible(d, i)}
Groups(d, scope) == {GroupTitle(d, i) : i \in Listing(d, scope)}

\* Outside a notification a device's issues are opened together.
Combined(d, scope, group, device) ==
    /\ scope = None /\ device # None
    /\ \E i \in Listing(d, scope) : /\ GroupTitle(d, i) = group /\ device \in Headings(d, i)
                                    /\ OwningDevice(d, i) = device

\* A variant: a row under a combined heading never opens itself.
RowOpensAlone(d, scope, device, issue) == ~Combined(d, scope, GroupTitle(d, issue), device)

RowOpens(d, scope, device, issue) ==
    ~Combined(d, scope, GroupTitle(d, issue), device) \/ OwningDevice(d, issue) # device

\* What a row's button opens: the device's issues or this one.
RowTarget(d, scope, issue) ==
    IF scope = None /\ OwningDevice(d, issue) # None THEN <<"device", OwningDevice(d, issue)>>
    ELSE <<"issue", issue.id>>

\* The checks of a device that only wait are listed below its issues.
WaitingChecks(d, device) ==
    {i \in d.issues : WaitingOnly(d, i) /\ EpisodeDevice(d, i) = device}

(* The list's buttons: a device's View and the rows that open themselves.     *)
Buttons(d, scope) ==
    UNION {{IF RowOpens(d, scope, v, i) THEN RowTarget(d, scope, i) ELSE <<"device", v>> :
            v \in Headings(d, i)} : i \in Listing(d, scope)}
Dialog(d, target) ==
    IF target[1] = "device" THEN RelatedDeviceIssues(d, target[2])
    ELSE {i \in d.issues : i.id = target[2]}
=============================================================================
