------------------------------ MODULE Moderation ------------------------------
(***************************************************************************)
(* Reports (reports/service.py): whoever sees a thing may report it, a     *)
(* moderator answers the report and may take the thing out of circulation  *)
(* over the head of its owner, who may be changing it just then            *)
(* (projects/service.py, opportunities/service.py).                        *)
(*                                                                         *)
(* A handler is its reads and one commit, which writes what it worked out  *)
(* over whatever the row holds by then.                                    *)
(***************************************************************************)
EXTENDS Visibility, Naturals

CONSTANTS
    Reports,
    Participants,      \* who is in the conversation the message is in
    Reporters, Moderators,
    Workers,
    MaxMoves           \* bound: changes by the owners, and reports

VARIABLES
    report,            \* report[r]: [by, target, status], or NoRow
    message,           \* the message: shown, hidden
    answers,           \* audit: the answers given, [report, status, hidden]
    fell,              \* ghost: what a moderator took down
    crossed,           \* ghost: the reports and targets two handlers were on at once
    work, moves

moderationVars == <<visibilityVars, report, message, answers, fell, crossed, work, moves>>

Idle == [op |-> "idle"]
Targets == {"project", "opening", "message", "publication"}
Verdicts == {"dismissed", "actioned"}
ReportRow == [by : People, target : Targets, status : {"open"} \cup Verdicts]
Statuses == ProjectStatus \cup OpeningStatus
Work ==
    {Idle}
    \cup [op : {"report"}, by : People, of : Targets]
    \cup [op : {"resolve"}, on : Reports, of : Targets, verdict : Verdicts, hides : BOOLEAN]
    \cup [op : {"turn"}, of : {"project", "opening"}, to : Statuses]

Init ==
    /\ VisibilityTypeOK
    /\ report = [r \in Reports |-> NoRow]
    /\ message = "shown"
    /\ answers = {} /\ fell = {} /\ crossed = {}
    /\ work = [w \in Workers |-> Idle]
    /\ moves = 0

Open(r) == report[r] # NoRow /\ report[r].status = "open"

\* Two handlers that write the status of one thing, or the answer to one report.
Clash(t, u) ==
    {x \in Targets : {t.op, u.op} \subseteq {"resolve", "turn"} /\ t.of = x /\ u.of = x}
    \cup {r \in Reports : t.op = "resolve" /\ u.op = "resolve" /\ t.on = r /\ u.on = r}

Begin(w, t) ==
    /\ work[w] = Idle
    /\ work' = [work EXCEPT ![w] = t]
    /\ crossed' = crossed \cup UNION {Clash(t, work[v]) : v \in Workers}
End(w) == work' = [work EXCEPT ![w] = Idle] /\ UNCHANGED crossed

----------------------------------------------------------------------------
(* reports/service.py *)

\* _target_title
HasTitle(p, x) ==
    IF x = "message" THEN p \in Participants ELSE MayFind(p, x)

ReportLoad(w, p, x) ==
    /\ SignedIn(p)
    /\ HasTitle(p, x)
    /\ moves < MaxMoves /\ moves' = moves + 1
    /\ Begin(w, [op |-> "report", by |-> p, of |-> x])
    /\ UNCHANGED <<visibilityVars, report, message, answers, fell>>

\* create_report: the partial unique index allows one open report of a person and a thing.
ReportCommit(w, r) ==
    LET t == work[w] IN
    /\ t.op = "report"
    /\ report[r] = NoRow
    /\ IF \E q \in Reports : Open(q) /\ report[q].by = t.by /\ report[q].target = t.of
       THEN UNCHANGED report
       ELSE report' = [report EXCEPT ![r] = [by |-> t.by, target |-> t.of, status |-> "open"]]
    /\ End(w)
    /\ UNCHANGED <<visibilityVars, message, answers, fell, moves>>

\* Fault: a report is answered again.
AnyReport(r) == report[r] # NoRow

\* AlreadyResolvedError
StillOpen(r) == Open(r)

\* _hide_target: whether there is anything to take down.
MayHide(x) ==
    CASE x = "project" -> project.status # "archived"
      [] x = "opening" -> opening.status # "closed"
      [] x = "message" -> message # "hidden"
      [] OTHER -> FALSE

ResolveLoad(w, m, r, verdict, hide) ==
    /\ May(m, "report:moderate")
    /\ StillOpen(r)
    /\ Begin(w, [op |-> "resolve", on |-> r, of |-> report[r].target, verdict |-> verdict,
                 hides |-> hide /\ MayHide(report[r].target)])
    /\ UNCHANGED <<visibilityVars, report, message, answers, fell, moves>>

\* resolve_report: the report, what it takes down, and the audit row.
ResolveCommit(w) ==
    LET t == work[w]
        down(x) == t.hides /\ t.of = x IN
    /\ t.op = "resolve"
    /\ report' = [report EXCEPT ![t.on].status = t.verdict]
    /\ project' = IF down("project") THEN [project EXCEPT !.status = "archived"] ELSE project
    /\ opening' = IF down("opening") THEN [opening EXCEPT !.status = "closed"] ELSE opening
    /\ message' = IF down("message") THEN "hidden" ELSE message
    /\ answers' = answers \cup {[report |-> t.on, status |-> t.verdict, hidden |-> t.hides]}
    /\ fell' = IF t.hides THEN fell \cup {t.of} ELSE fell
    /\ End(w)
    /\ UNCHANGED <<users, profiled, discoverable, publication, moves>>

----------------------------------------------------------------------------
(* The owners *)

\* opportunities/policies.py TRANSITIONS, without who may take them.
OpeningTransitions ==
    {<<"draft", "open">>, <<"draft", "closed">>, <<"open", "closed">>, <<"open", "filled">>}

\* Fault: an opening closed is published again.
Reopening == OpeningTransitions \cup {<<"closed", "open">>}

\* assert_transition, on the row as it was loaded.
Turns == OpeningTransitions

TurnLoad(w, x, s) ==
    /\ x = "project" => ~project.deleted /\ <<project.status, s>> \in ProjectTransitions
    /\ x = "opening" => <<opening.status, s>> \in Turns
    /\ moves < MaxMoves /\ moves' = moves + 1
    /\ Begin(w, [op |-> "turn", of |-> x, to |-> s])
    /\ UNCHANGED <<visibilityVars, report, message, answers, fell>>

TurnCommit(w) ==
    LET t == work[w] IN
    /\ t.op = "turn"
    /\ project' = IF t.of = "project" THEN [project EXCEPT !.status = t.to] ELSE project
    /\ opening' = IF t.of = "opening" THEN [opening EXCEPT !.status = t.to] ELSE opening
    /\ End(w)
    /\ UNCHANGED <<users, profiled, discoverable, publication, report, message, answers, fell,
                   moves>>

Next ==
    \E w \in Workers :
        \/ \E p \in Reporters, x \in Targets : ReportLoad(w, p, x)
        \/ \E r \in Reports : ReportCommit(w, r)
        \/ \E m \in Moderators, r \in Reports, verdict \in Verdicts, hide \in BOOLEAN :
              ResolveLoad(w, m, r, verdict, hide)
        \/ ResolveCommit(w) \/ TurnCommit(w)
        \/ \E x \in {"project", "opening"}, s \in Statuses : TurnLoad(w, x, s)

Spec == Init /\ [][Next]_moderationVars

----------------------------------------------------------------------------
TypeOK ==
    /\ VisibilityTypeOK
    /\ report \in [Reports -> ReportRow \cup {NoRow}]
    /\ message \in {"shown", "hidden"}
    /\ answers \subseteq [report : Reports, status : Verdicts, hidden : BOOLEAN]
    /\ fell \subseteq Targets
    /\ work \in [Workers -> Work]

\* What moderation took out of circulation stays out, whatever its owner does with it, and a
\* report has the one answer its audit row gives, unless two moderators were on one report,
\* or a moderator and an owner on one thing, at once.
ModerationStands ==
    /\ \A x \in fell \ crossed : ~MayHide(x)
    /\ \A r \in Reports \ crossed : \A a \in answers :
          a.report = r => report[r].status = a.status
    /\ \A a, b \in answers : a.report = b.report => a = b \/ a.report \in crossed
=============================================================================
