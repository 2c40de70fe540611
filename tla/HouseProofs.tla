------------------------------ MODULE HouseProofs ------------------------------
(***************************************************************************)
(* Proofs about the components that House puts side by side: for any       *)
(* people, rows and concurrent handlers.  For each of them first what one  *)
(* of its own steps keeps, then that a behaviour of the house in which it  *)
(* is the part that runs is one of its behaviours.                         *)
(***************************************************************************)
EXTENDS House, CollaborationsProofs, FiniteSetTheorems, TLAPS

-----------------------------------------------------------------------------
(* Moderation *)

Report == Moderation!ReportRow
Hideable == {"project", "opening", "message"}

ModerationShape ==
    /\ DOMAIN work = Workers
    /\ report \in [Reports -> Report \cup {NoRow}]
    /\ project \in Moderation!ProjectRow /\ opening \in Moderation!OpeningRow
    /\ \A a \in answers : /\ a.report \in Reports /\ report[a.report] # NoRow
                          /\ a.status \in Moderation!Verdicts

\* A change of status in hand is one the status there is allows.
TurnStands(t) ==
    (t.op = "turn" /\ t.of \notin crossed) =>
        /\ t.of = "project" => <<project.status, t.to>> \in Moderation!ProjectTransitions
        /\ t.of = "opening" => <<opening.status, t.to>> \in Moderation!OpeningTransitions

\* A report in hand is open, and has no answer yet.
ResolveStands(t) ==
    t.op = "resolve" =>
        /\ t.on \in Reports /\ report[t.on] # NoRow
        /\ t.verdict \in Moderation!Verdicts
        /\ t.hides => t.of \in Hideable
        /\ t.on \notin crossed =>
              report[t.on].status = "open" /\ \A a \in answers : a.report # t.on

\* What was asked for.
Asked(t) ==
    /\ t.op = "report" => t.by \in People /\ t.of \in Moderation!Targets
    /\ t.op = "turn" => /\ t.of \in {"project", "opening"}
                        /\ t.of = "project" => t.to \in Moderation!ProjectStatus
                        /\ t.of = "opening" => t.to \in Moderation!OpeningStatus

InHand(t) == TurnStands(t) /\ ResolveStands(t) /\ Asked(t)

\* Two handlers on one thing, or one report, have crossed.
NoneBeside ==
    \A v, w \in Workers : v # w => Moderation!Clash(work[v], work[w]) \subseteq crossed

ModerationInv ==
    /\ ModerationShape
    /\ \A w \in Workers : InHand(work[w])
    /\ NoneBeside
    /\ Moderation!ModerationStands

LEMMA ClashFacts ==
    ASSUME NEW t, NEW u, Moderation!Clash(t, u) \subseteq crossed
    PROVE  /\ Moderation!Clash(u, t) \subseteq crossed
           /\ t.op = "resolve" /\ u.op = "resolve" /\ t.on = u.on /\ t.on \in Reports
                => t.on \in crossed
           /\ t.op \in {"resolve", "turn"} /\ u.op \in {"resolve", "turn"} /\ t.of = u.of
              /\ t.of \in Moderation!Targets => t.of \in crossed
BY DEF Moderation!Clash

LEMMA ModerationInit ==
    ASSUME Moderation!Init
    PROVE  ModerationInv
BY DEF Moderation!Init, ModerationInv, ModerationShape, InHand, Asked, TurnStands, ResolveStands,
   NoneBeside, Moderation!Clash, Moderation!Idle, Moderation!ModerationStands,
   Moderation!VisibilityTypeOK

LEMMA ModerationBegin ==
    ASSUME ModerationInv, NEW w \in Workers, NEW t, Moderation!Begin(w, t), InHand(t),
           UNCHANGED <<project, opening, report, message, answers, fell>>
    PROVE  ModerationInv'
<1> USE DEF ModerationInv
<1>1. /\ \A v \in Workers : work'[v] = IF v = w THEN t ELSE work[v]
      /\ DOMAIN work' = Workers
  BY DEF Moderation!Begin, ModerationShape
<1>2. /\ crossed \subseteq crossed'
      /\ \A v \in Workers : Moderation!Clash(t, work[v]) \subseteq crossed'
  BY DEF Moderation!Begin
<1>3. ModerationShape'
  BY <1>1 DEF ModerationShape
<1>4. \A v \in Workers : InHand(work[v])'
  BY <1>1, <1>2 DEF InHand, TurnStands, ResolveStands, Asked
<1>5. NoneBeside'
  <2>1. \A a, b : Moderation!Clash(a, b) = Moderation!Clash(b, a)
    BY DEF Moderation!Clash
  <2>2. ASSUME NEW a, NEW b PROVE Moderation!Clash(a, b)' = Moderation!Clash(a, b)
    BY DEF Moderation!Clash
  <2>3. ASSUME NEW v \in Workers, NEW u \in Workers, v # u
        PROVE  (Moderation!Clash(work[v], work[u]) \subseteq crossed)'
    <3>1. PICK a, b : a = work'[v] /\ b = work'[u]
      OBVIOUS
    <3>2. Moderation!Clash(a, b) \subseteq crossed'
      <4>1. CASE v = w
        BY <1>1, <1>2, <2>3, <3>1, <4>1
      <4>2. CASE u = w
        <5>1. Moderation!Clash(b, a) \subseteq crossed'
          BY <1>1, <1>2, <2>3, <3>1, <4>2
        <5> QED BY <5>1, <2>1
      <4>3. CASE v # w /\ u # w
        BY <1>1, <1>2, <2>3, <3>1, <4>3 DEF NoneBeside
      <4> QED BY <4>1, <4>2, <4>3
    <3> QED BY <3>1, <3>2 DEF Moderation!Clash
  <2> QED BY <2>3 DEF NoneBeside
<1>6. Moderation!ModerationStands'
  BY <1>2 DEF Moderation!ModerationStands, Moderation!MayHide
<1> QED BY <1>3, <1>4, <1>5, <1>6

\* A handler that is done: what the others have in hand stands, and so does moderation.
LEMMA ModerationEnd ==
    ASSUME ModerationInv, NEW w \in Workers, Moderation!End(w), ModerationShape',
           \A v \in Workers \ {w} : TurnStands(work[v])' /\ ResolveStands(work[v])',
           Moderation!ModerationStands'
    PROVE  ModerationInv'
<1> USE DEF ModerationInv
<1>1. /\ \A v \in Workers : work'[v] = IF v = w THEN Moderation!Idle ELSE work[v]
      /\ DOMAIN work' = Workers
      /\ UNCHANGED crossed
  BY DEF Moderation!End, ModerationShape
<1>2. ASSUME NEW v \in Workers PROVE InHand(work[v])'
  <2>1. CASE v = w
    BY <1>1, <2>1 DEF InHand, Asked, TurnStands, ResolveStands, Moderation!Idle
  <2>2. CASE v # w
    <3>1. Asked(work[v])'
      BY <1>1, <2>2 DEF Asked, InHand
    <3> QED BY <2>2, <3>1 DEF InHand
  <2> QED BY <2>1, <2>2
<1>3. NoneBeside'
  <2>1. \A u : /\ Moderation!Clash(Moderation!Idle, u) = {}
               /\ Moderation!Clash(u, Moderation!Idle) = {}
    BY DEF Moderation!Clash, Moderation!Idle
  <2>2. ASSUME NEW v \in Workers, NEW u \in Workers, v # u
        PROVE  (Moderation!Clash(work[v], work[u]) \subseteq crossed)'
    <3>1. PICK a, b : a = work'[v] /\ b = work'[u]
      OBVIOUS
    <3>2. Moderation!Clash(a, b) \subseteq crossed'
      BY <1>1, <2>1, <2>2, <3>1 DEF NoneBeside
    <3> QED BY <3>1, <3>2 DEF Moderation!Clash
  <2> QED BY <2>2 DEF NoneBeside
<1> QED BY <1>2, <1>3

LEMMA ModerationLoads ==
    ASSUME ModerationInv, Reporters \subseteq People, NEW w \in Workers
    PROVE  /\ \A p \in Reporters, x \in Moderation!Targets :
                 Moderation!ReportLoad(w, p, x) => ModerationInv'
           /\ \A m \in Moderators, r \in Reports, verdict \in Moderation!Verdicts,
                 hide \in BOOLEAN : Moderation!ResolveLoad(w, m, r, verdict, hide) => ModerationInv'
           /\ \A x \in {"project", "opening"}, s \in Moderation!Statuses :
                 Moderation!TurnLoad(w, x, s) => ModerationInv'
<1>1. ASSUME NEW p \in Reporters, NEW x \in Moderation!Targets, Moderation!ReportLoad(w, p, x)
      PROVE  ModerationInv'
  <2>1. PICK t : t = [op |-> "report", by |-> p, of |-> x]
    OBVIOUS
  <2>2. InHand(t)
    BY <2>1 DEF InHand, Asked, TurnStands, ResolveStands
  <2> QED BY <1>1, <2>1, <2>2, ModerationBegin DEF Moderation!ReportLoad,
          Moderation!visibilityVars
<1>2. ASSUME NEW m \in Moderators, NEW r \in Reports, NEW verdict \in Moderation!Verdicts,
             NEW hide \in BOOLEAN, Moderation!ResolveLoad(w, m, r, verdict, hide)
      PROVE  ModerationInv'
  <2>1. PICK hides : hides = (hide /\ Moderation!MayHide(report[r].target))
    OBVIOUS
  <2>2. PICK t : t = [op |-> "resolve", on |-> r, of |-> report[r].target,
                      verdict |-> verdict, hides |-> hides]
    OBVIOUS
  <2>3. hides => t.of \in Hideable
    BY <2>1, <2>2 DEF Moderation!MayHide, Hideable
  <2>4. report[r] # NoRow /\ report[r].status = "open"
    BY <1>2 DEF Moderation!ResolveLoad, Moderation!StillOpen, Moderation!Open
  <2>5. r \notin crossed => \A a \in answers : a.report # r
    BY <2>4 DEF ModerationInv, ModerationShape, Moderation!ModerationStands,
       Moderation!Verdicts
  <2>6. InHand(t)
    BY <2>2, <2>3, <2>4, <2>5 DEF InHand, Asked, TurnStands, ResolveStands
  <2>7. Moderation!Begin(w, t)
    BY Zenon, <1>2, <2>1, <2>2 DEF Moderation!ResolveLoad
  <2> QED BY <1>2, <2>6, <2>7, ModerationBegin DEF Moderation!ResolveLoad,
          Moderation!visibilityVars
<1>3. ASSUME NEW x \in {"project", "opening"}, NEW s \in Moderation!Statuses,
             Moderation!TurnLoad(w, x, s)
      PROVE  ModerationInv'
  <2>1. PICK t : t = [op |-> "turn", of |-> x, to |-> s]
    OBVIOUS
  <2>2. /\ x = "project" => <<project.status, s>> \in Moderation!ProjectTransitions
        /\ x = "opening" => <<opening.status, s>> \in Moderation!OpeningTransitions
    BY <1>3 DEF Moderation!TurnLoad, Moderation!Turns
  <2>3. /\ x = "project" => s \in Moderation!ProjectStatus
        /\ x = "opening" => s \in Moderation!OpeningStatus
    BY <2>2 DEF Moderation!ProjectTransitions, Moderation!OpeningTransitions,
       Moderation!ProjectStatus, Moderation!PUBLIC_STATUSES, Moderation!OpeningStatus
  <2>4. InHand(t)
    BY <2>1, <2>2, <2>3 DEF InHand, Asked, TurnStands, ResolveStands
  <2> QED BY <1>3, <2>1, <2>4, ModerationBegin DEF Moderation!TurnLoad,
          Moderation!visibilityVars
<1> QED BY <1>1, <1>2, <1>3

LEMMA ModerationReported ==
    ASSUME ModerationInv, NoRow \notin Report, NEW w \in Workers, NEW r \in Reports,
           Moderation!ReportCommit(w, r)
    PROVE  ModerationInv'
<1> USE DEF ModerationInv
<1>1. PICK row : row = [by |-> work[w].by, target |-> work[w].of, status |-> "open"]
  OBVIOUS
<1>2. /\ work[w].op = "report" /\ report[r] = NoRow
      /\ report' = report \/ report' = [report EXCEPT ![r] = row]
      /\ Moderation!End(w)
      /\ UNCHANGED <<project, opening, message, answers, fell>>
  BY <1>1 DEF Moderation!ReportCommit, Moderation!visibilityVars
<1>3. row \in Report
  BY <1>1, <1>2 DEF InHand, Asked, Report, Moderation!ReportRow
<1>4. \A q \in Reports : q = r \/ report'[q] = report[q]
  BY <1>2 DEF ModerationShape
<1>5. ModerationShape'
  <2>1. DOMAIN work' = Workers
    BY <1>2 DEF Moderation!End, ModerationShape
  <2>2. report' \in [Reports -> Report \cup {NoRow}]
    BY <1>2, <1>3 DEF ModerationShape
  <2> QED BY <1>2, <1>4, <2>1, <2>2 DEF ModerationShape
<1>6. UNCHANGED crossed /\ \A v \in Workers \ {w} : work'[v] = work[v]
  BY <1>2 DEF Moderation!End, ModerationShape
<1>7. ASSUME NEW v \in Workers \ {w}
      PROVE  TurnStands(work[v])' /\ ResolveStands(work[v])'
  BY <1>2, <1>4, <1>6 DEF InHand, TurnStands, ResolveStands
<1>8. Moderation!ModerationStands'
  <2>1. \A q \in Reports \ crossed : \A a \in answers :
          a.report = q => report'[q].status = a.status
    BY <1>2, <1>4 DEF ModerationShape, Moderation!ModerationStands
  <2> QED BY <1>2, <1>6, <2>1 DEF Moderation!ModerationStands, Moderation!MayHide
<1> QED BY <1>2, <1>5, <1>7, <1>8, ModerationEnd

LEMMA ModerationTurned ==
    ASSUME ModerationInv, NEW w \in Workers, Moderation!TurnCommit(w)
    PROVE  ModerationInv'
<1> USE DEF ModerationInv
<1>1. PICK t : t = work[w]
  OBVIOUS
<1>2. /\ t.op = "turn"
      /\ project' = IF t.of = "project" THEN [project EXCEPT !.status = t.to] ELSE project
      /\ opening' = IF t.of = "opening" THEN [opening EXCEPT !.status = t.to] ELSE opening
      /\ Moderation!End(w)
      /\ UNCHANGED <<report, message, answers, fell>>
  BY <1>1 DEF Moderation!TurnCommit
<1>3. InHand(t)
  BY <1>1
<1>4. UNCHANGED crossed /\ \A v \in Workers \ {w} : work'[v] = work[v]
  BY <1>2 DEF Moderation!End, ModerationShape
<1>5. ModerationShape'
  <2>1. DOMAIN work' = Workers
    BY <1>2 DEF Moderation!End, ModerationShape
  <2>2. project' \in Moderation!ProjectRow
    BY <1>2, <1>3 DEF InHand, Asked, ModerationShape, Moderation!ProjectRow
  <2>3. opening' \in Moderation!OpeningRow
    BY <1>2, <1>3 DEF InHand, Asked, ModerationShape, Moderation!OpeningRow
  <2> QED BY <1>2, <2>1, <2>2, <2>3 DEF ModerationShape
<1>6. ASSUME NEW v \in Workers \ {w}
      PROVE  TurnStands(work[v])' /\ ResolveStands(work[v])'
  <2>1. PICK u : u = work[v] /\ u = work'[v]
    BY <1>4
  <2>2. InHand(u)
    BY <2>1
  <2>3. Moderation!Clash(t, u) \subseteq crossed
    BY <1>1, <2>1 DEF NoneBeside
  <2>4. u.op = "turn" => u.of \in Moderation!Targets
    BY <2>2 DEF InHand, Asked, Moderation!Targets
  <2>5. u.op = "turn" /\ u.of \notin crossed => u.of # t.of
    BY <1>2, <2>3, <2>4, ClashFacts
  <2>6. TurnStands(u)'
    BY <1>2, <1>4, <2>2, <2>5 DEF InHand, Asked, TurnStands
  <2>7. ResolveStands(u)'
    BY <1>2, <1>4, <2>2 DEF InHand, ResolveStands
  <2> QED BY <2>1, <2>6, <2>7 DEF TurnStands, ResolveStands
<1>7. t.of \notin crossed => t.of \notin fell
  BY <1>2, <1>3 DEF InHand, Asked, TurnStands, Moderation!ModerationStands,
     Moderation!MayHide, Moderation!ProjectTransitions, Moderation!OpeningTransitions
<1>8. Moderation!ModerationStands'
  <2>1. ASSUME NEW x \in fell \ crossed PROVE ~Moderation!MayHide(x)'
    BY <1>2, <1>7, <2>1 DEF Moderation!ModerationStands, Moderation!MayHide
  <2> QED BY <1>2, <1>4, <2>1 DEF Moderation!ModerationStands
<1> QED BY <1>2, <1>5, <1>6, <1>8, ModerationEnd

LEMMA ModerationResolved ==
    ASSUME ModerationInv, NoRow \notin Report, NEW w \in Workers, Moderation!ResolveCommit(w)
    PROVE  ModerationInv'
<1> USE DEF ModerationInv
<1>1. PICK t : t = work[w]
  OBVIOUS
<1>2. PICK r, x, verdict, hides : r = t.on /\ x = t.of /\ verdict = t.verdict /\ hides = t.hides
  OBVIOUS
<1>3. PICK answer : answer = [report |-> r, status |-> verdict, hidden |-> hides]
  OBVIOUS
<1>4. /\ t.op = "resolve"
      /\ report' = [report EXCEPT ![r].status = verdict]
      /\ project' = IF hides /\ x = "project" THEN [project EXCEPT !.status = "archived"]
                    ELSE project
      /\ opening' = IF hides /\ x = "opening" THEN [opening EXCEPT !.status = "closed"]
                    ELSE opening
      /\ message' = IF hides /\ x = "message" THEN "hidden" ELSE message
      /\ answers' = answers \cup {answer}
      /\ fell' = IF hides THEN fell \cup {x} ELSE fell
      /\ Moderation!End(w)
  BY <1>1, <1>2, <1>3 DEF Moderation!ResolveCommit
<1>5. InHand(t)
  BY <1>1
<1>6. UNCHANGED crossed /\ \A v \in Workers \ {w} : work'[v] = work[v]
  BY <1>4 DEF Moderation!End, ModerationShape
<1>7. /\ r \in Reports /\ report[r] \in Report /\ report[r] # NoRow
      /\ verdict \in Moderation!Verdicts
      /\ r \notin crossed => \A a \in answers : a.report # r
  BY <1>2, <1>4, <1>5 DEF InHand, ResolveStands, ModerationShape
<1>8. PICK row : row = [report[r] EXCEPT !.status = verdict]
  OBVIOUS
<1>9. row \in Report /\ row # NoRow /\ row.status = verdict
  BY <1>7, <1>8 DEF Report, Moderation!ReportRow
<1>10. \A q \in Reports : report'[q] = IF q = r THEN row ELSE report[q]
  BY <1>4, <1>7, <1>8 DEF ModerationShape
<1>11. ModerationShape'
  <2>1. DOMAIN work' = Workers
    BY <1>4 DEF Moderation!End, ModerationShape
  <2>2. report' \in [Reports -> Report \cup {NoRow}]
    BY <1>4, <1>8, <1>9 DEF ModerationShape
  <2>3. project' \in Moderation!ProjectRow
    BY <1>4 DEF ModerationShape, Moderation!ProjectRow, Moderation!ProjectStatus
  <2>4. opening' \in Moderation!OpeningRow
    BY <1>4 DEF ModerationShape, Moderation!OpeningRow, Moderation!OpeningStatus
  <2>5. \A a \in answers' : /\ a.report \in Reports /\ report'[a.report] # NoRow
                            /\ a.status \in Moderation!Verdicts
    BY <1>3, <1>4, <1>7, <1>9, <1>10 DEF ModerationShape
  <2> QED BY <2>1, <2>2, <2>3, <2>4, <2>5 DEF ModerationShape
<1>12. ASSUME NEW v \in Workers \ {w}
       PROVE  TurnStands(work[v])' /\ ResolveStands(work[v])'
  <2>1. PICK u : u = work[v] /\ u = work'[v]
    BY <1>6
  <2>2. InHand(u)
    BY <2>1
  <2>3. Moderation!Clash(t, u) \subseteq crossed
    BY <1>1, <2>1 DEF NoneBeside
  <2>4. u.op = "turn" => u.of \in Moderation!Targets
    BY <2>2 DEF InHand, Asked, Moderation!Targets
  <2>5. u.op = "turn" /\ u.of \notin crossed => u.of # x
    BY <1>2, <1>4, <2>3, <2>4, ClashFacts
  <2>6. TurnStands(u)'
    BY <1>4, <1>6, <2>2, <2>5 DEF InHand, Asked, TurnStands
  <2>7. u.op = "resolve" /\ u.on \notin crossed => u.on # r
    BY <1>2, <1>4, <1>7, <2>3, ClashFacts
  <2>8. ResolveStands(u)'
    BY <1>3, <1>4, <1>6, <1>9, <1>10, <2>2, <2>7 DEF InHand, ResolveStands
  <2> QED BY <2>1, <2>6, <2>8 DEF TurnStands, ResolveStands
<1>13. Moderation!ModerationStands'
  <2>1. hides => x \in Hideable
    BY <1>2, <1>4, <1>5 DEF InHand, ResolveStands
  <2>2. ASSUME NEW y \in fell' \ crossed PROVE ~Moderation!MayHide(y)'
    <3>1. CASE hides /\ y = x
      BY <1>4, <2>1, <3>1 DEF Moderation!MayHide, Hideable, ModerationShape,
         Moderation!ProjectRow, Moderation!OpeningRow
    <3>2. CASE y \in fell
      BY <1>4, <2>2, <3>2 DEF Moderation!MayHide, Moderation!ModerationStands,
         ModerationShape, Moderation!ProjectRow, Moderation!OpeningRow
    <3> QED BY <1>4, <2>2, <3>1, <3>2
  <2>3. ASSUME NEW q \in Reports \ crossed, NEW a \in answers', a.report = q
        PROVE  report'[q].status = a.status
    BY <1>3, <1>4, <1>7, <1>9, <1>10, <2>3 DEF Moderation!ModerationStands
  <2>4. ASSUME NEW a \in answers', NEW b \in answers', a.report = b.report
        PROVE  a = b \/ a.report \in crossed
    BY <1>3, <1>4, <1>7, <2>4 DEF Moderation!ModerationStands
  <2> QED BY <1>6, <2>2, <2>3, <2>4 DEF Moderation!ModerationStands
<1> QED BY <1>4, <1>11, <1>12, <1>13, ModerationEnd

LEMMA ModerationNext ==
    ASSUME ModerationInv, NoRow \notin Report, Reporters \subseteq People,
           [Moderation!Next]_(Moderation!moderationVars)
    PROVE  ModerationInv'
<1>1. CASE UNCHANGED Moderation!moderationVars
  <2>1. UNCHANGED <<project, opening, report, message, answers, fell, crossed, work>>
    BY <1>1 DEF Moderation!moderationVars, Moderation!visibilityVars
  <2>2. \A w \in Workers : InHand(work[w])'
    BY <2>1 DEF ModerationInv, InHand, Asked, TurnStands, ResolveStands
  <2>3. NoneBeside'
    BY <2>1 DEF ModerationInv, NoneBeside, Moderation!Clash
  <2> QED BY <2>1, <2>2, <2>3 DEF ModerationInv, ModerationShape,
          Moderation!ModerationStands, Moderation!MayHide
<1>2. CASE Moderation!Next
  <2>1. PICK w \in Workers :
          \/ \E p \in Reporters, x \in Moderation!Targets : Moderation!ReportLoad(w, p, x)
          \/ \E r \in Reports : Moderation!ReportCommit(w, r)
          \/ \E m \in Moderators, r \in Reports, verdict \in Moderation!Verdicts,
                hide \in BOOLEAN : Moderation!ResolveLoad(w, m, r, verdict, hide)
          \/ Moderation!ResolveCommit(w) \/ Moderation!TurnCommit(w)
          \/ \E x \in {"project", "opening"}, s \in Moderation!Statuses :
                Moderation!TurnLoad(w, x, s)
    BY <1>2 DEF Moderation!Next
  <2>2. /\ \A p \in Reporters, x \in Moderation!Targets :
              Moderation!ReportLoad(w, p, x) => ModerationInv'
        /\ \A m \in Moderators, r \in Reports, verdict \in Moderation!Verdicts,
              hide \in BOOLEAN : Moderation!ResolveLoad(w, m, r, verdict, hide) => ModerationInv'
        /\ \A x \in {"project", "opening"}, s \in Moderation!Statuses :
              Moderation!TurnLoad(w, x, s) => ModerationInv'
    BY ModerationLoads
  <2>3. /\ \A r \in Reports : Moderation!ReportCommit(w, r) => ModerationInv'
        /\ Moderation!ResolveCommit(w) \/ Moderation!TurnCommit(w) => ModerationInv'
    BY ModerationReported, ModerationTurned, ModerationResolved
  <2> QED BY <2>1, <2>2, <2>3
<1> QED BY <1>1, <1>2

\* In the house, while it is the part that runs.
LEMMA ModerationRuns ==
    /\ HouseInit /\ part = "moderation" => Moderation!Init
    /\ [HouseNext]_houseVars /\ part = "moderation"
          => part' = "moderation" /\ [Moderation!Next]_(Moderation!moderationVars)
<1>1. HouseInit /\ part = "moderation" => Moderation!Init
  BY DEF HouseInit
<1>2. ASSUME HouseNext, part = "moderation" PROVE part' = "moderation" /\ Moderation!Next
  BY <1>2 DEF HouseNext
<1>3. ASSUME UNCHANGED houseVars, part = "moderation"
      PROVE  part' = "moderation" /\ UNCHANGED Moderation!moderationVars
  BY <1>3 DEF houseVars, visibilityOwn, moderationOwn, Moderation!moderationVars, Moderation!visibilityVars
<1> QED BY <1>1, <1>2, <1>3

LEMMA ModerationHolds == HouseSpec => [](part = "moderation" => ModerationInv)
<1>1. HouseInit => (part = "moderation" => ModerationInv)
  BY ModerationRuns, ModerationInit
<1>2. (part = "moderation" => ModerationInv) /\ [HouseNext]_houseVars
        => (part = "moderation" => ModerationInv)'
  <2> SUFFICES ASSUME part = "moderation" => ModerationInv, [HouseNext]_houseVars, part' = "moderation"
               PROVE  ModerationInv'
    OBVIOUS
  <2>1. part = "moderation"
    BY DEF HouseNext, houseVars
  <2> QED BY <2>1, ModerationRuns, ModerationNext, HouseRowsAssumption, PeopleAssumption DEF Report
<1> QED BY <1>1, <1>2, PTL DEF HouseSpec

\* What a moderator took down stays down, whatever its owner does next, and a report has the
\* one answer its audit row gives; only two handlers that were on one report, or wrote the
\* status of one thing, at once can undo that (reports/service.py, projects/service.py,
\* opportunities/service.py).
THEOREM ModerationIsFinal == HouseSpec => []ModerationStands
<1>1. (part = "moderation" => ModerationInv) => ModerationStands
  BY DEF ModerationInv, ModerationStands
<1> QED BY <1>1, ModerationHolds, PTL

-----------------------------------------------------------------------------
(* Custody *)

NoCustodyRow == NoRow \notin Custody!FacilityRow /\ NoRow \notin Custody!EquipmentRow

CustodyShape ==
    /\ users \in [Staff -> Custody!UserRow \cup {NoRow}]
    /\ facility \in [Facilities -> Custody!FacilityRow \cup {NoRow}]
    /\ equipment \in [Equipment -> Custody!EquipmentRow \cup {NoRow}]
    /\ DOMAIN booking = Bookings
    /\ \A b \in Bookings : booking[b] # NoRow => booking[b].of \in Equipment
    /\ DOMAIN work = Workers

\* What was asked for names what the request found; a custodian in hand is one the facility
\* accepts, or somebody whose account was changed or deleted since.
TaskStands(t) ==
    /\ t.op \in {"assign", "close", "install"} => t.at \in Facilities
    /\ t.op \in {"adapt", "book"} => t.at \in Equipment
    /\ t.op \in {"install", "adapt"} => t.for \in Custody!Audiences
    /\ t.op = "assign" => t.to \in Staff \cup {NoRow}
    /\ t.op = "assign" /\ t.to # NoRow /\ facility[t.at] # NoRow =>
          t.to \in moved \/ ~Custody!Exists(t.to) \/ Custody!Accepts(t.to, t.at)

CustodyInv ==
    /\ CustodyShape
    /\ \A w \in Workers : TaskStands(work[w])
    /\ Custody!PlacesAreKept

LEMMA CustodyInit ==
    ASSUME NoCustodyRow, Custody!UsersTypeOK, Custody!Init
    PROVE  CustodyInv
<1>1. PICK f \in Facilities, d \in Departments \cup {NoRow} :
          /\ facility = [g \in Facilities |->
                IF g = f THEN [department |-> d, custodian |-> NoRow] ELSE NoRow]
          /\ equipment = [e \in Equipment |-> [of |-> f, for |-> "everybody"]]
  BY DEF Custody!Init
<1>2. facility \in [Facilities -> Custody!FacilityRow \cup {NoRow}]
  BY <1>1 DEF Custody!FacilityRow
<1>3. equipment \in [Equipment -> Custody!EquipmentRow \cup {NoRow}]
  BY <1>1 DEF Custody!EquipmentRow, Custody!Audiences
<1>4. /\ booking = [b \in Bookings |-> NoRow]
      /\ work = [w \in Workers |-> Custody!Idle]
  BY DEF Custody!Init
<1>5. CustodyShape
  BY <1>2, <1>3, <1>4 DEF CustodyShape, Custody!UsersTypeOK
<1>6. \A w \in Workers : TaskStands(work[w])
  BY <1>4 DEF TaskStands, Custody!Idle
<1>7. Custody!PlacesAreKept
  BY <1>1, <1>4 DEF NoCustodyRow, Custody!PlacesAreKept, Custody!FacilityRow
<1> QED BY <1>5, <1>6, <1>7 DEF CustodyInv

LEMMA CustodyBegin ==
    ASSUME CustodyInv, NEW w \in Workers, NEW t, Custody!Begin(w, t), TaskStands(t)
    PROVE  CustodyInv'
<1>1. /\ \A v \in Workers : work'[v] = IF v = w THEN t ELSE work[v]
      /\ DOMAIN work' = Workers
  BY DEF Custody!Begin, CustodyInv, CustodyShape
<1>2. UNCHANGED <<users, facility, equipment, booking, moved>>
  BY DEF Custody!Begin
<1>3. CustodyShape'
  BY <1>1, <1>2 DEF CustodyInv, CustodyShape
<1>4. \A v \in Workers : TaskStands(work[v])'
  BY <1>1, <1>2 DEF CustodyInv, TaskStands, Custody!Accepts, Custody!Exists
<1>5. Custody!PlacesAreKept'
  BY <1>2 DEF CustodyInv, Custody!PlacesAreKept, Custody!Accepts, Custody!Exists
<1> QED BY <1>3, <1>4, <1>5 DEF CustodyInv

LEMMA CustodyLoads ==
    ASSUME CustodyInv, NEW w \in Workers
    PROVE  /\ \A p \in Managers, f \in Facilities :
                 /\ \A k \in Staff \cup {NoRow} : Custody!AssignLoad(w, p, f, k) => CustodyInv'
                 /\ Custody!CloseLoad(w, p, f) => CustodyInv'
                 /\ \A for \in Custody!Audiences :
                       Custody!InstallLoad(w, p, f, for) => CustodyInv'
           /\ \A p \in Managers, e \in Equipment, for \in Custody!Audiences :
                 Custody!AdaptLoad(w, p, e, for) => CustodyInv'
           /\ \A p \in Bookers, e \in Equipment : Custody!BookLoad(w, p, e) => CustodyInv'
<1>1. ASSUME NEW p \in Managers, NEW f \in Facilities, NEW k \in Staff \cup {NoRow},
             Custody!AssignLoad(w, p, f, k)
      PROVE  CustodyInv'
  <2>1. TaskStands([op |-> "assign", at |-> f, to |-> k])
    BY <1>1 DEF TaskStands, Custody!AssignLoad
  <2> QED BY <1>1, <2>1, CustodyBegin DEF Custody!AssignLoad
<1>2. ASSUME NEW p \in Managers, NEW f \in Facilities, Custody!CloseLoad(w, p, f)
      PROVE  CustodyInv'
  <2>1. TaskStands([op |-> "close", at |-> f])
    BY DEF TaskStands
  <2> QED BY <1>2, <2>1, CustodyBegin DEF Custody!CloseLoad
<1>3. ASSUME NEW p \in Managers, NEW f \in Facilities, NEW for \in Custody!Audiences,
             Custody!InstallLoad(w, p, f, for)
      PROVE  CustodyInv'
  <2>1. TaskStands([op |-> "install", at |-> f, for |-> for])
    BY DEF TaskStands
  <2> QED BY <1>3, <2>1, CustodyBegin DEF Custody!InstallLoad
<1>4. ASSUME NEW p \in Managers, NEW e \in Equipment, NEW for \in Custody!Audiences,
             Custody!AdaptLoad(w, p, e, for)
      PROVE  CustodyInv'
  <2>1. TaskStands([op |-> "adapt", at |-> e, for |-> for])
    BY DEF TaskStands
  <2> QED BY <1>4, <2>1, CustodyBegin DEF Custody!AdaptLoad
<1>5. ASSUME NEW p \in Bookers, NEW e \in Equipment, Custody!BookLoad(w, p, e)
      PROVE  CustodyInv'
  <2>1. TaskStands([op |-> "book", at |-> e, by |-> p])
    BY DEF TaskStands
  <2> QED BY <1>5, <2>1, CustodyBegin DEF Custody!BookLoad
<1> QED BY <1>1, <1>2, <1>3, <1>4, <1>5

\* A step that changes no account and leaves every facility, with its custodian, or
\* takes it away.
LEMMA CustodyKeeps ==
    ASSUME CustodyInv, UNCHANGED <<users, moved>>, CustodyShape',
           \A v \in Workers : work'[v] = work[v] \/ work'[v] = Custody!Idle,
           \A f \in Facilities : facility'[f] = facility[f] \/ facility'[f] = NoRow,
           \A e \in Equipment : equipment'[e] # NoRow => facility'[equipment'[e].of] # NoRow,
           \A b \in Bookings : booking'[b] # NoRow => equipment'[booking'[b].of] # NoRow
    PROVE  CustodyInv'
<1>1. ASSUME NEW v \in Workers PROVE TaskStands(work[v])'
  <2>1. PICK t : t = work[v] /\ TaskStands(t)
    BY DEF CustodyInv
  <2>2. TaskStands(t)'
    BY <2>1 DEF TaskStands, Custody!Accepts, Custody!Exists
  <2>3. TaskStands(Custody!Idle)'
    BY DEF TaskStands, Custody!Idle
  <2>4. work'[v] = t \/ work'[v] = Custody!Idle
    BY <2>1
  <2> QED BY <2>2, <2>3, <2>4 DEF TaskStands
<1>2. ASSUME NEW f \in Facilities, facility'[f] # NoRow, facility'[f].custodian # NoRow
      PROVE  (facility[f].custodian \in moved \/ Custody!Accepts(facility[f].custodian, f))'
  BY <1>2 DEF CustodyInv, Custody!PlacesAreKept, Custody!Accepts, Custody!Exists
<1>3. Custody!PlacesAreKept'
  BY <1>2 DEF Custody!PlacesAreKept
<1> QED BY <1>1, <1>3 DEF CustodyInv

LEMMA CustodyEnds ==
    ASSUME CustodyInv, NEW w \in Workers, Custody!End(w)
    PROVE  /\ \A v \in Workers : work'[v] = work[v] \/ work'[v] = Custody!Idle
           /\ DOMAIN work' = Workers
           /\ UNCHANGED <<users, moved>>
           /\ TaskStands(work[w])
BY DEF CustodyInv, CustodyShape, Custody!End

LEMMA CustodyEquipment ==
    ASSUME CustodyInv, NoCustodyRow, NEW w \in Workers,
           \/ Custody!CloseCommit(w) \/ Custody!AdaptCommit(w)
           \/ \E e \in Equipment : Custody!InstallCommit(w, e)
    PROVE  CustodyInv'
<1> USE DEF CustodyInv
<1>1. Custody!End(w)
  BY DEF Custody!CloseCommit, Custody!AdaptCommit, Custody!InstallCommit
<1>2. PICK t : t = work[w] /\ TaskStands(t)
  OBVIOUS
<1>3. CASE Custody!CloseCommit(w)
  <2>1. PICK f : f = t.at /\ f \in Facilities
    BY <1>2, <1>3 DEF Custody!CloseCommit, TaskStands
  <2>2. /\ facility' = [facility EXCEPT ![f] = NoRow]
        /\ \A e \in Equipment :
              equipment'[e] = IF equipment[e] # NoRow /\ equipment[e].of = f THEN NoRow
                              ELSE equipment[e]
        /\ DOMAIN equipment' = Equipment /\ DOMAIN booking' = Bookings
        /\ equipment' \in [Equipment -> Custody!EquipmentRow \cup {NoRow}]
        /\ \A b \in Bookings :
              \/ booking'[b] = NoRow
              \/ /\ booking'[b] = booking[b]
                 /\ ~(equipment[booking[b].of] # NoRow /\ equipment[booking[b].of].of = f)
    BY <1>2, <1>3, <2>1 DEF Custody!CloseCommit, CustodyShape
  <2>3. CustodyShape'
    BY <1>1, <2>1, <2>2, CustodyEnds DEF CustodyShape
  <2>4. \A e \in Equipment : equipment'[e] # NoRow => facility'[equipment'[e].of] # NoRow
    BY <2>1, <2>2 DEF CustodyShape, Custody!PlacesAreKept, Custody!EquipmentRow
  <2>5. \A b \in Bookings : booking'[b] # NoRow => equipment'[booking'[b].of] # NoRow
    BY <2>2 DEF CustodyShape, Custody!PlacesAreKept
  <2> QED BY <1>1, <2>1, <2>2, <2>3, <2>4, <2>5, CustodyKeeps, CustodyEnds DEF CustodyShape
<1>4. CASE \/ Custody!AdaptCommit(w)
           \/ \E e \in Equipment : Custody!InstallCommit(w, e)
  <2>1. /\ UNCHANGED <<facility, booking>>
        /\ \/ equipment' = equipment
           \/ \E e \in Equipment, row \in Custody!EquipmentRow :
                 /\ equipment' = [equipment EXCEPT ![e] = row]
                 /\ facility[row.of] # NoRow
    <3>1. CASE Custody!AdaptCommit(w)
      <4>1. PICK e : e = t.at /\ e \in Equipment
        BY <1>2, <3>1 DEF Custody!AdaptCommit, TaskStands
      <4>2. CASE equipment[e] # NoRow
        <5>1. PICK row : row = [equipment[e] EXCEPT !.for = t.for]
          OBVIOUS
        <5>2. row \in Custody!EquipmentRow /\ row.of = equipment[e].of
          <6>1. t.for \in Custody!Audiences
            BY <1>2, <3>1 DEF TaskStands, Custody!AdaptCommit
          <6>2. equipment[e] \in Custody!EquipmentRow
            BY <4>1, <4>2 DEF CustodyShape
          <6> QED BY <5>1, <6>1, <6>2 DEF Custody!EquipmentRow
        <5>3. equipment' = [equipment EXCEPT ![e] = row]
          BY <1>2, <3>1, <4>1, <4>2, <5>1 DEF Custody!AdaptCommit
        <5>4. facility[row.of] # NoRow
          BY <4>1, <4>2, <5>2 DEF Custody!PlacesAreKept
        <5> QED BY <3>1, <4>1, <5>2, <5>3, <5>4 DEF Custody!AdaptCommit
      <4> QED BY <1>2, <3>1, <4>1, <4>2 DEF Custody!AdaptCommit
    <3>2. ASSUME NEW e \in Equipment, Custody!InstallCommit(w, e)
          PROVE  /\ UNCHANGED <<facility, booking>>
                 /\ \/ equipment' = equipment
                    \/ \E x \in Equipment, row \in Custody!EquipmentRow :
                          /\ equipment' = [equipment EXCEPT ![x] = row]
                          /\ facility[row.of] # NoRow
      <4>1. PICK row : row = [of |-> t.at, for |-> t.for]
        OBVIOUS
      <4>2. row \in Custody!EquipmentRow
        BY <1>2, <3>2, <4>1 DEF Custody!InstallCommit, TaskStands, Custody!EquipmentRow
      <4>3. \/ equipment' = equipment
            \/ equipment' = [equipment EXCEPT ![e] = row] /\ facility[row.of] # NoRow
        BY <1>2, <3>2, <4>1 DEF Custody!InstallCommit, Custody!Refers
      <4> QED BY <3>2, <4>2, <4>3 DEF Custody!InstallCommit
    <3> QED BY <1>4, <3>1, <3>2
  <2>2. /\ equipment' \in [Equipment -> Custody!EquipmentRow \cup {NoRow}]
        /\ \A e \in Equipment : /\ equipment'[e] # NoRow => facility[equipment'[e].of] # NoRow
                                /\ equipment[e] # NoRow => equipment'[e] # NoRow
    BY <2>1 DEF NoCustodyRow, CustodyShape, Custody!PlacesAreKept
  <2>3. CustodyShape'
    BY <1>1, <2>1, <2>2, CustodyEnds DEF CustodyShape
  <2>4. \A b \in Bookings : booking'[b] # NoRow => equipment'[booking'[b].of] # NoRow
    BY <2>1, <2>2 DEF CustodyShape, Custody!PlacesAreKept
  <2> QED BY <1>1, <2>1, <2>2, <2>3, <2>4, CustodyKeeps, CustodyEnds
<1> QED BY <1>3, <1>4

LEMMA CustodyAssigned ==
    ASSUME CustodyInv, NoCustodyRow, NEW w \in Workers, Custody!AssignCommit(w)
    PROVE  CustodyInv'
<1> USE DEF CustodyInv
<1>1. PICK t : t = work[w] /\ TaskStands(t)
  OBVIOUS
<1>2. PICK f, k : f = t.at /\ k = t.to
  OBVIOUS
<1>3. /\ Custody!End(w) /\ UNCHANGED <<equipment, booking>>
      /\ f \in Facilities /\ k \in Staff \cup {NoRow}
      /\ facility' = IF facility[f] # NoRow /\ (k # NoRow => Custody!Exists(k))
                     THEN [facility EXCEPT ![f].custodian = k] ELSE facility
  BY <1>1, <1>2 DEF Custody!AssignCommit, TaskStands
<1>4. /\ \A v \in Workers : work'[v] = work[v] \/ work'[v] = Custody!Idle
      /\ DOMAIN work' = Workers
      /\ UNCHANGED <<users, moved>>
  BY <1>3, CustodyEnds
<1>5. CASE facility' = facility
  <2>1. CustodyShape'
    BY <1>3, <1>4, <1>5 DEF CustodyShape
  <2> QED BY <1>3, <1>4, <1>5, <2>1, CustodyKeeps DEF Custody!PlacesAreKept
<1>6. CASE facility[f] # NoRow /\ (k # NoRow => Custody!Exists(k))
  <2>1. PICK row : row = [facility[f] EXCEPT !.custodian = k]
    OBVIOUS
  <2>2. facility[f] \in Custody!FacilityRow
    BY <1>3, <1>6 DEF CustodyShape
  <2>3. /\ row \in Custody!FacilityRow /\ row # NoRow
        /\ row.custodian = k /\ row.department = facility[f].department
    BY <1>3, <2>1, <2>2 DEF Custody!FacilityRow, NoCustodyRow
  <2>4. \A g \in Facilities : facility'[g] = IF g = f THEN row ELSE facility[g]
    BY <1>3, <1>6, <2>1 DEF CustodyShape
  <2>5. CustodyShape'
    BY <1>3, <1>4, <1>6, <2>1, <2>3 DEF CustodyShape
  <2>6. k # NoRow => k \in moved \/ Custody!Accepts(k, f)
    <3>1. work[w].op = "assign"
      BY DEF Custody!AssignCommit
    <3> QED BY <1>1, <1>2, <1>6, <3>1 DEF TaskStands
  <2>7. \A p, g : g \in Facilities /\ facility[g] # NoRow /\ Custody!Accepts(p, g)
                    => Custody!Accepts(p, g)'
    BY <1>4, <2>3, <2>4 DEF Custody!Accepts, Custody!Exists
  <2>8. ASSUME NEW v \in Workers PROVE TaskStands(work[v])'
    <3>1. PICK u : u = work[v] /\ TaskStands(u)
      OBVIOUS
    <3>2. u.op = "assign" /\ facility'[u.at] # NoRow => facility[u.at] # NoRow
      BY <1>6, <2>4, <3>1 DEF TaskStands
    <3>3. \A p, g : g \in Facilities /\ facility[g] # NoRow /\ Custody!Accepts(p, g)
                      => Custody!Accepts(p, g)'
      BY <2>7
    <3>4. TaskStands(u)'
      BY <1>4, <3>1, <3>2, <2>3, <2>4 DEF TaskStands, Custody!Accepts, Custody!Exists
    <3>5. TaskStands(Custody!Idle)'
      BY DEF TaskStands, Custody!Idle
    <3>6. work'[v] = u \/ work'[v] = Custody!Idle
      BY <1>4, <3>1
    <3> QED BY <3>4, <3>5, <3>6 DEF TaskStands
  <2>9. ASSUME NEW g \in Facilities, facility'[g] # NoRow, facility'[g].custodian # NoRow
        PROVE  (facility[g].custodian \in moved \/ Custody!Accepts(facility[g].custodian, g))'
    <3>1. CASE g = f
      BY <1>4, <2>3, <2>4, <2>6, <2>9, <3>1 DEF Custody!Accepts, Custody!Exists
    <3>2. CASE g # f
      BY <1>4, <2>4, <2>9, <3>2 DEF Custody!PlacesAreKept, Custody!Accepts, Custody!Exists
    <3> QED BY <3>1, <3>2
  <2>10. Custody!PlacesAreKept'
    <3>1. \A e \in Equipment : equipment'[e] # NoRow => facility'[equipment'[e].of] # NoRow
      BY <1>3, <2>3, <2>4 DEF Custody!PlacesAreKept, CustodyShape, Custody!EquipmentRow
    <3> QED BY <1>3, <2>9, <3>1 DEF Custody!PlacesAreKept
  <2> QED BY <2>5, <2>8, <2>10
<1> QED BY <1>3, <1>5, <1>6

LEMMA CustodyBooked ==
    ASSUME CustodyInv, NEW w \in Workers, NEW b \in Bookings, Custody!BookCommit(w, b)
    PROVE  CustodyInv'
<1> USE DEF CustodyInv
<1>1. PICK t : t = work[w] /\ TaskStands(t)
  OBVIOUS
<1>2. /\ Custody!End(w) /\ UNCHANGED <<facility, equipment>>
      /\ t.at \in Equipment
  BY <1>1 DEF Custody!BookCommit, TaskStands
<1>3. PICK row : row = [of |-> t.at, by |-> t.by, pending |-> TRUE]
  OBVIOUS
<1>4. \/ booking' = booking
      \/ booking' = [booking EXCEPT ![b] = row] /\ equipment[t.at] # NoRow
  BY <1>1, <1>3 DEF Custody!BookCommit, Custody!Refers
<1>5. CustodyShape'
  BY <1>2, <1>3, <1>4, CustodyEnds DEF CustodyShape
<1>6. \A c \in Bookings : booking'[c] # NoRow => equipment'[booking'[c].of] # NoRow
  BY <1>2, <1>3, <1>4 DEF CustodyShape, Custody!PlacesAreKept
<1> QED BY <1>2, <1>5, <1>6, CustodyEnds, CustodyKeeps DEF Custody!PlacesAreKept

LEMMA CustodyAlone ==
    ASSUME CustodyInv, NoCustodyRow
    PROVE  /\ \A p \in Managers, e \in Equipment : Custody!DeleteEquipment(p, e) => CustodyInv'
           /\ \A p \in Staff, b \in Bookings : Custody!Decide(p, b) => CustodyInv'
<1> USE DEF CustodyInv
<1>1. ASSUME NEW p \in Managers, NEW e \in Equipment, Custody!DeleteEquipment(p, e)
      PROVE  CustodyInv'
  <2>1. /\ UNCHANGED <<users, facility, moved, work>>
        /\ equipment' = [equipment EXCEPT ![e] = NoRow]
        /\ DOMAIN booking' = Bookings
        /\ \A b \in Bookings : \/ booking'[b] = NoRow
                               \/ booking'[b] = booking[b] /\ booking[b].of # e
    BY <1>1 DEF Custody!DeleteEquipment
  <2>2. CustodyShape'
    BY <2>1 DEF CustodyShape
  <2> QED BY <2>1, <2>2, CustodyKeeps DEF CustodyShape, Custody!PlacesAreKept
<1>2. ASSUME NEW p \in Staff, NEW b \in Bookings, Custody!Decide(p, b)
      PROVE  CustodyInv'
  <2>1. /\ UNCHANGED <<users, facility, equipment, moved, work>>
        /\ booking' = [booking EXCEPT ![b].pending = FALSE]
        /\ booking[b] # NoRow
    BY <1>2 DEF Custody!Decide, Custody!Waiting
  <2>2. PICK row : row = [booking[b] EXCEPT !.pending = FALSE] /\ row.of = booking[b].of
    <3>1. booking[b].of = [booking[b] EXCEPT !.pending = FALSE].of
      OBVIOUS
    <3> QED BY <3>1
  <2>3. booking' = [booking EXCEPT ![b] = row]
    BY <2>1, <2>2
  <2>4. CustodyShape'
    BY <2>1, <2>2, <2>3 DEF CustodyShape
  <2> QED BY <2>1, <2>2, <2>3, <2>4, CustodyKeeps DEF CustodyShape, Custody!PlacesAreKept
<1> QED BY <1>1, <1>2

LEMMA CustodyCreated ==
    ASSUME CustodyInv, NoCustodyRow, NEW p \in Managers, NEW f \in Facilities,
           NEW d \in Departments \cup {NoRow}, Custody!CreateFacility(p, f, d)
    PROVE  CustodyInv'
<1> USE DEF CustodyInv
<1>1. PICK row : row = [department |-> d, custodian |-> NoRow]
  OBVIOUS
<1>2. /\ UNCHANGED <<users, equipment, booking, moved, work>>
      /\ facility[f] = NoRow /\ facility' = [facility EXCEPT ![f] = row]
      /\ \A w \in Workers : work[w] # Custody!Idle => work[w].at # f
  BY <1>1 DEF Custody!CreateFacility
<1>3. row \in Custody!FacilityRow /\ row # NoRow /\ row.custodian = NoRow
  BY <1>1 DEF Custody!FacilityRow, NoCustodyRow
<1>4. \A g \in Facilities : facility'[g] = IF g = f THEN row ELSE facility[g]
  BY <1>2 DEF CustodyShape
<1>5. CustodyShape'
  BY <1>2, <1>3 DEF CustodyShape
<1>6. ASSUME NEW v \in Workers PROVE TaskStands(work[v])'
  <2>1. PICK t : t = work[v] /\ TaskStands(t)
    OBVIOUS
  <2>2. t.op = "assign" => t.at # f
    BY <1>2, <2>1 DEF Custody!Idle
  <2>3. TaskStands(t)'
    BY <1>2, <1>4, <2>1, <2>2 DEF TaskStands, Custody!Accepts, Custody!Exists
  <2> QED BY <1>2, <2>1, <2>3 DEF TaskStands
<1>7. Custody!PlacesAreKept'
  BY <1>2, <1>3, <1>4 DEF CustodyShape, Custody!PlacesAreKept, Custody!Accepts, Custody!Exists,
     Custody!EquipmentRow
<1> QED BY <1>5, <1>6, <1>7

LEMMA CustodyMoved ==
    ASSUME CustodyInv, NEW p, NEW role \in {"facility_custodian", "faculty"},
           NEW d \in Departments, Custody!Move(p, role, d)
    PROVE  CustodyInv'
<1> USE DEF CustodyInv
<1>1. /\ UNCHANGED <<facility, equipment, booking, work>>
      /\ moved' = moved \cup {p}
      /\ \A q \in Staff \ {p} : users'[q] = users[q]
  BY DEF CustodyShape, Custody!UsersTypeOK, Custody!Move
<1>7. users' \in [Staff -> Custody!UserRow \cup {NoRow}]
  <2>1. CASE p \in Staff
    <3>1. PICK row : row = [users[p] EXCEPT !.role = role, !.department = d]
      OBVIOUS
    <3>2. users[p] \in Custody!UserRow
      BY <2>1 DEF CustodyShape, Custody!UsersTypeOK, Custody!Move, Custody!Exists
    <3>3. row \in Custody!UserRow
      BY <3>1, <3>2 DEF Custody!UserRow, Custody!Roles
    <3>4. users' = [users EXCEPT ![p] = row]
      BY <3>1 DEF Custody!Move
    <3> QED BY <3>3, <3>4 DEF CustodyShape, Custody!UsersTypeOK
  <2>2. CASE p \notin Staff
    <3>1. users' = users
      BY <2>2 DEF CustodyShape, Custody!UsersTypeOK, Custody!Move
    <3> QED BY <3>1 DEF CustodyShape, Custody!UsersTypeOK
  <2> QED BY <2>1, <2>2
<1>2. CustodyShape'
  BY <1>1, <1>7 DEF CustodyShape
<1>3. \A q, f : q \in Staff /\ Custody!Accepts(q, f) => q \in moved' \/ Custody!Accepts(q, f)'
  BY <1>1 DEF Custody!Accepts, Custody!Exists
<1>4. ASSUME NEW v \in Workers PROVE TaskStands(work[v])'
  <2>1. PICK t : t = work[v] /\ TaskStands(t)
    OBVIOUS
  <2>2. TaskStands(t)'
    BY <1>1, <2>1 DEF TaskStands, Custody!Accepts, Custody!Exists
  <2> QED BY <1>1, <2>1, <2>2 DEF TaskStands
<1>5. \A f \in Facilities : facility[f] # NoRow => facility[f].custodian \in Staff \cup {NoRow}
  BY DEF CustodyShape, Custody!FacilityRow
<1>6. Custody!PlacesAreKept'
  BY <1>1, <1>5 DEF CustodyShape, Custody!PlacesAreKept, Custody!Accepts, Custody!Exists
<1> QED BY <1>2, <1>4, <1>6

LEMMA CustodyLeft ==
    ASSUME CustodyInv, NoCustodyRow, NEW p, Custody!Leave(p)
    PROVE  CustodyInv'
<1> USE DEF CustodyInv
<1>1. /\ UNCHANGED <<equipment, moved, work>>
      /\ users' \in [Staff -> Custody!UserRow \cup {NoRow}]
      /\ \A q \in Staff \ {p} : users'[q] = users[q]
      /\ p \in Staff => users'[p] = NoRow
      /\ DOMAIN booking' = Bookings
      /\ \A b \in Bookings : booking'[b] = NoRow \/ booking'[b] = booking[b]
      /\ DOMAIN facility' = Facilities
      /\ \A f \in Facilities :
            facility'[f] = IF facility[f] # NoRow /\ facility[f].custodian = p
                           THEN [facility[f] EXCEPT !.custodian = NoRow] ELSE facility[f]
  BY DEF CustodyShape, Custody!UsersTypeOK, Custody!Leave
<1>2. ASSUME NEW f \in Facilities
      PROVE  /\ facility'[f] \in Custody!FacilityRow \cup {NoRow}
             /\ facility[f] = NoRow <=> facility'[f] = NoRow
             /\ facility[f] # NoRow =>
                   /\ facility'[f].department = facility[f].department
                   /\ \/ facility'[f].custodian = NoRow
                      \/ /\ facility'[f].custodian = facility[f].custodian
                         /\ facility[f].custodian # p
  <2>1. CASE facility[f] # NoRow /\ facility[f].custodian = p
    <3>1. PICK row : row = facility[f] /\ row \in Custody!FacilityRow
      BY <2>1 DEF CustodyShape
    <3>2. PICK bare : bare = [row EXCEPT !.custodian = NoRow]
      OBVIOUS
    <3>3. /\ bare \in Custody!FacilityRow /\ bare # NoRow
          /\ bare.custodian = NoRow /\ bare.department = row.department
      BY <3>1, <3>2 DEF NoCustodyRow, Custody!FacilityRow
    <3>4. facility'[f] = bare
      BY <1>1, <2>1, <3>1, <3>2
    <3> QED BY <2>1, <3>1, <3>3, <3>4
  <2>2. CASE ~(facility[f] # NoRow /\ facility[f].custodian = p)
    BY <1>1, <2>2 DEF CustodyShape
  <2> QED BY <2>1, <2>2
<1>3. CustodyShape'
  <2>1. facility' \in [Facilities -> Custody!FacilityRow \cup {NoRow}]
    <3>1. facility' = [f \in Facilities |-> facility'[f]]
      BY DEF Custody!Leave
    <3> QED BY <1>2, <3>1
  <2> QED BY <1>1, <2>1 DEF CustodyShape
<1>4. ASSUME NEW v \in Workers PROVE TaskStands(work[v])'
  <2>1. PICK t : t = work[v] /\ TaskStands(t)
    OBVIOUS
  <2>2. TaskStands(t)'
    BY <1>1, <1>2, <2>1 DEF TaskStands, Custody!Accepts, Custody!Exists
  <2> QED BY <1>1, <2>1, <2>2 DEF TaskStands
<1>5. ASSUME NEW f \in Facilities, facility'[f] # NoRow, facility'[f].custodian # NoRow
      PROVE  (facility[f].custodian \in moved \/ Custody!Accepts(facility[f].custodian, f))'
  <2>1. /\ facility[f] # NoRow /\ facility'[f].custodian = facility[f].custodian
        /\ facility[f].custodian # p /\ facility[f].custodian \in Staff
        /\ facility'[f].department = facility[f].department
    BY <1>2, <1>5 DEF CustodyShape, Custody!FacilityRow
  <2>2. facility[f].custodian \in moved \/ Custody!Accepts(facility[f].custodian, f)
    BY <1>5, <2>1 DEF Custody!PlacesAreKept
  <2> QED BY <1>1, <2>1, <2>2 DEF Custody!Accepts, Custody!Exists
<1>6. \A e \in Equipment : equipment'[e] # NoRow => facility'[equipment'[e].of] # NoRow
  BY <1>1, <1>2 DEF CustodyShape, Custody!PlacesAreKept, Custody!EquipmentRow
<1>7. \A b \in Bookings : booking'[b] # NoRow => equipment'[booking'[b].of] # NoRow
  BY <1>1 DEF Custody!PlacesAreKept
<1> QED BY <1>3, <1>4, <1>5, <1>6, <1>7 DEF Custody!PlacesAreKept

LEMMA CustodyNext ==
    ASSUME CustodyInv, NoCustodyRow, [Custody!Next]_(Custody!custodyVars)
    PROVE  CustodyInv'
<1>1. ASSUME NEW w \in Workers,
             \/ \E p \in Managers, f \in Facilities :
                   \/ \E k \in Staff \cup {NoRow} : Custody!AssignLoad(w, p, f, k)
                   \/ Custody!CloseLoad(w, p, f)
                   \/ \E for \in Custody!Audiences : Custody!InstallLoad(w, p, f, for)
             \/ \E p \in Managers, e \in Equipment, for \in Custody!Audiences :
                   Custody!AdaptLoad(w, p, e, for)
             \/ \E p \in Bookers, e \in Equipment : Custody!BookLoad(w, p, e)
      PROVE  CustodyInv'
  BY <1>1, CustodyLoads
<1>2. ASSUME NEW w \in Workers,
             \/ \E e \in Equipment : Custody!InstallCommit(w, e)
             \/ \E b \in Bookings : Custody!BookCommit(w, b)
             \/ Custody!AssignCommit(w) \/ Custody!CloseCommit(w) \/ Custody!AdaptCommit(w)
      PROVE  CustodyInv'
  BY <1>2, CustodyEquipment, CustodyBooked, CustodyAssigned
<1>3. CASE \/ \E p \in Managers, e \in Equipment : Custody!DeleteEquipment(p, e)
           \/ \E p \in Staff, b \in Bookings : Custody!Decide(p, b)
  BY <1>3, CustodyAlone
<1>4. CASE \E p \in Managers, f \in Facilities, d \in Departments \cup {NoRow} :
              Custody!CreateFacility(p, f, d)
  BY <1>4, CustodyCreated
<1>5. CASE \E p \in Movers :
              \/ \E role \in {"facility_custodian", "faculty"}, d \in Departments :
                    Custody!Move(p, role, d)
              \/ Custody!Leave(p)
  BY <1>5, CustodyMoved, CustodyLeft
<1>6. CASE UNCHANGED Custody!custodyVars
  <2>1. UNCHANGED <<users, facility, equipment, booking, moved, work>>
    BY <1>6 DEF Custody!custodyVars
  <2>2. CustodyShape'
    BY <2>1 DEF CustodyInv, CustodyShape
  <2> QED BY <2>1, <2>2, CustodyKeeps DEF CustodyInv, CustodyShape, Custody!PlacesAreKept
<1> QED BY <1>1, <1>2, <1>3, <1>4, <1>5, <1>6 DEF Custody!Next

\* In the house, while it is the part that runs.
LEMMA CustodyRuns ==
    /\ HouseInit /\ part = "custody" => Custody!UsersTypeOK /\ Custody!Init
    /\ [HouseNext]_houseVars /\ part = "custody"
          => part' = "custody" /\ [Custody!Next]_(Custody!custodyVars)
<1>1. HouseInit /\ part = "custody" => Custody!UsersTypeOK /\ Custody!Init
  BY DEF HouseInit
<1>2. ASSUME HouseNext, part = "custody" PROVE part' = "custody" /\ Custody!Next
  BY <1>2 DEF HouseNext
<1>3. ASSUME UNCHANGED houseVars, part = "custody"
      PROVE  part' = "custody" /\ UNCHANGED Custody!custodyVars
  BY <1>3 DEF houseVars, custodyOwn, Custody!custodyVars
<1> QED BY <1>1, <1>2, <1>3

LEMMA CustodyHolds == HouseSpec => [](part = "custody" => CustodyInv)
<1>1. HouseInit => (part = "custody" => CustodyInv)
  BY CustodyRuns, CustodyInit, HouseRowsAssumption DEF NoCustodyRow
<1>2. (part = "custody" => CustodyInv) /\ [HouseNext]_houseVars
        => (part = "custody" => CustodyInv)'
  <2> SUFFICES ASSUME part = "custody" => CustodyInv, [HouseNext]_houseVars, part' = "custody"
               PROVE  CustodyInv'
    OBVIOUS
  <2>1. part = "custody"
    BY DEF HouseNext, houseVars
  <2> QED BY <2>1, CustodyRuns, CustodyNext, HouseRowsAssumption DEF NoCustodyRow
<1> QED BY <1>1, <1>2, PTL DEF HouseSpec

LEMMA ApproversRoles ==
    ASSUME Custody!UsersTypeOK, NEW p \in Staff, Custody!May(p, "booking:approve")
    PROVE  users[p].role \in {"admin", "facility_custodian", "research_coordinator"}
<1>1. users[p].role \in Custody!Roles
  BY DEF Custody!UsersTypeOK, Custody!UserRow, Custody!May, Custody!SignedIn, Custody!Exists
<1> QED BY <1>1 DEF Custody!May, Custody!ROLE_PERMISSIONS, Custody!OWN_PERMISSIONS,
        Custody!InheritsFrom, Custody!Provisioning, Custody!Roles

LEMMA CustodyOffersWhatItTakes == CustodyInv => Custody!OfferedCanBeDone
<1>1. ASSUME CustodyInv, NEW b \in Bookings, Custody!Waiting(b)
      PROVE  /\ booking[b].of \in Equipment /\ equipment[booking[b].of] # NoRow
             /\ Custody!FacilityOf(b) \in Facilities
             /\ facility[Custody!FacilityOf(b)] # NoRow
  <2>1. PICK e : e = booking[b].of
    OBVIOUS
  <2>2. e \in Equipment /\ equipment[e] # NoRow
    BY <1>1, <2>1 DEF CustodyInv, CustodyShape, Custody!Waiting, Custody!PlacesAreKept
  <2>3. equipment[e].of \in Facilities /\ facility[equipment[e].of] # NoRow
    BY <1>1, <2>2 DEF CustodyInv, CustodyShape, Custody!EquipmentRow, Custody!PlacesAreKept
  <2> QED BY <2>1, <2>2, <2>3 DEF Custody!FacilityOf
<1>2. CustodyInv => Custody!QueueIsDecidable
  <2> SUFFICES ASSUME CustodyInv, NEW p \in Staff, Custody!May(p, "booking:approve")
               PROVE  /\ \A b \in Bookings :
                            Custody!Waiting(b) /\ booking[b].by # p =>
                               (b \in Custody!ApprovalQueue(p) <=> Custody!IsApprover(p, b))
                      /\ users[p].role = "facility_custodian" =>
                            Custody!Awaiting(p) = Custody!Cardinality(Custody!ApprovalQueue(p))
    BY DEF Custody!QueueIsDecidable
  <2>1. users[p].role \in {"admin", "facility_custodian", "research_coordinator"}
    BY ApproversRoles DEF CustodyInv, CustodyShape, Custody!UsersTypeOK
  <2>2. ASSUME NEW b \in Bookings, Custody!Waiting(b), booking[b].by # p
        PROVE  b \in Custody!ApprovalQueue(p) <=> Custody!IsApprover(p, b)
    <3>1. b \in Custody!ApprovalQueue(p) <=>
             Custody!FacilityOf(b) \in Custody!ManageableFacilities(p)
      BY <2>2 DEF Custody!ApprovalQueue
    <3>2. Custody!FacilityOf(b) \in Facilities /\ facility[Custody!FacilityOf(b)] # NoRow
      BY <1>1, <2>2
    <3> QED BY <2>1, <2>2, <3>1, <3>2 DEF Custody!ManageableFacilities, Custody!IsApprover
  <2>3. ASSUME users[p].role = "facility_custodian"
        PROVE  Custody!Awaiting(p) = Custody!Cardinality(Custody!ApprovalQueue(p))
    <3>1. PICK held : held = {f \in Facilities : /\ facility[f] # NoRow
                                                 /\ facility[f].custodian = p}
      OBVIOUS
    <3>2. PICK items : items = {e \in Equipment : /\ equipment[e] # NoRow
                                                  /\ equipment[e].of \in held}
      OBVIOUS
    <3>3. Custody!ManageableFacilities(p) = held
      BY <2>3, <3>1 DEF Custody!ManageableFacilities
    <3>4. \A b \in Bookings : Custody!Waiting(b) =>
             (booking[b].of \in items <=> Custody!FacilityOf(b) \in held)
      BY <1>1, <3>2 DEF Custody!FacilityOf
    <3>5. {b \in Bookings : Custody!Waiting(b) /\ booking[b].of \in items}
             = Custody!ApprovalQueue(p)
      BY <3>3, <3>4 DEF Custody!ApprovalQueue
    <3>6. Custody!Awaiting(p) =
             Custody!Cardinality({b \in Bookings : Custody!Waiting(b) /\ booking[b].of \in items})
      BY <3>1, <3>2 DEF Custody!Awaiting
    <3> QED BY <3>5, <3>6
  <2> QED BY <2>2, <2>3
<1>3. Custody!PickerIsAccepted
  BY DEF Custody!PickerIsAccepted, Custody!Candidates, Custody!Accepts
<1>4. CustodyInv => Custody!OfferedCanBeDone
  BY <1>2, <1>3 DEF Custody!OfferedCanBeDone
<1> QED BY <1>4

\* A facility is in the care of a custodian of the department that runs it, unless their
\* account was changed; nothing waits on equipment, and nothing stands in a facility, that
\* is gone (assign_custodian, delete_facility, the foreign keys).
LEMMA FacilitiesKeepTheirCare == HouseSpec => [](part = "custody" => Custody!PlacesAreKept)
<1>1. (part = "custody" => CustodyInv) => (part = "custody" => Custody!PlacesAreKept)
  BY DEF CustodyInv
<1> QED BY <1>1, CustodyHolds, PTL

-----------------------------------------------------------------------------
(* Discovery *)

\* Nobody who has a researcher's profile is a student.
PeopleStand ==
    /\ users \in [People -> Discovery!UserRow \cup {NoRow}]
    /\ profiled \subseteq People
    /\ \A q \in profiled : users[q] # NoRow /\ users[q].role # "student"

\* What a handler found was to be found at some moment since the question.
FoundFair(t) ==
    /\ t.op = "search" => t.lexical \subseteq t.seen
    /\ t.op = "fused" => t.found \subseteq t.seen
    /\ t.op = "recommend" => t.found \cap Discovery!Things \subseteq t.seen

DiscoveryInv ==
    /\ PeopleStand
    /\ DOMAIN work = Clerks
    /\ \A w \in Clerks : FoundFair(work[w])
    /\ Discovery!NeverWidened

LEMMA DiscoveryInit ==
    ASSUME Discovery!Init
    PROVE  DiscoveryInv
BY DEF Discovery!Init, DiscoveryInv, PeopleStand, FoundFair, Discovery!NeverWidened,
   Discovery!Idle, Discovery!VisibilityTypeOK, Discovery!UsersTypeOK, Discovery!Exists

\* A handler that goes on with a fair task, and shows nothing or what is fair.
LEMMA DiscoveryGoesOn ==
    ASSUME DiscoveryInv, UNCHANGED <<users, profiled>>, NEW w, NEW t, FoundFair(t),
           work' = [work EXCEPT ![w] = t],
           shown' = NoRow \/ shown'.items \subseteq shown'.fair
    PROVE  DiscoveryInv'
<1>1. \A v \in Clerks : work'[v] = t \/ work'[v] = work[v]
  BY DEF DiscoveryInv
<1>2. \A v \in Clerks : FoundFair(work[v])'
  BY <1>1 DEF DiscoveryInv, FoundFair
<1> QED BY <1>2 DEF DiscoveryInv, PeopleStand, Discovery!NeverWidened

LEMMA FindableFacts ==
    ASSUME NEW p
    PROVE  /\ \A q \in People : Discovery!ResearcherListed(q) => q \in Discovery!Findable(p)
           /\ Discovery!SeesProject(p) => "project" \in Discovery!Findable(p)
           /\ Discovery!SeesOpening(p) => "opening" \in Discovery!Findable(p)
BY DEF Discovery!Findable, Discovery!ListResearchers, Discovery!ListProjects,
   Discovery!ListOpportunities

\* Recommended are only things and people that are to be found; of the people, some only to
\* whoever seeks collaborators.
LEMMA CandidatesFair ==
    ASSUME NEW p, NEW target \in Discovery!Targets,
           \A q \in People : q \notin Discovery!Things
    PROVE  Discovery!Candidates(p, target) \cap Discovery!Things
              \subseteq Discovery!Findable(p)
<1>1. CASE target = "researchers"
  BY <1>1 DEF Discovery!Candidates, Discovery!ResearcherCandidates
<1>2. CASE target = "collaborators"
  BY <1>2 DEF Discovery!Candidates, Discovery!CollaboratorCandidates
<1>3. CASE target = "projects"
  BY <1>3, FindableFacts DEF Discovery!Candidates, Discovery!ProjectCandidates
<1>4. CASE target = "opportunities"
  BY <1>4, FindableFacts DEF Discovery!Candidates, Discovery!OpportunityCandidates
<1> QED BY <1>1, <1>2, <1>3, <1>4 DEF Discovery!Targets

LEMMA DiscoveryAsks ==
    ASSUME DiscoveryInv, \A q \in People : q \notin Discovery!Things,
           NEW w \in Clerks, NEW p,
           \/ \E lexical, semantic \in Queries : Discovery!SearchLists(w, p, lexical, semantic)
           \/ \E target \in Discovery!Targets : Discovery!RecommendCandidates(w, p, target)
           \/ \E x \in UNION Queries : Discovery!SaveLoad(w, p, x)
    PROVE  DiscoveryInv'
<1>1. ASSUME NEW lexical, NEW semantic, Discovery!SearchLists(w, p, lexical, semantic)
      PROVE  DiscoveryInv'
  <2>1. PICK t : t = [op |-> "search", by |-> p, lexical |-> lexical,
                      semantic |-> semantic, seen |-> Discovery!Findable(p)]
    OBVIOUS
  <2>2. FoundFair(t)
    BY <1>1, <2>1 DEF FoundFair, Discovery!SearchLists
  <2> QED BY <1>1, <2>1, <2>2, DiscoveryGoesOn DEF Discovery!SearchLists, Discovery!Begin,
          Discovery!Unchanged, Discovery!visibilityVars
<1>2. ASSUME NEW target \in Discovery!Targets, Discovery!RecommendCandidates(w, p, target)
      PROVE  DiscoveryInv'
  <2>1. PICK t : t = [op |-> "recommend", by |-> p, target |-> target,
                      seen |-> Discovery!Findable(p),
                      found |-> Discovery!Candidates(p, target)]
    OBVIOUS
  <2>2. FoundFair(t)
    BY <2>1, CandidatesFair DEF FoundFair
  <2> QED BY <1>2, <2>1, <2>2, DiscoveryGoesOn DEF Discovery!RecommendCandidates,
          Discovery!Begin, Discovery!Unchanged, Discovery!visibilityVars
<1>3. ASSUME NEW x, Discovery!SaveLoad(w, p, x)
      PROVE  DiscoveryInv'
  <2>1. PICK t : t = [op |-> "save", by |-> p, found |-> {x}, seen |-> Discovery!Findable(p)]
    OBVIOUS
  <2>2. FoundFair(t)
    BY <2>1 DEF FoundFair
  <2> QED BY <1>3, <2>1, <2>2, DiscoveryGoesOn DEF Discovery!SaveLoad, Discovery!Begin,
          Discovery!Unchanged, Discovery!visibilityVars
<1> QED BY <1>1, <1>2, <1>3

\* An answer of nobody but the listed, and of nothing but what was found, is fair.
LEMMA AnswerFair ==
    ASSUME DiscoveryInv, UNCHANGED <<users, profiled>>, NEW w, NEW p, NEW items, NEW seen,
           Discovery!Answer(w, p, items, seen),
           items \subseteq (seen \cap Discovery!Things) \cup Discovery!Findable(p)
                              \cup {q \in People : Discovery!StudentListed(q)}
    PROVE  DiscoveryInv'
<1>1. FoundFair(Discovery!Idle)
  BY DEF FoundFair, Discovery!Idle
<1>2. /\ shown'.items \subseteq shown'.fair
      /\ work' = [work EXCEPT ![w] = Discovery!Idle]
  BY DEF Discovery!Answer
<1> QED BY <1>1, <1>2, DiscoveryGoesOn

LEMMA CardsFair ==
    ASSUME NEW ids, NEW p
    PROVE  Discovery!Cards(ids) \subseteq (ids \cap Discovery!Things) \cup Discovery!Findable(p)
BY FindableFacts DEF Discovery!Cards

LEMMA DiscoveryAnswers ==
    ASSUME DiscoveryInv, NEW w \in Clerks,
           \/ Discovery!SearchPlain(w) \/ Discovery!SearchFuse(w) \/ Discovery!SearchCards(w)
           \/ Discovery!RecommendAnswer(w) \/ Discovery!SaveCommit(w)
           \/ \E p \in Askers : Discovery!ListSaved(w, p)
    PROVE  DiscoveryInv'
<1>1. UNCHANGED <<users, profiled>>
  BY DEF Discovery!SearchPlain, Discovery!SearchFuse, Discovery!SearchCards,
     Discovery!RecommendAnswer, Discovery!SaveCommit, Discovery!ListSaved,
     Discovery!Unchanged, Discovery!visibilityVars
<1>2. PICK t : t = work[w] /\ FoundFair(t)
  BY DEF DiscoveryInv
<1>3. FoundFair(Discovery!Idle)
  BY DEF FoundFair, Discovery!Idle
<1>4. CASE Discovery!SearchPlain(w)
  <2>1. /\ t.op = "search" /\ shown' = [items |-> t.lexical, fair |-> t.seen]
        /\ work' = [work EXCEPT ![w] = Discovery!Idle]
    BY <1>2, <1>4 DEF Discovery!SearchPlain
  <2> QED BY <1>1, <1>2, <1>3, <2>1, DiscoveryGoesOn DEF FoundFair
<1>5. CASE Discovery!SearchFuse(w)
  <2>1. PICK u : u = [op |-> "fused", by |-> t.by,
                      seen |-> t.seen \cup Discovery!Findable(t.by),
                      found |-> t.lexical
                                \cup Discovery!VisibleSemanticIds(t.by, t.semantic)]
    OBVIOUS
  <2>2. t.op = "search" /\ shown' = NoRow /\ work' = [work EXCEPT ![w] = u]
    BY <1>2, <1>5, <2>1 DEF Discovery!SearchFuse, Discovery!Continue
  <2>3. FoundFair(u)
    BY <1>2, <2>1, <2>2 DEF FoundFair, Discovery!VisibleSemanticIds
  <2> QED BY <1>1, <2>2, <2>3, DiscoveryGoesOn
<1>6. CASE Discovery!SearchCards(w)
  <2>1. CASE work' = [work EXCEPT ![w] = Discovery!Idle] /\ shown' = NoRow
    BY <1>1, <1>3, <2>1, DiscoveryGoesOn
  <2>2. CASE Discovery!Answer(w, t.by, Discovery!Cards(t.found), t.seen)
    <3>1. t.found \subseteq t.seen
      BY <1>2, <1>6 DEF FoundFair, Discovery!SearchCards
    <3>2. Discovery!Cards(t.found)
             \subseteq (t.seen \cap Discovery!Things) \cup Discovery!Findable(t.by)
      BY <3>1, CardsFair
    <3> QED BY <1>1, <2>2, <3>2, AnswerFair
  <2> QED BY <1>2, <1>6, <2>1, <2>2 DEF Discovery!SearchCards
<1>7. CASE Discovery!RecommendAnswer(w)
  <2>1. /\ t.op = "recommend"
        /\ Discovery!Answer(w, t.by, Discovery!RecommendedCards(t.target, t.found), t.seen)
    BY <1>2, <1>7 DEF Discovery!RecommendAnswer
  <2>2. Discovery!RecommendedCards(t.target, t.found)
           \subseteq (t.seen \cap Discovery!Things) \cup Discovery!Findable(t.by)
                     \cup {q \in People : Discovery!StudentListed(q)}
    BY <1>2, <2>1, CardsFair DEF FoundFair, Discovery!RecommendedCards
  <2> QED BY <1>1, <2>1, <2>2, AnswerFair
<1>8. CASE Discovery!SaveCommit(w)
  <2>1. \/ work' = [work EXCEPT ![w] = Discovery!Idle] /\ shown' = NoRow
        \/ Discovery!Answer(w, t.by, Discovery!Entries(t.by, t.found), t.seen)
    BY <1>2, <1>8 DEF Discovery!SaveCommit
  <2>2. Discovery!Entries(t.by, t.found) \subseteq Discovery!Findable(t.by)
    BY DEF Discovery!Entries
  <2> QED BY <1>1, <1>3, <2>1, <2>2, DiscoveryGoesOn, AnswerFair
<1>9. ASSUME NEW p \in Askers, Discovery!ListSaved(w, p)
      PROVE  DiscoveryInv'
  <2>1. Discovery!Answer(w, p, Discovery!Entries(p, saved[p]), {})
    BY <1>9 DEF Discovery!ListSaved
  <2>2. Discovery!Entries(p, saved[p]) \subseteq Discovery!Findable(p)
    BY DEF Discovery!Entries
  <2> QED BY <1>1, <2>1, <2>2, AnswerFair
<1> QED BY <1>4, <1>5, <1>6, <1>7, <1>8, <1>9

\* What others do meanwhile closes or opens an account, and gives nobody another role.
LEMMA DiscoveryChanges ==
    ASSUME DiscoveryInv, NoRow \notin Discovery!UserRow, Discovery!Change
    PROVE  DiscoveryInv'
<1>1. shown' = NoRow /\ UNCHANGED work
  BY DEF Discovery!Change
<1>2. UNCHANGED profiled
  BY DEF Discovery!Change, Discovery!ProjectChanges, Discovery!OpeningChanges,
     Discovery!PeopleChange, Discovery!Apply, Discovery!SendRequest, Discovery!Respond,
     Discovery!visibilityVars
<1>3. \/ UNCHANGED users
      \/ \E p \in People : users[p] # NoRow /\ users' = [users EXCEPT ![p].active = ~@]
  BY DEF Discovery!Change, Discovery!ProjectChanges, Discovery!OpeningChanges,
     Discovery!PeopleChange, Discovery!Apply, Discovery!SendRequest, Discovery!Respond,
     Discovery!visibilityVars, Discovery!Exists
<1>4. PeopleStand'
  <2>1. CASE UNCHANGED users
    BY <1>2, <2>1 DEF DiscoveryInv, PeopleStand
  <2>2. ASSUME NEW p \in People, users[p] # NoRow, users' = [users EXCEPT ![p].active = ~@]
        PROVE  PeopleStand'
    <3>1. PICK row : row = users[p] /\ row \in Discovery!UserRow
      BY <2>2 DEF DiscoveryInv, PeopleStand
    <3>2. PICK turned : turned = [row EXCEPT !.active = ~@]
      OBVIOUS
    <3>3. turned \in Discovery!UserRow /\ turned # NoRow /\ turned.role = row.role
      BY <3>1, <3>2 DEF Discovery!UserRow
    <3>4. users' = [users EXCEPT ![p] = turned]
      BY <2>2, <3>1, <3>2
    <3> QED BY <1>2, <3>1, <3>3, <3>4 DEF DiscoveryInv, PeopleStand
  <2> QED BY <1>3, <2>1, <2>2
<1> QED BY <1>1, <1>4 DEF DiscoveryInv, FoundFair, Discovery!NeverWidened

LEMMA DiscoveryNext ==
    ASSUME DiscoveryInv, NoRow \notin Discovery!UserRow,
           \A q \in People : q \notin Discovery!Things,
           [Discovery!Next]_(Discovery!discoveryVars)
    PROVE  DiscoveryInv'
<1>1. CASE Discovery!Change
  BY <1>1, DiscoveryChanges
<1>2. ASSUME NEW w \in Clerks, NEW p \in Askers,
             \/ \E lexical, semantic \in Queries :
                   Discovery!SearchLists(w, p, lexical, semantic)
             \/ \E target \in Discovery!Targets : Discovery!RecommendCandidates(w, p, target)
             \/ \E x \in UNION Queries : Discovery!SaveLoad(w, p, x)
      PROVE  DiscoveryInv'
  BY <1>2, DiscoveryAsks
<1>3. ASSUME NEW w \in Clerks,
             \/ Discovery!SearchPlain(w) \/ Discovery!SearchFuse(w) \/ Discovery!SearchCards(w)
             \/ Discovery!RecommendAnswer(w) \/ Discovery!SaveCommit(w)
             \/ \E p \in Askers : Discovery!ListSaved(w, p)
      PROVE  DiscoveryInv'
  BY <1>3, DiscoveryAnswers
<1>4. ASSUME NEW p, NEW x, Discovery!Unsave(p, x)
      PROVE  DiscoveryInv'
  <2>1. UNCHANGED <<users, profiled, work>> /\ shown' = NoRow
    BY <1>4 DEF Discovery!Unsave, Discovery!Unchanged, Discovery!visibilityVars
  <2> QED BY <2>1 DEF DiscoveryInv, PeopleStand, FoundFair, Discovery!NeverWidened
<1>5. CASE UNCHANGED Discovery!discoveryVars
  BY <1>5 DEF DiscoveryInv, PeopleStand, FoundFair, Discovery!NeverWidened,
     Discovery!discoveryVars, Discovery!visibilityVars
<1> QED BY <1>1, <1>2, <1>3, <1>4, <1>5 DEF Discovery!Next

\* In the house, while it is the part that runs.
LEMMA DiscoveryRuns ==
    /\ HouseInit /\ part = "discovery" => Discovery!Init
    /\ [HouseNext]_houseVars /\ part = "discovery"
          => part' = "discovery" /\ [Discovery!Next]_(Discovery!discoveryVars)
<1>1. HouseInit /\ part = "discovery" => Discovery!Init
  BY DEF HouseInit
<1>2. ASSUME HouseNext, part = "discovery" PROVE part' = "discovery" /\ Discovery!Next
  BY <1>2 DEF HouseNext
<1>3. ASSUME UNCHANGED houseVars, part = "discovery"
      PROVE  part' = "discovery" /\ UNCHANGED Discovery!discoveryVars
  BY <1>3 DEF houseVars, visibilityOwn, discoveryOwn, Discovery!discoveryVars, Discovery!visibilityVars
<1> QED BY <1>1, <1>2, <1>3

LEMMA DiscoveryHolds == HouseSpec => [](part = "discovery" => DiscoveryInv)
<1>1. HouseInit => (part = "discovery" => DiscoveryInv)
  BY DiscoveryRuns, DiscoveryInit
<1>2. (part = "discovery" => DiscoveryInv) /\ [HouseNext]_houseVars
        => (part = "discovery" => DiscoveryInv)'
  <2> SUFFICES ASSUME part = "discovery" => DiscoveryInv, [HouseNext]_houseVars, part' = "discovery"
               PROVE  DiscoveryInv'
    OBVIOUS
  <2>1. part = "discovery"
    BY DEF HouseNext, houseVars
  <2> QED BY <2>1, DiscoveryRuns, DiscoveryNext, HouseRowsAssumption, PeopleAssumption
<1> QED BY <1>1, <1>2, PTL DEF HouseSpec

\* Whoever is hidden, withdrawn or suspended while an answer is put together is not in it,
\* and nothing is that the reader could not find at any moment since they asked
\* (search/hybrid.py, recommendations/service.py, profiles/saved.py).
THEOREM NothingHiddenIsShown == HouseSpec => []NeverWidened
<1>1. (part = "discovery" => DiscoveryInv) => NeverWidened
  BY DEF DiscoveryInv, NeverWidened
<1> QED BY <1>1, DiscoveryHolds, PTL

LEMMA WhoHolds ==
    ASSUME PeopleStand, NEW p \in People, users[p] # NoRow
    PROVE  LET held == Discovery!ROLE_PERMISSIONS(users[p].role) IN
           /\ "project:review" \in held <=>
                 users[p].role \in {"admin", "dean_of_research", "research_coordinator"}
           /\ users[p].role \in {"student", "faculty", "research_coordinator"}
                 => "application:submit" \in held
<1>1. PICK role \in Discovery!Roles : role = users[p].role
  BY DEF PeopleStand, Discovery!UserRow
<1>2. \A r \in Discovery!Roles :
        "project:review" \in Discovery!OWN_PERMISSIONS(r) <=>
            r \in {"admin", "dean_of_research", "research_coordinator"}
  BY DEF Discovery!OWN_PERMISSIONS, Discovery!Moderation, Discovery!Provisioning,
     Discovery!Permission, Discovery!Roles
<1>3. \A r \in {"student", "faculty"} :
        "application:submit" \in Discovery!OWN_PERMISSIONS(r)
  BY DEF Discovery!OWN_PERMISSIONS
<1>4. /\ Discovery!InheritsFrom("research_coordinator") = {"faculty"}
      /\ role # "research_coordinator" => Discovery!InheritsFrom(role) = {}
  BY DEF Discovery!InheritsFrom
<1>5. /\ "project:review" \in Discovery!ROLE_PERMISSIONS(role) <=>
            role \in {"admin", "dean_of_research", "research_coordinator"}
      /\ role \in {"student", "faculty", "research_coordinator"} =>
            "application:submit" \in Discovery!ROLE_PERMISSIONS(role)
  BY <1>1, <1>2, <1>3, <1>4 DEF Discovery!ROLE_PERMISSIONS, Discovery!Roles
<1> QED BY <1>1, <1>5

\* Only a project that waits for review can be decided.
LEMMA Deciding ==
    <<project.status, "active">> \in Discovery!ProjectTransitions
        <=> project.status = "pending_review"
BY DEF Discovery!ProjectTransitions, Discovery!ProjectStatus, Discovery!PUBLIC_STATUSES

LEMMA ReviewQueueIsDecidable == PeopleStand => Discovery!QueueIsDecidable
<1> SUFFICES ASSUME PeopleStand, NEW p \in People, p # project.owner
             PROVE  Discovery!InReviewQueue(p) <=> Discovery!TakesReview(p)
  BY DEF Discovery!QueueIsDecidable
<1>1. Discovery!May(p, "project:review") =>
        users[p].role \in {"admin", "dean_of_research", "research_coordinator"}
  BY WhoHolds DEF Discovery!May, Discovery!SignedIn, Discovery!Exists
<1> QED BY <1>1, Deciding DEF Discovery!InReviewQueue, Discovery!TakesReview,
        Discovery!SeesProject, Discovery!InstitutionWide, Discovery!INSTITUTION_WIDE_ROLES,
        Discovery!Oversees, Discovery!CoordinatorDepartment, Discovery!MayReview

LEMMA WhatIsOfferedIsTaken == PeopleStand => Discovery!OfferedCanBeTaken
<1> SUFFICES ASSUME PeopleStand, NEW p \in People
             PROVE  /\ \A q \in Discovery!CollaboratorCandidates(p) :
                          /\ Discovery!May(p, "collaboration:send")
                          /\ users[q].role \in Discovery!RESEARCHER_ROLES \cup {"student"}
                          => Discovery!TakesRequest(p, q)
                    /\ /\ Discovery!SignedIn(p)
                       /\ Discovery!OpportunityCandidates(p) # {} /\ ~opening.full
                       => Discovery!TakesApplication(p)
  BY DEF Discovery!OfferedCanBeTaken
<1>1. ASSUME NEW q \in Discovery!CollaboratorCandidates(p),
             Discovery!May(p, "collaboration:send"),
             users[q].role \in Discovery!RESEARCHER_ROLES \cup {"student"}
      PROVE  Discovery!TakesRequest(p, q)
  <2>1. /\ q \in People \ {p} /\ users[q].active /\ ~Discovery!Engaged
        /\ q \in profiled \cup discoverable
    BY DEF Discovery!CollaboratorCandidates
  <2>2. Discovery!CanContact(q)
    BY <1>1, <2>1 DEF PeopleStand, Discovery!CanContact
  <2> QED BY <1>1, <2>1, <2>2 DEF Discovery!TakesRequest, Discovery!Engaged
<1>2. ASSUME Discovery!SignedIn(p), Discovery!OpportunityCandidates(p) # {}, ~opening.full
      PROVE  Discovery!TakesApplication(p)
  <2>1. /\ opening.kind \in Discovery!EligibleTypes(p)
        /\ opening.status = "open" /\ ~opening.past
        /\ opening.by # p /\ p \notin applied /\ Discovery!SeesOpening(p)
    BY <1>2 DEF Discovery!OpportunityCandidates
  <2>2. Discovery!AssertEligible(p, opening.kind)
    BY <2>1 DEF Discovery!EligibleTypes, Discovery!AssertEligible
  <2>3. Discovery!May(p, "application:submit")
    BY <1>2, <2>2, WhoHolds DEF Discovery!AssertEligible, Discovery!RESEARCHER_ROLES,
       Discovery!May, Discovery!SignedIn, Discovery!Exists
  <2> QED BY <1>2, <2>1, <2>2, <2>3 DEF Discovery!TakesApplication
<1> QED BY <1>1, <1>2

\* What a queue, a recommendation or a picker offers can be done by whoever it is offered
\* to: a project in a review queue can be reviewed, a recommended person can be asked and an
\* opening applied to (Discovery); what waits in an approval queue can be decided by whoever
\* it waits for, nothing they could decide is missing from it, and the picker offers exactly
\* the custodians the assignment takes (Custody: approval_queue, _actor_for,
\* _custodian_section, custodian_candidates, assign_custodian).
THEOREM WhatIsOfferedCanBeDone == HouseSpec => []OfferedCanBeDone
<1>1. DiscoveryInv => Discovery!OfferedCanBeDone
  BY ReviewQueueIsDecidable, WhatIsOfferedIsTaken DEF DiscoveryInv,
     Discovery!OfferedCanBeDone
<1>2. (part = "discovery" => DiscoveryInv) /\ (part = "custody" => CustodyInv)
        => OfferedCanBeDone
  BY <1>1, CustodyOffersWhatItTakes DEF OfferedCanBeDone
<1> QED BY <1>2, DiscoveryHolds, CustodyHolds, PTL

-----------------------------------------------------------------------------
(* Vocabulary *)

NoWordRow ==
    /\ NoRow \notin Areas /\ NoRow \notin Vocabulary!AreaRow
    /\ NoRow \notin Vocabulary!SuggestionRow /\ NoRow \notin SUBSET Areas

\* The areas are in two levels.
Tree ==
    /\ area \in [Areas -> Vocabulary!AreaRow \cup {NoRow}]
    /\ \A a \in Areas : area[a] # NoRow /\ area[a].parent # NoRow =>
          area[area[a].parent] # NoRow /\ area[area[a].parent].parent = NoRow

\* What the approvals of one suggestion have added, to a vocabulary that loses no skill.
ReviewStands(s) ==
    /\ suggestion[s] = NoRow => added[s] = 0
    /\ suggestion[s] # NoRow =>
          /\ suggestion[s].kind = "skill" =>
                added[s] \in {0, 1} /\ (added[s] = 1 => suggestion[s].name \in skills)
          /\ s \notin crossed =>
                added[s] = (IF suggestion[s].status = "approved" THEN 1 ELSE 0)

ReviewsStand ==
    /\ suggestion \in [Suggestions -> Vocabulary!SuggestionRow \cup {NoRow}]
    /\ DOMAIN added = Suggestions
    /\ \A s \in Suggestions : added[s] \in Nat /\ ReviewStands(s)

\* A call is tagged with areas that are there, and as the last request said.
TagsStand ==
    /\ DOMAIN call = Calls /\ DOMAIN asked = Calls
    /\ \A c \in Calls : call[c] # NoRow =>
          call[c] \subseteq Vocabulary!Known /\ (c \notin crossed => call[c] = asked[c])

\* A review in hand is of a suggestion that waits, and an edit clears what is there, unless
\* another handler is on the same.
WordInHand(t) ==
    /\ t.op = "review" =>
          /\ t.on \in Suggestions /\ suggestion[t.on] # NoRow
          /\ t.verdict \in {"approved", "rejected"}
          /\ t.on \notin crossed => suggestion[t.on].status = "pending"
    /\ t.op = "edit" =>
          /\ t.on \in Calls /\ t.new \subseteq Vocabulary!Known
          /\ t.on \notin crossed /\ call[t.on] # NoRow => t.gone = call[t.on]

WordsBeside ==
    \A v, w \in Workers :
        v # w /\ work[v] # Vocabulary!Idle /\ work[w] # Vocabulary!Idle
              /\ work[v].on = work[w].on
        => work[v].on \in crossed

VocabularyInv ==
    /\ DOMAIN work = Workers
    /\ Tree /\ ReviewsStand /\ TagsStand /\ WordsBeside
    /\ \A w \in Workers : WordInHand(work[w])

LEMMA VocabularyInit ==
    ASSUME NoWordRow, Vocabulary!Init
    PROVE  VocabularyInv
<1>1. PICK top \in Areas, under \in Areas, x \in Spellings :
          /\ under # top
          /\ area = [a \in Areas |->
                CASE a = top -> [name |-> x, parent |-> NoRow]
                  [] a = under -> [name |-> x, parent |-> top]
                  [] OTHER -> NoRow]
  BY DEF Vocabulary!Init
<1>2. PICK upper, lower : /\ upper = [name |-> x, parent |-> NoRow]
                          /\ lower = [name |-> x, parent |-> top]
  OBVIOUS
<1>3. upper \in Vocabulary!AreaRow /\ lower \in Vocabulary!AreaRow
  BY <1>2 DEF Vocabulary!AreaRow
<1>4. \A a \in Areas : area[a] = IF a = top THEN upper ELSE IF a = under THEN lower ELSE NoRow
  BY <1>1, <1>2
<1>5. Tree
  BY <1>1, <1>2, <1>3, <1>4 DEF Tree, NoWordRow
<1>6. ReviewsStand /\ TagsStand
  BY DEF Vocabulary!Init, ReviewsStand, ReviewStands, TagsStand
<1>7. WordsBeside /\ (\A w \in Workers : WordInHand(work[w])) /\ DOMAIN work = Workers
  BY DEF Vocabulary!Init, WordsBeside, WordInHand, Vocabulary!Idle
<1> QED BY <1>5, <1>6, <1>7 DEF VocabularyInv

LEMMA WordsFound ==
    ASSUME VocabularyInv, NoWordRow
    PROVE  Vocabulary!WordsAreFound
<1>1. ASSUME NEW x \in Spellings, NEW q \in Spellings, alias[x] # NoRow,
             Vocabulary!Word(x) = Vocabulary!Word(q)
      PROVE  alias[x] \in Vocabulary!Found(alias[x][1], q)
  <2>1. x \in Vocabulary!AliasesOf(q)
    BY <1>1 DEF Vocabulary!AliasesOf
  <2>2. alias[x] \in Vocabulary!Resolve(alias[x][1], q)
    BY <2>1 DEF Vocabulary!Resolve
  <2> QED BY <2>2 DEF Vocabulary!Found
<1>2. ASSUME NEW c \in Calls, call[c] # NoRow, NEW a \in call[c],
             NEW top \in Vocabulary!Known,
             \/ top = a \/ area[a].parent = top
             \/ area[a].parent # NoRow /\ area[area[a].parent].parent = top
      PROVE  c \in Vocabulary!ListFunding(top)
  <2>1. a \in Vocabulary!Known /\ top \in Areas
    BY <1>2 DEF VocabularyInv, TagsStand, Vocabulary!Known
  <2>2. a = top \/ area[a].parent = top
    BY <1>2, <2>1 DEF VocabularyInv, Tree, NoWordRow, Vocabulary!Known
  <2> QED BY <1>2, <2>1, <2>2 DEF Vocabulary!ListFunding
<1> QED BY <1>1, <1>2 DEF Vocabulary!WordsAreFound

LEMMA WordsReviewed ==
    ASSUME VocabularyInv, NoWordRow
    PROVE  Vocabulary!WordsAreReviewed
<1>1. Vocabulary!ReviewIsWhatHappened
  BY DEF VocabularyInv, ReviewsStand, ReviewStands, Vocabulary!ReviewIsWhatHappened
<1>2. Vocabulary!TagsAreOneEdit
  BY DEF VocabularyInv, TagsStand, Vocabulary!TagsAreOneEdit
<1> QED BY <1>1, <1>2, WordsFound DEF Vocabulary!WordsAreReviewed

\* A handler begins; nothing is written.
LEMMA WordsBegin ==
    ASSUME VocabularyInv, NEW w \in Workers, NEW t, Vocabulary!Begin(w, t), WordInHand(t),
           UNCHANGED <<skills, area, suggestion, call, added, asked>>
    PROVE  VocabularyInv'
<1> USE DEF VocabularyInv
<1>1. /\ \A v \in Workers : work'[v] = IF v = w THEN t ELSE work[v]
      /\ DOMAIN work' = Workers /\ crossed \subseteq crossed'
      /\ \A v \in Workers \ {w} :
            work[v] # Vocabulary!Idle /\ work[v].on = t.on => t.on \in crossed'
  BY DEF Vocabulary!Begin
<1>2. Tree' /\ ReviewsStand' /\ TagsStand'
  BY <1>1 DEF Tree, ReviewsStand, ReviewStands, TagsStand, Vocabulary!Known
<1>3. WordsBeside'
  BY <1>1 DEF WordsBeside
<1>4. ASSUME NEW v \in Workers PROVE WordInHand(work[v])'
  <2>1. PICK u : u = work'[v] /\ WordInHand(u)
    BY <1>1
  <2>2. WordInHand(u)'
    BY <1>1, <2>1 DEF WordInHand, Vocabulary!Known
  <2> QED BY <2>1, <2>2 DEF WordInHand
<1> QED BY <1>1, <1>2, <1>3, <1>4

\* Something is added, asked for or deleted by a handler that is a single step.
LEMMA WordsAlone ==
    ASSUME VocabularyInv, UNCHANGED <<work, crossed>>,
           Tree', ReviewsStand', TagsStand', Vocabulary!Known \subseteq Vocabulary!Known',
           \A s \in Suggestions : suggestion'[s] = suggestion[s] \/ suggestion[s] = NoRow,
           \A c \in Calls : \/ call'[c] = call[c] \/ call'[c] = NoRow
                            \/ \A w \in Workers : work[w] # Vocabulary!Idle => work[w].on # c
    PROVE  VocabularyInv'
<1> USE DEF VocabularyInv
<1>1. WordsBeside'
  BY DEF WordsBeside
<1>2. ASSUME NEW v \in Workers PROVE WordInHand(work[v])'
  <2>1. PICK u : u = work[v] /\ WordInHand(u)
    OBVIOUS
  <2>2. u.op = "edit" => u # Vocabulary!Idle
    BY DEF Vocabulary!Idle
  <2>3. WordInHand(u)'
    BY <2>1, <2>2 DEF WordInHand
  <2> QED BY <2>1, <2>3 DEF WordInHand
<1> QED BY <1>1, <1>2

LEMMA NewArea ==
    ASSUME VocabularyInv, NoWordRow, NEW a \in Areas, NEW row \in Vocabulary!AreaRow,
           area[a] = NoRow, area' = [area EXCEPT ![a] = row],
           row.parent # NoRow =>
              area[row.parent] # NoRow /\ area[row.parent].parent = NoRow
    PROVE  Tree' /\ Vocabulary!Known \subseteq Vocabulary!Known'
<1>1. /\ area' \in [Areas -> Vocabulary!AreaRow \cup {NoRow}]
      /\ \A b \in Areas : area'[b] = IF b = a THEN row ELSE area[b]
      /\ row # NoRow
  BY DEF VocabularyInv, Tree, NoWordRow
<1>2. \A b \in Areas : area[b] # NoRow /\ area[b].parent # NoRow => area[b].parent \in Areas
  BY DEF VocabularyInv, Tree, Vocabulary!AreaRow
<1>3. row.parent # NoRow => row.parent \in Areas
  BY DEF Vocabulary!AreaRow
<1>4. Tree'
  BY <1>1, <1>2, <1>3 DEF VocabularyInv, Tree
<1>5. Vocabulary!Known \subseteq Vocabulary!Known'
  BY <1>1 DEF Vocabulary!Known
<1> QED BY <1>4, <1>5

LEMMA FreeArea ==
    ASSUME NEW a \in Areas, Vocabulary!IsNew(a)
    PROVE  area[a] = NoRow
BY DEF Vocabulary!IsNew, Vocabulary!Known

LEMMA WordsAdded ==
    ASSUME VocabularyInv, NoWordRow, NEW x \in Spellings
    PROVE  /\ Vocabulary!CreateSkill(x) => VocabularyInv'
           /\ \A a \in Areas, parent \in Areas \cup {NoRow} :
                 Vocabulary!CreateResearchArea(a, x, parent) => VocabularyInv'
           /\ \A target : Vocabulary!CreateTagAlias(x, target) => VocabularyInv'
           /\ \A s \in Suggestions, kind \in Vocabulary!Kinds :
                 Vocabulary!Suggest(s, x, kind) => VocabularyInv'
<1> USE DEF VocabularyInv
<1>1. ASSUME UNCHANGED <<area, suggestion, call, added, asked, crossed, work>>,
             skills \subseteq skills'
      PROVE  VocabularyInv'
  <2>1. Tree' /\ TagsStand' /\ Vocabulary!Known \subseteq Vocabulary!Known'
    BY <1>1 DEF Tree, TagsStand, Vocabulary!Known
  <2>2. ReviewsStand'
    BY <1>1 DEF ReviewsStand, ReviewStands
  <2> QED BY <1>1, <2>1, <2>2, WordsAlone
<1>2. ASSUME NEW a \in Areas, NEW parent \in Areas \cup {NoRow},
             Vocabulary!CreateResearchArea(a, x, parent)
      PROVE  VocabularyInv'
  <2>1. PICK row : row = [name |-> x, parent |-> parent]
    OBVIOUS
  <2>2. /\ row \in Vocabulary!AreaRow /\ area' = [area EXCEPT ![a] = row]
        /\ area[a] = NoRow
        /\ row.parent # NoRow =>
              area[row.parent] # NoRow /\ area[row.parent].parent = NoRow
        /\ UNCHANGED <<skills, suggestion, call, added, asked, crossed, work>>
    BY <1>2, <2>1, FreeArea DEF Vocabulary!CreateResearchArea, Vocabulary!MayBeParent,
       Vocabulary!AreaRow
  <2>3. Tree' /\ Vocabulary!Known \subseteq Vocabulary!Known'
    BY <2>2, NewArea
  <2>4. ReviewsStand'
    BY <2>2 DEF ReviewsStand, ReviewStands
  <2>5. TagsStand'
    BY <2>2, <2>3 DEF TagsStand
  <2> QED BY <2>2, <2>3, <2>4, <2>5, WordsAlone
<1>3. ASSUME NEW s \in Suggestions, NEW kind \in Vocabulary!Kinds,
             Vocabulary!Suggest(s, x, kind)
      PROVE  VocabularyInv'
  <2>1. PICK row : row = [name |-> x, kind |-> kind, status |-> "pending"]
    OBVIOUS
  <2>2. /\ suggestion[s] = NoRow /\ suggestion' = [suggestion EXCEPT ![s] = row]
        /\ row \in Vocabulary!SuggestionRow
        /\ UNCHANGED <<skills, area, call, added, asked, crossed, work>>
    BY <1>3, <2>1 DEF Vocabulary!Suggest, Vocabulary!SuggestionRow
  <2>3. Tree' /\ TagsStand' /\ Vocabulary!Known \subseteq Vocabulary!Known'
    BY <2>2 DEF Tree, TagsStand, Vocabulary!Known
  <2>4. \A r \in Suggestions : suggestion'[r] = IF r = s THEN row ELSE suggestion[r]
    BY <2>2 DEF ReviewsStand
  <2>5. added[s] = 0
    BY <2>2 DEF ReviewsStand, ReviewStands
  <2>6. ReviewsStand'
    BY <2>1, <2>2, <2>4, <2>5 DEF ReviewsStand, ReviewStands
  <2> QED BY <2>2, <2>3, <2>4, <2>6, WordsAlone
<1> QED BY <1>1, <1>2, <1>3 DEF Vocabulary!CreateSkill, Vocabulary!CreateTagAlias

LEMMA CallsAlone ==
    ASSUME VocabularyInv, NoWordRow, NEW c \in Calls
    PROVE  /\ \A tags : Vocabulary!CreateFunding(c, tags) => VocabularyInv'
           /\ Vocabulary!DeleteFunding(c) => VocabularyInv'
<1> USE DEF VocabularyInv
<1>1. ASSUME NEW tags, NEW named, UNCHANGED <<skills, area, suggestion, added, crossed, work>>,
             call' = [call EXCEPT ![c] = tags], asked' = [asked EXCEPT ![c] = named],
             \/ tags = NoRow
             \/ /\ tags \subseteq Vocabulary!Known /\ named = tags
                /\ \A w \in Workers : work[w] # Vocabulary!Idle => work[w].on # c
      PROVE  VocabularyInv'
  <2>1. Tree' /\ ReviewsStand' /\ Vocabulary!Known' = Vocabulary!Known
    BY <1>1 DEF Tree, ReviewsStand, ReviewStands, Vocabulary!Known
  <2>2. \A d \in Calls : /\ call'[d] = IF d = c THEN tags ELSE call[d]
                         /\ asked'[d] = IF d = c THEN named ELSE asked[d]
    BY <1>1 DEF TagsStand
  <2>3. TagsStand'
    BY <1>1, <2>1, <2>2 DEF TagsStand
  <2> QED BY <1>1, <2>1, <2>2, <2>3, WordsAlone
<1>2. ASSUME NEW tags, Vocabulary!CreateFunding(c, tags) PROVE VocabularyInv'
  BY <1>1, <1>2 DEF Vocabulary!CreateFunding
<1>3. ASSUME Vocabulary!DeleteFunding(c) PROVE VocabularyInv'
  BY <1>1, <1>3 DEF Vocabulary!DeleteFunding
<1> QED BY <1>2, <1>3

LEMMA WordsLoads ==
    ASSUME VocabularyInv, NEW w \in Workers
    PROVE  /\ \A s \in Suggestions, verdict \in {"approved", "rejected"} :
                 Vocabulary!ReviewLoad(w, s, verdict) => VocabularyInv'
           /\ \A c \in Calls : \A tags : Vocabulary!UpdateLoad(w, c, tags) => VocabularyInv'
<1>1. ASSUME NEW s \in Suggestions, NEW verdict \in {"approved", "rejected"},
             Vocabulary!ReviewLoad(w, s, verdict)
      PROVE  VocabularyInv'
  <2>1. WordInHand([op |-> "review", on |-> s, verdict |-> verdict])
    BY <1>1 DEF WordInHand, Vocabulary!ReviewLoad, Vocabulary!Reviewable
  <2> QED BY <1>1, <2>1, WordsBegin DEF Vocabulary!ReviewLoad
<1>2. ASSUME NEW c \in Calls, NEW tags, Vocabulary!UpdateLoad(w, c, tags)
      PROVE  VocabularyInv'
  <2>1. WordInHand([op |-> "edit", on |-> c, gone |-> Vocabulary!Cleared(c), new |-> tags])
    BY <1>2 DEF WordInHand, Vocabulary!UpdateLoad, Vocabulary!Cleared
  <2> QED BY <1>2, <2>1, WordsBegin DEF Vocabulary!UpdateLoad
<1> QED BY <1>1, <1>2

LEMMA WordsEnd ==
    ASSUME VocabularyInv, NEW w \in Workers, Vocabulary!End(w),
           Tree', ReviewsStand', TagsStand',
           \A v \in Workers \ {w} : \A u : u = work[v] => WordInHand(u)'
    PROVE  VocabularyInv'
<1> USE DEF VocabularyInv
<1>1. /\ \A v \in Workers : work'[v] = IF v = w THEN Vocabulary!Idle ELSE work[v]
      /\ DOMAIN work' = Workers /\ UNCHANGED crossed
  BY DEF Vocabulary!End
<1>2. WordsBeside'
  BY <1>1 DEF WordsBeside
<1>3. ASSUME NEW v \in Workers PROVE WordInHand(work[v])'
  <2>1. PICK u : u = work'[v]
    OBVIOUS
  <2>2. WordInHand(u)'
    <3>1. CASE v = w
      BY <1>1, <2>1, <3>1 DEF WordInHand, Vocabulary!Idle
    <3>2. CASE v # w
      BY <1>1, <2>1, <3>2
    <3> QED BY <3>1, <3>2
  <2> QED BY <2>1, <2>2 DEF WordInHand
<1> QED BY <1>1, <1>2, <1>3

\* What one review of s writes: nothing when the skill is there, else its verdict, and what
\* it approves.
Written(s, row, more) ==
    /\ suggestion' = [suggestion EXCEPT ![s] = row]
    /\ row \in Vocabulary!SuggestionRow /\ row # NoRow
    /\ row.name = suggestion[s].name /\ row.kind = suggestion[s].kind
    /\ DOMAIN added' = Suggestions
    /\ \A r \in Suggestions : added'[r] = IF r = s THEN added[r] + more ELSE added[r]
    /\ more = (IF row.status = "approved" THEN 1 ELSE 0)
    /\ skills \subseteq skills'
    /\ more = 1 /\ row.kind = "skill" => row.name \notin skills /\ row.name \in skills'

LEMMA ReviewWrites ==
    ASSUME VocabularyInv, NoWordRow, NEW w \in Workers, Vocabulary!ReviewCommit(w),
           NEW s, s = work[w].on
    PROVE  /\ s \in Suggestions /\ suggestion[s] # NoRow
           /\ \/ UNCHANGED <<skills, area, suggestion, added>>
              \/ \E row, more : Written(s, row, more)
           /\ Tree' /\ Vocabulary!Known \subseteq Vocabulary!Known'
<1> USE DEF VocabularyInv
<1>1. PICK verdict : verdict = work[w].verdict
  OBVIOUS
<1>2. /\ s \in Suggestions /\ suggestion[s] # NoRow /\ verdict \in {"approved", "rejected"}
      /\ suggestion[s] \in Vocabulary!SuggestionRow
  BY <1>1 DEF WordInHand, Vocabulary!ReviewCommit, ReviewsStand
<1>3. \A v \in {"approved", "rejected"} : Vocabulary!Settled(s, v) =>
        \E row : /\ suggestion' = [suggestion EXCEPT ![s] = row]
                 /\ row \in Vocabulary!SuggestionRow /\ row # NoRow /\ row.status = v
                 /\ row.name = suggestion[s].name /\ row.kind = suggestion[s].kind
  <2> SUFFICES ASSUME NEW v \in {"approved", "rejected"}, Vocabulary!Settled(s, v)
               PROVE  \E row : /\ suggestion' = [suggestion EXCEPT ![s] = row]
                               /\ row \in Vocabulary!SuggestionRow /\ row # NoRow
                               /\ row.status = v
                               /\ row.name = suggestion[s].name /\ row.kind = suggestion[s].kind
    OBVIOUS
  <2>1. PICK old : old = suggestion[s] /\ old \in Vocabulary!SuggestionRow
    BY <1>2
  <2>2. PICK row : row = [old EXCEPT !.status = v]
    OBVIOUS
  <2>3. /\ row \in Vocabulary!SuggestionRow /\ row # NoRow /\ row.status = v
        /\ row.name = old.name /\ row.kind = old.kind
    BY <2>1, <2>2 DEF Vocabulary!SuggestionRow, NoWordRow
  <2> QED BY <2>1, <2>2, <2>3 DEF Vocabulary!Settled
<1>4. CASE Vocabulary!Reject(w, s)
  <2>1. PICK row : /\ suggestion' = [suggestion EXCEPT ![s] = row]
                   /\ row \in Vocabulary!SuggestionRow /\ row # NoRow
                   /\ row.status = "rejected"
                   /\ row.name = suggestion[s].name /\ row.kind = suggestion[s].kind
    BY <1>3, <1>4 DEF Vocabulary!Reject
  <2>2. UNCHANGED <<skills, area, added>>
    BY <1>4 DEF Vocabulary!Reject
  <2>3. PICK none : none = 0
    OBVIOUS
  <2>6. \A r \in Suggestions : added'[r] = IF r = s THEN added[r] + none ELSE added[r]
    BY <2>2, <2>3 DEF ReviewsStand
  <2>7. /\ none = (IF row.status = "approved" THEN 1 ELSE 0) /\ none # 1
        /\ DOMAIN added' = Suggestions /\ skills \subseteq skills'
    BY <2>1, <2>2, <2>3 DEF ReviewsStand
  <2>4. Written(s, row, none)
    BY <2>1, <2>6, <2>7 DEF Written
  <2>5. Tree' /\ Vocabulary!Known \subseteq Vocabulary!Known'
    BY <2>2 DEF Tree, Vocabulary!Known
  <2> QED BY <1>2, <2>4, <2>5
<1>5. CASE Vocabulary!ApproveSkill(w, s)
  <2>1. UNCHANGED area
    BY <1>5 DEF Vocabulary!ApproveSkill
  <2>2. Tree' /\ Vocabulary!Known \subseteq Vocabulary!Known'
    BY <2>1 DEF Tree, Vocabulary!Known
  <2>3. CASE suggestion[s].name \in skills
    BY <1>2, <1>5, <2>2, <2>3 DEF Vocabulary!ApproveSkill
  <2>4. CASE suggestion[s].name \notin skills
    <3>1. PICK row : /\ suggestion' = [suggestion EXCEPT ![s] = row]
                     /\ row \in Vocabulary!SuggestionRow /\ row # NoRow
                     /\ row.status = "approved"
                     /\ row.name = suggestion[s].name /\ row.kind = suggestion[s].kind
      BY <1>3, <1>5, <2>4 DEF Vocabulary!ApproveSkill
    <3>2. Written(s, row, 1)
      BY <1>5, <2>4, <3>1 DEF ReviewsStand, Written, Vocabulary!ApproveSkill
    <3> QED BY <1>2, <2>2, <3>2
  <2> QED BY <2>3, <2>4
<1>6. ASSUME NEW a \in Areas, Vocabulary!ApproveArea(w, s, a)
      PROVE  /\ \E row, more : Written(s, row, more)
             /\ Tree' /\ Vocabulary!Known \subseteq Vocabulary!Known'
  <2>1. PICK row : /\ suggestion' = [suggestion EXCEPT ![s] = row]
                   /\ row \in Vocabulary!SuggestionRow /\ row # NoRow
                   /\ row.status = "approved"
                   /\ row.name = suggestion[s].name /\ row.kind = suggestion[s].kind
    BY <1>3, <1>6 DEF Vocabulary!ApproveArea
  <2>2. PICK entry : entry = [name |-> suggestion[s].name, parent |-> NoRow]
    OBVIOUS
  <2>3. /\ entry \in Vocabulary!AreaRow /\ entry.parent = NoRow /\ area[a] = NoRow
        /\ area' = [area EXCEPT ![a] = entry]
    BY <1>2, <1>6, <2>2, FreeArea DEF Vocabulary!ApproveArea, Vocabulary!AreaRow,
       Vocabulary!SuggestionRow
  <2>4. Tree' /\ Vocabulary!Known \subseteq Vocabulary!Known'
    BY <2>3, NewArea
  <2>5. row.kind = "area" /\ UNCHANGED skills
    BY <1>6, <2>1 DEF Vocabulary!ApproveArea
  <2>6. Written(s, row, 1)
    BY <1>6, <2>1, <2>5 DEF ReviewsStand, Written, Vocabulary!ApproveArea
  <2> QED BY <2>4, <2>6
<1> QED BY <1>2, <1>4, <1>5, <1>6 DEF Vocabulary!ReviewCommit

LEMMA ReviewKeeps ==
    ASSUME VocabularyInv, NoWordRow, NEW w \in Workers, Vocabulary!ReviewCommit(w)
    PROVE  VocabularyInv'
<1> USE DEF VocabularyInv
<1>1. PICK t, s : t = work[w] /\ s = t.on
  OBVIOUS
<1>2. t.op = "review" /\ Vocabulary!End(w) /\ UNCHANGED <<call, asked, crossed>>
  BY <1>1 DEF Vocabulary!ReviewCommit, Vocabulary!End
<1>3. /\ s \in Suggestions /\ suggestion[s] # NoRow
      /\ \/ UNCHANGED <<skills, area, suggestion, added>>
         \/ \E row, more : Written(s, row, more)
      /\ Tree' /\ Vocabulary!Known \subseteq Vocabulary!Known'
  BY <1>1, ReviewWrites
<1>4. TagsStand'
  BY <1>2, <1>3 DEF TagsStand
<1>5. ASSUME NEW row, NEW more, Written(s, row, more)
      PROVE  /\ ReviewsStand'
             /\ \A r \in Suggestions : r # s => suggestion'[r] = suggestion[r]
             /\ suggestion'[s] # NoRow
  <2>1. \A r \in Suggestions : suggestion'[r] = IF r = s THEN row ELSE suggestion[r]
    BY <1>5 DEF Written, ReviewsStand
  <2>2. /\ more \in {0, 1} /\ added[s] \in Nat
        /\ \A r \in Suggestions : added'[r] = IF r = s THEN added[r] + more ELSE added[r]
    BY <1>3, <1>5 DEF Written, ReviewsStand
  <2>3. s \notin crossed => suggestion[s].status = "pending" /\ added[s] = 0
    BY <1>1, <1>2, <1>3 DEF WordInHand, ReviewsStand, ReviewStands
  <2>4. ReviewStands(s)'
    <3>1. suggestion'[s] = row /\ row # NoRow /\ added'[s] = added[s] + more
      BY <1>3, <1>5, <2>1, <2>2 DEF Written
    <3>2. row.kind = "skill" => added[s] \in {0, 1} /\ (added[s] = 1 => row.name \in skills)
      BY <1>3, <1>5 DEF Written, ReviewsStand, ReviewStands
    <3>3. row.kind = "skill" =>
            added'[s] \in {0, 1} /\ (added'[s] = 1 => row.name \in skills')
      BY <1>5, <2>2, <3>1, <3>2 DEF Written
    <3>4. s \notin crossed => added'[s] = (IF row.status = "approved" THEN 1 ELSE 0)
      BY <1>5, <2>3, <3>1 DEF Written
    <3> QED BY <1>2, <3>1, <3>3, <3>4 DEF ReviewStands
  <2>5. \A r \in Suggestions : r # s => ReviewStands(r)'
    BY <1>2, <1>5, <2>1, <2>2 DEF Written, ReviewsStand, ReviewStands
  <2>6. \A r \in Suggestions : added'[r] \in Nat
    BY <2>2 DEF ReviewsStand
  <2> QED BY <1>3, <1>5, <2>1, <2>4, <2>5, <2>6 DEF Written, ReviewsStand
<1>6. /\ ReviewsStand'
      /\ \A r \in Suggestions : r # s => suggestion'[r] = suggestion[r]
      /\ suggestion'[s] # NoRow
  <2>1. CASE UNCHANGED <<skills, area, suggestion, added>>
    BY <1>2, <1>3, <2>1 DEF ReviewsStand, ReviewStands
  <2> QED BY <1>3, <1>5, <2>1
<1>7. ASSUME NEW v \in Workers \ {w}, NEW u, u = work[v]
      PROVE  WordInHand(u)'
  <2>1. u.op = "review" /\ u.on = s => s \in crossed
    BY <1>1, <1>2, <1>7 DEF WordsBeside, Vocabulary!Idle
  <2>2. WordInHand(u)
    BY <1>7
  <2> QED BY <1>2, <1>3, <1>6, <2>1, <2>2 DEF WordInHand
<1> QED BY <1>2, <1>3, <1>4, <1>6, <1>7, WordsEnd

LEMMA EditKeeps ==
    ASSUME VocabularyInv, NoWordRow, NEW w \in Workers, Vocabulary!UpdateCommit(w)
    PROVE  VocabularyInv'
<1> USE DEF VocabularyInv
<1>1. PICK t, c : t = work[w] /\ c = t.on /\ WordInHand(t)
  OBVIOUS
<1>2. PICK left : left = IF call[c] = NoRow THEN {} ELSE call[c] \ t.gone
  OBVIOUS
<1>3. /\ t.op = "edit" /\ Vocabulary!End(w)
      /\ UNCHANGED <<skills, area, suggestion, added, crossed>>
      /\ c \in Calls /\ t.new \subseteq Vocabulary!Known
      /\ c \notin crossed /\ call[c] # NoRow => t.gone = call[c]
  BY <1>1 DEF Vocabulary!UpdateCommit, Vocabulary!End, WordInHand
<1>4. \/ UNCHANGED <<call, asked>>
      \/ /\ call[c] # NoRow
         /\ call' = [call EXCEPT ![c] = left \cup t.new]
         /\ asked' = [asked EXCEPT ![c] = t.new]
  BY <1>1, <1>2 DEF Vocabulary!UpdateCommit
<1>5. Tree' /\ ReviewsStand' /\ Vocabulary!Known' = Vocabulary!Known
  BY <1>3 DEF Tree, ReviewsStand, ReviewStands, Vocabulary!Known
<1>6. CASE UNCHANGED <<call, asked>>
  <2>1. TagsStand'
    BY <1>3, <1>5, <1>6 DEF TagsStand
  <2>2. \A v \in Workers \ {w} : \A u : u = work[v] => WordInHand(u)'
    BY <1>3, <1>5, <1>6 DEF WordInHand
  <2> QED BY <1>3, <1>5, <2>1, <2>2, WordsEnd
<1>7. CASE /\ call[c] # NoRow
           /\ call' = [call EXCEPT ![c] = left \cup t.new]
           /\ asked' = [asked EXCEPT ![c] = t.new]
  <2>1. PICK tags : tags = left \cup t.new
    OBVIOUS
  <2>2. /\ tags \subseteq Vocabulary!Known
        /\ c \notin crossed => tags = t.new
    BY <1>2, <1>3, <1>7, <2>1 DEF TagsStand
  <2>3. \A d \in Calls : /\ call'[d] = IF d = c THEN tags ELSE call[d]
                         /\ asked'[d] = IF d = c THEN t.new ELSE asked[d]
    BY <1>7, <2>1 DEF TagsStand
  <2>4. TagsStand'
    BY <1>3, <1>5, <1>7, <2>2, <2>3 DEF TagsStand
  <2>5. ASSUME NEW v \in Workers \ {w}, NEW u, u = work[v]
        PROVE  WordInHand(u)'
    <3>1. u.op = "edit" /\ u.on = c => c \in crossed
      BY <1>1, <1>3, <2>5 DEF WordsBeside, Vocabulary!Idle
    <3>2. WordInHand(u)
      BY <2>5
    <3> QED BY <1>3, <1>5, <2>3, <3>1, <3>2 DEF WordInHand
  <2> QED BY <1>3, <1>5, <2>4, <2>5, WordsEnd
<1> QED BY <1>4, <1>6, <1>7

LEMMA VocabularyNext ==
    ASSUME VocabularyInv, NoWordRow, [Vocabulary!Next]_(Vocabulary!vocabularyVars)
    PROVE  VocabularyInv'
<1>1. ASSUME NEW x \in Spellings,
             \/ Vocabulary!CreateSkill(x)
             \/ \E a \in Areas, parent \in Areas \cup {NoRow} :
                   Vocabulary!CreateResearchArea(a, x, parent)
             \/ \E target \in Vocabulary!Targets : Vocabulary!CreateTagAlias(x, target)
             \/ \E s \in Suggestions, kind \in Vocabulary!Kinds : Vocabulary!Suggest(s, x, kind)
      PROVE  VocabularyInv'
  BY <1>1, WordsAdded
<1>2. ASSUME NEW w \in Workers,
             \/ \E s \in Suggestions, verdict \in {"approved", "rejected"} :
                   Vocabulary!ReviewLoad(w, s, verdict)
             \/ Vocabulary!ReviewCommit(w) \/ Vocabulary!UpdateCommit(w)
             \/ \E c \in Calls, tags \in Vocabulary!Tags : Vocabulary!UpdateLoad(w, c, tags)
      PROVE  VocabularyInv'
  BY <1>2, WordsLoads, ReviewKeeps, EditKeeps
<1>3. ASSUME NEW c \in Calls,
             \/ \E tags \in Vocabulary!Tags : Vocabulary!CreateFunding(c, tags)
             \/ Vocabulary!DeleteFunding(c)
      PROVE  VocabularyInv'
  BY <1>3, CallsAlone
<1>4. CASE UNCHANGED Vocabulary!vocabularyVars
  <2>1. UNCHANGED <<skills, area, suggestion, call, added, asked, crossed, work>>
    BY <1>4 DEF Vocabulary!vocabularyVars
  <2>2. /\ Tree' /\ ReviewsStand' /\ TagsStand'
        /\ Vocabulary!Known \subseteq Vocabulary!Known'
    BY <2>1 DEF VocabularyInv, Tree, ReviewsStand, ReviewStands, TagsStand, Vocabulary!Known
  <2> QED BY <2>1, <2>2, WordsAlone
<1> QED BY <1>1, <1>2, <1>3, <1>4 DEF Vocabulary!Next

\* In the house, while it is the part that runs.
LEMMA VocabularyRuns ==
    /\ HouseInit /\ part = "vocabulary" => Vocabulary!Init
    /\ [HouseNext]_houseVars /\ part = "vocabulary"
          => part' = "vocabulary" /\ [Vocabulary!Next]_(Vocabulary!vocabularyVars)
<1>1. HouseInit /\ part = "vocabulary" => Vocabulary!Init
  BY DEF HouseInit
<1>2. ASSUME HouseNext, part = "vocabulary" PROVE part' = "vocabulary" /\ Vocabulary!Next
  BY <1>2 DEF HouseNext
<1>3. ASSUME UNCHANGED houseVars, part = "vocabulary"
      PROVE  part' = "vocabulary" /\ UNCHANGED Vocabulary!vocabularyVars
  BY <1>3 DEF houseVars, vocabularyOwn, Vocabulary!vocabularyVars
<1> QED BY <1>1, <1>2, <1>3

LEMMA VocabularyHolds == HouseSpec => [](part = "vocabulary" => VocabularyInv)
<1>1. HouseInit => (part = "vocabulary" => VocabularyInv)
  BY VocabularyRuns, VocabularyInit, HouseRowsAssumption DEF NoWordRow
<1>2. (part = "vocabulary" => VocabularyInv) /\ [HouseNext]_houseVars
        => (part = "vocabulary" => VocabularyInv)'
  <2> SUFFICES ASSUME part = "vocabulary" => VocabularyInv, [HouseNext]_houseVars, part' = "vocabulary"
               PROVE  VocabularyInv'
    OBVIOUS
  <2>1. part = "vocabulary"
    BY DEF HouseNext, houseVars
  <2> QED BY <2>1, VocabularyRuns, VocabularyNext, HouseRowsAssumption DEF NoWordRow
<1> QED BY <1>1, <1>2, PTL DEF HouseSpec

\* An approval makes one entry of a suggestion and a rejection none, unless two reviewers
\* were on it, and even then one skill; the areas stay in two levels, so that a filter finds
\* what is tagged below it, and an alias finds what it stands for; a call is tagged as one
\* edit of it said, unless two edits overlapped (taxonomy/service.py, funding/service.py).
THEOREM WordsStayReviewed == HouseSpec => []WordsAreReviewed
<1>1. (part = "vocabulary" => VocabularyInv) => WordsAreReviewed
  BY WordsReviewed, HouseRowsAssumption DEF NoWordRow, WordsAreReviewed
<1> QED BY <1>1, VocabularyHolds, PTL

-----------------------------------------------------------------------------
(* The places of an opening *)

\* What OpeningsProofs proves of Openings holds of the part of the house: it is the same
\* module, with the clerks as its handlers.
Places == INSTANCE OpeningsProofs WITH Workers <- Clerks

LEMMA PlacesAreOpenings ==
    /\ Openings!Init => Places!Init
    /\ Openings!Next => Places!Next
    /\ UNCHANGED Openings!vars => UNCHANGED Places!vars
    /\ Places!PlacesAreKept => Openings!PlacesAreKept
<1>1. Openings!Init => Places!Init
  BY DEF Openings!Init, Places!Init, Openings!Idle, Places!Idle
<1>2. Openings!Next => Places!Next
  BY DEF Openings!Next, Places!Next, Openings!Handler, Places!Handler,
         Openings!PublishLoad, Places!PublishLoad, Openings!MayPublish,
         Places!MayPublish, Openings!OpeningTransitions, Places!OpeningTransitions,
         Openings!Begin, Places!Begin, Openings!Idle, Places!Idle,
         Openings!Crossing, Places!Crossing, Openings!Accepting, Places!Accepting,
         Openings!Turning, Places!Turning, Openings!openingVars, Places!openingVars,
         Openings!applicationVars, Places!applicationVars, Openings!PublishCommit,
         Places!PublishCommit, Openings!RaiseNotice, Places!RaiseNotice,
         Openings!End, Places!End, Openings!CloseLoad, Places!CloseLoad,
         Openings!CloseCommit, Places!CloseCommit, Openings!AnnounceClosed,
         Places!AnnounceClosed, Openings!WithdrawNotice, Places!WithdrawNotice,
         Openings!HideLoad, Places!HideLoad, Openings!HideCommit, Places!HideCommit,
         Openings!EditLoad, Places!EditLoad, Openings!MayAskFor, Places!MayAskFor,
         Openings!AcceptedCount, Places!AcceptedCount, Openings!Accepted,
         Places!Accepted, Openings!EditCommit, Places!EditCommit,
         Openings!ApplyLoad, Places!ApplyLoad, Openings!TakesApplications,
         Places!TakesApplications, Openings!ApplicationStatus,
         Places!ApplicationStatus, Openings!DecideLoad, Places!DecideLoad,
         Openings!Undecided, Places!Undecided, Openings!AssertTransition,
         Places!AssertTransition, Openings!ApplicationTransitions,
         Places!ApplicationTransitions, Openings!WithdrawLoad, Places!WithdrawLoad,
         Openings!AcceptLoad, Places!AcceptLoad, Openings!PlaceLeft,
         Places!PlaceLeft, Openings!AddMember, Places!AddMember,
         Openings!RemoveMember, Places!RemoveMember, Openings!RowLocked,
         Places!RowLocked, Openings!ApplyCommit, Places!ApplyCommit, Openings!Moves,
         Places!Moves, Openings!RecordEvent, Places!RecordEvent,
         Openings!MoveCommit, Places!MoveCommit, Openings!AcceptFlush,
         Places!AcceptFlush, Openings!Fills, Places!Fills, Openings!AcceptCommit,
         Places!AcceptCommit, Openings!Joins, Places!Joins, Openings!Rollback,
         Places!Rollback, Openings!ModerateNotice, Places!ModerateNotice,
         Openings!DeadlinePasses, Places!DeadlinePasses, Openings!ProjectEnds,
         Places!ProjectEnds, Openings!Cardinality, Places!Cardinality
<1>3. UNCHANGED Openings!vars => UNCHANGED Places!vars
  BY DEF Openings!vars, Places!vars, Openings!openingVars, Places!openingVars,
         Openings!applicationVars, Places!applicationVars
<1>4. Places!PlacesAreKept => Openings!PlacesAreKept
  BY DEF Openings!PlacesAreKept, Places!PlacesAreKept, Openings!NeverOverbooked,
         Places!NeverOverbooked, Openings!AcceptedCount, Places!AcceptedCount,
         Openings!Accepted, Places!Accepted, Openings!FilledIsFull,
         Places!FilledIsFull, Openings!Cardinality, Places!Cardinality
<1> QED BY <1>1, <1>2, <1>3, <1>4

OpeningsInv == Places!IInv /\ Places!CalmInv

LEMMA OpeningsInit == Openings!Init => OpeningsInv
BY PlacesAreOpenings, Places!InitInv, Places!InitCalm, HouseRowsAssumption, PlacesAssumption
   DEF OpeningsInv, Openings!ApplicationStatus, Places!ApplicationStatus

LEMMA OpeningsNext == OpeningsInv /\ [Openings!Next]_(Openings!vars) => OpeningsInv'
<1>1. [Openings!Next]_(Openings!vars) => [Places!Next]_(Places!vars)
  BY PlacesAreOpenings
<1>2. NoRow \notin Places!ApplicationStatus
  BY HouseRowsAssumption DEF Openings!ApplicationStatus, Places!ApplicationStatus
<1>3. Places!IInv /\ [Places!Next]_(Places!vars) => Places!IInv'
  BY <1>2, Places!NextInv, PlacesAssumption
<1>4. Places!IInv /\ Places!CalmInv /\ [Places!Next]_(Places!vars) => Places!CalmInv'
  BY <1>2, Places!NextCalm, PlacesAssumption
<1> QED BY <1>1, <1>3, <1>4 DEF OpeningsInv

\* In the house, while it is the part that runs.
LEMMA OpeningsRuns ==
    /\ HouseInit /\ part = "places" => Openings!Init
    /\ [HouseNext]_houseVars /\ part = "places"
          => part' = "places" /\ [Openings!Next]_(Openings!vars)
<1>1. HouseInit /\ part = "places" => Openings!Init
  BY DEF HouseInit
<1>2. ASSUME HouseNext, part = "places" PROVE part' = "places" /\ Openings!Next
  BY <1>2 DEF HouseNext
<1>3. ASSUME UNCHANGED houseVars, part = "places"
      PROVE  part' = "places" /\ UNCHANGED Openings!vars
  BY <1>3 DEF houseVars, placesOwn, Openings!vars, Openings!openingVars, Openings!applicationVars
<1> QED BY <1>1, <1>2, <1>3

LEMMA OpeningsHolds == HouseSpec => [](part = "places" => OpeningsInv)
<1>1. HouseInit => (part = "places" => OpeningsInv)
  BY OpeningsRuns, OpeningsInit
<1>2. (part = "places" => OpeningsInv) /\ [HouseNext]_houseVars
        => (part = "places" => OpeningsInv)'
  <2> SUFFICES ASSUME part = "places" => OpeningsInv, [HouseNext]_houseVars, part' = "places"
               PROVE  OpeningsInv'
    OBVIOUS
  <2>1. part = "places"
    BY DEF HouseNext, houseVars
  <2> QED BY <2>1, OpeningsRuns, OpeningsNext
<1> QED BY <1>1, <1>2, PTL DEF HouseSpec

\* No more are accepted than there are places, and FILLED says exactly that every place is
\* taken, unless acceptances overlapped (applications/service.py: change_status); and a
\* facility stays in the care it was given to, with what stands in it and what waits for it
\* (facilities/service.py: assign_custodian, delete_facility).
THEOREM PlacesStayKept == HouseSpec => []PlacesAreKept
<1>1. OpeningsInv => Openings!PlacesAreKept
  BY PlacesAreOpenings, Places!CalmKeepsPlaces, PlacesAssumption, HouseRowsAssumption
     DEF OpeningsInv, Openings!ApplicationStatus, Places!ApplicationStatus
<1>2. (part = "places" => OpeningsInv) /\ (part = "custody" => CustodyInv) => PlacesAreKept
  BY <1>1 DEF CustodyInv, PlacesAreKept
<1> QED BY <1>2, OpeningsHolds, CustodyHolds, PTL

-----------------------------------------------------------------------------
(* Schema *)

\* A process that migrates is between its revision and its goal; an instance goes to the
\* newest one, and says that it is starting until it is there.
MigrationStands(p) ==
    /\ process[p].at \in Schema!Numbers /\ process[p].goal \in Schema!Numbers
    /\ p \in Instances => process[p].goal = Schema!Newest /\ health[p] = "starting"

\* Whoever takes the schema down notes the instances that run; so one that got to the
\* newest revision is at that of the database.
SchemaInv ==
    /\ version \in Schema!Numbers
    /\ DOMAIN process = Processes /\ DOMAIN health = Instances
    /\ \A p \in Processes : process[p].op = "migrate" => MigrationStands(p)
    /\ \A p \in Instances \ lowered :
          process[p].op = "migrate" /\ process[p].at = Schema!Newest => version = Schema!Newest
    /\ Schema!ReadyIsCurrent

LEMMA SchemaInit == Schema!Init => SchemaInv
BY RevisionsAssumption DEF Schema!Init, SchemaInv, Schema!Idle, Schema!ReadyIsCurrent, Schema!Numbers, Schema!Newest

LEMMA SchemaNext ==
    ASSUME SchemaInv, Schema!Next \/ UNCHANGED schemaOwn
    PROVE  SchemaInv'
<1> USE RevisionsAssumption
<1>1. CASE UNCHANGED schemaOwn
  BY <1>1 DEF schemaOwn, SchemaInv, MigrationStands, Schema!ReadyIsCurrent
<1>2. ASSUME NEW p \in Instances, Schema!Boot(p) PROVE SchemaInv'
  <2>1. /\ process' = [process EXCEPT ![p] = Schema!Running(version, Schema!Newest, {})]
        /\ health' = [health EXCEPT ![p] = "starting"]
        /\ lowered' = lowered \ {p} /\ version' = version
    BY <1>2 DEF Schema!Boot, Schema!Begin
  <2>2. /\ process'[p] = [op |-> "migrate", at |-> version, goal |-> Schema!Newest, memo |-> {}]
        /\ \A q \in Processes : q # p => process'[q] = process[q]
        /\ health'[p] = "starting" /\ \A q \in Instances : q # p => health'[q] = health[q]
        /\ DOMAIN process' = Processes /\ DOMAIN health' = Instances
    BY <2>1 DEF SchemaInv, Schema!Running
  <2> QED BY <2>1, <2>2 DEF SchemaInv, MigrationStands, Schema!ReadyIsCurrent, Schema!Numbers, Schema!Newest
<1>3. ASSUME NEW p \in Processes \ Instances, NEW goal \in Goals, Schema!ByHand(p, goal)
      PROVE  SchemaInv'
  <2>1. /\ process' = [process EXCEPT ![p] = Schema!Running(version, goal, {})]
        /\ UNCHANGED <<version, health, lowered>>
    BY <1>3 DEF Schema!ByHand, Schema!Begin
  <2>2. /\ process'[p] = [op |-> "migrate", at |-> version, goal |-> goal, memo |-> {}]
        /\ \A q \in Processes : q # p => process'[q] = process[q]
        /\ DOMAIN process' = Processes
    BY <2>1 DEF SchemaInv, Schema!Running
  <2> QED BY <2>1, <2>2 DEF SchemaInv, MigrationStands, Schema!ReadyIsCurrent, Schema!Numbers, Schema!Newest
\* A process ends, or is killed: an instance is ready only at the newest revision.
<1>4. ASSUME NEW p \in Processes,
             /\ UNCHANGED <<version, lowered>>
             /\ \E t : t.op # "migrate" /\ process' = [process EXCEPT ![p] = t]
             /\ health' = health \/ \E h : health' = [health EXCEPT ![p] = h]
             /\ p \in Instances \ lowered /\ health'[p] = "ok" => version = Schema!Newest
      PROVE  SchemaInv'
  <2>1. /\ process'[p].op # "migrate" /\ \A q \in Processes : q # p => process'[q] = process[q]
        /\ \A q \in Instances : q # p => health'[q] = health[q]
        /\ DOMAIN process' = Processes /\ DOMAIN health' = Instances
    BY <1>4 DEF SchemaInv
  <2> QED BY <1>4, <2>1 DEF SchemaInv, MigrationStands, Schema!ReadyIsCurrent
<1>5. ASSUME NEW p \in Processes, Schema!Migrate(p) PROVE SchemaInv'
  <2> DEFINE t == process[p]
             to == Schema!CommitsAt(t.at, t.goal)
  <2>1. t.op = "migrate" /\ t.at # t.goal /\ MigrationStands(p)
    BY <1>5 DEF Schema!Migrate, SchemaInv
  <2>2. CASE /\ UNCHANGED <<version, lowered>>
             /\ Schema!Ends(p, TRUE, [op |-> "failed", goal |-> t.goal])
    <3>1. /\ process' = [process EXCEPT ![p] = [op |-> "failed", goal |-> t.goal]]
          /\ health' = IF p \in Instances THEN [health EXCEPT ![p] = "degraded"] ELSE health
      BY <2>2 DEF Schema!Ends, Schema!Readiness
    <3>2. p \in Instances => health'[p] = "degraded"
      BY <3>1 DEF SchemaInv
    <3>3. \E e : e.op # "migrate" /\ process' = [process EXCEPT ![p] = e]
      <4> DEFINE e == [op |-> "failed", goal |-> t.goal]
      <4>1. e.op # "migrate" /\ process' = [process EXCEPT ![p] = e]
        BY <3>1
      <4> QED BY <4>1
    <3> QED BY <1>4, <2>2, <3>1, <3>2, <3>3
  <2>3. ASSUME NEW memo, version = t.at, version' = to,
               process' = [process EXCEPT ![p] = Schema!Running(to, t.goal, memo)],
               lowered' = IF to < version THEN {i \in Instances : health[i] # "down"} ELSE lowered,
               health' = health
        PROVE  SchemaInv'
    <3>1. /\ to \in Schema!Numbers
          /\ version = Schema!Newest => to < version
          /\ p \in Instances => to > version
      BY <2>1, <2>3 DEF SchemaInv, MigrationStands, Schema!CommitsAt, Schema!Numbers, Schema!Newest
    <3>2. /\ process'[p].op = "migrate" /\ process'[p].at = to /\ process'[p].goal = t.goal
          /\ \A q \in Processes : q # p => process'[q] = process[q]
          /\ DOMAIN process' = Processes
      BY <2>3 DEF SchemaInv, Schema!Running
    <3>3. \A q \in Processes : process'[q].op = "migrate" => MigrationStands(q)'
      BY <2>1, <2>3, <3>1, <3>2 DEF SchemaInv, MigrationStands
    <3>4. ASSUME NEW q \in Instances \ lowered',
                 \/ process'[q].op = "migrate" /\ process'[q].at = Schema!Newest
                 \/ health'[q] = "ok"
          PROVE  version' = Schema!Newest
      <4>1. CASE q = p
        BY <2>1, <2>3, <3>2, <3>4, <4>1 DEF MigrationStands
      <4>2. CASE q # p
        <5>1. q \in Processes /\ health[q] # "down"
          BY <2>3, <3>2, <3>4, <4>2 DEF SchemaInv, MigrationStands
        <5>2. ~(to < version) /\ q \notin lowered
          BY <2>3, <3>4, <5>1
        <5>3. version = Schema!Newest
          BY <2>3, <3>2, <3>4, <4>2, <5>1, <5>2 DEF SchemaInv, Schema!ReadyIsCurrent
        <5> QED BY <3>1, <5>2, <5>3
      <4> QED BY <4>1, <4>2
    <3> QED BY <2>3, <3>1, <3>2, <3>3, <3>4 DEF SchemaInv, Schema!ReadyIsCurrent, Schema!Newest
  <2>4. \/ /\ UNCHANGED <<version, lowered>>
           /\ Schema!Ends(p, TRUE, [op |-> "failed", goal |-> t.goal])
        \/ \E memo :
              /\ version = t.at /\ version' = to
              /\ process' = [process EXCEPT ![p] = Schema!Running(to, t.goal, memo)]
              /\ lowered' = IF to < version THEN {i \in Instances : health[i] # "down"} ELSE lowered
              /\ health' = health
    BY <1>5 DEF Schema!Migrate, Schema!Commits
  <2> QED BY <2>2, <2>3, <2>4
<1>6. ASSUME NEW p \in Processes, Schema!Done(p) PROVE SchemaInv'
  <2>1. /\ process[p].op = "migrate" /\ process[p].at = process[p].goal /\ MigrationStands(p)
        /\ process' = [process EXCEPT ![p] = Schema!Idle]
        /\ health' = IF p \in Instances THEN [health EXCEPT ![p] = "ok"] ELSE health
        /\ UNCHANGED <<version, lowered>>
    BY <1>6 DEF Schema!Done, Schema!Ends, Schema!Readiness, SchemaInv
  <2>2. p \in Instances \ lowered => version = Schema!Newest
    BY <2>1 DEF SchemaInv, MigrationStands
  <2>3. Schema!Idle.op # "migrate"
    BY DEF Schema!Idle
  <2> QED BY <1>4, <2>1, <2>2, <2>3
<1>7. ASSUME NEW p \in Processes, Schema!Crash(p) PROVE SchemaInv'
  <2>1. /\ process' = [process EXCEPT ![p] = Schema!Idle]
        /\ health' = IF p \in Instances THEN [health EXCEPT ![p] = "down"] ELSE health
        /\ UNCHANGED <<version, lowered>>
    BY <1>7 DEF Schema!Crash
  <2>2. p \in Instances => health'[p] = "down"
    BY <2>1 DEF SchemaInv
  <2>3. Schema!Idle.op # "migrate"
    BY DEF Schema!Idle
  <2> QED BY <1>4, <2>1, <2>2, <2>3
<1>8. ASSUME NEW k \in RowKinds, Schema!Write(k) PROVE SchemaInv'
  BY <1>8 DEF Schema!Write, SchemaInv, MigrationStands, Schema!ReadyIsCurrent
<1> QED BY <1>1, <1>2, <1>3, <1>5, <1>6, <1>7, <1>8 DEF Schema!Next

\* In the house, while it is the part that runs.
LEMMA SchemaRuns ==
    /\ HouseInit /\ part = "schema" => Schema!Init
    /\ [HouseNext]_houseVars /\ part = "schema"
          => part' = "schema" /\ (Schema!Next \/ UNCHANGED schemaOwn)
<1>1. HouseInit /\ part = "schema" => Schema!Init
  BY DEF HouseInit
<1>2. ASSUME HouseNext, part = "schema" PROVE part' = "schema" /\ Schema!Next
  BY <1>2 DEF HouseNext
<1>3. ASSUME UNCHANGED houseVars, part = "schema"
      PROVE  part' = "schema" /\ UNCHANGED schemaOwn
  BY <1>3 DEF houseVars, schemaOwn
<1> QED BY <1>1, <1>2, <1>3

LEMMA SchemaHolds == HouseSpec => [](part = "schema" => SchemaInv)
<1>1. HouseInit => (part = "schema" => SchemaInv)
  BY SchemaRuns, SchemaInit
<1>2. (part = "schema" => SchemaInv) /\ [HouseNext]_houseVars => (part = "schema" => SchemaInv)'
  <2> SUFFICES ASSUME part = "schema" => SchemaInv, [HouseNext]_houseVars, part' = "schema"
               PROVE  SchemaInv'
    OBVIOUS
  <2>1. part = "schema"
    BY DEF HouseNext, houseVars
  <2> QED BY <2>1, SchemaRuns, SchemaNext
<1> QED BY <1>1, <1>2, PTL DEF HouseSpec

\* An instance that says it is ready has the schema its code was written for, however many
\* processes migrate beside one another, fail or are killed, unless somebody took the schema
\* down since it started (db/migrations.py: upgrade_to_head, health of main.py).
THEOREM ReadyMeansCurrent == HouseSpec => []ReadyIsCurrent
<1>1. (part = "schema" => SchemaInv) => ReadyIsCurrent
  BY DEF SchemaInv, ReadyIsCurrent
<1> QED BY <1>1, SchemaHolds, PTL

-----------------------------------------------------------------------------
(* What the schema is *)

\* The database has what one at its revision may have, and a run upwards has created no
\* types but those it may have; who never met another is where the database is.
DatabaseInv ==
    /\ version \in Schema!Numbers
    /\ schema.later \in Later[version + 1] /\ schema = Schema!Stored(version, schema.later)
    /\ rows \in Schema!Contents
RunsInv(p) ==
    process[p].op = "migrate" =>
        /\ process[p].at \in Schema!Numbers /\ process[p].goal \in Schema!Numbers
        /\ process[p].at < process[p].goal => process[p].memo \in Noted[process[p].at + 1]
        /\ process[p].at > process[p].goal => process[p].memo = {}
        /\ p \notin met =>
              /\ version = process[p].at
              /\ \A q \in Processes : process[q].op = "migrate" => q = p
AloneInv ==
    /\ DatabaseInv
    /\ DOMAIN process = Processes
    /\ \A p \in Processes : RunsInv(p)
    /\ Schema!AloneItReachesHead

\* What TLC checks of each revision, in the form the proofs cite.
LEMMA RevisionUp ==
    ASSUME NEW n \in Schema!Numbers, n < Schema!Newest, NEW gained \in Later[n + 1],
           NEW kinds \in Schema!Contents, NEW memo \in Noted[n + 1], NEW run,
           run = Schema!Execute(Schema!Open(Schema!Stored(n, gained), kinds, memo),
                                Schema!Statements(n, n + 1))
    PROVE  run.ok /\ run.memo \in Noted[n + 2] /\ Schema!ArrivesAt(n + 1, run)
BY LeadOnAssumption DEF Schema!LeadsOn

LEMMA RevisionDown ==
    ASSUME NEW n \in Schema!Numbers, n > 0, NEW gained \in Later[n + 1],
           NEW kinds \in Schema!Contents, NEW run, run.ok,
           run = Schema!Execute(Schema!Open(Schema!Stored(n, gained), kinds, {}),
                                Schema!Statements(n, n - 1))
    PROVE  run.memo = {} /\ Schema!ArrivesAt(n - 1, run)
BY LeadOnAssumption DEF Schema!LeadsOn

LEMMA SchemaCounts == \A S : Schema!Cardinality(S) = Cardinality(S)
BY DEF Schema!Cardinality, Schema!IsFiniteSet, Cardinality, IsFiniteSet

LEMMA AloneInit == Schema!Init => AloneInv
<1> SUFFICES ASSUME Schema!Init PROVE AloneInv
  OBVIOUS
<1>1. version \in Schema!Numbers
  BY RevisionsAssumption DEF Schema!Init, Schema!Numbers, Schema!Newest
<1>2. /\ Landmarks[version + 1] \in Schema!Schemas
      /\ Landmarks[version + 1].later \in Later[version + 1]
  BY <1>1, LeadOnAssumption DEF Schema!LeadsOn
<1>3. schema = Schema!Stored(version, schema.later)
  BY <1>2 DEF Schema!Init, Schema!Stored, Schema!Schemas
<1>4. rows \in Schema!Contents
  BY LeadOnAssumption, SchemaCounts, FS_EmptySet DEF Schema!Init, Schema!Contents
<1>5. /\ DOMAIN process = Processes
      /\ \A p \in Processes : process[p].op = "idle"
  BY DEF Schema!Init, Schema!Idle
<1> QED BY <1>1, <1>2, <1>3, <1>4, <1>5
        DEF Schema!Init, AloneInv, DatabaseInv, RunsInv, Schema!AloneItReachesHead

LEMMA AloneNext ==
    ASSUME AloneInv, Schema!Next \/ UNCHANGED schemaOwn
    PROVE  AloneInv'
<1>d. /\ version \in Schema!Numbers
      /\ schema.later \in Later[version + 1] /\ schema = Schema!Stored(version, schema.later)
      /\ rows \in Schema!Contents
  BY DEF AloneInv, DatabaseInv
<1>1. CASE UNCHANGED schemaOwn
  BY <1>1 DEF schemaOwn, AloneInv, DatabaseInv, RunsInv, Schema!AloneItReachesHead
\* It begins where the database is; those it meets are noted with it.
<1>2. ASSUME NEW p \in Processes, NEW goal \in Schema!Numbers, Schema!Begin(p, goal)
      PROVE  AloneInv'
  <2>1. /\ process' = [process EXCEPT ![p] = Schema!Running(version, goal, {})]
        /\ UNCHANGED <<version, schema, rows>>
        /\ met' = (met \ {p}) \cup
                  (IF Schema!Migrating # {} THEN Schema!Migrating \cup {p} ELSE {})
    BY <1>2 DEF Schema!Begin
  <2>2. /\ process'[p] = [op |-> "migrate", at |-> version, goal |-> goal, memo |-> {}]
        /\ \A q \in Processes : q # p => process'[q] = process[q]
        /\ DOMAIN process' = Processes
    BY <2>1 DEF AloneInv, Schema!Running
  <2>3. DatabaseInv'
    BY <1>d, <2>1 DEF DatabaseInv
  <2>4. ASSUME NEW q \in Processes, q \notin met', process'[q].op = "migrate"
        PROVE  q = p /\ Schema!Migrating = {}
    BY <2>1, <2>2, <2>4 DEF Schema!Migrating
  <2>5. RunsInv(p)'
    <3>1. {} \in Noted[version + 1]
      BY <1>d, LeadOnAssumption DEF Schema!LeadsOn
    <3>2. p \notin met' => \A q \in Processes : process'[q].op = "migrate" => q = p
      BY <2>2, <2>4 DEF Schema!Migrating
    <3> QED BY <1>d, <2>1, <2>2, <3>1, <3>2 DEF RunsInv
  <2>6. ASSUME NEW q \in Processes, q # p PROVE RunsInv(q)'
    BY <2>1, <2>2, <2>4, <2>6 DEF AloneInv, RunsInv
  <2>7. Schema!AloneItReachesHead'
    <3> SUFFICES ASSUME NEW q \in Processes,
                        process'[q].op = "failed", process'[q].goal = Schema!Newest
                 PROVE  q \in met'
      BY DEF Schema!AloneItReachesHead
    <3> QED BY <2>1, <2>2 DEF AloneInv, Schema!AloneItReachesHead
  <2> QED BY <2>2, <2>3, <2>5, <2>6, <2>7 DEF AloneInv
\* A process ends, fails or is killed: it leaves the database as it is.
<1>3. ASSUME NEW p \in Processes, NEW t, t.op # "migrate",
             process' = [process EXCEPT ![p] = t],
             UNCHANGED <<version, schema, rows>>,
             met' = met \/ (met' = met \ {p} /\ t.op # "failed"),
             t.op = "failed" /\ t.goal = Schema!Newest => p \in met
      PROVE  AloneInv'
  <2>1. /\ process'[p] = t /\ \A q \in Processes : q # p => process'[q] = process[q]
        /\ DOMAIN process' = Processes
    BY <1>3 DEF AloneInv
  <2>2. DatabaseInv'
    BY <1>d, <1>3 DEF DatabaseInv
  <2>3. ASSUME NEW q \in Processes PROVE RunsInv(q)'
    BY <1>3, <2>1 DEF AloneInv, RunsInv
  <2>4. Schema!AloneItReachesHead'
    <3> SUFFICES ASSUME NEW q \in Processes,
                        process'[q].op = "failed", process'[q].goal = Schema!Newest
                 PROVE  q \in met'
      BY DEF Schema!AloneItReachesHead
    <3> QED BY <1>3, <2>1 DEF AloneInv, Schema!AloneItReachesHead
  <2> QED BY <2>1, <2>2, <2>3, <2>4 DEF AloneInv
<1>4. ASSUME NEW p \in Processes, Schema!Migrate(p) PROVE AloneInv'
  <2> DEFINE t == process[p]
             to == Schema!CommitsAt(t.at, t.goal)
             begun == Schema!Open(schema, rows, t.memo)
             run == Schema!Execute(begun, Schema!Statements(t.at, to))
  <2>1. /\ t.op = "migrate" /\ t.at # t.goal /\ RunsInv(p)
        /\ t.at \in Schema!Numbers /\ t.goal \in Schema!Numbers
    BY <1>4 DEF Schema!Migrate, AloneInv, RunsInv
  <2>n. Schema!Newest \in Nat
    BY RevisionsAssumption DEF Schema!Newest
  \* What its transaction comes to, if the database is where it takes it to be.
  <2>2. ASSUME version = t.at, t.at < t.goal
        PROVE  run.ok /\ run.memo \in Noted[to + 1] /\ Schema!ArrivesAt(to, run)
    <3> DEFINE up == Schema!Execute(Schema!Open(Schema!Stored(t.at, schema.later), rows, t.memo),
                                    Schema!Statements(t.at, t.at + 1))
    <3>1. to = t.at + 1 /\ t.at < Schema!Newest /\ t.memo \in Noted[t.at + 1]
      BY <2>1, <2>2, <2>n DEF RunsInv, Schema!CommitsAt, Schema!Numbers
    <3>2. schema.later \in Later[t.at + 1] /\ rows \in Schema!Contents
      BY <1>d, <2>2
    <3>3. up.ok /\ up.memo \in Noted[t.at + 2] /\ Schema!ArrivesAt(t.at + 1, up)
      BY <2>1, <3>1, <3>2, RevisionUp
    <3>4. run = up
      BY <1>d, <2>2, <3>1
    <3>5. to + 1 = t.at + 2
      BY <2>1, <3>1 DEF Schema!Numbers
    <3> HIDE DEF run, up, to
    <3> QED BY <3>1, <3>3, <3>4, <3>5
  <2>3. ASSUME version = t.at, t.at > t.goal, run.ok
        PROVE  run.memo = {} /\ Schema!ArrivesAt(to, run)
    <3> DEFINE down == Schema!Execute(Schema!Open(Schema!Stored(t.at, schema.later), rows, {}),
                                      Schema!Statements(t.at, t.at - 1))
    <3>1. to = t.at - 1 /\ t.at > 0 /\ t.memo = {}
      BY <2>1, <2>3, <2>n DEF RunsInv, Schema!CommitsAt, Schema!Numbers
    <3>2. schema.later \in Later[t.at + 1] /\ rows \in Schema!Contents
      BY <1>d, <2>3
    <3>3. run = down
      BY <1>d, <2>3, <3>1
    <3>4. down.memo = {} /\ Schema!ArrivesAt(t.at - 1, down)
      <4> HIDE DEF run
      <4>1. down.ok
        BY <2>3, <3>3
      <4> QED BY <2>1, <3>1, <3>2, <4>1, RevisionDown
    <3> HIDE DEF run, down, to
    <3> QED BY <3>1, <3>3, <3>4
  <2>4. to \in Schema!Numbers /\ (t.at < t.goal => to <= t.goal) /\ (t.at > t.goal => to >= t.goal)
    BY <2>1, <2>n DEF Schema!CommitsAt, Schema!Numbers
  <2>5. \/ /\ run.ok /\ version = t.at
           /\ version' = to /\ schema' = run.db /\ rows' = run.rows
           /\ process' = [process EXCEPT ![p] = Schema!Running(to, t.goal, run.memo)]
        \/ /\ ~(run.ok /\ version = t.at)
           /\ process' = [process EXCEPT ![p] = [op |-> "failed", goal |-> t.goal]]
           /\ UNCHANGED <<version, schema, rows>>
    BY <1>4, Zenon DEF Schema!Migrate, Schema!Commits, Schema!Ends
  <2>6. met' = met
    BY <1>4 DEF Schema!Migrate
  <2> HIDE DEF run, to
  <2>7. CASE /\ run.ok /\ version = t.at
             /\ version' = to /\ schema' = run.db /\ rows' = run.rows
             /\ process' = [process EXCEPT ![p] = Schema!Running(to, t.goal, run.memo)]
    <3>1. /\ process'[p] = [op |-> "migrate", at |-> to, goal |-> t.goal, memo |-> run.memo]
          /\ \A q \in Processes : q # p => process'[q] = process[q]
          /\ DOMAIN process' = Processes
      BY <2>7 DEF AloneInv, Schema!Running
    <3>2. DatabaseInv'
      BY <2>1, <2>2, <2>3, <2>4, <2>7 DEF Schema!ArrivesAt, DatabaseInv, Schema!Numbers
    <3>3. RunsInv(p)'
      BY <2>1, <2>2, <2>3, <2>4, <2>6, <2>7, <3>1 DEF RunsInv, Schema!Numbers
    <3>4. ASSUME NEW q \in Processes, q # p PROVE RunsInv(q)'
      BY <2>1, <2>6, <3>1, <3>4 DEF AloneInv, RunsInv
    <3>5. Schema!AloneItReachesHead'
      BY <2>6, <3>1 DEF AloneInv, Schema!AloneItReachesHead
    <3> QED BY <3>1, <3>2, <3>3, <3>4, <3>5 DEF AloneInv
  <2>8. CASE /\ ~(run.ok /\ version = t.at)
             /\ process' = [process EXCEPT ![p] = [op |-> "failed", goal |-> t.goal]]
             /\ UNCHANGED <<version, schema, rows>>
    <3>1. t.goal = Schema!Newest => p \in met
      BY <2>1, <2>2, <2>8, <2>n DEF RunsInv, Schema!Numbers
    <3> DEFINE e == [op |-> "failed", goal |-> t.goal]
    <3>2. /\ e.op = "failed" /\ e.goal = t.goal
          /\ process' = [process EXCEPT ![p] = e]
      BY <2>8
    <3> HIDE DEF e
    <3>3. e.op # "migrate"
      BY <3>2
    <3> QED BY <1>3, <2>6, <2>8, <3>1, <3>2, <3>3
  <2> QED BY <2>5, <2>7, <2>8
<1>5. ASSUME NEW p \in Processes, Schema!Done(p) \/ Schema!Crash(p) PROVE AloneInv'
  <2>1. /\ process' = [process EXCEPT ![p] = Schema!Idle]
        /\ UNCHANGED <<version, schema, rows>>
        /\ met' = met \/ met' = met \ {p}
    BY <1>5 DEF Schema!Done, Schema!Crash, Schema!Ends
  <2>2. Schema!Idle.op = "idle"
    BY DEF Schema!Idle
  <2> QED BY <1>3, <2>1, <2>2
<1>6. ASSUME NEW k \in RowKinds, Schema!Write(k) PROVE AloneInv'
  <2>1. /\ rows' = rows \cup {k.rows} \/ rows' = rows \ {k.rows}
        /\ Schema!Cardinality(rows') <= MaxRows
        /\ UNCHANGED <<version, schema, process, met>>
    BY <1>6 DEF Schema!Write
  <2>2. rows' \in Schema!Contents
    BY <1>d, <2>1 DEF Schema!Contents
  <2> QED BY <1>d, <2>1, <2>2 DEF AloneInv, DatabaseInv, RunsInv, Schema!AloneItReachesHead
<1>7. /\ Schema!Newest \in Schema!Numbers /\ Goals \subseteq Schema!Numbers
      /\ Instances \subseteq Processes
  BY RevisionsAssumption DEF Schema!Newest, Schema!Numbers
<1>8. ASSUME NEW p \in Instances, Schema!Boot(p) PROVE AloneInv'
  BY <1>2, <1>7, <1>8 DEF Schema!Boot
<1>9. ASSUME NEW p \in Processes \ Instances, NEW goal \in Goals, Schema!ByHand(p, goal)
      PROVE  AloneInv'
  BY <1>2, <1>7, <1>9 DEF Schema!ByHand
<1> QED BY <1>1, <1>4, <1>5, <1>6, <1>8, <1>9 DEF Schema!Next

LEMMA AloneHolds == HouseSpec => [](part = "schema" => AloneInv)
<1>1. HouseInit => (part = "schema" => AloneInv)
  BY SchemaRuns, AloneInit
<1>2. (part = "schema" => AloneInv) /\ [HouseNext]_houseVars => (part = "schema" => AloneInv)'
  <2> SUFFICES ASSUME part = "schema" => AloneInv, [HouseNext]_houseVars, part' = "schema"
               PROVE  AloneInv'
    OBVIOUS
  <2>1. part = "schema"
    BY DEF HouseNext, houseVars
  <2> QED BY <2>1, SchemaRuns, AloneNext
<1> QED BY <1>1, <1>2, PTL DEF HouseSpec

\* Whatever processes migrate beside one another, fail or are killed, and however often the
\* database is taken up and down by hand: what is committed is what a database built from
\* nothing has at the revision it says it is at, the values PostgreSQL cannot take out of a
\* type apart (alembic/env.py: one transaction for each revision, with its number).
THEOREM SchemaStaysItsRevision == HouseSpec => []SchemaIsItsRevision
<1>1. ASSUME AloneInv PROVE Schema!SchemaIsItsRevision
  <2>1. /\ version \in Schema!Numbers
        /\ schema.later \in Later[version + 1] /\ schema = Schema!Stored(version, schema.later)
        /\ rows \subseteq {k.rows : k \in RowKinds}
    BY <1>1 DEF AloneInv, DatabaseInv, Schema!Contents
  <2>2. /\ Schema!Stored(version, schema.later) \in Schema!Schemas
        /\ Landmarks[version + 1] \in Schema!Schemas
        /\ Landmarks[version + 1].later \subseteq schema.later
    BY <2>1, LeadOnAssumption DEF Schema!LeadsOn
  <2>3. [schema EXCEPT !.later = {}] = [Landmarks[version + 1] EXCEPT !.later = {}]
    BY <2>1, <2>2 DEF Schema!Stored, Schema!Schemas
  <2> QED BY <2>1, <2>2, <2>3 DEF Schema!SchemaIsItsRevision
<1>2. (part = "schema" => AloneInv) => SchemaIsItsRevision
  BY <1>1 DEF SchemaIsItsRevision
<1> QED BY <1>2, AloneHolds, PTL

\* From any revision, after any crash or downgrade and with whatever rows there are, a
\* process that has the database to itself does not fail on its way to the newest revision
\* (db/migrations.py: upgrade_to_head); only two at once make one of them fail.
THEOREM AloneReachesHead == HouseSpec => []AloneItReachesHead
<1>1. (part = "schema" => AloneInv) => AloneItReachesHead
  BY DEF AloneInv, AloneItReachesHead
<1> QED BY <1>1, AloneHolds, PTL

-----------------------------------------------------------------------------
(* Types of the house *)

\* A handler of a report, an answer or a change of status holds nothing else.
LEMMA ModerationTypes ==
    /\ Moderation!Init => Moderation!TypeOK
    /\ ModerationInv /\ Moderation!TypeOK /\ ModerationInv'
          /\ [Moderation!Next]_(Moderation!moderationVars) => Moderation!TypeOK'
<1>i. Moderation!Idle \in Moderation!Work
  BY DEF Moderation!Work
<1>1. Moderation!Init => Moderation!TypeOK
  BY <1>i DEF Moderation!Init, Moderation!TypeOK
<1>2. ASSUME ModerationInv, Moderation!TypeOK, ModerationInv',
             [Moderation!Next]_(Moderation!moderationVars)
      PROVE  Moderation!TypeOK'
  <2> USE <1>2
  <2>p. /\ report' \in [Reports -> Report \cup {NoRow}]
        /\ project' \in Moderation!ProjectRow' /\ opening' \in Moderation!OpeningRow'
    BY DEF ModerationInv, ModerationShape, Moderation!ReportRow
  <2>t. /\ work \in [Workers -> Moderation!Work]
        /\ message \in {"shown", "hidden"} /\ fell \subseteq Moderation!Targets
        /\ answers \subseteq [report : Reports, status : Moderation!Verdicts, hidden : BOOLEAN]
    BY DEF Moderation!TypeOK
  <2>s. ASSUME UNCHANGED <<users, profiled, discoverable, publication>>,
               work' \in [Workers -> Moderation!Work],
               message' \in {"shown", "hidden"}, fell' \subseteq Moderation!Targets,
               answers' \subseteq [report : Reports, status : Moderation!Verdicts,
                                   hidden : BOOLEAN]
        PROVE  Moderation!TypeOK'
    BY <2>s, <2>p DEF Report, Moderation!TypeOK, Moderation!VisibilityTypeOK,
       Moderation!UsersTypeOK, Moderation!UserRow, Moderation!ReportRow, Moderation!Targets,
       Moderation!Verdicts, Moderation!Work, Moderation!Statuses, Moderation!ProjectRow,
       Moderation!OpeningRow
  <2>1. ASSUME NEW w \in Workers, NEW p \in Reporters, NEW x \in Moderation!Targets,
               Moderation!ReportLoad(w, p, x)
        PROVE  Moderation!TypeOK'
    <3> DEFINE t == [op |-> "report", by |-> p, of |-> x]
    <3>1. t \in Moderation!Work
      BY PeopleAssumption DEF Moderation!Work
    <3>2. /\ work' = [work EXCEPT ![w] = t]
          /\ UNCHANGED <<Moderation!visibilityVars, message, answers, fell>>
      BY <2>1 DEF Moderation!ReportLoad, Moderation!Begin
    <3> HIDE DEF t
    <3> QED BY <2>s, <2>t, <3>1, <3>2 DEF Moderation!visibilityVars
  <2>2. ASSUME NEW w \in Workers, NEW r \in Reports, Moderation!ReportCommit(w, r)
        PROVE  Moderation!TypeOK'
    BY <2>2, <2>s, <2>t, <1>i DEF Moderation!ReportCommit, Moderation!End,
       Moderation!visibilityVars
  <2>3. ASSUME NEW w \in Workers, NEW m \in Moderators, NEW r \in Reports,
               NEW verdict \in Moderation!Verdicts, NEW hide \in BOOLEAN,
               Moderation!ResolveLoad(w, m, r, verdict, hide)
        PROVE  Moderation!TypeOK'
    <3>1. PICK hides \in BOOLEAN : hides = (hide /\ Moderation!MayHide(report[r].target))
      OBVIOUS
    <3> DEFINE t == [op |-> "resolve", on |-> r, of |-> report[r].target,
                     verdict |-> verdict, hides |-> hides]
    <3>2. report[r] # NoRow
      BY <2>3 DEF Moderation!ResolveLoad, Moderation!StillOpen, Moderation!Open
    <3>3. report[r].target \in Moderation!Targets
      BY <3>2 DEF Moderation!TypeOK, Moderation!ReportRow
    <3>4. t \in Moderation!Work
      BY <3>3 DEF Moderation!Work
    <3>5. /\ Moderation!Begin(w, t)
          /\ UNCHANGED <<Moderation!visibilityVars, message, answers, fell>>
      BY Zenon, <2>3, <3>1 DEF Moderation!ResolveLoad
    <3> HIDE DEF t
    <3> QED BY <2>s, <2>t, <3>4, <3>5 DEF Moderation!Begin, Moderation!visibilityVars
  <2>4. ASSUME NEW w \in Workers, Moderation!ResolveCommit(w) PROVE Moderation!TypeOK'
    <3> DEFINE a == [report |-> work[w].on, status |-> work[w].verdict, hidden |-> work[w].hides]
    <3>1. work[w].op = "resolve" /\ work[w] \in Moderation!Work
      BY <2>4, <2>t DEF Moderation!ResolveCommit
    <3>2. /\ work[w].of \in Moderation!Targets
          /\ a \in [report : Reports, status : Moderation!Verdicts, hidden : BOOLEAN]
      BY <3>1 DEF Moderation!Work, Moderation!Idle
    <3>3. /\ answers' = answers \cup {a} /\ fell' \subseteq fell \cup {work[w].of}
          /\ message' \in {message, "hidden"} /\ work' = [work EXCEPT ![w] = Moderation!Idle]
          /\ UNCHANGED <<users, profiled, discoverable, publication>>
      BY <2>4 DEF Moderation!ResolveCommit, Moderation!End
    <3> HIDE DEF a
    <3> QED BY <2>s, <2>t, <1>i, <3>2, <3>3
  <2>5. ASSUME NEW w \in Workers, NEW x \in {"project", "opening"}, NEW s \in Moderation!Statuses,
               Moderation!TurnLoad(w, x, s)
        PROVE  Moderation!TypeOK'
    <3> DEFINE t == [op |-> "turn", of |-> x, to |-> s]
    <3>1. t \in Moderation!Work
      BY DEF Moderation!Work
    <3>2. /\ work' = [work EXCEPT ![w] = t]
          /\ UNCHANGED <<Moderation!visibilityVars, message, answers, fell>>
      BY <2>5 DEF Moderation!TurnLoad, Moderation!Begin
    <3> HIDE DEF t
    <3> QED BY <2>s, <2>t, <3>1, <3>2 DEF Moderation!visibilityVars
  <2>6. ASSUME NEW w \in Workers, Moderation!TurnCommit(w) PROVE Moderation!TypeOK'
    BY <2>6, <2>s, <2>t, <1>i DEF Moderation!TurnCommit, Moderation!End
  <2>7. CASE UNCHANGED Moderation!moderationVars
    BY <2>7, <2>s, <2>t DEF Moderation!moderationVars, Moderation!visibilityVars
  <2> QED BY <2>1, <2>2, <2>3, <2>4, <2>5, <2>6, <2>7 DEF Moderation!Next
<1> QED BY <1>1, <1>2

\* What is booked, who was moved, and what each handler was asked for.
CustodyRest ==
    /\ booking \in [Bookings -> Custody!BookingRow \cup {NoRow}]
    /\ moved \subseteq Staff
    /\ work \in [Workers -> Custody!Work]

LEMMA CustodyTypes ==
    /\ Custody!Init => CustodyRest
    /\ CustodyInv /\ CustodyRest => Custody!TypeOK
    /\ CustodyInv /\ CustodyRest /\ [Custody!Next]_(Custody!custodyVars) => CustodyRest'
<1>i. Custody!Idle \in Custody!Work
  BY DEF Custody!Work
<1>1. Custody!Init => CustodyRest
  BY <1>i DEF Custody!Init, CustodyRest
<1>2. CustodyInv /\ CustodyRest => Custody!TypeOK
  BY DEF CustodyInv, CustodyShape, CustodyRest, Custody!TypeOK, Custody!UsersTypeOK
<1>3. ASSUME CustodyInv, CustodyRest, [Custody!Next]_(Custody!custodyVars) PROVE CustodyRest'
  <2> USE <1>3
  <2>b. booking \in [Bookings -> Custody!BookingRow \cup {NoRow}]
    BY DEF CustodyRest
  <2>m. moved \subseteq Staff
    BY DEF CustodyRest
  <2>w. work \in [Workers -> Custody!Work]
    BY DEF CustodyRest
  <2>s. ASSUME booking' \in [Bookings -> Custody!BookingRow \cup {NoRow}], moved' \subseteq Staff,
               work' \in [Workers -> Custody!Work]
        PROVE  CustodyRest'
    BY <2>s DEF CustodyRest, Custody!BookingRow, Custody!Work, Custody!Audiences
  <2>t. ASSUME NEW w \in Workers, NEW t \in Custody!Work, Custody!Begin(w, t) PROVE CustodyRest'
    BY <2>t, <2>s, <2>b, <2>m, <2>w DEF Custody!Begin
  <2>1. ASSUME NEW w \in Workers, NEW p \in Managers, NEW f \in Facilities,
               \/ \E k \in Staff \cup {NoRow} : Custody!AssignLoad(w, p, f, k)
               \/ Custody!CloseLoad(w, p, f)
               \/ \E for \in Custody!Audiences : Custody!InstallLoad(w, p, f, for)
        PROVE  CustodyRest'
    <3>1. ASSUME NEW k \in Staff \cup {NoRow}, Custody!AssignLoad(w, p, f, k) PROVE CustodyRest'
      <4>1. [op |-> "assign", at |-> f, to |-> k] \in Custody!Work
        BY DEF Custody!Work
      <4> QED BY <2>t, <3>1, <4>1 DEF Custody!AssignLoad
    <3>2. CASE Custody!CloseLoad(w, p, f)
      <4>1. [op |-> "close", at |-> f] \in Custody!Work
        BY DEF Custody!Work
      <4> QED BY <2>t, <3>2, <4>1 DEF Custody!CloseLoad
    <3>3. ASSUME NEW for \in Custody!Audiences, Custody!InstallLoad(w, p, f, for)
          PROVE  CustodyRest'
      <4>1. [op |-> "install", at |-> f, for |-> for] \in Custody!Work
        BY DEF Custody!Work
      <4> QED BY <2>t, <3>3, <4>1 DEF Custody!InstallLoad
    <3> QED BY <2>1, <3>1, <3>2, <3>3
  <2>2. ASSUME NEW w \in Workers, NEW p \in Managers, NEW e \in Equipment,
               NEW for \in Custody!Audiences, Custody!AdaptLoad(w, p, e, for)
        PROVE  CustodyRest'
    <3>1. [op |-> "adapt", at |-> e, for |-> for] \in Custody!Work
      BY DEF Custody!Work
    <3> QED BY <2>t, <2>2, <3>1 DEF Custody!AdaptLoad
  <2>3. ASSUME NEW w \in Workers, NEW p \in Bookers, NEW e \in Equipment,
               Custody!BookLoad(w, p, e)
        PROVE  CustodyRest'
    <3>1. [op |-> "book", at |-> e, by |-> p] \in Custody!Work
      BY SubsetsAssumption DEF Custody!Work
    <3> QED BY <2>t, <2>3, <3>1 DEF Custody!BookLoad
  <2>4. ASSUME NEW w \in Workers, NEW b \in Bookings, Custody!BookCommit(w, b)
        PROVE  CustodyRest'
    <3> DEFINE row == [of |-> work[w].at, by |-> work[w].by, pending |-> TRUE]
    <3>1. row \in Custody!BookingRow
      BY <2>4, <2>w DEF Custody!BookCommit, Custody!Work, Custody!Idle, Custody!BookingRow
    <3>2. /\ booking' = booking \/ booking' = [booking EXCEPT ![b] = row]
          /\ work' = [work EXCEPT ![w] = Custody!Idle] /\ moved' = moved
      BY <2>4 DEF Custody!BookCommit, Custody!End
    <3>3. booking' \in [Bookings -> Custody!BookingRow \cup {NoRow}]
      <4> HIDE DEF row
      <4> QED BY <3>1, <3>2, <2>b
    <3> QED BY <2>s, <2>m, <2>w, <1>i, <3>2, <3>3
  <2>5. ASSUME NEW w \in Workers,
               \/ \E e \in Equipment : Custody!InstallCommit(w, e)
               \/ Custody!AssignCommit(w) \/ Custody!AdaptCommit(w)
        PROVE  CustodyRest'
    <3>1. work' = [work EXCEPT ![w] = Custody!Idle] /\ UNCHANGED <<booking, moved>>
      BY <2>5 DEF Custody!InstallCommit, Custody!AssignCommit, Custody!AdaptCommit, Custody!End
    <3> QED BY <2>s, <2>b, <2>m, <2>w, <1>i, <3>1
  <2>6. ASSUME NEW w \in Workers, Custody!CloseCommit(w) PROVE CustodyRest'
    <3>1. work' = [work EXCEPT ![w] = Custody!Idle] /\ moved' = moved
      BY <2>6 DEF Custody!CloseCommit, Custody!End
    <3>2. booking' \in [Bookings -> Custody!BookingRow \cup {NoRow}]
      BY <2>6, <2>b DEF Custody!CloseCommit
    <3> QED BY <2>s, <2>m, <2>w, <1>i, <3>1, <3>2
  <2>7. ASSUME NEW p \in Managers, NEW f \in Facilities, NEW d \in Departments \cup {NoRow},
               Custody!CreateFacility(p, f, d)
        PROVE  CustodyRest'
    BY <2>7, <2>s, <2>b, <2>m, <2>w DEF Custody!CreateFacility
  <2>8. ASSUME NEW p \in Managers, NEW e \in Equipment, Custody!DeleteEquipment(p, e)
        PROVE  CustodyRest'
    <3>1. booking' \in [Bookings -> Custody!BookingRow \cup {NoRow}]
      BY <2>8, <2>b DEF Custody!DeleteEquipment
    <3> QED BY <2>8, <2>s, <2>m, <2>w, <3>1 DEF Custody!DeleteEquipment
  <2>9. ASSUME NEW p \in Staff, NEW b \in Bookings, Custody!Decide(p, b) PROVE CustodyRest'
    <3>1. booking[b] \in Custody!BookingRow
      BY <2>9, <2>b DEF Custody!Decide, Custody!Waiting
    <3>2. [booking[b] EXCEPT !.pending = FALSE] \in Custody!BookingRow
      BY <3>1 DEF Custody!BookingRow
    <3>3. booking' \in [Bookings -> Custody!BookingRow \cup {NoRow}]
      BY <2>9, <2>b, <3>2 DEF Custody!Decide
    <3> QED BY <2>9, <2>s, <2>m, <2>w, <3>3 DEF Custody!Decide
  <2>10. ASSUME NEW p \in Movers,
                \/ \E role \in {"facility_custodian", "faculty"}, d \in Departments :
                      Custody!Move(p, role, d)
                \/ Custody!Leave(p)
         PROVE  CustodyRest'
    <3>1. booking' \in [Bookings -> Custody!BookingRow \cup {NoRow}]
      <4>1. CASE Custody!Leave(p)
        BY <4>1, <2>b DEF Custody!Leave
      <4>2. CASE \E role \in {"facility_custodian", "faculty"}, d \in Departments :
                    Custody!Move(p, role, d)
        BY <4>2, <2>b DEF Custody!Move
      <4> QED BY <2>10, <4>1, <4>2
    <3>2. moved' \subseteq moved \cup {p} /\ work' = work
      BY <2>10 DEF Custody!Move, Custody!Leave
    <3> QED BY <2>s, <2>m, <2>w, <3>1, <3>2, SubsetsAssumption
  <2>11. CASE UNCHANGED Custody!custodyVars
    BY <2>11, <2>s, <2>b, <2>m, <2>w DEF Custody!custodyVars
  <2> QED BY <2>1, <2>2, <2>3, <2>4, <2>5, <2>6, <2>7, <2>8, <2>9, <2>10, <2>11
          DEF Custody!Next
<1> QED BY <1>1, <1>2, <1>3

\* The words, what they stand for, the tags, and what each handler was asked for.
VocabularyRest ==
    /\ skills \subseteq Spellings
    /\ alias \in [Spellings -> Vocabulary!Targets \cup {NoRow}]
    /\ call \in [Calls -> (SUBSET Areas) \cup {NoRow}]
    /\ work \in [Workers -> Vocabulary!Work]

LEMMA VocabularyTypes ==
    /\ Vocabulary!Init => VocabularyRest
    /\ VocabularyInv /\ VocabularyRest => Vocabulary!TypeOK
    /\ VocabularyInv /\ VocabularyRest /\ [Vocabulary!Next]_(Vocabulary!vocabularyVars)
          => VocabularyRest'
<1>i. Vocabulary!Idle \in Vocabulary!Work
  BY DEF Vocabulary!Work
<1>k. \A tags \in Vocabulary!Tags : tags \subseteq Areas
  BY DEF Vocabulary!Tags
<1>1. Vocabulary!Init => VocabularyRest
  BY <1>i DEF Vocabulary!Init, VocabularyRest
<1>2. VocabularyInv /\ VocabularyRest => Vocabulary!TypeOK
  BY DEF VocabularyInv, Tree, ReviewsStand, VocabularyRest, Vocabulary!TypeOK
<1>3. ASSUME VocabularyInv, VocabularyRest, [Vocabulary!Next]_(Vocabulary!vocabularyVars)
      PROVE  VocabularyRest'
  <2> USE <1>3
  <2>k. skills \subseteq Spellings
    BY DEF VocabularyRest
  <2>a. alias \in [Spellings -> Vocabulary!Targets \cup {NoRow}]
    BY DEF VocabularyRest
  <2>c. call \in [Calls -> (SUBSET Areas) \cup {NoRow}]
    BY DEF VocabularyRest
  <2>w. work \in [Workers -> Vocabulary!Work]
    BY DEF VocabularyRest
  <2>s. ASSUME skills' \subseteq Spellings,
               alias' \in [Spellings -> Vocabulary!Targets \cup {NoRow}],
               call' \in [Calls -> (SUBSET Areas) \cup {NoRow}],
               work' \in [Workers -> Vocabulary!Work]
        PROVE  VocabularyRest'
    BY <2>s DEF VocabularyRest, Vocabulary!Targets, Vocabulary!Work, Vocabulary!Tags
  <2>1. ASSUME NEW x \in Spellings,
               \/ Vocabulary!CreateSkill(x)
               \/ \E a \in Areas, parent \in Areas \cup {NoRow} :
                     Vocabulary!CreateResearchArea(a, x, parent)
               \/ \E target \in Vocabulary!Targets : Vocabulary!CreateTagAlias(x, target)
               \/ \E s \in Suggestions, kind \in Vocabulary!Kinds : Vocabulary!Suggest(s, x, kind)
        PROVE  VocabularyRest'
    <3>1. skills' \subseteq skills \cup {x} /\ call' = call /\ work' = work
      BY <2>1 DEF Vocabulary!CreateSkill, Vocabulary!CreateResearchArea,
         Vocabulary!CreateTagAlias, Vocabulary!Suggest
    <3>2. alias' = alias \/ \E target \in Vocabulary!Targets : alias' = [alias EXCEPT ![x] = target]
      BY <2>1 DEF Vocabulary!CreateSkill, Vocabulary!CreateResearchArea,
         Vocabulary!CreateTagAlias, Vocabulary!Suggest
    <3>3. alias' \in [Spellings -> Vocabulary!Targets \cup {NoRow}]
      BY <2>a, <3>2
    <3> QED BY <2>s, <2>k, <2>c, <2>w, <3>1, <3>3
  <2>2. ASSUME NEW w \in Workers, NEW s \in Suggestions, NEW verdict \in {"approved", "rejected"},
               Vocabulary!ReviewLoad(w, s, verdict)
        PROVE  VocabularyRest'
    <3> DEFINE t == [op |-> "review", on |-> s, verdict |-> verdict]
    <3>1. t \in Vocabulary!Work
      BY DEF Vocabulary!Work
    <3>2. work' = [work EXCEPT ![w] = t] /\ UNCHANGED <<skills, alias, call>>
      BY <2>2 DEF Vocabulary!ReviewLoad, Vocabulary!Begin
    <3> HIDE DEF t
    <3> QED BY <2>s, <2>k, <2>a, <2>c, <2>w, <3>1, <3>2
  <2>3. ASSUME NEW w \in Workers, Vocabulary!ReviewCommit(w) PROVE VocabularyRest'
    <3>1. work[w].on \in Suggestions /\ suggestion[work[w].on] \in Vocabulary!SuggestionRow
      BY <2>3 DEF Vocabulary!ReviewCommit, VocabularyInv, WordInHand, ReviewsStand
    <3>2. suggestion[work[w].on].name \in Spellings
      BY <3>1 DEF Vocabulary!SuggestionRow
    <3>3. /\ skills' \subseteq skills \cup {suggestion[work[w].on].name}
          /\ work' = [work EXCEPT ![w] = Vocabulary!Idle] /\ UNCHANGED <<alias, call>>
      BY <2>3 DEF Vocabulary!ReviewCommit, Vocabulary!Reject, Vocabulary!ApproveSkill,
         Vocabulary!ApproveArea, Vocabulary!End
    <3> QED BY <2>s, <2>k, <2>a, <2>c, <2>w, <1>i, <3>2, <3>3
  <2>4. ASSUME NEW w \in Workers, NEW c \in Calls, NEW tags \in Vocabulary!Tags,
               Vocabulary!UpdateLoad(w, c, tags)
        PROVE  VocabularyRest'
    <3> DEFINE t == [op |-> "edit", on |-> c, gone |-> Vocabulary!Cleared(c), new |-> tags]
    <3>1. Vocabulary!Cleared(c) \in SUBSET Areas
      BY <2>4, <2>c DEF Vocabulary!UpdateLoad, Vocabulary!Cleared
    <3>2. t \in Vocabulary!Work
      BY <3>1 DEF Vocabulary!Work
    <3>3. work' = [work EXCEPT ![w] = t] /\ UNCHANGED <<skills, alias, call>>
      BY <2>4 DEF Vocabulary!UpdateLoad, Vocabulary!Begin
    <3> HIDE DEF t
    <3> QED BY <2>s, <2>k, <2>a, <2>c, <2>w, <3>2, <3>3
  <2>5. ASSUME NEW w \in Workers, Vocabulary!UpdateCommit(w) PROVE VocabularyRest'
    <3>1. work[w].new \in Vocabulary!Tags
      BY <2>5, <2>w DEF Vocabulary!UpdateCommit, Vocabulary!Work, Vocabulary!Idle
    <3>2. call' \in [Calls -> (SUBSET Areas) \cup {NoRow}]
      BY <2>5, <2>c, <3>1, <1>k DEF Vocabulary!UpdateCommit
    <3>3. work' = [work EXCEPT ![w] = Vocabulary!Idle] /\ UNCHANGED <<skills, alias>>
      BY <2>5 DEF Vocabulary!UpdateCommit, Vocabulary!End
    <3> QED BY <2>s, <2>k, <2>a, <2>w, <1>i, <3>2, <3>3
  <2>6. ASSUME NEW c \in Calls,
               \/ \E tags \in Vocabulary!Tags : Vocabulary!CreateFunding(c, tags)
               \/ Vocabulary!DeleteFunding(c)
        PROVE  VocabularyRest'
    <3>1. call' \in [Calls -> (SUBSET Areas) \cup {NoRow}]
      BY <2>6, <2>c, <1>k DEF Vocabulary!CreateFunding, Vocabulary!DeleteFunding
    <3>2. UNCHANGED <<skills, alias, work>>
      BY <2>6 DEF Vocabulary!CreateFunding, Vocabulary!DeleteFunding
    <3> QED BY <2>s, <2>k, <2>a, <2>w, <3>1, <3>2
  <2>7. CASE UNCHANGED Vocabulary!vocabularyVars
    BY <2>7, <2>s, <2>k, <2>a, <2>c, <2>w DEF Vocabulary!vocabularyVars
  <2> QED BY <2>1, <2>2, <2>3, <2>4, <2>5, <2>6, <2>7 DEF Vocabulary!Next
<1> QED BY <1>1, <1>2, <1>3

\* Who may see what is typed, whatever others do to it.
LEMMA VisibilityTypes ==
    ASSUME Discovery!VisibilityTypeOK,
           \/ Discovery!ProjectChanges \/ Discovery!OpeningChanges \/ Discovery!PeopleChange
           \/ UNCHANGED Discovery!visibilityVars
    PROVE  Discovery!VisibilityTypeOK'
<1> USE DEF Discovery!VisibilityTypeOK
<1>r. /\ project \in Discovery!ProjectRow /\ opening \in Discovery!OpeningRow
      /\ users \in [People -> Discovery!UserRow \cup {NoRow}]
      /\ profiled \subseteq People /\ discoverable \subseteq People /\ publication \in BOOLEAN
  BY DEF Discovery!UsersTypeOK
<1>s. ASSUME users' \in [People -> Discovery!UserRow \cup {NoRow}],
             profiled' \subseteq People, discoverable' \subseteq People,
             project' \in Discovery!ProjectRow, opening' \in Discovery!OpeningRow,
             publication' \in BOOLEAN
      PROVE  Discovery!VisibilityTypeOK'
  BY <1>s DEF Discovery!UsersTypeOK, Discovery!ProjectRow, Discovery!OpeningRow,
     Discovery!UserRow
<1>1. CASE Discovery!ProjectChanges
  <2>1. \/ \E s \in Discovery!ProjectStatus : project' = [project EXCEPT !.status = s]
        \/ project' = [project EXCEPT !.deleted = TRUE]
        \/ \E m \in SUBSET People : project' = [project EXCEPT !.members = m]
    <3>1. ASSUME NEW p \in People,
                 project' = [project EXCEPT !.members = IF p \in @ THEN @ \ {p} ELSE @ \cup {p}]
          PROVE  \E m \in SUBSET People : project' = [project EXCEPT !.members = m]
      <4>1. project.members \in SUBSET People
        BY <1>r DEF Discovery!ProjectRow
      <4> QED BY <3>1, <4>1
    <3> QED BY <1>1, <3>1 DEF Discovery!ProjectChanges
  <2>2. project' \in Discovery!ProjectRow
    BY <1>r, <2>1 DEF Discovery!ProjectRow
  <2>3. UNCHANGED <<users, profiled, discoverable, opening, publication>>
    BY <1>1 DEF Discovery!ProjectChanges
  <2> QED BY <1>r, <1>s, <2>2, <2>3
<1>2. CASE Discovery!OpeningChanges
  <2>1. \/ \E s \in Discovery!OpeningStatus : opening' = [opening EXCEPT !.status = s]
        \/ opening' = [opening EXCEPT !.status = "filled", !.full = TRUE]
        \/ opening' = [opening EXCEPT !.full = ~@] \/ opening' = [opening EXCEPT !.past = TRUE]
    BY <1>2 DEF Discovery!OpeningChanges, Discovery!OpeningStatus
  <2>2. opening' \in Discovery!OpeningRow
    BY <1>r, <2>1 DEF Discovery!OpeningRow, Discovery!OpeningStatus
  <2>3. UNCHANGED <<users, profiled, discoverable, project, publication>>
    BY <1>2 DEF Discovery!OpeningChanges
  <2> QED BY <1>r, <1>s, <2>2, <2>3
<1>3. CASE Discovery!PeopleChange
  <2>1. publication' \in BOOLEAN /\ discoverable' \subseteq People
    BY <1>3, <1>r DEF Discovery!PeopleChange
  <2>2. users' = users \/ \E p \in People : /\ Discovery!Exists(p)
                                            /\ users' = [users EXCEPT ![p].active = ~@]
    BY <1>3 DEF Discovery!PeopleChange
  <2>3. users' \in [People -> Discovery!UserRow \cup {NoRow}]
    <3>1. ASSUME NEW p \in People, Discovery!Exists(p), users' = [users EXCEPT ![p].active = ~@]
          PROVE  users' \in [People -> Discovery!UserRow \cup {NoRow}]
      <4>1. users[p] \in Discovery!UserRow
        BY <1>r, <3>1 DEF Discovery!Exists
      <4>2. [users[p] EXCEPT !.active = ~@] \in Discovery!UserRow
        BY <4>1 DEF Discovery!UserRow
      <4> QED BY <1>r, <3>1, <4>2
    <3> QED BY <1>r, <2>2, <3>1
  <2>4. UNCHANGED <<profiled, project, opening>>
    BY <1>3 DEF Discovery!PeopleChange
  <2> QED BY <1>r, <1>s, <2>1, <2>3, <2>4
<1>4. CASE UNCHANGED Discovery!visibilityVars
  BY <1>4, <1>r, <1>s DEF Discovery!visibilityVars
<1> QED BY <1>1, <1>2, <1>3, <1>4

\* What may be found, and what is recommended or shown of it, are things and people.
LEMMA FoundAreItems ==
    /\ \A p : Discovery!Findable(p) \in SUBSET Discovery!Items
    /\ \A p, target : target \in Discovery!Targets =>
          Discovery!Candidates(p, target) \in SUBSET Discovery!Items
    /\ \A ids : Discovery!Cards(ids) \in SUBSET Discovery!Items
    /\ \A target, ids : Discovery!RecommendedCards(target, ids) \in SUBSET Discovery!Items
    /\ \A p, ids : Discovery!VisibleSemanticIds(p, ids) \in SUBSET Discovery!Items
    /\ \A p, ids : Discovery!Entries(p, ids) \in SUBSET Discovery!Items
<1>1. \A p : Discovery!Findable(p) \in SUBSET Discovery!Items
  BY DEF Discovery!Findable, Discovery!ListResearchers, Discovery!ListProjects,
     Discovery!ListPublications, Discovery!ListOpportunities, Discovery!Items, Discovery!Things
<1>2. \A p, target : target \in Discovery!Targets =>
         Discovery!Candidates(p, target) \in SUBSET Discovery!Items
  BY DEF Discovery!Candidates, Discovery!ResearcherCandidates, Discovery!CollaboratorCandidates,
     Discovery!ProjectCandidates, Discovery!OpportunityCandidates, Discovery!Targets,
     Discovery!Items, Discovery!Things
<1>3. \A ids : Discovery!Cards(ids) \in SUBSET Discovery!Items
  BY DEF Discovery!Cards, Discovery!Items
<1>4. \A target, ids : Discovery!RecommendedCards(target, ids) \in SUBSET Discovery!Items
  BY <1>3 DEF Discovery!RecommendedCards, Discovery!Items
<1>5. /\ \A p, ids : Discovery!VisibleSemanticIds(p, ids) \in SUBSET Discovery!Items
      /\ \A p, ids : Discovery!Entries(p, ids) \in SUBSET Discovery!Items
  BY <1>1 DEF Discovery!VisibleSemanticIds, Discovery!Entries
<1> QED BY <1>1, <1>2, <1>3, <1>4, <1>5

\* The bookmarks, the answer and the handlers, and what stands between the two people.
SearchesTyped ==
    /\ saved \in [People -> SUBSET Discovery!Items]
    /\ shown \in [items : SUBSET Discovery!Items, fair : SUBSET Discovery!Items] \cup {NoRow}
    /\ work \in [Clerks -> Discovery!Work]
TiesTyped ==
    /\ pairing \in {"none", "requested", "active", "ended"}
    /\ coauthors \in BOOLEAN
    /\ applied \subseteq People

LEMMA TiesTypes ==
    ASSUME TiesTyped, Discovery!Change \/ UNCHANGED <<pairing, coauthors, applied>>
    PROVE  TiesTyped'
<1> USE DEF TiesTyped
<1>1. CASE UNCHANGED <<pairing, coauthors, applied>>
  BY <1>1
<1>2. ASSUME NEW p \in People, Discovery!Apply(p) PROVE TiesTyped'
  BY <1>2 DEF Discovery!Apply
<1>3. ASSUME NEW p \in People, NEW q \in People, Discovery!SendRequest(p, q) PROVE TiesTyped'
  BY <1>3 DEF Discovery!SendRequest
<1>4. CASE Discovery!Respond
  BY <1>4 DEF Discovery!Respond
<1> QED BY <1>1, <1>2, <1>3, <1>4 DEF Discovery!Change

\* A handler that answers shows items, of which some are fair, and has nothing left in hand.
LEMMA AnswerTypes ==
    ASSUME SearchesTyped, NEW w \in Clerks, NEW p, NEW items \in SUBSET Discovery!Items,
           NEW seen, Discovery!Answer(w, p, items, seen)
    PROVE  /\ shown' \in [items : SUBSET Discovery!Items, fair : SUBSET Discovery!Items]
           /\ work' \in [Clerks -> Discovery!Work]
<1>1. (seen \cap Discovery!Things) \cup Discovery!Findable(p)
         \cup {q \in People : Discovery!StudentListed(q)} \in SUBSET Discovery!Items
  BY FoundAreItems DEF Discovery!Items
<1>2. shown' \in [items : SUBSET Discovery!Items, fair : SUBSET Discovery!Items]
  BY <1>1 DEF Discovery!Answer
<1>3. work' = [work EXCEPT ![w] = Discovery!Idle] /\ Discovery!Idle \in Discovery!Work
  BY DEF Discovery!Answer, Discovery!Work
<1> QED BY <1>2, <1>3 DEF SearchesTyped

\* Whoever asks is somebody, and may ask for what there is.
LEMMA SearchesTypes ==
    ASSUME SearchesTyped, [Discovery!Next]_(Discovery!discoveryVars)
    PROVE  SearchesTyped'
<1>i. Discovery!Idle \in Discovery!Work
  BY DEF Discovery!Work
<1>a. Askers \subseteq People /\ \A items \in Queries : items \in SUBSET Discovery!Items
  BY SubsetsAssumption
<1>t. /\ saved \in [People -> SUBSET Discovery!Items]
      /\ shown \in [items : SUBSET Discovery!Items, fair : SUBSET Discovery!Items] \cup {NoRow}
      /\ work \in [Clerks -> Discovery!Work]
  BY DEF SearchesTyped
<1>s. ASSUME saved' \in [People -> SUBSET Discovery!Items],
             shown' \in [items : SUBSET Discovery!Items, fair : SUBSET Discovery!Items]
                           \cup {NoRow},
             work' \in [Clerks -> Discovery!Work]
      PROVE  SearchesTyped'
  BY <1>s DEF SearchesTyped, Discovery!Work, Discovery!Items, Discovery!Things,
     Discovery!Targets, Discovery!Idle
\* A handler is given something to do.
<1>b. ASSUME NEW w \in Clerks, NEW t \in Discovery!Work, work' = [work EXCEPT ![w] = t],
             shown' = NoRow, saved' = saved
      PROVE  SearchesTyped'
  BY <1>b, <1>s, <1>t
<1>1. CASE Discovery!Change
  BY <1>1, <1>s, <1>t DEF Discovery!Change
<1>2. ASSUME NEW w \in Clerks, NEW p \in Askers, NEW lexical \in Queries,
             NEW semantic \in Queries, Discovery!SearchLists(w, p, lexical, semantic)
      PROVE  SearchesTyped'
  <2> DEFINE t == [op |-> "search", by |-> p, lexical |-> lexical, semantic |-> semantic,
                   seen |-> Discovery!Findable(p)]
  <2>1. t \in Discovery!Work
    BY <1>a, FoundAreItems DEF Discovery!Work
  <2>2. work' = [work EXCEPT ![w] = t] /\ shown' = NoRow /\ saved' = saved
    BY <1>2 DEF Discovery!SearchLists, Discovery!Begin
  <2> HIDE DEF t
  <2> QED BY <1>b, <2>1, <2>2
<1>3. ASSUME NEW w \in Clerks, NEW p \in Askers, NEW target \in Discovery!Targets,
             Discovery!RecommendCandidates(w, p, target)
      PROVE  SearchesTyped'
  <2> DEFINE t == [op |-> "recommend", by |-> p, target |-> target,
                   seen |-> Discovery!Findable(p), found |-> Discovery!Candidates(p, target)]
  <2>1. t \in Discovery!Work
    BY <1>a, FoundAreItems DEF Discovery!Work
  <2>2. work' = [work EXCEPT ![w] = t] /\ shown' = NoRow /\ saved' = saved
    BY <1>3 DEF Discovery!RecommendCandidates, Discovery!Begin
  <2> HIDE DEF t
  <2> QED BY <1>b, <2>1, <2>2
<1>4. ASSUME NEW w \in Clerks, NEW p \in Askers, NEW x \in UNION Queries,
             Discovery!SaveLoad(w, p, x)
      PROVE  SearchesTyped'
  <2> DEFINE t == [op |-> "save", by |-> p, found |-> {x}, seen |-> Discovery!Findable(p)]
  <2>1. {x} \in SUBSET Discovery!Items
    BY <1>a
  <2>2. t \in Discovery!Work
    BY <1>a, <2>1, FoundAreItems DEF Discovery!Work
  <2>3. work' = [work EXCEPT ![w] = t] /\ shown' = NoRow /\ saved' = saved
    BY <1>4 DEF Discovery!SaveLoad, Discovery!Begin
  <2> HIDE DEF t
  <2> QED BY <1>b, <2>2, <2>3
<1>5. ASSUME NEW w \in Clerks, NEW p \in Askers, Discovery!ListSaved(w, p)
      PROVE  SearchesTyped'
  <2>1. /\ Discovery!Answer(w, p, Discovery!Entries(p, saved[p]), {}) /\ saved' = saved
    BY <1>5 DEF Discovery!ListSaved
  <2>2. Discovery!Entries(p, saved[p]) \in SUBSET Discovery!Items
    BY FoundAreItems
  <2> QED BY <1>s, <1>t, <2>1, <2>2, AnswerTypes
<1>6. ASSUME NEW w \in Clerks, Discovery!SearchPlain(w) PROVE SearchesTyped'
  <2>1. work[w].lexical \in SUBSET Discovery!Items /\ work[w].seen \in SUBSET Discovery!Items
    BY <1>6, <1>t DEF Discovery!SearchPlain, Discovery!Work, Discovery!Idle
  <2>2. /\ shown' = [items |-> work[w].lexical, fair |-> work[w].seen]
        /\ work' = [work EXCEPT ![w] = Discovery!Idle] /\ saved' = saved
    BY <1>6 DEF Discovery!SearchPlain
  <2>3. shown' \in [items : SUBSET Discovery!Items, fair : SUBSET Discovery!Items]
    BY <2>1, <2>2
  <2> QED BY <1>i, <1>s, <1>t, <2>2, <2>3
<1>7. ASSUME NEW w \in Clerks, Discovery!SearchFuse(w) PROVE SearchesTyped'
  <2> DEFINE t == [op |-> "fused", by |-> work[w].by,
                   seen |-> work[w].seen \cup Discovery!Findable(work[w].by),
                   found |-> work[w].lexical
                                \cup Discovery!VisibleSemanticIds(work[w].by, work[w].semantic)]
  <2>1. /\ work[w].lexical \in SUBSET Discovery!Items /\ work[w].seen \in SUBSET Discovery!Items
        /\ work[w].by \in People
    BY <1>7, <1>t DEF Discovery!SearchFuse, Discovery!Work, Discovery!Idle
  <2>2. t \in Discovery!Work
    <3>1. /\ work[w].seen \cup Discovery!Findable(work[w].by) \in SUBSET Discovery!Items
          /\ work[w].lexical \cup Discovery!VisibleSemanticIds(work[w].by, work[w].semantic)
                \in SUBSET Discovery!Items
      BY <2>1, FoundAreItems
    <3> QED BY <2>1, <3>1 DEF Discovery!Work
  <2>3. work' = [work EXCEPT ![w] = t] /\ shown' = NoRow /\ saved' = saved
    BY <1>7 DEF Discovery!SearchFuse, Discovery!Continue
  <2> HIDE DEF t
  <2> QED BY <1>b, <2>2, <2>3
<1>8. ASSUME NEW w \in Clerks, Discovery!SearchCards(w) PROVE SearchesTyped'
  <2>1. CASE work' = [work EXCEPT ![w] = Discovery!Idle] /\ shown' = NoRow /\ saved' = saved
    BY <2>1, <1>b, <1>i
  <2>2. CASE /\ Discovery!Answer(w, work[w].by, Discovery!Cards(work[w].found), work[w].seen)
             /\ saved' = saved
    <3>1. Discovery!Cards(work[w].found) \in SUBSET Discovery!Items
      BY FoundAreItems
    <3> QED BY <1>s, <1>t, <2>2, <3>1, AnswerTypes
  <2> QED BY <1>8, <2>1, <2>2 DEF Discovery!SearchCards
<1>9. ASSUME NEW w \in Clerks, Discovery!RecommendAnswer(w) PROVE SearchesTyped'
  <2>1. /\ Discovery!Answer(w, work[w].by,
                            Discovery!RecommendedCards(work[w].target, work[w].found),
                            work[w].seen)
        /\ saved' = saved
    BY <1>9 DEF Discovery!RecommendAnswer
  <2>2. Discovery!RecommendedCards(work[w].target, work[w].found) \in SUBSET Discovery!Items
    BY FoundAreItems
  <2> QED BY <1>s, <1>t, <2>1, <2>2, AnswerTypes
<1>10. ASSUME NEW w \in Clerks, Discovery!SaveCommit(w) PROVE SearchesTyped'
  <2>1. work[w].found \in SUBSET Discovery!Items
    BY <1>10, <1>t DEF Discovery!SaveCommit, Discovery!Work, Discovery!Idle
  <2>2. saved' \in [People -> SUBSET Discovery!Items]
    BY <1>10, <1>t, <2>1 DEF Discovery!SaveCommit
  <2>3. CASE work' = [work EXCEPT ![w] = Discovery!Idle] /\ shown' = NoRow
    BY <2>2, <2>3, <1>i, <1>s, <1>t
  <2>4. CASE Discovery!Answer(w, work[w].by,
                              Discovery!Entries(work[w].by, work[w].found), work[w].seen)
    <3>1. Discovery!Entries(work[w].by, work[w].found) \in SUBSET Discovery!Items
      BY FoundAreItems
    <3> QED BY <1>s, <1>t, <2>2, <2>4, <3>1, AnswerTypes
  <2> QED BY <1>10, <2>3, <2>4 DEF Discovery!SaveCommit
<1>11. ASSUME NEW p \in Askers, NEW x \in saved[p], Discovery!Unsave(p, x) PROVE SearchesTyped'
  <2>1. saved' \in [People -> SUBSET Discovery!Items]
    BY <1>11, <1>t DEF Discovery!Unsave
  <2> QED BY <1>11, <1>s, <1>t, <2>1 DEF Discovery!Unsave
<1>12. CASE UNCHANGED Discovery!discoveryVars
  BY <1>12, <1>s, <1>t DEF Discovery!discoveryVars
<1> QED BY <1>1, <1>2, <1>3, <1>4, <1>5, <1>6, <1>7, <1>8, <1>9, <1>10, <1>11, <1>12
        DEF Discovery!Next

LEMMA DiscoveryTypes ==
    /\ Discovery!Init => Discovery!TypeOK
    /\ Discovery!TypeOK /\ [Discovery!Next]_(Discovery!discoveryVars) => Discovery!TypeOK'
<1>1. Discovery!Init => Discovery!TypeOK
  <2>1. Discovery!Idle \in Discovery!Work
    BY DEF Discovery!Work
  <2> QED BY <2>1 DEF Discovery!Init, Discovery!TypeOK
<1>2. Discovery!TypeOK <=> Discovery!VisibilityTypeOK /\ TiesTyped /\ SearchesTyped
  BY DEF Discovery!TypeOK, TiesTyped, SearchesTyped
<1>3. Discovery!TypeOK' <=> Discovery!VisibilityTypeOK' /\ TiesTyped' /\ SearchesTyped'
  BY DEF Discovery!TypeOK, TiesTyped, SearchesTyped
<1>4. ASSUME Discovery!TypeOK, [Discovery!Next]_(Discovery!discoveryVars)
      PROVE  Discovery!TypeOK'
  <2>1. SearchesTyped'
    BY <1>2, <1>4, SearchesTypes
  <2>2. \/ Discovery!Change
        \/ UNCHANGED <<Discovery!visibilityVars, pairing, coauthors, applied>>
    BY <1>4 DEF Discovery!Next, Discovery!SearchLists, Discovery!RecommendCandidates,
       Discovery!SaveLoad, Discovery!ListSaved, Discovery!SearchPlain, Discovery!SearchFuse,
       Discovery!SearchCards, Discovery!RecommendAnswer, Discovery!SaveCommit,
       Discovery!Unsave, Discovery!Unchanged, Discovery!discoveryVars
  <2>3. TiesTyped'
    BY <1>2, <1>4, <2>2, TiesTypes
  <2>4. \/ Discovery!ProjectChanges \/ Discovery!OpeningChanges \/ Discovery!PeopleChange
        \/ UNCHANGED Discovery!visibilityVars
    BY <2>2 DEF Discovery!Change, Discovery!Apply, Discovery!SendRequest, Discovery!Respond
  <2>5. Discovery!VisibilityTypeOK'
    BY <1>2, <1>4, <2>4, VisibilityTypes
  <2> QED BY <1>3, <2>1, <2>3, <2>5
<1> QED BY <1>1, <1>4

\* Where a process is, what an instance answers and whom two at once concerned.
LEMMA SchemaTypes ==
    /\ Schema!Init => Schema!TypeOK
    /\ SchemaInv /\ Schema!TypeOK /\ (Schema!Next \/ UNCHANGED schemaOwn) => Schema!TypeOK'
<1> USE RevisionsAssumption DEF Schema!Numbers, Schema!Newest
<1> DEFINE Probe == {"down", "starting", "ok", "degraded"}
           Doing(t) == \/ t = Schema!Idle
                       \/ t.op = "failed" /\ t.goal \in Schema!Numbers
                       \/ t.op = "migrate" /\ {t.at, t.goal} \subseteq Schema!Numbers
<1>1. Schema!Init => Schema!TypeOK
  BY DEF Schema!Init, Schema!TypeOK, Schema!Idle
<1>2. ASSUME SchemaInv, Schema!TypeOK, Schema!Next \/ UNCHANGED schemaOwn
      PROVE  Schema!TypeOK'
  <2>t. /\ version \in Schema!Numbers /\ \A p \in Processes : Doing(process[p])
        /\ health \in [Instances -> Probe] /\ met \subseteq Processes
        /\ lowered \subseteq Instances /\ DOMAIN process = Processes
    BY <1>2 DEF Schema!TypeOK, SchemaInv
  <2>v. version' \in Schema!Numbers
    <3>1. SchemaInv'
      BY <1>2, SchemaNext
    <3> QED BY <3>1 DEF SchemaInv
  <2>s. ASSUME \A p \in Processes : Doing(process'[p]), health' \in [Instances -> Probe],
               met' \subseteq Processes, lowered' \subseteq Instances
        PROVE  Schema!TypeOK'
    BY <2>s, <2>v DEF Schema!TypeOK, Schema!Idle
  \* A process goes on with something it may be at, and answers something it may answer.
  <2>p. ASSUME NEW p \in Processes, NEW t, Doing(t), process' = [process EXCEPT ![p] = t],
               \/ health' = health
               \/ \E h \in Probe : health' = [health EXCEPT ![p] = h],
               met' \subseteq Processes, lowered' \subseteq Instances
        PROVE  Schema!TypeOK'
    <3>1. \A q \in Processes : Doing(process'[q])
      <4> HIDE DEF Doing
      <4> QED BY <2>p, <2>t
    <3>2. health' \in [Instances -> Probe]
      <4> HIDE DEF Probe
      <4> QED BY <2>p, <2>t
    <3> QED BY <2>p, <2>s, <3>1, <3>2
  <2>b. ASSUME NEW p \in Processes, NEW goal \in Schema!Numbers, Schema!Begin(p, goal)
        PROVE  /\ process' = [process EXCEPT ![p] = Schema!Running(version, goal, {})]
               /\ Doing(Schema!Running(version, goal, {})) /\ met' \subseteq Processes
    BY <2>b, <2>t DEF Schema!Begin, Schema!Running, Schema!Migrating
  <2>1. ASSUME NEW p \in Instances, Schema!Boot(p) PROVE Schema!TypeOK'
    <3>1. /\ process' = [process EXCEPT ![p] = Schema!Running(version, Schema!Newest, {})]
          /\ Doing(Schema!Running(version, Schema!Newest, {})) /\ met' \subseteq Processes
      BY <2>1, <2>b DEF Schema!Boot
    <3>2. /\ \E h \in Probe : health' = [health EXCEPT ![p] = h]
          /\ lowered' \subseteq Instances
      BY <2>1, <2>t DEF Schema!Boot
    <3> HIDE DEF Doing, Probe
    <3> QED BY <2>p, <3>1, <3>2
  <2>2. ASSUME NEW p \in Processes \ Instances, NEW goal \in Goals, Schema!ByHand(p, goal)
        PROVE  Schema!TypeOK'
    <3>1. /\ process' = [process EXCEPT ![p] = Schema!Running(version, goal, {})]
          /\ Doing(Schema!Running(version, goal, {})) /\ met' \subseteq Processes
      BY <2>2, <2>b DEF Schema!ByHand
    <3>2. health' = health /\ lowered' \subseteq Instances
      BY <2>2, <2>t DEF Schema!ByHand
    <3> HIDE DEF Doing, Probe
    <3> QED BY <2>p, <3>1, <3>2
  <2>3. ASSUME NEW p \in Processes, Schema!Migrate(p) PROVE Schema!TypeOK'
    <3> DEFINE to == Schema!CommitsAt(process[p].at, process[p].goal)
               failed == [op |-> "failed", goal |-> process[p].goal]
    <3>1. process[p].op = "migrate" /\ {process[p].at, process[p].goal} \subseteq Schema!Numbers
      BY <2>3, <1>2 DEF Schema!Migrate, SchemaInv, MigrationStands
    <3>2. to \in Schema!Numbers
      BY <2>3, <3>1 DEF Schema!Migrate, Schema!CommitsAt
    <3>3. Doing(failed) /\ \A memo : Doing(Schema!Running(to, process[p].goal, memo))
      BY <3>1, <3>2 DEF Schema!Running
    <3>4. \/ /\ Schema!Ends(p, TRUE, failed) /\ lowered' = lowered
          \/ /\ \E memo : process' = [process EXCEPT ![p] = Schema!Running(to, process[p].goal, memo)]
             /\ lowered' = lowered \/ lowered' = {i \in Instances : health[i] # "down"}
             /\ health' = health
      BY <2>3 DEF Schema!Migrate
    <3>5. met' \subseteq Processes /\ lowered' \subseteq Instances
      BY <2>3, <2>t, <3>4 DEF Schema!Migrate
    <3>6. CASE Schema!Ends(p, TRUE, failed)
      <4>1. process' = [process EXCEPT ![p] = failed]
        BY <3>6 DEF Schema!Ends
      <4>2. health' = health \/ \E h \in Probe : health' = [health EXCEPT ![p] = h]
        BY <3>6 DEF Schema!Ends, Schema!Readiness
      <4> HIDE DEF Doing, Probe, failed
      <4> QED BY <2>p, <3>3, <3>5, <4>1, <4>2
    <3>7. CASE /\ \E memo : process' = [process EXCEPT ![p] = Schema!Running(to, process[p].goal, memo)]
               /\ health' = health
      <4> HIDE DEF Doing, Probe, to
      <4> QED BY <2>p, <3>3, <3>5, <3>7
    <3> QED BY <3>4, <3>6, <3>7
  <2>4. ASSUME NEW p \in Processes, Schema!Done(p) \/ Schema!Crash(p) PROVE Schema!TypeOK'
    <3>1. /\ process' = [process EXCEPT ![p] = Schema!Idle]
          /\ health' = health \/ \E h \in Probe : health' = [health EXCEPT ![p] = h]
      BY <2>4 DEF Schema!Done, Schema!Crash, Schema!Ends, Schema!Readiness
    <3>2. met' \subseteq Processes /\ lowered' \subseteq Instances
      BY <2>4, <2>t DEF Schema!Done, Schema!Crash
    <3>3. Doing(Schema!Idle)
      OBVIOUS
    <3> HIDE DEF Doing, Probe
    <3> QED BY <2>p, <3>1, <3>2, <3>3
  <2>5. ASSUME NEW k \in RowKinds, Schema!Write(k) PROVE Schema!TypeOK'
    BY <2>5, <2>s, <2>t DEF Schema!Write
  <2>6. CASE UNCHANGED schemaOwn
    BY <2>6, <2>s, <2>t DEF schemaOwn
  <2> QED BY <1>2, <2>1, <2>2, <2>3, <2>4, <2>5, <2>6, RevisionsAssumption DEF Schema!Next
<1> QED BY <1>1, <1>2

\* The places are the openings' own, and so are their types.
LEMMA OpeningsTypes == OpeningsInv => Openings!TypeOK
BY DEF OpeningsInv, Places!IInv, Places!TypeOK, Openings!TypeOK,
   Openings!OpportunityStatus, Places!OpportunityStatus,
   Openings!ApplicationStatus, Places!ApplicationStatus,
   Openings!Lapses, Places!Lapses, Openings!Work, Places!Work, Openings!Idle, Places!Idle,
   Openings!EditWork, Places!EditWork, Openings!ApplyWork, Places!ApplyWork,
   Openings!MoveWork, Places!MoveWork, Openings!AcceptWork, Places!AcceptWork,
   Openings!AcceptedWork, Places!AcceptedWork

\* The collaborations of the house are those of CollaborationsProofs.
LEMMA CollaborationsRuns ==
    /\ HouseInit /\ part = "collaborations" => Init
    /\ [HouseNext]_houseVars /\ part = "collaborations" => part' = "collaborations" /\ [Next]_vars
<1>1. HouseInit /\ part = "collaborations" => Init
  BY DEF HouseInit
<1>2. ASSUME HouseNext, part = "collaborations" PROVE part' = "collaborations" /\ Next
  BY <1>2 DEF HouseNext
<1>3. ASSUME UNCHANGED houseVars, part = "collaborations"
      PROVE  part' = "collaborations" /\ UNCHANGED vars
  BY <1>3 DEF houseVars, collaborationOwn, vars
<1> QED BY <1>1, <1>2, <1>3

LEMMA CollaborationsTyped == HouseSpec => [](part = "collaborations" => TypeOK)
<1>1. HouseInit => (part = "collaborations" => IInv)
  BY CollaborationsRuns, InitInv
<1>2. (part = "collaborations" => IInv) /\ [HouseNext]_houseVars => (part = "collaborations" => IInv)'
  <2> SUFFICES ASSUME part = "collaborations" => IInv, [HouseNext]_houseVars,
                      part' = "collaborations"
               PROVE  IInv'
    OBVIOUS
  <2>1. part = "collaborations"
    BY DEF HouseNext, houseVars
  <2> QED BY <2>1, CollaborationsRuns, NextInv
<1>3. (part = "collaborations" => IInv) => (part = "collaborations" => TypeOK)
  BY DEF IInv
<1> QED BY <1>1, <1>2, <1>3, PTL DEF HouseSpec

LEMMA ModerationTyped == HouseSpec => [](part = "moderation" => Moderation!TypeOK)
<1>1. HouseInit => (part = "moderation" => Moderation!TypeOK)
  BY ModerationRuns, ModerationTypes
<1>2. (part = "moderation" => ModerationInv) /\ (part = "moderation" => Moderation!TypeOK) /\ (part = "moderation" => ModerationInv)'
        /\ [HouseNext]_houseVars => (part = "moderation" => Moderation!TypeOK)'
  <2> SUFFICES ASSUME part = "moderation" => ModerationInv, part = "moderation" => Moderation!TypeOK,
                      (part = "moderation" => ModerationInv)', [HouseNext]_houseVars, part' = "moderation"
               PROVE  Moderation!TypeOK'
    OBVIOUS
  <2>1. part = "moderation"
    BY DEF HouseNext, houseVars
  <2> QED BY <2>1, ModerationRuns, ModerationTypes
<1> QED BY <1>1, <1>2, ModerationHolds, PTL DEF HouseSpec

LEMMA CustodyTyped == HouseSpec => [](part = "custody" => Custody!TypeOK)
<1>1. HouseInit => (part = "custody" => CustodyRest)
  BY CustodyRuns, CustodyTypes
<1>2. (part = "custody" => CustodyInv) /\ (part = "custody" => CustodyRest)
        /\ [HouseNext]_houseVars => (part = "custody" => CustodyRest)'
  <2> SUFFICES ASSUME part = "custody" => CustodyInv, part = "custody" => CustodyRest,
                      [HouseNext]_houseVars, part' = "custody"
               PROVE  CustodyRest'
    OBVIOUS
  <2>1. part = "custody"
    BY DEF HouseNext, houseVars
  <2> QED BY <2>1, CustodyRuns, CustodyTypes
<1>3. (part = "custody" => CustodyInv) /\ (part = "custody" => CustodyRest)
        => (part = "custody" => Custody!TypeOK)
  BY CustodyTypes
<1> QED BY <1>1, <1>2, <1>3, CustodyHolds, PTL DEF HouseSpec

LEMMA VocabularyTyped == HouseSpec => [](part = "vocabulary" => Vocabulary!TypeOK)
<1>1. HouseInit => (part = "vocabulary" => VocabularyRest)
  BY VocabularyRuns, VocabularyTypes
<1>2. (part = "vocabulary" => VocabularyInv) /\ (part = "vocabulary" => VocabularyRest)
        /\ [HouseNext]_houseVars => (part = "vocabulary" => VocabularyRest)'
  <2> SUFFICES ASSUME part = "vocabulary" => VocabularyInv, part = "vocabulary" => VocabularyRest,
                      [HouseNext]_houseVars, part' = "vocabulary"
               PROVE  VocabularyRest'
    OBVIOUS
  <2>1. part = "vocabulary"
    BY DEF HouseNext, houseVars
  <2> QED BY <2>1, VocabularyRuns, VocabularyTypes
<1>3. (part = "vocabulary" => VocabularyInv) /\ (part = "vocabulary" => VocabularyRest)
        => (part = "vocabulary" => Vocabulary!TypeOK)
  BY VocabularyTypes
<1> QED BY <1>1, <1>2, <1>3, VocabularyHolds, PTL DEF HouseSpec

LEMMA DiscoveryTyped == HouseSpec => [](part = "discovery" => Discovery!TypeOK)
<1>1. HouseInit => (part = "discovery" => Discovery!TypeOK)
  BY DiscoveryRuns, DiscoveryTypes
<1>2. (part = "discovery" => Discovery!TypeOK)
        /\ [HouseNext]_houseVars => (part = "discovery" => Discovery!TypeOK)'
  <2> SUFFICES ASSUME part = "discovery" => Discovery!TypeOK,
                      [HouseNext]_houseVars, part' = "discovery"
               PROVE  Discovery!TypeOK'
    OBVIOUS
  <2>1. part = "discovery"
    BY DEF HouseNext, houseVars
  <2> QED BY <2>1, DiscoveryRuns, DiscoveryTypes
<1> QED BY <1>1, <1>2, PTL DEF HouseSpec

LEMMA SchemaTyped == HouseSpec => [](part = "schema" => Schema!TypeOK)
<1>1. HouseInit => (part = "schema" => Schema!TypeOK)
  BY SchemaRuns, SchemaTypes
<1>2. (part = "schema" => SchemaInv) /\ (part = "schema" => Schema!TypeOK)
        /\ [HouseNext]_houseVars => (part = "schema" => Schema!TypeOK)'
  <2> SUFFICES ASSUME part = "schema" => SchemaInv, part = "schema" => Schema!TypeOK,
                      [HouseNext]_houseVars, part' = "schema"
               PROVE  Schema!TypeOK'
    OBVIOUS
  <2>1. part = "schema"
    BY DEF HouseNext, houseVars
  <2> QED BY <2>1, SchemaRuns, SchemaTypes
<1> QED BY <1>1, <1>2, SchemaHolds, PTL DEF HouseSpec

\* Every row of every component of the house has the columns and the values the code gives
\* it: no handler, however it crosses others, leaves a status, an answer, a tag, a booking or
\* a revision that the code does not know.
THEOREM HouseKeepsItsTypes == HouseSpec => []HouseTypeOK
<1>1. (part = "places" => OpeningsInv) => (part = "places" => Openings!TypeOK)
  BY OpeningsTypes
<1>2. /\ (part = "collaborations" => TypeOK)
      /\ (part = "places" => Openings!TypeOK)
      /\ (part = "discovery" => Discovery!TypeOK)
      /\ (part = "moderation" => Moderation!TypeOK)
      /\ (part = "custody" => Custody!TypeOK)
      /\ (part = "vocabulary" => Vocabulary!TypeOK)
      /\ (part = "schema" => Schema!TypeOK)
      => HouseTypeOK
  BY DEF HouseTypeOK
<1> QED BY <1>1, <1>2, CollaborationsTyped, OpeningsHolds, DiscoveryTyped, ModerationTyped,
          CustodyTyped, VocabularyTyped, SchemaTyped, PTL
=============================================================================
