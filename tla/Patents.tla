-------------------------------- MODULE Patents --------------------------------
(***************************************************************************)
(* The register of inventions (patents/service.py, patents/policies.py):   *)
(* the pipeline along which two actors move a record, the docket numbers,  *)
(* and the verification that an edit withdraws.                            *)
(*                                                                         *)
(* A row keeps which of its columns are set; a version of its text stands  *)
(* for the text.  A handler is its reads and one commit, which the CHECKs  *)
(* and unique indexes of patents/models.py may refuse.                     *)
(***************************************************************************)
EXTENDS Naturals

CONSTANTS
    Records,      \* keys of the rows
    Followed,     \* bounds the records that have a life; the others only take numbers
    LastYear,     \* bounds the calendar
    Dockets,      \* bounds the numbers, <<year, n>>; n has four digits
    MaxVersion,   \* bounds the edits of one record
    Workers,      \* handlers that may be in flight at once
    NoRow         \* no row, and a docket that is NULL

ASSUME FollowedAssumption == Followed \subseteq Records
ASSUME BoundsAssumption ==
    LastYear \in Nat \ {0} /\ Dockets \subseteq (Nat \X (1..9999)) /\ MaxVersion \in Nat

BeforeTheOffice == {"disclosed", "under_assessment", "approved_to_file", "declined"}
PatentStatus ==
    BeforeTheOffice \cup {"filed", "published", "granted", "lapsed", "rejected", "withdrawn"}
VerificationStatus == {"pending", "verified", "rejected"}
Columns == {"filing_date", "publication_date", "grant_date", "assessment_note"}

Rows == [status : PatentStatus, docket : Dockets \cup {NoRow}, set : SUBSET Columns,
         verification : VerificationStatus, version : 0..MaxVersion,
         checked : 0..MaxVersion]

ASSUME NoRowAssumption == NoRow \notin Dockets /\ NoRow \notin Rows

\* TRANSITIONS: <<from, to, by whom>>.
Transitions ==
    LET both == {"inventor", "ip_cell"} IN
    ({"disclosed"} \X {"under_assessment"} \X {"ip_cell"})
    \cup ({"under_assessment"} \X {"approved_to_file", "declined", "disclosed"} \X {"ip_cell"})
    \cup ({"disclosed", "under_assessment", "approved_to_file"} \X {"withdrawn"} \X {"inventor"})
    \cup ({"approved_to_file"} \X {"filed"} \X both)
    \cup ({"filed"} \X {"published", "withdrawn", "rejected"} \X both)
    \cup ({"published"} \X {"granted", "withdrawn", "rejected"} \X both)
    \cup ({"granted"} \X {"lapsed"} \X both)
    \cup ({"lapsed"} \X {"granted"} \X both)

VARIABLES
    patent,     \* patent[p]: the row of p, or NoRow
    year,       \* the calendar year
    work,       \* work[w]: what handler w has read so far
    given,      \* ghost: every docket ever committed
    rewound,    \* ghost: the years whose numbering lost its end to a deletion
    crossed     \* ghost: the records an edit and a decision of which overlapped

vars == <<patent, year, work, given, rewound, crossed>>

Idle == [op |-> "idle"]
CreateWork == [op : {"create"}, docket : Dockets \cup {NoRow}]
EditWork == [op : {"edit"}, who : Records, seen : VerificationStatus]
MoveWork == [op : {"move"}, who : Records, target : PatentStatus, sent : SUBSET Columns]
DecideWork == [op : {"decide"}, who : Records, verdict : {"verified", "rejected"},
               version : 0..MaxVersion]
Work == {Idle} \cup CreateWork \cup EditWork \cup MoveWork \cup DecideWork

Init ==
    /\ patent = [p \in Records |-> NoRow]
    /\ year = 1
    /\ work = [w \in Workers |-> Idle]
    /\ given = {}
    /\ rewound = {}
    /\ crossed = {}

OnRecord == {"edit", "move", "decide"}
Holds(w, p) == work[w].op \in OnRecord /\ work[w].who = p

\* A handler that creates a row holds none; what it reads is gone when it commits.
Begin(w, t) ==
    /\ work[w] = Idle
    /\ work' = [work EXCEPT ![w] = t]
    /\ UNCHANGED <<patent, year, given, rewound>>

End(w) == work' = [work EXCEPT ![w] = Idle]

\* An edit and a decision of one record are in flight together.
Crosses(op, p) == crossed' = crossed \cup
    {q \in {p} : \E v \in Workers : work[v].op = op /\ work[v].who = p}

-----------------------------------------------------------------------------
(* What the database holds a row to *)

\* The CHECKs of the table.
Storable(row) ==
    /\ row.status = "granted" => "grant_date" \in row.set
    /\ row.status = "published" => "publication_date" \in row.set
    /\ row.status = "declined" => "assessment_note" \in row.set
    /\ row.status \in BeforeTheOffice <=> "filing_date" \notin row.set

-----------------------------------------------------------------------------
(* Filing an invention with the university, or recording one filed elsewhere *)

Taken(d) == \E p \in Records : patent[p] # NoRow /\ patent[p].docket = d

\* Fault: the first number that is free.
FirstFree(d) == ~Taken(d) /\ \A e \in Dockets : e[1] = d[1] /\ e[2] < d[2] => Taken(e)

\* _allocate_reference: one more than the highest of the year's remaining rows.
AllocateReference(d) ==
    /\ \A e \in Dockets : e[1] = d[1] /\ Taken(e) => e[2] < d[2]
    /\ d[2] = 1 \/ Taken(<<d[1], d[2] - 1>>)

CreateLoad(w, alreadyFiled) ==
    /\ \E docket \in Dockets \cup {NoRow} :
         /\ IF alreadyFiled THEN docket = NoRow
            ELSE docket # NoRow /\ docket[1] = year /\ AllocateReference(docket)
         /\ Begin(w, [op |-> "create", docket |-> docket])
    /\ UNCHANGED crossed

\* The two entry points.
EntryStatus(docket) == IF docket = NoRow THEN "filed" ELSE "disclosed"

\* initial_verification: an administrator's own record needs none.
InitialVerification(p) == {"pending"} \cup {v \in {"verified"} : p \in Followed}

\* The unique index on reference decides between two that were given one number.
\* Keys are never used again, so one that somebody still holds is not free.
CreateCommit(w, p, verification) ==
    /\ work[w].op = "create"
    /\ patent[p] = NoRow
    /\ \A v \in Workers : ~Holds(v, p)
    /\ IF work[w].docket = NoRow THEN p \in Followed ELSE ~Taken(work[w].docket)
    /\ patent' = [patent EXCEPT ![p] =
         [status |-> EntryStatus(work[w].docket), docket |-> work[w].docket,
          set |-> IF work[w].docket = NoRow THEN {"filing_date"} ELSE {},
          verification |-> verification, version |-> 0, checked |-> 0]]
    /\ given' = given \cup ({work[w].docket} \ {NoRow})
    /\ crossed' = crossed \ {p}
    /\ End(w)
    /\ UNCHANGED <<year, rewound>>

NewYear ==
    /\ year < LastYear
    /\ year' = year + 1
    /\ UNCHANGED <<patent, work, given, rewound, crossed>>

-----------------------------------------------------------------------------
(* The text, and whether somebody senior vouches for it *)

\* update_patent, by its creator, at any stage.
EditLoad(w, p) ==
    /\ patent[p] # NoRow /\ p \in Followed
    /\ patent[p].version < MaxVersion
    /\ Begin(w, [op |-> "edit", who |-> p, seen |-> patent[p].verification])
    /\ Crosses("decide", p)

\* Fault: an edit leaves the approval standing.
KeepsApproval(row, seen) == row.verification

\* "Editing the substance withdraws the institution's approval", the one it read.
AfterEdit(row, seen) == IF seen = "verified" THEN "pending" ELSE row.verification

EditCommit(w) ==
    /\ work[w].op = "edit"
    /\ LET p == work[w].who IN
         /\ patent[p] # NoRow
         /\ patent[p].version < MaxVersion
         /\ patent' = [patent EXCEPT ![p] =
              [patent[p] EXCEPT !.version = patent[p].version + 1,
                                !.verification = AfterEdit(patent[p], work[w].seen)]]
    /\ End(w)
    /\ UNCHANGED <<year, given, rewound, crossed>>

\* decide: once for each PENDING; scope is a matter of who asks.
DecideLoad(w, p, verdict) ==
    /\ patent[p] # NoRow /\ p \in Followed
    /\ patent[p].verification = "pending"
    /\ Begin(w, [op |-> "decide", who |-> p, verdict |-> verdict,
                 version |-> patent[p].version])
    /\ Crosses("edit", p)

\* checked is the ghost of what the person who decides had before them.
DecideCommit(w) ==
    /\ work[w].op = "decide"
    /\ LET p == work[w].who IN
         /\ patent[p] # NoRow
         /\ patent' = [patent EXCEPT ![p] =
              [patent[p] EXCEPT !.verification = work[w].verdict,
                                !.checked = work[w].version]]
    /\ End(w)
    /\ UNCHANGED <<year, given, rewound, crossed>>

-----------------------------------------------------------------------------
(* The pipeline *)

\* assert_may_move.
AssertMayMove(from, to, by) == <<from, to, by>> \in Transitions

DateRequired ==
    {<<"filed", "filing_date">>, <<"published", "publication_date">>, <<"granted", "grant_date">>}

\* What a request may fill in on the way to a status: the date the office issued,
\* or the reasoning of the IP cell, which only a refusal depends on.
MayFill(target) ==
    {c \in Columns : <<target, c>> \in DateRequired}
    \cup {c \in {"assessment_note"} : target = "declined"}

\* MissingTransitionDateError and MissingDecisionNoteError.
Complete(row, target, sent) ==
    /\ \A c \in Columns : <<target, c>> \in DateRequired => c \in row.set \cup sent
    /\ target = "declined" => "assessment_note" \in sent

MoveLoad(w, p, target, by, sent) ==
    /\ patent[p] # NoRow /\ p \in Followed
    /\ AssertMayMove(patent[p].status, target, by)
    /\ Complete(patent[p], target, sent)
    /\ Begin(w, [op |-> "move", who |-> p, target |-> target, sent |-> sent])
    /\ UNCHANGED crossed

Moved(row, target, sent) == [row EXCEPT !.status = target, !.set = row.set \cup sent]

MoveCommit(w) ==
    /\ work[w].op = "move"
    /\ LET p == work[w].who IN
         /\ patent[p] # NoRow
         /\ Storable(Moved(patent[p], work[w].target, work[w].sent))
         /\ patent' = [patent EXCEPT ![p] = Moved(patent[p], work[w].target, work[w].sent)]
    /\ End(w)
    /\ UNCHANGED <<year, given, rewound, crossed>>

-----------------------------------------------------------------------------
(* Deletion, by the creator, an administrator, or with the creator's account *)

\* No later docket of its year remains, or somebody is about to be given this one.
EndsItsYear(p) ==
    /\ patent[p].docket # NoRow
    /\ \/ \A q \in Records : patent[q] # NoRow /\ patent[q].docket # NoRow =>
              \/ patent[q].docket[1] # patent[p].docket[1]
              \/ patent[q].docket[2] <= patent[p].docket[2]
       \/ \E v \in Workers : work[v].op = "create" /\ work[v].docket = patent[p].docket

\* delete_patent: what it reads decides who may ask, not what is done.
Delete(w, p) ==
    /\ work[w] = Idle
    /\ patent[p] # NoRow
    /\ patent' = [patent EXCEPT ![p] = NoRow]
    /\ rewound' = rewound \cup (IF EndsItsYear(p) THEN {patent[p].docket[1]} ELSE {})
    /\ UNCHANGED <<year, work, given, crossed>>

\* An error, a CHECK or a unique violation among them, or a row that is gone.
Rollback(w) ==
    /\ work[w] # Idle
    /\ End(w)
    /\ UNCHANGED <<patent, year, given, rewound, crossed>>

Handler(w) ==
    \/ \E alreadyFiled \in BOOLEAN : CreateLoad(w, alreadyFiled)
    \/ \E p \in Records :
         \/ \E verification \in InitialVerification(p) : CreateCommit(w, p, verification)
         \/ EditLoad(w, p) \/ Delete(w, p)
         \/ \E verdict \in {"verified", "rejected"} : DecideLoad(w, p, verdict)
         \/ \E target \in PatentStatus, by \in {"inventor", "ip_cell"} :
              \E sent \in SUBSET MayFill(target) : MoveLoad(w, p, target, by, sent)
    \/ EditCommit(w) \/ DecideCommit(w) \/ MoveCommit(w) \/ Rollback(w)

Next == (\E w \in Workers : Handler(w)) \/ NewYear

Spec == Init /\ [][Next]_vars

-----------------------------------------------------------------------------
(* Properties *)

\* Every variable has its type.
TypeOK ==
    /\ patent \in [Records -> Rows \cup {NoRow}]
    /\ year \in 1..LastYear
    /\ work \in [Workers -> Work]
    /\ given \subseteq Dockets
    /\ rewound \subseteq Nat
    /\ crossed \subseteq Records

\* The office's half is never skipped: what is or was granted has its filing, its
\* publication and its grant dated, and what is published its filing and its
\* publication, although each CHECK asks for one date only and moves may cross.
OfficeDatesComplete ==
    \A p \in Records : patent[p] # NoRow =>
        /\ patent[p].status \in {"published", "granted", "lapsed"} =>
              {"filing_date", "publication_date"} \subseteq patent[p].set
        /\ patent[p].status \in {"granted", "lapsed"} => "grant_date" \in patent[p].set

\* "A verified record is a statement about the content somebody checked": what
\* is verified reads as the person who verified it had it before them, unless an
\* edit of the record overlapped a decision about it.
VerifiedAsRead ==
    \A p \in Records :
        patent[p] # NoRow /\ patent[p].verification = "verified" =>
            p \in crossed \/ patent[p].checked = patent[p].version

\* What the register says of a record is so: the approval is of the text it stands beside,
\* and what the office did is dated.
RecordsAreTrue == VerifiedAsRead /\ OfficeDatesComplete

\* "A reference that has ever been quoted must never point at a different
\* invention": a docket is given once, unless the newest number of its year was
\* deleted, or one that a disclosure in flight was about to be given.
DocketGivenOnce ==
    [][\A p \in Records :
          patent[p] = NoRow /\ patent'[p] # NoRow /\ patent'[p].docket # NoRow =>
              patent'[p].docket \notin given \/ patent'[p].docket[1] \in rewound]_patent

-----------------------------------------------------------------------------
(* What the code says of the moves it offers *)

\* next_statuses.
NextStatuses(status, by) == {to \in PatentStatus : AssertMayMove(status, to, by)}

\* "It can never offer a button the service would refuse": a move that is offered
\* can be stored, when everything it may fill in is filled in.
OffersWhatItTakes ==
    \A p \in Records, by \in {"inventor", "ip_cell"} :
        patent[p] # NoRow =>
            \A to \in NextStatuses(patent[p].status, by) :
                Storable(Moved(patent[p], to, MayFill(to)))
=============================================================================
