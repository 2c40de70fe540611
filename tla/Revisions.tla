------------------------------- MODULE Revisions -------------------------------
(***************************************************************************)
(* The revisions of the database schema (alembic/versions), each as the    *)
(* statements of its upgrade() and of its downgrade(), in order.           *)
(*                                                                         *)
(* Of a statement stays what can make a later one fail: which tables refer *)
(* to which, who creates and who shares an enum type, the values a type    *)
(* gained later, the columns and constraints a later revision touches, and *)
(* the rows that keep a constraint from being made.  Indexes that only     *)
(* make queries fast, extensions and the columns no revision touches again *)
(* are left out.                                                           *)
(***************************************************************************)
EXTENDS Naturals, Sequences, SequencesExt

\* op.create_table: own are the types its columns declare, shared those declared with
\* create_type=False, to the tables its foreign keys refer to.
Shares(t, own, shared, to) ==
    [do |-> "create table", table |-> t, own |-> own, shared |-> shared, to |-> to]
Table(t, own, to) == Shares(t, own, {}, to)
Drop(t) == [do |-> "drop table", table |-> t]

\* op.add_column, op.drop_column; typed where the column is of an enum type.
Columns(t, names) == [do |-> "add columns", table |-> t, names |-> names]
Typed(t, name, type) == [do |-> "add typed", table |-> t, name |-> name, type |-> type]
Without(t, names) == [do |-> "drop columns", table |-> t, names |-> names]

\* A unique or check constraint on a column, and a foreign key of one.
Constraint(t, name, column) ==
    [do |-> "constrain", table |-> t, name |-> name, column |-> column]
Release(t, name) == [do |-> "release", table |-> t, name |-> name]
ForeignKey(t, column, to) == [do |-> "refer", table |-> t, column |-> column, to |-> to]
Unlink(t, column) == [do |-> "unlink", table |-> t, column |-> column]

\* Enum types: CREATE and DROP with checkfirst, ADD VALUE IF NOT EXISTS, a literal in a query.
Type(type) == [do |-> "create type", type |-> type]
DropType(type) == [do |-> "drop type", type |-> type]
Value(type, value) == [do |-> "add value", type |-> type, value |-> value]
Literal(type, value) == [do |-> "literal", type |-> type, value |-> value]

\* An UPDATE or DELETE after which no row is of a kind; what fails while one is.
Repair(kind) == [do |-> "repair", rows |-> kind]
Refuses(kind) == [do |-> "refuse", rows |-> kind]

----------------------------------------------------------------------------
(* What PostgreSQL makes of a statement *)

Nothing == [tables |-> {}, columns |-> {}, constraints |-> {}, refs |-> {}, types |-> {},
            uses |-> {}, later |-> {}]

\* A transaction under way: what it makes of the schema and the rows, the types and values
\* that are its own, and the types this run of alembic has created (SQLAlchemy's memo).
Open(db, kinds, memo) ==
    [ok |-> TRUE, db |-> db, rows |-> kinds, made |-> {}, added |-> {}, memo |-> memo]

Schemas ==
    [tables : SUBSET STRING, columns : SUBSET (STRING \X STRING),
     constraints : SUBSET [table : STRING, name : STRING, column : STRING],
     refs : SUBSET [table : STRING, by : STRING, to : STRING],
     types : SUBSET STRING, uses : SUBSET [table : STRING, by : STRING, type : STRING],
     later : SUBSET (STRING \X STRING)]
Accepts(run, s) ==
    LET db == run.db IN
    CASE s.do = "create table" ->
            /\ s.table \notin db.tables
            /\ s.to \subseteq db.tables \cup {s.table}
            /\ s.shared \subseteq db.types
            /\ (s.own \ run.memo) \cap db.types = {}
      [] s.do = "drop table" ->
            /\ s.table \in db.tables
            /\ \A r \in db.refs : r.to = s.table => r.table = s.table
      [] s.do = "add columns" ->
            /\ s.table \in db.tables
            /\ \A c \in s.names : <<s.table, c>> \notin db.columns
      [] s.do = "add typed" -> s.table \in db.tables /\ s.type \in db.types
      [] s.do = "drop columns" -> \A c \in s.names : <<s.table, c>> \in db.columns
      [] s.do = "constrain" ->
            \A k \in db.constraints : ~(k.table = s.table /\ k.name = s.name)
      [] s.do = "release" -> \E k \in db.constraints : k.table = s.table /\ k.name = s.name
      [] s.do = "refer" -> s.to \in db.tables
      [] s.do = "unlink" -> \E r \in db.refs : r.table = s.table /\ r.by = s.column
      [] s.do = "drop type" -> \A u \in db.uses : u.type # s.type
      [] s.do = "add value" -> s.type \in db.types
      [] s.do = "literal" ->
            <<s.type, s.value>> \in run.added => s.type \in run.made
      [] s.do = "refuse" -> s.rows \notin run.rows
      [] OTHER -> TRUE

Of(set, t) == {x \in set : x.table = t}

NewSchema(run, s) ==
    LET db == run.db IN
    CASE s.do = "create table" ->
            [db EXCEPT !.tables = @ \cup {s.table}, !.types = @ \cup s.own,
                       !.refs = @ \cup {[table |-> s.table, by |-> "id", to |-> t] : t \in s.to},
                       !.uses = @ \cup {[table |-> s.table, by |-> "id", type |-> t] :
                                         t \in s.own \cup s.shared}]
      [] s.do = "drop table" ->
            [db EXCEPT !.tables = @ \ {s.table}, !.refs = @ \ Of(@, s.table),
                       !.columns = @ \ {c \in @ : c[1] = s.table},
                       !.constraints = @ \ Of(@, s.table), !.uses = @ \ Of(@, s.table)]
      [] s.do = "add columns" -> [db EXCEPT !.columns = @ \cup {<<s.table, c>> : c \in s.names}]
      [] s.do = "add typed" ->
            [db EXCEPT !.columns = @ \cup {<<s.table, s.name>>},
                       !.uses = @ \cup {[table |-> s.table, by |-> s.name, type |-> s.type]}]
      [] s.do = "drop columns" ->
            [db EXCEPT !.columns = @ \ {<<s.table, c>> : c \in s.names},
                       !.constraints = @ \ {k \in Of(@, s.table) : k.column \in s.names},
                       !.refs = @ \ {r \in Of(@, s.table) : r.by \in s.names},
                       !.uses = @ \ {u \in Of(@, s.table) : u.by \in s.names}]
      [] s.do = "constrain" ->
            [db EXCEPT !.constraints =
                @ \cup {[table |-> s.table, name |-> s.name, column |-> s.column]}]
      [] s.do = "release" ->
            [db EXCEPT !.constraints = @ \ {k \in Of(@, s.table) : k.name = s.name}]
      [] s.do = "refer" ->
            [db EXCEPT !.refs = @ \cup {[table |-> s.table, by |-> s.column, to |-> s.to]}]
      [] s.do = "unlink" ->
            [db EXCEPT !.refs = @ \ {r \in Of(@, s.table) : r.by = s.column}]
      [] s.do = "create type" -> [db EXCEPT !.types = @ \cup {s.type}]
      [] s.do = "drop type" ->
            [db EXCEPT !.types = @ \ {s.type}, !.later = @ \ {v \in @ : v[1] = s.type}]
      [] s.do = "add value" -> [db EXCEPT !.later = @ \cup {<<s.type, s.value>>}]
      [] OTHER -> db

Apply(run, s) ==
    IF ~Accepts(run, s) THEN [run EXCEPT !.ok = FALSE]
    ELSE LET own == IF s.do = "create table" THEN s.own \ run.memo
                    ELSE IF s.do = "create type" THEN {s.type} ELSE {}
             new == own \ run.db.types IN
         [run EXCEPT
            !.db = NewSchema(run, s),
            !.rows = IF s.do = "repair" THEN @ \ {s.rows} ELSE @,
            !.made = @ \cup new,
            !.memo = @ \cup own,
            !.added = IF s.do = "add value" /\ <<s.type, s.value>> \notin run.db.later
                      THEN @ \cup {<<s.type, s.value>>} ELSE @]

\* One statement after the other; the first that is refused ends the transaction.
Execute(begun, statements) ==
    FoldLeft(LAMBDA run, s : IF run.ok THEN Apply(run, s) ELSE run, begun, statements)

----------------------------------------------------------------------------
(* The revisions *)

Upgrade0002 ==
    << Table("users", {"user_role"}, {}),
       Table("refresh_tokens", {}, {"refresh_tokens", "users"}) >>
Downgrade0002 == << Drop("refresh_tokens"), Drop("users"), DropType("user_role") >>

Upgrade0003 ==
    << Table("audit_logs", {}, {"users"}),
       Type("coordinator_scope_type"),
       Typed("users", "coordinator_scope_type", "coordinator_scope_type"),
       Columns("users", {"coordinator_scope_id"}) >>
Downgrade0003 ==
    << Without("users", {"coordinator_scope_id", "coordinator_scope_type"}),
       DropType("coordinator_scope_type"), Drop("audit_logs") >>

Taxonomy0004 ==
    << Table("research_areas", {}, {"research_areas"}),
       Table("schools", {}, {}),
       Table("skills", {}, {}),
       Table("departments", {}, {"schools"}),
       Table("tag_aliases", {}, {"research_areas", "skills"}) >>
Profiles0004 ==
    << Table("researcher_profiles", {"researcher_availability", "verification_status"}, {"users"}),
       Table("student_profiles", {}, {"users"}),
       Table("tag_suggestions", {"tag_suggestion_type", "tag_suggestion_status"}, {"users"}),
       Table("user_research_areas", {}, {"research_areas", "users"}),
       Table("user_skills", {}, {"skills", "users"}),
       Columns("users", {"department_id", "is_demo", "onboarding_complete"}),
       ForeignKey("users", "department_id", "departments") >>
Upgrade0004 == Taxonomy0004 \o Profiles0004
Downgrade0004 ==
    << Unlink("users", "department_id"),
       Without("users", {"onboarding_complete", "is_demo", "department_id"}),
       Drop("user_skills"), Drop("user_research_areas"), Drop("tag_suggestions"),
       Drop("student_profiles"), Drop("researcher_profiles"), Drop("tag_aliases"),
       Drop("departments"), Drop("skills"), Drop("schools"), Drop("research_areas"),
       DropType("tag_suggestion_status"), DropType("tag_suggestion_type"),
       DropType("verification_status"), DropType("researcher_availability") >>

Upgrade0005 == << Columns("researcher_profiles", {"search_document"}) >>
Downgrade0005 == << Without("researcher_profiles", {"search_document"}) >>

Upgrade0006 ==
    << Table("projects", {"project_status"}, {"departments", "users"}),
       Table("project_members", {}, {"projects", "users"}),
       Table("project_research_areas", {}, {"projects", "research_areas"}),
       Table("project_skills", {}, {"projects", "skills"}) >>
Downgrade0006 ==
    << Drop("project_skills"), Drop("project_research_areas"), Drop("project_members"),
       Drop("projects"), DropType("project_status") >>

Upgrade0007 ==
    << Table("publications", {"publication_type"}, {"users"}),
       Table("project_publications", {}, {"projects", "publications"}),
       Table("publication_authors", {}, {"publications", "users"}) >>
Downgrade0007 ==
    << Drop("publication_authors"), Drop("project_publications"), Drop("publications"),
       DropType("publication_type") >>

Openings0008 ==
    << Table("opportunities", {"opportunity_type", "opportunity_status"},
             {"users", "departments", "projects"}) >>
Applications0008 ==
    << Table("applications", {"application_status"}, {"users", "opportunities"}),
       Table("opportunity_skills", {}, {"opportunities", "skills"}),
       Table("application_events", {"application_status"}, {"users", "applications"}) >>
Upgrade0008 == Openings0008 \o Applications0008
Downgrade0008 ==
    << Drop("application_events"), Drop("opportunity_skills"), Drop("applications"),
       Drop("opportunities"), DropType("application_status"), DropType("opportunity_status"),
       DropType("opportunity_type") >>

Upgrade0009 ==
    << Table("collaboration_requests", {"collaboration_status"}, {"projects", "users"}),
       Constraint("collaboration_requests", "pending", "sender_id") >>
Downgrade0009 ==
    << Release("collaboration_requests", "pending"),
       Drop("collaboration_requests"), DropType("collaboration_status") >>

Upgrade0010 ==
    << Table("content_reports", {"report_target_type", "report_status"}, {"users"}),
       Table("saved_items", {}, {"opportunities", "projects", "users"}),
       Constraint("saved_items", "exactly_one_target", "project_id") >>
Downgrade0010 ==
    << Drop("saved_items"), Drop("content_reports"), DropType("report_status"),
       DropType("report_target_type") >>

Upgrade0011 ==
    << Table("facilities", {}, {"departments"}),
       Table("equipment", {"maintenance_status"}, {"facilities"}),
       Table("bookings", {"booking_status"}, {"users", "equipment"}) >>
Downgrade0011 ==
    << Drop("bookings"), Drop("equipment"), Drop("facilities"), DropType("booking_status"),
       DropType("maintenance_status") >>

Upgrade0012 ==
    << Table("funding_opportunities", {"funding_status"}, {"users"}),
       Table("notifications", {"notification_type"}, {"users"}),
       Table("funding_research_areas", {}, {"funding_opportunities", "research_areas"}),
       Columns("saved_items", {"funding_id"}),
       Release("saved_items", "exactly_one_target"),
       Constraint("saved_items", "exactly_one_target", "project_id"),
       Constraint("saved_items", "funding", "funding_id"),
       ForeignKey("saved_items", "funding_id", "funding_opportunities") >>
\* A bookmark of a call points at nothing once the column has gone.
Downgrade0012 ==
    << Unlink("saved_items", "funding_id"),
       Release("saved_items", "funding"), Release("saved_items", "exactly_one_target"),
       Without("saved_items", {"funding_id"}),
       Refuses("saved call"), Constraint("saved_items", "exactly_one_target", "project_id"),
       Drop("funding_research_areas"), Drop("notifications"), Drop("funding_opportunities"),
       DropType("notification_type"), DropType("funding_status") >>

Upgrade0013 == << Table("entity_embeddings", {"embedding_entity_type"}, {}) >>
Downgrade0013 == << Drop("entity_embeddings"), DropType("embedding_entity_type") >>

\* Fault: NOT NULL before the backfill.
RequiredAtOnce0014 ==
    << Columns("users", {"registration_number", "must_change_password"}),
       Refuses("no number"), Repair("no number") >>
Upgrade0014 ==
    << Columns("users", {"registration_number", "must_change_password"}),
       Repair("no number"), Refuses("no number") >>
Downgrade0014 ==
    << Repair("no email"), Refuses("no email"),
       Without("users", {"must_change_password", "registration_number"}) >>

Upgrade0016 == << Columns("users", {"created_by"}), ForeignKey("users", "created_by", "users") >>
Downgrade0016 == << Unlink("users", "created_by"), Without("users", {"created_by"}) >>

Upgrade0017 ==
    << Value("notification_type", "admin_promotion_code"),
       Table("admin_promotions", {}, {"users"}) >>
Downgrade0017 == << Drop("admin_promotions") >>

Upgrade0018 ==
    << Literal("coordinator_scope_type", "department"),
       Literal("user_role", "research_coordinator") >>

\* The thread of a request is written as its parts, since 0021 takes it apart.
Upgrade0019 ==
    << Value("notification_type", "message_received"), Value("report_target_type", "message"),
       Table("conversations", {}, {"projects"}),
       Columns("conversations", {"collaboration_request_id"}),
       ForeignKey("conversations", "collaboration_request_id", "collaboration_requests"),
       Constraint("conversations", "one_thread", "collaboration_request_id"),
       Constraint("conversations", "exactly_one_subject", "collaboration_request_id"),
       Table("conversation_participants", {}, {"conversations", "users"}),
       Table("messages", {}, {"conversations", "users"}) >>
Downgrade0019 ==
    << Drop("messages"), Drop("conversation_participants"), Drop("conversations") >>

Upgrade0020 == << Value("collaboration_status", "ended") >>

Pairs0021 ==
    << Type("collaboration_state"),
       Shares("collaborations", {}, {"collaboration_state"}, {"users"}),
       Columns("collaboration_requests", {"collaboration_id"}),
       Repair("no pair"), Refuses("no pair"),
       ForeignKey("collaboration_requests", "collaboration_id", "collaborations") >>

\* Fault: the threads of a pair are left as they are.
Unmerged0021 ==
    << Columns("conversations", {"collaboration_id"}),
       Release("conversations", "exactly_one_subject"),
       Without("conversations", {"collaboration_request_id"}),
       Refuses("two threads"), Constraint("conversations", "one_thread", "collaboration_id"),
       ForeignKey("conversations", "collaboration_id", "collaborations"),
       Constraint("conversations", "exactly_one_subject", "collaboration_id"),
       Release("collaboration_requests", "pending") >>
\* Dropping the column takes its foreign key and unique constraint with it.
Threads0021 ==
    << Columns("conversations", {"collaboration_id"}),
       Repair("two threads"),
       Release("conversations", "exactly_one_subject"),
       Without("conversations", {"collaboration_request_id"}),
       Refuses("two threads"), Constraint("conversations", "one_thread", "collaboration_id"),
       ForeignKey("conversations", "collaboration_id", "collaborations"),
       Constraint("conversations", "exactly_one_subject", "collaboration_id"),
       Release("collaboration_requests", "pending") >>
Upgrade0021 == Pairs0021 \o Threads0021
\* A pair's thread is about neither a request nor a project once the column has gone.
Downgrade0021 ==
    << Release("conversations", "exactly_one_subject"),
       Unlink("conversations", "collaboration_id"), Release("conversations", "one_thread"),
       Without("conversations", {"collaboration_id"}),
       Columns("conversations", {"collaboration_request_id"}),
       Constraint("conversations", "one_thread", "collaboration_request_id"),
       ForeignKey("conversations", "collaboration_request_id", "collaboration_requests"),
       Refuses("pair thread"),
       Constraint("conversations", "exactly_one_subject", "collaboration_request_id"),
       Unlink("collaboration_requests", "collaboration_id"),
       Without("collaboration_requests", {"collaboration_id"}),
       Drop("collaborations"), DropType("collaboration_state"),
       Constraint("collaboration_requests", "pending", "sender_id") >>

Upgrade0022 ==
    << Table("profile_imports", {}, {"users"}),
       Columns("researcher_profiles", {"orcid_id", "orcid_last_imported_at"}),
       Constraint("researcher_profiles", "orcid_id", "orcid_id") >>
Downgrade0022 ==
    << Release("researcher_profiles", "orcid_id"),
       Without("researcher_profiles", {"orcid_last_imported_at", "orcid_id"}),
       Drop("profile_imports") >>

Upgrade0023 ==
    << Table("milestones", {"milestone_status"}, {"users", "projects"}),
       Table("milestone_dependencies", {}, {"milestones"}),
       Value("notification_type", "milestone_due"),
       Value("notification_type", "milestone_overdue") >>
\* Fault: the type outlives the table that made it.
KeepsType0023 == << Drop("milestone_dependencies"), Drop("milestones") >>
Downgrade0023 ==
    << Drop("milestone_dependencies"), Drop("milestones"), DropType("milestone_status") >>

Upgrade0024 ==
    << Table("nudges", {"nudge_kind"}, {"users"}), Value("notification_type", "nudge_received") >>
Downgrade0024 == << Drop("nudges"), DropType("nudge_kind") >>

Upgrade0025 == << Literal("verification_status", "verified"), Literal("user_role", "admin") >>

Upgrade0026 ==
    << Columns("facilities", {"custodian_id"}),
       ForeignKey("facilities", "custodian_id", "users"),
       Value("user_role", "facility_custodian"), Value("user_role", "dean_of_research") >>
\* Refused while an account holds a role that came with it.
Downgrade0026 ==
    << Literal("user_role", "facility_custodian"), Literal("user_role", "dean_of_research"),
       Refuses("new role"),
       Unlink("facilities", "custodian_id"), Without("facilities", {"custodian_id"}) >>

Upgrade0027 ==
    << Table("publication_duplicates", {"duplicate_status"}, {"users", "publications"}) >>
Downgrade0027 == << Drop("publication_duplicates"), DropType("duplicate_status") >>

Upgrade0028 == << Value("notification_type", "collaboration_suggestion") >>
Upgrade0029 == << Value("nudge_kind", "project_at_risk") >>

Upgrade0030 == << Table("message_attachments", {}, {"messages"}) >>
Downgrade0030 == << Drop("message_attachments") >>

Upgrade0031 == << Literal("user_role", "admin"), Literal("user_role", "dean_of_research") >>

\* Fault: a bare enum, which is created with the table.
Bare0032 ==
    << Table("patents", {"patent_status", "verification_status"}, {"users"}),
       Table("patent_inventors", {}, {"patents", "users"}),
       Table("project_patents", {}, {"patents", "projects"}) >>
Upgrade0032 ==
    << Shares("patents", {"patent_status"}, {"verification_status"}, {"users"}),
       Table("patent_inventors", {}, {"patents", "users"}),
       Table("project_patents", {}, {"patents", "projects"}) >>
Downgrade0032 ==
    << Drop("project_patents"), Drop("patent_inventors"), Drop("patents"),
       DropType("patent_status") >>

Disclosure == {"reference", "problem_statement", "novelty", "known_prior_art",
               "public_disclosure_date", "public_disclosure_note", "funding_source",
               "commercial_potential", "assessment_note", "assessed_by", "assessed_at"}
\* The constraints compare as text, so they hold no literal of a value just added.
Upgrade0033 ==
    << Value("patent_status", "disclosed"), Value("patent_status", "under_assessment"),
       Value("patent_status", "approved_to_file"), Value("patent_status", "declined"),
       Columns("patents", Disclosure),
       Constraint("patents", "reference", "reference"),
       ForeignKey("patents", "assessed_by", "users"),
       Constraint("patents", "filing_date_exactly_when_filed", "filing_date"),
       Constraint("patents", "declining_gives_a_reason", "assessment_note") >>
\* A disclosure has no filing date.
Downgrade0033 ==
    << Release("patents", "declining_gives_a_reason"),
       Release("patents", "filing_date_exactly_when_filed"),
       Unlink("patents", "assessed_by"), Release("patents", "reference"),
       Refuses("not filed"), Without("patents", Disclosure) >>

Upgrade0034 ==
    << Shares("announcements", {"announcement_audience", "announcement_status"}, {"user_role"},
              {"departments", "users"}),
       Table("announcement_attachments", {}, {"announcements"}),
       Table("announcement_links", {}, {"announcements"}),
       Table("announcement_reads", {}, {"announcements", "users"}) >>
Downgrade0034 ==
    << Drop("announcement_reads"), Drop("announcement_links"), Drop("announcement_attachments"),
       Drop("announcements"), DropType("announcement_status"),
       DropType("announcement_audience") >>

Upgrade0035 ==
    << Value("notification_type", "request_received"),
       Value("notification_type", "request_decided"),
       Shares("personal_requests", {"request_category", "request_status"}, {"user_role"},
              {"users"}),
       Table("request_attachments", {}, {"personal_requests"}) >>
Downgrade0035 ==
    << Drop("request_attachments"), Drop("personal_requests"), DropType("request_status"),
       DropType("request_category") >>

Upgrade0036 ==
    << Columns("announcements", {"source_opportunity_id"}),
       Constraint("announcements", "source_opportunity_id", "source_opportunity_id"),
       ForeignKey("announcements", "source_opportunity_id", "opportunities") >>
Downgrade0036 ==
    << Unlink("announcements", "source_opportunity_id"),
       Release("announcements", "source_opportunity_id"),
       Without("announcements", {"source_opportunity_id"}) >>

----------------------------------------------------------------------------
\* The baseline, and indexes alone.
NothingToDo == <<>>

\* Revision n, from n - 1 and back to it.
upgrade ==
    << NothingToDo, Upgrade0002, Upgrade0003, Upgrade0004, Upgrade0005, Upgrade0006, Upgrade0007,
       Upgrade0008, Upgrade0009, Upgrade0010, Upgrade0011, Upgrade0012, Upgrade0013,
       Upgrade0014, NothingToDo, Upgrade0016, Upgrade0017, Upgrade0018, Upgrade0019,
       Upgrade0020, Upgrade0021, Upgrade0022, Upgrade0023, Upgrade0024, Upgrade0025,
       Upgrade0026, Upgrade0027, Upgrade0028, Upgrade0029, Upgrade0030, Upgrade0031,
       Upgrade0032, Upgrade0033, Upgrade0034, Upgrade0035, Upgrade0036 >>
downgrade ==
    << NothingToDo, Downgrade0002, Downgrade0003, Downgrade0004, Downgrade0005, Downgrade0006,
       Downgrade0007, Downgrade0008, Downgrade0009, Downgrade0010, Downgrade0011,
       Downgrade0012, Downgrade0013, Downgrade0014, NothingToDo, Downgrade0016, Downgrade0017,
       NothingToDo, Downgrade0019, NothingToDo, Downgrade0021, Downgrade0022, Downgrade0023,
       Downgrade0024, NothingToDo, Downgrade0026, Downgrade0027, NothingToDo, NothingToDo,
       Downgrade0030, NothingToDo, Downgrade0032, Downgrade0033, Downgrade0034, Downgrade0035,
       Downgrade0036 >>

\* Fresh[n + 1]: what a database built from nothing has at revision n.
Fresh ==
    FoldLeft(LAMBDA built, statements :
                 Append(built,
                        Execute(Open(built[Len(built)], {}, {}), statements).db),
             <<Nothing>>, upgrade)
=============================================================================
