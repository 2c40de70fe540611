------------------------------- MODULE Directory -------------------------------
(***************************************************************************)
(* What a role holds (core/permissions.py), and the people who have one    *)
(* (users/models.py), as the modules that read them see them: the row of   *)
(* the caller, loaded by core/deps.py, and the rows a handler selects by   *)
(* role and department.                                                    *)
(***************************************************************************)

CONSTANTS
    People,
    Departments,
    NoRow          \* no row, and NULL where a column may be

VARIABLE users     \* users[p]: the row of p, or NoRow

----------------------------------------------------------------------------
(* Roles and permissions *)

Roles == {"student", "faculty", "research_coordinator", "facility_custodian",
          "dean_of_research", "admin"}

\* The permissions of every role that manages accounts, and of every moderator.
Provisioning == {"user:create", "user:delete", "user:activate", "user:deactivate"}
Moderation == {"taxonomy:manage", "profile:verify", "project:review", "report:moderate",
               "analytics:read", "facility:manage", "booking:approve", "funding:manage",
               "publication:deduplicate", "patent:verify", "announcement:post"}

Permission ==
    Provisioning \cup Moderation \cup
    {"user:list", "user:update", "user:update_role", "audit:read", "school:manage",
     "department:manage", "student:discover", "project:create", "publication:create",
     "patent:create", "opportunity:create", "application:submit", "collaboration:send"}

OWN_PERMISSIONS(role) ==
    CASE role = "student" -> {"application:submit", "collaboration:send", "patent:create"}
      [] role = "faculty" -> Provisioning \cup
            {"student:discover", "project:create", "publication:create", "patent:create",
             "opportunity:create", "application:submit", "collaboration:send"}
      [] role = "research_coordinator" -> Moderation
      [] role = "facility_custodian" -> {"facility:manage", "booking:approve"}
      [] role = "dean_of_research" -> {"analytics:read", "project:review", "announcement:post"}
      [] role = "admin" -> Permission \ {"project:create", "publication:create",
                              "opportunity:create", "application:submit", "collaboration:send"}

\* ROLE_HIERARCHY: only a coordinator inherits, and from faculty, who inherit nothing.
InheritsFrom(role) == IF role = "research_coordinator" THEN {"faculty"} ELSE {}

\* _effective_permissions; the hierarchy is one level deep.
ROLE_PERMISSIONS(role) ==
    OWN_PERMISSIONS(role) \cup UNION {OWN_PERMISSIONS(r) : r \in InheritsFrom(role)}

\* The one role each role brings into the platform.
CREATABLE_ROLE(role) ==
    CASE role = "admin" -> {"research_coordinator"}
      [] role = "research_coordinator" -> {"faculty"}
      [] role = "faculty" -> {"student"}
      [] OTHER -> {}

INSTITUTION_WIDE_ROLES == {"admin", "dean_of_research"}
CUSTODIAN_APPOINTERS == {"research_coordinator", "admin"}
APPOINTABLE_BY_ADMIN == Roles \ {"admin"}

DELETABLE_ROLES(role) ==
    CASE role = "admin" -> Roles
      [] role = "research_coordinator" -> {"student", "faculty", "facility_custodian"}
      [] role = "faculty" -> {"student"}
      [] OTHER -> {}

\* Whom a role may put a request to: only upward.
REQUEST_RECIPIENT_ROLES(role) ==
    CASE role = "student" -> {"faculty", "research_coordinator"}
      [] role \in {"faculty", "facility_custodian"} ->
            {"research_coordinator"} \cup INSTITUTION_WIDE_ROLES
      [] role = "research_coordinator" -> INSTITUTION_WIDE_ROLES
      [] role = "dean_of_research" -> {"admin"}
      [] OTHER -> {}

----------------------------------------------------------------------------
(* People *)

UserRow == [role : Roles, department : Departments \cup {NoRow}, active : BOOLEAN]
UsersTypeOK == users \in [People -> UserRow \cup {NoRow}]

Exists(p) == users[p] # NoRow

\* get_current_user: only an active account is let in.
SignedIn(p) == Exists(p) /\ users[p].active

\* require_permission
May(p, permission) == SignedIn(p) /\ permission \in ROLE_PERMISSIONS(users[p].role)

InstitutionWide(p) == users[p].role \in INSTITUTION_WIDE_ROLES
SameDepartment(p, q) ==
    users[p].department # NoRow /\ users[p].department = users[q].department
=============================================================================
