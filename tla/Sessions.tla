------------------------------- MODULE Sessions -------------------------------
(***************************************************************************)
(* Signing in and out (auth/service.py, and what admin/service.py does to  *)
(* sessions): families of refresh tokens that replace one another, and the *)
(* password wall.  An access token opens nothing by itself: every request  *)
(* reads the account again (core/deps.py).                                 *)
(*                                                                         *)
(* A handler reads, and commits later.  The UPDATE that revokes tokens     *)
(* revokes those that were committed when it ran.                          *)
(***************************************************************************)
EXTENDS Directory

CONSTANTS
    Watched,       \* whose sessions are followed
    Tokens,        \* keys of refresh_tokens
    Workers

VARIABLES
    token,         \* token[t]: the row of t, or NoRow
    handed,        \* whose password somebody else has handed to them
    owes,          \* who must change their password
    ended,         \* ghost: the families somebody has ended
    work,
    crossed        \* ghost: families and people of which a handler overtook another

sessionVars == <<token, handed, owes, ended, work, crossed>>

\* A family is named by the token it began with.
TokenRow == [of : People, family : Tokens, revoked : BOOLEAN]

Idle == [op |-> "idle"]
Work ==
    {Idle}
    \cup [op : {"login"}, by : People]
    \cup [op : {"rotate", "logout"}, of : Tokens]
    \cup [op : {"replay"}, family : Tokens, seen : SUBSET Tokens]
    \cup [op : {"change", "reset", "deactivate"}, by : People, owed : BOOLEAN,
          seen : SUBSET Tokens]

Stored == {t \in Tokens : token[t] # NoRow}
Live == {t \in Stored : ~token[t].revoked}
LiveOf(p) == {t \in Live : token[t].of = p}
Family(f) == {t \in Stored : token[t].family = f}

Init ==
    /\ token = [t \in Tokens |-> NoRow]
    \* An account begins with a password that was handed out.
    /\ handed \in SUBSET {p \in Watched : Exists(p)}
    /\ owes = handed
    /\ ended = {}
    /\ work = [w \in Workers |-> Idle]
    /\ crossed = {}

\* A key nobody has: it is drawn at random, and which one it is makes no difference.
Fresh == CHOOSE t \in Tokens : t \notin Stored

Begin(w, t) == work[w] = Idle /\ work' = [work EXCEPT ![w] = t]
End(w) == work' = [work EXCEPT ![w] = Idle]
RowsUnchanged == UNCHANGED <<users, token, handed, owes, ended, crossed>>

----------------------------------------------------------------------------
(* Signing in, and staying signed in *)

\* authenticate
LoginLoad(w, p) ==
    /\ SignedIn(p) /\ p \in Watched
    /\ Begin(w, [op |-> "login", by |-> p])
    /\ RowsUnchanged

\* issue_tokens: a family of its own.
LoginCommit(w) ==
    /\ work[w].op = "login" /\ Exists(work[w].by)
    /\ Stored # Tokens
    /\ token' = [token EXCEPT ![Fresh] =
          [of |-> work[w].by, family |-> Fresh, revoked |-> FALSE]]
    /\ End(w)
    /\ UNCHANGED <<users, handed, owes, ended, crossed>>

\* rotate_refresh_token, on a token that is good; one that has expired is never rotated.
RotateLoad(w, t) ==
    /\ t \in Live
    /\ SignedIn(token[t].of)
    /\ Begin(w, [op |-> "rotate", of |-> t])
    /\ RowsUnchanged

\* Fault: the token that was exchanged stays good.
ExchangedKeepingOld(t) ==
    [token EXCEPT ![Fresh] = [of |-> token[t].of, family |-> token[t].family,
                            revoked |-> FALSE]]

\* The old row is revoked, its successor is in the same family.
Exchanged(t) ==
    [token EXCEPT ![t].revoked = TRUE,
                  ![Fresh] = [of |-> token[t].of, family |-> token[t].family,
                            revoked |-> FALSE]]

\* Overtaken: somebody revoked or rotated the token after it was read.
RotateCommit(w) ==
    LET t == work[w].of IN
    /\ work[w].op = "rotate" /\ t \in Stored
    /\ Stored # Tokens
    /\ token' = Exchanged(t)
    /\ crossed' = IF t \in Live THEN crossed ELSE crossed \cup {token[t].family}
    /\ End(w)
    /\ UNCHANGED <<users, handed, owes, ended>>

\* The same route, on a token that was revoked: _revoke_family.
ReplayLoad(w, t) ==
    /\ t \in Stored \ Live
    /\ Begin(w, [op |-> "replay", family |-> token[t].family,
                 seen |-> Live \cap Family(token[t].family)])
    /\ RowsUnchanged

----------------------------------------------------------------------------
(* Signing out *)

LogoutLoad(w, t) ==
    /\ t \in Live
    /\ Begin(w, [op |-> "logout", of |-> t])
    /\ RowsUnchanged

\* Only the presented token; of a family with nothing else that is live, all of it.
LogoutCommit(w) ==
    LET t == work[w].of IN
    /\ work[w].op = "logout" /\ t \in Stored
    /\ token' = [token EXCEPT ![t].revoked = TRUE]
    /\ ended' = ended \cup {token[t].family}
    /\ crossed' = IF t \in Live THEN crossed ELSE crossed \cup {token[t].family}
    /\ End(w)
    /\ UNCHANGED <<users, handed, owes>>

SignOutLoad(w, op, p) ==
    /\ Begin(w, [op |-> op, by |-> p, owed |-> p \in owes, seen |-> LiveOf(p)])
    /\ RowsUnchanged

\* change_password, by somebody who knows the current one; the wall lets this through.
ChangePassword(w, p) == SignedIn(p) /\ p \in Watched /\ SignOutLoad(w, "change", p)

\* reset_temporary_password, and set_active to false.
ResetPassword(w, actor, p) ==
    /\ May(actor, "user:update") /\ Exists(p) /\ actor # p /\ p \in Watched
    /\ SignOutLoad(w, "reset", p)
Deactivate(w, actor, p) ==
    /\ May(actor, "user:deactivate") /\ SignedIn(p) /\ p \in Watched
    /\ SignOutLoad(w, "deactivate", p)

\* Fault: the tokens of the account are left as they are.
RevokedNone(seen) == token

\* revoke_all_sessions, and _revoke_family.
Revoked(seen) ==
    [t \in Tokens |-> IF t \in seen \cap Stored THEN [token[t] EXCEPT !.revoked = TRUE]
                      ELSE token[t]]

FamiliesOf(p) == {token[t].family : t \in {t \in Stored : token[t].of = p}}

ReplayCommit(w) ==
    LET t == work[w] IN
    /\ t.op = "replay"
    /\ token' = Revoked(t.seen)
    /\ ended' = ended \cup ({t.family} \cap Stored)
    /\ crossed' = crossed \cup {f \in {t.family} : ~(Family(f) \cap Live \subseteq t.seen)}
    /\ End(w)
    /\ UNCHANGED <<users, handed, owes>>

\* Fault: the wall is not put up again.
OwingOnce(t, owing) == owes \ {t.by}

\* What a handler writes of must_change_password: only what it changes.
Owing(t, owing) ==
    IF t.owed = owing THEN owes ELSE IF owing THEN owes \cup {t.by} ELSE owes \ {t.by}

\* Overtaken: a rotation committed meanwhile, or somebody else set the password.
SignOutCommit(w) ==
    LET t == work[w] IN
    /\ t.op \in {"change", "reset", "deactivate"} /\ Exists(t.by)
    /\ token' = Revoked(t.seen)
    /\ ended' = ended \cup FamiliesOf(t.by)
    /\ crossed' = crossed
          \cup {f \in FamiliesOf(t.by) : ~(Family(f) \cap Live \subseteq t.seen)}
          \cup (IF t.owed = (t.by \in owes) THEN {} ELSE {t.by})
    /\ IF t.op = "deactivate"
       THEN /\ users' = [users EXCEPT ![t.by].active = FALSE]
            /\ UNCHANGED <<handed, owes>>
       ELSE /\ handed' = IF t.op = "reset" THEN handed \cup {t.by} ELSE handed \ {t.by}
            /\ owes' = Owing(t, t.op = "reset")
            /\ UNCHANGED users
    /\ End(w)

Rollback(w) ==
    /\ work[w] # Idle
    /\ End(w)
    /\ RowsUnchanged

----------------------------------------------------------------------------
(* Accounts *)

Activate(actor, p) ==
    /\ May(actor, "user:activate") /\ Exists(p) /\ ~users[p].active
    /\ users' = [users EXCEPT ![p].active = TRUE]
    /\ UNCHANGED <<token, handed, owes, ended, work, crossed>>

\* refresh_tokens.user_id is CASCADE.
AccountDeleted(p) ==
    /\ Exists(p)
    /\ users' = [users EXCEPT ![p] = NoRow]
    /\ token' = [t \in Tokens |-> IF t \in Stored /\ token[t].of = p THEN NoRow ELSE token[t]]
    /\ crossed' = crossed \cup FamiliesOf(p)
    /\ handed' = handed \ {p} /\ owes' = owes \ {p}
    /\ UNCHANGED <<ended, work>>

Next ==
    \/ \E w \in Workers :
          \/ \E p \in People : LoginLoad(w, p) \/ ChangePassword(w, p)
          \/ \E a, p \in People : ResetPassword(w, a, p) \/ Deactivate(w, a, p)
          \/ \E t \in Tokens :
                RotateLoad(w, t) \/ ReplayLoad(w, t) \/ LogoutLoad(w, t)
          \/ LoginCommit(w) \/ RotateCommit(w) \/ ReplayCommit(w)
          \/ LogoutCommit(w) \/ SignOutCommit(w) \/ Rollback(w)
    \/ \E a, p \in People : Activate(a, p)
    \/ \E p \in Watched : AccountDeleted(p)

Spec == UsersTypeOK /\ Init /\ [][Next]_<<users, sessionVars>>

----------------------------------------------------------------------------
TypeOK ==
    /\ UsersTypeOK
    /\ token \in [Tokens -> TokenRow \cup {NoRow}]
    /\ handed \subseteq People /\ owes \subseteq People
    /\ ended \subseteq Tokens
    /\ work \in [Workers -> Work]
    /\ crossed \subseteq Tokens \cup People

\* A family of sessions has one live token at most, and none once somebody signed it out,
\* signed out everywhere, or presented a token of it a second time -- unless a rotation
\* that had read a token of it committed at the same time.
EndedStaysEnded ==
    \A f \in Tokens \ crossed :
        /\ \A s, t \in Family(f) \cap Live : s = t
        /\ f \in ended => Family(f) \cap Live = {}

\* Whoever has a password that somebody else knows is behind the wall, unless they chose a
\* new one while another was being handed to them.
HandedMeansWalled == handed \subseteq owes \cup crossed

\* Both: a session, and an account, are their owner's.
SessionsAreTheirOwners == EndedStaysEnded /\ HandedMeansWalled
=============================================================================
