-------------------------------- MODULE Accounts --------------------------------
(***************************************************************************)
(* Accounts of staff (auth/admin_routes.py, auth/routes.py,                *)
(* auth/service.py): created, activated and deactivated, given roles, and  *)
(* signed in with refresh tokens that are exchanged at each use and whose  *)
(* ledger is the audit log.                                                *)
(*                                                                         *)
(* A request checks first and writes later; the transactions are READ      *)
(* COMMITTED and nothing is locked between the two.  Roles are kept as the *)
(* rows of core.user_roles, since a DELETE removes the rows it saw when it *)
(* started and no others.  Passwords, e-mail addresses and the expiry of   *)
(* tokens are left out: they refuse requests and change nothing else.      *)
(***************************************************************************)
EXTENDS Naturals

CONSTANTS
    Users,        \* user ids
    Founder,      \* the administrator the database is set up with
    Roles,        \* role codes
    AdminRole,    \* the role with user:manage, user:create and role:manage
    Units,        \* units of the organisation a role can be held in, or none
    RoleRequests, \* what is asked for: roles, at least one, and the unit to hold them in
    HomeUnit,     \* the founder's
    Sessions,     \* database sessions of requests
    NoUser,
    MaxAssignments,  \* no replacement starts after so many committed assignments
    MaxTokens        \* no more refresh tokens than this

ASSUME AccountNames ==
    Founder \in Users /\ AdminRole \in Roles /\ HomeUnit \in Units /\ NoUser \notin Users
ASSUME SomeRoleIsAsked == RoleRequests \subseteq ((SUBSET Roles) \ {{}}) \X Units
ASSUME AccountBounds == MaxAssignments \in Nat /\ MaxTokens \in Nat

VARIABLES
    users,    \* core.users and core.user_roles
    tokens,   \* refresh tokens, as the rows about them in the audit log say
    session   \* what each request has read and not committed

vars == <<users, tokens, session>>

-----------------------------------------------------------------------------
Tokens == 1 .. MaxTokens
NoToken == 0

\* A row of user_roles.  The rest is history: which assignment of the user's roles,
\* in the order of their commits, inserted it, and how many had been committed when
\* that one began.
Grant == [role : Roles, unit : Units, began : Nat, number : Nat]

\* ux_user_roles_identity, of the rows of one user
KeyOf(grant) == <<grant.role, grant.unit>>

Granted(keys, began, number) ==
    {[role |-> key[1], unit |-> key[2], began |-> began, number |-> number] : key \in keys}

\* assignments: how many of the user's role sets were audited and committed
User == [present : BOOLEAN, is_active : BOOLEAN, grants : SUBSET Grant, assignments : Nat]

AbsentUser == [present |-> FALSE, is_active |-> FALSE, grants |-> {}, assignments |-> 0]

UserWith(keys) ==
    [present |-> TRUE, is_active |-> TRUE, grants |-> Granted(keys, 0, 1), assignments |-> 1]

\* login: the first token of the chain of exchanges the token belongs to
Token == [user : Users \cup {NoUser}, login : Tokens \cup {NoToken},
          action : {"none", "issue", "revoke"}]

UnissuedToken == [user |-> NoUser, login |-> NoToken, action |-> "none"]

Session == [pc : {"idle", "authorized", "replacing", "granted", "signing", "rotating"},
            user : Users \cup {NoUser}, token : Tokens \cup {NoToken},
            asked : SUBSET (Roles \X Units), began : Nat, deleted : SUBSET Grant]

IdleSession == [pc |-> "idle", user |-> NoUser, token |-> NoToken,
                asked |-> {}, began |-> 0, deleted |-> {}]

Init ==
    /\ users = [u \in Users |-> IF u = Founder THEN UserWith({<<AdminRole, HomeUnit>>})
                                     ELSE AbsentUser]
    /\ tokens = [t \in Tokens |-> UnissuedToken]
    /\ session = [s \in Sessions |-> IdleSession]

-----------------------------------------------------------------------------
At(s, pc) == session[s].pc = pc

Enters(s, request) == session' = [session EXCEPT ![s] = request]

Ends(s) == Enters(s, IdleSession)

\* load_user_context and require: the roles are read from the tables.
MayManage(a) == users[a].is_active /\ \E g \in users[a].grants : g.role = AdminRole

Authorize(s, a) ==
    /\ At(s, "idle")
    /\ MayManage(a)
    /\ Enters(s, [IdleSession EXCEPT !.pc = "authorized", !.user = a])
    /\ UNCHANGED <<users, tokens>>

\* The unique address refuses an account that exists.
CreateUser(s, u, roles, unit) ==
    /\ At(s, "authorized")
    /\ ~users[u].present
    /\ users' = [users EXCEPT ![u] = UserWith(roles \X {unit})]
    /\ Ends(s)
    /\ UNCHANGED tokens

SetUserStatus(s, u, active) ==
    /\ At(s, "authorized")
    /\ users[u].present
    /\ active \/ u # session[s].user
    /\ users' = [users EXCEPT ![u].is_active = active]
    /\ Ends(s)
    /\ UNCHANGED tokens

-----------------------------------------------------------------------------
(* replace_user_roles *)

\* Mutant: the roles held in another unit are not deleted.
StartReplacingInUnit(s, u, roles, unit) ==
    /\ At(s, "authorized")
    /\ users[u].present /\ users[u].assignments < MaxAssignments
    /\ Enters(s, [pc |-> "replacing", user |-> u, token |-> NoToken, asked |-> roles \X {unit},
                  began |-> users[u].assignments,
                  deleted |-> {g \in users[u].grants : g.unit = unit}])
    /\ UNCHANGED <<users, tokens>>

\* DELETE sees the rows committed when it starts, in every unit...
StartReplacing(s, u, roles, unit) ==
    /\ At(s, "authorized")
    /\ users[u].present /\ users[u].assignments < MaxAssignments
    /\ Enters(s, [pc |-> "replacing", user |-> u, token |-> NoToken, asked |-> roles \X {unit},
                  began |-> users[u].assignments, deleted |-> users[u].grants])
    /\ UNCHANGED <<users, tokens>>

\* The committed rows that a request has deleted.
Deleting(t) == session[t].deleted \cap users[session[t].user].grants

\* The keys in the unique index that depend on how a request ends.
Unsettled(t) == session[t].asked \cup {KeyOf(g) : g \in Deleting(t)}

\* ... waits for those who delete the same rows, and INSERT for those who insert or
\* delete a row with the same key.
MustWait(s) ==
    \E t \in Sessions \ {s} :
        /\ At(t, "granted") /\ session[t].user = session[s].user
        /\ \/ Deleting(t) \cap session[s].deleted # {}
           \/ Unsettled(t) \cap session[s].asked # {}

\* The unique index on user, role and unit.
AlreadyGranted(s) ==
    \E g \in users[session[s].user].grants \ session[s].deleted : KeyOf(g) \in session[s].asked

\* DELETE and INSERT; a role that was granted meanwhile in the unit fails the
\* request, and what it deleted comes back.
GrantRoles(s) ==
    /\ At(s, "replacing")
    /\ ~MustWait(s)
    /\ IF AlreadyGranted(s) THEN Ends(s) ELSE Enters(s, [session[s] EXCEPT !.pc = "granted"])
    /\ UNCHANGED <<users, tokens>>

\* Mutant: the new roles are inserted first, and deleted with the old ones.
GrantedFirst(s) == users[session[s].user].grants \ session[s].deleted

GrantedLast(s) ==
    LET user == users[session[s].user] IN
    (user.grants \ session[s].deleted)
        \cup Granted(session[s].asked, session[s].began, user.assignments + 1)

NewGrants(s) == GrantedLast(s)

CommitRoles(s) ==
    /\ At(s, "granted")
    /\ LET u == session[s].user
           user == users[u]
       IN  users' = [users EXCEPT ![u] = [user EXCEPT !.grants = NewGrants(s),
                                                      !.assignments = user.assignments + 1]]
    /\ Ends(s)
    /\ UNCHANGED tokens

-----------------------------------------------------------------------------
(* authenticate_user, issue_token_pair, rotate_refresh_token, revoke_refresh_token *)

SignIn(s, u) ==
    /\ At(s, "idle")
    /\ users[u].is_active
    /\ Enters(s, [IdleSession EXCEPT !.pc = "signing", !.user = u])
    /\ UNCHANGED <<users, tokens>>

\* The next token to be issued.
IsNew(t) == tokens[t].action = "none" /\ \A i \in 1 .. (t - 1) : tokens[i].action # "none"

IssueFirst(s, t) ==
    /\ At(s, "signing")
    /\ IsNew(t)
    /\ tokens' = [tokens EXCEPT ![t] = [user |-> session[s].user, login |-> t, action |-> "issue"]]
    /\ Ends(s)
    /\ UNCHANGED users

\* The newest row about the token is the one that issued it.
IsCurrent(t) == tokens[t].action = "issue"

\* Some row issued it.
WasIssued(t) == tokens[t].action # "none"

Exchangeable(t) == IsCurrent(t)

CheckToken(s, t) ==
    /\ At(s, "idle")
    /\ tokens[t].user # NoUser
    /\ Exchangeable(t)
    /\ users[tokens[t].user].is_active
    /\ Enters(s, [IdleSession EXCEPT !.pc = "rotating", !.token = t])
    /\ UNCHANGED <<users, tokens>>

Rotate(s, t) ==
    /\ At(s, "rotating")
    /\ IsNew(t)
    /\ LET old == session[s].token
       IN  tokens' = [tokens EXCEPT ![old].action = "revoke",
                                    ![t] = [tokens[old] EXCEPT !.action = "issue"]]
    /\ Ends(s)
    /\ UNCHANGED users

\* Whatever the ledger says of the token.
Logout(t) ==
    /\ tokens[t].user # NoUser
    /\ tokens' = [tokens EXCEPT ![t].action = "revoke"]
    /\ UNCHANGED <<users, session>>

-----------------------------------------------------------------------------
\* A request that fails: its session is closed without a commit.
GiveUp(s) ==
    /\ ~At(s, "idle")
    /\ Ends(s)
    /\ UNCHANGED <<users, tokens>>

Next ==
    \/ \E s \in Sessions, u \in Users : Authorize(s, u) \/ SignIn(s, u)
    \/ \E s \in Sessions, u \in Users, active \in BOOLEAN : SetUserStatus(s, u, active)
    \/ \E s \in Sessions, u \in Users, request \in RoleRequests :
           CreateUser(s, u, request[1], request[2]) \/ StartReplacing(s, u, request[1], request[2])
    \/ \E s \in Sessions, t \in Tokens : IssueFirst(s, t) \/ CheckToken(s, t) \/ Rotate(s, t)
    \/ \E s \in Sessions : GrantRoles(s) \/ CommitRoles(s) \/ GiveUp(s)
    \/ \E t \in Tokens : Logout(t)

Spec == Init /\ [][Next]_vars

-----------------------------------------------------------------------------
(* Properties *)

\* Every variable has its type, and nobody is left without a role.
TypeOK ==
    /\ users \in [Users -> User]
    /\ \A u \in Users : users[u].present => users[u].grants # {}
    /\ tokens \in [Tokens -> Token]
    /\ session \in [Sessions -> Session]

\* A role outlives a newer assignment of the user's roles only if the request that
\* made the newer one had started its DELETE before the role was committed: what a
\* user holds beyond the newest audit row comes from replacements that overlapped,
\* whatever units the roles were held in and whoever waited, failed or gave up
\* (replace_user_roles).
RolesPileUpByOverlapOnly ==
    \A u \in Users : \A old, new \in users[u].grants :
        old.number < new.number => new.began < old.number

Live(login) == \E t \in Tokens : tokens[t].login = login /\ tokens[t].action = "issue"

BeingExchanged(login) == \E s \in Sessions : At(s, "rotating") /\ tokens[session[s].token].login = login

\* A login whose last token was revoked, with no exchange of one under way,
\* has ended for good, however its tokens were exchanged and logged out
\* (rotate_refresh_token).
EndedLoginsStayEnded ==
    \A t \in Tokens :
        [](tokens[t].login = t /\ ~Live(t) /\ ~BeingExchanged(t) => []~Live(t))
=============================================================================
