--------------------------- MODULE AccountsProofs ---------------------------
(***************************************************************************)
(* Theorems about accounts, their roles and their refresh tokens, for any  *)
(* number of users, roles, units, sessions and tokens.                     *)
(***************************************************************************)
EXTENDS Accounts, TLAPS

-----------------------------------------------------------------------------
(* The inductive invariant *)

\* A token that was not issued belongs to nobody; one that was has a user and a
\* login.
TokensOK ==
    \A t \in Tokens :
        IF tokens[t].action = "none" THEN tokens[t] = UnissuedToken
        ELSE tokens[t].user \in Users /\ tokens[t].login \in Tokens

\* Every row was inserted by an assignment that has been committed.
GrantsOK ==
    \A u \in Users : \A g \in users[u].grants : g.number <= users[u].assignments

\* A replacement deletes every row there was when its DELETE started.
Replaces(q) ==
    /\ q.asked # {}
    /\ users[q.user].present /\ q.began <= users[q.user].assignments
    /\ \A g \in users[q.user].grants : g.number <= q.began => g \in q.deleted

\* A request holds what its next step needs: a user, roles to replace, or a token
\* that was issued.
SessionOK(q) ==
    /\ q.pc \in {"authorized", "replacing", "granted", "signing"} => q.user \in Users
    /\ q.pc \in {"replacing", "granted"} => Replaces(q)
    /\ q.pc = "rotating" => q.token \in Tokens /\ tokens[q.token].action # "none"

SessionsOK == \A s \in Sessions : SessionOK(session[s])

IInv ==
    /\ TypeOK
    /\ TokensOK
    /\ GrantsOK
    /\ SessionsOK
    /\ RolesPileUpByOverlapOnly

-----------------------------------------------------------------------------
(* Lemmas *)

\* A request that holds nothing is one that asks for nothing.
LEMMA IdleType == IdleSession \in Session /\ IdleSession.pc = "idle"
  BY DEF IdleSession, Session

\* A request of a user that begins.
LEMMA BegunSession ==
    ASSUME NEW pc, NEW u
    PROVE  [IdleSession EXCEPT !.pc = pc, !.user = u]
             = [pc |-> pc, user |-> u, token |-> NoToken, asked |-> {}, began |-> 0, deleted |-> {}]
  <1>1. PICK x : x = [IdleSession EXCEPT !.pc = pc]
    OBVIOUS
  <1>2. x = [pc |-> pc, user |-> NoUser, token |-> NoToken,
             asked |-> {}, began |-> 0, deleted |-> {}]
    BY <1>1 DEF IdleSession
  <1>3. [x EXCEPT !.user = u]
          = [pc |-> pc, user |-> u, token |-> NoToken, asked |-> {}, began |-> 0, deleted |-> {}]
    BY <1>2
  <1>4. QED
    BY <1>1, <1>3

\* The rows an assignment inserts: one of each key, all with its number.
LEMMA GrantedRows ==
    ASSUME NEW keys \in SUBSET (Roles \X Units), NEW began \in Nat, NEW number \in Nat
    PROVE  /\ Granted(keys, began, number) \in SUBSET Grant
           /\ \A g \in Granted(keys, began, number) : g.began = began /\ g.number = number
           /\ keys # {} => Granted(keys, began, number) # {}
  <1>1. ASSUME NEW key \in keys, NEW g,
               g = [role |-> key[1], unit |-> key[2], began |-> began, number |-> number]
        PROVE  g \in Grant /\ g.began = began /\ g.number = number
    BY <1>1 DEF Grant
  <1>2. \A g \in Granted(keys, began, number) :
            g \in Grant /\ g.began = began /\ g.number = number
    BY <1>1 DEF Granted
  <1>3. \A key \in keys :
            [role |-> key[1], unit |-> key[2], began |-> began, number |-> number]
              \in Granted(keys, began, number)
    BY DEF Granted
  <1>4. QED
    BY <1>2, <1>3

\* An account that is created, with the roles that are asked for.
LEMMA UserWithType ==
    ASSUME NEW keys \in SUBSET (Roles \X Units), keys # {}
    PROVE  /\ UserWith(keys) \in User
           /\ UserWith(keys).present /\ UserWith(keys).assignments = 1
           /\ UserWith(keys).grants # {}
           /\ \A g \in UserWith(keys).grants : g.number = 1
  <1>1. PICK rows : rows = Granted(keys, 0, 1)
    OBVIOUS
  <1>2. rows \in SUBSET Grant /\ rows # {} /\ \A g \in rows : g.number = 1
    BY <1>1, GrantedRows
  <1>3. QED
    BY <1>1, <1>2 DEF UserWith, User

\* Roles that are asked for are roles, and some, in one unit.
LEMMA AskedRoles ==
    ASSUME NEW request \in RoleRequests
    PROVE  request[1] \X {request[2]} \in SUBSET (Roles \X Units) /\ request[1] \X {request[2]} # {}
  <1>1. PICK roles \in (SUBSET Roles) \ {{}}, unit \in Units : request = <<roles, unit>>
    BY SomeRoleIsAsked
  <1>2. PICK r \in Roles : r \in roles
    BY <1>1
  <1>3. <<r, unit>> \in roles \X {unit}
    BY <1>2
  <1>4. QED
    BY <1>1, <1>3

\* A request keeps what it needs while the accounts are left alone and no token is
\* taken back.
LEMMA RequestStays ==
    ASSUME UNCHANGED users, NEW q, SessionOK(q),
           \A t \in Tokens : tokens[t].action # "none" => tokens'[t].action # "none"
    PROVE  SessionOK(q)'
  BY DEF SessionOK, Replaces

\* One request goes on with what it needs, and the others keep what they need.
LEMMA SessionMoves ==
    ASSUME IInv, NEW s \in Sessions, NEW q \in Session, Enters(s, q), SessionOK(q)',
           \A p \in Session : SessionOK(p) => SessionOK(p)'
    PROVE  session' \in [Sessions -> Session] /\ SessionsOK'
  <1>1. session \in [Sessions -> Session]
    BY DEF IInv, TypeOK
  <1>2. \A x \in Sessions : session'[x] = IF x = s THEN q ELSE session[x]
    BY <1>1 DEF Enters
  <1>3. session' \in [Sessions -> Session]
    BY <1>1 DEF Enters
  <1>4. SUFFICES ASSUME NEW x \in Sessions, NEW held, held = session'[x]
                 PROVE  SessionOK(held)'
    BY <1>3 DEF SessionsOK
  <1>5. CASE x = s
    BY <1>2, <1>4, <1>5
  <1>6. CASE x # s
    <2>1. held = session[x] /\ held \in Session
      BY <1>1, <1>2, <1>4, <1>6
    <2>2. SessionOK(held)
      BY <2>1 DEF IInv, SessionsOK
    <2>3. QED
      BY <2>1, <2>2
  <1>7. QED
    BY <1>5, <1>6

\* A request that reads and writes nothing.
LEMMA ReadingKeeps ==
    ASSUME IInv, NEW s \in Sessions, NEW q \in Session, Enters(s, q), UNCHANGED <<users, tokens>>,
           SessionOK(q)
    PROVE  IInv'
  <1>1. SessionOK(q)' /\ \A p \in Session : SessionOK(p) => SessionOK(p)'
    BY RequestStays
  <1>2. session' \in [Sessions -> Session] /\ SessionsOK'
    BY <1>1, SessionMoves
  <1>3. TypeOK' /\ TokensOK' /\ GrantsOK' /\ RolesPileUpByOverlapOnly'
    BY <1>2 DEF IInv, TypeOK, TokensOK, GrantsOK, RolesPileUpByOverlapOnly
  <1>4. QED
    BY <1>2, <1>3 DEF IInv

\* A request that ends leaves the sessions right, if it leaves the others what they
\* need.
LEMMA EndingKeeps ==
    ASSUME IInv, NEW s \in Sessions, Ends(s), \A p \in Session : SessionOK(p) => SessionOK(p)'
    PROVE  session' \in [Sessions -> Session] /\ SessionsOK'
  <1>1. PICK q : q = IdleSession
    OBVIOUS
  <1>2. q \in Session /\ q.pc = "idle" /\ Enters(s, q)
    BY <1>1, IdleType DEF Ends
  <1>3. SessionOK(q)'
    BY <1>2 DEF SessionOK
  <1>4. QED
    BY <1>2, <1>3, SessionMoves

\* A request that ends and has written nothing.
LEMMA FailingKeeps ==
    ASSUME IInv, NEW s \in Sessions, Ends(s), UNCHANGED <<users, tokens>>
    PROVE  IInv'
  <1>1. PICK q : q = IdleSession
    OBVIOUS
  <1>2. q \in Session /\ q.pc = "idle" /\ Enters(s, q)
    BY <1>1, IdleType DEF Ends
  <1>3. SessionOK(q)
    BY <1>2 DEF SessionOK
  <1>4. QED
    BY <1>2, <1>3, ReadingKeeps

-----------------------------------------------------------------------------
(* Administrators *)

\* A request that begins, whoever asks.
LEMMA BeginningKeeps ==
    ASSUME IInv, NEW s \in Sessions, NEW u \in Users, Authorize(s, u) \/ SignIn(s, u)
    PROVE  IInv'
  <1>1. PICK pc \in {"authorized", "signing"} :
            /\ Enters(s, [IdleSession EXCEPT !.pc = pc, !.user = u])
            /\ UNCHANGED <<users, tokens>>
    BY DEF Authorize, SignIn
  <1>2. PICK q : q = [pc |-> pc, user |-> u, token |-> NoToken,
                      asked |-> {}, began |-> 0, deleted |-> {}]
    OBVIOUS
  <1>3. q = [IdleSession EXCEPT !.pc = pc, !.user = u]
    BY <1>2, BegunSession
  <1>4. q \in Session /\ q.pc = pc /\ q.user = u
    BY <1>2 DEF Session
  <1>5. SessionOK(q)
    BY <1>4 DEF SessionOK
  <1>6. QED
    BY <1>1, <1>3, <1>4, <1>5, ReadingKeeps

\* A replacement starts its DELETE.
LEMMA StartReplacingKeeps ==
    ASSUME IInv, NEW s \in Sessions, NEW u \in Users, NEW request \in RoleRequests,
           StartReplacing(s, u, request[1], request[2])
    PROVE  IInv'
  <1>1. PICK asked : asked = request[1] \X {request[2]}
    OBVIOUS
  <1>2. asked \in SUBSET (Roles \X Units) /\ asked # {}
    BY <1>1, AskedRoles
  <1>3. PICK row \in User : row = users[u]
    BY DEF IInv, TypeOK
  <1>4. PICK q : q = [pc |-> "replacing", user |-> u, token |-> NoToken, asked |-> asked,
                      began |-> row.assignments, deleted |-> row.grants]
    OBVIOUS
  <1>5. /\ q \in Session /\ q.pc = "replacing" /\ q.user = u /\ q.asked = asked
        /\ q.began = row.assignments /\ q.deleted = row.grants
    BY <1>2, <1>3, <1>4 DEF Session, User
  <1>6. Enters(s, q) /\ UNCHANGED <<users, tokens>> /\ row.present
    BY <1>1, <1>3, <1>4 DEF StartReplacing
  <1>7. row.assignments \in Nat
    BY <1>3 DEF User
  <1>8. Replaces(q)
    BY <1>2, <1>3, <1>5, <1>6, <1>7 DEF Replaces
  <1>9. SessionOK(q)
    BY <1>5, <1>8 DEF SessionOK
  <1>10. QED
    BY <1>5, <1>6, <1>9, ReadingKeeps

\* A replacement inserts its roles, or fails on one that is there.
LEMMA GrantRolesKeeps ==
    ASSUME IInv, NEW s \in Sessions, GrantRoles(s)
    PROVE  IInv'
  <1>1. session[s] \in Session /\ session[s].pc = "replacing" /\ UNCHANGED <<users, tokens>>
    BY DEF IInv, TypeOK, GrantRoles, At
  <1>2. CASE Ends(s)
    BY <1>1, <1>2, FailingKeeps
  <1>3. CASE Enters(s, [session[s] EXCEPT !.pc = "granted"])
    <2>1. PICK p : p = session[s]
      OBVIOUS
    <2>2. PICK q : q = [p EXCEPT !.pc = "granted"]
      OBVIOUS
    <2>3. /\ q \in Session /\ q.pc = "granted" /\ q.user = p.user /\ q.asked = p.asked
          /\ q.began = p.began /\ q.deleted = p.deleted
      BY <1>1, <2>1, <2>2 DEF Session
    <2>4. p.user \in Users /\ Replaces(p)
      BY <1>1, <2>1 DEF IInv, SessionsOK, SessionOK
    <2>5. SessionOK(q)
      BY <2>3, <2>4 DEF SessionOK, Replaces
    <2>6. QED
      BY <1>1, <1>3, <2>1, <2>2, <2>3, <2>5, ReadingKeeps
  <1>4. QED
    BY <1>2, <1>3 DEF GrantRoles

\* A request gives up.
LEMMA GiveUpKeeps ==
    ASSUME IInv, NEW s \in Sessions, GiveUp(s)
    PROVE  IInv'
  BY FailingKeeps DEF GiveUp

\* One account is written and the request ends: no account is taken back, the rows
\* that are new to it have a later number, and an older role that stays is one
\* that the newer assignment's DELETE could not see.
LEMMA UserChanges ==
    ASSUME IInv, NEW s \in Sessions, Ends(s), UNCHANGED tokens,
           NEW u \in Users, NEW row \in User, users' = [users EXCEPT ![u] = row],
           row.present => row.grants # {},
           users[u].present => row.present /\ users[u].assignments <= row.assignments,
           users[u].present =>
              \A g \in row.grants : g \in users[u].grants \/ users[u].assignments < g.number,
           \A g \in row.grants : g.number <= row.assignments,
           \A old, new \in row.grants : old.number < new.number => new.began < old.number
    PROVE  IInv'
  <1>1. users \in [Users -> User]
    BY DEF IInv, TypeOK
  <1>2. \A x \in Users : users'[x] = IF x = u THEN row ELSE users[x]
    BY <1>1
  <1>3. users' \in [Users -> User]
    BY <1>1
  <1>4. ASSUME NEW p \in Session, SessionOK(p)
        PROVE  SessionOK(p)'
    <2>1. CASE p.pc \in {"replacing", "granted"}
      <3>1. p.user \in Users /\ Replaces(p) /\ p.began \in Nat
        BY <1>4, <2>1 DEF SessionOK, Session
      <3>2. CASE p.user # u
        <4>1. users'[p.user] = users[p.user]
          BY <1>2, <3>1, <3>2
        <4>2. QED
          BY <1>4, <3>1, <4>1 DEF SessionOK, Replaces
      <3>3. CASE p.user = u
        <4>1. PICK old \in User : old = users[u]
          BY <1>1
        <4>2. /\ old.present /\ p.began <= old.assignments /\ p.asked # {}
              /\ \A g \in old.grants : g.number <= p.began => g \in p.deleted
          BY <3>1, <3>3, <4>1 DEF Replaces
        <4>3. /\ row.present /\ old.assignments <= row.assignments
              /\ \A g \in row.grants : g \in old.grants \/ old.assignments < g.number
          BY <4>1, <4>2
        <4>4. /\ old.assignments \in Nat /\ row.assignments \in Nat
              /\ \A g \in row.grants : g.number \in Nat
          BY DEF User, Grant
        <4>5. p.began <= row.assignments
          BY <3>1, <4>2, <4>3, <4>4
        <4>6. \A g \in row.grants : g.number <= p.began => g \in p.deleted
          BY <3>1, <4>2, <4>3, <4>4
        <4>7. Replaces(p)'
          BY <1>2, <3>1, <3>3, <4>2, <4>3, <4>5, <4>6 DEF Replaces
        <4>8. QED
          BY <1>4, <3>1, <4>7 DEF SessionOK
      <3>4. QED
        BY <3>2, <3>3
    <2>2. CASE p.pc \notin {"replacing", "granted"}
      BY <1>4, <2>2 DEF SessionOK
    <2>3. QED
      BY <2>1, <2>2
  <1>5. session' \in [Sessions -> Session] /\ SessionsOK'
    BY <1>4, EndingKeeps
  <1>6. \A x \in Users : users'[x].present => users'[x].grants # {}
    BY <1>2 DEF IInv, TypeOK
  <1>7. GrantsOK' /\ RolesPileUpByOverlapOnly'
    <2>1. ASSUME NEW x \in Users, NEW now, now = users'[x]
          PROVE  /\ \A g \in now.grants : g.number <= now.assignments
                 /\ \A old, new \in now.grants : old.number < new.number => new.began < old.number
      <3>1. now = row \/ now = users[x]
        BY <1>2, <2>1
      <3>2. QED
        BY <3>1 DEF IInv, GrantsOK, RolesPileUpByOverlapOnly
    <2>2. QED
      BY <2>1 DEF GrantsOK, RolesPileUpByOverlapOnly
  <1>8. TypeOK' /\ TokensOK'
    BY <1>3, <1>5, <1>6 DEF IInv, TypeOK, TokensOK
  <1>9. QED
    BY <1>5, <1>7, <1>8 DEF IInv

\* An account is created with the roles that are asked for.
LEMMA CreateUserKeeps ==
    ASSUME IInv, NEW s \in Sessions, NEW u \in Users, NEW request \in RoleRequests,
           CreateUser(s, u, request[1], request[2])
    PROVE  IInv'
  <1>1. PICK keys : keys = request[1] \X {request[2]}
    OBVIOUS
  <1>2. keys \in SUBSET (Roles \X Units) /\ keys # {}
    BY <1>1, AskedRoles
  <1>3. PICK row : row = UserWith(keys)
    OBVIOUS
  <1>4. /\ row \in User /\ row.assignments = 1 /\ row.grants # {}
        /\ \A g \in row.grants : g.number = 1
    BY <1>2, <1>3, UserWithType
  <1>5. Ends(s) /\ UNCHANGED tokens /\ ~users[u].present /\ users' = [users EXCEPT ![u] = row]
    BY <1>1, <1>3 DEF CreateUser
  <1>6. /\ \A g \in row.grants : g.number <= row.assignments
        /\ \A old, new \in row.grants : old.number < new.number => new.began < old.number
    BY <1>4
  <1>7. QED
    BY <1>4, <1>5, <1>6, UserChanges

\* An account is activated or deactivated.
LEMMA SetUserStatusKeeps ==
    ASSUME IInv, NEW s \in Sessions, NEW u \in Users, NEW active \in BOOLEAN,
           SetUserStatus(s, u, active)
    PROVE  IInv'
  <1>1. users \in [Users -> User] /\ users[u] \in User
    BY DEF IInv, TypeOK
  <1>2. PICK row : row = [users[u] EXCEPT !.is_active = active]
    OBVIOUS
  <1>3. /\ row \in User /\ row.present = users[u].present
        /\ row.grants = users[u].grants /\ row.assignments = users[u].assignments
    BY <1>1, <1>2 DEF User
  <1>4. Ends(s) /\ UNCHANGED tokens /\ users' = [users EXCEPT ![u] = row]
    BY <1>1, <1>2 DEF SetUserStatus
  <1>5. /\ row.present => row.grants # {}
        /\ \A g \in row.grants : g.number <= row.assignments
        /\ \A old, new \in row.grants : old.number < new.number => new.began < old.number
    BY <1>3 DEF IInv, TypeOK, GrantsOK, RolesPileUpByOverlapOnly
  <1>6. users[u].assignments <= row.assignments
    BY <1>1, <1>3 DEF User
  <1>7. QED
    BY <1>3, <1>4, <1>5, <1>6, UserChanges

\* A replacement commits: its rows get the next number, and a row that stays was
\* committed after its DELETE had started.
LEMMA CommitRolesKeeps ==
    ASSUME IInv, NEW s \in Sessions, CommitRoles(s)
    PROVE  IInv'
  <1>1. PICK q \in Session : q = session[s]
    BY DEF IInv, TypeOK
  <1>2. PICK u : u = q.user
    OBVIOUS
  <1>3. u \in Users /\ Replaces(q)
    BY <1>1, <1>2 DEF IInv, SessionsOK, SessionOK, CommitRoles, At
  <1>4. users \in [Users -> User]
    BY DEF IInv, TypeOK
  <1>5. PICK before \in User : before = users[u]
    BY <1>3, <1>4
  <1>6. PICK number : number = before.assignments + 1
    OBVIOUS
  <1>7. PICK inserted : inserted = Granted(q.asked, q.began, number)
    OBVIOUS
  <1>8. PICK rows : rows = (before.grants \ q.deleted) \cup inserted
    OBVIOUS
  <1>9. PICK row : row = [present |-> before.present, is_active |-> before.is_active,
                          grants |-> rows, assignments |-> number]
    OBVIOUS
  <1>10. /\ before.assignments \in Nat /\ number \in Nat /\ q.began \in Nat
         /\ before.grants \in SUBSET Grant /\ q.asked \in SUBSET (Roles \X Units)
         /\ q.asked # {} /\ before.present /\ q.began <= before.assignments
         /\ \A g \in before.grants : g.number <= q.began => g \in q.deleted
    BY <1>1, <1>2, <1>3, <1>5, <1>6 DEF User, Session, Replaces
  <1>11. /\ inserted \in SUBSET Grant /\ inserted # {}
         /\ \A g \in inserted : g.began = q.began /\ g.number = number
    BY <1>7, <1>10, GrantedRows
  <1>12. /\ row \in User /\ row.present /\ row.grants = rows /\ row.assignments = number
    BY <1>5, <1>8, <1>9, <1>10, <1>11 DEF User
  <1>13. /\ \A g \in before.grants : g.number <= before.assignments /\ g.number \in Nat
         /\ \A old, new \in before.grants : old.number < new.number => new.began < old.number
    BY <1>3, <1>5, <1>10 DEF IInv, GrantsOK, RolesPileUpByOverlapOnly, Grant
  <1>14. \A g \in rows : g \in before.grants \/ before.assignments < g.number
    BY <1>6, <1>8, <1>10, <1>11
  <1>15. \A g \in rows : g.number <= number
    BY <1>6, <1>8, <1>10, <1>11, <1>13
  <1>16. ASSUME NEW old \in rows, NEW new \in rows, old.number < new.number
         PROVE  new.began < old.number
    <2>1. CASE new \in inserted
      <3>1. old \notin inserted /\ old \in before.grants /\ old \notin q.deleted
        BY <1>8, <1>10, <1>11, <1>16, <2>1
      <3>2. new.began = q.began /\ ~(old.number <= q.began)
        BY <1>10, <1>11, <2>1, <3>1
      <3>3. QED
        BY <1>10, <1>13, <3>1, <3>2
    <2>2. CASE new \notin inserted
      <3>1. new \in before.grants /\ new.number <= before.assignments
        BY <1>8, <1>13, <2>2
      <3>2. CASE old \in inserted
        BY <1>6, <1>10, <1>11, <1>13, <1>16, <3>1, <3>2
      <3>3. CASE old \notin inserted
        BY <1>8, <1>13, <1>16, <3>1, <3>3
      <3>4. QED
        BY <3>2, <3>3
    <2>3. QED
      BY <2>1, <2>2
  <1>17. users' = [users EXCEPT ![u] = row]
    <2>1. NewGrants(s) = rows
      BY <1>1, <1>2, <1>5, <1>6, <1>7, <1>8 DEF NewGrants, GrantedLast
    <2>2. users' = [users EXCEPT ![u] = [before EXCEPT !.grants = rows, !.assignments = number]]
      BY <1>1, <1>2, <1>5, <1>6, <2>1 DEF CommitRoles
    <2>3. PICK y : y = [before EXCEPT !.grants = rows]
      OBVIOUS
    <2>4. y = [present |-> before.present, is_active |-> before.is_active,
               grants |-> rows, assignments |-> before.assignments]
      BY <2>3 DEF User
    <2>5. [y EXCEPT !.assignments = number] = row
      BY <1>9, <2>4
    <2>6. [before EXCEPT !.grants = rows, !.assignments = number] = [y EXCEPT !.assignments = number]
      BY <2>3
    <2>7. QED
      BY <2>2, <2>5, <2>6
  <1>18. Ends(s) /\ UNCHANGED tokens
    BY DEF CommitRoles
  <1>19. rows # {} /\ before.assignments <= number
    BY <1>6, <1>8, <1>10, <1>11
  <1>20. QED
    BY <1>3, <1>5, <1>12, <1>14, <1>15, <1>16, <1>17, <1>18, <1>19, UserChanges

-----------------------------------------------------------------------------
(* Refresh tokens *)

\* The ledger and the sessions stay right while the accounts are left alone.
LEMMA LedgerKeeps ==
    ASSUME IInv, UNCHANGED users, tokens' \in [Tokens -> Token], TokensOK',
           session' \in [Sessions -> Session], SessionsOK'
    PROVE  IInv'
  BY DEF IInv, TypeOK, GrantsOK, RolesPileUpByOverlapOnly

\* A request that ends while the ledger grows.
LEMMA LedgerEnds ==
    ASSUME IInv, NEW s \in Sessions, Ends(s), UNCHANGED users,
           \A t \in Tokens : tokens[t].action # "none" => tokens'[t].action # "none"
    PROVE  session' \in [Sessions -> Session] /\ SessionsOK'
  BY RequestStays, EndingKeeps

\* A signed-in user is issued the first token of a login.
LEMMA IssueFirstKeeps ==
    ASSUME IInv, NEW s \in Sessions, NEW t \in Tokens, IssueFirst(s, t)
    PROVE  IInv'
  <1>1. tokens \in [Tokens -> Token] /\ session[s].user \in Users
    BY DEF IInv, TypeOK, SessionsOK, SessionOK, IssueFirst, At
  <1>2. PICK new : new = [user |-> session[s].user, login |-> t, action |-> "issue"]
    OBVIOUS
  <1>3. /\ new \in Token /\ new.action = "issue" /\ new.user \in Users /\ new.login \in Tokens
        /\ tokens' = [tokens EXCEPT ![t] = new]
        /\ Ends(s) /\ UNCHANGED users
    BY <1>1, <1>2 DEF Token, IssueFirst
  <1>4. \A x \in Tokens : tokens'[x] = IF x = t THEN new ELSE tokens[x]
    BY <1>1, <1>3
  <1>5. tokens' \in [Tokens -> Token]
    BY <1>1, <1>3
  <1>6. TokensOK'
    BY <1>3, <1>4 DEF IInv, TokensOK
  <1>7. \A x \in Tokens : tokens[x].action # "none" => tokens'[x].action # "none"
    BY <1>3, <1>4
  <1>8. QED
    BY <1>3, <1>5, <1>6, <1>7, LedgerEnds, LedgerKeeps

\* A token is found to be exchangeable.
LEMMA CheckTokenKeeps ==
    ASSUME IInv, NEW s \in Sessions, NEW t \in Tokens, CheckToken(s, t)
    PROVE  IInv'
  <1>1. PICK x : x = [IdleSession EXCEPT !.pc = "rotating"]
    OBVIOUS
  <1>2. x = [pc |-> "rotating", user |-> NoUser, token |-> NoToken,
             asked |-> {}, began |-> 0, deleted |-> {}]
    BY <1>1 DEF IdleSession
  <1>3. PICK q : q = [pc |-> "rotating", user |-> NoUser, token |-> t,
                      asked |-> {}, began |-> 0, deleted |-> {}]
    OBVIOUS
  <1>4. [x EXCEPT !.token = t] = q
    BY <1>2, <1>3
  <1>5. Enters(s, q) /\ UNCHANGED <<users, tokens>> /\ tokens[t].action # "none"
    BY <1>1, <1>4 DEF CheckToken, Exchangeable, IsCurrent
  <1>6. q \in Session /\ q.pc = "rotating" /\ q.token = t
    BY <1>3 DEF Session
  <1>7. SessionOK(q)
    BY <1>5, <1>6 DEF SessionOK
  <1>8. QED
    BY <1>5, <1>6, <1>7, ReadingKeeps

\* What an exchange does to the ledger: the old token is revoked and another
\* one of its login issued.
LEMMA Rotated ==
    ASSUME IInv, NEW s \in Sessions, NEW t \in Tokens, Rotate(s, t),
           NEW old, old = session[s].token
    PROVE  /\ old \in Tokens /\ old # t /\ tokens[old].action # "none"
           /\ tokens' \in [Tokens -> Token]
           /\ tokens'[t].action = "issue" /\ tokens'[old].action = "revoke"
           /\ \A x \in {t, old} :
                 tokens'[x].user = tokens[old].user /\ tokens'[x].login = tokens[old].login
           /\ \A x \in Tokens \ {t, old} : tokens'[x] = tokens[x]
  <1>1. /\ tokens \in [Tokens -> Token] /\ old \in Tokens /\ old # t
        /\ tokens[old].action # "none" /\ tokens[old] \in Token
    BY DEF IInv, TypeOK, SessionsOK, SessionOK, Rotate, At, IsNew
  <1>2. PICK gone : gone = [tokens[old] EXCEPT !.action = "revoke"]
    OBVIOUS
  <1>3. PICK new : new = [tokens[old] EXCEPT !.action = "issue"]
    OBVIOUS
  <1>4. /\ gone \in Token /\ gone.action = "revoke"
        /\ gone.user = tokens[old].user /\ gone.login = tokens[old].login
        /\ new \in Token /\ new.action = "issue"
        /\ new.user = tokens[old].user /\ new.login = tokens[old].login
    BY <1>1, <1>2, <1>3 DEF Token
  <1>5. PICK between : between = [tokens EXCEPT ![old].action = "revoke"]
    OBVIOUS
  <1>6. between = [tokens EXCEPT ![old] = gone]
    BY <1>1, <1>2, <1>5
  <1>7. tokens' = [between EXCEPT ![t] = new]
    BY <1>3, <1>5 DEF Rotate
  <1>8. tokens' \in [Tokens -> Token]
    BY <1>1, <1>4, <1>6, <1>7
  <1>9. \A x \in Tokens : tokens'[x] = IF x = t THEN new ELSE IF x = old THEN gone ELSE tokens[x]
    BY <1>1, <1>6, <1>7
  <1>10. QED
    BY <1>1, <1>4, <1>8, <1>9

\* A token is exchanged for the next of its login.
LEMMA RotateKeeps ==
    ASSUME IInv, NEW s \in Sessions, NEW t \in Tokens, Rotate(s, t)
    PROVE  IInv'
  <1>1. PICK old : old = session[s].token
    OBVIOUS
  <1>2. /\ old \in Tokens /\ old # t /\ tokens[old].action # "none"
        /\ tokens' \in [Tokens -> Token]
        /\ tokens'[t].action = "issue" /\ tokens'[old].action = "revoke"
        /\ \A x \in {t, old} :
              tokens'[x].user = tokens[old].user /\ tokens'[x].login = tokens[old].login
        /\ \A x \in Tokens \ {t, old} : tokens'[x] = tokens[x]
    BY <1>1, Rotated
  <1>3. tokens[old].user \in Users /\ tokens[old].login \in Tokens
    BY <1>2 DEF IInv, TokensOK
  <1>4. TokensOK'
    BY <1>2, <1>3 DEF IInv, TokensOK
  <1>5. \A x \in Tokens : tokens[x].action # "none" => tokens'[x].action # "none"
    BY <1>2
  <1>6. Ends(s) /\ UNCHANGED users
    BY DEF Rotate
  <1>7. QED
    BY <1>2, <1>4, <1>5, <1>6, LedgerEnds, LedgerKeeps

\* What a logout does to the ledger.
LEMMA LoggedOut ==
    ASSUME IInv, NEW t \in Tokens, Logout(t)
    PROVE  /\ tokens[t].action # "none" /\ tokens' \in [Tokens -> Token]
           /\ \A x \in Tokens : x # t => tokens'[x] = tokens[x]
           /\ tokens'[t].action = "revoke" /\ tokens'[t].user = tokens[t].user
           /\ tokens'[t].login = tokens[t].login
           /\ UNCHANGED <<users, session>>
  <1>1. tokens \in [Tokens -> Token] /\ tokens[t] \in Token
    BY DEF IInv, TypeOK
  <1>2. tokens[t].action # "none"
    BY DEF IInv, TokensOK, UnissuedToken, Logout
  <1>3. PICK gone : gone = [tokens[t] EXCEPT !.action = "revoke"]
    OBVIOUS
  <1>4. /\ gone \in Token /\ gone.action = "revoke"
        /\ gone.user = tokens[t].user /\ gone.login = tokens[t].login
    BY <1>1, <1>3 DEF Token
  <1>5. tokens' = [tokens EXCEPT ![t] = gone] /\ UNCHANGED <<users, session>>
    BY <1>1, <1>3 DEF Logout
  <1>6. QED
    BY <1>1, <1>2, <1>4, <1>5

\* A token is revoked at logout.
LEMMA LogoutKeeps ==
    ASSUME IInv, NEW t \in Tokens, Logout(t)
    PROVE  IInv'
  <1>1. /\ tokens[t].action # "none" /\ tokens' \in [Tokens -> Token]
        /\ \A x \in Tokens : x # t => tokens'[x] = tokens[x]
        /\ tokens'[t].action = "revoke" /\ tokens'[t].user = tokens[t].user
        /\ tokens'[t].login = tokens[t].login
        /\ UNCHANGED <<users, session>>
    BY LoggedOut
  <1>2. tokens[t].user \in Users /\ tokens[t].login \in Tokens
    BY <1>1 DEF IInv, TokensOK
  <1>3. TokensOK'
    BY <1>1, <1>2 DEF IInv, TokensOK
  <1>4. \A x \in Tokens : tokens[x].action # "none" => tokens'[x].action # "none"
    BY <1>1
  <1>5. session' \in [Sessions -> Session] /\ SessionsOK'
    BY <1>1, <1>4, RequestStays DEF IInv, TypeOK, SessionsOK
  <1>6. QED
    BY <1>1, <1>3, <1>5, LedgerKeeps

-----------------------------------------------------------------------------
(* The invariants *)

\* The founder has the administrator's role and nothing has happened yet.
LEMMA Initially == Init => IInv
  <1>1. SUFFICES ASSUME Init
                 PROVE  IInv
    OBVIOUS
  <1>2. PICK keys : keys = {<<AdminRole, HomeUnit>>}
    OBVIOUS
  <1>3. keys \in SUBSET (Roles \X Units) /\ keys # {}
    BY <1>2, AccountNames
  <1>4. PICK first \in User : first = UserWith(keys)
    BY <1>3, UserWithType
  <1>5. first.grants # {} /\ first.assignments = 1 /\ \A g \in first.grants : g.number = 1
    BY <1>3, <1>4, UserWithType
  <1>6. PICK absent \in User : absent = AbsentUser /\ ~absent.present /\ absent.grants = {}
    <2>1. AbsentUser \in User /\ ~AbsentUser.present /\ AbsentUser.grants = {}
      BY DEF AbsentUser, User
    <2>2. QED
      BY <2>1
  <1>7. users = [u \in Users |-> IF u = Founder THEN first ELSE absent]
    BY <1>1, <1>2, <1>4, <1>6 DEF Init
  <1>8. users \in [Users -> User] /\ \A u \in Users : users[u] = first \/ users[u] = absent
    BY <1>4, <1>6, <1>7
  <1>9. UnissuedToken \in Token /\ UnissuedToken.action = "none"
    BY DEF UnissuedToken, Token
  <1>10. TypeOK
    BY <1>1, <1>5, <1>6, <1>8, <1>9, IdleType DEF Init, TypeOK
  <1>11. TokensOK
    BY <1>1, <1>9 DEF Init, TokensOK
  <1>12. SessionsOK
    BY <1>1, IdleType DEF Init, SessionsOK, SessionOK
  <1>13. GrantsOK /\ RolesPileUpByOverlapOnly
    BY <1>5, <1>6, <1>8 DEF GrantsOK, RolesPileUpByOverlapOnly
  <1>14. QED
    BY <1>10, <1>11, <1>12, <1>13 DEF IInv

\* Every step keeps the invariant.
LEMMA Inductive == IInv /\ [Next]_vars => IInv'
  <1>1. SUFFICES ASSUME IInv, [Next]_vars
                 PROVE  IInv'
    OBVIOUS
  <1>2. CASE UNCHANGED vars
    BY <1>1, <1>2 DEF IInv, vars, TypeOK, TokensOK, SessionsOK, SessionOK, Replaces, GrantsOK,
                      RolesPileUpByOverlapOnly
  <1>3. ASSUME NEW s \in Sessions, NEW u \in Users, Authorize(s, u) \/ SignIn(s, u)
        PROVE  IInv'
    BY <1>1, <1>3, BeginningKeeps
  <1>4. ASSUME NEW s \in Sessions, NEW u \in Users, NEW active \in BOOLEAN,
               SetUserStatus(s, u, active)
        PROVE  IInv'
    BY <1>1, <1>4, SetUserStatusKeeps
  <1>5. ASSUME NEW s \in Sessions, NEW u \in Users, NEW request \in RoleRequests,
               CreateUser(s, u, request[1], request[2])
                  \/ StartReplacing(s, u, request[1], request[2])
        PROVE  IInv'
    BY <1>1, <1>5, CreateUserKeeps, StartReplacingKeeps
  <1>6. ASSUME NEW s \in Sessions, NEW t \in Tokens,
               IssueFirst(s, t) \/ CheckToken(s, t) \/ Rotate(s, t)
        PROVE  IInv'
    BY <1>1, <1>6, IssueFirstKeeps, CheckTokenKeeps, RotateKeeps
  <1>7. ASSUME NEW s \in Sessions, GrantRoles(s) \/ CommitRoles(s) \/ GiveUp(s)
        PROVE  IInv'
    BY <1>1, <1>7, GrantRolesKeeps, CommitRolesKeeps, GiveUpKeeps
  <1>8. ASSUME NEW t \in Tokens, Logout(t)
        PROVE  IInv'
    BY <1>1, <1>8, LogoutKeeps
  <1>9. QED
    BY <1>1, <1>2, <1>3, <1>4, <1>5, <1>6, <1>7, <1>8 DEF Next

\* The inductive invariant holds in every reachable state.
THEOREM Invariance == Spec => []IInv
  BY Initially, Inductive, PTL DEF Spec

\* Every variable keeps its type, and nobody is left without a role (TypeOK).
THEOREM AccountsTypeCorrect == Spec => []TypeOK
  <1>1. IInv => TypeOK
    BY DEF IInv
  <1>2. QED
    BY <1>1, Invariance, PTL

\* A role outlives a newer assignment only if the request that made the newer one
\* had started its DELETE before the role was committed, however many replacements
\* of the same user's roles overlap, in whatever units (replace_user_roles).
THEOREM RolesPileUpByOverlapOnlyHolds == Spec => []RolesPileUpByOverlapOnly
  <1>1. IInv => RolesPileUpByOverlapOnly
    BY DEF IInv
  <1>2. QED
    BY <1>1, Invariance, PTL

-----------------------------------------------------------------------------
(* Ended logins *)

\* The last token of the login was revoked and nobody exchanges one.
Ended(t) == tokens[t].login = t /\ ~Live(t) /\ ~BeingExchanged(t)

\* A login stays ended while no token of it is issued or comes to be exchanged.
LEMMA NothingRevives ==
    ASSUME NEW t \in Tokens, Ended(t),
           tokens'[t].login = t,
           \A x \in Tokens : tokens'[x].login = t =>
              tokens[x].login = t /\ (tokens'[x].action = "issue" => tokens[x].action = "issue"),
           \A x \in Sessions : session'[x].pc = "rotating" =>
              session'[x].token \in Tokens /\
              \/ session'[x] = session[x]
              \/ \A y \in Tokens : y = session'[x].token => tokens'[y].login # t
    PROVE  Ended(t)'
  <1>1. ~Live(t)'
    BY DEF Ended, Live
  <1>2. ~BeingExchanged(t)'
    <2>1. SUFFICES ASSUME NEW x \in Sessions, NEW y \in Tokens, session'[x].pc = "rotating",
                          y = session'[x].token, tokens'[y].login = t
                   PROVE  FALSE
      BY DEF BeingExchanged, At
    <2>2. session'[x] = session[x] /\ tokens[y].login = t
      BY <2>1
    <2>3. QED
      BY <2>1, <2>2 DEF Ended, BeingExchanged, At
  <1>3. QED
    BY <1>1, <1>2 DEF Ended

\* A request that goes on without exchanging a token revives none.
LEMMA OtherRequestsReviveNone ==
    ASSUME IInv, NEW t \in Tokens, Ended(t), NEW s \in Sessions, NEW q,
           Enters(s, q), q.pc # "rotating", UNCHANGED tokens
    PROVE  Ended(t)'
  <1>1. \A x \in Sessions : session'[x] = IF x = s THEN q ELSE session[x]
    BY DEF IInv, TypeOK, Enters
  <1>2. \A x \in Sessions : session'[x].pc = "rotating" =>
            session'[x] = session[x] /\ session'[x].token \in Tokens
    BY <1>1 DEF IInv, SessionsOK, SessionOK
  <1>3. QED
    BY <1>2, NothingRevives DEF Ended

\* No step revives an ended login.
LEMMA EndedStays ==
    ASSUME IInv, NEW t \in Tokens, Ended(t), [Next]_vars
    PROVE  Ended(t)'
  <1>1. /\ session \in [Sessions -> Session] /\ tokens \in [Tokens -> Token]
        /\ \A x \in Sessions : session[x].pc = "rotating" =>
              /\ session[x].token \in Tokens
              /\ tokens[session[x].token].action # "none"
              /\ tokens[session[x].token].login # t
        /\ \A x \in Tokens : tokens[x].login = t => tokens[x].action # "issue"
        /\ tokens[t].login = t /\ tokens[t].action # "none"
    <2>1. tokens[t].action # "none"
      BY DEF Ended, IInv, TokensOK, UnissuedToken, NoToken, Tokens
    <2>2. QED
      BY <2>1 DEF IInv, TypeOK, SessionsOK, SessionOK, Ended, Live, BeingExchanged, At
  <1>2. CASE UNCHANGED vars
    BY <1>2 DEF Ended, Live, BeingExchanged, At, vars
  <1>3. ASSUME NEW s \in Sessions, Ends(s), UNCHANGED tokens
        PROVE  Ended(t)'
    <2>1. PICK q : q = IdleSession
      OBVIOUS
    <2>2. Enters(s, q) /\ q.pc # "rotating"
      BY <1>3, <2>1, IdleType DEF Ends
    <2>3. QED
      BY <1>3, <2>2, OtherRequestsReviveNone
  <1>4. ASSUME NEW s \in Sessions, NEW u \in Users, Authorize(s, u) \/ SignIn(s, u)
        PROVE  Ended(t)'
    <2>1. PICK pc \in {"authorized", "signing"} :
              Enters(s, [IdleSession EXCEPT !.pc = pc, !.user = u]) /\ UNCHANGED tokens
      BY <1>4 DEF Authorize, SignIn
    <2>2. PICK q : q = [pc |-> pc, user |-> u, token |-> NoToken,
                        asked |-> {}, began |-> 0, deleted |-> {}]
      OBVIOUS
    <2>3. Enters(s, q) /\ q.pc # "rotating"
      BY <2>1, <2>2, BegunSession
    <2>4. QED
      BY <2>1, <2>3, OtherRequestsReviveNone
  <1>5. ASSUME NEW s \in Sessions, NEW u \in Users, NEW request \in RoleRequests,
               StartReplacing(s, u, request[1], request[2])
        PROVE  Ended(t)'
    <2>1. PICK q : q = [pc |-> "replacing", user |-> u, token |-> NoToken,
                        asked |-> request[1] \X {request[2]},
                        began |-> users[u].assignments, deleted |-> users[u].grants]
      OBVIOUS
    <2>2. q.pc # "rotating"
      BY <2>1
    <2>3. Enters(s, q) /\ UNCHANGED tokens
      BY <1>5, <2>1 DEF StartReplacing
    <2>4. QED
      BY <2>2, <2>3, OtherRequestsReviveNone
  <1>6. ASSUME NEW s \in Sessions, GrantRoles(s)
        PROVE  Ended(t)'
    <2>1. CASE Ends(s)
      BY <1>3, <1>6, <2>1 DEF GrantRoles
    <2>2. CASE Enters(s, [session[s] EXCEPT !.pc = "granted"])
      <3>1. PICK q : q = [session[s] EXCEPT !.pc = "granted"]
        OBVIOUS
      <3>2. q.pc # "rotating"
        BY <1>1, <3>1 DEF Session
      <3>3. QED
        BY <1>6, <2>2, <3>1, <3>2, OtherRequestsReviveNone DEF GrantRoles
    <2>3. QED
      BY <1>6, <2>1, <2>2 DEF GrantRoles
  <1>7. ASSUME NEW s \in Sessions, NEW n \in Tokens, IssueFirst(s, n)
        PROVE  Ended(t)'
    <2>1. PICK new : new = [user |-> session[s].user, login |-> n, action |-> "issue"]
      OBVIOUS
    <2>2. /\ tokens[n].action = "none" /\ new.login = n
          /\ \A x \in Tokens : tokens'[x] = IF x = n THEN new ELSE tokens[x]
          /\ \A x \in Sessions : session'[x] = IF x = s THEN IdleSession ELSE session[x]
      BY <1>1, <1>7, <2>1 DEF IssueFirst, IsNew, Ends, Enters
    <2>3. n # t
      BY <1>1, <2>2
    <2>4. \A x \in Sessions : session'[x].pc = "rotating" =>
              session'[x] = session[x] /\ session'[x].token \in Tokens
      BY <1>1, <2>2, IdleType
    <2>5. /\ tokens'[t].login = t
          /\ \A x \in Tokens : tokens'[x].login = t => tokens'[x] = tokens[x]
      BY <1>1, <2>2, <2>3
    <2>6. QED
      BY <2>4, <2>5, NothingRevives
  <1>8. ASSUME NEW s \in Sessions, NEW n \in Tokens, CheckToken(s, n)
        PROVE  Ended(t)'
    <2>1. tokens[n].login # t /\ UNCHANGED tokens
      BY <1>1, <1>8 DEF CheckToken, Exchangeable, IsCurrent
    <2>2. PICK q : q = [IdleSession EXCEPT !.pc = "rotating", !.token = n]
      OBVIOUS
    <2>3. q.token = n
      BY <2>2 DEF IdleSession
    <2>4. \A x \in Sessions : session'[x] = IF x = s THEN q ELSE session[x]
      BY <1>1, <1>8, <2>2 DEF CheckToken, Enters
    <2>5. \A x \in Sessions : session'[x].pc = "rotating" =>
              session'[x].token \in Tokens /\ (session'[x] = session[x] \/ session'[x].token = n)
      BY <1>1, <2>3, <2>4
    <2>6. QED
      BY <1>1, <2>1, <2>5, NothingRevives
  <1>9. ASSUME NEW s \in Sessions, NEW n \in Tokens, Rotate(s, n)
        PROVE  Ended(t)'
    <2>1. PICK old : old = session[s].token
      OBVIOUS
    <2>2. /\ old \in Tokens
          /\ \A x \in {n, old} : tokens'[x].login = tokens[old].login
          /\ \A x \in Tokens \ {n, old} : tokens'[x] = tokens[x]
      BY <1>9, <2>1, Rotated
    <2>3. /\ tokens[old].login # t /\ tokens[n].action = "none"
          /\ \A x \in Sessions : session'[x] = IF x = s THEN IdleSession ELSE session[x]
      BY <1>1, <1>9, <2>1 DEF Rotate, At, IsNew, Ends, Enters
    <2>4. n # t /\ old # t
      BY <1>1, <2>3
    <2>5. \A x \in Sessions : session'[x].pc = "rotating" =>
              session'[x] = session[x] /\ session'[x].token \in Tokens
      BY <1>1, <2>3, IdleType
    <2>6. /\ tokens'[t].login = t
          /\ \A x \in Tokens : tokens'[x].login = t => tokens'[x] = tokens[x]
      BY <1>1, <2>2, <2>3, <2>4
    <2>7. QED
      BY <2>5, <2>6, NothingRevives
  <1>10. ASSUME NEW n \in Tokens, Logout(n)
         PROVE  Ended(t)'
    <2>1. /\ \A x \in Tokens : x # n => tokens'[x] = tokens[x]
          /\ tokens'[n].action = "revoke" /\ tokens'[n].login = tokens[n].login
          /\ UNCHANGED session
      BY <1>10, LoggedOut
    <2>2. /\ tokens'[t].login = t
          /\ \A x \in Tokens : tokens'[x].login = t =>
                tokens[x].login = t /\ (tokens'[x].action = "issue" => tokens[x].action = "issue")
      BY <1>1, <2>1
    <2>3. QED
      BY <1>1, <2>1, <2>2, NothingRevives
  <1>11. ASSUME NEW s \in Sessions, CommitRoles(s) \/ GiveUp(s)
         PROVE  Ended(t)'
    BY <1>3, <1>11 DEF CommitRoles, GiveUp
  <1>12. ASSUME NEW s \in Sessions, NEW u \in Users, NEW active \in BOOLEAN,
                SetUserStatus(s, u, active)
         PROVE  Ended(t)'
    BY <1>3, <1>12 DEF SetUserStatus
  <1>13. ASSUME NEW s \in Sessions, NEW u \in Users, NEW request \in RoleRequests,
                CreateUser(s, u, request[1], request[2])
         PROVE  Ended(t)'
    BY <1>3, <1>13 DEF CreateUser
  <1>14. QED
    BY <1>2, <1>4, <1>5, <1>6, <1>7, <1>8, <1>9, <1>10, <1>11, <1>12, <1>13 DEF Next

\* A login whose last token was revoked, with no exchange of one under way, has
\* ended for good: no later sign-in, exchange or logout gives it a live token.
THEOREM LoginsStayEnded == Spec => EndedLoginsStayEnded
  <1> SUFFICES ASSUME NEW t \in Tokens
               PROVE  Spec => [](tokens[t].login = t /\ ~Live(t) /\ ~BeingExchanged(t) => []~Live(t))
    BY DEF EndedLoginsStayEnded
  <1>1. IInv /\ Ended(t) /\ [Next]_vars => Ended(t)'
    BY EndedStays
  <1>2. Ended(t) => ~Live(t)
    BY DEF Ended
  <1>3. tokens[t].login = t /\ ~Live(t) /\ ~BeingExchanged(t) => Ended(t)
    BY DEF Ended
  <1>4. QED
    BY <1>1, <1>2, <1>3, Invariance, PTL DEF Spec

=============================================================================
