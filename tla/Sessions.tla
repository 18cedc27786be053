------------------------------ MODULE Sessions ------------------------------
(***************************************************************************)
(* Accounts and refresh-token sessions of the backend: AuthService,        *)
(* ProfileService and the two PostgreSQL tables they write, users and      *)
(* refresh_tokens.                                                         *)
(*                                                                         *)
(* No operation runs in a transaction: every SQL statement is a step of    *)
(* its own, and the statements of concurrent requests interleave.  An      *)
(* operation of a single statement is one action; the others run in a      *)
(* request p \in Requests whose local state is req[p].                     *)
(*                                                                         *)
(* A raw refresh token, its SHA-256 and the id of its row are one value,   *)
(* the number of its insertion.  Every token lives equally long, so tokens *)
(* lapse in the order of their numbers.                                    *)
(***************************************************************************)
EXTENDS Integers

CONSTANTS
  Requests,   \* request slots: how many multi-statement requests overlap
  Users,      \* the UUIDs that uuid.New() can return
  Emails,
  Usernames,
  Passwords,
  MaxTokens,  \* bound on the refresh tokens ever issued
  None        \* no row, no value

Row == [email : Emails, username : Usernames, password : Passwords]

ASSUME SessionsAssumption ==
  /\ MaxTokens \in Nat
  /\ None \notin Users
  /\ None \notin Row

Tokens == 1..MaxTokens

VARIABLES
  users,   \* table users: the row of each id, None when there is none
  born,    \* the ids that were ever inserted; a UUID is not drawn twice
  tokens,  \* table refresh_tokens: the user_id of each row, None without a row
  issued,  \* how many tokens were inserted so far
  lapsed,  \* tokens 1..lapsed are past their expires_at
  req,     \* the local state of each request in flight
  origin   \* history: the token each token was refreshed from (0 for a
           \* login) and the token its session began with

vars == <<users, born, tokens, issued, lapsed, req, origin>>

-----------------------------------------------------------------------------
(* Requests.                                                               *)

RefreshStages == {"refresh_user", "refresh_delete", "refresh_issue"}

\* The stages of a request that holds a row it built or read.
RowStages == {"register_create", "register_issue", "profile_write", "password_write"}

Idle == [pc |-> "idle", uid |-> None, tok |-> 0, row |-> None]

Begin(p, pc, uid, tok, row) ==
  /\ req[p] = Idle
  /\ req' = [req EXCEPT ![p] = [pc |-> pc, uid |-> uid, tok |-> tok, row |-> row]]

Move(p, from, to) ==
  /\ req[p].pc = from
  /\ req' = [req EXCEPT ![p].pc = to]

End(p) == req' = [req EXCEPT ![p] = Idle]

(***************************************************************************)
(* A request stops early: a statement fails, a constraint of the schema    *)
(* refuses it, the lookup by id finds no row, or the server goes down.     *)
(* What its earlier statements wrote stays.                                *)
(***************************************************************************)
Fail(p) ==
  /\ req[p] # Idle
  /\ End(p)
  /\ UNCHANGED <<users, born, tokens, issued, lapsed, origin>>

-----------------------------------------------------------------------------
(* The statements that several operations share.                           *)

Exists(u) == users[u] # None

Live(t) == tokens[t] # None

TokensOf(u) == {t \in Tokens : tokens[t] = u}

\* UNIQUE (email) and UNIQUE (username), when row is written under id uid.
Unique(row, uid) ==
  \A v \in Users \ {uid} :
    Exists(v) => /\ users[v].email # row.email
                 /\ users[v].username # row.username

\* DELETE FROM refresh_tokens, of whichever rows of T there are.
DeleteTokens(T) == tokens' = [t \in Tokens |-> IF t \in T THEN None ELSE tokens[t]]

\* A token inserted now begins a session, or continues the one of the token
\* it replaces.
Origin(t, from) ==
  [parent |-> from, root |-> IF from = 0 THEN t ELSE origin[from].root]

\* Mutation: the stored row loses its user.
InsertTokenNoOwner(u, from) ==
  /\ issued < MaxTokens
  /\ issued' = issued + 1
  /\ tokens' = [tokens EXCEPT ![issued + 1] = from]
  /\ origin' = [origin EXCEPT ![issued + 1] = Origin(issued + 1, from)]

(***************************************************************************)
(* issueTokenPair: draw a refresh token and insert its row, which the      *)
(* foreign key refuses when the user is gone.  The signed access token     *)
(* leaves no trace on the server.                                          *)
(***************************************************************************)
InsertToken(u, from) ==
  /\ issued < MaxTokens
  /\ Exists(u)
  /\ issued' = issued + 1
  /\ tokens' = [tokens EXCEPT ![issued + 1] = u]
  /\ origin' = [origin EXCEPT ![issued + 1] = Origin(issued + 1, from)]

-----------------------------------------------------------------------------
(* Register: two lookups, INSERT INTO users, then IssueTokens.             *)

(***************************************************************************)
(* A lookup only stops the request when it finds a row: a lookup that      *)
(* fails for another reason counts as "free", so only the constraints of   *)
(* RegisterCreate are certain to refuse a taken email or username.         *)
(***************************************************************************)
RegisterCheck(p, row) ==
  /\ \E lookupFails \in BOOLEAN : lookupFails \/ Unique(row, None)
  /\ \E u \in Users \ born : Begin(p, "register_create", u, 0, row)
  /\ UNCHANGED <<users, born, tokens, issued, lapsed, origin>>

RegisterCreate(p) ==
  LET u == req[p].uid IN
    /\ Move(p, "register_create", "register_issue")
    /\ u \notin born
    /\ Unique(req[p].row, u)
    /\ users' = [users EXCEPT ![u] = req[p].row]
    /\ born' = born \cup {u}
    /\ UNCHANGED <<tokens, issued, lapsed, origin>>

(* Login: FindByEmail and the bcrypt comparison, then issueTokenPair.      *)

LoginCheck(p, email, password) ==
  /\ \E u \in Users :
       /\ Exists(u)
       /\ users[u].email = email
       /\ users[u].password = password
       /\ Begin(p, "login_issue", u, 0, None)
  /\ UNCHANGED <<users, born, tokens, issued, lapsed, origin>>

\* The last statement of Register and of Login.
OpenSession(p) ==
  /\ req[p].pc \in {"register_issue", "login_issue"}
  /\ InsertToken(req[p].uid, 0)
  /\ End(p)
  /\ UNCHANGED <<users, born, lapsed>>

-----------------------------------------------------------------------------
(* Refresh: FindByHash, FindByID, DeleteByHash, issueTokenPair.            *)

\* Mutation: the expiry of the row is not looked at.
RefreshFindExpired(p, t) ==
  /\ Live(t)
  /\ Begin(p, "refresh_user", tokens[t], t, None)
  /\ UNCHANGED <<users, born, tokens, issued, lapsed, origin>>

RefreshFind(p, t) ==
  /\ Live(t)
  /\ t > lapsed
  /\ Begin(p, "refresh_user", tokens[t], t, None)
  /\ UNCHANGED <<users, born, tokens, issued, lapsed, origin>>

RefreshUser(p) ==
  /\ Move(p, "refresh_user", "refresh_delete")
  /\ Exists(req[p].uid)
  /\ UNCHANGED <<users, born, tokens, issued, lapsed, origin>>

\* Mutation: the old token is left in place.
RefreshKeep(p) ==
  /\ Move(p, "refresh_delete", "refresh_issue")
  /\ UNCHANGED <<users, born, tokens, issued, lapsed, origin>>

\* Deleting no row is not an error, so nobody learns that the token is gone.
RefreshDelete(p) ==
  /\ Move(p, "refresh_delete", "refresh_issue")
  /\ DeleteTokens({req[p].tok})
  /\ UNCHANGED <<users, born, issued, lapsed, origin>>

RefreshIssue(p) ==
  /\ req[p].pc = "refresh_issue"
  /\ InsertToken(req[p].uid, req[p].tok)
  /\ End(p)
  /\ UNCHANGED <<users, born, lapsed>>

-----------------------------------------------------------------------------
(* Ending sessions: one statement each.                                    *)

\* Logout with the refresh cookie t.
Logout(t) ==
  /\ DeleteTokens({t})
  /\ UNCHANGED <<users, born, issued, lapsed, req, origin>>

\* The user u deletes the session t; the statement also names u.
RevokeSession(u, t) ==
  /\ tokens[t] = u
  /\ DeleteTokens({t})
  /\ UNCHANGED <<users, born, issued, lapsed, req, origin>>

RevokeAllSessions(u) ==
  /\ DeleteTokens(TokensOf(u))
  /\ UNCHANGED <<users, born, issued, lapsed, req, origin>>

\* Time passes: the oldest token that has not expired does.
Lapse ==
  /\ lapsed < issued
  /\ lapsed' = lapsed + 1
  /\ UNCHANGED <<users, born, tokens, issued, req, origin>>

-----------------------------------------------------------------------------
(* Changes to the account.  Each reads the whole row of the user, and      *)
(* writes email, username and password hash back together.                 *)

\* The update writes the email or username of the input where there is one
\* (None: it was left out) and the password hash it read.
ProfileRead(p, u, email, username) ==
  /\ Exists(u)
  /\ LET row == [email    |-> IF email = None THEN users[u].email ELSE email,
                 username |-> IF username = None THEN users[u].username ELSE username,
                 password |-> users[u].password]
     IN /\ \E lookupFails \in BOOLEAN : lookupFails \/ Unique(row, u)
        /\ Begin(p, "profile_write", u, 0, row)
  /\ UNCHANGED <<users, born, tokens, issued, lapsed, origin>>

ChangePasswordRead(p, u, current, new) ==
  /\ Exists(u)
  /\ users[u].password = current
  /\ current # new
  /\ Begin(p, "password_write", u, 0, [users[u] EXCEPT !.password = new])
  /\ UNCHANGED <<users, born, tokens, issued, lapsed, origin>>

\* Mutation: the update inserts the row when there is none.
UpdateRowOrInsert(u, row) ==
  /\ Unique(row, u)
  /\ users' = [users EXCEPT ![u] = row]

\* UPDATE users ... WHERE id: no row, no effect and no error.
UpdateRow(u, row) ==
  /\ Exists(u) => Unique(row, u)
  /\ users' = [users EXCEPT ![u] = IF Exists(u) THEN row ELSE None]

WriteProfile(p) ==
  /\ req[p].pc = "profile_write"
  /\ UpdateRow(req[p].uid, req[p].row)
  /\ End(p)
  /\ UNCHANGED <<born, tokens, issued, lapsed, origin>>

WritePassword(p) ==
  /\ req[p].pc = "password_write"
  /\ UpdateRow(req[p].uid, req[p].row)
  /\ End(p)
  /\ UNCHANGED <<born, tokens, issued, lapsed, origin>>

\* DeleteAccount: the sessions first, then the row and all that refers to it.
DeleteAccountTokens(p, u) ==
  /\ DeleteTokens(TokensOf(u))
  /\ Begin(p, "delete_user", u, 0, None)
  /\ UNCHANGED <<users, born, issued, lapsed, origin>>

\* Mutation: the rows of refresh_tokens do not follow their user.
DeleteAccountNoCascade(p) ==
  /\ req[p].pc = "delete_user"
  /\ users' = [users EXCEPT ![req[p].uid] = None]
  /\ End(p)
  /\ UNCHANGED <<born, tokens, issued, lapsed, origin>>

DeleteAccountUser(p) ==
  /\ req[p].pc = "delete_user"
  /\ users' = [users EXCEPT ![req[p].uid] = None]
  /\ DeleteTokens(TokensOf(req[p].uid))
  /\ End(p)
  /\ UNCHANGED <<born, issued, lapsed, origin>>

-----------------------------------------------------------------------------
Init ==
  /\ users = [u \in Users |-> None]
  /\ born = {}
  /\ tokens = [t \in Tokens |-> None]
  /\ issued = 0
  /\ lapsed = 0
  /\ req = [p \in Requests |-> Idle]
  /\ origin = [t \in Tokens |-> [parent |-> 0, root |-> 0]]

RegisterSteps(p) ==
  \/ \E row \in Row : RegisterCheck(p, row)
  \/ RegisterCreate(p)

LoginSteps(p) ==
  \/ \E email \in Emails, password \in Passwords : LoginCheck(p, email, password)
  \/ OpenSession(p)

RefreshSteps(p) ==
  \/ \E t \in 1..issued : RefreshFind(p, t)
  \/ RefreshUser(p)
  \/ RefreshDelete(p)
  \/ RefreshIssue(p)

AccountSteps(p) ==
  \/ \E u \in born, email \in Emails \cup {None}, username \in Usernames \cup {None} :
       ProfileRead(p, u, email, username)
  \/ \E u \in born, current \in Passwords, new \in Passwords :
       ChangePasswordRead(p, u, current, new)
  \/ WriteProfile(p)
  \/ WritePassword(p)
  \/ \E u \in born : DeleteAccountTokens(p, u)
  \/ DeleteAccountUser(p)

\* A user u of an authenticated request: ids that were registered, and maybe
\* deleted since, because an access token outlives the account.
SignOut ==
  \/ \E t \in 1..issued : Logout(t)
  \/ \E u \in born, t \in 1..issued : RevokeSession(u, t)
  \/ \E u \in born : RevokeAllSessions(u)

RequestStep(p) ==
  \/ RegisterSteps(p)
  \/ LoginSteps(p)
  \/ RefreshSteps(p)
  \/ AccountSteps(p)
  \/ Fail(p)

Next ==
  \/ \E p \in Requests : RequestStep(p)
  \/ SignOut
  \/ Lapse

Spec == Init /\ [][Next]_vars

-----------------------------------------------------------------------------
(* What is promised.                                                       *)

Request ==
  {Idle}
  \cup [pc : RowStages, uid : Users, tok : {0}, row : Row]
  \cup [pc : {"login_issue", "delete_user"}, uid : Users, tok : {0}, row : {None}]
  \cup [pc : RefreshStages, uid : Users, tok : Tokens, row : {None}]

\* Types: rows are whole or absent, and only issued tokens have rows.
TypeOK ==
  /\ users \in [Users -> Row \cup {None}]
  /\ born \subseteq Users
  /\ tokens \in [Tokens -> Users \cup {None}]
  /\ issued \in 0..MaxTokens
  /\ lapsed \in 0..issued
  /\ req \in [Requests -> Request]
  /\ origin \in [Tokens -> [parent : 0..MaxTokens, root : 0..MaxTokens]]

\* No two accounts share an email or a username, however the lookups of
\* Register and UpdateProfile race with the writes of other requests.
UniqueIdentity ==
  \A u, v \in Users :
    u # v /\ Exists(u) /\ Exists(v) =>
      /\ users[u].email # users[v].email
      /\ users[u].username # users[v].username

\* Every session belongs to an account that exists: a Login or Refresh that
\* read the user before DeleteAccount cannot leave a token behind it.
SessionsHaveUsers == \A t \in Tokens : Live(t) => Exists(tokens[t])

\* A token that was exchanged for another is gone for good: no session ever
\* has both the token a refresh presented and the token it returned.
SpentTokensAreGone ==
  \A t \in Tokens : origin[t].parent # 0 => ~Live(origin[t].parent)

\* An account that was deleted stays deleted, although UpdateProfile and
\* ChangePassword may still hold its row and write it back.
DeletedStayDeleted ==
  [][\A u \in born : ~Exists(u) => users'[u] = None]_<<users, born>>

\* UpdateProfile applies email and username changes, and so does not change
\* a password: its write finds the password hash that its read found.
ProfileKeepsPassword ==
  [][\A p \in Requests, u \in Users :
       WriteProfile(p) /\ Exists(u) => users'[u].password = users[u].password]_vars

-----------------------------------------------------------------------------
(* The life of a session, abstractly.                                      *)

\* The refreshes that have seen a live token and not answered yet.
Pending == {p \in Requests : req[p].pc \in RefreshStages}

\* The session that began with token r can still be continued.
Alive(r) ==
  \/ \E t \in Tokens : Live(t) /\ t > lapsed /\ origin[t].root = r
  \/ \E p \in Pending : origin[req[p].tok].root = r

Stage ==
  [r \in Tokens |-> IF Alive(r) THEN "open"
                    ELSE IF origin[r].root = r THEN "ended" ELSE "none"]

SL == INSTANCE SessionLife WITH Session <- Tokens, stage <- Stage

\* Every step is one of a session's abstract life: it begins with a login or a
\* registration, it ends, and once it has ended no refresh brings it back.
SessionsEndForGood == SL!Spec
=============================================================================
