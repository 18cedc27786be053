--------------------------- MODULE SessionsProofs ---------------------------
(***************************************************************************)
(* Proofs about Sessions, for every set of users, requests and values, and *)
(* about the rate limiter that stands in front of its routes (at the end). *)
(*                                                                         *)
(* The proofs do not go through the actions one by one.  The first lemmas  *)
(* reduce a step to what it does to each table (it inserts one token, or   *)
(* only deletes tokens; it writes one row of users, or none); an invariant *)
(* about a table is then proved from that.                                 *)
(***************************************************************************)
EXTENDS Sessions, RateLimit, SequenceTheorems, TLAPS

-----------------------------------------------------------------------------
(* Types.                                                                  *)

LEMMA RowIsNotNone == None \notin Row /\ None \notin Users
BY SessionsAssumption

LEMMA TypeInit == Init => TypeOK
BY SessionsAssumption DEF Init, TypeOK, Tokens, Request

LEMMA IdleType == Idle \in Request
BY DEF Request

LEMMA RequestType ==
  ASSUME TypeOK, NEW p \in Requests
  PROVE  /\ req[p].tok \in 0..MaxTokens
         /\ req[p] # Idle => req[p].uid \in Users
         /\ req[p].pc \in RowStages => req[p].uid \in Users /\ req[p].row \in Row
         /\ req[p].pc \in RefreshStages => req[p].uid \in Users /\ req[p].tok \in Tokens
         /\ req[p].pc \in {"login_issue", "delete_user"} => req[p].uid \in Users
         /\ req[p].pc = "idle" <=> req[p] = Idle
<1>1. req[p] \in Request
  BY DEF TypeOK
<1>2. CASE req[p] = Idle
  BY <1>2, SessionsAssumption DEF Idle, RowStages, RefreshStages
<1>3. CASE req[p] \in [pc : RowStages, uid : Users, tok : {0}, row : Row]
  BY <1>3, SessionsAssumption DEF Idle, RowStages, RefreshStages
<1>4. CASE req[p] \in [pc : {"login_issue", "delete_user"}, uid : Users, tok : {0},
                       row : {None}]
  BY <1>4, SessionsAssumption DEF Idle, RowStages, RefreshStages
<1>5. CASE req[p] \in [pc : RefreshStages, uid : Users, tok : Tokens, row : {None}]
  BY <1>5, SessionsAssumption DEF Idle, RowStages, RefreshStages, Tokens
<1>6. QED
  BY <1>1, <1>2, <1>3, <1>4, <1>5 DEF Request

LEMMA BeginType ==
  ASSUME TypeOK, NEW p \in Requests, NEW pc, NEW u, NEW t, NEW row,
         Begin(p, pc, u, t, row),
         [pc |-> pc, uid |-> u, tok |-> t, row |-> row] \in Request
  PROVE  req' \in [Requests -> Request]
BY DEF TypeOK, Begin

LEMMA MoveType ==
  ASSUME TypeOK, NEW p \in Requests, NEW from, NEW to, Move(p, from, to),
         \/ from \in RowStages /\ to \in RowStages
         \/ from \in RefreshStages /\ to \in RefreshStages
  PROVE  req' \in [Requests -> Request]
<1>1. [req[p] EXCEPT !.pc = to] \in Request
  <2>1. req[p] \in Request /\ req[p].pc = from
    BY DEF TypeOK, Move
  <2>2. CASE from \in RowStages
    BY <2>1, <2>2 DEF Request, Idle, RowStages, RefreshStages
  <2>3. CASE from \in RefreshStages
    BY <2>1, <2>3 DEF Request, Idle, RowStages, RefreshStages
  <2>4. QED
    BY <2>2, <2>3
<1>2. QED
  BY <1>1 DEF TypeOK, Move

LEMMA EndType ==
  ASSUME TypeOK, NEW p \in Requests, End(p)
  PROVE  req' \in [Requests -> Request]
BY IdleType DEF TypeOK, End

LEMMA InsertTokenType ==
  ASSUME TypeOK, NEW u \in Users \cup {None}, NEW from \in 0..MaxTokens,
         InsertToken(u, from), UNCHANGED lapsed
  PROVE  /\ tokens' \in [Tokens -> Users \cup {None}]
         /\ issued' \in 0..MaxTokens
         /\ lapsed' \in 0..issued'
         /\ origin' \in [Tokens -> [parent : 0..MaxTokens, root : 0..MaxTokens]]
<1>1. issued + 1 \in Tokens /\ issued + 1 \in 0..MaxTokens
  BY SessionsAssumption DEF TypeOK, InsertToken, Tokens
<1>2. Origin(issued + 1, from) \in [parent : 0..MaxTokens, root : 0..MaxTokens]
  BY <1>1, SessionsAssumption DEF TypeOK, Origin, Tokens
<1>3. QED
  BY <1>1, <1>2, SessionsAssumption DEF TypeOK, InsertToken

LEMMA DeleteTokensType ==
  ASSUME TypeOK, NEW T, DeleteTokens(T)
  PROVE  tokens' \in [Tokens -> Users \cup {None}]
BY DEF TypeOK, DeleteTokens

LEMMA TypeStep == TypeOK /\ [Next]_vars => TypeOK'
<1> SUFFICES ASSUME TypeOK, [Next]_vars PROVE TypeOK'
  OBVIOUS
<1>1. ASSUME NEW p \in Requests, RegisterSteps(p) PROVE TypeOK'
  <2>1. CASE \E row \in Row : RegisterCheck(p, row)
    <3>1. PICK row \in Row, u \in Users \ born : Begin(p, "register_create", u, 0, row)
      BY <2>1 DEF RegisterCheck
    <3>2. req' \in [Requests -> Request]
      BY <3>1, BeginType DEF Request, RowStages, TypeOK
    <3>3. QED
      BY <2>1, <3>2 DEF TypeOK, RegisterCheck
  <2>2. CASE RegisterCreate(p)
    <3>1. req' \in [Requests -> Request]
      BY <2>2, MoveType DEF RegisterCreate, RowStages
    <3>2. req[p].uid \in Users
      BY <2>2, RequestType DEF RegisterCreate, Move, RowStages
    <3>3. req[p].row \in Row
      BY <2>2, RequestType DEF RegisterCreate, Move, RowStages
    <3>4. QED
      BY <2>2, <3>1, <3>2, <3>3 DEF TypeOK, RegisterCreate
  <2>3. QED
    BY <1>1, <2>1, <2>2 DEF RegisterSteps
<1>2. ASSUME NEW p \in Requests, LoginSteps(p) PROVE TypeOK'
  <2>1. CASE \E email \in Emails, password \in Passwords : LoginCheck(p, email, password)
    <3>1. PICK u \in Users : Begin(p, "login_issue", u, 0, None)
      BY <2>1 DEF LoginCheck
    <3>2. req' \in [Requests -> Request]
      BY <3>1, BeginType DEF Request, RowStages, TypeOK
    <3>3. QED
      BY <2>1, <3>2 DEF TypeOK, LoginCheck
  <2>2. CASE OpenSession(p)
    <3>1. req' \in [Requests -> Request]
      BY <2>2, EndType DEF OpenSession
    <3>2. QED
      BY <2>2, <3>1, RequestType, InsertTokenType, SessionsAssumption
      DEF TypeOK, OpenSession, RowStages
  <2>3. QED
    BY <1>2, <2>1, <2>2 DEF LoginSteps
<1>3. ASSUME NEW p \in Requests, RefreshSteps(p) PROVE TypeOK'
  <2>1. CASE \E t \in 1..issued : RefreshFind(p, t)
    <3>1. PICK t \in 1..issued : RefreshFind(p, t)
      BY <2>1
    <3>2. t \in Tokens /\ tokens[t] \in Users \cup {None}
      BY SessionsAssumption DEF TypeOK, Tokens
    <3>3. req' \in [Requests -> Request]
      <4>1. [pc |-> "refresh_user", uid |-> tokens[t], tok |-> t, row |-> None] \in Request
        BY <3>1, <3>2 DEF RefreshFind, Live, Request, RefreshStages
      <4>2. QED
        BY <3>1, <4>1, BeginType DEF RefreshFind
    <3>4. QED
      BY <3>1, <3>3 DEF TypeOK, RefreshFind
  <2>2. CASE RefreshUser(p)
    BY <2>2, MoveType DEF TypeOK, RefreshUser, RefreshStages
  <2>3. CASE RefreshDelete(p)
    BY <2>3, MoveType, DeleteTokensType DEF TypeOK, RefreshDelete, RefreshStages
  <2>4. CASE RefreshIssue(p)
    <3>1. req' \in [Requests -> Request]
      BY <2>4, EndType DEF RefreshIssue
    <3>2. QED
      BY <2>4, <3>1, RequestType, InsertTokenType DEF TypeOK, RefreshIssue, RefreshStages
  <2>5. QED
    BY <1>3, <2>1, <2>2, <2>3, <2>4 DEF RefreshSteps
<1>4. ASSUME NEW p \in Requests, AccountSteps(p) PROVE TypeOK'
  <2>1. ASSUME NEW u \in born, NEW email \in Emails \cup {None},
               NEW username \in Usernames \cup {None}, ProfileRead(p, u, email, username)
        PROVE  TypeOK'
    <3> DEFINE row == [email    |-> IF email = None THEN users[u].email ELSE email,
                       username |-> IF username = None THEN users[u].username ELSE username,
                       password |-> users[u].password]
    <3>1. u \in Users /\ users[u] \in Row
      BY <2>1 DEF TypeOK, ProfileRead, Exists
    <3>2. row \in Row
      BY <3>1 DEF Row
    <3>3. Begin(p, "profile_write", u, 0, row)
      BY <2>1 DEF ProfileRead
    <3>4. req' \in [Requests -> Request]
      BY <3>1, <3>2, <3>3, BeginType DEF Request, RowStages, TypeOK
    <3>5. QED
      BY <2>1, <3>4 DEF TypeOK, ProfileRead
  <2>2. ASSUME NEW u \in born, NEW current \in Passwords, NEW new \in Passwords,
               ChangePasswordRead(p, u, current, new)
        PROVE  TypeOK'
    <3>1. u \in Users /\ users[u] \in Row
      BY <2>2 DEF TypeOK, ChangePasswordRead, Exists
    <3>2. [users[u] EXCEPT !.password = new] \in Row
      BY <3>1 DEF Row
    <3>3. req' \in [Requests -> Request]
      BY <2>2, <3>1, <3>2, BeginType DEF ChangePasswordRead, Request, RowStages
    <3>4. QED
      BY <2>2, <3>3 DEF TypeOK, ChangePasswordRead
  <2>3. CASE WriteProfile(p)
    BY <2>3, EndType, RequestType DEF TypeOK, WriteProfile, UpdateRow, RowStages
  <2>4. CASE WritePassword(p)
    BY <2>4, EndType, RequestType DEF TypeOK, WritePassword, UpdateRow, RowStages
  <2>5. ASSUME NEW u \in born, DeleteAccountTokens(p, u) PROVE TypeOK'
    <3>1. req' \in [Requests -> Request]
      BY <2>5, BeginType DEF TypeOK, DeleteAccountTokens, Request
    <3>2. QED
      BY <2>5, <3>1, DeleteTokensType DEF TypeOK, DeleteAccountTokens
  <2>6. CASE DeleteAccountUser(p)
    BY <2>6, EndType, DeleteTokensType DEF TypeOK, DeleteAccountUser
  <2>7. QED
    BY <1>4, <2>1, <2>2, <2>3, <2>4, <2>5, <2>6 DEF AccountSteps
<1>5. ASSUME NEW p \in Requests, Fail(p) PROVE TypeOK'
  BY <1>5, EndType DEF TypeOK, Fail
<1>6. CASE SignOut
  BY <1>6, DeleteTokensType DEF TypeOK, SignOut, Logout, RevokeSession, RevokeAllSessions
<1>7. CASE Lapse
  BY <1>7 DEF TypeOK, Lapse
<1>8. CASE UNCHANGED vars
  BY <1>8 DEF TypeOK, vars
<1>9. QED
  BY <1>1, <1>2, <1>3, <1>4, <1>5, <1>6, <1>7, <1>8 DEF Next, RequestStep

\* Every reachable state of the two tables and of the requests is well formed.
THEOREM TypeCorrect == Spec => []TypeOK
BY TypeInit, TypeStep, PTL DEF Spec

-----------------------------------------------------------------------------
(* The table users.                                                        *)

\* What a step can do to the table users and to the history of its ids.
UsersKept == UNCHANGED <<users, born>>

UserAdded ==
  \E u \in Users, row \in Row :
    /\ u \notin born
    /\ Unique(row, u)
    /\ users' = [users EXCEPT ![u] = row]
    /\ born' = born \cup {u}
    /\ UNCHANGED tokens

UserChanged ==
  \E u \in Users, row \in Row :
    /\ Exists(u)
    /\ Unique(row, u)
    /\ users' = [users EXCEPT ![u] = row]
    /\ UNCHANGED <<born, tokens>>

UserDeleted ==
  \E u \in Users :
    /\ users' = [users EXCEPT ![u] = None]
    /\ DeleteTokens(TokensOf(u))
    /\ UNCHANGED born

LEMMA WriteRowEffect ==
  ASSUME TypeOK, NEW p \in Requests, req[p].pc \in RowStages,
         UpdateRow(req[p].uid, req[p].row), UNCHANGED <<born, tokens>>
  PROVE  UsersKept \/ UserChanged
<1>1. req[p].uid \in Users /\ req[p].row \in Row
  BY RequestType
<1>2. CASE Exists(req[p].uid)
  BY <1>1, <1>2 DEF UserChanged, UpdateRow
<1>3. CASE ~Exists(req[p].uid)
  <2>1. users' = users
    BY <1>1, <1>3 DEF UpdateRow, Exists, TypeOK
  <2>2. QED
    BY <2>1 DEF UsersKept
<1>4. QED
  BY <1>2, <1>3

LEMMA UsersEffect ==
  ASSUME TypeOK, [Next]_vars
  PROVE  UsersKept \/ UserAdded \/ UserChanged \/ UserDeleted
<1>1. ASSUME NEW p \in Requests, RegisterSteps(p) PROVE UsersKept \/ UserAdded
  <2>1. CASE \E row \in Row : RegisterCheck(p, row)
    BY <2>1 DEF RegisterCheck, UsersKept
  <2>2. CASE RegisterCreate(p)
    <3>1. req[p].uid \in Users /\ req[p].row \in Row
      BY <2>2, RequestType DEF RegisterCreate, Move, RowStages
    <3>2. QED
      BY <2>2, <3>1 DEF RegisterCreate, UserAdded
  <2>3. QED
    BY <1>1, <2>1, <2>2 DEF RegisterSteps
<1>2. ASSUME NEW p \in Requests, LoginSteps(p) \/ RefreshSteps(p) \/ Fail(p)
      PROVE  UsersKept
  BY <1>2 DEF LoginSteps, LoginCheck, OpenSession, RefreshSteps, RefreshFind,
     RefreshUser, RefreshDelete, RefreshIssue, Fail, UsersKept
<1>3. ASSUME NEW p \in Requests, AccountSteps(p)
      PROVE  UsersKept \/ UserChanged \/ UserDeleted
  <2>1. CASE WriteProfile(p)
    BY <2>1, WriteRowEffect DEF WriteProfile, RowStages
  <2>2. CASE WritePassword(p)
    BY <2>2, WriteRowEffect DEF WritePassword, RowStages
  <2>3. CASE DeleteAccountUser(p)
    <3>1. req[p].uid \in Users
      BY <2>3, RequestType DEF DeleteAccountUser
    <3>2. QED
      BY <2>3, <3>1 DEF DeleteAccountUser, UserDeleted
  <2>4. QED
    BY <1>3, <2>1, <2>2, <2>3 DEF AccountSteps, ProfileRead, ChangePasswordRead,
       DeleteAccountTokens, UsersKept
<1>4. CASE SignOut \/ Lapse \/ UNCHANGED vars
  BY <1>4 DEF SignOut, Logout, RevokeSession, RevokeAllSessions, Lapse, vars, UsersKept
<1>5. QED
  BY <1>1, <1>2, <1>3, <1>4 DEF Next, RequestStep

\* Emails and usernames stay unique among the accounts, in every interleaving
\* of registrations, profile updates, password changes and deletions.
THEOREM IdentityIsUnique == Spec => []UniqueIdentity
<1>1. Init => UniqueIdentity
  BY DEF Init, UniqueIdentity, Exists
<1>2. ASSUME TypeOK, UniqueIdentity, [Next]_vars
      PROVE  UniqueIdentity'
  <2>1. CASE UsersKept
    BY <1>2, <2>1 DEF UniqueIdentity, Exists, UsersKept
  <2>2. CASE UserAdded \/ UserChanged
    <3>1. PICK u \in Users, row \in Row :
            Unique(row, u) /\ users' = [users EXCEPT ![u] = row]
      BY <2>2 DEF UserAdded, UserChanged
    <3>2. SUFFICES ASSUME NEW a \in Users, NEW b \in Users, a # b,
                          users'[a] # None, users'[b] # None
                   PROVE  /\ users'[a].email # users'[b].email
                          /\ users'[a].username # users'[b].username
      BY DEF UniqueIdentity, Exists
    <3>3. CASE a = u
      BY <1>2, <3>1, <3>2, <3>3 DEF Unique, Exists, TypeOK
    <3>4. CASE b = u
      BY <1>2, <3>1, <3>2, <3>4 DEF Unique, Exists, TypeOK
    <3>5. CASE a # u /\ b # u
      BY <1>2, <3>1, <3>2, <3>5 DEF UniqueIdentity, Exists, TypeOK
    <3>6. QED
      BY <3>3, <3>4, <3>5
  <2>3. CASE UserDeleted
    BY <1>2, <2>3 DEF UniqueIdentity, Exists, UserDeleted, TypeOK
  <2>4. QED
    BY <1>2, <2>1, <2>2, <2>3, UsersEffect
<1>3. QED
  BY <1>1, <1>2, TypeCorrect, PTL DEF Spec

\* No write brings back the row of an account that was deleted.
THEOREM DeletionIsFinal == Spec => DeletedStayDeleted
<1>1. ASSUME TypeOK, [Next]_vars
      PROVE  [\A u \in born : ~Exists(u) => users'[u] = None]_<<users, born>>
  <2>1. SUFFICES ASSUME NEW u \in born, users[u] = None
                 PROVE  users'[u] = None
    BY DEF Exists
  <2>2. u \in Users
    BY <1>1 DEF TypeOK
  <2>3. QED
    BY <1>1, <2>1, <2>2, UsersEffect
    DEF TypeOK, UsersKept, UserAdded, UserChanged, UserDeleted, Exists
<1>2. QED
  BY <1>1, TypeCorrect, PTL DEF Spec, DeletedStayDeleted

-----------------------------------------------------------------------------
(* The table refresh_tokens.                                               *)

\* What a step can do to the tokens: nothing, delete some, insert one for a
\* new session, or insert the one that a refresh exchanges for a token.
TokensDropped ==
  /\ \E T : DeleteTokens(T)
  /\ UNCHANGED <<issued, origin>>

SessionOpened ==
  \E p \in Requests :
    /\ req[p].uid \in Users
    /\ req[p].pc \notin RefreshStages
    /\ InsertToken(req[p].uid, 0)
    /\ End(p)
    /\ UNCHANGED <<users, lapsed>>

TokenExchanged ==
  \E p \in Requests :
    /\ req[p].uid \in Users
    /\ req[p].tok \in Tokens
    /\ req[p].pc = "refresh_issue"
    /\ InsertToken(req[p].uid, req[p].tok)
    /\ End(p)
    /\ UNCHANGED <<users, lapsed>>

LEMMA NothingDropped ==
  ASSUME TypeOK, UNCHANGED <<tokens, issued, origin>>
  PROVE  TokensDropped
<1>1. tokens = [t \in Tokens |-> IF t \in {} THEN None ELSE tokens[t]]
  BY DEF TypeOK
<1>2. DeleteTokens({})
  BY <1>1 DEF DeleteTokens
<1>3. QED
  BY <1>2 DEF TokensDropped

LEMMA TokensEffect ==
  ASSUME TypeOK, [Next]_vars
  PROVE  TokensDropped \/ SessionOpened \/ TokenExchanged
<1>1. ASSUME NEW p \in Requests, RequestStep(p)
      PROVE  TokensDropped \/ SessionOpened \/ TokenExchanged
  <2>1. CASE OpenSession(p)
    BY <2>1, RequestType DEF OpenSession, SessionOpened, RowStages, RefreshStages
  <2>2. CASE RefreshIssue(p)
    BY <2>2, RequestType DEF RefreshIssue, TokenExchanged, RefreshStages
  <2>3. CASE RefreshDelete(p) \/ DeleteAccountUser(p)
             \/ \E u \in born : DeleteAccountTokens(p, u)
    BY <2>3 DEF RefreshDelete, DeleteAccountUser, DeleteAccountTokens, TokensDropped
  <2>4. CASE UNCHANGED <<tokens, issued, origin>>
    BY <2>4, NothingDropped
  <2>5. QED
    BY <1>1, <2>1, <2>2, <2>3, <2>4
    DEF RequestStep, RegisterSteps, RegisterCheck, RegisterCreate, LoginSteps,
        LoginCheck, RefreshSteps, RefreshFind, RefreshUser, AccountSteps, ProfileRead,
        ChangePasswordRead, WriteProfile, WritePassword, Fail
<1>2. CASE SignOut
  BY <1>2 DEF SignOut, Logout, RevokeSession, RevokeAllSessions, TokensDropped
<1>3. CASE Lapse \/ UNCHANGED vars
  BY <1>3, NothingDropped DEF Lapse, vars
<1>4. QED
  BY <1>1, <1>2, <1>3 DEF Next

\* No token outlives the account it signs in to: a token is only inserted while
\* its user exists, and goes with the user.
THEOREM SessionsFollowUsers == Spec => []SessionsHaveUsers
<1>1. Init => SessionsHaveUsers
  BY DEF Init, SessionsHaveUsers, Live
<1>2. ASSUME TypeOK, SessionsHaveUsers, [Next]_vars
      PROVE  SessionsHaveUsers'
  <2>1. SUFFICES ASSUME NEW t \in Tokens, tokens'[t] # None
                 PROVE  users'[tokens'[t]] # None
    BY DEF SessionsHaveUsers, Live, Exists
  <2>2. CASE SessionOpened \/ TokenExchanged
    <3>1. PICK u \in Users : /\ Exists(u)
                            /\ tokens' = [tokens EXCEPT ![issued + 1] = u]
                            /\ UNCHANGED users
      BY <2>2 DEF SessionOpened, TokenExchanged, InsertToken
    <3>2. QED
      BY <1>2, <2>1, <3>1 DEF SessionsHaveUsers, Live, Exists, TypeOK
  <2>3. CASE TokensDropped
    <3>1. tokens'[t] = tokens[t] /\ tokens[t] \in Users /\ users[tokens[t]] # None
      BY <1>2, <2>1, <2>3
      DEF TokensDropped, DeleteTokens, SessionsHaveUsers, Live, Exists, TypeOK
    <3>2. CASE UsersKept
      BY <3>1, <3>2 DEF UsersKept
    <3>3. CASE UserAdded \/ UserChanged
      BY <1>2, <3>1, <3>3, RowIsNotNone DEF UserAdded, UserChanged, TypeOK
    <3>4. CASE UserDeleted
      BY <1>2, <2>1, <3>1, <3>4 DEF UserDeleted, DeleteTokens, TokensOf, TypeOK
    <3>5. QED
      BY <1>2, <3>2, <3>3, <3>4, UsersEffect
  <2>4. QED
    BY <1>2, <2>2, <2>3, TokensEffect
<1>3. QED
  BY <1>1, <1>2, TypeCorrect, PTL DEF Spec

-----------------------------------------------------------------------------
(* The tokens of a session.                                                *)

\* The inductive invariant.  Tokens not issued yet have no row and no history;
\* those issued form chains back to the first token of their session; and a
\* refresh that is about to insert its new token has already removed the old
\* one, which no other step can bring back.
Chains ==
  /\ \A t \in Tokens : t > issued =>
       /\ ~Live(t)
       /\ origin[t] = [parent |-> 0, root |-> 0]
  /\ \A t \in Tokens : t <= issued =>
       /\ origin[t].parent <= issued
       /\ origin[t].root \in 1..issued
       /\ origin[origin[t].root].root = origin[t].root
  /\ \A p \in Requests : req[p].pc \in RefreshStages => req[p].tok \in 1..issued
  /\ \A p \in Requests : req[p].pc = "refresh_issue" => ~Live(req[p].tok)
  /\ SpentTokensAreGone

\* A request enters the refresh stages with an issued token, keeps that token,
\* and reaches the last of them by deleting it.
LEMMA RequestEffect ==
  ASSUME TypeOK, [Next]_vars, NEW p \in Requests, req'[p].pc \in RefreshStages
  PROVE  \/ /\ req'[p] = req[p]
         \/ /\ req'[p].pc = "refresh_user"
            /\ req'[p].tok \in 1..issued
            /\ Live(req'[p].tok) /\ req'[p].tok > lapsed
            /\ UNCHANGED <<users, tokens, issued, lapsed, origin>>
         \/ /\ req[p].pc \in {"refresh_user", "refresh_delete"}
            /\ req'[p].tok = req[p].tok
            /\ req'[p].pc = "refresh_issue" => tokens'[req[p].tok] = None
<1>1. ASSUME NEW q \in Requests, RegisterSteps(q) \/ LoginSteps(q) \/ Fail(q)
                                 \/ AccountSteps(q)
      PROVE  req'[p] = req[p]
  <2>1. \/ \E pc \in {"register_create", "login_issue", "profile_write",
                      "password_write", "delete_user"} :
             \E u, row : Begin(q, pc, u, 0, row)
        \/ Move(q, "register_create", "register_issue")
        \/ End(q)
    <3>1. CASE RegisterSteps(q)
      BY <3>1 DEF RegisterSteps, RegisterCheck, RegisterCreate
    <3>2. CASE LoginSteps(q)
      BY <3>2 DEF LoginSteps, LoginCheck, OpenSession
    <3>3. CASE AccountSteps(q)
      BY <3>3 DEF AccountSteps, ProfileRead, ChangePasswordRead, WriteProfile,
         WritePassword, DeleteAccountTokens, DeleteAccountUser
    <3>4. QED
      BY <1>1, <3>1, <3>2, <3>3 DEF Fail
  <2>2. ASSUME q = p PROVE req'[p].pc \notin RefreshStages
    <3>1. ASSUME NEW pc \in {"register_create", "login_issue", "profile_write",
                             "password_write", "delete_user"},
                 NEW u, NEW row, Begin(p, pc, u, 0, row)
          PROVE  req'[p].pc \notin RefreshStages
      BY <3>1 DEF Begin, RefreshStages, TypeOK
    <3>2. CASE Move(p, "register_create", "register_issue")
      <4>1. req[p] \in [pc : RowStages, uid : Users, tok : {0}, row : Row]
        BY <3>2 DEF Move, TypeOK, Request, Idle, RefreshStages
      <4>2. req'[p] = [req[p] EXCEPT !.pc = "register_issue"]
        BY <3>2 DEF Move, TypeOK
      <4>3. QED
        BY <4>1, <4>2 DEF RefreshStages
    <3>3. CASE End(p)
      BY <3>3 DEF End, Idle, RefreshStages, TypeOK
    <3>4. QED
      BY <2>1, <2>2, <3>1, <3>2, <3>3
  <2>3. q # p
    BY <2>2
  <2>4. QED
    BY <2>1, <2>3 DEF Begin, Move, End, TypeOK
<1>2. ASSUME NEW q \in Requests, RefreshSteps(q), q # p
      PROVE  req'[p] = req[p]
  BY <1>2 DEF RefreshSteps, RefreshFind, RefreshUser, RefreshDelete, RefreshIssue,
     Begin, Move, End, TypeOK
<1>3. CASE \E t \in 1..issued : RefreshFind(p, t)
  BY <1>3 DEF RefreshFind, Begin, TypeOK
<1>4. CASE RefreshUser(p)
  BY <1>4 DEF RefreshUser, Move, TypeOK
<1>5. CASE RefreshDelete(p)
  <2>1. req[p].tok \in Tokens
    BY <1>5, RequestType DEF RefreshDelete, Move, RefreshStages
  <2>2. tokens'[req[p].tok] = None
    BY <1>5, <2>1 DEF RefreshDelete, DeleteTokens
  <2>3. req'[p].tok = req[p].tok /\ req[p].pc = "refresh_delete"
    BY <1>5 DEF RefreshDelete, Move, TypeOK
  <2>4. QED
    BY <2>2, <2>3
<1>6. CASE RefreshIssue(p)
  BY <1>6 DEF RefreshIssue, End, Idle, RefreshStages, TypeOK
<1>7. CASE SignOut \/ Lapse \/ UNCHANGED vars
  BY <1>7 DEF SignOut, Logout, RevokeSession, RevokeAllSessions, Lapse, vars
<1>8. QED
  BY <1>1, <1>2, <1>3, <1>4, <1>5, <1>6, <1>7 DEF Next, RequestStep, RefreshSteps

\* What the inductive step needs of an insertion: the token is new, and the one
\* it is exchanged for was issued before and is deleted.
LEMMA InsertEffect ==
  ASSUME TypeOK, Chains, SessionOpened \/ TokenExchanged
  PROVE  \E u \in Users, from \in 0..issued :
           /\ InsertToken(u, from)
           /\ from # 0 => ~Live(from)
           /\ UNCHANGED <<users, lapsed>>
<1>1. CASE SessionOpened
  BY <1>1 DEF SessionOpened, TypeOK
<1>2. CASE TokenExchanged
  <2>1. PICK p \in Requests :
          /\ req[p].uid \in Users
          /\ req[p].pc = "refresh_issue"
          /\ InsertToken(req[p].uid, req[p].tok)
          /\ UNCHANGED <<users, lapsed>>
    BY <1>2 DEF TokenExchanged
  <2>2. req[p].tok \in 1..issued /\ ~Live(req[p].tok)
    BY <2>1 DEF Chains, RefreshStages
  <2>3. QED
    BY <2>1, <2>2
<1>3. QED
  BY <1>1, <1>2

LEMMA InsertShape ==
  ASSUME TypeOK, NEW u \in Users, NEW from \in 0..issued, InsertToken(u, from)
  PROVE  /\ issued + 1 \in Tokens
         /\ issued' = issued + 1
         /\ \A t \in Tokens : t # issued + 1 =>
              tokens'[t] = tokens[t] /\ origin'[t] = origin[t]
         /\ tokens'[issued + 1] = u
         /\ origin'[issued + 1] =
              [parent |-> from, root |-> IF from = 0 THEN issued + 1 ELSE origin[from].root]
BY SessionsAssumption DEF TypeOK, InsertToken, Origin, Tokens

\* A token never regains its row, and a token that is issued keeps its history.
LEMMA TokenHistory ==
  ASSUME TypeOK, Chains, [Next]_vars, NEW t \in 1..issued
  PROVE  /\ t \in Tokens
         /\ issued <= issued'
         /\ tokens'[t] # None => tokens[t] # None
         /\ origin'[t] = origin[t]
<1>1. t \in Tokens /\ t # issued + 1
  BY SessionsAssumption DEF TypeOK, Tokens
<1>2. CASE TokensDropped
  BY <1>1, <1>2 DEF TokensDropped, DeleteTokens, TypeOK
<1>3. CASE SessionOpened \/ TokenExchanged
  <2>1. PICK u \in Users, from \in 0..issued : InsertToken(u, from)
    BY <1>3, InsertEffect
  <2>2. issued \in Nat
    BY SessionsAssumption DEF TypeOK
  <2>3. /\ issued' = issued + 1
        /\ tokens'[t] = tokens[t] /\ origin'[t] = origin[t]
    BY <1>1, <2>1, InsertShape
  <2>4. QED
    BY <1>1, <2>2, <2>3
<1>4. QED
  BY <1>2, <1>3, TokensEffect

LEMMA ChainsStep == TypeOK /\ Chains /\ [Next]_vars => Chains'
<1> SUFFICES ASSUME TypeOK, Chains, [Next]_vars PROVE Chains'
  OBVIOUS
<1>1. issued <= issued' /\ issued \in 0..MaxTokens /\ issued' \in 0..MaxTokens
  <2>1. CASE TokensDropped
    BY <2>1 DEF TokensDropped, TypeOK
  <2>2. CASE SessionOpened \/ TokenExchanged
    <3>1. PICK u \in Users, from \in 0..issued : InsertToken(u, from)
      BY <2>2, InsertEffect
    <3>2. issued + 1 \in Tokens /\ issued' = issued + 1
      BY <3>1, InsertShape
    <3>3. QED
      BY <3>2, SessionsAssumption DEF TypeOK, Tokens
  <2>3. QED
    BY <2>1, <2>2, TokensEffect
<1>2. /\ \A t \in Tokens : t > issued' =>
           /\ tokens'[t] = None
           /\ origin'[t] = [parent |-> 0, root |-> 0]
      /\ \A t \in Tokens : t <= issued' =>
           /\ origin'[t].parent <= issued'
           /\ origin'[t].root \in 1..issued'
           /\ origin'[origin'[t].root].root = origin'[t].root
      /\ \A t \in Tokens : origin'[t].parent # 0 => tokens'[origin'[t].parent] = None
  <2>1. CASE TokensDropped
    <3>1. issued' = issued /\ origin' = origin
          /\ \A t : t \in Tokens /\ tokens'[t] # None => tokens[t] # None
      BY <2>1 DEF TokensDropped, DeleteTokens
    <3>2. \A t \in Tokens : origin[t].parent # 0 => origin[t].parent \in Tokens
      BY DEF TypeOK, Tokens
    <3>3. \A t \in Tokens : origin[t].parent # 0 => tokens[origin[t].parent] = None
      BY DEF Chains, Live, SpentTokensAreGone
    <3>4. \A t \in Tokens : t > issued =>
             tokens[t] = None /\ origin[t] = [parent |-> 0, root |-> 0]
      BY DEF Chains, Live
    <3>5. \A t \in Tokens : t <= issued =>
             /\ origin[t].parent <= issued
             /\ origin[t].root \in 1..issued
             /\ origin[origin[t].root].root = origin[t].root
      BY DEF Chains
    <3>6. QED
      BY <3>1, <3>2, <3>3, <3>4, <3>5
  <2>2. CASE SessionOpened \/ TokenExchanged
    <3>1. PICK u \in Users, from \in 0..issued :
            InsertToken(u, from) /\ (from # 0 => ~Live(from))
      BY <2>2, InsertEffect
    <3> DEFINE new == issued + 1
    <3>2. /\ new \in Tokens /\ issued' = new
          /\ \A t \in Tokens : t # new => tokens'[t] = tokens[t] /\ origin'[t] = origin[t]
          /\ origin'[new] = [parent |-> from,
                             root |-> IF from = 0 THEN new ELSE origin[from].root]
      BY <3>1, InsertShape
    <3>3. \A t \in Tokens : t > issued' => t > issued /\ t # new
      BY <3>2 DEF TypeOK, Tokens
    <3>4. ASSUME NEW t \in Tokens, t <= issued', t # new
          PROVE  /\ origin'[t].parent <= issued'
                 /\ origin'[t].root \in 1..issued'
                 /\ origin'[origin'[t].root].root = origin'[t].root
                 /\ origin'[t].parent # 0 => tokens'[origin'[t].parent] = None
      <4>1. t <= issued
        BY <3>2, <3>4 DEF TypeOK, Tokens
      <4>2. origin[t].parent \in 0..issued /\ origin[t].root \in 1..issued
            /\ origin[origin[t].root].root = origin[t].root
            /\ (origin[t].parent # 0 => tokens[origin[t].parent] = None)
        BY <4>1 DEF Chains, TypeOK, SpentTokensAreGone, Live
      <4>3. \A r \in 1..issued : r \in Tokens /\ r # new
        BY SessionsAssumption DEF TypeOK, Tokens
      <4>4. QED
        BY <1>1, <3>2, <3>4, <4>2, <4>3 DEF Live
    <3>5. /\ origin'[new].parent <= issued'
          /\ origin'[new].root \in 1..issued'
          /\ origin'[origin'[new].root].root = origin'[new].root
          /\ origin'[new].parent # 0 => tokens'[origin'[new].parent] = None
      <4>1. CASE from = 0
        BY <1>1, <3>2, <4>1 DEF Tokens, TypeOK
      <4>2. CASE from # 0
        <5>1. from \in Tokens /\ from # new /\ from <= issued
          BY <4>2, SessionsAssumption DEF TypeOK, Tokens
        <5>2. origin[from].root \in 1..issued
              /\ origin[origin[from].root].root = origin[from].root
          BY <5>1 DEF Chains
        <5>3. origin[from].root \in Tokens /\ origin[from].root # new
          BY <5>2, SessionsAssumption DEF TypeOK, Tokens
        <5>4. QED
          BY <1>1, <3>1, <3>2, <4>2, <5>1, <5>2, <5>3 DEF Live
      <4>3. QED
        BY <4>1, <4>2
    <3>6. ASSUME NEW t \in Tokens, t > issued'
          PROVE  tokens'[t] = None /\ origin'[t] = [parent |-> 0, root |-> 0]
      BY <3>2, <3>3, <3>6 DEF Chains, Live
    <3>7. ASSUME NEW t \in Tokens, origin'[t].parent # 0
          PROVE  tokens'[origin'[t].parent] = None
      <4>1. t <= issued'
        <5>1. t > issued' => origin'[t].parent = 0
          BY <3>6
        <5>2. QED
          BY <1>1, <3>7, <5>1 DEF Tokens
      <4>2. QED
        BY <3>4, <3>5, <3>7, <4>1
    <3>8. QED
      BY <3>4, <3>5, <3>6, <3>7
  <2>3. QED
    BY <2>1, <2>2, TokensEffect
<1>3. ASSUME NEW p \in Requests, req'[p].pc \in RefreshStages
      PROVE  /\ req'[p].tok \in 1..issued'
             /\ req'[p].pc = "refresh_issue" => tokens'[req'[p].tok] = None
  <2>1. CASE req'[p] = req[p]
    <3>1. req[p].tok \in 1..issued
          /\ (req[p].pc = "refresh_issue" => tokens[req[p].tok] = None)
      BY <1>3, <2>1 DEF Chains, Live
    <3>2. QED
      BY <1>1, <2>1, <3>1, TokenHistory
  <2>2. CASE req'[p].pc = "refresh_user" /\ req'[p].tok \in 1..issued
    BY <1>1, <2>2
  <2>3. CASE /\ req[p].pc \in {"refresh_user", "refresh_delete"}
             /\ req'[p].tok = req[p].tok
             /\ req'[p].pc = "refresh_issue" => tokens'[req[p].tok] = None
    <3>1. req[p].tok \in 1..issued
      BY <2>3 DEF Chains, RefreshStages
    <3>2. QED
      BY <1>1, <2>3, <3>1
  <2>4. QED
    BY <1>3, <2>1, <2>2, <2>3, RequestEffect
<1>4. QED
  BY <1>2, <1>3 DEF Chains, SpentTokensAreGone, Live, RefreshStages

\* The tokens of every reachable state form such chains.
THEOREM ChainsHold == Spec => []Chains
<1>1. Init => Chains
  BY DEF Init, Chains, Live, Tokens, Idle, RefreshStages, SpentTokensAreGone
<1>2. QED
  BY <1>1, ChainsStep, TypeCorrect, PTL DEF Spec

\* A token that a refresh exchanged is gone, whatever raced with the refresh.
THEOREM RotationIsFinal == Spec => []SpentTokensAreGone
<1>1. Chains => SpentTokensAreGone
  BY DEF Chains
<1>2. QED
  BY <1>1, ChainsHold, PTL

-----------------------------------------------------------------------------
(* Sessions implements SessionLife.                                        *)

LEMMA TimeGoesOn == TypeOK /\ [Next]_vars => lapsed <= lapsed'
<1> SUFFICES ASSUME TypeOK, [Next]_vars PROVE lapsed <= lapsed'
  OBVIOUS
<1>1. lapsed \in Nat
  BY SessionsAssumption DEF TypeOK
<1>2. CASE Lapse
  BY <1>1, <1>2 DEF Lapse
<1>3. CASE UNCHANGED lapsed
  BY <1>1, <1>3
<1>4. QED
  BY <1>2, <1>3
  DEF Next, RequestStep, RegisterSteps, RegisterCheck, RegisterCreate, LoginSteps,
      LoginCheck, OpenSession, RefreshSteps, RefreshFind, RefreshUser, RefreshDelete,
      RefreshIssue, AccountSteps, ProfileRead, ChangePasswordRead, WriteProfile,
      WritePassword, DeleteAccountTokens, DeleteAccountUser, Fail, SignOut, Logout,
      RevokeSession, RevokeAllSessions, vars

\* The insertion that begins a session, and the one that continues it.
LEMMA OpenShape ==
  ASSUME TypeOK, NEW u \in Users, InsertToken(u, 0)
  PROVE  /\ issued \in Nat
         /\ issued + 1 \in Tokens
         /\ \A t \in Tokens : t # issued + 1 =>
              tokens'[t] = tokens[t] /\ origin'[t] = origin[t]
         /\ tokens'[issued + 1] = u
         /\ origin'[issued + 1].root = issued + 1
<1>1. issued \in Nat /\ 0 \in 0..issued
  BY SessionsAssumption DEF TypeOK
<1>2. origin'[issued + 1] = [parent |-> 0, root |-> issued + 1]
  BY <1>1, InsertShape
<1>3. QED
  BY <1>1, <1>2, InsertShape

LEMMA ExchangeShape ==
  ASSUME TypeOK, NEW u \in Users, NEW from \in 1..issued, InsertToken(u, from)
  PROVE  /\ issued \in Nat
         /\ issued + 1 \in Tokens
         /\ \A t \in Tokens : t # issued + 1 =>
              tokens'[t] = tokens[t] /\ origin'[t] = origin[t]
         /\ origin'[issued + 1].root = origin[from].root
<1>1. issued \in Nat /\ from \in 0..issued /\ from # 0
  BY SessionsAssumption DEF TypeOK
<1>2. origin'[issued + 1] = [parent |-> from, root |-> origin[from].root]
  BY <1>1, InsertShape
<1>3. QED
  BY <1>1, <1>2, InsertShape

LEMMA AliveIsRooted ==
  ASSUME TypeOK, Chains, NEW r \in Tokens, Alive(r)
  PROVE  r \in 1..issued /\ origin[r].root = r
<1>1. \E t \in Tokens : t <= issued /\ origin[t].root = r
  <2>1. ASSUME NEW t \in Tokens, Live(t), origin[t].root = r
        PROVE  t <= issued
    BY <2>1, SessionsAssumption DEF Chains, TypeOK, Tokens
  <2>2. ASSUME NEW p \in Requests, req[p].pc \in RefreshStages
        PROVE  req[p].tok \in Tokens /\ req[p].tok <= issued
    BY <2>2, SessionsAssumption DEF Chains, TypeOK, Tokens
  <2>3. QED
    BY <2>1, <2>2 DEF Alive, Pending
<1>2. QED
  BY <1>1 DEF Chains

\* A session that can be continued after a step could be before it, unless the
\* step is the one that begins it.
LEMMA NoneRevived ==
  ASSUME TypeOK, Chains, [Next]_vars, NEW r \in Tokens, Alive(r)',
         ~(SessionOpened /\ r = issued + 1)
  PROVE  Alive(r)
<1>1. ASSUME NEW t \in Tokens, tokens'[t] # None, t > lapsed', origin'[t].root = r
      PROVE  Alive(r)
  <2>1. issued \in Nat /\ lapsed \in Nat /\ lapsed' \in Nat /\ t \in Nat /\ t > lapsed
    <3>1. TypeOK' /\ lapsed <= lapsed'
      BY TimeGoesOn, TypeStep
    <3>2. QED
      BY <1>1, <3>1, SessionsAssumption DEF TypeOK, Tokens
  <2>2. CASE t <= issued
    <3>1. tokens[t] # None /\ origin[t].root = r
      BY <1>1, <2>1, <2>2, TokenHistory DEF Tokens
    <3>2. QED
      BY <2>1, <3>1 DEF Alive, Live
  <2>3. CASE t > issued
    <3>1. tokens[t] = None
      BY <2>3 DEF Chains, Live
    <3>2. CASE TokensDropped
      BY <1>1, <3>1, <3>2 DEF TokensDropped, DeleteTokens
    <3>3. CASE SessionOpened
      <4>1. PICK u \in Users : InsertToken(u, 0)
        BY <3>3 DEF SessionOpened
      <4>2. t = issued + 1
        BY <1>1, <3>1, <4>1, OpenShape
      <4>3. origin'[t].root = t
        BY <4>1, <4>2, OpenShape
      <4>4. QED
        BY <1>1, <3>3, <4>2, <4>3
    <3>4. CASE TokenExchanged
      <4>1. PICK p \in Requests : /\ req[p].uid \in Users
                                  /\ req[p].pc = "refresh_issue"
                                  /\ InsertToken(req[p].uid, req[p].tok)
        BY <3>4 DEF TokenExchanged
      <4>2. req[p].tok \in 1..issued
        BY <4>1 DEF Chains, RefreshStages
      <4>3. t = issued + 1
        BY <1>1, <3>1, <4>1, <4>2, ExchangeShape
      <4>4. origin[req[p].tok].root = r
        BY <1>1, <4>1, <4>2, <4>3, ExchangeShape
      <4>5. QED
        BY <4>1, <4>4 DEF Alive, Pending, RefreshStages
    <3>5. QED
      BY <3>2, <3>3, <3>4, TokensEffect
  <2>4. QED
    BY <2>1, <2>2, <2>3
<1>2. ASSUME NEW p \in Requests, req'[p].pc \in RefreshStages,
             origin'[req'[p].tok].root = r
      PROVE  Alive(r)
  <2>1. CASE /\ req'[p].tok \in 1..issued
             /\ Live(req'[p].tok) /\ req'[p].tok > lapsed
             /\ origin' = origin
    <3>1. req'[p].tok \in Tokens
      BY <2>1, SessionsAssumption DEF TypeOK, Tokens
    <3>2. QED
      BY <1>2, <2>1, <3>1 DEF Alive
  <2>2. CASE req[p].pc \in RefreshStages /\ req'[p].tok = req[p].tok
    <3>1. req[p].tok \in 1..issued
      BY <2>2 DEF Chains
    <3>2. origin'[req[p].tok] = origin[req[p].tok]
      BY <3>1, TokenHistory
    <3>3. QED
      BY <1>2, <2>2, <3>2 DEF Alive, Pending
  <2>3. QED
    BY <1>2, <2>1, <2>2, RequestEffect DEF RefreshStages
<1>3. QED
  BY <1>1, <1>2 DEF Alive, Live, Pending

\* Beginning a session ends no other.
LEMMA OthersKept ==
  ASSUME TypeOK, Chains, SessionOpened, NEW r \in Tokens, r # issued + 1, Alive(r)
  PROVE  Alive(r)'
<1>1. PICK p \in Requests :
        /\ req[p].uid \in Users
        /\ req[p].pc \notin RefreshStages
        /\ InsertToken(req[p].uid, 0)
        /\ End(p)
        /\ UNCHANGED lapsed
  BY DEF SessionOpened
<1>2. \A t \in Tokens : t # issued + 1 => tokens'[t] = tokens[t] /\ origin'[t] = origin[t]
  BY <1>1, OpenShape
<1>3. ASSUME NEW t \in Tokens, Live(t), t > lapsed, origin[t].root = r
      PROVE  Alive(r)'
  <2>1. t # issued + 1
    BY <1>3, SessionsAssumption DEF Chains, TypeOK, Tokens
  <2>2. QED
    BY <1>1, <1>2, <1>3, <2>1 DEF Alive, Live
<1>4. ASSUME NEW q \in Requests, req[q].pc \in RefreshStages, origin[req[q].tok].root = r
      PROVE  Alive(r)'
  <2>1. req'[q] = req[q]
    BY <1>1, <1>4 DEF End, TypeOK
  <2>2. req[q].tok \in Tokens /\ req[q].tok # issued + 1
    BY <1>4, SessionsAssumption DEF Chains, TypeOK, Tokens
  <2>3. QED
    BY <1>2, <1>4, <2>1, <2>2 DEF Alive, Pending
<1>5. QED
  BY <1>3, <1>4 DEF Alive, Pending

\* Which tokens begin a session only changes by beginning one.
LEMMA RootsKept ==
  ASSUME TypeOK, Chains, [Next]_vars, NEW r \in Tokens,
         ~(SessionOpened /\ r = issued + 1)
  PROVE  origin'[r].root = r <=> origin[r].root = r
<1>1. CASE r \in 1..issued
  BY <1>1, TokenHistory
<1>2. CASE r \notin 1..issued
  <2>1. r > issued /\ issued \in Nat /\ r \in Nat
    BY <1>2, SessionsAssumption DEF TypeOK, Tokens
  <2>2. origin[r].root = 0 /\ r # 0
    BY <2>1 DEF Chains
  <2>3. CASE TokensDropped
    BY <2>3 DEF TokensDropped
  <2>4. CASE SessionOpened
    <3>1. PICK u \in Users : InsertToken(u, 0)
      BY <2>4 DEF SessionOpened
    <3>2. QED
      BY <2>4, <3>1, OpenShape
  <2>5. CASE TokenExchanged
    <3>1. PICK p \in Requests : /\ req[p].uid \in Users
                                /\ req[p].pc = "refresh_issue"
                                /\ InsertToken(req[p].uid, req[p].tok)
      BY <2>5 DEF TokenExchanged
    <3>2. req[p].tok \in 1..issued /\ req[p].tok \in Tokens
      BY <3>1, SessionsAssumption DEF Chains, RefreshStages, TypeOK, Tokens
    <3>3. origin[req[p].tok].root \in 1..issued
      BY <3>2 DEF Chains
    <3>4. origin'[r] = origin[r] \/ origin'[r].root = origin[req[p].tok].root
      BY <3>1, <3>2, ExchangeShape
    <3>5. QED
      BY <2>1, <2>2, <3>3, <3>4
  <2>6. QED
    BY <2>3, <2>4, <2>5, TokensEffect
<1>3. QED
  BY <1>1, <1>2

LEMMA StageStep ==
  ASSUME TypeOK, Chains, [Next]_vars
  PROVE  [SL!Next]_Stage
<1> DEFINE S == {r \in Tokens : Stage[r] = "open" /\ Stage'[r] = "ended"}
<1>1. \A r \in Tokens : Alive(r) => origin[r].root = r
  BY AliveIsRooted
<1>2. CASE ~SessionOpened
  <2>1. ASSUME NEW r \in Tokens
        PROVE  Stage'[r] = IF r \in S THEN "ended" ELSE Stage[r]
    <3>1. Alive(r)' => Alive(r)
      BY <1>2, NoneRevived
    <3>2. origin'[r].root = r <=> origin[r].root = r
      BY <1>2, RootsKept
    <3>3. QED
      BY <1>1, <3>1, <3>2 DEF Stage
  <2>2. Stage' = [r \in Tokens |-> IF r \in S THEN "ended" ELSE Stage[r]]
    BY <2>1 DEF Stage
  <2>3. SL!End(S)
    BY <2>2 DEF SL!End
  <2>4. QED
    BY <2>3 DEF SL!Next
<1>3. CASE SessionOpened
  <2>1. PICK u \in Users : InsertToken(u, 0) /\ UNCHANGED lapsed
    BY <1>3 DEF SessionOpened
  <2> PICK new \in Tokens : new = issued + 1
    BY <2>1, OpenShape
  <2>2. origin'[new].root = new /\ tokens'[new] = u /\ issued \in Nat
    BY <2>1, OpenShape
  <2>3. lapsed' \in Nat /\ new > lapsed'
    BY <2>1, <2>2 DEF TypeOK
  <2>4. Alive(new)'
    BY <2>2, <2>3, RowIsNotNone DEF Alive, Live
  <2>5. ~Alive(new) /\ origin[new].root # new
    <3>1. new > issued /\ new \notin 1..issued /\ new # 0
      BY <2>2
    <3>2. QED
      BY <2>2, <3>1, AliveIsRooted DEF Chains
  <2>6. ASSUME NEW r \in Tokens, r # new
        PROVE  Stage'[r] = Stage[r]
    <3>1. Alive(r)' <=> Alive(r)
      BY <1>3, <2>6, NoneRevived, OthersKept
    <3>2. origin'[r].root = r <=> origin[r].root = r
      BY <2>6, RootsKept
    <3>3. QED
      BY <3>1, <3>2 DEF Stage
  <2>7. Stage[new] = "none" /\ Stage'[new] = "open"
    BY <2>2, <2>4, <2>5 DEF Stage
  <2>8. Stage' = [Stage EXCEPT ![new] = "open"]
    BY <2>6, <2>7 DEF Stage
  <2>9. SL!Open(new)
    BY <2>7, <2>8 DEF SL!Open
  <2>10. QED
    BY <2>2, <2>9 DEF SL!Next
<1>4. QED
  BY <1>2, <1>3

\* Sessions implements SessionLife: in every behaviour a session opens once and,
\* when its last token and its last pending refresh are gone, stays ended.
THEOREM SessionsImplementLife == Spec => SessionsEndForGood
<1>1. Init => SL!Init
  <2>1. ASSUME Init, NEW r \in Tokens PROVE ~Alive(r) /\ origin[r].root # r
    BY <2>1, SessionsAssumption
    DEF Init, Alive, Live, Pending, Idle, RefreshStages, Tokens
  <2>2. QED
    BY <2>1 DEF SL!Init, Stage
<1>2. QED
  BY <1>1, StageStep, TypeCorrect, ChainsHold, PTL DEF Spec, SessionsEndForGood, SL!Spec

-----------------------------------------------------------------------------
(***************************************************************************)
(* The rate limiter in front of the auth routes, over variables of its     *)
(* own: it lets at most 2 * Max requests through in any Window ticks, for  *)
(* every Max, Window and horizon.                                          *)
(*                                                                         *)
(* The argument: requests i and i + Max cannot be counted under one life   *)
(* of the key (Counted), and a life lasts at least Window ticks (Lasting), *)
(* so request i + 2 * Max comes two lives after request i, with a whole    *)
(* life between them (Spaced).                                             *)
(***************************************************************************)

Sent == 1..Len(admitted)

\* How the parts of the key fit together.
KeyShape ==
  /\ count = 0 => deadline = NoTTL /\ ~expiring
  /\ expiring => deadline = NoTTL
  /\ count # 0 => life # 0

\* A life of the key lasts Window ticks or more.
Lasting ==
  /\ deadline # NoTTL => deadline >= opened + Window /\ deadline > now
  /\ count = 0 /\ life # 0 => now >= opened + Window

\* Entries of the ledger carry past times and lives.
Past ==
  \A i \in Sent :
    /\ admitted[i].at <= now
    /\ admitted[i].life <= life
    /\ admitted[i].life < life => admitted[i].at <= opened
    /\ admitted[i].life + 2 <= life => opened >= admitted[i].at + Window

\* Those counted under the current life are the last count entries.
Current ==
  count # 0 =>
    \A i \in Sent : admitted[i].life = life => i > Len(admitted) - count

\* No life admits more than Max requests.
Counted ==
  /\ \A i, j \in Sent : i <= j => admitted[i].life <= admitted[j].life
  /\ \A i \in Sent : i + Max <= Len(admitted) =>
       admitted[i].life < admitted[i + Max].life

\* Two lives apart is at least Window ticks apart.
Spaced ==
  \A i, j \in Sent :
    admitted[i].life + 2 <= admitted[j].life => admitted[j].at >= admitted[i].at + Window

LimiterInv == LimiterTypeOK /\ KeyShape /\ Lasting /\ Past /\ Current /\ Counted /\ Spaced

-----------------------------------------------------------------------------
\* What one entry of the ledger is.
LEMMA EntryType ==
  ASSUME LimiterTypeOK, NEW i \in Sent
  PROVE  /\ i \in Nat
         /\ admitted[i] \in [at : Nat, life : Nat]
         /\ admitted[i].at \in Nat
         /\ admitted[i].life \in Nat
<1>1. admitted \in Seq([at : Nat, life : Nat])
  BY DEF LimiterTypeOK
<1>2. i \in Nat /\ admitted[i] \in [at : Nat, life : Nat]
  <2>1. Len(admitted) \in Nat /\ admitted \in [1..Len(admitted) -> [at : Nat, life : Nat]]
    BY <1>1, LenProperties
  <2> QED
    BY <2>1 DEF Sent
<1> QED
  BY <1>2

\* The initial state satisfies the invariant.
LEMMA InvInit == ASSUME LimiterInit PROVE LimiterInv
<1>1. Sent = {}
  <2>1. Len(admitted) = 0
    BY DEF LimiterInit
  <2> QED
    BY <2>1 DEF Sent
<1>2. LimiterTypeOK
  <2>1. admitted \in Seq([at : Nat, life : Nat])
    BY DEF LimiterInit
  <2>2. count \in 0..MaxCount /\ opened \in 0..now /\ now \in Nat
    BY RateLimitAssumption DEF LimiterInit
  <2> QED
    BY <2>1, <2>2 DEF LimiterInit, LimiterTypeOK
<1>3. KeyShape /\ Lasting
  BY RateLimitAssumption DEF LimiterInit, KeyShape, Lasting
<1>4. Past /\ Current /\ Counted /\ Spaced
  BY <1>1 DEF Past, Current, Counted, Spaced
<1> QED
  BY <1>2, <1>3, <1>4 DEF LimiterInv

\* Setting the deadline, or failing to, leaves the ledger alone.
LEMMA InvExpire ==
  ASSUME LimiterInv, Expire \/ ExpireLost
  PROVE  LimiterInv'
<1>1. UNCHANGED <<now, count, life, opened, admitted>>
  BY DEF Expire, ExpireLost
<1>2. LimiterTypeOK /\ KeyShape /\ Lasting
  BY DEF LimiterInv
<1>3. LimiterTypeOK'
  <2>1. expiring' = FALSE /\ deadline' \in Nat \cup {NoTTL}
    BY <1>2, RateLimitAssumption DEF LimiterTypeOK, Expire, ExpireLost
  <2> QED
    BY <1>1, <1>2, <2>1 DEF LimiterTypeOK
<1>4. KeyShape'
  BY <1>1, <1>2 DEF KeyShape, Expire, ExpireLost
<1>5. Lasting'
  BY <1>1, <1>2, RateLimitAssumption DEF LimiterTypeOK, Lasting, Expire, ExpireLost
<1>6. (Past /\ Current /\ Counted /\ Spaced)'
  BY <1>1 DEF LimiterInv, Past, Current, Counted, Spaced, Sent
<1> QED
  BY <1>3, <1>4, <1>5, <1>6 DEF LimiterInv

\* Time passes, and may take the key with it.
LEMMA InvTick ==
  ASSUME LimiterInv, Tick
  PROVE  LimiterInv'
<1>1. now' = now + 1 /\ UNCHANGED <<expiring, life, opened, admitted>>
  BY DEF Tick
<1>2. LimiterTypeOK /\ KeyShape /\ Lasting /\ Past /\ Current
  BY DEF LimiterInv
<1>3. LimiterTypeOK'
  BY <1>1, <1>2, RateLimitAssumption DEF LimiterTypeOK, Tick
<1>4. KeyShape'
  BY <1>1, <1>2, RateLimitAssumption DEF LimiterTypeOK, KeyShape, Tick
<1>5. Lasting'
  BY <1>1, <1>2, RateLimitAssumption DEF LimiterTypeOK, Lasting, KeyShape, Tick
<1>6. Past'
  BY <1>1, <1>2, EntryType DEF Past, Sent, LimiterTypeOK
<1>7. Current'
  BY <1>1, <1>2 DEF Current, Sent, Tick
<1>8. (Counted /\ Spaced)'
  BY <1>1 DEF LimiterInv, Counted, Spaced, Sent
<1> QED
  BY <1>3, <1>4, <1>5, <1>6, <1>7, <1>8 DEF LimiterInv

\* A request is counted, and admitted or not.
LEMMA InvIncr ==
  ASSUME LimiterInv, Incr
  PROVE  LimiterInv'
<1> DEFINE k == IF count = 0 THEN life + 1 ELSE life
           e == [at |-> now, life |-> k]
<1>1. LimiterTypeOK /\ KeyShape /\ Lasting /\ Past /\ Current /\ Counted /\ Spaced
  BY DEF LimiterInv
<1>2. /\ count' = count + 1
      /\ life' = k
      /\ opened' = IF count = 0 THEN now ELSE opened
      /\ expiring' = (expiring \/ count + 1 = 1)
      /\ UNCHANGED <<now, deadline>>
      /\ count < MaxCount
  BY DEF Incr, First
<1>3. /\ now \in Nat /\ count \in Nat /\ life \in Nat /\ opened \in Nat
      /\ k \in Nat /\ opened <= now /\ Len(admitted) \in Nat
      /\ admitted \in Seq([at : Nat, life : Nat])
      /\ e \in [at : Nat, life : Nat]
      /\ Max \in Nat /\ Max >= 1 /\ Window \in Nat /\ Window >= 1
  BY <1>1, RateLimitAssumption DEF LimiterTypeOK
<1>e. e.at = now /\ e.life = k
  OBVIOUS
<1>k. (count = 0 => k = life + 1) /\ (count # 0 => k = life)
  OBVIOUS
<1> HIDE DEF k, e
<1>4. KeyShape' /\ Lasting' /\ expiring' \in BOOLEAN
  <2>1. expiring' \in BOOLEAN
    BY <1>2
  <2>2. KeyShape'
    BY <1>1, <1>2, <1>3, <1>k DEF KeyShape, LimiterTypeOK
  <2>3. Lasting'
    BY <1>1, <1>2, <1>3, <1>k DEF KeyShape, Lasting, LimiterTypeOK
  <2> QED
    BY <2>1, <2>2, <2>3
\* The time and life of the request follow those of every earlier entry.
<1>5. ASSUME NEW i \in Sent
      PROVE  /\ admitted[i].at <= now
             /\ admitted[i].life <= k
             /\ admitted[i].life < k => admitted[i].at <= opened'
             /\ admitted[i].life + 2 <= k => opened' >= admitted[i].at + Window
  <2>1. admitted[i].at \in Nat /\ admitted[i].life \in Nat
    BY <1>1, EntryType
  <2>2. /\ admitted[i].at <= now
        /\ admitted[i].life <= life
        /\ admitted[i].life < life => admitted[i].at <= opened
        /\ admitted[i].life + 2 <= life => opened >= admitted[i].at + Window
    BY <1>1 DEF Past
  <2>3. CASE count = 0
    <3>1. k = life + 1 /\ opened' = now
      BY <1>2, <1>k, <2>3
    <3>2. ASSUME admitted[i].life + 2 <= k PROVE now >= admitted[i].at + Window
      <4>1. life # 0 /\ admitted[i].life < life
        BY <3>1, <3>2, <2>1, <1>3
      <4>2. now >= opened + Window
        BY <4>1, <2>3, <1>1 DEF Lasting
      <4> QED
        BY <4>1, <4>2, <2>1, <2>2, <1>3
    <3> QED
      BY <3>1, <3>2, <2>1, <2>2, <1>3
  <2>4. CASE count # 0
    BY <2>1, <2>2, <2>4, <1>2, <1>3, <1>k
  <2> QED
    BY <2>3, <2>4
<1>6. CASE OverMax(count + 1)
  <2>1. admitted' = admitted
    BY <1>6 DEF Incr
  <2>2. count # 0 /\ k = life
    BY <1>6, <1>3, <1>k DEF OverMax
  <2>3. LimiterTypeOK'
    <3>1. opened' = opened /\ count' \in 0..MaxCount
      BY <1>2, <1>3, <2>2, RateLimitAssumption
    <3> QED
      BY <1>1, <1>2, <1>3, <1>4, <2>1, <2>2, <3>1 DEF LimiterTypeOK
  <2>4. Past'
    BY <1>2, <1>5, <2>1 DEF Past, Sent
  <2>5. Current'
    <3>1. \A i \in Sent : admitted[i].life = life => i > Len(admitted) - count
      BY <1>1, <2>2 DEF Current
    <3>2. \A i \in Sent : i > Len(admitted) - count => i > Len(admitted) - (count + 1)
      BY <1>3 DEF Sent
    <3> QED
      BY <1>2, <2>1, <2>2, <3>1, <3>2 DEF Current, Sent
  <2>6. Counted' /\ Spaced'
    BY <1>1, <2>1 DEF Counted, Spaced, Sent
  <2> QED
    BY <1>4, <2>3, <2>4, <2>5, <2>6 DEF LimiterInv
<1>7. CASE ~OverMax(count + 1)
  <2>1. admitted' = Append(admitted, e) /\ count + 1 <= Max
    BY <1>7, <1>3 DEF Incr, OverMax, e, k
  <2>2. /\ Len(admitted') = Len(admitted) + 1
        /\ admitted'[Len(admitted) + 1] = e
        /\ \A i \in Sent : admitted'[i] = admitted[i]
        /\ admitted' \in Seq([at : Nat, life : Nat])
    BY <2>1, <1>3 DEF Sent
  <2>3. Sent' = Sent \cup {Len(admitted) + 1}
    BY <2>2, <1>3 DEF Sent
  <2>4. \A i \in Sent : i \in Nat /\ i <= Len(admitted)
    BY <1>3 DEF Sent
  <2>5. \A i \in Sent : admitted[i].at \in Nat /\ admitted[i].life \in Nat
    BY <1>1, EntryType
  <2>6. LimiterTypeOK'
    <3>1. opened' \in 0..now /\ count' \in 0..MaxCount
      BY <1>2, <1>3, RateLimitAssumption
    <3> QED
      BY <1>1, <1>2, <1>3, <1>4, <2>2, <3>1 DEF LimiterTypeOK
  <2>7. Past'
    <3>1. ASSUME NEW i \in Sent
          PROVE /\ admitted'[i].at <= now'
                /\ admitted'[i].life <= life'
                /\ admitted'[i].life < life' => admitted'[i].at <= opened'
                /\ admitted'[i].life + 2 <= life' => opened' >= admitted'[i].at + Window
      BY <1>2, <1>5, <2>2
    <3>2. e.at <= now' /\ e.life <= life' /\ ~(e.life < life') /\ ~(e.life + 2 <= life')
      BY <1>2, <1>3, <1>e, <2>2
    <3> QED
      BY <3>1, <3>2, <2>2, <2>3 DEF Past
  \* The entries of the current life are the last count ones.
  <2>8. \A i \in Sent : admitted[i].life = k => i > Len(admitted) - count
    <3>1. CASE count = 0
      BY <3>1, <1>1, <1>3, <1>k, <2>5 DEF Past
    <3>2. CASE count # 0
      BY <3>2, <1>1, <1>k DEF Current
    <3> QED
      BY <3>1, <3>2
  <2>9. Current'
    <3>1. \A i \in Sent : admitted'[i].life = life' => i > Len(admitted') - count'
      <4> SUFFICES ASSUME NEW i \in Sent, admitted'[i].life = life'
                   PROVE  i > Len(admitted') - count'
        OBVIOUS
      <4>1. admitted[i].life = k
        BY <1>2, <2>2
      <4>2. i > Len(admitted) - count /\ i \in Nat
        BY <2>4, <2>8, <4>1
      <4>3. Len(admitted') = Len(admitted) + 1 /\ count' = count + 1
        BY <1>2, <2>2
      <4> QED
        BY <1>3, <4>2, <4>3
    <3>2. Len(admitted) + 1 > Len(admitted') - count'
      BY <1>2, <1>3, <2>2
    <3> QED
      BY <3>1, <3>2, <2>3 DEF Current
  <2>10. Counted'
    <3>1. \A i, j \in Sent' : i <= j => admitted'[i].life <= admitted'[j].life
      <4>1. \A i, j \in Sent : i <= j => admitted'[i].life <= admitted'[j].life
        BY <1>1, <2>2 DEF Counted
      <4>2. \A i \in Sent : admitted'[i].life <= e.life
        BY <1>5, <1>e, <2>2
      <4>3. e.life <= e.life
        BY <1>3, <1>e
      <4>4. \A i \in Sent : ~(Len(admitted) + 1 <= i)
        BY <2>4, <1>3
      <4> QED
        BY <4>1, <4>2, <4>3, <4>4, <2>2, <2>3
    <3>2. \A i \in Sent' : i + Max <= Len(admitted') =>
            admitted'[i].life < admitted'[i + Max].life
      <4> SUFFICES ASSUME NEW i \in Sent', i + Max <= Len(admitted')
                   PROVE  admitted'[i].life < admitted'[i + Max].life
        OBVIOUS
      <4>1. i \in Sent /\ i \in Nat
        BY <2>2, <2>3, <2>4, <1>3
      <4>2. CASE i + Max <= Len(admitted)
        <5>1. i + Max \in Sent
          BY <4>1, <4>2, <1>3 DEF Sent
        <5> QED
          BY <5>1, <4>1, <4>2, <1>1, <2>2 DEF Counted
      <4>3. CASE i + Max = Len(admitted) + 1
        <5>1. ~(i > Len(admitted) - count)
          BY <4>1, <4>3, <2>1, <1>3
        <5>2. admitted[i].life # k /\ admitted[i].life <= k
          BY <5>1, <4>1, <2>8, <1>5
        <5>3. admitted[i].life \in Nat
          BY <4>1, <2>5
        <5>4. admitted[i].life < k
          BY <5>2, <5>3, <1>3
        <5>5. admitted'[i] = admitted[i]
          BY <4>1, <2>2
        <5>6. admitted'[i + Max].life = k
          BY <4>3, <2>2, <1>e
        <5> QED
          BY <5>4, <5>5, <5>6
      <4> QED
        BY <4>1, <4>2, <4>3, <2>2, <1>3
    <3> QED
      BY <3>1, <3>2 DEF Counted
  <2>11. Spaced'
    <3>1. ASSUME NEW i \in Sent, NEW j \in Sent,
                 admitted'[i].life + 2 <= admitted'[j].life
          PROVE  admitted'[j].at >= admitted'[i].at + Window
      BY <3>1, <1>1, <2>2 DEF Spaced
    <3>2. ASSUME NEW i \in Sent, admitted'[i].life + 2 <= e.life
          PROVE  e.at >= admitted'[i].at + Window
      <4>1. opened' >= admitted[i].at + Window /\ opened' <= now
        <5>1. admitted[i].life + 2 <= k
          BY <3>2, <1>e, <2>2
        <5>2. opened' <= now
          BY <1>2, <1>3
        <5> QED
          BY <5>1, <5>2, <1>5
      <4>2. opened' \in Nat
        BY <1>2, <1>3
      <4>3. now >= admitted[i].at + Window
        BY <4>1, <4>2, <1>3, <2>5
      <4> QED
        BY <4>3, <1>e, <2>2
    <3>3. ASSUME NEW i \in Sent PROVE ~(e.life + 2 <= admitted'[i].life)
      <4>1. admitted'[i].life = admitted[i].life /\ admitted[i].life <= k
        BY <1>5, <2>2
      <4> QED
        BY <4>1, <1>3, <1>e, <2>5
    <3>4. ~(e.life + 2 <= e.life)
      BY <1>3, <1>e
    <3> QED
      BY <3>1, <3>2, <3>3, <3>4, <2>2, <2>3 DEF Spaced
  <2> QED
    BY <1>4, <2>6, <2>7, <2>9, <2>10, <2>11 DEF LimiterInv
<1> QED
  BY <1>6, <1>7

\* The inductive invariant of the limiter.
THEOREM LedgerHolds == LimiterSpec => []LimiterInv
<1>1. LimiterInit => LimiterInv
  BY InvInit
<1>2. LimiterInv /\ [LimiterNext]_limiterVars => LimiterInv'
  <2> SUFFICES ASSUME LimiterInv, [LimiterNext]_limiterVars PROVE LimiterInv'
    OBVIOUS
  <2>1. CASE Incr
    BY <2>1, InvIncr
  <2>2. CASE Expire \/ ExpireLost
    BY <2>2, InvExpire
  <2>3. CASE Tick
    BY <2>3, InvTick
  <2>4. CASE UNCHANGED limiterVars
    BY <2>4
       DEF limiterVars, LimiterInv, LimiterTypeOK, KeyShape, Lasting, Past, Current, Counted,
           Spaced, Sent
  <2> QED
    BY <2>1, <2>2, <2>3, <2>4 DEF LimiterNext
<1> QED
  BY <1>1, <1>2, PTL DEF LimiterSpec

\* In every behaviour of the limiter the variables have their types and ranges.
THEOREM LimiterTypeCorrect == LimiterSpec => []LimiterTypeOK
<1>1. LimiterInv => LimiterTypeOK
  BY DEF LimiterInv
<1> QED
  BY <1>1, LedgerHolds, PTL

\* In no Window ticks are more than 2 * Max counted requests let through by the
\* middleware, wherever its windows fall and however late EXPIRE is.
THEOREM ThrottleHolds == LimiterSpec => []Throttled
<1>1. LimiterInv => Throttled
  <2> SUFFICES ASSUME LimiterInv, NEW i \in Sent, i + 2 * Max <= Len(admitted)
               PROVE  admitted[i + 2 * Max].at - admitted[i].at >= Window
    BY DEF Throttled, Sent
  <2>1. LimiterTypeOK /\ Counted /\ Spaced
    BY DEF LimiterInv
  <2>2. Len(admitted) \in Nat /\ i \in Nat /\ i >= 1 /\ Max \in Nat /\ Window \in Nat
    BY <2>1, RateLimitAssumption DEF LimiterTypeOK, Sent
  <2>3. i + Max \in Sent /\ i + 2 * Max \in Sent /\ (i + Max) + Max = i + 2 * Max
    BY <2>2 DEF Sent
  <2>4. /\ admitted[i].life < admitted[i + Max].life
        /\ admitted[i + Max].life < admitted[i + 2 * Max].life
    <3>1. i + Max <= Len(admitted) /\ (i + Max) + Max <= Len(admitted)
      BY <2>2
    <3> QED
      BY <3>1, <2>1, <2>3 DEF Counted
  <2>5. /\ admitted[i].at \in Nat /\ admitted[i].life \in Nat
        /\ admitted[i + Max].life \in Nat
        /\ admitted[i + 2 * Max].at \in Nat /\ admitted[i + 2 * Max].life \in Nat
    BY <2>1, <2>3, EntryType
  <2>6. admitted[i].life + 2 <= admitted[i + 2 * Max].life
    BY <2>4, <2>5
  <2>7. admitted[i + 2 * Max].at >= admitted[i].at + Window
    BY <2>1, <2>3, <2>6 DEF Spaced
  <2>8. \A s, t, w \in Nat : t >= s + w => t - s >= w
    OBVIOUS
  <2> QED
    BY <2>2, <2>5, <2>7, <2>8
<1> QED
  BY <1>1, LedgerHolds, PTL

\* Requests counted inside a window do not move its end.
THEOREM WindowsStayFixed == LimiterSpec => WindowIsFixed
<1>1. LimiterInv /\ [LimiterNext]_limiterVars =>
        (deadline # NoTTL /\ deadline' # NoTTL => deadline' = deadline)
  <2> SUFFICES ASSUME LimiterInv, [LimiterNext]_limiterVars, deadline # NoTTL, deadline' # NoTTL
               PROVE  deadline' = deadline
    OBVIOUS
  <2>1. ~expiring
    BY DEF LimiterInv, KeyShape
  <2> QED
    BY <2>1 DEF LimiterNext, Incr, Expire, ExpireLost, Tick, limiterVars
<1> QED
  BY <1>1, LedgerHolds, PTL DEF LimiterSpec, WindowIsFixed

\* The counter of a key whose EXPIRE was lost is never reset.
THEOREM StuckStays == LimiterSpec => StuckForGood
<1>1. LimiterInv /\ [LimiterNext]_limiterVars => (Stuck => Stuck')
  <2> SUFFICES ASSUME LimiterInv, [LimiterNext]_limiterVars, Stuck PROVE Stuck'
    OBVIOUS
  <2>1. /\ count \in Nat /\ now \in Nat /\ NoTTL \notin Nat
        /\ count # 0 /\ deadline = NoTTL /\ ~expiring
    BY RateLimitAssumption DEF LimiterInv, LimiterTypeOK, Stuck
  <2>2. CASE Incr
    <3>1. count' = count + 1 /\ deadline' = deadline /\ (expiring' = (expiring \/ count + 1 = 1))
      BY <2>2 DEF Incr, First
    <3>2. count + 1 # 0 /\ count + 1 # 1
      BY <2>1
    <3> QED
      BY <2>1, <3>1, <3>2 DEF Stuck
  <2>3. CASE Tick
    BY <2>1, <2>3 DEF Tick, Stuck
  <2>4. CASE Expire \/ ExpireLost \/ UNCHANGED limiterVars
    BY <2>1, <2>4 DEF Expire, ExpireLost, limiterVars, Stuck
  <2> QED
    BY <2>2, <2>3, <2>4 DEF LimiterNext
<1> QED
  BY <1>1, LedgerHolds, PTL DEF LimiterSpec, StuckForGood
=============================================================================
