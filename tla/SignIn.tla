------------------------------- MODULE SignIn -------------------------------
(***************************************************************************)
(* Signing in: OAuth flows from the state handed out to the session, first *)
(* logins that create their user, password logins, and the requests that   *)
(* present a session, beside an administrator who creates and disables     *)
(* users. Each handler makes its database calls one by one.                *)
(***************************************************************************)
EXTENDS Integers, FiniteSets

CONSTANTS
  Flows,    \* CompleteOAuthFlow requests
  Logins,   \* Login requests
  Requests, \* requests that present a session
  States,   \* OAuth states
  Accounts, \* accounts at the provider
  Names,    \* usernames: those the accounts' logins make, and others
  NameOf,   \* the username made of each account's login
  MaxUsers, \* users ever created
  MaxSwitch \* changes of a user's disabled flag

NoAccount == "none"

ASSUME SignInConstants ==
  /\ Flows \cap Logins = {}
  /\ NoAccount \notin Accounts
  /\ 0 \notin Names
  /\ NameOf \in [Accounts -> Names]
  /\ MaxUsers \in Nat
  /\ MaxSwitch \in Nat

VARIABLES
  users,    \* the users table
  states,   \* the OAuth states table
  sessions, \* the sessions table
  flow, login, request, \* the handlers
  switched  \* changes of a disabled flag so far

vars == <<users, states, sessions, flow, login, request, switched>>
handlers == <<flow, login, request>>

Ids == 1..MaxUsers

\* A user created by an OAuth login has an account and no password. The name
\* with a suffix of the user's id stands as that id.
User(name, account, disabled) ==
  [name |-> name, account |-> account, disabled |-> disabled]
NoUser == User(0, NoAccount, FALSE)
Exists(u) == users[u] # NoUser

\* A session: whose it is, and the handler that created it.
Session(u, by) == [user |-> u, by |-> by, revoked |-> FALSE]
NoSession == [user |-> 0, by |-> "none", revoked |-> FALSE]

NoFlow == [at |-> "idle", state |-> "none", account |-> NoAccount, user |-> 0, disabled |-> FALSE]
NoLogin == [at |-> "idle", user |-> 0]
NoRequest == [at |-> "idle", session |-> "none", barred |-> FALSE]

\* Sessions are named after the handler they were created by.
Handlers == Flows \cup Logins

TypeOK ==
  /\ users \in [Ids -> [name : Names \cup (0..MaxUsers), account : Accounts \cup {NoAccount},
                       disabled : BOOLEAN]]
  /\ states \in [States -> {"none", "live", "expired", "gone"}]
  /\ sessions \in [Handlers -> [user : 0..MaxUsers, by : Handlers \cup {"none"},
                               revoked : BOOLEAN]]
  /\ flow \in [Flows -> [at : {"idle", "read", "taken", "claimed", "create", "retry",
                               "found", "done", "refused", "error"},
                         state : States \cup {"none"}, account : Accounts \cup {NoAccount},
                         user : 0..MaxUsers, disabled : BOOLEAN]]
  /\ login \in [Logins -> [at : {"idle", "found", "done"}, user : 0..MaxUsers]]
  /\ request \in [Requests -> [at : {"idle", "found", "accepted", "refused"},
                               session : Handlers \cup {"none"}, barred : BOOLEAN]]
  /\ switched \in 0..MaxSwitch

Init ==
  /\ users = [u \in Ids |-> NoUser]
  /\ states = [s \in States |-> "none"]
  /\ sessions = [h \in Handlers |-> NoSession]
  /\ flow = [f \in Flows |-> NoFlow]
  /\ login = [l \in Logins |-> NoLogin]
  /\ request = [r \in Requests |-> NoRequest]
  /\ switched = 0

At(f, at) == flow[f].at = at
Goes(f, at) == flow' = [flow EXCEPT ![f].at = at]

\* The unique indexes: a username, and an account.
NameTaken(name) == \E u \in Ids : Exists(u) /\ users[u].name = name
AccountTaken(a) == a # NoAccount /\ \E u \in Ids : users[u].account = a

\* Mutant of Clashes: only usernames are unique.
ClashesByName(user) == NameTaken(user.name)

Clashes(user) == NameTaken(user.name) \/ AccountTaken(user.account)

-----------------------------------------------------------------------------
(* OAuth states *)

BeginOAuthFlow(s) ==
  /\ states[s] = "none"
  /\ states' = [states EXCEPT ![s] = "live"]
  /\ UNCHANGED <<users, sessions, handlers, switched>>

\* oauthStateTTL passes.
Expire(s) ==
  /\ states[s] = "live"
  /\ states' = [states EXCEPT ![s] = "expired"]
  /\ UNCHANGED <<users, sessions, handlers, switched>>

DeleteExpired(s) ==
  /\ states[s] = "expired"
  /\ states' = [states EXCEPT ![s] = "gone"]
  /\ UNCHANGED <<users, sessions, handlers, switched>>

-----------------------------------------------------------------------------
(* CompleteOAuthFlow *)

\* Consume reads the row, if there is one.
ReadState(f) ==
  /\ At(f, "idle")
  /\ \E s \in States :
       /\ states[s] # "none"
       /\ flow' = [flow EXCEPT
            ![f].state = s,
            ![f].at = IF states[s] = "gone" THEN "refused" ELSE "read"]
  /\ UNCHANGED <<users, states, sessions, login, request, switched>>

\* Then it deletes the row, if it is still there and unexpired.
TakeState(f) ==
  LET s == flow[f].state
  IN  /\ At(f, "read")
      /\ IF states[s] = "live"
         THEN states' = [states EXCEPT ![s] = "gone"] /\ Goes(f, "taken")
         ELSE UNCHANGED states /\ Goes(f, "refused")
      /\ UNCHANGED <<users, sessions, login, request, switched>>

\* The state is another provider's, or the exchange fails or names nobody.
ExchangeFails(f) ==
  /\ At(f, "taken")
  /\ Goes(f, "refused")
  /\ UNCHANGED <<users, states, sessions, login, request, switched>>

\* External: the provider names the account that signed in.
Exchange(f) ==
  /\ At(f, "taken")
  /\ \E a \in Accounts : flow' = [flow EXCEPT ![f].at = "claimed", ![f].account = a]
  /\ UNCHANGED <<users, states, sessions, login, request, switched>>

\* What the handler keeps of a user it found or made.
Holds(f, u, disabled) ==
  flow' = [flow EXCEPT ![f] = [at |-> "found", state |-> @.state, account |-> @.account,
                               user |-> u, disabled |-> disabled]]

FindUserByExternalID(f) ==
  /\ At(f, "claimed")
  /\ IF AccountTaken(flow[f].account)
     THEN \E u \in Ids : /\ users[u].account = flow[f].account
                         /\ Holds(f, u, users[u].disabled)
     ELSE Goes(f, "create")
  /\ UNCHANGED <<users, states, sessions, login, request, switched>>

\* Ids are given out in order.
NextId(u) == ~Exists(u) /\ \A v \in Ids : v < u => Exists(v)

\* The insert of a user, refused by a unique index.
Insert(f, u, user, clash) ==
  IF Clashes(user)
  THEN Goes(f, clash) /\ UNCHANGED users
  ELSE users' = [users EXCEPT ![u] = user] /\ Holds(f, u, FALSE)

CreateOAuthUser(f) ==
  LET a == flow[f].account
  IN  /\ At(f, "create")
      /\ \E u \in Ids : NextId(u) /\ Insert(f, u, User(NameOf[a], a, FALSE), "retry")
      /\ UNCHANGED <<states, sessions, login, request, switched>>

\* Once more, with a suffixed name; a second refusal is an internal error.
RetryOAuthUser(f) ==
  /\ At(f, "retry")
  /\ \E u \in Ids : NextId(u) /\ Insert(f, u, User(u, flow[f].account, FALSE), "error")
  /\ UNCHANGED <<states, sessions, login, request, switched>>

\* The user as found may sign in; the session is created.
CreateSession(f) ==
  /\ At(f, "found")
  /\ IF flow[f].disabled
     THEN Goes(f, "refused") /\ UNCHANGED sessions
     ELSE Goes(f, "done") /\ sessions' = [sessions EXCEPT ![f] = Session(flow[f].user, f)]
  /\ UNCHANGED <<users, states, login, request, switched>>

-----------------------------------------------------------------------------
(* Password logins *)

\* The user has a password, it is right, and the user is enabled.
LoginFinds(l) ==
  /\ login[l].at = "idle"
  /\ \E u \in Ids :
       /\ Exists(u)
       /\ users[u].account = NoAccount
       /\ ~users[u].disabled
       /\ login' = [login EXCEPT ![l] = [at |-> "found", user |-> u]]
  /\ UNCHANGED <<users, states, sessions, flow, request, switched>>

LoginCreatesSession(l) ==
  /\ login[l].at = "found"
  /\ sessions' = [sessions EXCEPT ![l] = Session(login[l].user, l)]
  /\ login' = [login EXCEPT ![l].at = "done"]
  /\ UNCHANGED <<users, states, flow, request, switched>>

-----------------------------------------------------------------------------
(* Requests that present a session *)

\* Whether a session lets nobody in, as far as it and its user go.
Barred(h) == sessions[h].revoked \/ users[sessions[h].user].disabled

\* LookupSession reads the session, then its user.
FindSession(r) ==
  /\ request[r].at = "idle"
  /\ \E h \in Handlers :
       /\ sessions[h] # NoSession
       /\ request' = [request EXCEPT ![r] =
            [at |-> IF sessions[h].revoked THEN "refused" ELSE "found",
             session |-> h, barred |-> Barred(h)]]
  /\ UNCHANGED <<users, states, sessions, flow, login, switched>>

\* Mutant of ReadUser: only the session is checked.
ReadUserUnchecked(r) ==
  /\ request[r].at = "found"
  /\ request' = [request EXCEPT ![r].at = "accepted"]
  /\ UNCHANGED <<users, states, sessions, flow, login, switched>>

ReadUser(r) ==
  /\ request[r].at = "found"
  /\ request' = [request EXCEPT
       ![r].at = IF users[sessions[request[r].session].user].disabled
                 THEN "refused" ELSE "accepted"]
  /\ UNCHANGED <<users, states, sessions, flow, login, switched>>

\* Logout revokes the session of an accepted request.
Logout(r) ==
  /\ request[r].at = "accepted"
  /\ sessions' = [sessions EXCEPT ![request[r].session].revoked = TRUE]
  /\ UNCHANGED <<users, states, handlers, switched>>

-----------------------------------------------------------------------------
(* The administrator *)

CreateUser ==
  /\ \E u \in Ids, n \in Names :
       /\ NextId(u)
       /\ ~Clashes(User(n, NoAccount, FALSE))
       /\ users' = [users EXCEPT ![u] = User(n, NoAccount, FALSE)]
  /\ UNCHANGED <<states, sessions, handlers, switched>>

\* A request under way when its user is enabled again may be accepted.
SetUserDisabled(u) ==
  /\ switched < MaxSwitch
  /\ switched' = switched + 1
  /\ Exists(u)
  /\ users' = [users EXCEPT ![u].disabled = ~@]
  /\ request' = [r \in Requests |->
       IF request[r].at = "found" /\ sessions[request[r].session].user = u
       THEN [request[r] EXCEPT !.barred = FALSE] ELSE request[r]]
  /\ UNCHANGED <<states, sessions, flow, login>>

-----------------------------------------------------------------------------

Complete(f) ==
  \/ TakeState(f) \/ ExchangeFails(f) \/ Exchange(f) \/ FindUserByExternalID(f)
  \/ CreateOAuthUser(f) \/ RetryOAuthUser(f) \/ CreateSession(f)

Next ==
  \/ \E s \in States : BeginOAuthFlow(s) \/ Expire(s) \/ DeleteExpired(s)
  \/ \E f \in Flows : ReadState(f) \/ Complete(f)
  \/ \E l \in Logins : LoginFinds(l) \/ LoginCreatesSession(l)
  \/ \E r \in Requests : FindSession(r) \/ ReadUser(r) \/ Logout(r)
  \/ CreateUser
  \/ \E u \in Ids : SetUserDisabled(u)

Spec == Init /\ [][Next]_vars

-----------------------------------------------------------------------------
(* Properties *)

\* Of all the flows that present a state, at most one goes on with it.
StateUsedOnce ==
  \A f, g \in Flows :
    /\ flow[f].at \notin {"idle", "read", "refused"}
    /\ flow[g].at \notin {"idle", "read", "refused"}
    /\ flow[f].state = flow[g].state
    => f = g

\* First logins of one account that run together make one user.
OneUserPerAccount ==
  \A u, v \in Ids :
    users[u].account = users[v].account /\ users[u].account # NoAccount => u = v

\* A flow's session is for the user of the account that signed in: a name
\* somebody else has is no way into their user.
SignsInOwnUser ==
  \A f \in Flows :
    sessions[f] # NoSession => users[sessions[f].user].account = flow[f].account

\* However flows, states and first logins overlap, a state lets one flow on and
\* an account lets it in as one user, its own.
OneFlowOneUser == StateUsedOnce /\ OneUserPerAccount /\ SignsInOwnUser

\* A request that begins when its session is revoked or its user disabled is
\* not accepted, whatever logins under way still create.
BarredStaysOut ==
  \A r \in Requests : request[r].barred => request[r].at # "accepted"

=============================================================================
