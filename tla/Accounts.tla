------------------------------ MODULE Accounts ------------------------------
(***************************************************************************)
(* Users, their one-time tokens and their login sessions: what anonymous   *)
(* password requests, invitations, user administration and authenticated   *)
(* requests do to them.  A statement or transaction is a step, so a login, *)
(* a password change or a token issue that another one overtakes is a      *)
(* behaviour of the model.                                                 *)
(*                                                                         *)
(* A password is the number of the user's password, 0 when there is none.  *)
(* Organizations and stations are never deleted, so every context exists.  *)
(***************************************************************************)
EXTENDS Naturals, Sequences

CONSTANTS
    Users,           \* accounts
    Invitees,        \* accounts that may not exist until they are invited
    Role,            \* the highest role of each user, which does not change
    Names,           \* usernames
    Contexts,        \* an organization with one of its stations
    Keys,            \* signing keys
    FirstKey,        \* the active key at the start
    KeyExpiry,       \* max_token_expiry of each key
    Requests,        \* HTTP requests the server works on at once
    SessionLife,     \* 15 minutes
    Skew,            \* 60 seconds
    TokenLife,       \* lifetime of each purpose of a token
    Workloads,       \* sets of operations that are asked for together
    MaxTime, MaxSessions, MaxTokens, MaxPasswords    \* bounds

None == "none"
Purposes == {"invitation", "password_reset"}

\* What an authenticated request asks for, and everything that is asked for.
Handlers == {"serve", "context", "profile", "password", "logout",
             "update", "link", "invite"}
Operations == Handlers \cup {"login", "forgot", "keys", "time"}

ASSUME AccountsAssumption ==
    /\ Invitees \subseteq Users
    /\ Role \in [Users -> {"Superadmin", "Owner", "Supervisor"}]
    /\ FirstKey \in Keys /\ KeyExpiry \in [Keys -> Nat]
    /\ TokenLife \in [Purposes -> Nat]
    /\ {SessionLife, Skew, MaxTime, MaxSessions, MaxTokens, MaxPasswords}
         \subseteq Nat
    /\ MaxPasswords > 0
    /\ Workloads \subseteq SUBSET Operations
    /\ None \notin Users \cup Names \cup Contexts \cup Keys

VARIABLES
    now,         \* the clock of the server and of the database
    users,       \* users, with the saved context preference
    tokens,      \* account_tokens, in the order of their creation
    sessions,    \* sessions with session_active_context
    keyStatus,   \* jwt_keys.status; "new" before the key is activated
    req,         \* what each request has read and does next
    workload     \* the operations of this behaviour; it never changes

vars == <<now, users, tokens, sessions, keyStatus, req, workload>>

\* users: an invited account has neither name nor password.  The last two
\* fields are history: the session that made the last password change, and
\* the context the user chose last.
User ==
    [exists : BOOLEAN, enabled : BOOLEAN, name : Names \cup {None},
     hash : 0..MaxPasswords, preferred : Contexts \cup {None},
     keeper : 0..MaxSessions, chosen : Contexts \cup {None}]

\* account_tokens.  `known`: the link reached its user.  `spent` is history.
Token ==
    [user : Users, purpose : Purposes, expires : Nat, consumed : BOOLEAN,
     known : BOOLEAN, spent : 0..2]

\* sessions.  `held`: the login answer reached the browser.  `born` is
\* history: the user's password when the session was created.
Session ==
    [user : Users, kid : Keys, expires : Nat, revoked : BOOLEAN,
     context : Contexts \cup {None}, held : BOOLEAN, born : 0..MaxPasswords]

Idle == [step |-> "idle"]

Init ==
    /\ now = 0
    /\ \E absent \in SUBSET Invitees, naming \in [Users -> Names] :
         /\ \A u, v \in Users \ absent : u # v => naming[u] # naming[v]
         /\ users = [u \in Users |->
              [exists    |-> u \notin absent,
               enabled   |-> u \notin absent,
               name      |-> IF u \in absent THEN None ELSE naming[u],
               hash      |-> IF u \in absent THEN 0 ELSE 1,
               preferred |-> None, keeper |-> 0, chosen |-> None]]
    /\ tokens = << >>
    /\ sessions = << >>
    /\ keyStatus = [k \in Keys |-> IF k = FirstKey THEN "active" ELSE "new"]
    /\ req = [r \in Requests |-> Idle]
    /\ workload \in Workloads

Goto(r, record) == req' = [req EXCEPT ![r] = record]

-----------------------------------------------------------------------------
(* Sessions                                                                *)

\* An enabled account whose password, when it has one, was entered.
CredentialsMatch(u) == users[u].enabled /\ users[u].hash # 0

\* Login, first statement: the user by name, with these credentials.
Login(r, u) ==
    /\ req[r] = Idle
    /\ users[u].name # None
    /\ CredentialsMatch(u)
    /\ Goto(r, [step |-> "issue", user |-> u])
    /\ UNCHANGED <<now, users, tokens, sessions, keyStatus, workload>>

Least(a, b) == IF a < b THEN a ELSE b

\* CreateSession, with the user's first activity.
NewSession(u, k) ==
    [user |-> u, kid |-> k, expires |-> Least(now + SessionLife, KeyExpiry[k]),
     revoked |-> FALSE, context |-> None, held |-> FALSE, born |-> users[u].hash]

KeyStatuses == {"new", "active", "previous", "retired"}

ActiveKey == {k \in Keys : keyStatus[k] = "active"}

\* Issue: a session under the active key; the key may be past its cutoff.
Issue(r) ==
    /\ req[r].step = "issue"
    /\ Len(sessions) < MaxSessions
    /\ \E k \in ActiveKey :
         IF KeyExpiry[k] > now
         THEN /\ sessions' = Append(sessions, NewSession(req[r].user, k))
              /\ Goto(r, [step |-> "prefer", session |-> Len(sessions) + 1])
         ELSE /\ Goto(r, Idle)
              /\ UNCHANGED sessions
    /\ UNCHANGED <<now, users, tokens, keyStatus, workload>>

\* ReadContextPreference: without one the login is over.
ReadPreference(r) ==
    /\ req[r].step = "prefer"
    /\ LET i == req[r].session
           c == users[sessions[i].user].preferred IN
       IF c = None
       THEN /\ sessions' = [sessions EXCEPT ![i].held = TRUE]
            /\ Goto(r, Idle)
       ELSE /\ Goto(r, [step |-> "restore", session |-> i, context |-> c])
            /\ UNCHANGED sessions
    /\ UNCHANGED <<now, users, tokens, keyStatus, workload>>

\* SetActiveContext of the repository, in one transaction: the context of the
\* session, and the preference of its user.
WithContext(i, c) == [sessions EXCEPT ![i].context = c]
WithPreference(i, c) == [users EXCEPT ![sessions[i].user].preferred = c]

\* The preference becomes the context of the new session, and is saved again.
RestoreContext(r) ==
    /\ req[r].step = "restore"
    /\ LET i == req[r].session IN
       /\ sessions' = [WithContext(i, req[r].context) EXCEPT ![i].held = TRUE]
       /\ users' = WithPreference(i, req[r].context)
    /\ Goto(r, Idle)
    /\ UNCHANGED <<now, tokens, keyStatus, workload>>

\* Why a request with this session must be refused, at this moment.
Reasons(i) ==
    LET s == sessions[i] IN
    {x \in {"revoked", "expired", "key", "disabled"} :
        \/ x = "revoked" /\ s.revoked
        \/ x = "expired" /\ now > s.expires + Skew
        \/ x = "key" /\ (keyStatus[s.kid] = "retired" \/ now >= KeyExpiry[s.kid])
        \/ x = "disabled" /\ ~users[s.user].enabled}

\* Session() sets last_active_at to the present before Verify looks at it,
\* when the session is neither revoked nor expired, so the idle limit never
\* refuses: it only bounds the new expiry, as the key's cutoff does.
TouchedExpiry(k) == Least(now + SessionLife, KeyExpiry[k])

\* Verify: the token, its key and its session row.
Verifies(i) ==
    LET s == sessions[i] IN
    /\ now <= s.expires + Skew
    /\ keyStatus[s.kid] # "retired"
    /\ keyStatus[s.kid] = "previous" => now < KeyExpiry[s.kid]
    /\ ~s.revoked
    /\ now < TouchedExpiry(s.kid)

\* A request of a browser: AuthMiddleware verifies its token, and a token
\* that does not verify is answered 401.  `dead` is history.
Authenticate(r, i, op) ==
    /\ req[r] = Idle
    /\ sessions[i].held
    /\ Verifies(i)
    /\ Goto(r, [step |-> IF op = "logout" THEN "logout" ELSE "read",
                session |-> i, op |-> op, dead |-> Reasons(i)])
    /\ UNCHANGED <<now, users, tokens, sessions, keyStatus, workload>>

VisibleAnyUser(i) == ~sessions[i].revoked

\* The row ReadSession joins: session not revoked, user enabled.
Visible(i) == ~sessions[i].revoked /\ users[sessions[i].user].enabled

\* ReadSession verifies the token again, reads that row and admits the request
\* to its handler.
ReadSession(r) ==
    /\ req[r].step = "read"
    /\ Goto(r, IF Verifies(req[r].session) /\ Visible(req[r].session)
               THEN [req[r] EXCEPT !.step = req[r].op] ELSE Idle)
    /\ UNCHANGED <<now, users, tokens, sessions, keyStatus, workload>>

\* A handler that only reads accounts and sessions, whatever else it does.
Serve(r) ==
    /\ req[r].step = "serve"
    /\ Goto(r, Idle)
    /\ UNCHANGED <<now, users, tokens, sessions, keyStatus, workload>>

\* POST /session/active-context, for a Superadmin.
SetActiveContext(r, c) ==
    /\ req[r].step = "context"
    /\ LET i == req[r].session
           u == sessions[i].user IN
       IF Role[u] = "Superadmin"
       THEN /\ sessions' = WithContext(i, c)
            /\ users' = [WithPreference(i, c) EXCEPT ![u].chosen = c]
       ELSE UNCHANGED <<sessions, users>>
    /\ Goto(r, Idle)
    /\ UNCHANGED <<now, tokens, keyStatus, workload>>

\* DELETE /logout: the middleware's claims are enough.
Logout(r) ==
    /\ req[r].step = "logout"
    /\ sessions' = [sessions EXCEPT ![req[r].session].revoked = TRUE]
    /\ Goto(r, Idle)
    /\ UNCHANGED <<now, users, tokens, keyStatus, workload>>

-----------------------------------------------------------------------------
(* Profiles and passwords                                                  *)

AnyNameIsFree(u, n) == TRUE

NameIsFree(u, n) == \A v \in Users \ {u} : users[v].name # n

\* readProfile, the last statement of an update, refuses a disabled account.
ProfileReadable(u) == users[u].enabled

\* PATCH /account with a username; the unique index backs the check.
UpdateProfile(r, n) ==
    /\ req[r].step = "profile"
    /\ LET u == sessions[req[r].session].user IN
       users' = IF NameIsFree(u, n) /\ ProfileReadable(u)
                THEN [users EXCEPT ![u].name = n] ELSE users
    /\ Goto(r, Idle)
    /\ UNCHANGED <<now, tokens, sessions, keyStatus, workload>>

\* ChangePassword, first statement: Credentials, read without a lock, match.
ReadCredentials(r) ==
    /\ req[r].step = "password"
    /\ LET u == sessions[req[r].session].user IN
       Goto(r, IF CredentialsMatch(u)
               THEN [req[r] EXCEPT !.step = "store"] ELSE Idle)
    /\ UNCHANGED <<now, users, tokens, sessions, keyStatus, workload>>

RevokedNone(u, kept) == sessions

RevokedAllButKept(u, kept) ==
    [i \in DOMAIN sessions |->
        IF sessions[i].user = u
        THEN [sessions[i] EXCEPT !.revoked = i \notin kept] ELSE sessions[i]]

\* All sessions of u revoked but the kept ones.
Revoked(u, kept) ==
    [i \in DOMAIN sessions |->
        IF sessions[i].user = u /\ i \notin kept
        THEN [sessions[i] EXCEPT !.revoked = TRUE] ELSE sessions[i]]

NewPassword(u, keeper) ==
    [users EXCEPT ![u].hash = @ + 1, ![u].keeper = keeper]

\* ChangePassword, the transaction under the user's row lock: it checks that
\* the user is enabled, and neither the session nor the old password again.
StorePassword(r) ==
    /\ req[r].step = "store"
    /\ LET i == req[r].session
           u == sessions[i].user IN
       /\ users[u].hash < MaxPasswords
       /\ IF users[u].enabled
          THEN /\ users' = NewPassword(u, i)
               /\ sessions' = Revoked(u, {i})
          ELSE UNCHANGED <<users, sessions>>
    /\ Goto(r, Idle)
    /\ UNCHANGED <<now, tokens, keyStatus, workload>>

-----------------------------------------------------------------------------
(* One-time tokens                                                         *)

Open(t) == ~tokens[t].consumed

OpenOf(u, purpose) ==
    {t \in DOMAIN tokens :
        Open(t) /\ tokens[t].user = u /\ tokens[t].purpose = purpose}

\* Tokens whose row an issuing transaction holds until it commits.
Locked == UNION {req[r].consumes : r \in {q \in Requests : req[q].step = "insert"}}

NewToken(u, purpose) ==
    [user |-> u, purpose |-> purpose, expires |-> now + TokenLife[purpose],
     consumed |-> FALSE, known |-> FALSE, spent |-> 0]

Administrators == {u \in Users : Role[u] \in {"Owner", "Superadmin"}}

\* The service refuses an Owner who names themselves.
MayName(actor, u) ==
    /\ actor \in Administrators
    /\ Role[actor] = "Owner" => u # actor

\* hasPrivilegedRole: no Owner administers another administrator.
Protected(actor, u) == Role[actor] = "Owner" /\ u \in Administrators

\* checkAdminActor and the tests around it.
MayAdminister(actor, u) == MayName(actor, u) /\ ~Protected(actor, u)

\* Forgot: an enabled target; anybody may ask.
Forgot(r, u) ==
    /\ req[r] = Idle
    /\ users[u].exists /\ users[u].enabled
    /\ Goto(r, [step |-> "consume", user |-> u])
    /\ UNCHANGED <<now, users, tokens, sessions, keyStatus, workload>>

\* The same for an administrator, up to the first statement that writes.
IssuePasswordReset(r, u) ==
    /\ req[r].step = "link"
    /\ Goto(r, IF /\ users[u].exists /\ users[u].enabled
                  /\ MayAdminister(sessions[req[r].session].user, u)
               THEN [step |-> "consume", user |-> u] ELSE Idle)
    /\ UNCHANGED <<now, users, tokens, sessions, keyStatus, workload>>

\* UPDATE of the open tokens: the statement sees those committed by now, and
\* waits for a transaction that is consuming one of them.  In the code one that
\* waited misses what was committed meanwhile, and Abort is its unique failure.
ConsumeOpen(r) ==
    /\ req[r].step = "consume"
    /\ LET open == OpenOf(req[r].user, "password_reset") IN
       /\ open \cap Locked = {}
       /\ Goto(r, [step |-> "insert", user |-> req[r].user, consumes |-> open])
    /\ UNCHANGED <<now, users, tokens, sessions, keyStatus, workload>>

\* account_tokens_one_open_per_user_purpose
OneOpen(u, purpose, consumes) == OpenOf(u, purpose) \subseteq consumes

\* INSERT and commit; an open token committed meanwhile rolls all of it back.
InsertToken(r) ==
    /\ req[r].step = "insert"
    /\ Len(tokens) < MaxTokens
    /\ LET u == req[r].user IN
       IF OneOpen(u, "password_reset", req[r].consumes)
       THEN /\ tokens' = Append(
                 [t \in DOMAIN tokens |->
                    IF t \in req[r].consumes
                    THEN [tokens[t] EXCEPT !.consumed = TRUE] ELSE tokens[t]],
                 NewToken(u, "password_reset"))
            /\ Goto(r, [step |-> "send", token |-> Len(tokens) + 1])
       ELSE /\ Goto(r, Idle)
            /\ UNCHANGED tokens
    /\ UNCHANGED <<now, users, sessions, keyStatus, workload>>

\* The link is mailed, or answered to the administrator, after the commit;
\* either may fail, and nothing undoes the token.
SendLink(r) ==
    /\ req[r].step = "send"
    /\ \E sent \in BOOLEAN : tokens' = [tokens EXCEPT ![req[r].token].known = sent]
    /\ Goto(r, Idle)
    /\ UNCHANGED <<now, users, sessions, keyStatus, workload>>

Usable(t) == Open(t) /\ now < tokens[t].expires

SpentUnconsumed(t) == [tokens EXCEPT ![t].spent = Least(@ + 1, 2)]

Spent(t) ==
    [tokens EXCEPT ![t].consumed = TRUE, ![t].spent = Least(@ + 1, 2)]

\* Reset, under the locks of the token and of the user.
ResetPassword(t) ==
    /\ tokens[t].purpose = "password_reset" /\ tokens[t].known
    /\ t \notin Locked
    /\ Usable(t)
    /\ LET u == tokens[t].user IN
       /\ users[u].enabled
       /\ users[u].hash < MaxPasswords
       /\ users' = NewPassword(u, 0)
       /\ sessions' = Revoked(u, {})
    /\ tokens' = Spent(t)
    /\ UNCHANGED <<now, keyStatus, req, workload>>

\* Service.Invite: whom an administrator may invite.
MayInvite(actor, u) ==
    /\ actor \in Administrators
    /\ Role[u] # "Superadmin"
    /\ Role[actor] = "Owner" => Role[u] # "Owner"

\* CreateInvitation: the account, its role and its token; the mail follows.
\* The e-mail address is then taken, so nobody is invited twice.
Invite(r, u) ==
    /\ req[r].step = "invite"
    /\ Len(tokens) < MaxTokens
    /\ IF ~users[u].exists /\ MayInvite(sessions[req[r].session].user, u)
       THEN /\ users' = [users EXCEPT ![u].exists = TRUE]
            /\ tokens' = Append(tokens, NewToken(u, "invitation"))
            /\ Goto(r, [step |-> "send", token |-> Len(tokens) + 1])
       ELSE /\ Goto(r, Idle)
            /\ UNCHANGED <<users, tokens>>
    /\ UNCHANGED <<now, sessions, keyStatus, workload>>

\* Accept: the invited account gets its name and password and is enabled.
AcceptInvitation(t, n) ==
    /\ tokens[t].purpose = "invitation" /\ tokens[t].known
    /\ Usable(t)
    /\ LET u == tokens[t].user IN
       /\ NameIsFree(u, n)
       /\ ~users[u].enabled
       /\ users' = [NewPassword(u, 0) EXCEPT ![u].name = n, ![u].enabled = TRUE]
    /\ tokens' = Spent(t)
    /\ UNCHANGED <<now, sessions, keyStatus, req, workload>>

\* users_enabled_identity_check
MayEnable(u) == users[u].name # None /\ users[u].hash # 0

\* UpdateUser enables or disables a user.  Sessions stay as they are.  The
\* last conjunct is history: other requests of u are not refused for that.
UpdateUser(r, u, value) ==
    /\ req[r].step = "update"
    /\ LET allowed == /\ users[u].exists
                      /\ MayAdminister(sessions[req[r].session].user, u)
                      /\ value => MayEnable(u) IN
       /\ users' = IF allowed THEN [users EXCEPT ![u].enabled = value] ELSE users
       /\ req' = [q \in Requests |->
             IF q = r THEN Idle
             ELSE IF allowed /\ "dead" \in DOMAIN req[q]
                       /\ sessions[req[q].session].user = u
             THEN [req[q] EXCEPT !.dead = @ \ {"disabled"}] ELSE req[q]]
    /\ UNCHANGED <<now, tokens, sessions, keyStatus, workload>>

-----------------------------------------------------------------------------
(* Surroundings                                                            *)

Tick ==
    /\ now < MaxTime
    /\ now' = now + 1
    /\ UNCHANGED <<users, tokens, sessions, keyStatus, req, workload>>

\* No code of the server changes jwt_keys: an operator activates the next
\* key, and retires a previous one.
RotateKeys(old, new) ==
    /\ keyStatus[old] = "active" /\ keyStatus[new] = "new"
    /\ keyStatus' = [keyStatus EXCEPT ![old] = "previous", ![new] = "active"]
    /\ UNCHANGED <<now, users, tokens, sessions, req, workload>>

RetireKey(k) ==
    /\ keyStatus[k] = "previous"
    /\ keyStatus' = [keyStatus EXCEPT ![k] = "retired"]
    /\ UNCHANGED <<now, users, tokens, sessions, req, workload>>

\* The client goes away or a statement fails: what is committed stays.
Abort(r) ==
    /\ req[r] # Idle
    /\ Goto(r, Idle)
    /\ UNCHANGED <<now, users, tokens, sessions, keyStatus, workload>>

\* The routes of sessions, accounts and users.
SessionStep(r) ==
    \/ "login" \in workload /\ \E u \in Users : Login(r, u)
    \/ Issue(r) \/ ReadPreference(r) \/ RestoreContext(r)
    \/ Serve(r) \/ Logout(r)
    \/ \E c \in Contexts : SetActiveContext(r, c)

AccountStep(r) ==
    \/ \E n \in Names : UpdateProfile(r, n)
    \/ ReadCredentials(r) \/ StorePassword(r)
    \/ "forgot" \in workload /\ \E u \in Users : Forgot(r, u)
    \/ ConsumeOpen(r) \/ InsertToken(r) \/ SendLink(r)

AdminStep(r) ==
    \E u \in Users :
       \/ IssuePasswordReset(r, u)
       \/ \E value \in BOOLEAN : UpdateUser(r, u, value)

\* Inviting takes a session, accepting only the link.
InvitationStep ==
    \/ \E r \in Requests, u \in Users : Invite(r, u)
    \/ \E t \in DOMAIN tokens, n \in Names : AcceptInvitation(t, n)

Next ==
    \/ \E r \in Requests :
         \/ \E i \in DOMAIN sessions, op \in Handlers \cap workload :
              Authenticate(r, i, op)
         \/ ReadSession(r)
         \/ SessionStep(r) \/ AccountStep(r) \/ AdminStep(r)
         \/ Abort(r)
    \/ \E t \in DOMAIN tokens : ResetPassword(t)
    \/ InvitationStep
    \/ "keys" \in workload /\ \E k, l \in Keys : RotateKeys(k, l)
    \/ "keys" \in workload /\ \E k \in Keys : RetireKey(k)
    \/ "time" \in workload /\ Tick

Spec == Init /\ [][Next]_vars

-----------------------------------------------------------------------------
(* Properties                                                              *)

\* Every row keeps its columns: a session and a token always have a user.
TypeOK ==
    /\ now \in 0..MaxTime
    /\ users \in [Users -> User]
    /\ tokens \in Seq(Token) /\ Len(tokens) <= MaxTokens
    /\ sessions \in Seq(Session) /\ Len(sessions) <= MaxSessions
    /\ workload \in Workloads
    /\ keyStatus \in [Keys -> KeyStatuses]

\* Once a password was changed or reset, every session created before is
\* revoked, but the one that made the change: also after several changes,
\* logins and resets that overlap.
OldSessionsEnd ==
    \A i \in DOMAIN sessions :
        LET s == sessions[i] IN
        ~s.revoked => s.born = users[s.user].hash \/ users[s.user].keeper = i

\* A request that arrives when its session is already revoked or expired, its
\* key retired or its user disabled, and stays so, is never admitted.  Only a
\* logout does not ask for an enabled user.
DeadSessionRefused ==
    \A r \in Requests :
        /\ req[r].step = "logout" => req[r].dead \subseteq {"disabled"}
        /\ req[r].step \in (Handlers \ {"logout"}) \cup {"store"}
             => req[r].dead = {}

\* A link works once, and only the newest one of its user and purpose works:
\* also when links are issued at the same time as each other and as a reset.
LinkWorksOnce ==
    \A t, o \in DOMAIN tokens :
        /\ tokens[t].spent <= 1
        /\ t < o /\ tokens[t].user = tokens[o].user
                 /\ tokens[t].purpose = tokens[o].purpose => ~Open(t)

\* Names stay unique and an enabled account always has a name and a password,
\* whoever invites, accepts, renames and enables at the same time.
EnabledHasIdentity ==
    \A u \in Users :
        /\ users[u].enabled => users[u].name # None /\ users[u].hash # 0
        /\ \A v \in Users \ {u} :
             users[u].name # None => users[u].name # users[v].name

\* Nothing that ended comes back, and nothing granted grows, whichever
\* requests overlap: a revoked session stays revoked, also the one that is kept
\* by a password change it began before; a consumed link stays consumed; both
\* stay their user's and never live longer; and no password is taken back.
Retained ==
    /\ \A i \in DOMAIN sessions :
         /\ i \in DOMAIN sessions'
         /\ sessions[i].revoked => sessions'[i].revoked
         /\ \A column \in {"user", "kid", "expires", "born"} :
               sessions'[i][column] = sessions[i][column]
    /\ \A t \in DOMAIN tokens :
         /\ t \in DOMAIN tokens'
         /\ tokens[t].consumed => tokens'[t].consumed
         /\ \A column \in {"user", "purpose", "expires"} :
               tokens'[t][column] = tokens[t][column]
    /\ \A u \in Users : users[u].hash <= users'[u].hash

\* No step of any request, and no reset or invitation, does otherwise.
NothingIsRevived == [][Retained]_vars

\* "The latest successful context change also saves an account preference":
\* the preference is the context the user chose last.  A login that read the
\* preference before that choice saves the old one again after it.
PreferenceIsLatestChoice ==
    \A u \in Users : users[u].preferred = users[u].chosen

=============================================================================
