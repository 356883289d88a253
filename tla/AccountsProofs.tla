--------------------------- MODULE AccountsProofs ---------------------------
(***************************************************************************)
(* Proofs about Accounts: names, passwords, sessions and one-time links    *)
(* stay consistent whatever requests overlap, for any number of users,     *)
(* keys, requests, sessions, tokens and password changes.                  *)
(*                                                                         *)
(* The invariant adds to the properties what the requests have in hand     *)
(* (RequestsInv), and that an account whose invitation is still open never *)
(* had a password, hence no session (TokensInv, SessionsInv): accepting an *)
(* invitation revokes no session, and need not.                            *)
(***************************************************************************)
EXTENDS Accounts, TLAPS

\* Why a session is refused.
ReasonNames == {"revoked", "expired", "key", "disabled"}

\* The steps of a request that was authenticated, and those with a session.
AuthenticatedSteps == Handlers \cup {"read", "store"}
SessionSteps == AuthenticatedSteps \cup {"prefer", "restore"}

\* What a request may hold at each of its steps.
Request ==
    {Idle}
    \cup [step : {"issue", "consume"}, user : Users]
    \cup [step : {"prefer"}, session : Nat]
    \cup [step : {"restore"}, session : Nat, context : Contexts]
    \cup [step : AuthenticatedSteps, session : Nat, op : Handlers,
          dead : SUBSET ReasonNames]
    \cup [step : {"insert"}, user : Users, consumes : SUBSET Nat]
    \cup [step : {"send"}, token : Nat]

\* Rows a request points to exist; who logs in has a password; a reason to
\* refuse that was there on arrival is there until the session is read.
RequestOK(r) ==
    /\ req[r].step \in SessionSteps => req[r].session \in DOMAIN sessions
    /\ req[r].step = "send" => req[r].token \in DOMAIN tokens
    /\ req[r].step = "issue" => users[req[r].user].hash # 0
    /\ req[r].step = "read" => req[r].dead \subseteq Reasons(req[r].session)
    /\ req[r].step = "logout" => req[r].dead \subseteq {"disabled"}
    /\ req[r].step \in (Handlers \ {"logout"}) \cup {"store"} => req[r].dead = {}

\* Every request holds what it may, and it is sound.
RequestsInv ==
    /\ req \in [Requests -> Request]
    /\ \A r \in Requests : RequestOK(r)

\* An account that was never invited has no password.
UsersInv ==
    /\ EnabledHasIdentity
    /\ \A u \in Users : ~users[u].exists => users[u].hash = 0

\* A session belongs to a user with a password.
SessionsInv ==
    /\ OldSessionsEnd
    /\ \A i \in DOMAIN sessions : users[sessions[i].user].hash # 0

\* An invited account exists, and has no password until it accepts.
TokensInv ==
    /\ LinkWorksOnce
    /\ \A t \in DOMAIN tokens :
         /\ tokens[t].spent # 0 => ~Open(t)
         /\ tokens[t].purpose = "invitation" => users[tokens[t].user].exists
         /\ tokens[t].purpose = "invitation" /\ Open(t)
              => users[tokens[t].user].hash = 0

\* The inductive invariant.
AccountsInv == TypeOK /\ UsersInv /\ SessionsInv /\ TokensInv /\ RequestsInv

-----------------------------------------------------------------------------
(* Requests                                                                *)

\* A record of a request has the fields its step calls for.
LEMMA RequestFields ==
    ASSUME NEW q \in Request
    PROVE  /\ q.step \in {"issue", "consume", "insert"} => q.user \in Users
           /\ q.step \in SessionSteps => q.session \in Nat
           /\ q.step = "restore" => q.context \in Contexts
           /\ q.step = "send" => q.token \in Nat
           /\ q.step = "insert" => q.consumes \subseteq Nat
           /\ q.step \in AuthenticatedSteps =>
                /\ q.op \in Handlers
                /\ q.dead \subseteq ReasonNames
                /\ "dead" \in DOMAIN q
  <1>. USE DEF Request, Idle, SessionSteps, AuthenticatedSteps, Handlers
  <1>1. CASE q = Idle
    BY <1>1
  <1>2. CASE q \in [step : {"issue", "consume"}, user : Users]
    BY <1>2
  <1>3. CASE q \in [step : {"prefer"}, session : Nat]
    BY <1>3
  <1>4. CASE q \in [step : {"restore"}, session : Nat, context : Contexts]
    BY <1>4
  <1>5. CASE q \in [step : AuthenticatedSteps, session : Nat, op : Handlers,
                    dead : SUBSET ReasonNames]
    BY <1>5
  <1>6. CASE q \in [step : {"insert"}, user : Users, consumes : SUBSET Nat]
    BY <1>6
  <1>7. CASE q \in [step : {"send"}, token : Nat]
    BY <1>7
  <1>. QED
    BY <1>1, <1>2, <1>3, <1>4, <1>5, <1>6, <1>7

\* An authenticated request goes on to another of its steps with what it has.
LEMMA RequestMoves ==
    ASSUME NEW q \in Request, q.step \in AuthenticatedSteps,
           NEW s \in AuthenticatedSteps
    PROVE  /\ [q EXCEPT !.step = s] \in Request
           /\ [q EXCEPT !.step = s].step = s
           /\ [q EXCEPT !.step = s].session = q.session
           /\ [q EXCEPT !.step = s].dead = q.dead
  <1>1. q \in [step : AuthenticatedSteps, session : Nat, op : Handlers,
               dead : SUBSET ReasonNames]
    BY DEF Request, Idle, AuthenticatedSteps, Handlers
  <1>. QED
    BY <1>1 DEF Request

\* Only an authenticated request remembers reasons, and it may forget one.
LEMMA RequestForgets ==
    ASSUME NEW q \in Request, "dead" \in DOMAIN q
    PROVE  LET f == [q EXCEPT !.dead = @ \ {"disabled"}] IN
           /\ f \in Request
           /\ q.step \in AuthenticatedSteps
           /\ f.step = q.step
           /\ f.session = q.session
           /\ f.dead = q.dead \ {"disabled"}
  <1>1. q \in [step : AuthenticatedSteps, session : Nat, op : Handlers,
               dead : SUBSET ReasonNames]
    BY DEF Request, Idle
  <1>. QED
    BY <1>1 DEF Request

\* The records the actions write.
LEMMA NewRequests ==
    /\ Idle \in Request /\ Idle.step = "idle"
    /\ \A u \in Users, s \in {"issue", "consume"} :
         [step |-> s, user |-> u] \in Request
    /\ \A i \in Nat : [step |-> "prefer", session |-> i] \in Request
    /\ \A i \in Nat, c \in Contexts :
         [step |-> "restore", session |-> i, context |-> c] \in Request
    /\ \A u \in Users, x \in SUBSET Nat :
         [step |-> "insert", user |-> u, consumes |-> x] \in Request
    /\ \A t \in Nat : [step |-> "send", token |-> t] \in Request
    /\ \A i \in Nat, op \in Handlers, s \in AuthenticatedSteps,
          d \in SUBSET ReasonNames :
         [step |-> s, session |-> i, op |-> op, dead |-> d] \in Request
  BY DEF Request, Idle

\* What no step takes back: passwords, rows, revocations, retired keys, time.
Lasting ==
    /\ \A u \in Users : users[u].hash # 0 => users'[u].hash # 0
    /\ DOMAIN sessions \subseteq DOMAIN sessions'
    /\ \A i \in DOMAIN sessions :
         /\ sessions'[i].user = sessions[i].user
         /\ sessions'[i].kid = sessions[i].kid
         /\ sessions'[i].expires = sessions[i].expires
         /\ sessions[i].revoked => sessions'[i].revoked
    /\ DOMAIN tokens \subseteq DOMAIN tokens'
    /\ now' \in Nat /\ now <= now'
    /\ \A k \in Keys : keyStatus[k] = "retired" => keyStatus'[k] = "retired"

\* Nobody who has a password is enabled.
NobodyEnabled ==
    \A u \in Users : users'[u].enabled => users[u].enabled \/ users[u].hash = 0

\* The rows and columns that the invariant speaks of.
LEMMA Columns ==
    ASSUME TypeOK
    PROVE  /\ now \in Nat
           /\ \A u \in Users :
                /\ users[u].exists \in BOOLEAN /\ users[u].enabled \in BOOLEAN
                /\ users[u].name \in Names \cup {None}
                /\ users[u].hash \in 0..MaxPasswords
                /\ users[u].preferred \in Contexts \cup {None}
                /\ users[u].keeper \in 0..MaxSessions
           /\ DOMAIN sessions = 1..Len(sessions) /\ Len(sessions) \in Nat
           /\ \A i \in DOMAIN sessions :
                /\ i \in Nat /\ i # 0 /\ i \in 0..MaxSessions
                /\ sessions[i] \in Session
                /\ sessions[i].user \in Users /\ sessions[i].kid \in Keys
                /\ sessions[i].expires \in Nat /\ sessions[i].revoked \in BOOLEAN
                /\ sessions[i].born \in 0..MaxPasswords
           /\ DOMAIN tokens = 1..Len(tokens) /\ Len(tokens) \in Nat
           /\ \A t \in DOMAIN tokens :
                /\ t \in Nat
                /\ tokens[t] \in Token
                /\ tokens[t].user \in Users /\ tokens[t].purpose \in Purposes
                /\ tokens[t].consumed \in BOOLEAN /\ tokens[t].spent \in 0..2
  <1>. USE AccountsAssumption DEF TypeOK
  <1>1. now \in Nat
    OBVIOUS
  <1>2. ASSUME NEW u \in Users
        PROVE  users[u] \in User
    BY <1>2
  <1>3. ASSUME NEW u \in Users
        PROVE  /\ users[u].exists \in BOOLEAN /\ users[u].enabled \in BOOLEAN
               /\ users[u].name \in Names \cup {None}
               /\ users[u].hash \in 0..MaxPasswords
               /\ users[u].preferred \in Contexts \cup {None}
               /\ users[u].keeper \in 0..MaxSessions
    BY <1>2, <1>3 DEF User
  <1>4. DOMAIN sessions = 1..Len(sessions) /\ Len(sessions) \in Nat
    OBVIOUS
  <1>5. ASSUME NEW i \in DOMAIN sessions
        PROVE  /\ i \in Nat /\ i # 0 /\ i \in 0..MaxSessions
               /\ sessions[i] \in Session
    BY <1>4, <1>5
  <1>6. DOMAIN tokens = 1..Len(tokens) /\ Len(tokens) \in Nat
    OBVIOUS
  <1>7. ASSUME NEW t \in DOMAIN tokens
        PROVE  t \in Nat /\ tokens[t] \in Token
    BY <1>6, <1>7
  <1>8. \A i \in DOMAIN sessions :
                /\ sessions[i].user \in Users /\ sessions[i].kid \in Keys
                /\ sessions[i].expires \in Nat /\ sessions[i].revoked \in BOOLEAN
                /\ sessions[i].born \in 0..MaxPasswords
    BY <1>5 DEF Session
  <1>9. \A t \in DOMAIN tokens :
                /\ tokens[t].user \in Users /\ tokens[t].purpose \in Purposes
                /\ tokens[t].consumed \in BOOLEAN /\ tokens[t].spent \in 0..2
    BY <1>7 DEF Token
  <1>. HIDE DEF TypeOK
  <1>. QED
    BY ONLY <1>1, <1>3, <1>4, <1>5, <1>6, <1>7, <1>8, <1>9

\* Reasons to refuse a session last, unless its user is enabled again.
LEMMA ReasonsLast ==
    ASSUME AccountsInv, Lasting, NEW i \in DOMAIN sessions,
           NEW x \in Reasons(i), x = "disabled" => NobodyEnabled
    PROVE  x \in Reasons(i)'
  <1>. DEFINE u == sessions[i].user
              k == sessions[i].kid
  <1>1. /\ u \in Users /\ k \in Keys /\ sessions[i].expires \in Nat
        /\ now \in Nat /\ KeyExpiry[k] \in Nat /\ Skew \in Nat
    BY Columns, AccountsAssumption DEF AccountsInv
  <1>2. users[u].hash # 0
    BY DEF AccountsInv, SessionsInv
  <1>3. /\ sessions'[i].user = u /\ sessions'[i].kid = k
        /\ sessions'[i].expires = sessions[i].expires
        /\ sessions[i].revoked => sessions'[i].revoked
    BY DEF Lasting
  <1>4. now <= now' /\ now' \in Nat
    BY DEF Lasting
  <1>5. keyStatus[k] = "retired" => keyStatus'[k] = "retired"
    BY <1>1 DEF Lasting
  <1>. HIDE DEF u, k
  <1>6. CASE x = "revoked"
    BY <1>3, <1>6 DEF Reasons
  <1>7. CASE x = "expired"
    <2>1. now > sessions[i].expires + Skew
      BY <1>7 DEF Reasons
    <2>2. now' > sessions'[i].expires + Skew
      BY <1>1, <1>3, <1>4, <2>1
    <2>. QED
      BY <1>7, <2>2 DEF Reasons
  <1>8. CASE x = "key"
    <2>1. keyStatus[k] = "retired" \/ now >= KeyExpiry[k]
      BY <1>8 DEF Reasons, k
    <2>2. keyStatus'[k] = "retired" \/ now' >= KeyExpiry[k]
      BY <1>1, <1>4, <1>5, <2>1
    <2>. QED
      BY <1>3, <1>8, <2>2 DEF Reasons
  <1>9. CASE x = "disabled"
    <2>1. ~users[u].enabled
      BY <1>9 DEF Reasons, u
    <2>2. ~users'[u].enabled
      BY <1>1, <1>2, <1>9, <2>1 DEF NobodyEnabled
    <2>. QED
      BY <1>3, <1>9, <2>2 DEF Reasons
  <1>. QED
    BY <1>6, <1>7, <1>8, <1>9 DEF Reasons

\* A request that another one's step leaves alone stays sound.
LEMMA RequestCarries ==
    ASSUME AccountsInv, Lasting, NobodyEnabled,
           NEW r \in Requests, req'[r] = req[r]
    PROVE  RequestOK(r)'
  <1>. RequestOK(r) /\ req[r] \in Request
    BY DEF AccountsInv, RequestsInv
  <1>1. req[r].step \in SessionSteps => req[r].session \in DOMAIN sessions'
    BY DEF RequestOK, Lasting
  <1>2. req[r].step = "send" => req[r].token \in DOMAIN tokens'
    BY DEF RequestOK, Lasting
  <1>3. req[r].step = "issue" => users'[req[r].user].hash # 0
    BY RequestFields DEF RequestOK, Lasting
  <1>4. ASSUME req[r].step = "read"
        PROVE  (req[r].dead \subseteq Reasons(req[r].session))'
    <2>. PICK i \in DOMAIN sessions : i = req[r].session
      BY <1>4 DEF RequestOK, SessionSteps, AuthenticatedSteps
    <2>1. req[r].dead \subseteq Reasons(i)
      BY <1>4 DEF RequestOK
    <2>2. req[r].dead \subseteq Reasons(i)'
      BY <2>1, ReasonsLast
    <2>. QED
      BY <2>2 DEF Reasons
  <1>. QED
    BY <1>1, <1>2, <1>3, <1>4 DEF RequestOK

\* A request that is done is sound.
LEMMA IdleIsOK ==
    ASSUME NEW r \in Requests, req'[r] = Idle
    PROVE  RequestOK(r)'
  BY DEF RequestOK, Idle, SessionSteps, AuthenticatedSteps, Handlers

\* A step of request r: the others stay sound.
LEMMA RequestsStep ==
    ASSUME AccountsInv, Lasting, NobodyEnabled,
           NEW r \in Requests, NEW q \in Request,
           req' = [req EXCEPT ![r] = q], RequestOK(r)'
    PROVE  RequestsInv'
  <1>. req \in [Requests -> Request]
    BY DEF AccountsInv, RequestsInv
  <1>1. req' \in [Requests -> Request]
    OBVIOUS
  <1>2. ASSUME NEW o \in Requests
        PROVE  RequestOK(o)'
    <2>1. CASE o = r
      BY <2>1
    <2>2. CASE o # r
      <3>1. req'[o] = req[o]
        BY <2>2
      <3>. QED
        BY <3>1, RequestCarries
    <2>. QED
      BY <2>1, <2>2
  <1>. QED
    BY <1>1, <1>2 DEF RequestsInv

\* A step that ends request r.
LEMMA RequestEnds ==
    ASSUME AccountsInv, Lasting, NobodyEnabled,
           NEW r \in Requests, Goto(r, Idle)
    PROVE  RequestsInv'
  <1>1. req' = [req EXCEPT ![r] = Idle]
    BY DEF Goto
  <1>2. req'[r] = Idle
    BY <1>1 DEF AccountsInv, RequestsInv
  <1>3. RequestOK(r)'
    BY <1>2, IdleIsOK
  <1>. QED
    BY <1>1, <1>3, NewRequests, RequestsStep

\* A step of no request.
LEMMA RequestsUnchanged ==
    ASSUME AccountsInv, Lasting, NobodyEnabled, UNCHANGED req
    PROVE  RequestsInv'
  BY RequestCarries DEF AccountsInv, RequestsInv

\* Nothing but a request changes.
LEMMA NothingLost ==
    ASSUME TypeOK, UNCHANGED <<now, users, tokens, sessions, keyStatus>>
    PROVE  Lasting /\ NobodyEnabled
  BY Columns DEF Lasting, NobodyEnabled

\* A step in which request r only changes what it has in hand.
LEMMA RequestOnly ==
    ASSUME AccountsInv, NEW r \in Requests, NEW q \in Request,
           req' = [req EXCEPT ![r] = q], RequestOK(r)',
           UNCHANGED <<now, users, tokens, sessions, keyStatus, workload>>
    PROVE  AccountsInv'
  <1>1. Lasting /\ NobodyEnabled
    BY NothingLost DEF AccountsInv
  <1>2. RequestsInv'
    BY <1>1, RequestsStep
  <1>3. TypeOK'
    BY DEF AccountsInv, TypeOK
  <1>4. UsersInv'
    BY DEF AccountsInv, UsersInv, EnabledHasIdentity
  <1>5. SessionsInv'
    BY DEF AccountsInv, SessionsInv, OldSessionsEnd
  <1>6. TokensInv'
    BY DEF AccountsInv, TokensInv, LinkWorksOnce, Open
  <1>. QED
    BY <1>2, <1>3, <1>4, <1>5, <1>6 DEF AccountsInv

-----------------------------------------------------------------------------
(* The steps that only change a request                                    *)

\* The password matches one that is stored, so the user has one.
LEMMA LoginKeeps ==
    ASSUME AccountsInv, NEW r \in Requests, NEW u \in Users, Login(r, u)
    PROVE  AccountsInv'
  <1>1. PICK q \in Request : q = [step |-> "issue", user |-> u]
    BY NewRequests
  <1>2. req' = [req EXCEPT ![r] = q] /\ req'[r] = q
    BY <1>1 DEF Login, Goto, AccountsInv, RequestsInv
  <1>3. users'[u].hash # 0
    BY DEF Login, CredentialsMatch
  <1>4. RequestOK(r)'
    BY <1>1, <1>2, <1>3
    DEF RequestOK, SessionSteps, AuthenticatedSteps, Handlers
  <1>. QED
    BY <1>2, <1>4, RequestOnly DEF Login

\* A session that verifies may be refused only because of its user.
LEMMA VerifiedReasons ==
    ASSUME TypeOK, NEW i \in DOMAIN sessions, Verifies(i)
    PROVE  Reasons(i) \subseteq {"disabled"}
  <1>1. /\ sessions[i].kid \in Keys /\ sessions[i].expires \in Nat
        /\ now \in Nat /\ KeyExpiry[sessions[i].kid] \in Nat
        /\ Skew \in Nat /\ SessionLife \in Nat
    BY Columns, AccountsAssumption
  <1>2. now < KeyExpiry[sessions[i].kid]
    BY <1>1 DEF Verifies, TouchedExpiry, Least
  <1>3. ~(now > sessions[i].expires + Skew)
    BY <1>1 DEF Verifies
  <1>. QED
    BY <1>1, <1>2, <1>3 DEF Verifies, Reasons

\* AuthMiddleware records what it refuses for, and sends the request on.
LEMMA AuthenticateKeeps ==
    ASSUME AccountsInv, NEW r \in Requests, NEW i \in DOMAIN sessions,
           NEW op \in Handlers, Authenticate(r, i, op)
    PROVE  AccountsInv'
  <1>. PICK s \in AuthenticatedSteps : s = IF op = "logout" THEN "logout" ELSE "read"
    BY DEF AuthenticatedSteps, Handlers
  <1>. PICK d \in SUBSET ReasonNames : d = Reasons(i)
    BY DEF Reasons, ReasonNames
  <1>1. i \in Nat
    BY Columns DEF AccountsInv
  <1>2. PICK q \in Request : q = [step |-> s, session |-> i, op |-> op, dead |-> d]
    BY <1>1, NewRequests
  <1>3. req' = [req EXCEPT ![r] = q] /\ req'[r] = q
    BY <1>2 DEF Authenticate, Goto, AccountsInv, RequestsInv
  <1>4. q.step = s /\ q.session = i /\ q.dead = d
    BY <1>2
  <1>5. s \in {"logout", "read"}
    OBVIOUS
  <1>6. d \subseteq {"disabled"}
    BY VerifiedReasons DEF Authenticate, AccountsInv
  <1>7. d = Reasons(i)'
    BY DEF Authenticate, Reasons
  <1>8. i \in DOMAIN sessions'
    BY DEF Authenticate
  <1>9. (req[r].dead \subseteq Reasons(req[r].session))'
    BY <1>3, <1>4, <1>7 DEF Reasons
  <1>10. RequestOK(r)'
    BY <1>3, <1>4, <1>5, <1>6, <1>8, <1>9
    DEF RequestOK, SessionSteps, AuthenticatedSteps, Handlers
  <1>. QED
    BY <1>3, <1>10, RequestOnly DEF Authenticate

\* The session is read again: what is admitted has no reason to be refused.
LEMMA ReadSessionKeeps ==
    ASSUME AccountsInv, NEW r \in Requests, ReadSession(r)
    PROVE  AccountsInv'
  <1>. /\ RequestOK(r) /\ req[r] \in Request /\ req[r].step = "read"
       /\ req \in [Requests -> Request]
    BY DEF AccountsInv, RequestsInv, ReadSession
  <1>. UNCHANGED <<now, users, tokens, sessions, keyStatus, workload>>
    BY DEF ReadSession
  <1>. PICK i \in DOMAIN sessions : i = req[r].session
    BY DEF RequestOK, SessionSteps, AuthenticatedSteps
  <1>1. CASE Verifies(i) /\ Visible(i)
    <2>1. Reasons(i) = {}
      BY <1>1, VerifiedReasons DEF AccountsInv, Visible, Reasons
    <2>2. req[r].dead = {}
      BY <2>1 DEF RequestOK
    <2>3. req[r].step \in AuthenticatedSteps /\ req[r].op \in Handlers
      BY RequestFields DEF AuthenticatedSteps
    <2>4. PICK q \in Request : /\ q = [req[r] EXCEPT !.step = req[r].op]
                               /\ q.step \in Handlers
                               /\ q.session = i /\ q.dead = {}
      <3>. PICK s \in Handlers : s = req[r].op
        BY <2>3
      <3>1. s \in AuthenticatedSteps
        BY DEF AuthenticatedSteps
      <3>2. /\ [req[r] EXCEPT !.step = s] \in Request
            /\ [req[r] EXCEPT !.step = s].step = s
            /\ [req[r] EXCEPT !.step = s].session = req[r].session
            /\ [req[r] EXCEPT !.step = s].dead = req[r].dead
        BY <2>3, <3>1, RequestMoves
      <3>. QED
        BY <2>2, <3>2
    <2>5. req' = [req EXCEPT ![r] = q] /\ req'[r] = q
      BY <1>1, <2>4 DEF ReadSession, Goto
    <2>6. RequestOK(r)'
      BY <2>4, <2>5 DEF RequestOK, Handlers
    <2>. QED
      BY <2>5, <2>6, RequestOnly
  <1>2. CASE ~(Verifies(i) /\ Visible(i))
    <2>1. req' = [req EXCEPT ![r] = Idle] /\ req'[r] = Idle
      BY <1>2 DEF ReadSession, Goto
    <2>. QED
      BY <2>1, IdleIsOK, NewRequests, RequestOnly
  <1>. QED
    BY <1>1, <1>2

\* A request that does nothing more.
LEMMA DoneKeeps ==
    ASSUME AccountsInv, NEW r \in Requests, Goto(r, Idle),
           UNCHANGED <<now, users, tokens, sessions, keyStatus, workload>>
    PROVE  AccountsInv'
  <1>1. req' = [req EXCEPT ![r] = Idle] /\ req'[r] = Idle
    BY DEF Goto, AccountsInv, RequestsInv
  <1>. QED
    BY <1>1, IdleIsOK, NewRequests, RequestOnly

\* A password change reads the credentials and stores nothing yet.
LEMMA ReadCredentialsKeeps ==
    ASSUME AccountsInv, NEW r \in Requests, ReadCredentials(r)
    PROVE  AccountsInv'
  <1>. /\ RequestOK(r) /\ req[r] \in Request /\ req[r].step = "password"
       /\ req \in [Requests -> Request]
    BY DEF AccountsInv, RequestsInv, ReadCredentials
  <1>. UNCHANGED <<now, users, tokens, sessions, keyStatus, workload>>
    BY DEF ReadCredentials
  <1>1. CASE CredentialsMatch(sessions[req[r].session].user)
    <2>1. PICK q \in Request : /\ q = [req[r] EXCEPT !.step = "store"]
                               /\ q.step = "store"
                               /\ q.session = req[r].session /\ q.dead = req[r].dead
      BY RequestMoves DEF AuthenticatedSteps, Handlers
    <2>2. req' = [req EXCEPT ![r] = q] /\ req'[r] = q
      BY <1>1, <2>1 DEF ReadCredentials, Goto
    <2>3. q.session \in DOMAIN sessions /\ q.dead = {}
      BY <2>1 DEF RequestOK, SessionSteps, AuthenticatedSteps, Handlers
    <2>4. RequestOK(r)'
      BY <2>1, <2>2, <2>3 DEF RequestOK
    <2>. QED
      BY <2>2, <2>4, RequestOnly
  <1>2. CASE ~CredentialsMatch(sessions[req[r].session].user)
    BY <1>2, DoneKeeps DEF ReadCredentials
  <1>. QED
    BY <1>1, <1>2

\* A reset link is asked for.
LEMMA ConsumeNext ==
    ASSUME AccountsInv, NEW r \in Requests, NEW u \in Users,
           Goto(r, [step |-> "consume", user |-> u]),
           UNCHANGED <<now, users, tokens, sessions, keyStatus, workload>>
    PROVE  AccountsInv'
  <1>1. PICK q \in Request : q = [step |-> "consume", user |-> u]
    BY NewRequests
  <1>2. req' = [req EXCEPT ![r] = q] /\ req'[r] = q
    BY <1>1 DEF Goto, AccountsInv, RequestsInv
  <1>3. RequestOK(r)'
    BY <1>1, <1>2 DEF RequestOK, SessionSteps, AuthenticatedSteps, Handlers
  <1>. QED
    BY <1>2, <1>3, RequestOnly

\* An administrator's reset link starts with the user it is for.
LEMMA IssuePasswordResetKeeps ==
    ASSUME AccountsInv, NEW r \in Requests, NEW u \in Users,
           IssuePasswordReset(r, u)
    PROVE  AccountsInv'
  <1>1. Goto(r, [step |-> "consume", user |-> u]) \/ Goto(r, Idle)
    BY DEF IssuePasswordReset
  <1>. QED
    BY <1>1, ConsumeNext, DoneKeeps DEF IssuePasswordReset

\* The open reset links are taken; their rows change with the commit.
LEMMA ConsumeOpenKeeps ==
    ASSUME AccountsInv, NEW r \in Requests, ConsumeOpen(r)
    PROVE  AccountsInv'
  <1>. PICK x \in SUBSET Nat : x = OpenOf(req[r].user, "password_reset")
    BY Columns DEF OpenOf, AccountsInv
  <1>1. req[r].user \in Users
    BY RequestFields DEF ConsumeOpen, AccountsInv, RequestsInv
  <1>2. PICK q \in Request :
           q = [step |-> "insert", user |-> req[r].user, consumes |-> x]
    BY <1>1, NewRequests
  <1>3. req' = [req EXCEPT ![r] = q] /\ req'[r] = q
    BY <1>2 DEF ConsumeOpen, Goto, AccountsInv, RequestsInv
  <1>4. RequestOK(r)'
    BY <1>2, <1>3 DEF RequestOK, SessionSteps, AuthenticatedSteps, Handlers
  <1>. QED
    BY <1>3, <1>4, RequestOnly DEF ConsumeOpen

-----------------------------------------------------------------------------
(* Sessions                                                                *)

\* Sessions keep who they belong to and stay revoked.
SessionsStay ==
    /\ sessions' \in Seq(Session) /\ Len(sessions') = Len(sessions)
    /\ \A i \in DOMAIN sessions :
         /\ sessions'[i].user = sessions[i].user
         /\ sessions'[i].kid = sessions[i].kid
         /\ sessions'[i].expires = sessions[i].expires
         /\ sessions'[i].born = sessions[i].born
         /\ sessions[i].revoked => sessions'[i].revoked

\* Of the users, only the preferences change.
UsersStay ==
    /\ users' \in [Users -> User]
    /\ \A u \in Users :
         /\ users'[u].exists = users[u].exists
         /\ users'[u].enabled = users[u].enabled
         /\ users'[u].name = users[u].name
         /\ users'[u].hash = users[u].hash
         /\ users'[u].keeper = users[u].keeper

\* Rows that do not change stay.
LEMMA UnchangedStay ==
    ASSUME TypeOK
    PROVE  /\ UNCHANGED sessions => SessionsStay
           /\ UNCHANGED users => UsersStay
  BY DEF TypeOK, SessionsStay, UsersStay

\* One session gets another row.
LEMMA SessionUpdated ==
    ASSUME TypeOK, NEW i \in DOMAIN sessions, NEW s \in Session,
           sessions' = [sessions EXCEPT ![i] = s],
           s.user = sessions[i].user, s.kid = sessions[i].kid,
           s.expires = sessions[i].expires, s.born = sessions[i].born,
           sessions[i].revoked => s.revoked
    PROVE  SessionsStay
  <1>1. sessions \in Seq(Session)
    BY DEF TypeOK
  <1>2. sessions' \in Seq(Session) /\ Len(sessions') = Len(sessions)
    BY <1>1
  <1>3. \A j \in DOMAIN sessions : sessions'[j] = IF j = i THEN s ELSE sessions[j]
    OBVIOUS
  <1>. QED
    BY <1>2, <1>3 DEF SessionsStay

\* Revoking sessions changes nothing else of them.
LEMMA RevokedStays ==
    ASSUME TypeOK, NEW u \in Users, NEW kept, sessions' = Revoked(u, kept)
    PROVE  /\ SessionsStay
           /\ \A i \in DOMAIN sessions :
                sessions[i].user = u /\ i \notin kept => sessions'[i].revoked
  <1>1. sessions \in Seq(Session)
    BY DEF TypeOK
  <1>2. ASSUME NEW i \in DOMAIN sessions
        PROVE  /\ sessions'[i] \in Session
               /\ sessions'[i].user = sessions[i].user
               /\ sessions'[i].kid = sessions[i].kid
               /\ sessions'[i].expires = sessions[i].expires
               /\ sessions'[i].born = sessions[i].born
               /\ sessions[i].revoked => sessions'[i].revoked
               /\ sessions[i].user = u /\ i \notin kept => sessions'[i].revoked
    <2>1. PICK s \in Session : s = sessions[i]
      BY <1>1
    <2>2. sessions'[i] = IF s.user = u /\ i \notin kept
                         THEN [s EXCEPT !.revoked = TRUE] ELSE s
      BY <2>1 DEF Revoked
    <2>. QED
      BY <2>1, <2>2 DEF Session
  <1>3. DOMAIN sessions' = 1..Len(sessions) /\ Len(sessions) \in Nat
    BY <1>1 DEF Revoked
  <1>4. \A i \in 1..Len(sessions) : sessions'[i] \in Session
    BY <1>1, <1>2
  <1>5. sessions' = [i \in 1..Len(sessions) |-> sessions'[i]]
    BY <1>1 DEF Revoked
  <1>6. sessions' \in Seq(Session) /\ Len(sessions') = Len(sessions)
    BY <1>3, <1>4, <1>5
  <1>. QED
    BY <1>2, <1>6 DEF SessionsStay

\* One user gets another row.
LEMMA UserUpdated ==
    ASSUME TypeOK, NEW u \in Users, NEW x \in User,
           users' = [users EXCEPT ![u] = x]
    PROVE  /\ users' \in [Users -> User]
           /\ \A v \in Users : users'[v] = IF v = u THEN x ELSE users[v]
  BY DEF TypeOK

\* A preference is no identity.
LEMMA PreferenceStays ==
    ASSUME TypeOK, NEW u \in Users, NEW c \in Contexts
    PROVE  /\ users' = [users EXCEPT ![u].preferred = c] => UsersStay
           /\ users' = [[users EXCEPT ![u].preferred = c] EXCEPT ![u].chosen = c]
                => UsersStay
  <1>1. PICK x \in User : x = users[u]
    BY DEF TypeOK
  <1>2. PICK y \in User : y = [x EXCEPT !.preferred = c]
    BY DEF User
  <1>3. PICK z \in User : z = [y EXCEPT !.chosen = c]
    BY DEF User
  <1>4. /\ y.exists = x.exists /\ y.enabled = x.enabled /\ y.name = x.name
        /\ y.hash = x.hash /\ y.keeper = x.keeper
        /\ z.exists = x.exists /\ z.enabled = x.enabled /\ z.name = x.name
        /\ z.hash = x.hash /\ z.keeper = x.keeper
    BY <1>2, <1>3 DEF User
  <1>5. [users EXCEPT ![u].preferred = c] = [users EXCEPT ![u] = y]
    BY <1>1, <1>2 DEF TypeOK
  <1>6. [[users EXCEPT ![u].preferred = c] EXCEPT ![u].chosen = c]
          = [users EXCEPT ![u] = z]
    BY <1>1, <1>2, <1>3 DEF TypeOK
  <1>7. ASSUME users' = [users EXCEPT ![u] = y] \/ users' = [users EXCEPT ![u] = z]
        PROVE  UsersStay
    BY <1>1, <1>4, <1>7, UserUpdated DEF UsersStay
  <1>. QED
    BY <1>5, <1>6, <1>7

\* When rows stay, what requests rely on lasts.
LEMMA StayLasts ==
    ASSUME AccountsInv, SessionsStay, UsersStay, UNCHANGED <<now, tokens, keyStatus>>
    PROVE  Lasting /\ NobodyEnabled
  <1>. TypeOK
    BY DEF AccountsInv
  <1>1. DOMAIN sessions' = DOMAIN sessions
    BY DEF SessionsStay, TypeOK
  <1>. QED
    BY <1>1, Columns DEF SessionsStay, UsersStay, Lasting, NobodyEnabled

\* No user comes or goes, and nobody gets a first password.
LEMMA TokensCarry ==
    ASSUME AccountsInv, UNCHANGED tokens,
           \A u \in Users : /\ users[u].exists => users'[u].exists
                            /\ users[u].hash = 0 => users'[u].hash = 0
    PROVE  TokensInv'
  <1>. TypeOK /\ TokensInv
    BY DEF AccountsInv
  <1>1. LinkWorksOnce'
    BY DEF TokensInv, LinkWorksOnce, Open
  <1>2. ASSUME NEW t \in DOMAIN tokens
        PROVE  /\ tokens[t].spent # 0 => ~Open(t)
               /\ tokens[t].purpose = "invitation" => users'[tokens[t].user].exists
               /\ tokens[t].purpose = "invitation" /\ Open(t)
                    => users'[tokens[t].user].hash = 0
    BY Columns DEF TokensInv
  <1>. QED
    BY <1>1, <1>2 DEF TokensInv, Open

\* When the users stay, so does what is known of them.
LEMMA UsersCarry ==
    ASSUME AccountsInv, UsersStay
    PROVE  UsersInv'
  BY DEF AccountsInv, UsersInv, UsersStay, EnabledHasIdentity

\* Sessions stay sound while passwords and the kept sessions do.
LEMMA SessionsCarry ==
    ASSUME AccountsInv, SessionsStay,
           \A u \in Users : /\ users'[u].hash = users[u].hash
                            /\ users'[u].keeper = users[u].keeper
    PROVE  SessionsInv'
  <1>. TypeOK /\ SessionsInv
    BY DEF AccountsInv
  <1>1. DOMAIN sessions' = DOMAIN sessions
    BY DEF SessionsStay, TypeOK
  <1>2. ASSUME NEW i \in DOMAIN sessions
        PROVE  /\ ~sessions'[i].revoked =>
                     \/ sessions'[i].born = users'[sessions'[i].user].hash
                     \/ users'[sessions'[i].user].keeper = i
               /\ users'[sessions'[i].user].hash # 0
    <2>1. sessions[i].user \in Users
      BY Columns
    <2>. QED
      BY <2>1 DEF SessionsInv, OldSessionsEnd, SessionsStay
  <1>. QED
    BY <1>1, <1>2 DEF SessionsInv, OldSessionsEnd

\* Types of what a step leaves alone.
LEMMA SessionTypes ==
    ASSUME TypeOK, SessionsStay, users' \in [Users -> User],
           UNCHANGED <<now, tokens, keyStatus, workload>>
    PROVE  TypeOK'
  BY DEF TypeOK, SessionsStay

\* A request ends with a change that neither session nor user is judged by.
LEMMA StayKeeps ==
    ASSUME AccountsInv, SessionsStay, UsersStay, RequestsInv',
           UNCHANGED <<now, tokens, keyStatus, workload>>
    PROVE  AccountsInv'
  <1>1. TypeOK'
    BY SessionTypes DEF AccountsInv, UsersStay
  <1>2. UsersInv'
    BY UsersCarry
  <1>3. SessionsInv'
    BY SessionsCarry DEF UsersStay
  <1>4. TokensInv'
    BY TokensCarry DEF UsersStay
  <1>. QED
    BY <1>1, <1>2, <1>3, <1>4 DEF AccountsInv

\* A step that only ends its request.
LEMMA StayAndEnd ==
    ASSUME AccountsInv, SessionsStay, UsersStay, NEW r \in Requests, Goto(r, Idle),
           UNCHANGED <<now, tokens, keyStatus, workload>>
    PROVE  AccountsInv'
  BY StayLasts, RequestEnds, StayKeeps

\* The row a session gets when it is answered or revoked.
LEMMA FlaggedStays ==
    ASSUME TypeOK, NEW i \in DOMAIN sessions
    PROVE  /\ sessions' = [sessions EXCEPT ![i].held = TRUE] => SessionsStay
           /\ sessions' = [sessions EXCEPT ![i].revoked = TRUE] => SessionsStay
  <1>1. PICK s \in Session : s = sessions[i]
    BY Columns
  <1>2. PICK h \in Session : h = [s EXCEPT !.held = TRUE]
    BY DEF Session
  <1>3. PICK z \in Session : z = [s EXCEPT !.revoked = TRUE]
    BY DEF Session
  <1>4. \A o \in {h, z} :
          /\ o \in Session
          /\ o.user = s.user /\ o.kid = s.kid /\ o.expires = s.expires
          /\ o.born = s.born /\ (s.revoked => o.revoked)
    BY <1>2, <1>3 DEF Session
  <1>5. ASSUME NEW o \in {h, z}, sessions' = [sessions EXCEPT ![i] = o]
        PROVE  SessionsStay
    BY <1>1, <1>4, <1>5, SessionUpdated
  <1>6. [sessions EXCEPT ![i].held = TRUE] = [sessions EXCEPT ![i] = h]
    BY <1>1, <1>2
  <1>7. [sessions EXCEPT ![i].revoked = TRUE] = [sessions EXCEPT ![i] = z]
    BY <1>1, <1>3
  <1>. QED
    BY <1>5, <1>6, <1>7

\* The row a session gets with a context.
LEMMA ContextStays ==
    ASSUME TypeOK, NEW i \in DOMAIN sessions, NEW c \in Contexts
    PROVE  /\ sessions' = WithContext(i, c) => SessionsStay
           /\ sessions' = [WithContext(i, c) EXCEPT ![i].held = TRUE] => SessionsStay
  <1>1. PICK s \in Session : s = sessions[i]
    BY Columns
  <1>2. PICK x \in Session : x = [s EXCEPT !.context = c]
    BY DEF Session
  <1>3. PICK y \in Session : y = [x EXCEPT !.held = TRUE]
    BY DEF Session
  <1>4. \A o \in {x, y} :
          /\ o \in Session
          /\ o.user = s.user /\ o.kid = s.kid /\ o.expires = s.expires
          /\ o.born = s.born /\ (s.revoked => o.revoked)
    BY <1>2, <1>3 DEF Session
  <1>5. ASSUME NEW o \in {x, y}, sessions' = [sessions EXCEPT ![i] = o]
        PROVE  SessionsStay
    BY <1>1, <1>4, <1>5, SessionUpdated
  <1>6. WithContext(i, c) = [sessions EXCEPT ![i] = x]
    BY <1>1, <1>2 DEF WithContext
  <1>7. [WithContext(i, c) EXCEPT ![i].held = TRUE] = [sessions EXCEPT ![i] = y]
    BY <1>1, <1>2, <1>3 DEF WithContext
  <1>. QED
    BY <1>5, <1>6, <1>7

\* The session and the user of a request at one of the session's steps.
LEMMA OwnSession ==
    ASSUME AccountsInv, NEW r \in Requests, req[r].step \in SessionSteps
    PROVE  /\ req[r] \in Request
           /\ req[r].session \in DOMAIN sessions
           /\ req[r].session \in Nat
           /\ sessions[req[r].session].user \in Users
  BY Columns DEF AccountsInv, RequestsInv, RequestOK

\* A login reads the saved context, and ends if there is none.
LEMMA ReadPreferenceKeeps ==
    ASSUME AccountsInv, NEW r \in Requests, ReadPreference(r)
    PROVE  AccountsInv'
  <1>. req[r].step = "prefer" /\ req[r].step \in SessionSteps /\ TypeOK
    BY DEF ReadPreference, SessionSteps, AccountsInv
  <1>. PICK i \in DOMAIN sessions : i = req[r].session
    BY OwnSession
  <1>. PICK u \in Users : u = sessions[i].user
    BY OwnSession
  <1>1. CASE users[u].preferred = None
    <2>1. sessions' = [sessions EXCEPT ![i].held = TRUE] /\ Goto(r, Idle)
      BY <1>1 DEF ReadPreference
    <2>2. SessionsStay
      BY <2>1, FlaggedStays
    <2>3. UsersStay
      BY UnchangedStay DEF ReadPreference
    <2>. QED
      BY <2>1, <2>2, <2>3, StayAndEnd DEF ReadPreference
  <1>2. CASE users[u].preferred # None
    <2>1. PICK c \in Contexts : c = users[u].preferred
      BY <1>2, Columns
    <2>2. i \in Nat
      BY Columns
    <2>3. PICK q \in Request : q = [step |-> "restore", session |-> i, context |-> c]
      BY <2>2, NewRequests
    <2>4. req' = [req EXCEPT ![r] = q] /\ req'[r] = q
      BY <1>2, <2>1, <2>3 DEF ReadPreference, Goto, AccountsInv, RequestsInv
    <2>5. UNCHANGED <<now, users, tokens, sessions, keyStatus, workload>>
      BY <1>2 DEF ReadPreference
    <2>6. RequestOK(r)'
      BY <2>3, <2>4, <2>5
      DEF RequestOK, SessionSteps, AuthenticatedSteps, Handlers
    <2>. QED
      BY <2>4, <2>5, <2>6, RequestOnly
  <1>. QED
    BY <1>1, <1>2

\* A login restores the context it has read.
LEMMA RestoreContextKeeps ==
    ASSUME AccountsInv, NEW r \in Requests, RestoreContext(r)
    PROVE  AccountsInv'
  <1>. req[r].step = "restore" /\ req[r].step \in SessionSteps /\ TypeOK
    BY DEF RestoreContext, SessionSteps, AccountsInv
  <1>. PICK i \in DOMAIN sessions : i = req[r].session
    BY OwnSession
  <1>. PICK u \in Users : u = sessions[i].user
    BY OwnSession
  <1>. PICK c \in Contexts : c = req[r].context
    BY OwnSession, RequestFields
  <1>1. /\ sessions' = [WithContext(i, c) EXCEPT ![i].held = TRUE]
        /\ users' = [users EXCEPT ![u].preferred = c]
    BY DEF RestoreContext, WithPreference
  <1>2. SessionsStay /\ UsersStay
    BY <1>1, ContextStays, PreferenceStays
  <1>. QED
    BY <1>2, StayAndEnd DEF RestoreContext

\* A handler writes the context of its own session.
LEMMA SetActiveContextKeeps ==
    ASSUME AccountsInv, NEW r \in Requests, NEW c \in Contexts,
           SetActiveContext(r, c)
    PROVE  AccountsInv'
  <1>. req[r].step \in SessionSteps /\ TypeOK
    BY DEF SetActiveContext, SessionSteps, AuthenticatedSteps, Handlers, AccountsInv
  <1>. PICK i \in DOMAIN sessions : i = req[r].session
    BY OwnSession
  <1>. PICK u \in Users : u = sessions[i].user
    BY OwnSession
  <1>1. CASE Role[u] = "Superadmin"
    <2>1. /\ sessions' = WithContext(i, c)
          /\ users' = [[users EXCEPT ![u].preferred = c] EXCEPT ![u].chosen = c]
      BY <1>1 DEF SetActiveContext, WithPreference
    <2>2. SessionsStay /\ UsersStay
      BY <2>1, ContextStays, PreferenceStays
    <2>. QED
      BY <2>2, StayAndEnd DEF SetActiveContext
  <1>2. CASE Role[u] # "Superadmin"
    BY <1>2, DoneKeeps DEF SetActiveContext
  <1>. QED
    BY <1>1, <1>2

\* A handler revokes its own session.
LEMMA LogoutKeeps ==
    ASSUME AccountsInv, NEW r \in Requests, Logout(r)
    PROVE  AccountsInv'
  <1>. req[r].step \in SessionSteps /\ TypeOK
    BY DEF Logout, SessionSteps, AuthenticatedSteps, Handlers, AccountsInv
  <1>. PICK i \in DOMAIN sessions : i = req[r].session
    BY OwnSession
  <1>1. sessions' = [sessions EXCEPT ![i].revoked = TRUE]
    BY DEF Logout
  <1>2. SessionsStay
    BY <1>1, FlaggedStays
  <1>3. UsersStay
    BY UnchangedStay DEF Logout
  <1>. QED
    BY <1>2, <1>3, StayAndEnd DEF Logout

\* A session starts with the password its user has at that moment.
LEMMA IssueKeeps ==
    ASSUME AccountsInv, NEW r \in Requests, Issue(r)
    PROVE  AccountsInv'
  <1>. req[r].step = "issue" /\ Len(sessions) < MaxSessions /\ TypeOK
    BY DEF Issue, AccountsInv
  <1>. req[r] \in Request /\ RequestOK(r) /\ req \in [Requests -> Request]
    BY DEF AccountsInv, RequestsInv
  <1>. PICK u \in Users : u = req[r].user
    BY RequestFields
  <1>. users[u].hash # 0
    BY DEF RequestOK
  <1>. UNCHANGED <<now, users, tokens, keyStatus, workload>>
    BY DEF Issue
  <1>1. PICK k \in ActiveKey :
          IF KeyExpiry[k] > now
          THEN /\ sessions' = Append(sessions, NewSession(u, k))
               /\ Goto(r, [step |-> "prefer", session |-> Len(sessions) + 1])
          ELSE Goto(r, Idle) /\ UNCHANGED sessions
    BY DEF Issue
  <1>2. CASE KeyExpiry[k] > now
    <2>1. k \in Keys /\ KeyExpiry[k] \in Nat /\ now \in Nat /\ SessionLife \in Nat
      BY Columns, AccountsAssumption DEF ActiveKey
    <2>2. users[u].hash \in 0..MaxPasswords
      BY Columns
    <2>3. PICK s \in Session : s = NewSession(u, k)
      <3>1. PICK e \in Nat : e = Least(now + SessionLife, KeyExpiry[k])
        BY <2>1 DEF Least
      <3>. QED
        BY <2>1, <2>2, <3>1 DEF NewSession, Session
    <2>4. s.user = u /\ s.born = users[u].hash
      BY <2>3 DEF NewSession
    <2>5. PICK n \in Nat : n = Len(sessions) + 1
      BY Columns
    <2>6. /\ sessions' = Append(sessions, s)
          /\ Goto(r, [step |-> "prefer", session |-> n])
      BY <1>1, <1>2, <2>3, <2>5
    <2>7. sessions \in Seq(Session) /\ Len(sessions) \in Nat
      BY DEF TypeOK
    <2>8. /\ sessions' \in Seq(Session) /\ Len(sessions') = n
          /\ DOMAIN sessions' = DOMAIN sessions \cup {n} /\ n \notin DOMAIN sessions
          /\ \A i \in DOMAIN sessions : sessions'[i] = sessions[i]
          /\ sessions'[n] = s
      BY <2>5, <2>6, <2>7
    <2>9. TypeOK'
      BY <2>5, <2>8, AccountsAssumption DEF TypeOK
    <2>10. UsersInv' /\ TokensInv'
      BY TokensCarry, UsersCarry, UnchangedStay DEF AccountsInv
    <2>11. SessionsInv'
      BY <2>4, <2>8 DEF AccountsInv, SessionsInv, OldSessionsEnd
    <2>12. Lasting /\ NobodyEnabled
      BY <2>1, <2>8 DEF Lasting, NobodyEnabled
    <2>13. PICK q \in Request : q = [step |-> "prefer", session |-> n]
      BY NewRequests
    <2>14. req' = [req EXCEPT ![r] = q] /\ req'[r] = q
      BY <2>6, <2>13 DEF Goto
    <2>15. RequestOK(r)'
      BY <2>8, <2>13, <2>14
      DEF RequestOK, SessionSteps, AuthenticatedSteps, Handlers
    <2>16. RequestsInv'
      BY <2>12, <2>14, <2>15, RequestsStep
    <2>. QED
      BY <2>9, <2>10, <2>11, <2>16 DEF AccountsInv
  <1>3. CASE ~(KeyExpiry[k] > now)
    BY <1>1, <1>3, DoneKeeps
  <1>. QED
    BY <1>2, <1>3

-----------------------------------------------------------------------------
(* Users                                                                   *)

\* One user gets another row: names stay unique and enabled users identified.
LEMMA UserRowStep ==
    ASSUME TypeOK, UsersInv, NEW u \in Users, NEW x \in User,
           users' = [users EXCEPT ![u] = x],
           ~x.exists => x.hash = 0,
           x.enabled => x.name # None /\ x.hash # 0,
           x.name # None => \A v \in Users \ {u} : users[v].name # x.name
    PROVE  UsersInv'
  <1>1. \A v \in Users : users'[v] = IF v = u THEN x ELSE users[v]
    BY UserUpdated
  <1>2. ASSUME NEW v \in Users
        PROVE  /\ users'[v].enabled => users'[v].name # None /\ users'[v].hash # 0
               /\ ~users'[v].exists => users'[v].hash = 0
    BY <1>1 DEF UsersInv, EnabledHasIdentity
  <1>3. ASSUME NEW v \in Users, NEW w \in Users \ {v}, users'[v].name # None
        PROVE  users'[v].name # users'[w].name
    <2>1. CASE v = u
      BY <1>1, <1>3, <2>1
    <2>2. CASE v # u /\ w = u
      BY <1>1, <1>3, <2>2
    <2>3. CASE v # u /\ w # u
      BY <1>1, <1>3, <2>3 DEF UsersInv, EnabledHasIdentity
    <2>. QED
      BY <2>1, <2>2, <2>3
  <1>. QED
    BY <1>2, <1>3 DEF UsersInv, EnabledHasIdentity

\* The same with what depends on it, when the sessions stay.
LEMMA UserStep ==
    ASSUME AccountsInv, SessionsStay, NEW u \in Users, NEW x \in User,
           users' = [users EXCEPT ![u] = x],
           UNCHANGED <<now, tokens, keyStatus, workload>>,
           users[u].exists => x.exists,
           ~x.exists => x.hash = 0,
           users[u].hash = 0 => x.hash = 0,
           users[u].hash # 0 => x.hash # 0,
           x.enabled => x.name # None /\ x.hash # 0,
           x.name # None => \A v \in Users \ {u} : users[v].name # x.name
    PROVE  TypeOK' /\ UsersInv' /\ TokensInv' /\ Lasting
  <1>. TypeOK /\ UsersInv
    BY DEF AccountsInv
  <1>1. /\ users' \in [Users -> User]
        /\ \A v \in Users : users'[v] = IF v = u THEN x ELSE users[v]
    BY UserUpdated
  <1>2. TypeOK'
    BY <1>1, SessionTypes
  <1>3. UsersInv'
    BY UserRowStep
  <1>4. TokensInv'
    BY <1>1, TokensCarry
  <1>5. Lasting
    <2>1. DOMAIN sessions' = DOMAIN sessions
      BY DEF SessionsStay, TypeOK
    <2>. QED
      BY <1>1, <2>1, Columns DEF SessionsStay, Lasting
  <1>. QED
    BY <1>2, <1>3, <1>4, <1>5

\* A new user name keeps the identity of the account.
LEMMA UpdateProfileKeeps ==
    ASSUME AccountsInv, NEW r \in Requests, NEW n \in Names, UpdateProfile(r, n)
    PROVE  AccountsInv'
  <1>. req[r].step \in SessionSteps /\ TypeOK /\ UsersInv
    BY DEF UpdateProfile, SessionSteps, AuthenticatedSteps, Handlers, AccountsInv
  <1>. PICK u \in Users : u = sessions[req[r].session].user
    BY OwnSession
  <1>1. CASE NameIsFree(u, n) /\ ProfileReadable(u)
    <2>1. PICK y \in User : y = users[u]
      BY DEF TypeOK
    <2>2. PICK x \in User : x = [y EXCEPT !.name = n]
      BY DEF User
    <2>3. /\ x.name = n /\ x.exists = y.exists /\ x.hash = y.hash
          /\ x.enabled = y.enabled /\ x.keeper = y.keeper
      BY <2>2 DEF User
    <2>4. users' = [users EXCEPT ![u] = x]
      BY <1>1, <2>1, <2>2 DEF UpdateProfile
    <2>5. n # None
      BY AccountsAssumption
    <2>6. SessionsStay
      BY UnchangedStay DEF UpdateProfile
    <2>7. y.enabled => y.hash # 0
      BY <2>1 DEF UsersInv, EnabledHasIdentity
    <2>8. ~y.exists => y.hash = 0
      BY <2>1 DEF UsersInv
    <2>9. \A v \in Users \ {u} : users[v].name # n
      BY <1>1 DEF NameIsFree
    <2>10. TypeOK' /\ UsersInv' /\ TokensInv' /\ Lasting
      <3>1. UNCHANGED <<now, tokens, keyStatus, workload>>
        BY DEF UpdateProfile
      <3>. QED
        BY <2>1, <2>3, <2>4, <2>5, <2>6, <2>7, <2>8, <2>9, <3>1, UserStep
    <2>11. \A v \in Users : users'[v] = IF v = u THEN x ELSE users[v]
      BY <2>4, UserUpdated
    <2>12. SessionsInv'
      BY <2>1, <2>3, <2>6, <2>11, SessionsCarry
    <2>13. NobodyEnabled
      BY <2>1, <2>3, <2>11 DEF NobodyEnabled
    <2>14. RequestsInv'
      BY <2>10, <2>13, RequestEnds DEF UpdateProfile
    <2>. QED
      BY <2>10, <2>12, <2>14 DEF AccountsInv
  <1>2. CASE ~(NameIsFree(u, n) /\ ProfileReadable(u))
    BY <1>2, DoneKeeps DEF UpdateProfile
  <1>. QED
    BY <1>1, <1>2

\* A user who has a password gets a new one, and all sessions end but those kept.
LEMMA PasswordStep ==
    ASSUME AccountsInv, NEW u \in Users, NEW keeper \in 0..MaxSessions, NEW kept,
           kept \subseteq {keeper},
           users[u].enabled, users[u].hash < MaxPasswords,
           users' = NewPassword(u, keeper), sessions' = Revoked(u, kept),
           UNCHANGED <<now, keyStatus, workload>>
    PROVE  /\ SessionsStay /\ SessionsInv' /\ NobodyEnabled
           /\ UNCHANGED tokens => TypeOK' /\ UsersInv' /\ TokensInv' /\ Lasting
           /\ users' \in [Users -> User] /\ UsersInv'
           /\ \A v \in Users : /\ users[v].exists => users'[v].exists
                               /\ users[v].hash = 0 <=> users'[v].hash = 0
  <1>. TypeOK /\ UsersInv /\ SessionsInv
    BY DEF AccountsInv
  <1>1. PICK y \in User : y = users[u]
    BY DEF TypeOK
  <1>2. /\ y.hash \in Nat /\ y.hash + 1 \in 0..MaxPasswords /\ y.hash # 0
        /\ y.name # None /\ y.exists /\ y.enabled
    <2>1. y.name # None /\ y.hash # 0 /\ y.enabled
      BY <1>1 DEF UsersInv, EnabledHasIdentity
    <2>2. y.exists
      BY <1>1, <2>1 DEF UsersInv
    <2>3. y.hash \in Nat /\ y.hash + 1 \in 0..MaxPasswords
      BY <1>1, Columns, AccountsAssumption
    <2>. QED
      BY <2>1, <2>2, <2>3
  <1>3. PICK x \in User : x = [y EXCEPT !.hash = @ + 1, !.keeper = keeper]
    BY <1>2 DEF User
  <1>4. /\ x.name = y.name /\ x.exists = y.exists /\ x.hash = y.hash + 1
        /\ x.enabled = y.enabled /\ x.keeper = keeper
    BY <1>3 DEF User
  <1>5. users' = [users EXCEPT ![u] = x]
    BY <1>1, <1>3 DEF NewPassword, TypeOK
  <1>6. /\ SessionsStay
        /\ \A i \in DOMAIN sessions :
             sessions[i].user = u /\ i \notin kept => sessions'[i].revoked
    BY RevokedStays
  <1>7. x.hash # 0
    BY <1>2, <1>4
  <1>8. /\ users' \in [Users -> User]
        /\ \A v \in Users : users'[v] = IF v = u THEN x ELSE users[v]
    BY <1>5, UserUpdated
  <1>9. \A v \in Users \ {u} : users[v].name # x.name
    BY <1>1, <1>2, <1>4 DEF UsersInv, EnabledHasIdentity
  <1>10. UNCHANGED tokens => TypeOK' /\ UsersInv' /\ TokensInv' /\ Lasting
    BY <1>1, <1>2, <1>4, <1>5, <1>6, <1>7, <1>9, UserStep
  <1>11. UsersInv'
    BY <1>1, <1>2, <1>4, <1>5, <1>7, <1>9, UserRowStep
  <1>12. DOMAIN sessions' = DOMAIN sessions
    BY <1>6 DEF SessionsStay, TypeOK
  <1>13. SessionsInv'
    <2>1. ASSUME NEW i \in DOMAIN sessions
          PROVE  /\ ~sessions'[i].revoked =>
                       \/ sessions'[i].born = users'[sessions'[i].user].hash
                       \/ users'[sessions'[i].user].keeper = i
                 /\ users'[sessions'[i].user].hash # 0
      <3>1. sessions[i].user \in Users /\ sessions'[i].user = sessions[i].user
        BY <1>6, Columns DEF SessionsStay
      <3>2. CASE sessions[i].user = u
        BY <1>4, <1>6, <1>7, <1>8, <3>1, <3>2
      <3>3. CASE sessions[i].user # u
        <4>1. users'[sessions[i].user] = users[sessions[i].user]
          BY <1>8, <3>1, <3>3
        <4>. QED
          BY <1>6, <3>1, <4>1 DEF SessionsStay, SessionsInv, OldSessionsEnd
      <3>. QED
        BY <3>2, <3>3
    <2>. QED
      BY <1>12, <2>1 DEF SessionsInv, OldSessionsEnd
  <1>14. NobodyEnabled
    BY <1>1, <1>4, <1>8 DEF NobodyEnabled
  <1>15. \A v \in Users : /\ users[v].exists => users'[v].exists
                          /\ users[v].hash = 0 <=> users'[v].hash = 0
    BY <1>1, <1>2, <1>4, <1>7, <1>8
  <1>. QED
    BY <1>6, <1>8, <1>10, <1>11, <1>13, <1>14, <1>15

\* A new password revokes every session but the one it came with.
LEMMA StorePasswordKeeps ==
    ASSUME AccountsInv, NEW r \in Requests, StorePassword(r)
    PROVE  AccountsInv'
  <1>. req[r].step \in SessionSteps /\ TypeOK
    BY DEF StorePassword, SessionSteps, AuthenticatedSteps, AccountsInv
  <1>. PICK i \in DOMAIN sessions : i = req[r].session
    BY OwnSession
  <1>. PICK u \in Users : u = sessions[i].user
    BY OwnSession
  <1>1. CASE users[u].enabled
    <2>1. /\ users' = NewPassword(u, i) /\ sessions' = Revoked(u, {i})
          /\ users[u].hash < MaxPasswords
          /\ UNCHANGED <<now, tokens, keyStatus, workload>> /\ Goto(r, Idle)
      BY <1>1 DEF StorePassword
    <2>2. i \in 0..MaxSessions
      BY Columns
    <2>3. /\ TypeOK' /\ UsersInv' /\ TokensInv' /\ SessionsInv'
          /\ Lasting /\ NobodyEnabled
      BY <1>1, <2>1, <2>2, PasswordStep
    <2>4. RequestsInv'
      BY <2>1, <2>3, RequestEnds
    <2>. QED
      BY <2>3, <2>4 DEF AccountsInv
  <1>2. CASE ~users[u].enabled
    BY <1>2, DoneKeeps DEF StorePassword
  <1>. QED
    BY <1>1, <1>2

-----------------------------------------------------------------------------
(* One-time tokens                                                         *)

\* One token gets another row.
LEMMA TokenUpdated ==
    ASSUME TypeOK, NEW t \in DOMAIN tokens, NEW x \in Token,
           tokens' = [tokens EXCEPT ![t] = x]
    PROVE  /\ tokens' \in Seq(Token) /\ Len(tokens') = Len(tokens)
           /\ DOMAIN tokens' = DOMAIN tokens
           /\ \A o \in DOMAIN tokens : tokens'[o] = IF o = t THEN x ELSE tokens[o]
  <1>1. tokens \in Seq(Token)
    BY DEF TypeOK
  <1>. QED
    BY <1>1

\* The link reaches its user, or does not.
LEMMA SendLinkKeeps ==
    ASSUME AccountsInv, NEW r \in Requests, SendLink(r)
    PROVE  AccountsInv'
  <1>. TypeOK /\ TokensInv /\ req[r].step = "send" /\ RequestOK(r)
    BY DEF AccountsInv, RequestsInv, SendLink
  <1>. UNCHANGED <<now, users, sessions, keyStatus, workload>> /\ Goto(r, Idle)
    BY DEF SendLink
  <1>. PICK t \in DOMAIN tokens : t = req[r].token
    BY DEF RequestOK
  <1>1. PICK sent \in BOOLEAN : tokens' = [tokens EXCEPT ![t].known = sent]
    BY DEF SendLink
  <1>2. PICK y \in Token : y = tokens[t]
    BY Columns
  <1>3. PICK x \in Token : x = [y EXCEPT !.known = sent]
    BY DEF Token
  <1>4. /\ x.user = y.user /\ x.purpose = y.purpose /\ x.consumed = y.consumed
        /\ x.spent = y.spent
    BY <1>3 DEF Token
  <1>5. tokens' = [tokens EXCEPT ![t] = x]
    BY <1>1, <1>2, <1>3
  <1>6. /\ tokens' \in Seq(Token) /\ Len(tokens') = Len(tokens)
        /\ DOMAIN tokens' = DOMAIN tokens
        /\ \A o \in DOMAIN tokens : tokens'[o] = IF o = t THEN x ELSE tokens[o]
    BY <1>5, TokenUpdated
  <1>7. \A o \in DOMAIN tokens :
          /\ tokens'[o].user = tokens[o].user
          /\ tokens'[o].purpose = tokens[o].purpose
          /\ tokens'[o].consumed = tokens[o].consumed
          /\ tokens'[o].spent = tokens[o].spent
    BY <1>2, <1>4, <1>6
  <1>8. TypeOK'
    BY <1>6 DEF TypeOK
  <1>9. TokensInv'
    BY <1>6, <1>7 DEF TokensInv, LinkWorksOnce, Open
  <1>10. UsersInv' /\ SessionsInv'
    BY UsersCarry, SessionsCarry, UnchangedStay
  <1>11. Lasting /\ NobodyEnabled
    BY <1>6, Columns DEF Lasting, NobodyEnabled
  <1>12. RequestsInv'
    BY <1>11, RequestEnds
  <1>. QED
    BY <1>8, <1>9, <1>10, <1>12 DEF AccountsInv

\* A row is added to account_tokens.
LEMMA TokenAdded ==
    ASSUME NEW old \in Seq(Token), Len(old) = Len(tokens), NEW x \in Token,
           tokens' = Append(old, x)
    PROVE  /\ tokens' \in Seq(Token) /\ Len(tokens') = Len(tokens) + 1
           /\ DOMAIN tokens' = DOMAIN old \cup {Len(tokens) + 1}
           /\ \A t \in DOMAIN old : t < Len(tokens) + 1 /\ tokens'[t] = old[t]
           /\ tokens'[Len(tokens) + 1] = x
  OBVIOUS

\* A new token is open and unused.
LEMMA NewTokenOK ==
    ASSUME TypeOK, NEW u \in Users, NEW p \in Purposes
    PROVE  /\ NewToken(u, p) \in Token
           /\ NewToken(u, p).user = u /\ NewToken(u, p).purpose = p
           /\ ~NewToken(u, p).consumed /\ NewToken(u, p).spent = 0
  <1>1. PICK e \in Nat : e = now + TokenLife[p]
    BY Columns, AccountsAssumption
  <1>. QED
    BY <1>1 DEF NewToken, Token

\* The request that created a token goes on to send it.
LEMMA SendNext ==
    ASSUME AccountsInv, Lasting, NobodyEnabled, NEW r \in Requests,
           NEW n \in Nat, n \in DOMAIN tokens',
           Goto(r, [step |-> "send", token |-> n])
    PROVE  RequestsInv'
  <1>1. PICK q \in Request : q = [step |-> "send", token |-> n]
    BY NewRequests
  <1>2. req' = [req EXCEPT ![r] = q] /\ req'[r] = q
    BY <1>1 DEF Goto, AccountsInv, RequestsInv
  <1>3. RequestOK(r)'
    BY <1>1, <1>2 DEF RequestOK, SessionSteps, AuthenticatedSteps, Handlers
  <1>. QED
    BY <1>2, <1>3, RequestsStep

\* The older links of the user are closed by the transaction that adds one:
\* whatever was committed since the UPDATE is seen by the unique index.
LEMMA InsertTokenKeeps ==
    ASSUME AccountsInv, NEW r \in Requests, InsertToken(r)
    PROVE  AccountsInv'
  <1>. TypeOK /\ TokensInv /\ req[r].step = "insert" /\ req[r] \in Request
    BY DEF AccountsInv, RequestsInv, InsertToken
  <1>. UNCHANGED <<now, users, sessions, keyStatus, workload>>
       /\ Len(tokens) < MaxTokens
    BY DEF InsertToken
  <1>. PICK u \in Users : u = req[r].user
    BY RequestFields
  <1>. PICK c : c = req[r].consumes
    OBVIOUS
  <1>1. CASE OneOpen(u, "password_reset", c)
    <2>1. PICK n \in Nat : n = Len(tokens) + 1
      BY Columns
    <2>2. PICK old : old = [t \in DOMAIN tokens |->
                              IF t \in c THEN [tokens[t] EXCEPT !.consumed = TRUE]
                              ELSE tokens[t]]
      OBVIOUS
    <2>3. PICK x : x = NewToken(u, "password_reset")
      OBVIOUS
    <2>4. /\ x \in Token /\ x.user = u /\ x.purpose = "password_reset"
          /\ ~x.consumed /\ x.spent = 0
      BY <2>3, NewTokenOK DEF Purposes
    <2>5. tokens' = Append(old, x) /\ Goto(r, [step |-> "send", token |-> n])
      BY <1>1, <2>1, <2>2, <2>3 DEF InsertToken
    <2>6. ASSUME NEW t \in DOMAIN tokens
          PROVE  /\ old[t] \in Token
                 /\ old[t].user = tokens[t].user
                 /\ old[t].purpose = tokens[t].purpose
                 /\ old[t].spent = tokens[t].spent
                 /\ old[t].consumed <=> tokens[t].consumed \/ t \in c
      <3>1. PICK y \in Token : y = tokens[t]
        BY Columns
      <3>2. old[t] = IF t \in c THEN [y EXCEPT !.consumed = TRUE] ELSE y
        BY <2>2, <3>1
      <3>3. y.consumed \in BOOLEAN
        BY <3>1, Columns
      <3>. QED
        BY <3>1, <3>2, <3>3 DEF Token
    <2>7. DOMAIN old = 1..Len(tokens) /\ Len(tokens) \in Nat /\ DOMAIN tokens = DOMAIN old
      BY <2>2, Columns
    <2>8. old = [t \in 1..Len(tokens) |-> old[t]]
      BY <2>2, <2>7
    <2>9. old \in Seq(Token) /\ Len(old) = Len(tokens)
      BY <2>6, <2>7, <2>8
    <2>10. /\ tokens' \in Seq(Token) /\ Len(tokens') = n
           /\ DOMAIN tokens' = DOMAIN tokens \cup {n}
           /\ \A t \in DOMAIN tokens : t < n /\ tokens'[t] = old[t]
           /\ tokens'[n] = x
      BY <2>1, <2>4, <2>5, <2>7, <2>9, TokenAdded
    <2>11. TypeOK'
      BY <2>1, <2>10, AccountsAssumption, Columns DEF TypeOK
    <2>12. LinkWorksOnce'
      <3>1. ASSUME NEW t \in DOMAIN tokens'
            PROVE  tokens'[t].spent <= 1
        BY <2>4, <2>6, <2>10 DEF TokensInv, LinkWorksOnce
      <3>2. ASSUME NEW t \in DOMAIN tokens', NEW o \in DOMAIN tokens', t < o,
                   tokens'[t].user = tokens'[o].user,
                   tokens'[t].purpose = tokens'[o].purpose
            PROVE  tokens'[t].consumed
        <4>1. t \in DOMAIN tokens
          BY <2>10, <3>2, Columns
        <4>2. CASE o \in DOMAIN tokens
          <5>1. tokens[t].consumed
            BY <2>6, <2>10, <3>2, <4>1, <4>2 DEF TokensInv, LinkWorksOnce, Open
          <5>. QED
            BY <2>6, <2>10, <4>1, <5>1
        <4>3. CASE o = n
          <5>1. tokens[t].user = u /\ tokens[t].purpose = "password_reset"
            BY <2>4, <2>6, <2>10, <3>2, <4>1, <4>3
          <5>2. tokens[t].consumed \/ t \in c
            BY <1>1, <4>1, <5>1 DEF OneOpen, OpenOf, Open
          <5>. QED
            BY <2>6, <2>10, <4>1, <5>2
        <4>. QED
          BY <2>10, <4>2, <4>3
      <3>. QED
        BY <3>1, <3>2 DEF LinkWorksOnce, Open
    <2>13. ASSUME NEW t \in DOMAIN tokens'
           PROVE  /\ tokens'[t].spent # 0 => tokens'[t].consumed
                  /\ tokens'[t].purpose = "invitation" => users[tokens'[t].user].exists
                  /\ tokens'[t].purpose = "invitation" /\ ~tokens'[t].consumed
                       => users[tokens'[t].user].hash = 0
      <3>1. CASE t \in DOMAIN tokens
        BY <2>6, <2>10, <3>1 DEF TokensInv, Open
      <3>2. CASE t = n
        BY <2>4, <2>10, <3>2
      <3>. QED
        BY <2>10, <3>1, <3>2
    <2>14. TokensInv'
      BY <2>12, <2>13 DEF TokensInv, Open
    <2>15. UsersInv' /\ SessionsInv'
      BY UsersCarry, SessionsCarry, UnchangedStay
    <2>16. Lasting /\ NobodyEnabled
      BY <2>10, Columns DEF Lasting, NobodyEnabled
    <2>17. RequestsInv'
      BY <2>5, <2>10, <2>16, SendNext
    <2>. QED
      BY <2>11, <2>14, <2>15, <2>17 DEF AccountsInv
  <1>2. CASE ~OneOpen(u, "password_reset", c)
    BY <1>2, DoneKeeps DEF InsertToken
  <1>. QED
    BY <1>1, <1>2

\* Using an open token closes it.
LEMMA SpentRow ==
    ASSUME TypeOK, TokensInv, NEW t \in DOMAIN tokens, Open(t), tokens' = Spent(t)
    PROVE  /\ tokens' \in Seq(Token) /\ Len(tokens') = Len(tokens)
           /\ DOMAIN tokens' = DOMAIN tokens
           /\ \A o \in DOMAIN tokens :
                /\ tokens'[o].user = tokens[o].user
                /\ tokens'[o].purpose = tokens[o].purpose
                /\ tokens'[o].consumed <=> tokens[o].consumed \/ o = t
                /\ tokens'[o].spent = IF o = t THEN 1 ELSE tokens[o].spent
  <1>1. PICK y \in Token : y = tokens[t]
    BY Columns
  <1>2. y.spent = 0 /\ ~y.consumed
    BY <1>1 DEF TokensInv, Open
  <1>3. PICK x \in Token : x = [y EXCEPT !.consumed = TRUE, !.spent = 1]
    <2>1. 1 \in 0..2
      OBVIOUS
    <2>2. [y EXCEPT !.consumed = TRUE, !.spent = 1] \in Token
      BY <2>1 DEF Token
    <2>. QED
      BY <2>2
  <1>4. /\ x.user = y.user /\ x.purpose = y.purpose /\ x.consumed /\ x.spent = 1
    BY <1>3 DEF Token
  <1>5. Least(y.spent + 1, 2) = 1
    BY <1>2 DEF Least
  <1>6. tokens' = [tokens EXCEPT ![t] = x]
    BY <1>1, <1>3, <1>5 DEF Spent
  <1>7. /\ tokens' \in Seq(Token) /\ Len(tokens') = Len(tokens)
        /\ DOMAIN tokens' = DOMAIN tokens
        /\ \A o \in DOMAIN tokens : tokens'[o] = IF o = t THEN x ELSE tokens[o]
    BY <1>6, TokenUpdated
  <1>8. \A o \in DOMAIN tokens : tokens[o].consumed \in BOOLEAN
    BY Columns
  <1>. QED
    BY <1>1, <1>4, <1>7, <1>8

\* Spending an open token keeps the tokens sound, when the passwords agree.
LEMMA SpentKeeps ==
    ASSUME TypeOK, TokensInv, NEW t \in DOMAIN tokens, Open(t), tokens' = Spent(t),
           \A u \in Users : users[u].exists => users'[u].exists,
           \A o \in DOMAIN tokens \ {t} :
             tokens[o].purpose = "invitation" /\ Open(o)
               => users'[tokens[o].user].hash = 0
    PROVE  TokensInv'
  <1>1. /\ DOMAIN tokens' = DOMAIN tokens
        /\ \A o \in DOMAIN tokens :
             /\ tokens'[o].user = tokens[o].user
             /\ tokens'[o].purpose = tokens[o].purpose
             /\ tokens'[o].consumed <=> tokens[o].consumed \/ o = t
             /\ tokens'[o].spent = IF o = t THEN 1 ELSE tokens[o].spent
    BY SpentRow
  <1>2. LinkWorksOnce'
    <2>1. ASSUME NEW o \in DOMAIN tokens'
          PROVE  tokens'[o].spent <= 1
      BY <1>1 DEF TokensInv, LinkWorksOnce
    <2>2. ASSUME NEW o \in DOMAIN tokens', NEW p \in DOMAIN tokens', o < p,
                 tokens'[o].user = tokens'[p].user,
                 tokens'[o].purpose = tokens'[p].purpose
          PROVE  tokens'[o].consumed
      BY <1>1, <2>2 DEF TokensInv, LinkWorksOnce, Open
    <2>. QED
      BY <2>1, <2>2 DEF LinkWorksOnce, Open
  <1>3. ASSUME NEW o \in DOMAIN tokens'
        PROVE  /\ tokens'[o].spent # 0 => tokens'[o].consumed
               /\ tokens'[o].purpose = "invitation" => users'[tokens'[o].user].exists
               /\ tokens'[o].purpose = "invitation" /\ ~tokens'[o].consumed
                    => users'[tokens'[o].user].hash = 0
    <2>1. tokens[o].user \in Users
      BY <1>1, Columns
    <2>. QED
      BY <1>1, <2>1 DEF TokensInv, Open
  <1>. QED
    BY <1>2, <1>3 DEF TokensInv, Open

\* A reset spends its link and revokes every session of the user.
LEMMA ResetPasswordKeeps ==
    ASSUME AccountsInv, NEW t \in DOMAIN tokens, ResetPassword(t)
    PROVE  AccountsInv'
  <1>. TypeOK /\ TokensInv
    BY DEF AccountsInv
  <1>. PICK u \in Users : u = tokens[t].user
    BY Columns
  <1>1. /\ users[u].enabled /\ users[u].hash < MaxPasswords
        /\ users' = NewPassword(u, 0) /\ sessions' = Revoked(u, {})
        /\ tokens' = Spent(t) /\ Open(t)
        /\ UNCHANGED <<now, keyStatus, req, workload>>
    BY DEF ResetPassword, Usable
  <1>2. 0 \in 0..MaxSessions
    BY AccountsAssumption
  <1>3. /\ SessionsStay /\ SessionsInv' /\ NobodyEnabled
        /\ users' \in [Users -> User] /\ UsersInv'
        /\ \A v \in Users : /\ users[v].exists => users'[v].exists
                            /\ users[v].hash = 0 <=> users'[v].hash = 0
    BY <1>1, <1>2, PasswordStep
  <1>4. /\ tokens' \in Seq(Token) /\ Len(tokens') = Len(tokens)
        /\ DOMAIN tokens' = DOMAIN tokens
    BY <1>1, SpentRow
  <1>5. TypeOK'
    BY <1>1, <1>3, <1>4 DEF TypeOK, SessionsStay
  <1>6. TokensInv'
    <2>1. \A o \in DOMAIN tokens : tokens[o].user \in Users
      BY Columns
    <2>2. \A o \in DOMAIN tokens \ {t} :
             tokens[o].purpose = "invitation" /\ Open(o)
               => users'[tokens[o].user].hash = 0
      BY <1>3, <2>1 DEF TokensInv
    <2>. QED
      BY <1>1, <1>3, <2>2, SpentKeeps
  <1>7. Lasting
    <2>1. DOMAIN sessions' = DOMAIN sessions
      BY <1>3 DEF SessionsStay, TypeOK
    <2>. QED
      BY <1>1, <1>3, <1>4, <2>1, Columns DEF Lasting, SessionsStay
  <1>8. RequestsInv'
    BY <1>1, <1>3, <1>7, RequestsUnchanged
  <1>. QED
    BY <1>3, <1>5, <1>6, <1>8 DEF AccountsInv

-----------------------------------------------------------------------------
(* Invitations and administration                                          *)

\* An account that does not exist yet has neither password nor token.
LEMMA InviteKeeps ==
    ASSUME AccountsInv, NEW r \in Requests, NEW u \in Users, Invite(r, u)
    PROVE  AccountsInv'
  <1>. TypeOK /\ TokensInv /\ UsersInv
    BY DEF AccountsInv
  <1>. UNCHANGED <<now, sessions, keyStatus, workload>> /\ Len(tokens) < MaxTokens
    BY DEF Invite
  <1>1. CASE ~users[u].exists /\ MayInvite(sessions[req[r].session].user, u)
    <2>1. PICK n \in Nat : n = Len(tokens) + 1
      BY Columns
    <2>2. PICK x : x = NewToken(u, "invitation")
      OBVIOUS
    <2>3. /\ x \in Token /\ x.user = u /\ x.purpose = "invitation"
          /\ ~x.consumed /\ x.spent = 0
      BY <2>2, NewTokenOK DEF Purposes
    <2>4. /\ users' = [users EXCEPT ![u].exists = TRUE]
          /\ tokens' = Append(tokens, x) /\ Goto(r, [step |-> "send", token |-> n])
      BY <1>1, <2>1, <2>2 DEF Invite
    <2>5. PICK z \in User : z = users[u]
      BY DEF TypeOK
    <2>6. PICK y \in User : y = [z EXCEPT !.exists = TRUE]
      BY DEF User
    <2>7. /\ y.exists /\ y.enabled = z.enabled /\ y.name = z.name
          /\ y.hash = z.hash /\ y.keeper = z.keeper
      BY <2>6 DEF User
    <2>8. users' = [users EXCEPT ![u] = y]
      BY <2>4, <2>5, <2>6
    <2>9. /\ users' \in [Users -> User]
          /\ \A v \in Users : users'[v] = IF v = u THEN y ELSE users[v]
      BY <2>8, UserUpdated
    <2>10. \A v \in Users :
             /\ users[v].exists => users'[v].exists
             /\ users'[v].enabled = users[v].enabled
             /\ users'[v].hash = users[v].hash /\ users'[v].keeper = users[v].keeper
      BY <2>5, <2>7, <2>9
    <2>11. UsersInv'
      <3>1. /\ z.enabled => z.name # None /\ z.hash # 0
            /\ z.name # None => \A v \in Users \ {u} : users[v].name # z.name
        BY <2>5 DEF UsersInv, EnabledHasIdentity
      <3>. QED
        BY <2>7, <2>8, <3>1, UserRowStep
    <2>12. tokens \in Seq(Token)
      BY DEF TypeOK
    <2>13. /\ tokens' \in Seq(Token) /\ Len(tokens') = n
           /\ DOMAIN tokens' = DOMAIN tokens \cup {n}
           /\ \A t \in DOMAIN tokens : t < n /\ tokens'[t] = tokens[t]
           /\ tokens'[n] = x
      BY <2>1, <2>3, <2>4, <2>12, TokenAdded
    <2>14. TypeOK'
      BY <2>1, <2>9, <2>13, AccountsAssumption, Columns DEF TypeOK
    <2>15. SessionsInv'
      BY <2>10, SessionsCarry, UnchangedStay
    <2>16. users[u].hash = 0
      BY <1>1 DEF UsersInv
    <2>17. \A t \in DOMAIN tokens :
             /\ tokens[t].user \in Users
             /\ tokens[t].purpose = "invitation" => tokens[t].user # u
      BY <1>1, Columns DEF TokensInv
    <2>18. LinkWorksOnce'
      <3>1. ASSUME NEW t \in DOMAIN tokens'
            PROVE  tokens'[t].spent <= 1
        BY <2>3, <2>13 DEF TokensInv, LinkWorksOnce
      <3>2. ASSUME NEW t \in DOMAIN tokens', NEW o \in DOMAIN tokens', t < o,
                   tokens'[t].user = tokens'[o].user,
                   tokens'[t].purpose = tokens'[o].purpose
            PROVE  tokens'[t].consumed
        <4>1. t \in DOMAIN tokens
          BY <2>13, <3>2, Columns
        <4>2. o # n
          BY <2>3, <2>13, <2>17, <3>2, <4>1
        <4>3. o \in DOMAIN tokens
          BY <2>13, <4>2
        <4>. QED
          BY <2>13, <3>2, <4>1, <4>3 DEF TokensInv, LinkWorksOnce, Open
      <3>. QED
        BY <3>1, <3>2 DEF LinkWorksOnce, Open
    <2>19. ASSUME NEW t \in DOMAIN tokens'
           PROVE  /\ tokens'[t].spent # 0 => tokens'[t].consumed
                  /\ tokens'[t].purpose = "invitation" => users'[tokens'[t].user].exists
                  /\ tokens'[t].purpose = "invitation" /\ ~tokens'[t].consumed
                       => users'[tokens'[t].user].hash = 0
      <3>1. CASE t \in DOMAIN tokens
        BY <2>10, <2>13, <2>17, <3>1 DEF TokensInv, Open
      <3>2. CASE t = n
        BY <2>3, <2>7, <2>9, <2>10, <2>13, <2>16, <3>2
      <3>. QED
        BY <2>13, <3>1, <3>2
    <2>20. TokensInv'
      BY <2>18, <2>19 DEF TokensInv, Open
    <2>21. Lasting /\ NobodyEnabled
      BY <2>10, <2>13, Columns DEF Lasting, NobodyEnabled
    <2>22. RequestsInv'
      BY <2>4, <2>13, <2>21, SendNext
    <2>. QED
      BY <2>11, <2>14, <2>15, <2>20, <2>22 DEF AccountsInv
  <1>2. CASE ~(~users[u].exists /\ MayInvite(sessions[req[r].session].user, u))
    BY <1>2, DoneKeeps DEF Invite
  <1>. QED
    BY <1>1, <1>2

\* The account gets its first password: it has no session to revoke and no
\* other open invitation.
LEMMA AcceptInvitationKeeps ==
    ASSUME AccountsInv, NEW t \in DOMAIN tokens, NEW n \in Names,
           AcceptInvitation(t, n)
    PROVE  AccountsInv'
  <1>. TypeOK /\ TokensInv /\ UsersInv /\ SessionsInv
    BY DEF AccountsInv
  <1>. PICK u \in Users : u = tokens[t].user
    BY Columns
  <1>1. /\ tokens[t].purpose = "invitation" /\ Open(t) /\ tokens' = Spent(t)
        /\ NameIsFree(u, n)
        /\ users' = [NewPassword(u, 0) EXCEPT ![u].name = n, ![u].enabled = TRUE]
        /\ UNCHANGED <<now, sessions, keyStatus, req, workload>>
    BY DEF AcceptInvitation, Usable
  <1>2. users[u].hash = 0 /\ users[u].exists
    BY <1>1 DEF TokensInv
  <1>3. n # None
    BY AccountsAssumption
  <1>4. PICK z \in User : z = users[u]
    BY DEF TypeOK
  <1>5. PICK y \in User :
          y = [z EXCEPT !.hash = 1, !.keeper = 0, !.name = n, !.enabled = TRUE]
    <2>1. 1 \in 0..MaxPasswords /\ 0 \in 0..MaxSessions
      BY AccountsAssumption
    <2>2. [z EXCEPT !.hash = 1, !.keeper = 0, !.name = n, !.enabled = TRUE] \in User
      BY <2>1 DEF User
    <2>. QED
      BY <2>2
  <1>6. /\ y.exists = z.exists /\ y.enabled /\ y.name = n
        /\ y.hash = 1 /\ y.keeper = 0
    BY <1>5 DEF User
  <1>7. users' = [users EXCEPT ![u] = y]
    <2>1. z.hash + 1 = 1
      BY <1>2, <1>4
    <2>. QED
      BY <1>1, <1>4, <1>5, <2>1 DEF NewPassword, TypeOK
  <1>8. /\ users' \in [Users -> User]
        /\ \A v \in Users : users'[v] = IF v = u THEN y ELSE users[v]
    BY <1>7, UserUpdated
  <1>9. UsersInv'
    BY <1>1, <1>2, <1>3, <1>4, <1>6, <1>7, UserRowStep DEF NameIsFree
  <1>10. /\ tokens' \in Seq(Token) /\ Len(tokens') = Len(tokens)
         /\ DOMAIN tokens' = DOMAIN tokens
    BY <1>1, SpentRow
  <1>11. TypeOK'
    BY <1>1, <1>8, <1>10 DEF TypeOK
  <1>12. SessionsInv'
    <2>1. ASSUME NEW i \in DOMAIN sessions
          PROVE  users'[sessions[i].user] = users[sessions[i].user]
      <3>1. sessions[i].user \in Users /\ users[sessions[i].user].hash # 0
        BY Columns DEF SessionsInv
      <3>. QED
        BY <1>2, <1>8, <3>1
    <2>. QED
      BY <1>1, <2>1 DEF SessionsInv, OldSessionsEnd
  <1>13. TokensInv'
    <2>1. \A v \in Users : users[v].exists => users'[v].exists
      BY <1>4, <1>6, <1>8
    <2>2. ASSUME NEW o \in DOMAIN tokens \ {t},
                 tokens[o].purpose = "invitation", Open(o)
          PROVE  users'[tokens[o].user].hash = 0
      <3>1. tokens[o].user \in Users /\ o \in Nat /\ t \in Nat
        BY Columns
      <3>2. tokens[o].user # u
        BY <1>1, <2>2, <3>1 DEF TokensInv, LinkWorksOnce
      <3>. QED
        BY <1>8, <2>2, <3>1, <3>2 DEF TokensInv
    <2>. QED
      BY <1>1, <2>1, <2>2, SpentKeeps
  <1>14. Lasting /\ NobodyEnabled
    BY <1>1, <1>2, <1>6, <1>8, <1>10, Columns DEF Lasting, NobodyEnabled
  <1>15. RequestsInv'
    BY <1>1, <1>14, RequestsUnchanged
  <1>. QED
    BY <1>9, <1>11, <1>12, <1>13, <1>15 DEF AccountsInv

\* A user is enabled or disabled: whoever carries "disabled" for that user
\* as a reason loses it, and nobody else is concerned.
LEMMA UpdateUserKeeps ==
    ASSUME AccountsInv, NEW r \in Requests, NEW u \in Users, NEW value \in BOOLEAN,
           UpdateUser(r, u, value)
    PROVE  AccountsInv'
  <1>. TypeOK /\ UsersInv /\ RequestsInv /\ req \in [Requests -> Request]
    BY DEF AccountsInv, RequestsInv
  <1>. UNCHANGED <<now, tokens, sessions, keyStatus, workload>>
    BY DEF UpdateUser
  <1>1. PICK allowed \in BOOLEAN :
          allowed = (/\ users[u].exists
                     /\ MayAdminister(sessions[req[r].session].user, u)
                     /\ value => MayEnable(u))
    OBVIOUS
  <1>2. /\ users' = IF allowed THEN [users EXCEPT ![u].enabled = value] ELSE users
        /\ req' = [q \in Requests |->
             IF q = r THEN Idle
             ELSE IF allowed /\ "dead" \in DOMAIN req[q]
                       /\ sessions[req[q].session].user = u
             THEN [req[q] EXCEPT !.dead = @ \ {"disabled"}] ELSE req[q]]
    BY <1>1 DEF UpdateUser
  <1>3. CASE ~allowed
    <2>1. users' = users
      BY <1>2, <1>3
    <2>2. req' = [req EXCEPT ![r] = Idle]
      BY <1>2, <1>3
    <2>. QED
      BY <2>1, <2>2, DoneKeeps DEF Goto
  <1>4. CASE allowed
    <2>1. PICK z \in User : z = users[u]
      BY DEF TypeOK
    <2>2. PICK y \in User : y = [z EXCEPT !.enabled = value]
      BY DEF User
    <2>3. /\ y.exists = z.exists /\ y.enabled = value /\ y.name = z.name
          /\ y.hash = z.hash /\ y.keeper = z.keeper
      BY <2>2 DEF User
    <2>4. users' = [users EXCEPT ![u] = y]
      BY <1>2, <1>4, <2>1, <2>2
    <2>5. \A v \in Users : users'[v] = IF v = u THEN y ELSE users[v]
      BY <2>4, UserUpdated
    <2>6. value => z.name # None /\ z.hash # 0
      BY <1>1, <1>4, <2>1 DEF MayEnable
    <2>7. SessionsStay
      BY UnchangedStay
    <2>8. TypeOK' /\ UsersInv' /\ TokensInv' /\ Lasting
      <3>1. /\ ~z.exists => z.hash = 0
            /\ z.name # None => \A v \in Users \ {u} : users[v].name # z.name
        BY <2>1 DEF UsersInv, EnabledHasIdentity
      <3>. QED
        BY <2>1, <2>3, <2>4, <2>6, <2>7, <3>1, UserStep
    <2>9. SessionsInv'
      BY <2>1, <2>3, <2>5, <2>7, SessionsCarry
    <2>10. ASSUME NEW q \in Requests
           PROVE  req'[q] \in Request /\ RequestOK(q)'
      <3>. req[q] \in Request /\ RequestOK(q)
        BY DEF RequestsInv
      <3>1. CASE q = r
        <4>1. req'[q] = Idle
          BY <1>2, <3>1
        <4>. QED
          BY <4>1, IdleIsOK, NewRequests
      <3>2. CASE /\ q # r /\ "dead" \in DOMAIN req[q]
                 /\ sessions[req[q].session].user = u
        <4>1. req'[q] = [req[q] EXCEPT !.dead = @ \ {"disabled"}]
          BY <1>2, <1>4, <3>2
        <4>2. /\ req'[q] \in Request /\ req[q].step \in AuthenticatedSteps
              /\ req'[q].step = req[q].step /\ req'[q].session = req[q].session
              /\ req'[q].dead = req[q].dead \ {"disabled"}
          BY <3>2, <4>1, RequestForgets
        <4>3. PICK i \in DOMAIN sessions : i = req[q].session
          BY <4>2 DEF RequestOK, SessionSteps
        <4>4. ASSUME req[q].step = "read"
              PROVE  (req[q].dead \subseteq Reasons(req[q].session))'
          <5>1. req[q].dead \subseteq Reasons(i)
            BY <4>3, <4>4 DEF RequestOK
          <5>2. req[q].dead \ {"disabled"} \subseteq Reasons(i)'
            BY <2>8, <5>1, ReasonsLast
          <5>3. req'[q].dead \subseteq Reasons(i)'
            BY <4>2, <5>2
          <5>. QED
            BY <4>2, <4>3, <5>3 DEF Reasons
        <4>. QED
          BY <4>2, <4>3, <4>4
          DEF RequestOK, AuthenticatedSteps, Handlers, SessionSteps
      <3>3. CASE q # r /\ "dead" \notin DOMAIN req[q]
        <4>1. req'[q] = req[q]
          BY <1>2, <3>3
        <4>2. req[q].step \notin AuthenticatedSteps
          BY <3>3, RequestFields
        <4>3. req[q].step = "issue" => users'[req[q].user].hash # 0
          BY <2>8, RequestFields DEF RequestOK, Lasting
        <4>. QED
          BY <4>1, <4>2, <4>3 DEF RequestOK, AuthenticatedSteps
      <3>4. CASE /\ q # r /\ "dead" \in DOMAIN req[q]
                 /\ sessions[req[q].session].user # u
        <4>1. req'[q] = req[q]
          BY <1>2, <3>4
        <4>2. req[q].step \in AuthenticatedSteps
          BY <3>4, RequestForgets
        <4>3. PICK i \in DOMAIN sessions : i = req[q].session
          BY <4>2 DEF RequestOK, SessionSteps
        <4>4. PICK v \in Users : v = sessions[i].user /\ v # u
          BY <3>4, <4>3, Columns
        <4>5. users'[v] = users[v]
          BY <2>5, <4>4
        <4>6. Reasons(i)' = Reasons(i)
          BY <4>4, <4>5 DEF Reasons
        <4>7. ASSUME req[q].step = "read"
              PROVE  (req[q].dead \subseteq Reasons(req[q].session))'
          <5>1. req'[q].dead \subseteq Reasons(i)'
            BY <4>1, <4>3, <4>6, <4>7 DEF RequestOK
          <5>. QED
            BY <4>1, <4>3, <5>1 DEF Reasons
        <4>. QED
          BY <4>1, <4>2, <4>3, <4>7
          DEF RequestOK, AuthenticatedSteps, Handlers, SessionSteps
      <3>. QED
        BY <3>1, <3>2, <3>3, <3>4
    <2>11. req' \in [Requests -> Request]
      <3>1. req' = [q \in Requests |-> req'[q]]
        BY <1>2
      <3>. QED
        BY <2>10, <3>1
    <2>. QED
      BY <2>8, <2>9, <2>10, <2>11 DEF AccountsInv, RequestsInv
  <1>. QED
    BY <1>3, <1>4

-----------------------------------------------------------------------------
(* Surroundings                                                            *)

\* Time passes or keys change: rows and requests stay.
LEMMA SurroundingsKeep ==
    ASSUME AccountsInv, UNCHANGED <<users, tokens, sessions, req, workload>>,
           now' \in 0..MaxTime, now <= now',
           keyStatus' \in [Keys -> KeyStatuses],
           \A k \in Keys : keyStatus[k] = "retired" => keyStatus'[k] = "retired"
    PROVE  AccountsInv'
  <1>. TypeOK
    BY DEF AccountsInv
  <1>1. TypeOK'
    BY DEF TypeOK
  <1>2. UsersInv' /\ SessionsInv' /\ TokensInv'
    BY UsersCarry, SessionsCarry, TokensCarry, UnchangedStay
  <1>3. Lasting /\ NobodyEnabled
    BY AccountsAssumption, Columns DEF Lasting, NobodyEnabled
  <1>4. RequestsInv'
    BY <1>3, RequestsUnchanged
  <1>. QED
    BY <1>1, <1>2, <1>4 DEF AccountsInv

\* Time passes and keys go out of use: reasons to refuse only grow.
LEMMA ClockAndKeysKeep ==
    ASSUME AccountsInv,
           \/ Tick
           \/ \E k, l \in Keys : RotateKeys(k, l)
           \/ \E k \in Keys : RetireKey(k)
    PROVE  AccountsInv'
  <1>. /\ now \in 0..MaxTime /\ MaxTime \in Nat
       /\ keyStatus \in [Keys -> KeyStatuses]
    BY AccountsAssumption DEF AccountsInv, TypeOK
  <1>1. CASE Tick
    BY <1>1, SurroundingsKeep DEF Tick
  <1>2. ASSUME NEW k \in Keys, NEW l \in Keys, RotateKeys(k, l)
        PROVE  AccountsInv'
    <2>1. /\ keyStatus' = [keyStatus EXCEPT ![k] = "previous", ![l] = "active"]
          /\ keyStatus[k] # "retired" /\ keyStatus[l] # "retired"
      BY <1>2 DEF RotateKeys
    <2>2. keyStatus' \in [Keys -> KeyStatuses]
      BY <2>1 DEF KeyStatuses
    <2>. QED
      BY <1>2, <2>1, <2>2, SurroundingsKeep DEF RotateKeys
  <1>3. ASSUME NEW k \in Keys, RetireKey(k)
        PROVE  AccountsInv'
    <2>1. keyStatus' = [keyStatus EXCEPT ![k] = "retired"]
      BY <1>3 DEF RetireKey
    <2>2. keyStatus' \in [Keys -> KeyStatuses]
      BY <2>1 DEF KeyStatuses
    <2>. QED
      BY <1>3, <2>1, <2>2, SurroundingsKeep DEF RetireKey
  <1>. QED
    BY <1>1, <1>2, <1>3

-----------------------------------------------------------------------------
(* The invariant                                                           *)

\* There are no sessions, tokens or requests at first.
LEMMA AccountsInit == Init => AccountsInv
  <1>. SUFFICES ASSUME Init
                PROVE  AccountsInv
    OBVIOUS
  <1>1. PICK absent \in SUBSET Invitees, naming \in [Users -> Names] :
          /\ \A u, v \in Users \ absent : u # v => naming[u] # naming[v]
          /\ users = [u \in Users |->
               [exists    |-> u \notin absent,
                enabled   |-> u \notin absent,
                name      |-> IF u \in absent THEN None ELSE naming[u],
                hash      |-> IF u \in absent THEN 0 ELSE 1,
                preferred |-> None, keeper |-> 0, chosen |-> None]]
    BY DEF Init
  <1>2. \A u \in Users : naming[u] \in Names /\ naming[u] # None
    BY AccountsAssumption
  <1>3. users \in [Users -> User]
    <2>1. 0 \in 0..MaxPasswords /\ 1 \in 0..MaxPasswords /\ 0 \in 0..MaxSessions
      BY AccountsAssumption
    <2>2. ASSUME NEW u \in Users
          PROVE  users[u] \in User
      BY <1>1, <1>2, <2>1 DEF User
    <2>. QED
      BY <1>1, <2>2
  <1>4. TypeOK
    <2>1. tokens \in Seq(Token) /\ Len(tokens) = 0
      BY DEF Init
    <2>2. sessions \in Seq(Session) /\ Len(sessions) = 0
      BY DEF Init
    <2>3. now \in 0..MaxTime /\ 0 <= MaxTokens /\ 0 <= MaxSessions
      BY AccountsAssumption DEF Init
    <2>4. keyStatus \in [Keys -> KeyStatuses] /\ workload \in Workloads
      BY DEF Init, KeyStatuses
    <2>. QED
      BY <1>3, <2>1, <2>2, <2>3, <2>4 DEF TypeOK
  <1>5. UsersInv
    <2>1. ASSUME NEW u \in Users
          PROVE  /\ users[u].enabled => users[u].name # None /\ users[u].hash # 0
                 /\ ~users[u].exists => users[u].hash = 0
      <3>1. CASE u \in absent
        <4>1. ~users[u].enabled /\ users[u].hash = 0
          BY <1>1, <3>1
        <4>. QED
          BY <4>1
      <3>2. CASE u \notin absent
        <4>1. users[u].exists /\ users[u].name = naming[u] /\ users[u].hash = 1
          BY <1>1, <3>2
        <4>. QED
          BY <1>2, <4>1
      <3>. QED
        BY <3>1, <3>2
    <2>2. ASSUME NEW u \in Users, NEW v \in Users \ {u}, users[u].name # None
          PROVE  users[u].name # users[v].name
      BY <1>1, <1>2, <2>2
    <2>. QED
      BY <2>1, <2>2 DEF UsersInv, EnabledHasIdentity
  <1>6. SessionsInv
    BY DEF Init, SessionsInv, OldSessionsEnd
  <1>7. TokensInv
    BY DEF Init, TokensInv, LinkWorksOnce
  <1>8. RequestsInv
    <2>1. req \in [Requests -> Request]
      BY NewRequests DEF Init
    <2>2. \A r \in Requests : RequestOK(r)
      BY DEF Init, RequestOK, Idle, SessionSteps, AuthenticatedSteps, Handlers
    <2>. QED
      BY <2>1, <2>2 DEF RequestsInv
  <1>. QED
    BY <1>4, <1>5, <1>6, <1>7, <1>8 DEF AccountsInv

\* Every step keeps the invariant.
LEMMA AccountsNext == AccountsInv /\ [Next]_vars => AccountsInv'
  <1>. SUFFICES ASSUME AccountsInv, [Next]_vars
                PROVE  AccountsInv'
    OBVIOUS
  <1>1. ASSUME NEW r \in Requests, NEW i \in DOMAIN sessions,
               NEW op \in Handlers \cap workload, Authenticate(r, i, op)
        PROVE  AccountsInv'
    BY <1>1, AuthenticateKeeps
  <1>2. ASSUME NEW r \in Requests, ReadSession(r)
        PROVE  AccountsInv'
    BY <1>2, ReadSessionKeeps
  <1>3. ASSUME NEW r \in Requests, SessionStep(r)
        PROVE  AccountsInv'
    <2>1. ASSUME NEW u \in Users, Login(r, u)
          PROVE  AccountsInv'
      BY <2>1, LoginKeeps
    <2>2. CASE Serve(r)
      BY <2>2, DoneKeeps DEF Serve
    <2>3. ASSUME NEW c \in Contexts, SetActiveContext(r, c)
          PROVE  AccountsInv'
      BY <2>3, SetActiveContextKeeps
    <2>. QED
      BY <1>3, <2>1, <2>2, <2>3, IssueKeeps, ReadPreferenceKeeps,
         RestoreContextKeeps, LogoutKeeps DEF SessionStep
  <1>4. ASSUME NEW r \in Requests, AccountStep(r)
        PROVE  AccountsInv'
    <2>1. ASSUME NEW n \in Names, UpdateProfile(r, n)
          PROVE  AccountsInv'
      BY <2>1, UpdateProfileKeeps
    <2>2. ASSUME NEW u \in Users, Forgot(r, u)
          PROVE  AccountsInv'
      BY <2>2, ConsumeNext DEF Forgot
    <2>. QED
      BY <1>4, <2>1, <2>2, ReadCredentialsKeeps, StorePasswordKeeps,
         ConsumeOpenKeeps, InsertTokenKeeps, SendLinkKeeps DEF AccountStep
  <1>5. ASSUME NEW r \in Requests, AdminStep(r)
        PROVE  AccountsInv'
    BY <1>5, IssuePasswordResetKeeps, UpdateUserKeeps DEF AdminStep
  <1>6. ASSUME NEW r \in Requests, Abort(r)
        PROVE  AccountsInv'
    BY <1>6, DoneKeeps DEF Abort
  <1>7. ASSUME NEW t \in DOMAIN tokens, ResetPassword(t)
        PROVE  AccountsInv'
    BY <1>7, ResetPasswordKeeps
  <1>8. CASE InvitationStep
    BY <1>8, InviteKeeps, AcceptInvitationKeeps DEF InvitationStep
  <1>9. CASE \/ Tick
             \/ \E k, l \in Keys : RotateKeys(k, l)
             \/ \E k \in Keys : RetireKey(k)
    BY <1>9, ClockAndKeysKeep
  <1>10. CASE UNCHANGED vars
    <2>1. UNCHANGED <<users, tokens, sessions, req, workload, now, keyStatus>>
      BY <1>10 DEF vars
    <2>2. /\ now' \in 0..MaxTime /\ now <= now'
          /\ keyStatus' \in [Keys -> KeyStatuses]
      BY <2>1, AccountsAssumption DEF AccountsInv, TypeOK
    <2>. QED
      BY <2>1, <2>2, SurroundingsKeep
  <1>. QED
    BY <1>1, <1>2, <1>3, <1>4, <1>5, <1>6, <1>7, <1>8, <1>9, <1>10 DEF Next

\* Users, sessions, tokens and the requests in flight stay consistent.
THEOREM AccountsInvariant == Spec => []AccountsInv
  BY AccountsInit, AccountsNext, PTL DEF Spec

\* Every row keeps its columns; the bounds on time, rows and passwords hold.
THEOREM AccountsTyped == Spec => []TypeOK
  <1>1. AccountsInv => TypeOK
    BY DEF AccountsInv
  <1>. QED
    BY <1>1, AccountsInvariant, PTL

\* A changed or reset password ends every earlier session but the one that
\* changed it, in any overlap of logins, changes, resets and invitations.
THEOREM PasswordEndsSessions == Spec => []OldSessionsEnd
  <1>1. AccountsInv => OldSessionsEnd
    BY DEF AccountsInv, SessionsInv
  <1>. QED
    BY <1>1, AccountsInvariant, PTL

\* Names are unique, and an enabled account has a name and a password.
THEOREM IdentityKept == Spec => []EnabledHasIdentity
  <1>1. AccountsInv => EnabledHasIdentity
    BY DEF AccountsInv, UsersInv
  <1>. QED
    BY <1>1, AccountsInvariant, PTL

\* A one-time link works once, and only the newest of its kind.
THEOREM LinksWorkOnce == Spec => []LinkWorksOnce
  <1>1. AccountsInv => LinkWorksOnce
    BY DEF AccountsInv, TokensInv
  <1>. QED
    BY <1>1, AccountsInvariant, PTL

\* No handler runs for a session that was revoked, expired or under a dead
\* key when the request arrived, or whose user was disabled all along.
THEOREM DeadSessionsRefused == Spec => []DeadSessionRefused
  <1>1. AccountsInv => DeadSessionRefused
    BY DEF AccountsInv, RequestsInv, RequestOK, DeadSessionRefused
  <1>. QED
    BY <1>1, AccountsInvariant, PTL

-----------------------------------------------------------------------------
(* Nothing is revived                                                      *)

\* Sessions stay their user's, never live longer and stay revoked.
SessionsFixed ==
    \A i \in DOMAIN sessions :
        /\ i \in DOMAIN sessions'
        /\ sessions[i].revoked => sessions'[i].revoked
        /\ sessions'[i].user = sessions[i].user
        /\ sessions'[i].kid = sessions[i].kid
        /\ sessions'[i].expires = sessions[i].expires
        /\ sessions'[i].born = sessions[i].born

\* The same for the links.
TokensFixed ==
    \A t \in DOMAIN tokens :
        /\ t \in DOMAIN tokens'
        /\ tokens[t].consumed => tokens'[t].consumed
        /\ tokens'[t].user = tokens[t].user
        /\ tokens'[t].purpose = tokens[t].purpose
        /\ tokens'[t].expires = tokens[t].expires

\* No password is taken back.
PasswordsFixed == \A u \in Users : users[u].hash <= users'[u].hash

\* What a step never does.
Fixed == SessionsFixed /\ TokensFixed /\ PasswordsFixed

\* Rows that do not change are fixed, and so are those that stay.
LEMMA StayIsFixed ==
    ASSUME TypeOK
    PROVE  /\ UNCHANGED sessions => SessionsFixed
           /\ UNCHANGED tokens => TokensFixed
           /\ UNCHANGED users => PasswordsFixed
           /\ SessionsStay => SessionsFixed
           /\ UsersStay => PasswordsFixed
  <1>1. ASSUME NEW u \in Users
        PROVE  users[u].hash \in Nat
    <2>1. users[u].hash \in 0..MaxPasswords
      BY Columns
    <2>. QED
      BY <2>1, AccountsAssumption
  <1>2. ASSUME UNCHANGED users \/ UsersStay
        PROVE  PasswordsFixed
    <2>1. ASSUME NEW u \in Users
          PROVE  users[u].hash <= users'[u].hash
      <3>1. users'[u].hash = users[u].hash
        BY <1>2 DEF UsersStay
      <3>. QED
        BY <1>1, <3>1
    <2>. QED
      BY <2>1 DEF PasswordsFixed
  <1>3. SessionsStay => DOMAIN sessions' = DOMAIN sessions
    BY DEF SessionsStay, TypeOK
  <1>4. SessionsStay => SessionsFixed
    BY <1>3 DEF SessionsStay, SessionsFixed
  <1>5. UNCHANGED sessions => SessionsFixed
    BY DEF SessionsFixed
  <1>6. UNCHANGED tokens => TokensFixed
    BY DEF TokensFixed
  <1>. QED
    BY <1>2, <1>4, <1>5, <1>6

\* A user whose new row has no older password.
LEMMA PasswordRow ==
    ASSUME TypeOK, NEW u \in Users, NEW x \in User,
           users' = [users EXCEPT ![u] = x], users[u].hash <= x.hash
    PROVE  PasswordsFixed
  <1>1. \A v \in Users : users'[v] = IF v = u THEN x ELSE users[v]
    BY UserUpdated
  <1>2. \A v \in Users : users[v].hash \in Nat
    BY Columns
  <1>. QED
    BY <1>1, <1>2 DEF PasswordsFixed

\* A change or a reset makes the next password and revokes sessions.
LEMMA PasswordIsNext ==
    ASSUME TypeOK, NEW u \in Users, NEW keeper \in 0..MaxSessions, NEW kept,
           users[u].hash < MaxPasswords,
           users' = NewPassword(u, keeper), sessions' = Revoked(u, kept)
    PROVE  SessionsFixed /\ PasswordsFixed
  <1>1. PICK y \in User : y = users[u]
    BY DEF TypeOK
  <1>2. y.hash \in Nat /\ y.hash + 1 \in 0..MaxPasswords
    BY <1>1, Columns, AccountsAssumption
  <1>3. PICK x \in User : x = [y EXCEPT !.hash = @ + 1, !.keeper = keeper]
    BY <1>2 DEF User
  <1>4. x.hash = y.hash + 1
    BY <1>3 DEF User
  <1>5. users' = [users EXCEPT ![u] = x]
    BY <1>1, <1>3 DEF NewPassword, TypeOK
  <1>6. users[u].hash <= x.hash
    BY <1>1, <1>2, <1>4
  <1>. QED
    BY <1>5, <1>6, PasswordRow, RevokedStays, StayIsFixed

\* Using an open link leaves its user, purpose and expiry, and closes it.
LEMMA SpentIsFixed ==
    ASSUME TypeOK, TokensInv, NEW t \in DOMAIN tokens, Open(t), tokens' = Spent(t)
    PROVE  TokensFixed
  <1>1. /\ DOMAIN tokens' = DOMAIN tokens
        /\ \A o \in DOMAIN tokens :
             /\ tokens'[o].user = tokens[o].user
             /\ tokens'[o].purpose = tokens[o].purpose
             /\ tokens'[o].consumed <=> tokens[o].consumed \/ o = t
    BY SpentRow
  <1>2. ASSUME NEW o \in DOMAIN tokens
        PROVE  tokens'[o].expires = tokens[o].expires
    <2>1. PICK y \in Token : y = tokens[o]
      BY Columns
    <2>2. tokens'[o] = IF o = t
                       THEN [y EXCEPT !.consumed = TRUE, !.spent = Least(@ + 1, 2)]
                       ELSE y
      BY <2>1 DEF Spent
    <2>. QED
      BY <2>1, <2>2 DEF Token
  <1>. QED
    BY <1>1, <1>2 DEF TokensFixed

\* A login adds a session or leaves them alone.
LEMMA IssueFixed ==
    ASSUME AccountsInv, NEW r \in Requests, Issue(r)
    PROVE  Fixed
  <1>. TypeOK
    BY DEF AccountsInv
  <1>1. TokensFixed /\ PasswordsFixed
    BY StayIsFixed DEF Issue
  <1>2. CASE UNCHANGED sessions
    BY <1>1, <1>2, StayIsFixed DEF Fixed
  <1>3. ASSUME NEW s, sessions' = Append(sessions, s)
        PROVE  SessionsFixed
    <2>1. sessions \in Seq(Session)
      BY DEF TypeOK
    <2>2. /\ DOMAIN sessions' = 1..(Len(sessions) + 1)
          /\ \A i \in DOMAIN sessions : sessions'[i] = sessions[i]
      BY <1>3, <2>1
    <2>3. \A i \in DOMAIN sessions : i \in DOMAIN sessions'
      BY <2>1, <2>2
    <2>. QED
      BY <2>2, <2>3 DEF SessionsFixed
  <1>4. UNCHANGED sessions \/ \E s : sessions' = Append(sessions, s)
    BY DEF Issue
  <1>. QED
    BY <1>1, <1>2, <1>3, <1>4 DEF Fixed

\* The steps that write the rows of their own session.
LEMMA OwnSessionFixed ==
    ASSUME AccountsInv, NEW r \in Requests,
           \/ ReadPreference(r)
           \/ RestoreContext(r)
           \/ \E c \in Contexts : SetActiveContext(r, c)
           \/ Logout(r)
    PROVE  Fixed
  <1>. TypeOK
    BY DEF AccountsInv
  <1>. req[r].step \in {"prefer", "restore", "context", "logout"}
    BY Zenon DEF ReadPreference, RestoreContext, SetActiveContext, Logout
  <1>. req[r].step \in SessionSteps
    BY DEF SessionSteps, AuthenticatedSteps, Handlers
  <1>. PICK i \in DOMAIN sessions : i = req[r].session
    BY OwnSession
  <1>. PICK u \in Users : u = sessions[i].user
    BY OwnSession
  <1>1. TokensFixed
    BY StayIsFixed DEF ReadPreference, RestoreContext, SetActiveContext, Logout
  <1>2. CASE ReadPreference(r)
    <2>1. \/ sessions' = [sessions EXCEPT ![i].held = TRUE]
          \/ UNCHANGED sessions
      BY <1>2 DEF ReadPreference
    <2>2. UNCHANGED users
      BY <1>2 DEF ReadPreference
    <2>. QED
      BY <1>1, <2>1, <2>2, FlaggedStays, StayIsFixed DEF Fixed
  <1>3. CASE RestoreContext(r)
    <2>1. PICK c \in Contexts : c = req[r].context
      BY <1>3, OwnSession, RequestFields DEF RestoreContext
    <2>2. /\ sessions' = [WithContext(i, c) EXCEPT ![i].held = TRUE]
          /\ users' = [users EXCEPT ![u].preferred = c]
      BY <1>3, <2>1 DEF RestoreContext, WithPreference
    <2>. QED
      BY <1>1, <2>2, ContextStays, PreferenceStays, StayIsFixed DEF Fixed
  <1>4. ASSUME NEW c \in Contexts, SetActiveContext(r, c)
        PROVE  Fixed
    <2>1. CASE Role[u] = "Superadmin"
      <3>1. /\ sessions' = WithContext(i, c)
            /\ users' = [[users EXCEPT ![u].preferred = c] EXCEPT ![u].chosen = c]
        BY <1>4, <2>1 DEF SetActiveContext, WithPreference
      <3>. QED
        BY <1>1, <3>1, ContextStays, PreferenceStays, StayIsFixed DEF Fixed
    <2>2. CASE Role[u] # "Superadmin"
      BY <1>1, <1>4, <2>2, StayIsFixed DEF SetActiveContext, Fixed
    <2>. QED
      BY <2>1, <2>2
  <1>5. CASE Logout(r)
    <2>1. sessions' = [sessions EXCEPT ![i].revoked = TRUE] /\ UNCHANGED users
      BY <1>5 DEF Logout
    <2>. QED
      BY <1>1, <2>1, FlaggedStays, StayIsFixed DEF Fixed
  <1>. QED
    BY <1>2, <1>3, <1>4, <1>5

\* A new name or a changed flag leaves the password.
LEMMA UserWriteFixed ==
    ASSUME AccountsInv, NEW r \in Requests,
           \/ \E n \in Names : UpdateProfile(r, n)
           \/ \E u \in Users, value \in BOOLEAN : UpdateUser(r, u, value)
    PROVE  Fixed
  <1>. TypeOK
    BY DEF AccountsInv
  <1>1. SessionsFixed /\ TokensFixed
    <2>1. UNCHANGED <<sessions, tokens>>
      BY Zenon DEF UpdateProfile, UpdateUser
    <2>. QED
      BY <2>1, StayIsFixed
  <1>2. ASSUME NEW n \in Names, UpdateProfile(r, n)
        PROVE  PasswordsFixed
    <2>1. req[r].step \in SessionSteps
      <3>1. req[r].step = "profile"
        BY <1>2, Zenon DEF UpdateProfile
      <3>. QED
        BY <3>1 DEF SessionSteps, AuthenticatedSteps, Handlers
    <2>2. PICK u \in Users : u = sessions[req[r].session].user
      BY <2>1, OwnSession
    <2>3. users' = [users EXCEPT ![u].name = n] \/ UNCHANGED users
      BY <1>2, <2>2, Zenon DEF UpdateProfile
    <2>4. PICK y \in User : y = users[u]
      BY DEF TypeOK
    <2>5. PICK x \in User : x = [y EXCEPT !.name = n]
      BY DEF User
    <2>6. x.hash = y.hash
      BY <2>5 DEF User
    <2>7. users[u].hash <= x.hash
      BY <2>4, <2>6, Columns, AccountsAssumption
    <2>8. [users EXCEPT ![u].name = n] = [users EXCEPT ![u] = x]
      BY <2>4, <2>5
    <2>. QED
      BY <2>3, <2>7, <2>8, PasswordRow, StayIsFixed
  <1>3. ASSUME NEW u \in Users, NEW value \in BOOLEAN, UpdateUser(r, u, value)
        PROVE  PasswordsFixed
    <2>1. users' = [users EXCEPT ![u].enabled = value] \/ UNCHANGED users
      BY <1>3 DEF UpdateUser
    <2>2. PICK y \in User : y = users[u]
      BY DEF TypeOK
    <2>3. PICK x \in User : x = [y EXCEPT !.enabled = value]
      BY DEF User
    <2>4. x.hash = y.hash
      BY <2>3 DEF User
    <2>5. users[u].hash <= x.hash
      BY <2>2, <2>4, Columns, AccountsAssumption
    <2>6. [users EXCEPT ![u].enabled = value] = [users EXCEPT ![u] = x]
      BY <2>2, <2>3
    <2>. QED
      BY <2>1, <2>5, <2>6, PasswordRow, StayIsFixed
  <1>. QED
    BY <1>1, <1>2, <1>3 DEF Fixed

\* A new password revokes sessions, and brings none back.
LEMMA StorePasswordFixed ==
    ASSUME AccountsInv, NEW r \in Requests, StorePassword(r)
    PROVE  Fixed
  <1>. req[r].step \in SessionSteps /\ TypeOK
    BY DEF StorePassword, SessionSteps, AuthenticatedSteps, AccountsInv
  <1>. PICK i \in DOMAIN sessions : i = req[r].session
    BY OwnSession
  <1>. PICK u \in Users : u = sessions[i].user
    BY OwnSession
  <1>1. TokensFixed
    BY StayIsFixed DEF StorePassword
  <1>2. CASE users[u].enabled
    <2>1. /\ users' = NewPassword(u, i) /\ sessions' = Revoked(u, {i})
          /\ users[u].hash < MaxPasswords
      BY <1>2 DEF StorePassword
    <2>2. i \in 0..MaxSessions
      BY Columns
    <2>. QED
      BY <1>1, <2>1, <2>2, PasswordIsNext DEF Fixed
  <1>3. CASE ~users[u].enabled
    BY <1>1, <1>3, StayIsFixed DEF StorePassword, Fixed
  <1>. QED
    BY <1>2, <1>3

\* Older links are consumed, and a new one added; the rest of them stays.
LEMMA InsertTokenFixed ==
    ASSUME AccountsInv, NEW r \in Requests, InsertToken(r)
    PROVE  Fixed
  <1>. TypeOK
    BY DEF AccountsInv
  <1>1. UNCHANGED <<users, sessions>>
    BY DEF InsertToken
  <1>2. SessionsFixed /\ PasswordsFixed
    BY <1>1, StayIsFixed
  <1>3. CASE UNCHANGED tokens
    BY <1>2, <1>3, StayIsFixed DEF Fixed
  <1>4. ASSUME NEW c, NEW x,
               tokens' = Append([t \in DOMAIN tokens |->
                           IF t \in c THEN [tokens[t] EXCEPT !.consumed = TRUE]
                           ELSE tokens[t]], x)
        PROVE  TokensFixed
    <2>1. PICK old : old = [t \in DOMAIN tokens |->
                              IF t \in c THEN [tokens[t] EXCEPT !.consumed = TRUE]
                              ELSE tokens[t]]
      OBVIOUS
    <2>2. ASSUME NEW t \in DOMAIN tokens
          PROVE  /\ old[t] \in Token
                 /\ old[t].user = tokens[t].user
                 /\ old[t].purpose = tokens[t].purpose
                 /\ old[t].expires = tokens[t].expires
                 /\ tokens[t].consumed => old[t].consumed
      <3>1. PICK y \in Token : y = tokens[t]
        BY Columns
      <3>2. old[t] = IF t \in c THEN [y EXCEPT !.consumed = TRUE] ELSE y
        BY <2>1, <3>1
      <3>. QED
        BY <3>1, <3>2 DEF Token
    <2>3. DOMAIN old = 1..Len(tokens) /\ Len(tokens) \in Nat /\ DOMAIN tokens = DOMAIN old
      BY <2>1, Columns
    <2>4. old = [t \in 1..Len(tokens) |-> old[t]]
      BY <2>1, <2>3
    <2>5. old \in Seq(Token) /\ Len(old) = Len(tokens)
      BY <2>2, <2>3, <2>4
    <2>6. tokens' = Append(old, x)
      BY <1>4, <2>1
    <2>7. \A t \in DOMAIN tokens : t \in DOMAIN tokens' /\ tokens'[t] = old[t]
      BY <2>3, <2>5, <2>6
    <2>. QED
      BY <2>2, <2>7 DEF TokensFixed
  <1>5. \/ UNCHANGED tokens
        \/ \E c, x : tokens' = Append([t \in DOMAIN tokens |->
                           IF t \in c THEN [tokens[t] EXCEPT !.consumed = TRUE]
                           ELSE tokens[t]], x)
    BY Zenon DEF InsertToken
  <1>. QED
    BY <1>2, <1>3, <1>4, <1>5 DEF Fixed

\* Sending a link changes nothing that it grants.
LEMMA SendLinkFixed ==
    ASSUME AccountsInv, NEW r \in Requests, SendLink(r)
    PROVE  Fixed
  <1>. TypeOK /\ req[r].step = "send" /\ RequestOK(r)
    BY DEF AccountsInv, RequestsInv, SendLink
  <1>. PICK t \in DOMAIN tokens : t = req[r].token
    BY DEF RequestOK
  <1>1. PICK sent \in BOOLEAN : tokens' = [tokens EXCEPT ![t].known = sent]
    BY DEF SendLink
  <1>2. PICK y \in Token : y = tokens[t]
    BY Columns
  <1>3. PICK x \in Token : x = [y EXCEPT !.known = sent]
    BY DEF Token
  <1>4. /\ x.user = y.user /\ x.purpose = y.purpose /\ x.expires = y.expires
        /\ x.consumed = y.consumed
    BY <1>3 DEF Token
  <1>5. tokens' = [tokens EXCEPT ![t] = x]
    BY <1>1, <1>2, <1>3
  <1>6. /\ DOMAIN tokens' = DOMAIN tokens
        /\ \A o \in DOMAIN tokens : tokens'[o] = IF o = t THEN x ELSE tokens[o]
    BY <1>5, TokenUpdated
  <1>7. TokensFixed
    BY <1>2, <1>4, <1>6 DEF TokensFixed
  <1>. QED
    BY <1>7, StayIsFixed DEF SendLink, Fixed

\* A reset consumes its link, revokes sessions and makes the next password.
LEMMA ResetPasswordFixed ==
    ASSUME AccountsInv, NEW t \in DOMAIN tokens, ResetPassword(t)
    PROVE  Fixed
  <1>. TypeOK /\ TokensInv
    BY DEF AccountsInv
  <1>. PICK u \in Users : u = tokens[t].user
    BY Columns
  <1>1. /\ users[u].hash < MaxPasswords
        /\ users' = NewPassword(u, 0) /\ sessions' = Revoked(u, {})
        /\ tokens' = Spent(t) /\ Open(t)
    BY DEF ResetPassword, Usable
  <1>2. 0 \in 0..MaxSessions
    BY AccountsAssumption
  <1>3. SessionsFixed /\ PasswordsFixed
    BY <1>1, <1>2, PasswordIsNext
  <1>4. TokensFixed
    BY <1>1, SpentIsFixed
  <1>. QED
    BY <1>3, <1>4 DEF Fixed

\* An invitation adds its link to those there are.
LEMMA InviteFixed ==
    ASSUME AccountsInv, NEW r \in Requests, NEW u \in Users, Invite(r, u)
    PROVE  Fixed
  <1>. TypeOK
    BY DEF AccountsInv
  <1>1. SessionsFixed
    BY StayIsFixed DEF Invite
  <1>2. ASSUME NEW x, tokens' = Append(tokens, x)
        PROVE  TokensFixed
    <2>1. tokens \in Seq(Token)
      BY DEF TypeOK
    <2>2. \A t \in DOMAIN tokens : t \in DOMAIN tokens' /\ tokens'[t] = tokens[t]
      BY <1>2, <2>1
    <2>. QED
      BY <2>2 DEF TokensFixed
  <1>3. ASSUME users' = [users EXCEPT ![u].exists = TRUE]
        PROVE  PasswordsFixed
    <2>1. PICK y \in User : y = users[u]
      BY DEF TypeOK
    <2>2. PICK x \in User : x = [y EXCEPT !.exists = TRUE]
      BY DEF User
    <2>3. x.hash = y.hash
      BY <2>2 DEF User
    <2>4. users[u].hash <= x.hash
      BY <2>1, <2>3, Columns, AccountsAssumption
    <2>5. users' = [users EXCEPT ![u] = x]
      BY <1>3, <2>1, <2>2
    <2>. QED
      BY <2>4, <2>5, PasswordRow
  <1>4. \/ UNCHANGED <<users, tokens>>
        \/ /\ users' = [users EXCEPT ![u].exists = TRUE]
           /\ \E x : tokens' = Append(tokens, x)
    BY Zenon DEF Invite
  <1>. QED
    BY <1>1, <1>2, <1>3, <1>4, StayIsFixed DEF Fixed

\* Accepting consumes the link and makes the first password.
LEMMA AcceptInvitationFixed ==
    ASSUME AccountsInv, NEW t \in DOMAIN tokens, NEW n \in Names,
           AcceptInvitation(t, n)
    PROVE  Fixed
  <1>. TypeOK /\ TokensInv
    BY DEF AccountsInv
  <1>. PICK u \in Users : u = tokens[t].user
    BY Columns
  <1>1. /\ tokens[t].purpose = "invitation" /\ Open(t) /\ tokens' = Spent(t)
        /\ users' = [NewPassword(u, 0) EXCEPT ![u].name = n, ![u].enabled = TRUE]
        /\ UNCHANGED sessions
    BY DEF AcceptInvitation, Usable
  <1>2. users[u].hash = 0
    BY <1>1 DEF TokensInv
  <1>3. PICK z \in User : z = users[u]
    BY DEF TypeOK
  <1>4. PICK y \in User :
          y = [z EXCEPT !.hash = 1, !.keeper = 0, !.name = n, !.enabled = TRUE]
    <2>1. 1 \in 0..MaxPasswords /\ 0 \in 0..MaxSessions
      BY AccountsAssumption
    <2>2. [z EXCEPT !.hash = 1, !.keeper = 0, !.name = n, !.enabled = TRUE] \in User
      BY <2>1 DEF User
    <2>. QED
      BY <2>2
  <1>5. y.hash = 1
    BY <1>4 DEF User
  <1>6. users' = [users EXCEPT ![u] = y]
    <2>1. z.hash + 1 = 1
      BY <1>2, <1>3
    <2>. QED
      BY <1>1, <1>3, <1>4, <2>1 DEF NewPassword, TypeOK
  <1>7. users[u].hash <= y.hash
    BY <1>2, <1>5
  <1>8. PasswordsFixed
    BY <1>6, <1>7, PasswordRow
  <1>. QED
    BY <1>1, <1>8, SpentIsFixed, StayIsFixed DEF Fixed

\* No step gives anything back.
LEMMA FixedStep == AccountsInv /\ [Next]_vars => Fixed
  <1>. SUFFICES ASSUME AccountsInv, [Next]_vars
                PROVE  Fixed
    OBVIOUS
  <1>. TypeOK
    BY DEF AccountsInv
  <1>1. ASSUME UNCHANGED <<users, tokens, sessions>>
        PROVE  Fixed
    BY <1>1, StayIsFixed DEF Fixed
  <1>2. ASSUME NEW r \in Requests, NEW i \in DOMAIN sessions,
               NEW op \in Handlers \cap workload, Authenticate(r, i, op)
        PROVE  Fixed
    BY <1>1, <1>2 DEF Authenticate
  <1>3. ASSUME NEW r \in Requests, ReadSession(r) \/ Abort(r)
        PROVE  Fixed
    BY <1>1, <1>3 DEF ReadSession, Abort
  <1>4. ASSUME NEW r \in Requests, SessionStep(r)
        PROVE  Fixed
    <2>1. ASSUME NEW u \in Users, Login(r, u)
          PROVE  Fixed
      BY <1>1, <2>1 DEF Login
    <2>2. CASE Serve(r)
      BY <1>1, <2>2 DEF Serve
    <2>. QED
      BY <1>4, <2>1, <2>2, IssueFixed, OwnSessionFixed DEF SessionStep
  <1>5. ASSUME NEW r \in Requests, AccountStep(r)
        PROVE  Fixed
    <2>1. ASSUME NEW u \in Users, Forgot(r, u)
          PROVE  Fixed
      BY <1>1, <2>1 DEF Forgot
    <2>2. CASE ReadCredentials(r) \/ ConsumeOpen(r)
      BY <1>1, <2>2 DEF ReadCredentials, ConsumeOpen
    <2>. QED
      BY <1>5, <2>1, <2>2, UserWriteFixed, StorePasswordFixed, InsertTokenFixed,
         SendLinkFixed DEF AccountStep
  <1>6. ASSUME NEW r \in Requests, AdminStep(r)
        PROVE  Fixed
    <2>1. ASSUME NEW u \in Users, IssuePasswordReset(r, u)
          PROVE  Fixed
      BY <1>1, <2>1 DEF IssuePasswordReset
    <2>. QED
      BY <1>6, <2>1, UserWriteFixed DEF AdminStep
  <1>7. ASSUME NEW t \in DOMAIN tokens, ResetPassword(t)
        PROVE  Fixed
    BY <1>7, ResetPasswordFixed
  <1>8. CASE InvitationStep
    BY <1>8, InviteFixed, AcceptInvitationFixed DEF InvitationStep
  <1>9. CASE \/ Tick
             \/ \E k, l \in Keys : RotateKeys(k, l)
             \/ \E k \in Keys : RetireKey(k)
    BY <1>1, <1>9 DEF Tick, RotateKeys, RetireKey
  <1>10. CASE UNCHANGED vars
    BY <1>1, <1>10 DEF vars
  <1>. QED
    BY <1>2, <1>3, <1>4, <1>5, <1>6, <1>7, <1>8, <1>9, <1>10 DEF Next

\* A revoked session stays revoked, also under a password change it began
\* before; a consumed link stays consumed; neither changes hands or lives
\* longer; and no password is taken back, in any overlap of requests.
THEOREM NothingComesBack == Spec => NothingIsRevived
  <1>1. Fixed => Retained
    BY DEF Fixed, SessionsFixed, TokensFixed, PasswordsFixed, Retained
  <1>2. AccountsInv /\ [Next]_vars => [Retained]_vars
    BY <1>1, FixedStep
  <1>. QED
    BY <1>2, AccountsInvariant, PTL DEF Spec, NothingIsRevived

=============================================================================
