------------------------------- MODULE Access ------------------------------
(***************************************************************************)
(* Who may use the management API: login, the sessions of the web UI, API  *)
(* keys, and the users behind them (module Users).                         *)
(*                                                                         *)
(* A session lives twice: in the memory of uiSessionManager and as a row   *)
(* of ui_sessions, which survives a restart and an eviction.  authenticate *)
(* takes the manager's mutex three times and executes up to three SQL      *)
(* statements in between; every critical section and every statement is an *)
(* action, so that logout, eviction, administration and other requests of  *)
(* the same session come in between.  A handler serves one request at a    *)
(* time.  Tokens, passwords and CSRF values are left out: a token is a     *)
(* model value, and a wrong password is an outcome of AuthenticateUser.    *)
(***************************************************************************)
EXTENDS Users

CONSTANTS Tokens,          \* session tokens; none is drawn twice
          KeyIDs,          \* API keys
          None,            \* no entry, no row
          uiSessionIdleTTL, uiSessionAbsoluteTTL, uiSessionMaximum,
          uiAuthFailureLimit, uiAuthFailureWindow, uiAuthFailureMaximum,
          MaxTime          \* bound: the clock stops here

Sessions == [user : UserIDs, created : Nat, seen : Nat]
Failures == [count : Nat, first : Nat]
Grants == [user : UserIDs, at : Nat, last : Nat]

ASSUME AccessAssumption ==
    /\ uiSessionIdleTTL \in Nat \ {0} /\ uiSessionAbsoluteTTL \in Nat \ {0}
    /\ uiSessionMaximum \in Nat \ {0}
    /\ uiAuthFailureLimit \in Nat \ {0} /\ uiAuthFailureWindow \in Nat \ {0}
    /\ uiAuthFailureMaximum \in Nat \ {0} /\ MaxTime \in Nat
    /\ Tokens \cap KeyIDs = {} /\ None \notin Tokens \cup KeyIDs \cup UserIDs
    /\ None \notin Sessions \cup Failures \cup Grants
    /\ IsFiniteSet(Handlers)

VARIABLES
    clock,     \* the time of manager.now
    sessions,  \* sessions[t]: the entry of t in memory, or None
    rows,      \* rows[t]: the row of t in ui_sessions, or None
    failures,  \* failures[u]: the login failures counted for the name u, or None
    keys,      \* keys[k]: the role of the API key, "revoked" or "none"
    requests,  \* requests[h]: the request h serves, and where it is
    issued,    \* history: owner, login and last use of a token a client has
    current,   \* history: the roles h's principal has had, while it was
               \* active, since h began
    alone,     \* history: logouts that no request of the session has overlapped
    ended      \* history: the tokens those logouts have ended

data == <<vars, clock, sessions, rows, failures, keys, issued, ended>>
accessVars == <<data, requests, current, alone>>

NoRequest == [at |-> "idle", of |-> None, now |-> 0, session |-> None, role |-> "none"]
Session(u, created, seen) == [user |-> u, created |-> created, seen |-> seen]

Entries(f) == {x \in DOMAIN f : f[x] # None}

AccessInit ==
    /\ Init
    /\ clock = 0
    /\ sessions = [t \in Tokens |-> None]
    /\ rows = [t \in Tokens |-> None]
    /\ failures = [u \in UserIDs |-> None]
    /\ keys = [k \in KeyIDs |-> "none"]
    /\ requests = [h \in Handlers |-> NoRequest]
    /\ issued = [t \in Tokens |-> None]
    /\ current = [h \in Handlers |-> {}]
    /\ alone = {}
    /\ ended = {}

Step(h, r) == requests' = [requests EXCEPT ![h] = r]
Continue(h, at) == Step(h, [requests[h] EXCEPT !.at = at])
Respond(h) == Step(h, NoRequest)
Free(h) == Begin(h) /\ requests[h] = NoRequest

----------------------------------------------------------------------------
(* The limit of login failures (authFailureLimiter). *)

\* deleteExpiredLocked.
Recent(now) ==
    [u \in UserIDs |-> IF failures[u] # None /\ now < failures[u].first + uiAuthFailureWindow
                       THEN failures[u] ELSE None]

\* Mutant: the limit itself is still allowed.
retryAfterOffByOne(h, u) ==
    /\ Free(h)
    /\ failures' = Recent(clock)
    /\ IF failures'[u] # None /\ failures'[u].count > uiAuthFailureLimit
       THEN Respond(h)
       ELSE Step(h, [NoRequest EXCEPT !.at = "AuthenticateUser", !.of = u, !.now = clock])
    /\ UNCHANGED <<vars, clock, sessions, rows, keys, issued, ended>>

\* handleUISessionCreate reads the clock and asks the limiter.
retryAfter(h, u) ==
    /\ Free(h)
    /\ failures' = Recent(clock)
    /\ IF failures'[u] # None /\ failures'[u].count >= uiAuthFailureLimit
       THEN Respond(h)
       ELSE Step(h, [NoRequest EXCEPT !.at = "AuthenticateUser", !.of = u, !.now = clock])
    /\ UNCHANGED <<vars, clock, sessions, rows, keys, issued, ended>>

\* evictOldestLocked: one of the entries first seen earliest.
OldestFailures(f) ==
    {u \in Entries(f) : \A v \in Entries(f) : f[u].first <= f[v].first}

Counted(f, u, now) ==
    [f EXCEPT ![u] = IF f[u] = None THEN [count |-> 1, first |-> now]
                     ELSE [count |-> f[u].count + 1, first |-> f[u].first]]

\* record: at the maximum an entry is evicted first, even when u has one.
record(h) ==
    /\ requests[h].at = "record"
    /\ LET u == requests[h].of
           now == requests[h].now
           recent == Recent(now)
       IN  IF Cardinality(Entries(recent)) >= uiAuthFailureMaximum
           THEN \E v \in OldestFailures(recent) :
                  failures' = Counted([recent EXCEPT ![v] = None], u, now)
           ELSE failures' = Counted(recent, u, now)
    /\ Respond(h)
    /\ UNCHANGED <<vars, clock, sessions, rows, keys, issued, ended>>

----------------------------------------------------------------------------
(* Login (createUser). *)

Enabled(u) == u \in Existing /\ users[u].enabled

\* AuthenticateUser: the name, the state and the password are compared with one
\* read of the row.  A read that fails counts as wrong credentials too, because
\* the state is looked at before the error.  A session begins at a second
\* reading of the clock, before the statement.
AuthenticateUser(h) ==
    /\ requests[h].at = "AuthenticateUser"
    /\ \/ /\ Enabled(requests[h].of)
          /\ \E now \in requests[h].now..clock :
               Step(h, [requests[h] EXCEPT !.at = "create", !.now = now])
       \/ Continue(h, "record")
       \/ Enabled(requests[h].of) /\ Respond(h)  \* the login is not recorded
    /\ UNCHANGED data

expired(s, now) ==
    \/ now >= s.created + uiSessionAbsoluteTTL
    \/ now >= s.seen + uiSessionIdleTTL

\* deleteExpiredLocked.
Unexpired(now) ==
    [t \in Tokens |-> IF sessions[t] # None /\ ~expired(sessions[t], now)
                      THEN sessions[t] ELSE None]

\* evictOldestLocked.
OldestSessions(s) ==
    {t \in Entries(s) : \A v \in Entries(s) : s[t].seen <= s[v].seen}

Drawn == Entries(sessions) \cup Entries(issued) \cup {requests[h].of : h \in Handlers}

createUser(h, t) ==
    /\ requests[h].at = "create" /\ t \notin Drawn
    /\ LET new == Session(requests[h].of, requests[h].now, requests[h].now)
           live == Unexpired(requests[h].now)
       IN  /\ IF Cardinality(Entries(live)) >= uiSessionMaximum
              THEN \E v \in OldestSessions(live) :
                     sessions' = [live EXCEPT ![v] = None, ![t] = new]
              ELSE sessions' = [live EXCEPT ![t] = new]
           /\ Step(h, [requests[h] EXCEPT !.at = "store", !.of = t, !.session = new])
    /\ UNCHANGED <<vars, clock, rows, failures, keys, issued, ended>>

\* SaveUISession: the row is inserted, or its last_seen updated.
Upserted(t, s) ==
    [rows EXCEPT ![t] = IF @ = None THEN s ELSE [@ EXCEPT !.seen = s.seen]]

\* SaveUISession of createUser; handleUISessionCreate resets the failures and
\* hands the token out.  When the statement fails the entry stays in memory
\* with a token nobody has.
store(h) ==
    /\ requests[h].at = "store"
    /\ \/ LET t == requests[h].of
              s == requests[h].session
          IN  /\ rows' = Upserted(t, s)
              /\ failures' = [failures EXCEPT ![s.user] = None]
              /\ issued' = [issued EXCEPT ![t] = [user |-> s.user, at |-> s.created,
                                                last |-> s.created]]
       \/ UNCHANGED <<rows, failures, issued>>
    /\ Respond(h)
    /\ UNCHANGED <<vars, clock, sessions, keys, ended>>

----------------------------------------------------------------------------
(* A request with a session (authenticate). *)

Removed(t) == [sessions EXCEPT ![t] = None]
Refuse(h) == sessions' = Removed(requests[h].of) /\ Respond(h)

\* The clock, and the entry in memory (ui_session.go:193-212).
lookUp(h, t) ==
    /\ Free(h) /\ issued[t] # None
    /\ LET r == [NoRequest EXCEPT !.of = t, !.now = clock, !.session = sessions[t]]
       IN  \/ /\ sessions[t] = None
              /\ Step(h, [r EXCEPT !.at = "UISession"])
              /\ UNCHANGED sessions
           \/ /\ sessions[t] # None /\ expired(sessions[t], clock)
              /\ sessions' = Removed(t)
              /\ UNCHANGED requests
           \/ /\ sessions[t] # None /\ ~expired(sessions[t], clock)
              /\ Step(h, [r EXCEPT !.at = "ActiveUserPrincipal"])
              /\ UNCHANGED sessions
    /\ UNCHANGED <<vars, clock, rows, failures, keys, issued, ended>>

\* The row, when memory has no entry.
UISession(h) ==
    /\ requests[h].at = "UISession"
    /\ \/ /\ rows[requests[h].of] # None
          /\ Step(h, [requests[h] EXCEPT !.at = "insert", !.session = rows[requests[h].of]])
       \/ Respond(h)
    /\ UNCHANGED data

\* Mutant: a session that is reloaded counts as just seen.
insertAsSeen(h) ==
    /\ requests[h].at = "insert"
    /\ sessions' = [sessions EXCEPT ![requests[h].of] =
                      [requests[h].session EXCEPT !.seen = requests[h].now]]
    /\ Continue(h, "ActiveUserPrincipal")
    /\ UNCHANGED <<vars, clock, rows, failures, keys, issued, ended>>

\* The row read goes into memory, whatever memory holds by now.
insert(h) ==
    /\ requests[h].at = "insert"
    /\ LET s == requests[h].session
       IN  IF expired(s, requests[h].now) THEN Refuse(h)
           ELSE /\ sessions' = [sessions EXCEPT ![requests[h].of] = s]
                /\ Continue(h, "ActiveUserPrincipal")
    /\ UNCHANGED <<vars, clock, rows, failures, keys, issued, ended>>

\* Mutant: the state of the user is not read again.
ActiveUserPrincipalAnyState(h) ==
    /\ requests[h].at = "ActiveUserPrincipal"
    /\ Step(h, [requests[h] EXCEPT !.at = "refresh", !.session = None,
                                   !.role = users[requests[h].session.user].role])
    /\ UNCHANGED data

\* The user behind the session, read anew for every request.
ActiveUserPrincipal(h) ==
    /\ requests[h].at = "ActiveUserPrincipal"
    /\ LET u == requests[h].session.user
       IN  \/ /\ Enabled(u)
              /\ Step(h, [requests[h] EXCEPT !.at = "refresh", !.session = None,
                                          !.role = users[u].role])
           \/ Step(h, [requests[h] EXCEPT !.at = "drop", !.session = None])
    /\ UNCHANGED data

\* The user is not active, or the statement has failed.
drop(h) ==
    /\ requests[h].at = "drop"
    /\ Refuse(h)
    /\ UNCHANGED <<vars, clock, rows, failures, keys, issued, ended>>

\* The entry is looked up again; the request goes on with what it finds.
refresh(h) ==
    /\ requests[h].at = "refresh"
    /\ LET t == requests[h].of
           now == requests[h].now
           s == [sessions[t] EXCEPT !.seen = now]
       IN  IF sessions[t] = None \/ expired(sessions[t], now)
           THEN Refuse(h) /\ UNCHANGED issued
           ELSE /\ sessions' = [sessions EXCEPT ![t] = s]
                /\ Step(h, [requests[h] EXCEPT !.at = "SaveUISession", !.session = s])
                /\ issued' = [issued EXCEPT ![t].last = IF now > @ THEN now ELSE @]
    /\ UNCHANGED <<vars, clock, rows, failures, keys, ended>>

\* The row follows, or does not: the error is ignored.
SaveUISession(h) ==
    /\ requests[h].at = "SaveUISession"
    /\ \/ rows' = Upserted(requests[h].of, requests[h].session)
       \/ UNCHANGED rows
    /\ Step(h, [requests[h] EXCEPT !.at = "served", !.session = None, !.now = 0])
    /\ UNCHANGED <<vars, clock, sessions, failures, keys, issued, ended>>

\* The handler behind authenticateAPIKey runs and answers.
serve(h) ==
    /\ requests[h].at = "served"
    /\ Respond(h)
    /\ UNCHANGED data

\* Mutant: only the row is deleted.
destroyRowOnly(h) ==
    /\ requests[h].at = "served" /\ requests[h].of \in Tokens
    /\ Continue(h, "DeleteUISession")
    /\ UNCHANGED data

\* handleUISessionDelete: destroy, first the entry, then the row, whose error
\* is ignored.
destroy(h) ==
    /\ requests[h].at = "served" /\ requests[h].of \in Tokens
    /\ sessions' = Removed(requests[h].of)
    /\ Continue(h, "DeleteUISession")
    /\ UNCHANGED <<vars, clock, rows, failures, keys, issued, ended>>

DeleteUISession(h) ==
    /\ requests[h].at = "DeleteUISession"
    /\ \/ /\ rows' = [rows EXCEPT ![requests[h].of] = None]
          /\ ended' = IF h \in alone THEN ended \cup {requests[h].of} ELSE ended
       \/ UNCHANGED <<rows, ended>>
    /\ Respond(h)
    /\ UNCHANGED <<vars, clock, sessions, failures, keys, issued>>

----------------------------------------------------------------------------
(* API keys. *)

Active(k) == keys[k] \in Roles

\* The API creates read-only keys, the CLI keys of either role.
CreateAPIKey(h, k, role) ==
    /\ Free(h) /\ keys[k] = "none"
    /\ keys' = [keys EXCEPT ![k] = role]
    /\ UNCHANGED <<vars, clock, sessions, rows, failures, requests, issued, ended>>

RevokeAPIKey(h, k) ==
    /\ Free(h) /\ Active(k)
    /\ keys' = [keys EXCEPT ![k] = "revoked"]
    /\ UNCHANGED <<vars, clock, sessions, rows, failures, requests, issued, ended>>

SetAPIKeyRole(h, k, role) ==
    /\ Free(h) /\ Active(k)
    /\ keys' = [keys EXCEPT ![k] = role]
    /\ UNCHANGED <<vars, clock, sessions, rows, failures, requests, issued, ended>>

\* The read of the active keys: the one that matches, and its role.
AuthenticateAPIKey(h, k) ==
    /\ Free(h) /\ Active(k)
    /\ Step(h, [NoRequest EXCEPT !.at = "recordUse", !.of = k, !.role = keys[k]])
    /\ UNCHANGED data

\* Mutant: the number of rows changed is not looked at.
recordUseUnchecked(h) ==
    /\ requests[h].at = "recordUse"
    /\ Continue(h, "served")
    /\ UNCHANGED data

\* The update of last_used_at finds the key only while it is not revoked.
recordUse(h) ==
    /\ requests[h].at = "recordUse"
    /\ \/ Active(requests[h].of) /\ Continue(h, "served")
       \/ Respond(h)
    /\ UNCHANGED data

----------------------------------------------------------------------------
(* Time, restart, and the specification. *)

Tick ==
    /\ clock < MaxTime
    /\ clock' = clock + 1
    /\ UNCHANGED <<vars, sessions, rows, failures, keys, requests, issued, ended>>

\* The service stops and starts again: the tables stay.
Restart ==
    /\ sessions' = [t \in Tokens |-> None]
    /\ failures' = [u \in UserIDs |-> None]
    /\ requests' = [h \in Handlers |-> NoRequest]
    /\ calls' = [h \in Handlers |-> Idle]
    /\ UNCHANGED <<users, initial, clock, rows, keys, issued, ended>>

Manage(h) ==
    /\ requests[h] = NoRequest
    /\ Setup(h) \/ Administer(h) \/ Abort(h)
    /\ UNCHANGED <<clock, sessions, rows, failures, keys, requests, issued, ended>>

Login(h) ==
    \/ \E u \in UserIDs : retryAfter(h, u)
    \/ AuthenticateUser(h) \/ record(h) \/ store(h)
    \/ \E t \in Tokens : createUser(h, t)

UseSession(h) ==
    \/ \E t \in Tokens : lookUp(h, t)
    \/ UISession(h) \/ insert(h) \/ ActiveUserPrincipal(h) \/ drop(h)
    \/ refresh(h) \/ SaveUISession(h) \/ serve(h)
    \/ destroy(h) \/ DeleteUISession(h)

UseKey(h) ==
    \/ \E k \in KeyIDs : RevokeAPIKey(h, k) \/ AuthenticateAPIKey(h, k)
    \/ \E k \in KeyIDs, role \in Roles : CreateAPIKey(h, k, role) \/ SetAPIKeyRole(h, k, role)
    \/ recordUse(h)

\* The roles the principal of request r has now, if it is active.
Holds(r) ==
    IF r.of \in KeyIDs THEN {keys[r.of]} \cap Roles
    ELSE IF r.of \in Tokens /\ issued[r.of] # None /\ Enabled(issued[r.of].user)
    THEN {users[issued[r.of].user].role} ELSE {}

\* h is inside authenticate with token t.
Authenticating(h, t) ==
    /\ requests[h].of = t
    /\ requests[h].at \in {"UISession", "insert", "ActiveUserPrincipal", "drop",
                           "refresh", "SaveUISession"}

Observe ==
    /\ current' = [h \in Handlers |->
                     IF requests'[h].at = "idle" THEN {} ELSE current[h] \cup Holds(requests[h])']
    /\ alone' = {h \in Handlers :
                  /\ requests'[h].at = "DeleteUISession"
                  /\ requests[h].at = "DeleteUISession" => h \in alone
                  /\ \A g \in Handlers : ~Authenticating(g, requests[h].of)'}

AccessNext ==
    /\ \/ \E h \in Handlers : Manage(h) \/ Login(h) \/ UseSession(h) \/ UseKey(h)
       \/ Tick
       \/ Restart
    /\ Observe

AccessSpec == AccessInit /\ [][AccessNext]_accessVars
----------------------------------------------------------------------------
(* Properties. *)

Requests == [at : {"idle", "AuthenticateUser", "record", "create", "store", "UISession",
                   "insert", "ActiveUserPrincipal", "drop", "refresh", "SaveUISession",
                   "served", "DeleteUISession", "recordUse"},
             of : Tokens \cup UserIDs \cup KeyIDs \cup {None}, now : Nat,
             session : Sessions \cup {None}, role : Roles \cup {"none"}]

\* Entries, rows and requests are well-formed: what a request carries from one
\* statement to the next is a session, a user or an active key's role.
AccessTypeOK ==
    /\ clock \in Nat
    /\ sessions \in [Tokens -> Sessions \cup {None}]
    /\ rows \in [Tokens -> Sessions \cup {None}]
    /\ failures \in [UserIDs -> Failures \cup {None}]
    /\ keys \in [KeyIDs -> Roles \cup {"none", "revoked"}]
    /\ requests \in [Handlers -> Requests]
    /\ issued \in [Tokens -> Grants \cup {None}]
    /\ current \in [Handlers -> SUBSET Roles]
    /\ alone \subseteq Handlers /\ ended \subseteq Tokens

\* A request is served with a role that its user or key had, while enabled or
\* not revoked, at some moment since the request began: nothing cached in
\* memory, in a row or by an earlier request outlives a change of the role, a
\* disabled user or a revoked key (authenticate, AuthenticateAPIKey).
ServedAsCurrent ==
    \A h \in Handlers : requests[h].at = "served" => requests[h].role \in current[h]

\* A key that is revoked never authenticates: the request is accepted in a state
\* in which the key is active (AuthenticateAPIKey, "Revoked keys never
\* authenticate.").
RevokedKeyRefused ==
    [][\A h \in Handlers :
         requests[h].at # "served" /\ requests'[h].at = "served" /\ requests[h].of \in KeyIDs
           => Active(requests[h].of)]_accessVars

\* A session is accepted only within uiSessionAbsoluteTTL of the login and
\* within uiSessionIdleTTL of the last request accepted before, through
\* restarts, evictions and saves that come late or never (expired).
AcceptedInTime ==
    [][\A h \in Handlers :
         requests[h].at # "SaveUISession" /\ requests'[h].at = "SaveUISession"
           => LET i == issued[requests[h].of] IN
              /\ requests[h].now < i.at + uiSessionAbsoluteTTL
              /\ requests[h].now < i.last + uiSessionIdleTTL]_accessVars

\* A logout whose row was deleted, and that no request of the same session has
\* overlapped, is final: neither the memory, nor the row, nor a late save lets
\* another request pass with its token (destroy).
LogoutIsFinal ==
    \A h \in Handlers : requests[h].of \in ended =>
      requests[h].at \notin {"insert", "ActiveUserPrincipal", "refresh", "SaveUISession"}

\* Attempts that overlap pass the limiter together, but no entry of the table counts
\* more failures than the limit and one for every other handler: for as long as its
\* entry is kept, a name fails no more often in a window (retryAfter, record).  An
\* entry that record evicts at uiAuthFailureMaximum, be it the oldest of another name
\* or the name's own, takes its count with it, and the name begins at one again.
FailuresBounded ==
    \A u \in Entries(failures) :
      failures[u].count <= uiAuthFailureLimit + Cardinality(Handlers) - 1
=============================================================================
