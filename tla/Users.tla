------------------------------- MODULE Users -------------------------------
(***************************************************************************)
(* The users table and the operations of the management API and the CLI    *)
(* that change it: initial setup, creation, enabling, disabling, roles.    *)
(*                                                                         *)
(* Every SQL statement is an action: these operations use no transaction   *)
(* (CreateInitialAdmin excepted), and a handler gives the only database    *)
(* connection back after each statement, so that the statements of other   *)
(* handlers come in between.  Users are never deleted.  Passwords, names   *)
(* and login times are left out.                                           *)
(***************************************************************************)
EXTENDS Integers, FiniteSets

CONSTANTS UserIDs,   \* users
          Handlers,  \* requests and CLI commands that can run at the same time
          NoUser     \* the user does not exist

Roles == {"admin", "read-only"}
Rows == [role : Roles, enabled : BOOLEAN]

ASSUME NoUserAssumption == NoUser \notin Rows

VARIABLES
    users,   \* users[u]: the row, or NoUser
    calls,   \* calls[h]: the statement h executes next, and its arguments
    initial  \* history: the users the initial setup has created

vars == <<users, calls, initial>>

Idle == [step |-> "idle"]
At(step, u) == [step |-> step, user |-> u]
AtRole(step, u, r) == [step |-> step, user |-> u, role |-> r]

Init ==
    /\ users = [u \in UserIDs |-> NoUser]
    /\ calls = [h \in Handlers |-> Idle]
    /\ initial = {}

Existing == {u \in UserIDs : users[u] # NoUser}
EnabledAdmins == {u \in Existing : users[u].role = "admin" /\ users[u].enabled}
NewUser(role) == [role |-> role, enabled |-> TRUE]

Goto(h, call) == calls' = [calls EXCEPT ![h] = call]
Return(h) == Goto(h, Idle)
Begin(h) == calls[h].step = "idle"

----------------------------------------------------------------------------
(* Initial setup. *)

\* handleUserSetup: HasUsers.
HasUsers(h) ==
    /\ Begin(h) /\ Existing = {}
    /\ Goto(h, [step |-> "setup"])
    /\ UNCHANGED <<users, initial>>

\* Mutant: the handler's own check is taken to be enough.
CreateInitialAdminUnchecked(h, u) ==
    /\ calls[h].step = "setup" /\ users[u] = NoUser
    /\ users' = [users EXCEPT ![u] = NewUser("admin")]
    /\ initial' = initial \cup {u}
    /\ Return(h)

\* CreateInitialAdmin counts and inserts in one transaction.
CreateInitialAdmin(h, u) ==
    /\ calls[h].step = "setup" /\ users[u] = NoUser
    /\ IF Existing = {}
       THEN /\ users' = [users EXCEPT ![u] = NewUser("admin")]
            /\ initial' = initial \cup {u}
       ELSE UNCHANGED <<users, initial>>
    /\ Return(h)

----------------------------------------------------------------------------
(* Administration. *)

\* The API creates read-only users, the CLI users of either role.
CreateUser(h, u, role) ==
    /\ Begin(h) /\ users[u] = NoUser
    /\ users' = [users EXCEPT ![u] = NewUser(role)]
    /\ UNCHANGED <<calls, initial>>

\* SetUserEnabled(u, true).
Enable(h, u) ==
    /\ Begin(h) /\ u \in Existing
    /\ users' = [users EXCEPT ![u] = [@ EXCEPT !.enabled = TRUE]]
    /\ UNCHANGED <<calls, initial>>

\* SetUserEnabled(u, false), the read of the role.
ReadRole(h, u) ==
    /\ Begin(h) /\ u \in Existing
    /\ Goto(h, At(IF users[u].role = "admin" THEN "countEnabled"
                  ELSE "updateEnabled", u))
    /\ UNCHANGED <<users, initial>>

\* SetUserRole(u, role), the read of the role and the state.
ReadRoleEnabled(h, u, role) ==
    /\ Begin(h) /\ u \in Existing /\ users[u].role # role
    /\ Goto(h, AtRole(IF users[u].role = "admin" /\ users[u].enabled
                      THEN "countRole" ELSE "updateRole", u, role))
    /\ UNCHANGED <<users, initial>>

\* The administrators that have to be enabled for one of them to go.
Spare == Cardinality(EnabledAdmins) > 1

\* The count of enabled administrators.
CountEnabled(h) ==
    /\ calls[h].step = "countEnabled"
    /\ IF Spare THEN Goto(h, At("updateEnabled", calls[h].user)) ELSE Return(h)
    /\ UNCHANGED <<users, initial>>

CountRole(h) ==
    /\ calls[h].step = "countRole"
    /\ IF Spare THEN Goto(h, AtRole("updateRole", calls[h].user, calls[h].role))
       ELSE Return(h)
    /\ UNCHANGED <<users, initial>>

UpdateEnabled(h) ==
    /\ calls[h].step = "updateEnabled"
    /\ users' = [users EXCEPT ![calls[h].user] = [@ EXCEPT !.enabled = FALSE]]
    /\ Return(h)
    /\ UNCHANGED initial

UpdateRole(h) ==
    /\ calls[h].step = "updateRole"
    /\ users' = [users EXCEPT ![calls[h].user] = [@ EXCEPT !.role = calls[h].role]]
    /\ Return(h)
    /\ UNCHANGED initial

\* The client goes away, a statement fails, or the process stops.
Abort(h) ==
    /\ ~Begin(h)
    /\ Return(h)
    /\ UNCHANGED <<users, initial>>

----------------------------------------------------------------------------
Setup(h) == HasUsers(h) \/ \E u \in UserIDs : CreateInitialAdmin(h, u)
Administer(h) ==
    \/ \E u \in UserIDs : Enable(h, u) \/ ReadRole(h, u)
    \/ \E u \in UserIDs, role \in Roles :
         CreateUser(h, u, role) \/ ReadRoleEnabled(h, u, role)
    \/ CountEnabled(h) \/ CountRole(h) \/ UpdateEnabled(h) \/ UpdateRole(h)

Next == \E h \in Handlers : Setup(h) \/ Administer(h) \/ Abort(h)

Spec == Init /\ [][Next]_vars
----------------------------------------------------------------------------
(* Properties. *)

Calls == {Idle, [step |-> "setup"]}
           \cup {At(s, u) : s \in {"countEnabled", "updateEnabled"}, u \in UserIDs}
           \cup {AtRole(s, u, r) : s \in {"countRole", "updateRole"},
                                   u \in UserIDs, r \in Roles}

\* Rows and calls are well-formed, and a call works on a user that exists.
TypeOK ==
    /\ users \in [UserIDs -> Rows \cup {NoUser}]
    /\ calls \in [Handlers -> Calls]
    /\ initial \subseteq Existing
    /\ \A h \in Handlers :
         calls[h].step \notin {"idle", "setup"} => calls[h].user \in Existing

\* However many setup requests pass the first check together, the initial setup
\* creates one administrator (CreateInitialAdmin).
OneInitialAdmin == \A u, v \in initial : u = v

\* The last enabled administrator is neither disabled nor demoted
\* (SetUserEnabled, SetUserRole): once there is one, there always is one.
HasAdmin == EnabledAdmins # {}
AdminRemains == [][HasAdmin => HasAdmin']_vars
=============================================================================
