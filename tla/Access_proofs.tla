---------------------------- MODULE Access_proofs ---------------------------
(***************************************************************************)
(* Proofs about Users and Access, for any number of users, tokens, keys    *)
(* and handlers and for any lifetimes and limits.                          *)
(***************************************************************************)
EXTENDS Access, TLAPS, FiniteSetTheorems

----------------------------------------------------------------------------
(* Users. *)

\* The calls, by what their next statement needs.
LEMMA CallForms ==
    /\ Idle \in Calls /\ Idle.step = "idle"
    /\ [step |-> "setup"] \in Calls /\ [step |-> "setup"].step = "setup"
    /\ \A u \in UserIDs, s \in {"countEnabled", "updateEnabled"} :
         At(s, u) \in Calls /\ At(s, u).step = s /\ At(s, u).user = u
    /\ \A u \in UserIDs, r \in Roles, s \in {"countRole", "updateRole"} :
         /\ AtRole(s, u, r) \in Calls /\ AtRole(s, u, r).step = s
         /\ AtRole(s, u, r).user = u /\ AtRole(s, u, r).role = r
<1>1. Idle \in Calls /\ Idle.step = "idle"
  BY DEF Calls, Idle
<1>2. [step |-> "setup"] \in Calls /\ [step |-> "setup"].step = "setup"
  BY DEF Calls
<1>3. ASSUME NEW u \in UserIDs, NEW s \in {"countEnabled", "updateEnabled"}
      PROVE  At(s, u) \in Calls /\ At(s, u).step = s /\ At(s, u).user = u
  <2>1. At(s, u) \in Calls
    BY DEF Calls
  <2> QED BY <2>1, Zenon DEF At
<1>4. ASSUME NEW u \in UserIDs, NEW r \in Roles, NEW s \in {"countRole", "updateRole"}
      PROVE  /\ AtRole(s, u, r) \in Calls /\ AtRole(s, u, r).step = s
             /\ AtRole(s, u, r).user = u /\ AtRole(s, u, r).role = r
  <2>1. AtRole(s, u, r) \in Calls
    BY DEF Calls
  <2> QED BY <2>1, Zenon DEF AtRole
<1> QED BY <1>1, <1>2, <1>3, <1>4, Zenon

\* The fields of a call that works on a user.
LEMMA CallFields ==
    ASSUME NEW c \in Calls
    PROVE  /\ c.step \in {"countEnabled", "updateEnabled", "countRole", "updateRole"}
                => c.user \in UserIDs
           /\ c.step \in {"countRole", "updateRole"} => c.role \in Roles
           /\ c.step \in {"idle", "setup", "countEnabled", "updateEnabled",
                          "countRole", "updateRole"}
  BY DEF Calls, Idle, At, AtRole

\* The types, and that the setup has created at most one user.
IInv ==
    /\ TypeOK
    /\ OneInitialAdmin

\* A step that keeps the rows of all users who exist.
LEMMA ReturnType ==
    ASSUME TypeOK, NEW h \in Handlers, NEW c \in Calls, Goto(h, c),
           c.step \notin {"idle", "setup"} => c.user \in Existing',
           users' \in [UserIDs -> Rows \cup {NoUser}], Existing \subseteq Existing',
           initial' \subseteq Existing'
    PROVE  TypeOK'
<1>1. calls' \in [Handlers -> Calls]
  BY Zenon DEF TypeOK, Goto
<1>2. \A g \in Handlers : calls'[g] = IF g = h THEN c ELSE calls[g]
  BY Zenon DEF TypeOK, Goto
<1> QED BY <1>1, <1>2, Zenon DEF TypeOK

\* Nobody's row disappears when one row is written.
LEMMA WriteRow ==
    ASSUME TypeOK, NEW u \in UserIDs, NEW row \in Rows,
           users' = [users EXCEPT ![u] = row]
    PROVE  /\ users' \in [UserIDs -> Rows \cup {NoUser}]
           /\ Existing' = Existing \cup {u}
  BY NoUserAssumption, Zenon DEF TypeOK, Existing

\* A row with one column changed is a row.
LEMMA ChangeRow ==
    ASSUME TypeOK, NEW u \in Existing
    PROVE  /\ users[u] \in Rows /\ u \in UserIDs
           /\ \A b \in BOOLEAN : [users[u] EXCEPT !.enabled = b] \in Rows
           /\ \A r \in Roles : [users[u] EXCEPT !.role = r] \in Rows
  BY Zenon DEF TypeOK, Existing, Rows

\* Every step preserves the invariant.
LEMMA NextIInv == IInv /\ [Next]_vars => IInv'
<1> SUFFICES ASSUME IInv, [Next]_vars PROVE IInv'
  BY Zenon
<1> USE DEF IInv
<1>1. ASSUME NEW h \in Handlers, HasUsers(h) PROVE IInv'
  <2>1. Existing' = Existing
    BY <1>1, Zenon DEF HasUsers, Existing
  <2> QED BY <1>1, <2>1, CallForms, ReturnType, Zenon
          DEF HasUsers, OneInitialAdmin, TypeOK
<1>2. ASSUME NEW h \in Handlers, NEW u \in UserIDs, CreateInitialAdmin(h, u)
      PROVE  IInv'
  <2>1. CASE Existing = {}
    <3>1. NewUser("admin") \in Rows
      BY Zenon DEF NewUser, Rows, Roles
    <3>2. users' = [users EXCEPT ![u] = NewUser("admin")] /\ initial' = {u}
          /\ Goto(h, Idle)
      BY <1>2, <2>1, Zenon DEF CreateInitialAdmin, TypeOK, Return
    <3>3. users' \in [UserIDs -> Rows \cup {NoUser}] /\ Existing' = Existing \cup {u}
      BY <3>1, <3>2, WriteRow, Zenon
    <3>4. TypeOK'
      BY <3>2, <3>3, CallForms, ReturnType, Zenon
    <3> QED BY <3>2, <3>4, Zenon DEF OneInitialAdmin
  <2>2. CASE Existing # {}
    <3>1. UNCHANGED <<users, initial>> /\ Goto(h, Idle)
      BY <1>2, <2>2, Zenon DEF CreateInitialAdmin, Return
    <3>2. Existing' = Existing
      BY <3>1, Zenon DEF Existing
    <3> QED BY <3>1, <3>2, CallForms, ReturnType DEF OneInitialAdmin, TypeOK
  <2> QED BY <2>1, <2>2, Zenon
<1>3. ASSUME NEW h \in Handlers, NEW u \in UserIDs, NEW role \in Roles,
             CreateUser(h, u, role)
      PROVE  IInv'
  <2>1. NewUser(role) \in Rows
    BY Zenon DEF NewUser, Rows
  <2>2. users' \in [UserIDs -> Rows \cup {NoUser}] /\ Existing' = Existing \cup {u}
    BY <1>3, <2>1, WriteRow, Zenon DEF CreateUser
  <2> QED BY <1>3, <2>2, Zenon DEF CreateUser, OneInitialAdmin, TypeOK
<1>4. ASSUME NEW h \in Handlers, NEW u \in UserIDs, Enable(h, u) PROVE IInv'
  <2>1. [users[u] EXCEPT !.enabled = TRUE] \in Rows /\ u \in Existing
    BY <1>4, ChangeRow, Zenon DEF Enable
  <2>2. users' = [users EXCEPT ![u] = [users[u] EXCEPT !.enabled = TRUE]]
    BY <1>4, Zenon DEF Enable
  <2>3. users' \in [UserIDs -> Rows \cup {NoUser}] /\ Existing' = Existing \cup {u}
    BY <2>1, <2>2, WriteRow, Zenon
  <2> QED BY <1>4, <2>3, Zenon DEF Enable, OneInitialAdmin, TypeOK
<1>5. ASSUME NEW h \in Handlers, NEW c \in Calls, Goto(h, c),
             c.step \notin {"idle", "setup"} => c.user \in Existing,
             UNCHANGED <<users, initial>>
      PROVE  IInv'
  <2>1. Existing' = Existing
    BY <1>5, Zenon DEF Existing
  <2> QED BY <1>5, <2>1, ReturnType, Zenon DEF OneInitialAdmin, TypeOK
<1>6. ASSUME NEW h \in Handlers, NEW u \in UserIDs, ReadRole(h, u) PROVE IInv'
  BY <1>5, <1>6, CallForms DEF ReadRole
<1>7. ASSUME NEW h \in Handlers, NEW u \in UserIDs, NEW role \in Roles,
             ReadRoleEnabled(h, u, role)
      PROVE  IInv'
  BY <1>5, <1>7, CallForms DEF ReadRoleEnabled
<1>8. ASSUME NEW h \in Handlers, CountEnabled(h) \/ CountRole(h) \/ Abort(h)
      PROVE  IInv'
  <2>1. calls[h] \in Calls
        /\ (calls[h].step \notin {"idle", "setup"} => calls[h].user \in Existing)
    BY Zenon DEF TypeOK
  <2>2. CASE CountEnabled(h)
    BY <1>5, <2>1, <2>2, CallForms, CallFields DEF CountEnabled, Return
  <2>3. CASE CountRole(h)
    BY <1>5, <2>1, <2>3, CallForms, CallFields DEF CountRole, Return
  <2>4. CASE Abort(h)
    BY <1>5, <2>4, CallForms, Zenon DEF Abort, Return
  <2> QED BY <1>8, <2>2, <2>3, <2>4, Zenon
<1>9. ASSUME NEW h \in Handlers, UpdateEnabled(h) \/ UpdateRole(h) PROVE IInv'
  <2> DEFINE u == calls[h].user
             row == IF UpdateEnabled(h) THEN [users[u] EXCEPT !.enabled = FALSE]
                    ELSE [users[u] EXCEPT !.role = calls[h].role]
  <2>1. u \in Existing /\ (calls[h].step = "updateRole" => calls[h].role \in Roles)
    BY <1>9, CallFields, Zenon DEF TypeOK, UpdateEnabled, UpdateRole
  <2>2. row \in Rows /\ u \in UserIDs
    BY <1>9, <2>1, ChangeRow, Zenon DEF UpdateRole
  <2>3. users' = [users EXCEPT ![u] = row] /\ Goto(h, Idle) /\ UNCHANGED initial
    BY <1>9, Zenon DEF UpdateEnabled, UpdateRole, Return
  <2> HIDE DEF row
  <2>4. users' \in [UserIDs -> Rows \cup {NoUser}] /\ Existing' = Existing \cup {u}
    BY <2>1, <2>2, <2>3, WriteRow, Zenon
  <2> QED BY <2>3, <2>4, CallForms, ReturnType DEF OneInitialAdmin, TypeOK
<1>10. CASE UNCHANGED vars
  BY <1>10, Zenon DEF vars, TypeOK, OneInitialAdmin, Existing
<1> QED
  BY <1>1, <1>2, <1>3, <1>4, <1>6, <1>7, <1>8, <1>9, <1>10, Zenon
  DEF Next, Setup, Administer

\* The empty table satisfies the invariant.
LEMMA InitIInv == Init => IInv
<1> SUFFICES ASSUME Init PROVE IInv
  BY Zenon
<1>1. Existing = {}
  BY Zenon DEF Init, Existing
<1> QED BY <1>1, CallForms, Zenon DEF Init, IInv, TypeOK, OneInitialAdmin

\* Rows and calls are well-formed, and calls work on users that exist.
THEOREM TypeCorrect == Spec => []TypeOK
<1>1. IInv => TypeOK
  BY Zenon DEF IInv
<1> QED BY <1>1, InitIInv, NextIInv, PTL DEF Spec

\* Any number of concurrent setup requests creates at most one administrator
\* (CreateInitialAdmin counts the users in its own transaction).
THEOREM SetupOnce == Spec => []OneInitialAdmin
<1>1. IInv => OneInitialAdmin
  BY Zenon DEF IInv
<1> QED BY <1>1, InitIInv, NextIInv, PTL DEF Spec

----------------------------------------------------------------------------
(* The last administrator: only a check gone stale takes it away. *)

\* A call that has made its checks and comes to its update.
Checked(h) == calls[h].step \in {"updateEnabled", "updateRole"}

\* What the checks of a call have established when it comes to its update.
GuardInv ==
    \A h \in Handlers :
      Checked(h) /\ calls[h].user \in EnabledAdmins
        => \E v \in EnabledAdmins : v # calls[h].user

\* A step of another call leaves the checks of a call true: between its last
\* check and its update no other call takes an administrator away, and none makes
\* the user of the call an enabled administrator.
ChecksHold ==
    \A h \in Handlers :
      Checked(h) /\ calls'[h] = calls[h]
        => /\ EnabledAdmins \subseteq EnabledAdmins'
           /\ calls[h].user \in EnabledAdmins' => calls[h].user \in EnabledAdmins

\* Two or more administrators are more than any one.
LEMMA SpareOther ==
    ASSUME Spare, NEW u PROVE \E v \in EnabledAdmins : v # u
<1> DEFINE A == EnabledAdmins
<1>1. Cardinality(A) > 1
  BY Zenon DEF Spare
<1> HIDE DEF A
<1> SUFFICES ASSUME A \subseteq {u} PROVE FALSE
  BY Zenon DEF A
<1>2. IsFiniteSet({u}) /\ Cardinality({u}) = 1
  BY FS_Singleton, Zenon
<1>3. IsFiniteSet(A) /\ Cardinality(A) <= Cardinality({u})
  BY <1>2, FS_Subset, Zenon
<1>4. Cardinality(A) \in Nat
  BY <1>3, FS_CardinalityType, Zenon
<1> QED BY <1>1, <1>2, <1>3, <1>4

\* A step of a call establishes what its own checks say, and keeps what the checks
\* of the others have established unless it makes them stale.
LEMMA NextGuard ==
    ASSUME TypeOK, GuardInv, [Next]_vars, [ChecksHold]_vars
    PROVE  GuardInv'
<1> DEFINE Guarded(g) == Checked(g) /\ calls[g].user \in EnabledAdmins
                           => \E v \in EnabledAdmins : v # calls[g].user
<1>1. ASSUME UNCHANGED users PROVE EnabledAdmins' = EnabledAdmins
  BY <1>1, Zenon DEF EnabledAdmins, Existing
<1>2. CASE UNCHANGED vars
  BY <1>1, <1>2, Zenon DEF vars, GuardInv, Checked
<1>3. ASSUME NEW g \in Handlers, ChecksHold, calls'[g] = calls[g]
      PROVE  Guarded(g)'
  <2> SUFFICES ASSUME Checked(g)', (calls[g].user \in EnabledAdmins)'
               PROVE  \E v \in EnabledAdmins' : v # calls'[g].user
    BY Zenon
  <2>1. Checked(g) /\ calls[g].user \in EnabledAdmins'
    BY <1>3, Zenon DEF Checked
  <2>2. EnabledAdmins \subseteq EnabledAdmins' /\ calls[g].user \in EnabledAdmins
    BY <1>3, <2>1, Zenon DEF ChecksHold
  <2>3. PICK v \in EnabledAdmins : v # calls[g].user
    BY <2>1, <2>2, Zenon DEF GuardInv
  <2> QED BY <1>3, <2>2, <2>3, Zenon
<1>4. ASSUME NEW h \in Handlers, NEW c \in Calls, ChecksHold, Goto(h, c),
             c.step \in {"updateEnabled", "updateRole"} /\ c.user \in EnabledAdmins'
               => \E v \in EnabledAdmins' : v # c.user
      PROVE  GuardInv'
  <2> SUFFICES ASSUME NEW g \in Handlers PROVE Guarded(g)'
    BY Zenon DEF GuardInv
  <2>1. CASE g = h
    <3>1. calls'[g] = c
      BY <1>4, <2>1, Zenon DEF Goto, TypeOK
    <3> QED BY <1>4, <3>1, Zenon DEF Checked
  <2>2. CASE g # h
    <3>1. calls'[g] = calls[g]
      BY <1>4, <2>2, Zenon DEF Goto, TypeOK
    <3> QED BY <1>3, <1>4, <3>1, Zenon
  <2> QED BY <2>1, <2>2, Zenon
<1>5. ASSUME ChecksHold, UNCHANGED calls PROVE GuardInv'
  <2> SUFFICES ASSUME NEW g \in Handlers PROVE Guarded(g)'
    BY Zenon DEF GuardInv
  <2> QED BY <1>3, <1>5, Zenon
<1>6. ASSUME ChecksHold, NEW h \in Handlers, NEW u \in UserIDs, ReadRole(h, u)
      PROVE  GuardInv'
  <2>1. CASE users[u].role = "admin"
    <3>1. Goto(h, At("countEnabled", u))
      BY <1>6, <2>1, Zenon DEF ReadRole
    <3>2. At("countEnabled", u) \in Calls /\ At("countEnabled", u).step = "countEnabled"
      BY CallForms, Zenon
    <3> QED BY <1>4, <1>6, <3>1, <3>2, Zenon
  <2>2. CASE users[u].role # "admin"
    <3>1. Goto(h, At("updateEnabled", u)) /\ UNCHANGED users
      BY <1>6, <2>2, Zenon DEF ReadRole
    <3>2. u \notin EnabledAdmins'
      BY <1>1, <2>2, <3>1, Zenon DEF EnabledAdmins
    <3>3. At("updateEnabled", u) \in Calls /\ At("updateEnabled", u).user = u
      BY CallForms, Zenon
    <3> QED BY <1>4, <1>6, <3>1, <3>2, <3>3, Zenon
  <2> QED BY <2>1, <2>2, Zenon
<1>7. ASSUME ChecksHold, NEW h \in Handlers, NEW u \in UserIDs, NEW r \in Roles,
             ReadRoleEnabled(h, u, r)
      PROVE  GuardInv'
  <2>1. CASE users[u].role = "admin" /\ users[u].enabled
    <3>1. Goto(h, AtRole("countRole", u, r))
      BY <1>7, <2>1, Zenon DEF ReadRoleEnabled
    <3>2. /\ AtRole("countRole", u, r) \in Calls
          /\ AtRole("countRole", u, r).step = "countRole"
      BY CallForms, Zenon
    <3> QED BY <1>4, <1>7, <3>1, <3>2, Zenon
  <2>2. CASE ~(users[u].role = "admin" /\ users[u].enabled)
    <3>1. Goto(h, AtRole("updateRole", u, r)) /\ UNCHANGED users
      BY <1>7, <2>2, Zenon DEF ReadRoleEnabled
    <3>2. u \notin EnabledAdmins'
      BY <1>1, <2>2, <3>1, Zenon DEF EnabledAdmins
    <3>3. AtRole("updateRole", u, r) \in Calls /\ AtRole("updateRole", u, r).user = u
      BY CallForms, Zenon
    <3> QED BY <1>4, <1>7, <3>1, <3>2, <3>3, Zenon
  <2> QED BY <2>1, <2>2, Zenon
<1>8. ASSUME ChecksHold, NEW h \in Handlers, CountEnabled(h) \/ CountRole(h)
      PROVE  GuardInv'
  <2>1. EnabledAdmins' = EnabledAdmins
    BY <1>1, <1>8, Zenon DEF CountEnabled, CountRole
  <2>2. PICK c \in Calls : Goto(h, c) /\ (c = Idle \/ Spare)
    BY <1>8, CallForms, CallFields, Zenon
    DEF CountEnabled, CountRole, Return, TypeOK
  <2>3. CASE c = Idle
    BY <1>4, <1>8, <2>2, <2>3, CallForms, Zenon
  <2>4. CASE Spare
    <3>1. \E v \in EnabledAdmins : v # c.user
      BY <2>4, SpareOther
    <3>2. \E v \in EnabledAdmins' : v # c.user
      BY <2>1, <3>1, Zenon
    <3> QED BY <1>4, <1>8, <2>2, <3>2, Zenon
  <2> QED BY <2>2, <2>3, <2>4, Zenon
<1>9. ASSUME ChecksHold, NEW h \in Handlers, Return(h) PROVE GuardInv'
  BY <1>4, <1>9, CallForms, Zenon DEF Return
<1>10. ASSUME ChecksHold, NEW h \in Handlers, HasUsers(h) PROVE GuardInv'
  BY <1>4, <1>10, CallForms, Zenon DEF HasUsers
<1>11. CASE Next /\ ChecksHold
  BY <1>5, <1>6, <1>7, <1>8, <1>9, <1>10, <1>11, Zenon
  DEF Next, Setup, Administer, Abort, CreateInitialAdmin, CreateUser, Enable,
      UpdateEnabled, UpdateRole
<1> QED BY <1>2, <1>11, Zenon

\* An administrator other than the user whose row is written stays one.
LEMMA OthersStay ==
    ASSUME TypeOK, NEW u \in UserIDs, NEW row, users' = [users EXCEPT ![u] = row],
           NEW v \in EnabledAdmins, v # u
    PROVE  v \in EnabledAdmins'
  BY Zenon DEF TypeOK, EnabledAdmins, Existing

\* No step takes the last administrator away.
LEMMA NextAdmin ==
    ASSUME TypeOK, GuardInv, [Next]_vars PROVE HasAdmin => HasAdmin'
<1> SUFFICES ASSUME HasAdmin PROVE HasAdmin'
  BY Zenon
<1>1. CASE UNCHANGED users
  BY <1>1, Zenon DEF HasAdmin, EnabledAdmins, Existing
<1>2. ASSUME NEW u \in UserIDs, NEW row, users' = [users EXCEPT ![u] = row],
             u \notin EnabledAdmins
      PROVE  HasAdmin'
  <2>1. PICK v \in EnabledAdmins : TRUE
    BY Zenon DEF HasAdmin
  <2> QED BY <1>2, <2>1, OthersStay, Zenon DEF HasAdmin
<1>3. ASSUME NEW h \in Handlers, NEW u \in UserIDs, CreateInitialAdmin(h, u)
      PROVE  HasAdmin'
  BY <1>1, <1>2, <1>3, Zenon DEF CreateInitialAdmin, EnabledAdmins, Existing
<1>4. ASSUME NEW h \in Handlers, NEW u \in UserIDs, NEW r \in Roles,
             CreateUser(h, u, r)
      PROVE  HasAdmin'
  BY <1>2, <1>4, Zenon DEF CreateUser, EnabledAdmins, Existing
<1>5. ASSUME NEW h \in Handlers, NEW u \in UserIDs, Enable(h, u) PROVE HasAdmin'
  <2>1. CASE u \in EnabledAdmins
    <3>1. users[u] \in Rows /\ users[u].enabled = TRUE
      BY <2>1, ChangeRow, Zenon DEF EnabledAdmins, TypeOK, Rows
    <3>2. [users[u] EXCEPT !.enabled = TRUE] = users[u]
      BY <3>1, Zenon DEF Rows
    <3>3. UNCHANGED users
      BY <1>5, <3>2, Zenon DEF Enable, TypeOK
    <3> QED BY <1>1, <3>3, Zenon
  <2>2. CASE u \notin EnabledAdmins
    BY <1>2, <1>5, <2>2, Zenon DEF Enable
  <2> QED BY <2>1, <2>2, Zenon
<1>6. ASSUME NEW h \in Handlers, UpdateEnabled(h) \/ UpdateRole(h) PROVE HasAdmin'
  <2> DEFINE u == calls[h].user
  <2>1. u \in UserIDs
    BY <1>6, CallFields, Zenon DEF TypeOK, UpdateEnabled, UpdateRole
  <2>2. PICK row : users' = [users EXCEPT ![u] = row]
    BY <1>6, Zenon DEF UpdateEnabled, UpdateRole
  <2>3. CASE u \notin EnabledAdmins
    BY <1>2, <2>1, <2>2, <2>3, Zenon
  <2>4. CASE u \in EnabledAdmins
    <3>1. PICK v \in EnabledAdmins : v # u
      BY <1>6, <2>4, Zenon DEF GuardInv, Checked, UpdateEnabled, UpdateRole
    <3> QED BY <2>1, <2>2, <3>1, OthersStay, Zenon DEF HasAdmin
  <2> QED BY <2>3, <2>4, Zenon
<1> QED
  BY <1>1, <1>3, <1>4, <1>5, <1>6, Zenon
  DEF vars, Next, Setup, Administer, Abort, HasUsers, ReadRole, ReadRoleEnabled,
      CountEnabled, CountRole

\* However many calls overlap, the last enabled administrator is disabled or demoted
\* only by a call whose checks another call has made stale: between the last check
\* and the update of SetUserEnabled or SetUserRole the other call took an
\* administrator away, or made the user of the first one an administrator.  Every
\* other overlap (with setup, creation, reads and counts) is harmless.  The code
\* does not rule the stale checks out: see the run users_admin_race.
THEOREM AdminKept == Spec /\ [][ChecksHold]_vars => AdminRemains
<1>1. Init => GuardInv
  BY CallForms DEF Init, GuardInv, Checked
<1>2. TypeOK /\ GuardInv /\ [Next]_vars /\ [ChecksHold]_vars => GuardInv'
  BY NextGuard, Zenon
<1>3. TypeOK /\ GuardInv /\ [Next]_vars => [HasAdmin => HasAdmin']_vars
  BY NextAdmin, Zenon
<1> QED BY <1>1, <1>2, <1>3, TypeCorrect, PTL DEF Spec, AdminRemains

----------------------------------------------------------------------------
(* Access: the inductive invariant. *)

\* Session s is the one that was granted as i.
Consistent(s, i) == s.user = i.user /\ s.created = i.at /\ s.seen <= i.last

\* What a request holds where it is, given the grants and the entries in memory.
Proper(r, grants, entries) ==
    /\ r.at \in {"AuthenticateUser", "record", "create"} => r.of \in UserIDs
    /\ r.at \in {"store", "UISession", "insert", "ActiveUserPrincipal", "drop",
                 "refresh", "SaveUISession", "DeleteUISession"} => r.of \in Tokens
    /\ r.at = "recordUse" => r.of \in KeyIDs
    /\ r.at = "served" => r.of \in Tokens \cup KeyIDs
    /\ r.at \in {"store", "insert", "ActiveUserPrincipal", "SaveUISession"}
         => r.session \in Sessions
    /\ r.at \in {"UISession", "insert", "ActiveUserPrincipal", "drop", "refresh",
                 "SaveUISession", "served", "DeleteUISession"} /\ r.of \in Tokens
         => grants[r.of] # None
    /\ r.at \in {"insert", "ActiveUserPrincipal", "SaveUISession"}
         => Consistent(r.session, grants[r.of])
    /\ r.at = "store" => /\ grants[r.of] = None
                         /\ r.session.seen = r.session.created
                         /\ entries[r.of] \in {None, r.session}

\* The entry and the row of a token are those of its login.
TokenInv ==
    \A t \in Tokens :
      /\ issued[t] = None => rows[t] = None
      /\ issued[t] # None /\ sessions[t] # None => Consistent(sessions[t], issued[t])
      /\ issued[t] # None /\ rows[t] # None => Consistent(rows[t], issued[t])

\* So are the copies that requests hold, and no token is drawn twice.
SessionInv ==
    /\ TokenInv
    /\ \A h \in Handlers : Proper(requests[h], issued, sessions)
    /\ \A g, h \in Handlers :
         requests[g].at = "store" /\ requests[h].at = "store"
           /\ requests[g].of = requests[h].of => g = h

\* The types of the program's state.
DataOK ==
    /\ clock \in Nat
    /\ sessions \in [Tokens -> Sessions \cup {None}]
    /\ rows \in [Tokens -> Sessions \cup {None}]
    /\ failures \in [UserIDs -> Failures \cup {None}]
    /\ keys \in [KeyIDs -> Roles \cup {"none", "revoked"}]
    /\ requests \in [Handlers -> Requests]
    /\ issued \in [Tokens -> Grants \cup {None}]

----------------------------------------------------------------------------
(* Steps of a request. *)

\* A request is replaced.
LEMMA Stepped ==
    ASSUME DataOK, NEW h \in Handlers, NEW r \in Requests, Step(h, r)
    PROVE  /\ requests' \in [Handlers -> Requests] /\ requests'[h] = r
           /\ \A g \in Handlers \ {h} : requests'[g] = requests[g]
  BY Zenon DEF DataOK, Step

\* The fields of a request.
LEMMA RequestFields ==
    ASSUME NEW r \in Requests
    PROVE  /\ r.now \in Nat /\ r.session \in Sessions \cup {None}
           /\ r.role \in Roles \cup {"none"}
           /\ r.of \in Tokens \cup UserIDs \cup KeyIDs \cup {None}
  BY Zenon DEF Requests

\* An idle request holds nothing.
LEMMA IdleProper ==
    ASSUME NEW grants, NEW entries PROVE Proper(NoRequest, grants, entries)
  BY Zenon DEF Proper, NoRequest

\* Nothing is taken back from a token that a client has.
Grown ==
    \A t \in Tokens : issued[t] # None =>
      /\ issued'[t] # None /\ issued'[t].user = issued[t].user
      /\ issued'[t].at = issued[t].at /\ issued[t].last <= issued'[t].last

\* A request that does not move stays proper.
LEMMA ProperKept ==
    ASSUME DataOK, issued' \in [Tokens -> Grants \cup {None}],
           NEW r \in Requests, Proper(r, issued, sessions), Grown,
           r.at = "store" => /\ issued'[r.of] = None
                             /\ sessions'[r.of] \in {None, sessions[r.of]}
    PROVE  Proper(r, issued', sessions')
<1>1. ASSUME r.at \in {"insert", "ActiveUserPrincipal", "SaveUISession"}
      PROVE  Consistent(r.session, issued'[r.of])
  <2>1. /\ r.of \in Tokens /\ r.session \in Sessions /\ issued[r.of] # None
        /\ Consistent(r.session, issued[r.of])
    BY <1>1, Zenon DEF Proper
  <2>2. /\ issued[r.of].last \in Nat /\ issued'[r.of].last \in Nat /\ r.session.seen \in Nat
    BY <2>1, Zenon DEF DataOK, Grants, Sessions, Grown
  <2> QED BY <2>1, <2>2 DEF Consistent, Grown
<1> QED BY <1>1, Zenon DEF Proper, Grown

\* One request moves.
LEMMA SessionStep ==
    ASSUME DataOK, SessionInv, NEW h \in Handlers, NEW r \in Requests, Step(h, r),
           issued' \in [Tokens -> Grants \cup {None}], Grown, TokenInv',
           Proper(r, issued', sessions'),
           \A g \in Handlers \ {h} : requests[g].at = "store" =>
             /\ issued'[requests[g].of] = None
             /\ sessions'[requests[g].of] \in {None, sessions[requests[g].of]}
             /\ r.at = "store" => requests[g].of # r.of
    PROVE  SessionInv' /\ requests' \in [Handlers -> Requests]
<1>1. /\ requests' \in [Handlers -> Requests] /\ requests'[h] = r
      /\ \A g \in Handlers \ {h} : requests'[g] = requests[g]
  BY Stepped, Zenon
<1>2. ASSUME NEW g \in Handlers PROVE Proper(requests'[g], issued', sessions')
  <2>1. CASE g = h
    BY <1>1, <2>1, Zenon
  <2>2. CASE g # h
    <3>1. requests[g] \in Requests /\ Proper(requests[g], issued, sessions)
      BY Zenon DEF DataOK, SessionInv
    <3>2. Proper(requests[g], issued', sessions')
      BY <2>2, <3>1, ProperKept, Zenon
    <3> QED BY <1>1, <2>2, <3>2, Zenon
  <2> QED BY <2>1, <2>2, Zenon
<1>3. ASSUME NEW f \in Handlers, NEW g \in Handlers, requests'[f].at = "store",
             requests'[g].at = "store", requests'[f].of = requests'[g].of
      PROVE  f = g
  BY <1>1, <1>3 DEF SessionInv
<1> QED BY <1>1, <1>2, <1>3, Zenon DEF SessionInv

\* One request moves and entries leave the memory.
LEMMA SessionShrink ==
    ASSUME DataOK, SessionInv, NEW h \in Handlers, NEW r \in Requests, Step(h, r),
           UNCHANGED <<issued, rows>>, r.at # "store", Proper(r, issued, sessions'),
           \A t \in Tokens : sessions'[t] \in {None, sessions[t]}
    PROVE  SessionInv' /\ requests' \in [Handlers -> Requests]
<1>1. TokenInv'
  BY Zenon DEF SessionInv, TokenInv
<1>2. Grown
  <2> SUFFICES ASSUME NEW t \in Tokens, issued[t] # None PROVE issued[t].last <= issued[t].last
    BY Zenon DEF Grown
  <2> QED BY DEF DataOK, Grants
<1>3. ASSUME NEW g \in Handlers, requests[g].at = "store"
      PROVE  issued[requests[g].of] = None /\ requests[g].of \in Tokens
  BY <1>3, Zenon DEF SessionInv, Proper
<1>4. issued' \in [Tokens -> Grants \cup {None}]
  BY Zenon DEF DataOK
<1> QED BY <1>1, <1>2, <1>3, <1>4, SessionStep, Zenon

\* One request moves and sessions stay as they are.
LEMMA SessionSame ==
    ASSUME DataOK, SessionInv, NEW h \in Handlers, NEW r \in Requests, Step(h, r),
           UNCHANGED <<issued, rows, sessions>>, r.at # "store", Proper(r, issued, sessions)
    PROVE  SessionInv' /\ requests' \in [Handlers -> Requests]
<1>1. Proper(r, issued, sessions')
  BY Zenon
<1> QED BY <1>1, SessionShrink, Zenon

----------------------------------------------------------------------------
(* Every action keeps the types and the sessions. *)

\* The table of failures keeps its type when old entries go and an attempt is counted.
LEMMA FailureForms ==
    ASSUME DataOK, NEW now \in Nat
    PROVE  /\ Recent(now) \in [UserIDs -> Failures \cup {None}]
           /\ \A f \in [UserIDs -> Failures \cup {None}], u \in UserIDs :
                Counted(f, u, now) \in [UserIDs -> Failures \cup {None}]
<1>1. Recent(now) \in [UserIDs -> Failures \cup {None}]
  BY Zenon DEF DataOK, Recent
<1>2. ASSUME NEW f \in [UserIDs -> Failures \cup {None}], NEW u \in UserIDs
      PROVE  Counted(f, u, now) \in [UserIDs -> Failures \cup {None}]
  <2>1. CASE f[u] = None
    <3>1. [count |-> 1, first |-> now] \in Failures
      BY Zenon DEF Failures
    <3> QED BY <2>1, <3>1, Zenon DEF Counted
  <2>2. CASE f[u] # None
    <3>1. [count |-> f[u].count + 1, first |-> f[u].first] \in Failures
      BY <2>2 DEF Failures
    <3> QED BY <2>2, <3>1, Zenon DEF Counted
  <2> QED BY <2>1, <2>2, Zenon
<1> QED BY <1>1, <1>2, Zenon

\* Expired sessions and a removed one only take entries out of the map.
LEMMA SessionForms ==
    ASSUME DataOK, NEW now
    PROVE  /\ Unexpired(now) \in [Tokens -> Sessions \cup {None}]
           /\ \A t \in Tokens : Unexpired(now)[t] \in {None, sessions[t]}
           /\ \A t \in Tokens : Removed(t) \in [Tokens -> Sessions \cup {None}]
           /\ \A t, v \in Tokens : Removed(t)[v] = IF v = t THEN None ELSE sessions[v]
  BY Zenon DEF DataOK, Unexpired, Removed

\* The limiter, and the answer to a login that fails.
LEMMA LimiterSteps ==
    ASSUME DataOK, SessionInv, NEW h \in Handlers,
           (\E u \in UserIDs : retryAfter(h, u)) \/ record(h)
    PROVE  DataOK' /\ SessionInv'
<1>1. ASSUME NEW u \in UserIDs, retryAfter(h, u) PROVE DataOK' /\ SessionInv'
  <2> DEFINE r == [NoRequest EXCEPT !.at = "AuthenticateUser", !.of = u, !.now = clock]
  <2>1. r \in Requests /\ NoRequest \in Requests
    BY Zenon DEF NoRequest, Requests, DataOK
  <2>2. Proper(r, issued, sessions) /\ r.at # "store" /\ NoRequest.at # "store"
    BY Zenon DEF NoRequest, Proper
  <2>3. Step(h, r) \/ Step(h, NoRequest)
    BY Zenon, <1>1 DEF retryAfter, Respond
  <2>4. UNCHANGED <<issued, rows, sessions, clock, keys>> /\ failures' = Recent(clock)
    BY Zenon, <1>1 DEF retryAfter
  <2> HIDE DEF r
  <2>5. SessionInv' /\ requests' \in [Handlers -> Requests]
    BY <2>1, <2>2, <2>3, <2>4, IdleProper, SessionSame, Zenon
  <2> QED BY <2>4, <2>5, FailureForms, Zenon DEF DataOK
<1>2. ASSUME record(h) PROVE DataOK' /\ SessionInv'
  <2>1. requests[h].of \in UserIDs /\ requests[h].now \in Nat
    BY <1>2, RequestFields, Zenon DEF record, SessionInv, Proper, DataOK
  <2> DEFINE u == requests[h].of
             now == requests[h].now
  <2>2. PICK f \in [UserIDs -> Failures \cup {None}] : failures' = Counted(f, u, now)
    <3>1. Recent(now) \in [UserIDs -> Failures \cup {None}]
      BY <2>1, FailureForms, Zenon
    <3>2. \A v : [Recent(now) EXCEPT ![v] = None] \in [UserIDs -> Failures \cup {None}]
      BY Zenon, <3>1
    <3> QED BY Zenon, <1>2, <3>1, <3>2 DEF record
  <2>3. failures' \in [UserIDs -> Failures \cup {None}]
    BY <2>1, <2>2, FailureForms, Zenon
  <2>4. Step(h, NoRequest) /\ UNCHANGED <<issued, rows, sessions, clock, keys>>
    BY <1>2, Zenon DEF record, Respond
  <2>5. NoRequest \in Requests /\ NoRequest.at # "store"
    BY Zenon DEF NoRequest, Requests
  <2>6. SessionInv' /\ requests' \in [Handlers -> Requests]
    BY <2>4, <2>5, IdleProper, SessionSame, Zenon
  <2> QED BY <2>3, <2>4, <2>6, Zenon DEF DataOK
<1> QED BY <1>1, <1>2, Zenon

\* Steps that change nothing but a request.
LEMMA MoveSteps ==
    ASSUME TypeOK, DataOK, SessionInv, NEW h \in Handlers,
           \/ AuthenticateUser(h) \/ UISession(h) \/ ActiveUserPrincipal(h)
           \/ serve(h) \/ recordUse(h) \/ \E k \in KeyIDs : AuthenticateAPIKey(h, k)
    PROVE  DataOK' /\ SessionInv'
<1>1. requests[h] \in Requests /\ Proper(requests[h], issued, sessions)
  BY Zenon DEF DataOK, SessionInv
<1>2. NoRequest \in Requests /\ NoRequest.at # "store"
  BY Zenon DEF NoRequest, Requests
<1>3. ASSUME NEW r \in Requests, Step(h, r), UNCHANGED data, r.at # "store",
             Proper(r, issued, sessions)
      PROVE  DataOK' /\ SessionInv'
  <2>1. UNCHANGED <<issued, rows, sessions, clock, keys, failures>>
    BY <1>3, Zenon DEF data
  <2>2. SessionInv' /\ requests' \in [Handlers -> Requests]
    BY <1>3, <2>1, SessionSame, Zenon
  <2> QED BY <2>1, <2>2, Zenon DEF DataOK
<1>4. ASSUME Respond(h), UNCHANGED data PROVE DataOK' /\ SessionInv'
  BY <1>2, <1>3, <1>4, IdleProper, Zenon DEF Respond
<1>5. ASSUME AuthenticateUser(h) PROVE DataOK' /\ SessionInv'
  <2>1. requests[h].of \in UserIDs
    BY <1>1, <1>5, Zenon DEF AuthenticateUser, Proper
  <2>2. ASSUME NEW r \in Requests, r.at \in {"create", "record"}, r.of = requests[h].of,
               Step(h, r)
        PROVE  DataOK' /\ SessionInv'
    <3>1. Proper(r, issued, sessions) /\ r.at # "store"
      BY <2>1, <2>2, Zenon DEF Proper
    <3> QED BY Zenon, <1>3, <1>5, <2>2, <3>1 DEF AuthenticateUser
  <2>3. ASSUME NEW now \in requests[h].now..clock,
               Step(h, [requests[h] EXCEPT !.at = "create", !.now = now])
        PROVE  DataOK' /\ SessionInv'
    <3> DEFINE r == [requests[h] EXCEPT !.at = "create", !.now = now]
    <3>1. now \in Nat
      BY <1>1, RequestFields DEF DataOK
    <3>2. r \in Requests /\ r.at = "create" /\ r.of = requests[h].of
      BY Zenon, <1>1, <3>1 DEF Requests
    <3> QED BY Zenon, <2>2, <2>3, <3>2
  <2>4. ASSUME Continue(h, "record") PROVE DataOK' /\ SessionInv'
    <3> DEFINE r == [requests[h] EXCEPT !.at = "record"]
    <3>1. r \in Requests /\ r.at = "record" /\ r.of = requests[h].of
      BY Zenon, <1>1 DEF Requests
    <3> QED BY Zenon, <2>2, <2>4, <3>1 DEF Continue
  <2> QED BY <1>4, <1>5, <2>3, <2>4, Zenon DEF AuthenticateUser
<1>6. ASSUME UISession(h) PROVE DataOK' /\ SessionInv'
  <2>1. CASE rows[requests[h].of] # None
             /\ Step(h, [requests[h] EXCEPT !.at = "insert", !.session = rows[requests[h].of]])
    <3> DEFINE r == [requests[h] EXCEPT !.at = "insert", !.session = rows[requests[h].of]]
    <3>1. requests[h].of \in Tokens /\ issued[requests[h].of] # None
      BY <1>1, <1>6, Zenon DEF UISession, Proper
    <3>2. rows[requests[h].of] \in Sessions
      BY <2>1, <3>1, Zenon DEF DataOK
    <3>3. r \in Requests /\ r.at = "insert" /\ r.of = requests[h].of
          /\ r.session = rows[requests[h].of]
      BY Zenon, <1>1, <3>2 DEF Requests
    <3>4. Consistent(rows[requests[h].of], issued[requests[h].of])
      BY <2>1, <3>1, Zenon DEF SessionInv, TokenInv
    <3>5. Proper(r, issued, sessions) /\ r.at # "store"
      BY <3>1, <3>2, <3>3, <3>4, Zenon DEF Proper
    <3> QED BY Zenon, <1>3, <1>6, <2>1, <3>3, <3>5 DEF UISession
  <2> QED BY <1>4, <1>6, <2>1, Zenon DEF UISession
<1>7. ASSUME ActiveUserPrincipal(h) PROVE DataOK' /\ SessionInv'
  <2>1. requests[h].of \in Tokens /\ issued[requests[h].of] # None
    BY <1>1, <1>7, Zenon DEF ActiveUserPrincipal, Proper
  <2> DEFINE u == requests[h].session.user
             q == [requests[h] EXCEPT !.at = "refresh", !.session = None, !.role = users[u].role]
             r == [requests[h] EXCEPT !.at = "drop", !.session = None]
  <2>2. ASSUME Enabled(u) PROVE users[u].role \in Roles
    BY <2>2, ChangeRow, Zenon DEF Enabled, Rows
  <2>3. CASE Enabled(u) /\ Step(h, q)
    <3>1. q \in Requests /\ q.at = "refresh" /\ q.of = requests[h].of
      BY Zenon, <1>1, <2>2, <2>3 DEF Requests
    <3>2. Proper(q, issued, sessions) /\ q.at # "store"
      BY <2>1, <3>1, Zenon DEF Proper
    <3> QED BY Zenon, <1>3, <1>7, <2>3, <3>1, <3>2 DEF ActiveUserPrincipal
  <2>4. CASE Step(h, r)
    <3>1. r \in Requests /\ r.at = "drop" /\ r.of = requests[h].of
      BY Zenon, <1>1 DEF Requests
    <3>2. Proper(r, issued, sessions) /\ r.at # "store"
      BY <2>1, <3>1, Zenon DEF Proper
    <3> QED BY Zenon, <1>3, <1>7, <2>4, <3>1, <3>2 DEF ActiveUserPrincipal
  <2> QED BY <1>7, <2>3, <2>4, Zenon DEF ActiveUserPrincipal
<1>8. ASSUME serve(h) PROVE DataOK' /\ SessionInv'
  BY <1>4, <1>8, Zenon DEF serve
<1>9. ASSUME recordUse(h) PROVE DataOK' /\ SessionInv'
  <2>1. CASE Continue(h, "served")
    <3> DEFINE r == [requests[h] EXCEPT !.at = "served"]
    <3>1. r \in Requests /\ r.at = "served" /\ r.of = requests[h].of
      BY <1>1, Zenon DEF Requests
    <3>2. requests[h].of \in KeyIDs /\ requests[h].of \notin Tokens
      BY <1>1, <1>9, AccessAssumption, Zenon DEF recordUse, Proper
    <3>3. Proper(r, issued, sessions) /\ r.at # "store"
      BY <3>1, <3>2, Zenon DEF Proper
    <3> QED BY Zenon, <1>3, <1>9, <2>1, <3>1, <3>3 DEF recordUse, Continue
  <2> QED BY <1>4, <1>9, <2>1, Zenon DEF recordUse
<1>10. ASSUME NEW k \in KeyIDs, AuthenticateAPIKey(h, k) PROVE DataOK' /\ SessionInv'
  <2> DEFINE r == [NoRequest EXCEPT !.at = "recordUse", !.of = k, !.role = keys[k]]
  <2>1. r \in Requests /\ r.at = "recordUse" /\ r.of = k
    BY Zenon, <1>10 DEF Requests, NoRequest, AuthenticateAPIKey, Active
  <2>2. Proper(r, issued, sessions) /\ r.at # "store"
    BY <2>1, Zenon DEF Proper
  <2> QED BY Zenon, <1>3, <1>10, <2>1, <2>2 DEF AuthenticateAPIKey
<1> QED BY <1>5, <1>6, <1>7, <1>8, <1>9, <1>10, Zenon

\* Grants that do not change have not shrunk.
LEMMA GrownSame == ASSUME DataOK, UNCHANGED issued PROVE Grown
<1> SUFFICES ASSUME NEW t \in Tokens, issued[t] # None PROVE issued[t].last <= issued[t].last
  BY Zenon DEF Grown
<1> QED BY DEF DataOK, Grants

\* An entry that is removed, or that is looked up.
LEMMA RemoveSteps ==
    ASSUME DataOK, SessionInv, NEW h \in Handlers,
           drop(h) \/ destroy(h) \/ \E t \in Tokens : lookUp(h, t)
    PROVE  DataOK' /\ SessionInv'
<1>1. requests[h] \in Requests /\ Proper(requests[h], issued, sessions)
  BY Zenon DEF DataOK, SessionInv
<1>2. ASSUME NEW r \in Requests, Step(h, r), NEW t \in Tokens, sessions' = Removed(t),
             UNCHANGED <<clock, rows, failures, keys, issued>>, r.at # "store",
             Proper(r, issued, sessions')
      PROVE  DataOK' /\ SessionInv'
  <2>1. /\ sessions' \in [Tokens -> Sessions \cup {None}]
        /\ \A v \in Tokens : sessions'[v] \in {None, sessions[v]}
    BY <1>2, SessionForms, Zenon
  <2>2. SessionInv' /\ requests' \in [Handlers -> Requests]
    BY <1>2, <2>1, SessionShrink, Zenon
  <2> QED BY <1>2, <2>1, <2>2, Zenon DEF DataOK
<1>3. ASSUME drop(h) PROVE DataOK' /\ SessionInv'
  <2>1. NoRequest \in Requests /\ NoRequest.at # "store"
    BY Zenon DEF NoRequest, Requests
  <2>2. requests[h].of \in Tokens
    BY <1>1, <1>3, Zenon DEF drop, Proper
  <2> QED BY <1>2, <1>3, <2>1, <2>2, IdleProper, Zenon DEF drop, Refuse, Respond
<1>4. ASSUME destroy(h) PROVE DataOK' /\ SessionInv'
  <2> DEFINE r == [requests[h] EXCEPT !.at = "DeleteUISession"]
  <2>1. r \in Requests /\ r.at = "DeleteUISession" /\ r.of = requests[h].of
    BY <1>1, Zenon DEF Requests
  <2>2. requests[h].of \in Tokens /\ issued[requests[h].of] # None
    BY <1>1, <1>4, Zenon DEF destroy, Proper
  <2>3. Proper(r, issued, sessions') /\ r.at # "store"
    BY <2>1, <2>2, Zenon DEF Proper
  <2> QED BY Zenon, <1>2, <1>4, <2>1, <2>2, <2>3 DEF destroy, Continue
<1>5. ASSUME NEW t \in Tokens, lookUp(h, t) PROVE DataOK' /\ SessionInv'
  <2> DEFINE r(at) == [[NoRequest EXCEPT !.of = t, !.now = clock, !.session = sessions[t]]
                         EXCEPT !.at = at]
  <2>1. /\ UNCHANGED <<clock, rows, failures, keys, issued>>
        /\ issued[t] # None /\ sessions[t] \in Sessions \cup {None} /\ clock \in Nat
    BY Zenon, <1>5 DEF lookUp, DataOK
  <2>2. CASE sessions[t] = None /\ Step(h, r("UISession")) /\ UNCHANGED sessions
    <3>1. /\ r("UISession") \in Requests /\ r("UISession").at = "UISession"
          /\ r("UISession").of = t
      BY Zenon, <2>1 DEF NoRequest, Requests
    <3>2. Proper(r("UISession"), issued, sessions) /\ r("UISession").at # "store"
      BY <2>1, <3>1, Zenon DEF Proper
    <3> HIDE DEF r
    <3>3. SessionInv' /\ requests' \in [Handlers -> Requests]
      BY <2>1, <2>2, <3>1, <3>2, SessionSame, Zenon
    <3> QED BY <2>1, <2>2, <3>3, Zenon DEF DataOK
  <2>3. CASE sessions' = Removed(t) /\ UNCHANGED requests
    <3>1. Step(h, requests[h])
      BY <2>3, Zenon DEF Step, DataOK
    <3>2. requests[h] = NoRequest
      BY Zenon, <1>5 DEF lookUp, Free
    <3>3. requests[h].at # "store"
      BY <3>2 DEF NoRequest
    <3>4. Proper(requests[h], issued, sessions')
      BY <3>2, IdleProper, Zenon
    <3> QED BY <1>1, <1>2, <2>1, <2>3, <3>1, <3>3, <3>4, Zenon
  <2>4. CASE sessions[t] # None /\ Step(h, r("ActiveUserPrincipal")) /\ UNCHANGED sessions
    <3> DEFINE q == r("ActiveUserPrincipal")
    <3>1. q \in Requests /\ q.at = "ActiveUserPrincipal" /\ q.of = t /\ q.session = sessions[t]
      BY Zenon, <2>1 DEF NoRequest, Requests
    <3>2. Consistent(sessions[t], issued[t]) /\ sessions[t] \in Sessions
      BY <2>1, <2>4, Zenon DEF SessionInv, TokenInv
    <3>3. Step(h, q)
      BY <2>4, Zenon
    <3> HIDE DEF q
    <3>4. Proper(q, issued, sessions) /\ q.at # "store"
      BY <2>1, <3>1, <3>2, Zenon DEF Proper
    <3>5. SessionInv' /\ requests' \in [Handlers -> Requests]
      BY <2>1, <2>4, <3>1, <3>3, <3>4, SessionSame, Zenon
    <3> QED BY <2>1, <2>4, <3>5, Zenon DEF DataOK
  <2> QED BY Zenon, <1>5, <2>2, <2>3, <2>4 DEF lookUp
<1> QED BY <1>3, <1>4, <1>5, Zenon

\* An entry that is written back: what is written is the session of the grant.
LEMMA EntrySteps ==
    ASSUME DataOK, SessionInv, NEW h \in Handlers, insert(h) \/ refresh(h)
    PROVE  DataOK' /\ SessionInv'
<1> DEFINE t == requests[h].of
<1>1. requests[h] \in Requests /\ Proper(requests[h], issued, sessions)
  BY Zenon DEF DataOK, SessionInv
<1>2. /\ t \in Tokens /\ issued[t] # None /\ requests[h].now \in Nat
      /\ issued[t] \in Grants
  BY <1>1, RequestFields, Zenon DEF Proper, insert, refresh, DataOK
<1>3. ASSUME Refuse(h), UNCHANGED <<clock, rows, failures, keys, issued>>
      PROVE  DataOK' /\ SessionInv'
  <2>1. NoRequest \in Requests /\ NoRequest.at # "store"
    BY Zenon DEF NoRequest, Requests
  <2>2. /\ sessions' \in [Tokens -> Sessions \cup {None}]
        /\ \A v \in Tokens : sessions'[v] \in {None, sessions[v]}
    BY <1>2, <1>3, SessionForms DEF Refuse
  <2>3. SessionInv' /\ requests' \in [Handlers -> Requests]
    BY <1>3, <2>1, <2>2, IdleProper, SessionShrink, Zenon DEF Refuse, Respond
  <2> QED BY <1>3, <2>2, <2>3, Zenon DEF DataOK
<1>4. ASSUME NEW s \in Sessions, sessions' = [sessions EXCEPT ![t] = s],
             NEW r \in Requests, Step(h, r), UNCHANGED <<clock, rows, failures, keys>>,
             issued' \in [Tokens -> Grants \cup {None}], Grown,
             \A v \in Tokens \ {t} : issued'[v] = issued[v],
             Consistent(s, issued'[t]), Proper(r, issued', sessions'), r.at # "store"
      PROVE  DataOK' /\ SessionInv'
  <2>1. sessions' \in [Tokens -> Sessions \cup {None}]
    BY Zenon, <1>4 DEF DataOK
  <2>2. TokenInv'
    <3> SUFFICES ASSUME NEW v \in Tokens
                 PROVE  /\ issued'[v] = None => rows'[v] = None
                        /\ issued'[v] # None /\ sessions'[v] # None
                             => Consistent(sessions'[v], issued'[v])
                        /\ issued'[v] # None /\ rows'[v] # None
                             => Consistent(rows'[v], issued'[v])
      BY Zenon DEF TokenInv
    <3>1. CASE v # t
      BY <1>4, <3>1, Zenon DEF SessionInv, TokenInv, DataOK
    <3>2. CASE v = t
      <4>1. sessions'[t] = s /\ issued'[t] # None
        BY <1>2, <1>4, Zenon DEF DataOK, Grown
      <4>2. ASSUME rows[t] # None PROVE Consistent(rows[t], issued'[t])
        <5>1. /\ Consistent(rows[t], issued[t]) /\ rows[t].seen \in Nat
              /\ issued[t].last \in Nat /\ issued'[t].last \in Nat
          BY <1>2, <1>4, <4>1, <4>2 DEF SessionInv, TokenInv, DataOK, Sessions, Grants
        <5> QED BY <1>2, <1>4, <5>1 DEF Consistent, Grown
      <4> QED BY <1>4, <3>2, <4>1, <4>2, Zenon
    <3> QED BY <3>1, <3>2, Zenon
  <2>3. ASSUME NEW g \in Handlers \ {h}, requests[g].at = "store"
        PROVE  /\ issued'[requests[g].of] = None
               /\ sessions'[requests[g].of] = sessions[requests[g].of]
    <3>1. requests[g].of \in Tokens /\ issued[requests[g].of] = None
      BY <2>3, Zenon DEF SessionInv, Proper
    <3> QED BY <1>2, <1>4, <3>1, Zenon DEF DataOK
  <2>4. SessionInv' /\ requests' \in [Handlers -> Requests]
    BY Zenon, <1>4, <2>2, <2>3, SessionStep
  <2> QED BY <1>4, <2>1, <2>4, Zenon DEF DataOK
<1>5. ASSUME insert(h) PROVE DataOK' /\ SessionInv'
  <2>1. CASE ~expired(requests[h].session, requests[h].now)
    <3> DEFINE r == [requests[h] EXCEPT !.at = "ActiveUserPrincipal"]
    <3>1. /\ r \in Requests /\ r.at = "ActiveUserPrincipal" /\ r.of = t
          /\ r.session = requests[h].session
      BY <1>1, Zenon DEF Requests
    <3>2. /\ requests[h].session \in Sessions /\ Consistent(requests[h].session, issued[t])
      BY <1>1, <1>5, Zenon DEF insert, Proper
    <3>3. /\ sessions' = [sessions EXCEPT ![t] = requests[h].session] /\ Step(h, r)
          /\ UNCHANGED <<clock, rows, failures, keys, issued>>
      BY <1>5, <2>1, Zenon DEF insert, Continue
    <3> HIDE DEF r
    <3>4. Proper(r, issued', sessions') /\ r.at # "store"
      BY <1>2, <3>1, <3>2, <3>3, Zenon DEF Proper
    <3>5. issued' \in [Tokens -> Grants \cup {None}] /\ Grown
      BY <3>3, GrownSame, Zenon DEF DataOK
    <3> QED BY Zenon, <1>4, <3>1, <3>2, <3>3, <3>4, <3>5
  <2> QED BY <1>3, <1>5, <2>1, Zenon DEF insert
<1>6. ASSUME refresh(h) PROVE DataOK' /\ SessionInv'
  <2>1. CASE sessions[t] # None /\ ~expired(sessions[t], requests[h].now)
    <3> DEFINE now == requests[h].now
               s == [sessions[t] EXCEPT !.seen = now]
               r == [requests[h] EXCEPT !.at = "SaveUISession", !.session = s]
               last == IF now > issued[t].last THEN now ELSE issued[t].last
    <3>1. /\ s \in Sessions /\ s.user = sessions[t].user /\ s.created = sessions[t].created
          /\ s.seen = now
      BY <1>2, <2>1 DEF DataOK, Sessions
    <3>2. r \in Requests /\ r.at = "SaveUISession" /\ r.of = t /\ r.session = s
      BY Zenon, <1>1, <3>1 DEF Requests
    <3>3. /\ sessions' = [sessions EXCEPT ![t] = s] /\ Step(h, r)
          /\ UNCHANGED <<clock, rows, failures, keys>>
          /\ issued' = [issued EXCEPT ![t] = [issued[t] EXCEPT !.last = last]]
      BY <1>6, <2>1, Zenon DEF refresh
    <3> HIDE DEF s, r
    <3>4. issued[t].last \in Nat /\ last \in Nat /\ issued[t].last <= last /\ now <= last
      BY <1>2 DEF Grants
    <3> HIDE DEF last
    <3>5. /\ [issued[t] EXCEPT !.last = last] \in Grants
          /\ [issued[t] EXCEPT !.last = last].user = issued[t].user
          /\ [issued[t] EXCEPT !.last = last].at = issued[t].at
          /\ [issued[t] EXCEPT !.last = last].last = last
      BY <1>2, <3>4, Zenon DEF Grants
    <3>6. /\ issued' \in [Tokens -> Grants \cup {None}] /\ issued'[t].user = issued[t].user
          /\ issued'[t].at = issued[t].at /\ issued'[t].last = last /\ issued'[t] \in Grants
          /\ \A v \in Tokens \ {t} : issued'[v] = issued[v]
      BY <1>2, <3>3, <3>5, Zenon DEF DataOK
    <3>7. issued'[t] # None
      BY <3>6, AccessAssumption, Zenon
    <3>8. Grown
      <4> SUFFICES ASSUME NEW v \in Tokens, issued[v] # None
                   PROVE  /\ issued'[v] # None /\ issued'[v].user = issued[v].user
                          /\ issued'[v].at = issued[v].at
                          /\ issued[v].last <= issued'[v].last
        BY Zenon DEF Grown
      <4>1. issued[v].last \in Nat
        BY Zenon DEF DataOK, Grants
      <4> QED BY <3>4, <3>6, <3>7, <4>1
    <3>9. Consistent(sessions[t], issued[t])
      BY <1>2, <2>1, Zenon DEF SessionInv, TokenInv
    <3>10. Consistent(s, issued'[t])
      BY <3>1, <3>4, <3>6, <3>9, Zenon DEF Consistent
    <3>11. Proper(r, issued', sessions') /\ r.at # "store"
      BY <1>2, <3>1, <3>2, <3>7, <3>10, Zenon DEF Proper
    <3> QED BY Zenon, <1>4, <3>1, <3>2, <3>3, <3>6, <3>8, <3>10, <3>11
  <2>2. CASE sessions[t] = None \/ expired(sessions[t], requests[h].now)
    BY <1>3, <1>6, <2>2, Zenon DEF refresh
  <2> QED BY <2>1, <2>2, Zenon
<1> QED BY <1>5, <1>6, Zenon

\* A login draws a token and makes its entry.
LEMMA CreateStep ==
    ASSUME DataOK, SessionInv, NEW h \in Handlers, NEW t \in Tokens, createUser(h, t)
    PROVE  DataOK' /\ SessionInv'
<1> DEFINE now == requests[h].now
           new == Session(requests[h].of, now, now)
           live == Unexpired(now)
           r == [requests[h] EXCEPT !.at = "store", !.of = t, !.session = new]
<1>1. requests[h] \in Requests /\ Proper(requests[h], issued, sessions)
  BY Zenon DEF DataOK, SessionInv
<1>2. requests[h].of \in UserIDs /\ now \in Nat
  BY <1>1, RequestFields, Zenon DEF Proper, createUser
<1>3. new \in Sessions /\ new.seen = new.created
  BY <1>2, Zenon DEF Session, Sessions
<1>4. UNCHANGED <<clock, rows, failures, keys, issued>> /\ Step(h, r)
  BY Zenon DEF createUser
<1>5. /\ t \notin Entries(sessions) /\ t \notin Entries(issued)
      /\ \A g \in Handlers : requests[g].of # t
  BY Zenon DEF createUser, Drawn
<1>6. issued[t] = None
  BY <1>5, Zenon DEF Entries, DataOK
<1>7. \/ sessions' = [live EXCEPT ![t] = new]
      \/ \E v \in OldestSessions(live) : sessions' = [live EXCEPT ![v] = None, ![t] = new]
  BY Zenon DEF createUser
<1> HIDE DEF new, live
<1>8. r \in Requests /\ r.at = "store" /\ r.of = t /\ r.session = new
  BY Zenon, <1>1, <1>3 DEF Requests
<1> HIDE DEF r
<1>9. /\ live \in [Tokens -> Sessions \cup {None}]
      /\ \A v \in Tokens : live[v] \in {None, sessions[v]}
  BY SessionForms, Zenon DEF live
<1>10. /\ sessions' \in [Tokens -> Sessions \cup {None}] /\ sessions'[t] = new
       /\ \A v \in Tokens \ {t} : sessions'[v] \in {None, sessions[v]}
  <2>1. CASE sessions' = [live EXCEPT ![t] = new]
    BY <1>3, <1>9, <2>1, Zenon
  <2>2. ASSUME NEW v, sessions' = [live EXCEPT ![v] = None, ![t] = new]
        PROVE  /\ sessions' \in [Tokens -> Sessions \cup {None}] /\ sessions'[t] = new
               /\ \A w \in Tokens \ {t} : sessions'[w] \in {None, sessions[w]}
    BY <1>3, <1>9, <2>2, Zenon
  <2> QED BY <1>7, <2>1, <2>2, Zenon
<1>11. TokenInv'
  BY <1>4, <1>6, <1>10, Zenon DEF SessionInv, TokenInv
<1>12. Proper(r, issued', sessions')
  BY <1>3, <1>4, <1>6, <1>8, <1>10, Zenon DEF Proper
<1>13. ASSUME NEW g \in Handlers \ {h}, requests[g].at = "store"
       PROVE  /\ issued'[requests[g].of] = None
              /\ sessions'[requests[g].of] \in {None, sessions[requests[g].of]}
              /\ requests[g].of # r.of
  <2>1. requests[g].of \in Tokens /\ issued[requests[g].of] = None
    BY <1>13, Zenon DEF SessionInv, Proper
  <2> QED BY <1>4, <1>5, <1>8, <1>10, <2>1, Zenon
<1>14. issued' \in [Tokens -> Grants \cup {None}] /\ Grown
  BY <1>4, GrownSame, Zenon DEF DataOK
<1>15. SessionInv' /\ requests' \in [Handlers -> Requests]
  BY <1>4, <1>8, <1>11, <1>12, <1>13, <1>14, SessionStep, Zenon
<1> QED BY <1>4, <1>10, <1>15, Zenon DEF DataOK

\* A row that is written.
LEMMA UpsertForm ==
    ASSUME DataOK, NEW t \in Tokens, NEW s \in Sessions, rows' = Upserted(t, s)
    PROVE  /\ rows' \in [Tokens -> Sessions \cup {None}]
           /\ \A v \in Tokens \ {t} : rows'[v] = rows[v]
           /\ rows[t] = None => rows'[t] = s
           /\ rows[t] # None => /\ rows'[t].user = rows[t].user /\ rows'[t].seen = s.seen
                                /\ rows'[t].created = rows[t].created
<1>1. CASE rows[t] = None
  <2>1. rows' = [rows EXCEPT ![t] = s]
    BY <1>1, Zenon DEF Upserted
  <2> QED BY <1>1, <2>1 DEF DataOK
<1>2. CASE rows[t] # None
  <2> DEFINE row == [rows[t] EXCEPT !.seen = s.seen]
  <2>1. rows' = [rows EXCEPT ![t] = row]
    BY <1>2, Zenon DEF Upserted
  <2>2. /\ row \in Sessions /\ row.user = rows[t].user /\ row.created = rows[t].created
        /\ row.seen = s.seen
    BY <1>2, Zenon DEF DataOK, Sessions
  <2> HIDE DEF row
  <2> QED BY <1>2, <2>1, <2>2 DEF DataOK
<1> QED BY <1>1, <1>2, Zenon

\* The row of a request that is accepted, and the row that a logout deletes.
LEMMA RowSteps ==
    ASSUME DataOK, SessionInv, NEW h \in Handlers, SaveUISession(h) \/ DeleteUISession(h)
    PROVE  DataOK' /\ SessionInv'
<1> DEFINE t == requests[h].of
<1>1. requests[h] \in Requests /\ Proper(requests[h], issued, sessions)
  BY Zenon DEF DataOK, SessionInv
<1>2. t \in Tokens /\ issued[t] # None
  BY <1>1, Zenon DEF Proper, SaveUISession, DeleteUISession
<1>3. ASSUME NEW r \in Requests, Step(h, r), r.at # "store", Proper(r, issued, sessions),
             UNCHANGED <<clock, sessions, failures, keys, issued>>,
             rows' \in [Tokens -> Sessions \cup {None}],
             \A v \in Tokens \ {t} : rows'[v] = rows[v],
             rows'[t] # None => Consistent(rows'[t], issued[t])
      PROVE  DataOK' /\ SessionInv'
  <2>1. TokenInv'
    BY <1>2, <1>3, Zenon DEF SessionInv, TokenInv
  <2>2. issued' \in [Tokens -> Grants \cup {None}] /\ Grown
    BY <1>3, GrownSame, Zenon DEF DataOK
  <2>3. ASSUME NEW g \in Handlers, requests[g].at = "store"
        PROVE  issued[requests[g].of] = None
    BY <2>3, Zenon DEF SessionInv, Proper
  <2>4. SessionInv' /\ requests' \in [Handlers -> Requests]
    BY <1>3, <2>1, <2>2, <2>3, SessionStep, Zenon
  <2> QED BY <1>3, <2>4, Zenon DEF DataOK
<1>4. ASSUME SaveUISession(h) PROVE DataOK' /\ SessionInv'
  <2> DEFINE s == requests[h].session
             r == [requests[h] EXCEPT !.at = "served", !.session = None, !.now = 0]
  <2>1. r \in Requests /\ r.at = "served" /\ r.of = t
    BY Zenon, <1>1 DEF Requests
  <2>2. Proper(r, issued, sessions) /\ r.at # "store"
    BY <1>2, <2>1, Zenon DEF Proper
  <2>3. Step(h, r) /\ UNCHANGED <<clock, sessions, failures, keys, issued>>
    BY <1>4, Zenon DEF SaveUISession
  <2> HIDE DEF r
  <2>4. s \in Sessions /\ Consistent(s, issued[t])
    BY <1>1, <1>4, Zenon DEF SaveUISession, Proper
  <2>5. ASSUME rows[t] # None PROVE Consistent(rows[t], issued[t])
    BY <1>2, <2>5, Zenon DEF SessionInv, TokenInv
  <2>6. CASE rows' = Upserted(t, s)
    <3>1. /\ rows' \in [Tokens -> Sessions \cup {None}]
          /\ \A v \in Tokens \ {t} : rows'[v] = rows[v]
          /\ rows[t] = None => rows'[t] = s
          /\ rows[t] # None => /\ rows'[t].user = rows[t].user /\ rows'[t].seen = s.seen
                               /\ rows'[t].created = rows[t].created
      BY <1>2, <2>4, <2>6, UpsertForm, Zenon
    <3>2. Consistent(rows'[t], issued[t])
      BY <2>4, <2>5, <3>1, Zenon DEF Consistent
    <3> QED BY <1>3, <2>1, <2>2, <2>3, <3>1, <3>2, ZenonT(30)
  <2>7. CASE UNCHANGED rows
    <3>1. rows' \in [Tokens -> Sessions \cup {None}]
      BY <2>7, Zenon DEF DataOK
    <3> QED BY <1>3, <2>1, <2>2, <2>3, <2>5, <2>7, <3>1, Zenon
  <2> QED BY <1>4, <2>6, <2>7, Zenon DEF SaveUISession
<1>5. ASSUME DeleteUISession(h) PROVE DataOK' /\ SessionInv'
  <2>1. NoRequest \in Requests /\ NoRequest.at # "store"
    BY Zenon DEF NoRequest, Requests
  <2>2. Step(h, NoRequest) /\ UNCHANGED <<clock, sessions, failures, keys, issued>>
    BY <1>5, Zenon DEF DeleteUISession, Respond
  <2>3. rows' = [rows EXCEPT ![t] = None] \/ rows' = rows
    BY <1>5, Zenon DEF DeleteUISession
  <2>4. /\ rows' \in [Tokens -> Sessions \cup {None}]
        /\ \A v \in Tokens \ {t} : rows'[v] = rows[v]
        /\ rows'[t] # None => rows'[t] = rows[t]
    BY <1>2, <2>3, Zenon DEF DataOK
  <2>5. rows'[t] # None => Consistent(rows'[t], issued[t])
    BY <1>2, <2>4, Zenon DEF SessionInv, TokenInv
  <2> QED BY <1>3, <2>1, <2>2, <2>4, <2>5, IdleProper, Zenon
<1> QED BY <1>4, <1>5, Zenon

\* The row of a login, and the token that is handed out with it.
LEMMA StoreStep ==
    ASSUME DataOK, SessionInv, NEW h \in Handlers, store(h)
    PROVE  DataOK' /\ SessionInv'
<1> DEFINE t == requests[h].of
           s == requests[h].session
           grant == [user |-> s.user, at |-> s.created, last |-> s.created]
<1>1. requests[h] \in Requests /\ Proper(requests[h], issued, sessions)
  BY Zenon DEF DataOK, SessionInv
<1>2. /\ t \in Tokens /\ s \in Sessions /\ issued[t] = None /\ s.seen = s.created
      /\ sessions[t] \in {None, s}
  BY <1>1, Zenon DEF Proper, store
<1>3. rows[t] = None
  BY <1>2, Zenon DEF SessionInv, TokenInv
<1>4. /\ grant \in Grants /\ grant.user = s.user /\ grant.at = s.created
      /\ grant.last = s.created /\ s.user \in UserIDs
  BY <1>2, Zenon DEF Grants, Sessions
<1>5. NoRequest \in Requests /\ NoRequest.at # "store"
  BY Zenon DEF NoRequest, Requests
<1>6. Step(h, NoRequest) /\ UNCHANGED <<clock, sessions, keys>>
  BY Zenon DEF store, Respond
<1>7. CASE UNCHANGED <<rows, failures, issued>>
  <2>1. SessionInv' /\ requests' \in [Handlers -> Requests]
    BY <1>5, <1>6, <1>7, IdleProper, SessionSame, Zenon
  <2> QED BY <1>6, <1>7, <2>1, Zenon DEF DataOK
<1>8. CASE /\ rows' = Upserted(t, s)
           /\ failures' = [failures EXCEPT ![s.user] = None]
           /\ issued' = [issued EXCEPT ![t] = grant]
  <2> HIDE DEF grant
  <2>1. /\ rows' \in [Tokens -> Sessions \cup {None}] /\ rows'[t] = s
        /\ \A v \in Tokens \ {t} : rows'[v] = rows[v]
    BY <1>2, <1>3, <1>8, UpsertForm, Zenon
  <2>2. /\ issued' \in [Tokens -> Grants \cup {None}] /\ issued'[t] = grant
        /\ \A v \in Tokens \ {t} : issued'[v] = issued[v]
    BY <1>2, <1>4, <1>8, Zenon DEF DataOK
  <2>3. failures' \in [UserIDs -> Failures \cup {None}]
    BY Zenon, <1>8 DEF DataOK
  <2>4. grant # None
    BY <1>4, AccessAssumption, Zenon
  <2>5. Grown
    <3> SUFFICES ASSUME NEW v \in Tokens, issued[v] # None
                 PROVE  issued'[v] = issued[v] /\ issued[v].last <= issued[v].last
      BY Zenon DEF Grown
    <3> QED BY <1>2, <2>2 DEF DataOK, Grants
  <2>6. Consistent(s, grant)
    <3>1. s.seen \in Nat
      BY <1>2, Zenon DEF Sessions
    <3> QED BY <1>2, <1>4, <3>1 DEF Consistent
  <2>7. TokenInv'
    BY <1>2, <1>6, <2>1, <2>2, <2>4, <2>6, Zenon DEF SessionInv, TokenInv
  <2>8. ASSUME NEW g \in Handlers \ {h}, requests[g].at = "store"
        PROVE  issued'[requests[g].of] = None
    <3>1. requests[g].of \in Tokens /\ issued[requests[g].of] = None
      BY <2>8, Zenon DEF SessionInv, Proper
    <3>2. requests[g].of # t
      BY <2>8, Zenon DEF SessionInv, store
    <3> QED BY <2>2, <3>1, <3>2, Zenon
  <2>9. SessionInv' /\ requests' \in [Handlers -> Requests]
    BY <1>5, <1>6, <2>2, <2>5, <2>7, <2>8, IdleProper, SessionStep, Zenon
  <2> QED BY <1>6, <2>1, <2>2, <2>3, <2>9, Zenon DEF DataOK
<1> QED BY <1>7, <1>8, Zenon DEF store

\* API keys, time, administration and restarts.
LEMMA OtherSteps ==
    ASSUME DataOK, SessionInv,
           \/ Tick \/ Restart
           \/ \E h \in Handlers : Manage(h)
           \/ \E h \in Handlers, k \in KeyIDs : RevokeAPIKey(h, k)
           \/ \E h \in Handlers, k \in KeyIDs, role \in Roles :
                CreateAPIKey(h, k, role) \/ SetAPIKeyRole(h, k, role)
    PROVE  DataOK' /\ SessionInv'
<1>1. ASSUME UNCHANGED <<sessions, rows, issued, requests>> PROVE SessionInv'
  <2>1. TokenInv'
    BY <1>1, Zenon DEF SessionInv, TokenInv
  <2> QED BY <1>1, <2>1, Zenon DEF SessionInv
<1>2. CASE Tick
  BY <1>1, <1>2 DEF Tick, DataOK
<1>3. CASE Restart
  <2>1. /\ sessions' = [t \in Tokens |-> None] /\ failures' = [u \in UserIDs |-> None]
        /\ requests' = [h \in Handlers |-> NoRequest]
        /\ UNCHANGED <<clock, rows, keys, issued>>
    BY <1>3, Zenon DEF Restart
  <2>2. NoRequest \in Requests /\ NoRequest.at # "store"
    BY Zenon DEF NoRequest, Requests
  <2>3. DataOK'
    BY <2>1, <2>2, Zenon DEF DataOK
  <2>4. TokenInv'
    BY <2>1, Zenon DEF SessionInv, TokenInv
  <2>5. \A h \in Handlers : Proper(requests'[h], issued', sessions')
    BY <2>1, IdleProper, Zenon
  <2> QED BY <2>1, <2>2, <2>3, <2>4, <2>5, Zenon DEF SessionInv
<1>4. CASE \E h \in Handlers : Manage(h)
  BY <1>1, <1>4, Zenon DEF Manage, DataOK
<1>5. ASSUME NEW h \in Handlers, NEW k \in KeyIDs,
             RevokeAPIKey(h, k) \/ \E role \in Roles : CreateAPIKey(h, k, role)
                                                     \/ SetAPIKeyRole(h, k, role)
      PROVE  DataOK' /\ SessionInv'
  <2>1. /\ UNCHANGED <<clock, sessions, rows, failures, requests, issued>>
        /\ \E role \in Roles \cup {"revoked"} : keys' = [keys EXCEPT ![k] = role]
    BY <1>5, Zenon DEF RevokeAPIKey, CreateAPIKey, SetAPIKeyRole
  <2>2. keys' \in [KeyIDs -> Roles \cup {"none", "revoked"}]
    BY <2>1, Zenon DEF DataOK
  <2> QED BY <1>1, <2>1, <2>2, Zenon DEF DataOK
<1> QED BY <1>2, <1>3, <1>4, <1>5, Zenon

\* The users and their calls change as in Users, or a restart ends the calls.
LEMMA UsersKept ==
    ASSUME IInv, [AccessNext]_accessVars PROVE IInv'
<1>1. CASE UNCHANGED vars
  BY <1>1, NextIInv, Zenon
<1>2. ASSUME NEW h \in Handlers, Manage(h) PROVE IInv'
  BY <1>2, NextIInv, Zenon DEF Manage, Next
<1>3. CASE Restart
  <2>1. /\ UNCHANGED <<users, initial>> /\ calls' = [h \in Handlers |-> Idle]
        /\ Existing' = Existing
    BY <1>3, Zenon DEF Restart, Existing
  <2> QED BY <2>1, CallForms, Zenon DEF IInv, TypeOK, OneInitialAdmin
<1>4. ASSUME NEW h \in Handlers, Login(h) \/ UseSession(h) \/ UseKey(h) PROVE UNCHANGED vars
  <2>1. CASE Login(h)
    BY Zenon, <2>1 DEF Login, retryAfter, AuthenticateUser, record, store, createUser, data
  <2>2. CASE UseSession(h)
    BY Zenon, <2>2 DEF UseSession, lookUp, UISession, insert, ActiveUserPrincipal, drop, refresh,
                SaveUISession, serve, destroy, DeleteUISession, data
  <2>3. CASE UseKey(h)
    BY Zenon, <2>3 DEF UseKey, RevokeAPIKey, AuthenticateAPIKey, CreateAPIKey, SetAPIKeyRole,
                recordUse, data
  <2> QED BY <1>4, <2>1, <2>2, <2>3, Zenon
<1>5. CASE Tick
  BY <1>1, <1>5, Zenon DEF Tick
<1>6. CASE UNCHANGED accessVars
  BY <1>1, <1>6, Zenon DEF accessVars, data
<1> QED BY <1>1, <1>2, <1>3, <1>4, <1>5, <1>6, Zenon DEF AccessNext

\* Every step keeps the types and the sessions.
LEMMA SessionsKept ==
    ASSUME TypeOK, DataOK, SessionInv, [AccessNext]_accessVars PROVE DataOK' /\ SessionInv'
<1>1. CASE UNCHANGED accessVars
  <2>1. UNCHANGED <<clock, sessions, rows, failures, keys, issued, requests>>
    BY <1>1, Zenon DEF accessVars, data
  <2>2. TokenInv'
    BY <2>1, Zenon DEF SessionInv, TokenInv
  <2> QED BY <2>1, <2>2, Zenon DEF DataOK, SessionInv
<1>2. ASSUME NEW h \in Handlers, Login(h) PROVE DataOK' /\ SessionInv'
  BY <1>2, LimiterSteps, MoveSteps, CreateStep, StoreStep, Zenon DEF Login
<1>3. ASSUME NEW h \in Handlers, UseSession(h) PROVE DataOK' /\ SessionInv'
  BY <1>3, MoveSteps, RemoveSteps, EntrySteps, RowSteps, Zenon DEF UseSession
<1>4. ASSUME NEW h \in Handlers, UseKey(h) PROVE DataOK' /\ SessionInv'
  BY <1>4, MoveSteps, OtherSteps, Zenon DEF UseKey
<1> QED BY <1>1, <1>2, <1>3, <1>4, OtherSteps, Zenon DEF AccessNext

----------------------------------------------------------------------------
(* Roles. *)

\* A request moves by its own actions, or ends with a restart.
LEMMA OwnSteps ==
    ASSUME DataOK, AccessNext, NEW h \in Handlers, requests'[h] # requests[h]
    PROVE  Login(h) \/ UseSession(h) \/ UseKey(h) \/ Restart
<1>1. ASSUME NEW g \in Handlers, g # h, NEW r, Step(g, r) PROVE FALSE
  BY <1>1, Zenon DEF Step, DataOK
<1>2. ASSUME UNCHANGED requests PROVE FALSE
  BY <1>2, Zenon
<1>3. ASSUME NEW g \in Handlers, g # h, Login(g) PROVE FALSE
  BY Zenon, <1>1, <1>3 DEF Login, retryAfter, AuthenticateUser, record, store, createUser,
                    Respond, Continue
<1>4. ASSUME NEW g \in Handlers, g # h, UseSession(g) PROVE FALSE
  <2>1. CASE \E t \in Tokens : lookUp(g, t)
    BY <1>1, <1>2, <1>4, <2>1, Zenon DEF lookUp
  <2>2. CASE UISession(g) \/ insert(g) \/ ActiveUserPrincipal(g) \/ drop(g)
    BY <1>1, <1>4, <2>2, Zenon DEF UISession, insert, ActiveUserPrincipal, drop, Refuse, Respond,
                            Continue
  <2>3. CASE refresh(g) \/ SaveUISession(g) \/ serve(g) \/ destroy(g) \/ DeleteUISession(g)
    BY <1>1, <1>4, <2>3, Zenon DEF refresh, SaveUISession, serve, destroy, DeleteUISession, Refuse,
                            Respond, Continue
  <2> QED BY <1>4, <2>1, <2>2, <2>3, Zenon DEF UseSession
<1>5. ASSUME NEW g \in Handlers, g # h, UseKey(g) PROVE FALSE
  BY Zenon, <1>1, <1>2, <1>5 DEF UseKey, RevokeAPIKey, AuthenticateAPIKey, CreateAPIKey,
                          SetAPIKeyRole, recordUse, Respond, Continue
<1>6. ASSUME NEW g \in Handlers, Manage(g) PROVE FALSE
  BY <1>2, <1>6, Zenon DEF Manage
<1>7. ASSUME Tick PROVE FALSE
  BY <1>2, <1>7, Zenon DEF Tick
<1> QED BY <1>3, <1>4, <1>5, <1>6, <1>7, Zenon DEF AccessNext

\* How a request comes to where it is.
Came(h) ==
    LET q == requests[h]
        r == requests'[h]
    IN  /\ r.at = "AuthenticateUser" => \E u \in UserIDs : retryAfter(h, u) /\ r.of = u
        /\ r.at = "record" => AuthenticateUser(h) /\ r.of = q.of
        /\ r.at = "insert" => UISession(h) /\ r.of = q.of /\ rows[q.of] # None
        /\ r.at = "ActiveUserPrincipal" =>
             \/ insert(h) /\ r.of = q.of
             \/ r.of \in Tokens /\ sessions[r.of] # None
        /\ r.at = "refresh" => /\ ActiveUserPrincipal(h) /\ r.of = q.of /\ Enabled(q.session.user)
                               /\ r.role = users[q.session.user].role
        /\ r.at = "SaveUISession" => /\ refresh(h) /\ r.of = q.of /\ r.role = q.role
                                     /\ sessions[q.of] # None
                                     /\ ~expired(sessions[q.of], q.now)
        /\ r.at = "served" => \/ SaveUISession(h) /\ r.of = q.of /\ r.role = q.role
                              \/ recordUse(h) /\ r.of = q.of /\ r.role = q.role /\ Active(q.of)
        /\ r.at = "DeleteUISession" => destroy(h) /\ r.of = q.of /\ r.role = q.role
        /\ r.at = "recordUse" => /\ r.of \in KeyIDs /\ AuthenticateAPIKey(h, r.of)
                                 /\ r.role = keys[r.of]

\* A request changes only by the steps that Came lists.
LEMMA Moves ==
    ASSUME DataOK, AccessNext, NEW h \in Handlers, requests'[h] # requests[h]
    PROVE  Came(h)
<1> DEFINE q == requests[h]
<1>1. q \in Requests /\ clock \in Nat
  BY Zenon DEF DataOK
<1>2. ASSUME NEW r, Step(h, r) PROVE requests'[h] = r
  BY <1>2, Zenon DEF Step, DataOK
<1>3. ASSUME Respond(h) PROVE Came(h)
  <2>1. requests'[h] = NoRequest
    BY <1>2, <1>3, Zenon DEF Respond
  <2>2. requests'[h].at = "idle"
    BY <2>1 DEF NoRequest
  <2> QED BY <2>2, Zenon DEF Came
<1>4. ASSUME Login(h) PROVE Came(h)
  <2>1. ASSUME NEW u \in UserIDs, retryAfter(h, u) PROVE Came(h)
    <3> DEFINE r == [NoRequest EXCEPT !.at = "AuthenticateUser", !.of = u, !.now = clock]
    <3>1. CASE Step(h, r)
      <4>1. requests'[h] = r /\ r.at = "AuthenticateUser" /\ r.of = u
        BY <1>2, <3>1, Zenon DEF NoRequest
      <4> HIDE DEF r
      <4> QED BY <2>1, <4>1, Zenon DEF Came
    <3> QED BY <1>3, <2>1, <3>1, Zenon DEF retryAfter
  <2>2. CASE AuthenticateUser(h)
    <3>1. ASSUME NEW now, Step(h, [requests[h] EXCEPT !.at = "create", !.now = now])
          PROVE  Came(h)
      <4>1. requests'[h].at = "create"
        BY Zenon, <1>1, <1>2, <3>1 DEF Requests
      <4> QED BY <4>1, Zenon DEF Came
    <3>2. CASE Continue(h, "record")
      <4>1. requests'[h].at = "record" /\ requests'[h].of = q.of
        BY <1>1, <1>2, <3>2, Zenon DEF Continue, Requests
      <4> QED BY <2>2, <4>1, Zenon DEF Came
    <3> QED BY <1>3, <2>2, <3>1, <3>2, Zenon DEF AuthenticateUser
  <2>3. CASE record(h) \/ store(h)
    BY <1>3, <2>3, Zenon DEF record, store
  <2>4. ASSUME NEW t \in Tokens, createUser(h, t) PROVE Came(h)
    <3>1. PICK s : Step(h, [requests[h] EXCEPT !.at = "store", !.of = t, !.session = s])
      BY Zenon, <2>4 DEF createUser
    <3>2. requests'[h].at = "store"
      BY Zenon, <1>1, <1>2, <3>1 DEF Requests
    <3> QED BY <3>2, Zenon DEF Came
  <2> QED BY <1>4, <2>1, <2>2, <2>3, <2>4, Zenon DEF Login
<1>5. ASSUME UseSession(h) PROVE Came(h)
  <2>1. ASSUME NEW t \in Tokens, lookUp(h, t) PROVE Came(h)
    <3> DEFINE r == [NoRequest EXCEPT !.of = t, !.now = clock, !.session = sessions[t]]
    <3>1. CASE Step(h, [r EXCEPT !.at = "UISession"])
      <4>1. requests'[h].at = "UISession"
        BY Zenon, <1>2, <3>1 DEF NoRequest
      <4> QED BY <4>1, Zenon DEF Came
    <3>2. CASE sessions[t] # None /\ Step(h, [r EXCEPT !.at = "ActiveUserPrincipal"])
      <4>1. requests'[h].at = "ActiveUserPrincipal" /\ requests'[h].of = t
        BY Zenon, <1>2, <3>2 DEF NoRequest
      <4> QED BY <3>2, <4>1, Zenon DEF Came
    <3> QED BY <2>1, <3>1, <3>2, Zenon DEF lookUp
  <2>2. CASE UISession(h)
    <3>1. CASE /\ rows[q.of] # None
               /\ Step(h, [q EXCEPT !.at = "insert", !.session = rows[q.of]])
      <4>1. requests'[h].at = "insert" /\ requests'[h].of = q.of
        BY Zenon, <1>1, <1>2, <3>1 DEF Requests
      <4> QED BY <2>2, <3>1, <4>1, Zenon DEF Came
    <3> QED BY <1>3, <2>2, <3>1, Zenon DEF UISession
  <2>3. CASE insert(h)
    <3>1. CASE Continue(h, "ActiveUserPrincipal")
      <4>1. requests'[h].at = "ActiveUserPrincipal" /\ requests'[h].of = q.of
        BY <1>1, <1>2, <3>1, Zenon DEF Continue, Requests
      <4> QED BY <2>3, <4>1, Zenon DEF Came
    <3> QED BY <1>3, <2>3, <3>1, Zenon DEF insert, Refuse
  <2>4. CASE ActiveUserPrincipal(h)
    <3> DEFINE u == q.session.user
    <3>1. CASE /\ Enabled(u)
               /\ Step(h, [q EXCEPT !.at = "refresh", !.session = None, !.role = users[u].role])
      <4>1. /\ requests'[h].at = "refresh" /\ requests'[h].of = q.of
            /\ requests'[h].role = users[u].role
        BY Zenon, <1>1, <1>2, <3>1 DEF Requests
      <4> QED BY <2>4, <3>1, <4>1, Zenon DEF Came
    <3>2. CASE Step(h, [q EXCEPT !.at = "drop", !.session = None])
      <4>1. requests'[h].at = "drop"
        BY Zenon, <1>1, <1>2, <3>2 DEF Requests
      <4> QED BY <4>1, Zenon DEF Came
    <3> QED BY <2>4, <3>1, <3>2, Zenon DEF ActiveUserPrincipal
  <2>5. CASE drop(h) \/ serve(h) \/ DeleteUISession(h)
    BY <1>3, <2>5, Zenon DEF drop, serve, DeleteUISession, Refuse
  <2>6. CASE refresh(h)
    <3> DEFINE s == [sessions[q.of] EXCEPT !.seen = q.now]
    <3>1. CASE sessions[q.of] = None \/ expired(sessions[q.of], q.now)
      BY <1>3, <2>6, <3>1, Zenon DEF refresh, Refuse
    <3>2. CASE ~(sessions[q.of] = None \/ expired(sessions[q.of], q.now))
      <4>1. Step(h, [q EXCEPT !.at = "SaveUISession", !.session = s])
        BY <2>6, <3>2, Zenon DEF refresh
      <4> HIDE DEF s
      <4>2. /\ requests'[h].at = "SaveUISession" /\ requests'[h].of = q.of
            /\ requests'[h].role = q.role
        BY Zenon, <1>1, <1>2, <4>1 DEF Requests
      <4> QED BY <2>6, <3>2, <4>2, Zenon DEF Came
    <3> QED BY <3>1, <3>2, Zenon
  <2>7. CASE SaveUISession(h)
    <3>1. /\ requests'[h].at = "served" /\ requests'[h].of = q.of /\ requests'[h].role = q.role
      BY Zenon, <1>1, <1>2, <2>7 DEF SaveUISession, Requests
    <3> QED BY <2>7, <3>1, Zenon DEF Came
  <2>8. CASE destroy(h)
    <3>1. /\ requests'[h].at = "DeleteUISession" /\ requests'[h].of = q.of
          /\ requests'[h].role = q.role
      BY <1>1, <1>2, <2>8, Zenon DEF destroy, Continue, Requests
    <3> QED BY <2>8, <3>1, Zenon DEF Came
  <2> QED BY <1>5, <2>1, <2>2, <2>3, <2>4, <2>5, <2>6, <2>7, <2>8, Zenon DEF UseSession
<1>6. ASSUME UseKey(h) PROVE Came(h)
  <2>1. CASE UNCHANGED requests
    BY <2>1, Zenon
  <2>2. ASSUME NEW k \in KeyIDs, AuthenticateAPIKey(h, k) PROVE Came(h)
    <3>1. /\ requests'[h].at = "recordUse" /\ requests'[h].of = k /\ requests'[h].role = keys[k]
      BY Zenon, <1>2, <2>2 DEF AuthenticateAPIKey, NoRequest
    <3> QED BY <2>2, <3>1, Zenon DEF Came
  <2>3. CASE recordUse(h)
    <3>1. CASE Active(q.of) /\ Continue(h, "served")
      <4>1. /\ requests'[h].at = "served" /\ requests'[h].of = q.of /\ requests'[h].role = q.role
        BY <1>1, <1>2, <3>1, Zenon DEF Continue, Requests
      <4> QED BY <2>3, <3>1, <4>1, Zenon DEF Came
    <3> QED BY <1>3, <2>3, <3>1, Zenon DEF recordUse
  <2> QED BY <1>6, <2>1, <2>2, <2>3, Zenon DEF UseKey, RevokeAPIKey, CreateAPIKey, SetAPIKeyRole
<1>7. ASSUME Restart PROVE Came(h)
  <2>1. requests'[h] = NoRequest
    BY <1>7, Zenon DEF Restart
  <2>2. requests'[h].at = "idle"
    BY <2>1 DEF NoRequest
  <2> QED BY <2>2, Zenon DEF Came
<1> QED BY <1>4, <1>5, <1>6, <1>7, OwnSteps, Zenon

\* A request that has been given a role has it from its user or its key.
RoleInv ==
    /\ current \in [Handlers -> SUBSET Roles]
    /\ \A h \in Handlers :
         requests[h].at \in {"recordUse", "refresh", "SaveUISession", "served",
                            "DeleteUISession"}
           => requests[h].role \in current[h]

\* The roles that are added to the history are roles.
LEMMA HeldRoles ==
    ASSUME TypeOK', NEW h \in Handlers PROVE Holds(requests[h])' \subseteq Roles
<1> DEFINE t == requests'[h].of
           u == issued'[t].user
<1>1. ASSUME Enabled(issued[requests[h].of].user)' PROVE users'[u].role \in Roles
  <2>1. u \in UserIDs /\ users'[u] # NoUser
    BY <1>1, Zenon DEF Enabled, Existing
  <2>2. users'[u] \in Rows
    BY <2>1, Zenon DEF TypeOK
  <2> QED BY <2>2, Zenon DEF Rows
<1>2. CASE t \in KeyIDs
  BY <1>2, Zenon DEF Holds
<1>3. CASE t \notin KeyIDs
  BY <1>1, <1>3, Zenon DEF Holds
<1> QED BY <1>2, <1>3, Zenon

\* A role comes from what the user or the key held during the request.
LEMMA RolesKept ==
    ASSUME TypeOK, TypeOK', DataOK, DataOK', SessionInv, RoleInv, [AccessNext]_accessVars
    PROVE  RoleInv'
<1>1. CASE UNCHANGED accessVars
  BY <1>1, Zenon DEF accessVars, RoleInv
<1>2. CASE AccessNext
  <2>1. current' = [h \in Handlers |-> IF requests'[h].at = "idle" THEN {}
                                       ELSE current[h] \cup Holds(requests[h])']
    BY <1>2, Zenon DEF AccessNext, Observe
  <2>2. \A h \in Handlers : Holds(requests[h])' \subseteq Roles
    BY HeldRoles, Zenon
  <2>3. current' \in [Handlers -> SUBSET Roles]
    BY <2>1, <2>2, Zenon DEF RoleInv
  <2>4. ASSUME NEW h \in Handlers,
               requests'[h].at \in {"recordUse", "refresh", "SaveUISession", "served",
                                   "DeleteUISession"}
        PROVE  requests'[h].role \in current'[h]
    <3>1. current'[h] = current[h] \cup Holds(requests[h])'
      BY <2>1, <2>4, Zenon
    <3>2. CASE requests'[h] = requests[h]
      BY <2>4, <3>1, <3>2, Zenon DEF RoleInv
    <3>3. CASE requests'[h] # requests[h]
      <4>1. Came(h)
        BY <1>2, <3>3, Moves, Zenon
      <4>2. CASE requests'[h].at = "recordUse"
        <5> DEFINE k == requests'[h].of
        <5>1. k \in KeyIDs /\ Active(k) /\ requests'[h].role = keys[k] /\ UNCHANGED keys
          BY <4>1, <4>2, Zenon DEF Came, AuthenticateAPIKey, data
        <5>2. requests'[h].role \in Holds(requests[h])'
          BY <5>1, Zenon DEF Holds, Active
        <5> QED BY <3>1, <5>2, Zenon
      <4>3. CASE requests'[h].at = "refresh"
        <5> DEFINE u == requests[h].session.user
                   t == requests[h].of
        <5>1. /\ ActiveUserPrincipal(h) /\ requests'[h].of = t /\ Enabled(u)
              /\ requests'[h].role = users[u].role
          BY <4>1, <4>3, Zenon DEF Came
        <5>2. UNCHANGED <<users, issued>>
          BY <5>1, Zenon DEF ActiveUserPrincipal, data, vars
        <5>3. t \in Tokens /\ issued[t] # None /\ u = issued[t].user
          BY <5>1, Zenon DEF ActiveUserPrincipal, SessionInv, Proper, Consistent
        <5>4. t \notin KeyIDs
          BY <5>3, AccessAssumption, Zenon
        <5>5. Enabled(issued[t].user)'
          BY <5>1, <5>2, <5>3, Zenon DEF Enabled, Existing
        <5>6. requests'[h].role \in Holds(requests[h])'
          BY <5>1, <5>2, <5>3, <5>4, <5>5, Zenon DEF Holds, Enabled, Existing
        <5> QED BY <3>1, <5>6, Zenon
      <4>4. CASE requests'[h].at \in {"SaveUISession", "served", "DeleteUISession"}
        <5>1. requests'[h].role = requests[h].role
              /\ requests[h].at \in {"recordUse", "refresh", "SaveUISession", "served"}
          BY <4>1, <4>4, Zenon DEF Came, refresh, SaveUISession, recordUse, destroy
        <5> QED BY <3>1, <5>1, Zenon DEF RoleInv
      <4> QED BY <2>4, <4>2, <4>3, <4>4, Zenon
    <3> QED BY <3>2, <3>3, Zenon
  <2> QED BY <2>3, <2>4, Zenon DEF RoleInv
<1> QED BY <1>1, <1>2, Zenon

----------------------------------------------------------------------------
(* Logout. *)

\* While a logout is alone nobody can bring the entry back; once it has deleted
\* the row, nothing is left to accept the token by.
LogoutInv ==
    /\ \A h \in alone : /\ h \in Handlers /\ requests[h].at = "DeleteUISession"
                        /\ sessions[requests[h].of] = None
                        /\ \A g \in Handlers : ~Authenticating(g, requests[h].of)
    /\ \A t \in ended :
         /\ t \in Tokens /\ issued[t] # None /\ sessions[t] = None /\ rows[t] = None
         /\ \A h \in Handlers : requests[h].of = t =>
              requests[h].at \notin {"insert", "ActiveUserPrincipal", "refresh", "SaveUISession"}

\* Only a login and a reload make an entry where there is none.
LEMMA EntryMade ==
    ASSUME DataOK, SessionInv, AccessNext, NEW t \in Tokens, sessions[t] = None,
           sessions'[t] # None
    PROVE  \E g \in Handlers : createUser(g, t) \/ (insert(g) /\ requests[g].of = t)
<1>1. ASSUME UNCHANGED sessions PROVE FALSE
  BY <1>1, Zenon
<1>2. ASSUME NEW v, sessions' = Removed(v) PROVE FALSE
  BY <1>2, Zenon DEF Removed, DataOK
<1>3. ASSUME NEW g \in Handlers, NEW v \in Tokens, createUser(g, v), v # t PROVE FALSE
  <2> DEFINE live == Unexpired(requests[g].now)
  <2>1. live \in [Tokens -> Sessions \cup {None}] /\ live[t] = None
    BY SessionForms, Zenon
  <2>2. \E w, s : sessions' = [live EXCEPT ![w] = None, ![v] = s]
                  \/ sessions' = [live EXCEPT ![v] = s]
    BY Zenon, <1>3 DEF createUser
  <2> HIDE DEF live
  <2> QED BY <1>3, <2>1, <2>2, Zenon
<1>4. ASSUME NEW g \in Handlers, insert(g), requests[g].of # t PROVE FALSE
  <2>1. \/ sessions' = Removed(requests[g].of)
        \/ sessions' = [sessions EXCEPT ![requests[g].of] = requests[g].session]
    BY Zenon, <1>4 DEF insert, Refuse
  <2> QED BY <1>2, <1>4, <2>1, Zenon DEF DataOK
<1>5. ASSUME NEW g \in Handlers, refresh(g) PROVE FALSE
  <2>1. CASE requests[g].of = t
    BY Zenon, <1>2, <1>5, <2>1 DEF refresh, Refuse
  <2>2. CASE requests[g].of # t
    <3>1. \/ sessions' = Removed(requests[g].of)
          \/ \E s : sessions' = [sessions EXCEPT ![requests[g].of] = s]
      BY Zenon, <1>5 DEF refresh, Refuse
    <3> QED BY <1>2, <2>2, <3>1, Zenon DEF DataOK
  <2> QED BY <2>1, <2>2, Zenon
<1>6. ASSUME NEW g \in Handlers, Login(g)
      PROVE  \E v \in Tokens : createUser(g, v)
  BY Zenon, <1>1, <1>6 DEF Login, retryAfter, AuthenticateUser, record, store, data
<1>7. ASSUME NEW g \in Handlers, UseSession(g)
      PROVE  insert(g)
  <2>1. ASSUME NEW v \in Tokens, lookUp(g, v) PROVE FALSE
    BY Zenon, <1>1, <1>2, <2>1 DEF lookUp
  <2>2. ASSUME UISession(g) \/ ActiveUserPrincipal(g) \/ SaveUISession(g) \/ serve(g)
               \/ DeleteUISession(g)
        PROVE  FALSE
    BY Zenon, <1>1, <2>2 DEF UISession, ActiveUserPrincipal, SaveUISession, serve,
                             DeleteUISession, data
  <2>3. ASSUME drop(g) \/ destroy(g) PROVE FALSE
    BY Zenon, <1>2, <2>3 DEF drop, destroy, Refuse
  <2> QED BY <1>5, <1>7, <2>1, <2>2, <2>3, Zenon DEF UseSession
<1>8. ASSUME NEW g \in Handlers, UseKey(g) \/ Manage(g) \/ Tick PROVE FALSE
  BY Zenon, <1>1, <1>8 DEF UseKey, RevokeAPIKey, AuthenticateAPIKey, CreateAPIKey,
                           SetAPIKeyRole, recordUse, data, Manage, Tick
<1>9. ASSUME Tick PROVE FALSE
  BY Zenon, <1>1, <1>9 DEF Tick
<1>10. ASSUME Restart PROVE FALSE
  BY <1>10, Zenon DEF Restart
<1> QED BY <1>3, <1>4, <1>6, <1>7, <1>8, <1>9, <1>10, Zenon DEF AccessNext

\* Only a login and an accepted request make a row where there is none.
LEMMA RowMade ==
    ASSUME DataOK, SessionInv, AccessNext, NEW t \in Tokens, rows[t] = None, rows'[t] # None
    PROVE  \E g \in Handlers : (store(g) \/ SaveUISession(g)) /\ requests[g].of = t
<1>1. ASSUME UNCHANGED rows PROVE FALSE
  BY <1>1, Zenon
<1>2. ASSUME NEW v, v # t, NEW s, rows' = [rows EXCEPT ![v] = s] PROVE FALSE
  BY <1>2, Zenon DEF DataOK
<1>3. ASSUME NEW g \in Handlers, store(g) \/ SaveUISession(g) PROVE requests[g].of = t
  BY Zenon, <1>1, <1>2, <1>3 DEF store, SaveUISession, Upserted
<1>4. ASSUME NEW g \in Handlers, DeleteUISession(g) PROVE FALSE
  <2>1. rows' = [rows EXCEPT ![requests[g].of] = None]
    BY Zenon, <1>1, <1>4 DEF DeleteUISession
  <2> QED BY <2>1, Zenon DEF DataOK
<1>5. ASSUME NEW g \in Handlers, Login(g) PROVE store(g)
  BY Zenon, <1>1, <1>5 DEF Login, retryAfter, AuthenticateUser, record, createUser, data
<1>6. ASSUME NEW g \in Handlers, UseSession(g) PROVE SaveUISession(g)
  BY Zenon, <1>1, <1>4, <1>6 DEF UseSession, lookUp, UISession, insert, ActiveUserPrincipal,
                                 drop, refresh, serve, destroy, data
<1>7. ASSUME NEW g \in Handlers, UseKey(g) \/ Manage(g) PROVE FALSE
  BY Zenon, <1>1, <1>7 DEF UseKey, RevokeAPIKey, AuthenticateAPIKey, CreateAPIKey,
                           SetAPIKeyRole, recordUse, data, Manage
<1>8. ASSUME Tick \/ Restart PROVE FALSE
  BY Zenon, <1>1, <1>8 DEF Tick, Restart
<1> QED BY <1>3, <1>5, <1>6, <1>7, <1>8, Zenon DEF AccessNext

\* While a logout is alone no request keeps a copy of its session.
LEMMA LogoutKept ==
    ASSUME DataOK, DataOK', SessionInv, SessionInv', LogoutInv, [AccessNext]_accessVars
    PROVE  LogoutInv'
<1>1. CASE UNCHANGED accessVars
  BY <1>1, Zenon DEF accessVars, data, LogoutInv, Authenticating
<1>2. CASE AccessNext
  <2>1. ASSUME NEW h \in alone'
        PROVE  /\ h \in Handlers /\ requests'[h].at = "DeleteUISession"
               /\ sessions'[requests'[h].of] = None
               /\ \A g \in Handlers : ~Authenticating(g, requests[h].of)'
    <3>1. /\ h \in Handlers /\ requests'[h].at = "DeleteUISession"
          /\ requests[h].at = "DeleteUISession" => h \in alone
          /\ \A g \in Handlers : ~Authenticating(g, requests[h].of)'
      BY <1>2, <2>1, Zenon DEF AccessNext, Observe
    <3> DEFINE t == requests[h].of
    <3>2. CASE requests'[h] = requests[h]
      <4>1. /\ h \in alone /\ t \in Tokens /\ sessions[t] = None
            /\ \A g \in Handlers : ~Authenticating(g, t)
        BY <3>1, <3>2, Zenon DEF LogoutInv, SessionInv, Proper
      <4>2. ASSUME sessions'[t] # None PROVE FALSE
        <5>1. PICK g \in Handlers : createUser(g, t) \/ (insert(g) /\ requests[g].of = t)
          BY <1>2, <4>1, <4>2, EntryMade, Zenon
        <5>2. CASE createUser(g, t)
          BY <3>1, <5>2, Zenon DEF createUser, Drawn
        <5>3. CASE insert(g) /\ requests[g].of = t
          BY <4>1, <5>3, Zenon DEF insert, Authenticating
        <5> QED BY <5>1, <5>2, <5>3, Zenon
      <4> QED BY <3>1, <3>2, <4>2, Zenon
    <3>3. CASE requests'[h] # requests[h]
      <4>1. destroy(h) /\ requests'[h].of = t
        BY <1>2, <3>1, <3>3, Moves, Zenon DEF Came
      <4>2. t \in Tokens /\ sessions' = Removed(t)
        BY <4>1, Zenon DEF destroy
      <4> QED BY <3>1, <4>1, <4>2, Zenon DEF Removed, DataOK
    <3> QED BY <3>2, <3>3, Zenon
  <2>2. ASSUME NEW t \in ended'
        PROVE  /\ t \in Tokens /\ issued'[t] # None /\ sessions'[t] = None /\ rows'[t] = None
               /\ \A h \in Handlers : requests'[h].of = t =>
                    requests'[h].at \notin {"insert", "ActiveUserPrincipal", "refresh",
                                           "SaveUISession"}
    <3>1. CASE t \in ended
      <4>1. /\ t \in Tokens /\ issued[t] # None /\ sessions[t] = None /\ rows[t] = None
            /\ \A h \in Handlers : requests[h].of = t =>
                 requests[h].at \notin {"insert", "ActiveUserPrincipal", "refresh",
                                       "SaveUISession"}
        BY <3>1, Zenon DEF LogoutInv
      <4>2. ASSUME sessions'[t] # None PROVE FALSE
        <5>1. PICK g \in Handlers : createUser(g, t) \/ (insert(g) /\ requests[g].of = t)
          BY <1>2, <4>1, <4>2, EntryMade, Zenon
        <5>2. CASE createUser(g, t)
          BY <4>1, <5>2, Zenon DEF createUser, Drawn, Entries, DataOK
        <5>3. CASE insert(g) /\ requests[g].of = t
          BY <4>1, <5>3, Zenon DEF insert
        <5> QED BY <5>1, <5>2, <5>3, Zenon
      <4>3. ASSUME rows'[t] # None PROVE FALSE
        <5>1. PICK g \in Handlers : (store(g) \/ SaveUISession(g)) /\ requests[g].of = t
          BY <1>2, <4>1, <4>3, RowMade, Zenon
        <5> QED BY <4>1, <5>1, Zenon DEF store, SaveUISession, SessionInv, Proper
      <4>4. ASSUME NEW h \in Handlers, requests'[h].of = t,
                   requests'[h].at \in {"insert", "ActiveUserPrincipal", "refresh",
                                       "SaveUISession"}
            PROVE  FALSE
        <5>1. CASE requests'[h] = requests[h]
          BY <4>1, <4>4, <5>1, Zenon
        <5>2. CASE requests'[h] # requests[h]
          <6>1. Came(h)
            BY <1>2, <5>2, Moves, Zenon
          <6> QED BY <4>1, <4>4, <6>1, Zenon DEF Came, insert, ActiveUserPrincipal, refresh
        <5> QED BY <5>1, <5>2, Zenon
      <4>5. issued'[t] # None
        <5>1. CASE UNCHANGED issued
          BY <4>1, <5>1, Zenon
        <5>2. ASSUME NEW g \in Handlers, store(g) \/ refresh(g) PROVE issued'[t] # None
          <6>1. \E i : issued' = [issued EXCEPT ![requests[g].of] = i]
                       \/ issued' = issued
            BY Zenon, <5>2 DEF store, refresh
          <6>2. requests[g].of # t
            BY <4>1, <5>2, Zenon DEF store, refresh, SessionInv, Proper
          <6> QED BY <4>1, <6>1, <6>2, Zenon DEF DataOK
        <5>3. ASSUME NEW g \in Handlers, Login(g) PROVE UNCHANGED issued \/ store(g)
          BY Zenon, <5>3 DEF Login, retryAfter, AuthenticateUser, record, createUser, data
        <5>4. ASSUME NEW g \in Handlers, UseSession(g) PROVE UNCHANGED issued \/ refresh(g)
          BY Zenon, <5>4 DEF UseSession, lookUp, UISession, insert, ActiveUserPrincipal,
                             drop, SaveUISession, serve, destroy, DeleteUISession, data
        <5>5. ASSUME NEW g \in Handlers, UseKey(g) \/ Manage(g) PROVE UNCHANGED issued
          BY Zenon, <5>5 DEF UseKey, RevokeAPIKey, AuthenticateAPIKey, CreateAPIKey,
                             SetAPIKeyRole, recordUse, data, Manage
        <5>6. ASSUME Tick \/ Restart PROVE UNCHANGED issued
          BY Zenon, <5>6 DEF Tick, Restart
        <5> QED BY <1>2, <5>1, <5>2, <5>3, <5>4, <5>5, <5>6, Zenon DEF AccessNext
      <4> QED BY <4>1, <4>2, <4>3, <4>4, <4>5, Zenon
    <3>2. CASE t \notin ended
      <4>1. PICK h \in Handlers : /\ DeleteUISession(h) /\ t = requests[h].of
                                  /\ h \in alone /\ rows' = [rows EXCEPT ![t] = None]
        <5>1. ended' # ended
          BY <2>2, <3>2, Zenon
        <5>2. ASSUME NEW g \in Handlers, Login(g) PROVE FALSE
          BY Zenon, <5>1, <5>2 DEF Login, retryAfter, AuthenticateUser, record, store,
                                   createUser, data
        <5>3. ASSUME NEW g \in Handlers, UseSession(g) PROVE DeleteUISession(g)
          BY Zenon, <5>1, <5>3 DEF UseSession, lookUp, UISession, insert, ActiveUserPrincipal,
                                   drop, refresh, SaveUISession, serve, destroy, data
        <5>4. ASSUME NEW g \in Handlers, UseKey(g) \/ Manage(g) PROVE FALSE
          BY Zenon, <5>1, <5>4 DEF UseKey, RevokeAPIKey, AuthenticateAPIKey, CreateAPIKey,
                                   SetAPIKeyRole, recordUse, data, Manage
        <5>5. ASSUME Tick \/ Restart PROVE FALSE
          BY Zenon, <5>1, <5>5 DEF Tick, Restart
        <5>6. PICK g \in Handlers : DeleteUISession(g)
          BY <1>2, <5>2, <5>3, <5>4, <5>5, Zenon DEF AccessNext
        <5> QED BY <2>2, <3>2, <5>6, Zenon DEF DeleteUISession
      <4>2. /\ t \in Tokens /\ issued[t] # None /\ sessions[t] = None
            /\ \A g \in Handlers : ~Authenticating(g, t)
        BY <4>1, Zenon DEF LogoutInv, DeleteUISession, SessionInv, Proper
      <4>3. UNCHANGED <<issued, sessions>> /\ Step(h, NoRequest)
        BY <4>1, Zenon DEF DeleteUISession, Respond
      <4>4. NoRequest \in Requests /\ NoRequest.of # t
        BY <4>2, AccessAssumption, Zenon DEF NoRequest, Requests
      <4>5. requests'[h] = NoRequest /\ \A g \in Handlers \ {h} : requests'[g] = requests[g]
        BY <4>3, <4>4, Stepped, Zenon
      <4>6. rows'[t] = None
        BY <4>1, <4>2, Zenon DEF DataOK
      <4>7. ASSUME NEW g \in Handlers, requests'[g].of = t
            PROVE  requests'[g].at \notin {"insert", "ActiveUserPrincipal", "refresh",
                                          "SaveUISession"}
        BY <4>2, <4>4, <4>5, <4>7, Zenon DEF Authenticating
      <4> QED BY <4>2, <4>3, <4>6, <4>7, Zenon
    <3> QED BY <3>1, <3>2, Zenon
  <2> QED BY <2>1, <2>2, Zenon DEF LogoutInv
<1> QED BY <1>1, <1>2, Zenon

----------------------------------------------------------------------------
(* Login failures. *)

\* The attempts for the name u that have passed the limiter.
InFlight(u) ==
    {h \in Handlers : requests[h].of = u /\ requests[h].at \in {"AuthenticateUser", "record"}}

\* The failures that are counted and those that may be.
LimitInv ==
    \A u \in UserIDs : failures[u] # None =>
      failures[u].count + Cardinality(InFlight(u))
        <= uiAuthFailureLimit + Cardinality(Handlers) - 1

\* Sets of handlers are finite.
LEMMA HandlerSets ==
    ASSUME NEW S, S \subseteq Handlers
    PROVE  /\ IsFiniteSet(S) /\ Cardinality(S) \in Nat /\ Cardinality(S) <= Cardinality(Handlers)
           /\ Cardinality(Handlers) \in Nat
           /\ \A T \in SUBSET S : Cardinality(T) \in Nat /\ Cardinality(T) <= Cardinality(S)
           /\ \A h \in S : Cardinality(S \ {h}) = Cardinality(S) - 1
<1>1. IsFiniteSet(Handlers)
  BY AccessAssumption, Zenon
<1>2. IsFiniteSet(S) /\ Cardinality(S) <= Cardinality(Handlers)
  BY <1>1, FS_Subset, Zenon
<1>3. Cardinality(S) \in Nat /\ Cardinality(Handlers) \in Nat
  BY <1>1, <1>2, FS_CardinalityType, Zenon
<1>4. ASSUME NEW T \in SUBSET S
      PROVE  Cardinality(T) \in Nat /\ Cardinality(T) <= Cardinality(S)
  BY <1>2, FS_Subset, FS_CardinalityType, Zenon
<1>5. ASSUME NEW h \in S PROVE Cardinality(S \ {h}) = Cardinality(S) - 1
  BY <1>2, FS_RemoveElement, Zenon
<1> QED BY <1>2, <1>3, <1>4, <1>5, Zenon

\* No attempt passes the limiter but in retryAfter.
LEMMA InFlightShrinks ==
    ASSUME DataOK, AccessNext, NEW u \in UserIDs, \A h \in Handlers : ~retryAfter(h, u)
    PROVE  InFlight(u)' \subseteq InFlight(u)
<1> SUFFICES ASSUME NEW h \in Handlers, requests'[h].of = u,
                    requests'[h].at \in {"AuthenticateUser", "record"}
             PROVE  requests[h].of = u /\ requests[h].at \in {"AuthenticateUser", "record"}
  BY Zenon DEF InFlight
<1>1. CASE requests'[h] = requests[h]
  BY <1>1, Zenon
<1>2. CASE requests'[h] # requests[h]
  BY <1>2, Moves, Zenon DEF Came, AuthenticateUser
<1> QED BY <1>1, <1>2, Zenon

\* Failures and the attempts in flight together stay within the bound.
LEMMA LimitKept ==
    ASSUME DataOK, DataOK', SessionInv, LimitInv, [AccessNext]_accessVars PROVE LimitInv'
<1> SUFFICES ASSUME NEW u \in UserIDs, failures'[u] # None
             PROVE  failures'[u].count + Cardinality(InFlight(u)')
                      <= uiAuthFailureLimit + Cardinality(Handlers) - 1
  BY Zenon DEF LimitInv
<1> DEFINE F == InFlight(u)
           G == InFlight(u)'
<1>1. /\ F \subseteq Handlers /\ G \subseteq Handlers
      /\ uiAuthFailureLimit \in Nat /\ uiAuthFailureLimit >= 1
  BY AccessAssumption DEF InFlight
<1>2. failures'[u].count \in Nat /\ (failures[u] # None => failures[u].count \in Nat)
  BY Zenon DEF DataOK, Failures
<1>3. ASSUME G \subseteq F, failures'[u] = failures[u]
      PROVE  failures'[u].count + Cardinality(G)
               <= uiAuthFailureLimit + Cardinality(Handlers) - 1
  <2> HIDE DEF F, G
  <2>1. Cardinality(G) <= Cardinality(F) /\ Cardinality(G) \in Nat /\ Cardinality(F) \in Nat
        /\ Cardinality(Handlers) \in Nat
    BY <1>1, <1>3, HandlerSets, Zenon
  <2>2. failures[u].count + Cardinality(F) <= uiAuthFailureLimit + Cardinality(Handlers) - 1
    BY <1>3, Zenon DEF LimitInv, F
  <2> QED BY <1>1, <1>2, <1>3, <2>1, <2>2
<1>4. CASE UNCHANGED accessVars
  <2>1. UNCHANGED <<failures, requests>>
    BY <1>4, Zenon DEF accessVars, data
  <2> QED BY <1>3, <2>1, Zenon DEF InFlight
<1>5. ASSUME NEW h \in Handlers, retryAfter(h, u)
      PROVE  failures'[u].count + Cardinality(G)
               <= uiAuthFailureLimit + Cardinality(Handlers) - 1
  <2>1. CASE failures'[u].count >= uiAuthFailureLimit
    <3>1. Step(h, NoRequest) /\ failures' = Recent(clock)
      BY Zenon, <1>5, <2>1 DEF retryAfter, Respond
    <3>2. NoRequest \in Requests /\ NoRequest.at = "idle"
      BY Zenon DEF NoRequest, Requests
    <3>3. G \subseteq F
      BY <3>1, <3>2, Stepped, Zenon DEF InFlight
    <3>4. failures'[u] = failures[u]
      BY <3>1, Zenon DEF Recent
    <3> QED BY <1>3, <3>3, <3>4, Zenon
  <2>2. CASE ~(failures'[u].count >= uiAuthFailureLimit)
    <3> HIDE DEF F, G
    <3>1. Cardinality(G) <= Cardinality(Handlers) /\ Cardinality(G) \in Nat
          /\ Cardinality(Handlers) \in Nat
      BY <1>1, HandlerSets, Zenon
    <3> QED BY <1>1, <1>2, <2>2, <3>1
  <2> QED BY <2>1, <2>2, Zenon
<1>6. ASSUME AccessNext, \A h \in Handlers : ~retryAfter(h, u)
      PROVE  failures'[u].count + Cardinality(G)
               <= uiAuthFailureLimit + Cardinality(Handlers) - 1
  <2>1. G \subseteq F
    BY <1>6, InFlightShrinks, Zenon
  <2>2. CASE failures'[u] = failures[u]
    BY <1>3, <2>1, <2>2, Zenon
  <2>3. ASSUME NEW h \in Handlers, record(h)
        PROVE  failures'[u].count + Cardinality(G)
                 <= uiAuthFailureLimit + Cardinality(Handlers) - 1
    <3> DEFINE v == requests[h].of
               now == requests[h].now
    <3>1. v \in UserIDs /\ now \in Nat
      BY <2>3, RequestFields, Zenon DEF record, SessionInv, Proper, DataOK
    <3>2. /\ Recent(now) \in [UserIDs -> Failures \cup {None}]
          /\ \A w \in UserIDs : Recent(now)[w] \in {None, failures[w]}
      BY <3>1, FailureForms, Zenon DEF Recent
    <3>3. PICK f \in [UserIDs -> Failures \cup {None}] :
            failures' = Counted(f, v, now) /\ \A w \in UserIDs : f[w] \in {None, failures[w]}
      <4>1. CASE failures' = Counted(Recent(now), v, now)
        BY <3>2, <4>1, Zenon
      <4>2. ASSUME NEW w, failures' = Counted([Recent(now) EXCEPT ![w] = None], v, now)
            PROVE  \E f \in [UserIDs -> Failures \cup {None}] :
                     /\ failures' = Counted(f, v, now)
                     /\ \A x \in UserIDs : f[x] \in {None, failures[x]}
        <5> DEFINE f == [Recent(now) EXCEPT ![w] = None]
        <5>1. f \in [UserIDs -> Failures \cup {None}]
          BY Zenon, <3>2
        <5>2. \A x \in UserIDs : f[x] \in {None, failures[x]}
          BY <3>2, Zenon
        <5> QED BY Zenon, <4>2, <5>1, <5>2
      <4> QED BY Zenon, <2>3, <4>1, <4>2 DEF record
    <3>4. CASE v # u
      <4>1. failures'[u] = f[u]
        BY <3>3, <3>4, Zenon DEF Counted
      <4>2. failures'[u] = failures[u]
        BY <3>3, <4>1, Zenon
      <4> QED BY <2>2, <4>2, Zenon
    <3>5. CASE v = u
      <4>1. \/ f[u] = None /\ failures'[u].count = 1
            \/ f[u] # None /\ failures'[u].count = failures[u].count + 1 /\ failures[u] # None
        BY <3>1, <3>3, <3>5, Zenon DEF Counted
      <4>2. h \in F
        BY <2>3, <3>5, Zenon DEF record, InFlight
      <4>3. h \notin G
        <5>1. Step(h, NoRequest)
          BY <2>3, Zenon DEF record, Respond
        <5>2. NoRequest \in Requests /\ NoRequest.at = "idle"
          BY Zenon DEF NoRequest, Requests
        <5> QED BY <5>1, <5>2, Stepped, Zenon DEF InFlight
      <4>4. failures[u] # None => failures[u].count + Cardinality(F)
                                    <= uiAuthFailureLimit + Cardinality(Handlers) - 1
        BY Zenon DEF LimitInv
      <4> HIDE DEF F, G
      <4>5. G \subseteq F \ {h}
        BY <2>1, <4>3, Zenon
      <4>6. /\ Cardinality(F \ {h}) = Cardinality(F) - 1 /\ Cardinality(F) \in Nat
            /\ Cardinality(F) <= Cardinality(Handlers) /\ Cardinality(Handlers) \in Nat
        BY <1>1, <4>2, HandlerSets, Zenon
      <4>7. Cardinality(G) <= Cardinality(F \ {h}) /\ Cardinality(G) \in Nat
        <5>1. F \ {h} \subseteq Handlers
          BY <1>1, Zenon
        <5> QED BY <4>5, <5>1, HandlerSets, Zenon
      <4> QED BY <1>1, <1>2, <4>1, <4>4, <4>6, <4>7
    <3> QED BY <3>4, <3>5, Zenon
  <2>4. ASSUME NEW h \in Handlers, Login(h), ~record(h) PROVE failures'[u] = failures[u]
    <3>1. ASSUME NEW w \in UserIDs, retryAfter(h, w) PROVE failures'[u] = failures[u]
      BY <3>1, Zenon DEF retryAfter, Recent
    <3>2. CASE store(h)
      <4>1. UNCHANGED failures \/ failures' = [failures EXCEPT ![requests[h].session.user] = None]
        BY Zenon, <3>2 DEF store
      <4> QED BY <4>1, Zenon DEF DataOK
    <3>3. CASE AuthenticateUser(h) \/ \E t \in Tokens : createUser(h, t)
      BY Zenon, <3>3 DEF AuthenticateUser, createUser, data
    <3> QED BY <2>4, <3>1, <3>2, <3>3, Zenon DEF Login
  <2>5. ASSUME NEW h \in Handlers, UseSession(h) PROVE UNCHANGED failures
    BY Zenon, <2>5 DEF UseSession, lookUp, UISession, insert, ActiveUserPrincipal, drop,
                       refresh, SaveUISession, serve, destroy, DeleteUISession, data
  <2>6. ASSUME NEW h \in Handlers, UseKey(h) \/ Manage(h) PROVE UNCHANGED failures
    BY Zenon, <2>6 DEF UseKey, RevokeAPIKey, AuthenticateAPIKey, CreateAPIKey, SetAPIKeyRole,
                       recordUse, data, Manage
  <2>7. CASE Tick
    BY <2>2, <2>7, Zenon DEF Tick
  <2>8. CASE Restart
    BY <2>8, Zenon DEF Restart
  <2> QED BY <1>6, <2>2, <2>3, <2>4, <2>5, <2>6, <2>7, <2>8, Zenon DEF AccessNext
<1> QED BY <1>4, <1>5, <1>6, Zenon

----------------------------------------------------------------------------
(* The theorems. *)

AccessInv ==
    /\ IInv
    /\ DataOK /\ SessionInv
    /\ RoleInv /\ LogoutInv /\ LimitInv
    /\ alone \subseteq Handlers /\ ended \subseteq Tokens

\* Nobody is logged in.
LEMMA InitAccess == AccessInit => AccessInv
<1> SUFFICES ASSUME AccessInit PROVE AccessInv
  BY Zenon
<1>1. IInv
  BY InitIInv, Zenon DEF AccessInit
<1>2. NoRequest \in Requests /\ NoRequest.at = "idle"
  BY Zenon DEF NoRequest, Requests
<1>3. DataOK
  BY <1>2, Zenon DEF AccessInit, DataOK
<1>4. TokenInv
  BY Zenon DEF AccessInit, TokenInv
<1>5. \A h \in Handlers : requests[h] = NoRequest
  BY Zenon DEF AccessInit
<1>6. SessionInv
  BY <1>2, <1>4, <1>5, IdleProper, Zenon DEF SessionInv
<1>7. RoleInv
  BY <1>2, <1>5, Zenon DEF AccessInit, RoleInv
<1>8. LogoutInv /\ alone \subseteq Handlers /\ ended \subseteq Tokens
  BY Zenon DEF AccessInit, LogoutInv
<1>9. LimitInv
  BY Zenon DEF AccessInit, LimitInv
<1> QED BY <1>1, <1>3, <1>6, <1>7, <1>8, <1>9, Zenon DEF AccessInv

\* The invariant is inductive.
LEMMA NextAccess == AccessInv /\ [AccessNext]_accessVars => AccessInv'
<1> SUFFICES ASSUME AccessInv, [AccessNext]_accessVars PROVE AccessInv'
  BY Zenon
<1> USE DEF AccessInv
<1>1. IInv' /\ TypeOK /\ TypeOK'
  BY UsersKept, Zenon DEF IInv
<1>2. DataOK' /\ SessionInv'
  BY <1>1, SessionsKept, Zenon
<1>3. RoleInv'
  BY <1>1, <1>2, RolesKept, Zenon
<1>4. LogoutInv'
  BY <1>2, LogoutKept, Zenon
<1>5. LimitInv'
  BY <1>2, LimitKept, Zenon
<1>6. alone' \subseteq Handlers /\ ended' \subseteq Tokens
  BY <1>4, Zenon DEF LogoutInv
<1> QED BY <1>1, <1>2, <1>3, <1>4, <1>5, <1>6, Zenon

\* The data, the requests and the histories are well-formed.
THEOREM AccessTypeCorrect == AccessSpec => []AccessTypeOK
<1>1. AccessInv => AccessTypeOK
  BY Zenon DEF AccessInv, DataOK, RoleInv, AccessTypeOK
<1> QED BY <1>1, InitAccess, NextAccess, PTL DEF AccessSpec

\* Requests are served with a role that the user or the key had, while active,
\* since the request began (authenticate, AuthenticateAPIKey).
THEOREM RolesAreCurrent == AccessSpec => []ServedAsCurrent
<1>1. AccessInv => ServedAsCurrent
  BY Zenon DEF AccessInv, RoleInv, ServedAsCurrent
<1> QED BY <1>1, InitAccess, NextAccess, PTL DEF AccessSpec

\* A logout that nobody overlaps is final (destroy).
THEOREM LogoutsAreFinal == AccessSpec => []LogoutIsFinal
<1>1. AccessInv => LogoutIsFinal
  BY Zenon DEF AccessInv, LogoutInv, LogoutIsFinal
<1> QED BY <1>1, InitAccess, NextAccess, PTL DEF AccessSpec

\* An entry of the limiter counts no more failures than the limit and one for every
\* other handler, however attempts overlap, expire, are reset or are evicted
\* (retryAfter, record).  What an evicted entry had counted is not included.
THEOREM FailuresAreBounded == AccessSpec => []FailuresBounded
<1>1. AccessInv => FailuresBounded
  <2> SUFFICES ASSUME AccessInv, NEW u \in UserIDs, failures[u] # None
               PROVE  failures[u].count <= uiAuthFailureLimit + Cardinality(Handlers) - 1
    BY Zenon DEF FailuresBounded, Entries, AccessInv, DataOK
  <2>1. failures[u].count \in Nat /\ uiAuthFailureLimit \in Nat
    BY AccessAssumption, Zenon DEF AccessInv, DataOK, Failures
  <2>2. Cardinality(InFlight(u)) \in Nat /\ Cardinality(Handlers) \in Nat
    BY HandlerSets, Zenon DEF InFlight
  <2>3. failures[u].count + Cardinality(InFlight(u))
          <= uiAuthFailureLimit + Cardinality(Handlers) - 1
    BY Zenon DEF AccessInv, LimitInv
  <2> QED BY <2>1, <2>2, <2>3
<1> QED BY <1>1, InitAccess, NextAccess, PTL DEF AccessSpec

\* A revoked key never authenticates (AuthenticateAPIKey).
THEOREM RevokedKeysAreRefused == AccessSpec => RevokedKeyRefused
<1> DEFINE A == \A h \in Handlers :
                  requests[h].at # "served" /\ requests'[h].at = "served"
                    /\ requests[h].of \in KeyIDs => Active(requests[h].of)
<1>1. AccessInv /\ [AccessNext]_accessVars => [A]_accessVars
  <2> SUFFICES ASSUME AccessInv, AccessNext, NEW h \in Handlers, requests[h].at # "served",
                      requests'[h].at = "served", requests[h].of \in KeyIDs
               PROVE  Active(requests[h].of)
    BY Zenon
  <2>1. DataOK /\ SessionInv
    BY Zenon DEF AccessInv
  <2>2. Came(h)
    BY <2>1, Moves, Zenon
  <2>3. SaveUISession(h) => requests[h].of \in Tokens
    BY <2>1, Zenon DEF SaveUISession, SessionInv, Proper
  <2> QED BY <2>2, <2>3, AccessAssumption, Zenon DEF Came
<1> QED BY <1>1, InitAccess, NextAccess, PTL DEF AccessSpec, RevokedKeyRefused

\* A session is accepted within its lifetimes, counted from the login and from
\* the last request that was accepted (expired).
THEOREM SessionsAreInTime == AccessSpec => AcceptedInTime
<1> DEFINE A == \A h \in Handlers :
                  requests[h].at # "SaveUISession" /\ requests'[h].at = "SaveUISession"
                    => LET i == issued[requests[h].of] IN
                       /\ requests[h].now < i.at + uiSessionAbsoluteTTL
                       /\ requests[h].now < i.last + uiSessionIdleTTL
<1>1. AccessInv /\ [AccessNext]_accessVars => [A]_accessVars
  <2> SUFFICES ASSUME AccessInv, AccessNext, NEW h \in Handlers,
                      requests[h].at # "SaveUISession", requests'[h].at = "SaveUISession"
               PROVE  /\ requests[h].now < issued[requests[h].of].at + uiSessionAbsoluteTTL
                      /\ requests[h].now < issued[requests[h].of].last + uiSessionIdleTTL
    BY Zenon
  <2> DEFINE t == requests[h].of
             i == issued[t]
             s == sessions[t]
             now == requests[h].now
  <2>1. DataOK /\ SessionInv
    BY Zenon DEF AccessInv
  <2>2. refresh(h) /\ s # None /\ ~expired(s, now)
    BY <2>1, Moves, Zenon DEF Came
  <2>3. t \in Tokens /\ i # None /\ Consistent(s, i)
    BY <2>1, <2>2, Zenon DEF refresh, SessionInv, TokenInv, Proper
  <2>4. /\ now \in Nat /\ s.created \in Nat /\ s.seen \in Nat /\ i.last \in Nat
        /\ i.at \in Nat
    BY <2>1, <2>2, <2>3, RequestFields, Zenon DEF DataOK, Sessions, Grants
  <2>5. uiSessionAbsoluteTTL \in Nat /\ uiSessionIdleTTL \in Nat
    BY AccessAssumption, Zenon
  <2> QED BY <2>2, <2>3, <2>4, <2>5 DEF expired, Consistent
<1> QED BY <1>1, InitAccess, NextAccess, PTL DEF AccessSpec, AcceptedInTime

----------------------------------------------------------------------------
(* More about the tables of the managers. *)

\* A token stands for one login, wherever its session is kept: the entry in memory,
\* the row, and the copies of requests that have looked it up name the user who
\* logged in and the time of the login, and none was seen later than the last
\* accepted use, through evictions, restarts, reloads and late saves
\* (authenticate, SaveUISession).
TokenOfLogin ==
    /\ \A t \in Tokens : issued[t] # None =>
         \A s \in {sessions[t], rows[t]} \ {None} :
           s.user = issued[t].user /\ s.created = issued[t].at /\ s.seen <= issued[t].last
    /\ \A t \in Tokens : issued[t] = None => rows[t] = None
    /\ \A h \in Handlers :
         LET r == requests[h] IN
         r.at \in {"insert", "ActiveUserPrincipal", "SaveUISession"} =>
           /\ r.of \in Tokens /\ issued[r.of] # None
           /\ r.session.user = issued[r.of].user /\ r.session.created = issued[r.of].at
           /\ r.session.seen <= issued[r.of].last

\* No session passes from one user to another.
THEOREM TokensKeepOwner == AccessSpec => []TokenOfLogin
<1>1. AccessInv => TokenOfLogin
  <2> SUFFICES ASSUME AccessInv PROVE TokenOfLogin
    BY Zenon
  <2>1. SessionInv /\ TokenInv
    BY Zenon DEF AccessInv, SessionInv
  <2>2. ASSUME NEW t \in Tokens, issued[t] # None, NEW s \in {sessions[t], rows[t]} \ {None}
        PROVE  /\ s.user = issued[t].user /\ s.created = issued[t].at
               /\ s.seen <= issued[t].last
    BY <2>1, <2>2, Zenon DEF TokenInv, Consistent
  <2>3. ASSUME NEW h \in Handlers,
               requests[h].at \in {"insert", "ActiveUserPrincipal", "SaveUISession"}
        PROVE  /\ requests[h].of \in Tokens /\ issued[requests[h].of] # None
               /\ Consistent(requests[h].session, issued[requests[h].of])
    BY <2>1, <2>3, Zenon DEF SessionInv, Proper
  <2> QED BY <2>1, <2>2, <2>3, Zenon DEF TokenOfLogin, TokenInv, Consistent
<1> QED BY <1>1, InitAccess, NextAccess, PTL DEF AccessSpec

\* The setup of module Users stays a single one when requests, logins and restarts
\* come between its statements.
THEOREM AccessSetupOnce == AccessSpec => []OneInitialAdmin
<1>1. AccessInv => OneInitialAdmin
  BY Zenon DEF AccessInv, IInv
<1> QED BY <1>1, InitAccess, NextAccess, PTL DEF AccessSpec

\* The table of the limiter never grows over its maximum, however many names are
\* tried, by however many requests at a time (record, evictOldestLocked).
LimiterTableBounded ==
    /\ IsFiniteSet(Entries(failures))
    /\ Cardinality(Entries(failures)) <= uiAuthFailureMaximum

\* A table that has lost entries.
LEMMA TableShrinks ==
    ASSUME NEW S, NEW T, IsFiniteSet(S), Cardinality(S) <= uiAuthFailureMaximum, T \subseteq S
    PROVE  IsFiniteSet(T) /\ Cardinality(T) <= uiAuthFailureMaximum
<1>1. IsFiniteSet(T) /\ Cardinality(T) <= Cardinality(S)
  BY FS_Subset, Zenon
<1>2. Cardinality(S) \in Nat /\ Cardinality(T) \in Nat
  BY <1>1, FS_CardinalityType, Zenon
<1> QED BY <1>1, <1>2, AccessAssumption

\* A table that was below its maximum and has at most one new entry.
LEMMA TableGrows ==
    ASSUME NEW S, NEW T, NEW u, IsFiniteSet(S), Cardinality(S) + 1 <= uiAuthFailureMaximum,
           T \subseteq S \cup {u}
    PROVE  IsFiniteSet(T) /\ Cardinality(T) <= uiAuthFailureMaximum
<1>1. /\ IsFiniteSet(S \cup {u}) /\ Cardinality(S) \in Nat
      /\ Cardinality(S \cup {u}) = Cardinality(S) \/ Cardinality(S \cup {u}) = Cardinality(S) + 1
  BY FS_AddElement, FS_CardinalityType, Zenon
<1>2. Cardinality(S \cup {u}) <= uiAuthFailureMaximum
  BY <1>1, AccessAssumption
<1> QED BY <1>1, <1>2, TableShrinks, Zenon

\* A failure is recorded.
LEMMA RecordBounded ==
    ASSUME DataOK, SessionInv, LimiterTableBounded, NEW h \in Handlers, record(h)
    PROVE  LimiterTableBounded'
<1> DEFINE u == requests[h].of
           now == requests[h].now
           recent == Recent(now)
           R == Entries(recent)
<1>1. u \in UserIDs /\ now \in Nat
  BY RequestFields, Zenon DEF record, SessionInv, Proper, DataOK
<1>2. recent \in [UserIDs -> Failures \cup {None}] /\ R \subseteq Entries(failures)
  <2>1. /\ recent \in [UserIDs -> Failures \cup {None}]
        /\ failures \in [UserIDs -> Failures \cup {None}]
    BY <1>1, FailureForms, Zenon DEF DataOK
  <2> QED BY <2>1, Zenon DEF Recent, Entries
<1>3. IsFiniteSet(R) /\ Cardinality(R) <= uiAuthFailureMaximum
  BY <1>2, TableShrinks, Zenon DEF LimiterTableBounded
<1>4. Cardinality(R) \in Nat /\ uiAuthFailureMaximum \in Nat
  BY <1>3, FS_CardinalityType, AccessAssumption, Zenon
<1>5. ASSUME NEW f \in [UserIDs -> Failures \cup {None}], failures' = Counted(f, u, now)
      PROVE  Entries(failures') \subseteq Entries(f) \cup {u}
  BY <1>1, <1>5, Zenon DEF Counted, Entries
<1>6. \/ /\ Cardinality(R) >= uiAuthFailureMaximum
         /\ \E v \in OldestFailures(recent) :
              failures' = Counted([recent EXCEPT ![v] = None], u, now)
      \/ /\ ~(Cardinality(R) >= uiAuthFailureMaximum)
         /\ failures' = Counted(recent, u, now)
  BY Zenon DEF record
<1> HIDE DEF recent, R, u, now
<1>7. CASE /\ ~(Cardinality(R) >= uiAuthFailureMaximum)
           /\ failures' = Counted(recent, u, now)
  <2>1. Cardinality(R) + 1 <= uiAuthFailureMaximum
    BY <1>4, <1>7
  <2>2. Entries(failures') \subseteq R \cup {u}
    BY <1>2, <1>5, <1>7, Zenon DEF R
  <2> QED BY <1>3, <2>1, <2>2, TableGrows, Zenon DEF LimiterTableBounded
<1>8. ASSUME NEW v \in OldestFailures(recent),
             failures' = Counted([recent EXCEPT ![v] = None], u, now)
      PROVE  LimiterTableBounded'
  <2> DEFINE f == [recent EXCEPT ![v] = None]
  <2>1. v \in R /\ f \in [UserIDs -> Failures \cup {None}]
    BY <1>2, Zenon DEF OldestFailures, R
  <2>2. Entries(f) \subseteq R \ {v}
    BY <1>2, <2>1, Zenon DEF Entries, R
  <2>3. failures' = Counted(f, u, now)
    BY <1>8, Zenon
  <2> HIDE DEF f
  <2>4. Entries(failures') \subseteq (R \ {v}) \cup {u}
    BY <1>5, <2>1, <2>2, <2>3, Zenon
  <2>5. IsFiniteSet(R \ {v}) /\ Cardinality(R \ {v}) = Cardinality(R) - 1
    BY <1>3, <2>1, FS_RemoveElement, Zenon
  <2>6. Cardinality(R \ {v}) + 1 <= uiAuthFailureMaximum
    BY <1>3, <1>4, <2>5
  <2> QED BY <2>4, <2>5, <2>6, TableGrows, Zenon DEF LimiterTableBounded
<1> QED BY <1>6, <1>7, <1>8, Zenon

\* The limiter's table through every step.
THEOREM LimiterBounded == AccessSpec => []LimiterTableBounded
<1>1. AccessInit => LimiterTableBounded
  <2> SUFFICES ASSUME AccessInit PROVE LimiterTableBounded
    BY Zenon
  <2>1. Entries(failures) = {}
    BY Zenon DEF AccessInit, Entries
  <2>2. IsFiniteSet({}) /\ Cardinality({}) = 0
    BY FS_EmptySet, Zenon
  <2>3. 0 <= uiAuthFailureMaximum
    BY AccessAssumption
  <2> QED BY <2>1, <2>2, <2>3, Zenon DEF LimiterTableBounded
<1>2. ASSUME AccessInv, LimiterTableBounded, [AccessNext]_accessVars
      PROVE  LimiterTableBounded'
  <2>1. DataOK /\ SessionInv
    BY <1>2, Zenon DEF AccessInv
  <2>2. ASSUME Entries(failures') \subseteq Entries(failures) PROVE LimiterTableBounded'
    BY <1>2, <2>2, TableShrinks, Zenon DEF LimiterTableBounded
  <2>3. CASE UNCHANGED failures
    BY <2>2, <2>3, Zenon
  <2>4. CASE UNCHANGED accessVars
    BY <2>3, <2>4, Zenon DEF accessVars, data
  <2>5. ASSUME NEW h \in Handlers, Login(h) PROVE LimiterTableBounded'
    <3>1. CASE record(h)
      BY <1>2, <2>1, <3>1, RecordBounded, Zenon
    <3>2. ASSUME NEW w \in UserIDs, retryAfter(h, w) PROVE LimiterTableBounded'
      <4>1. failures' = Recent(clock) /\ DOMAIN failures = UserIDs
        BY <2>1, <3>2, Zenon DEF retryAfter, DataOK
      <4> QED BY <2>2, <4>1, Zenon DEF Recent, Entries
    <3>3. CASE store(h)
      <4>1. UNCHANGED failures \/ failures' = [failures EXCEPT ![requests[h].session.user] = None]
        BY Zenon, <3>3 DEF store
      <4> QED BY <2>2, <2>3, <4>1, Zenon DEF Entries
    <3>4. CASE AuthenticateUser(h) \/ \E t \in Tokens : createUser(h, t)
      BY <2>3, <3>4, Zenon DEF AuthenticateUser, createUser, data
    <3> QED BY <2>5, <3>1, <3>2, <3>3, <3>4, Zenon DEF Login
  <2>6. ASSUME NEW h \in Handlers, UseSession(h) PROVE UNCHANGED failures
    BY Zenon, <2>6 DEF UseSession, lookUp, UISession, insert, ActiveUserPrincipal, drop,
                       refresh, SaveUISession, serve, destroy, DeleteUISession, data
  <2>7. ASSUME NEW h \in Handlers, UseKey(h) \/ Manage(h) PROVE UNCHANGED failures
    BY Zenon, <2>7 DEF UseKey, RevokeAPIKey, AuthenticateAPIKey, CreateAPIKey, SetAPIKeyRole,
                       recordUse, data, Manage
  <2>8. CASE Tick
    BY <2>3, <2>8, Zenon DEF Tick
  <2>9. CASE Restart
    BY <2>2, <2>9, Zenon DEF Restart, Entries
  <2> QED BY <1>2, <2>3, <2>4, <2>5, <2>6, <2>7, <2>8, <2>9, Zenon DEF AccessNext
<1>3. AccessInv /\ LimiterTableBounded /\ [AccessNext]_accessVars => LimiterTableBounded'
  BY <1>2, Zenon
<1> QED BY <1>1, <1>3, InitAccess, NextAccess, PTL DEF AccessSpec
=============================================================================
