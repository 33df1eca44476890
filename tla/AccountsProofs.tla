--------------------------- MODULE AccountsProofs ---------------------------
(***************************************************************************)
(* For every set of users, roles, actions and threads and any number of    *)
(* requests: the types, the references between the tables and the          *)
(* conditions under which nobody can be left to manage users.              *)
(***************************************************************************)
EXTENDS Accounts, TLAPS

(* What a request knows of the rows it is about, and the roles of the      *)
(* migration: all are there, none is being deleted, SUPER_ADMIN is not     *)
(* being edited, and an edit that nobody overlapped has deleted, or read,  *)
(* exactly what its role may do.                                           *)
Knows(t) ==
    /\ request[t].step = "deleting" => request[t].role \notin SystemRoles
    /\ request[t].step = "editing" => request[t].role # SUPER_ADMIN
    /\ request[t].step = "editing" /\ ~request[t].overlapped =>
          request[t].role \in roles /\ request[t].erased = grants[request[t].role]
    /\ request[t].step = "labelling" /\ ~request[t].overlapped =>
          request[t].role \in roles /\ request[t].asked = grants[request[t].role]

RequestsKnow == SystemRoles \subseteq roles /\ \A t \in Threads : Knows(t)

(* The row that an idle thread stands for is one of a request.             *)
LEMMA IdleType == Idle \in Requests
BY AccountsAssumption DEF Idle, Requests

(* The tables the migration leaves have their types.                       *)
LEMMA InitType == Init => TypeOK
<1> SUFFICES ASSUME Init PROVE TypeOK
    OBVIOUS
<1>1. role \in [Users -> Roles \union {NoRole}] /\ active \in SUBSET Present
    BY AccountsAssumption DEF Init, Present
<1>2. /\ grants \in [Roles -> SUBSET Actions] /\ roles \in SUBSET Roles
      /\ \A r \in Roles \ roles : grants[r] = {}
    BY AccountsAssumption DEF Init
<1>3. /\ cited \in SUBSET Users /\ logged \in [Roles -> SUBSET Actions]
      /\ torn \in SUBSET Roles
    BY <1>2 DEF Init
<1>5. mishap \in BOOLEAN
    BY DEF Init
<1>6. requests \in 0 .. MaxRequests
    BY AccountsAssumption DEF Init
<1>4. request \in [Threads -> Requests]
    BY IdleType DEF Init
<1> QED
    BY <1>1, <1>2, <1>3, <1>4, <1>5, <1>6 DEF TypeOK

(* Edits that outlast a request keep the type of theirs.                   *)
LEMMA OutlastingType ==
    ASSUME TypeOK, NEW t \in Threads, NEW gone, Outlasting(t, gone)
    PROVE  request' \in [Threads -> Requests]
<1> SUFFICES ASSUME NEW x \in Threads
             PROVE  request'[x] \in Requests
    BY DEF Outlasting
<1>1. request[x] \in Requests
    BY DEF TypeOK
<1>2. [request[x] EXCEPT !.erased = @ \ gone, !.overlapped = TRUE] \in Requests
    BY <1>1 DEF Requests
<1>3. request'[x] \in {Idle, request[x],
          [request[x] EXCEPT !.erased = @ \ gone, !.overlapped = TRUE]}
    BY DEF Outlasting
<1> QED
    BY <1>1, <1>2, <1>3, IdleType

(* Where only requests are answered or begun, their type is kept.          *)
LEMMA ServedType ==
    ASSUME TypeOK, NEW t \in Threads, Served(t)
    PROVE  request' \in [Threads -> Requests]
BY IdleType DEF TypeOK, Served

(* A row of the log names a user.                                          *)
LEMMA LogsType ==
    ASSUME TypeOK, NEW t \in Threads, Logs(t)
    PROVE  cited' \in SUBSET Users
BY DEF TypeOK, Logs, Present

(* Every step keeps the types.                                             *)
LEMMA TypeStep == TypeOK /\ [Next]_vars => TypeOK'
<1> SUFFICES ASSUME TypeOK, [Next]_vars PROVE TypeOK'
    OBVIOUS
<1>1. ASSUME NEW t \in Threads, NEW u \in Users, Authorize(t, u)
      PROVE  TypeOK'
    <2>1. [Idle EXCEPT !.step = "authorized", !.actor = u] \in Requests
        BY IdleType DEF Idle, Requests
    <2>2. request' \in [Threads -> Requests]
        BY <1>1, <2>1 DEF Authorize, TypeOK
    <2>3. requests' \in 0 .. MaxRequests
        BY <1>1, AccountsAssumption DEF Authorize, TypeOK
    <2> QED
        BY <1>1, <2>2, <2>3 DEF Authorize, TypeOK, tables, Present
<1>2. ASSUME NEW t \in Threads, NEW u \in Users, UpdateUser(t, u)
      PROVE  TypeOK'
    <2>1. request' \in [Threads -> Requests] /\ cited' \in SUBSET Users
        BY <1>2, ServedType, LogsType DEF UpdateUser, Commit
    <2>2. role' \in [Users -> Roles \union {NoRole}] /\ active' \in SUBSET Present'
        BY <1>2, AccountsAssumption DEF UpdateUser, TypeOK, Present
    <2> QED
        BY <1>2, <2>1, <2>2 DEF UpdateUser, Commit, TypeOK
<1>3. ASSUME NEW t \in Threads, NEW u \in Users, DeleteUser(t, u)
      PROVE  TypeOK'
    <2>1. request' \in [Threads -> Requests] /\ cited' \in SUBSET Users
        BY <1>3, ServedType, LogsType DEF DeleteUser, Commit
    <2>2. role' \in [Users -> Roles \union {NoRole}] /\ active' \in SUBSET Present'
        BY <1>3, AccountsAssumption DEF DeleteUser, TypeOK, Present
    <2> QED
        BY <1>3, <2>1, <2>2 DEF DeleteUser, Commit, TypeOK
<1>4. ASSUME NEW t \in Threads, NEW u \in Users, NEW r \in Roles, CreateUser(t, u, r)
      PROVE  TypeOK'
    <2>1. request' \in [Threads -> Requests] /\ cited' \in SUBSET Users
        BY <1>4, ServedType, LogsType DEF CreateUser, Commit
    <2>2. role' \in [Users -> Roles \union {NoRole}] /\ active' \in SUBSET Present'
        BY <1>4, AccountsAssumption DEF CreateUser, TypeOK, Present
    <2> QED
        BY <1>4, <2>1, <2>2 DEF CreateUser, Commit, TypeOK
<1>5. ASSUME NEW t \in Threads, NEW r \in Roles, NEW asked \in SUBSET Actions,
             CreateRole(t, r, asked)
      PROVE  TypeOK'
    <2>1. request' \in [Threads -> Requests] /\ cited' \in SUBSET Users
        BY <1>5, ServedType, LogsType DEF CreateRole, Commit
    <2>2. /\ roles' \in SUBSET Roles /\ grants' \in [Roles -> SUBSET Actions]
          /\ \A q \in Roles \ roles' : grants'[q] = {}
          /\ logged' \in [Roles -> SUBSET Actions] /\ torn' \in SUBSET Roles
        BY <1>5 DEF CreateRole, TypeOK
    <2> QED
        BY <1>5, <2>1, <2>2 DEF CreateRole, Commit, TypeOK, Present
<1>6. ASSUME NEW t \in Threads, NEW r \in Roles, NEW asked \in SUBSET Actions,
             EraseGrants(t, r, asked)
      PROVE  TypeOK'
    <2>1. [request[t] EXCEPT !.step = "editing", !.role = r, !.asked = asked,
                             !.erased = grants[r]] \in Requests
        BY DEF TypeOK, Requests
    <2>2. request' \in [Threads -> Requests]
        BY <1>6, <2>1 DEF EraseGrants, TypeOK
    <2> QED
        BY <1>6, <2>2 DEF EraseGrants, TypeOK, tables, Present
<1>7. ASSUME NEW t \in Threads, NEW r \in Roles, CountUsers(t, r)
      PROVE  TypeOK'
    <2>1. [request[t] EXCEPT !.step = "deleting", !.role = r] \in Requests
        BY DEF TypeOK, Requests
    <2>2. request' \in [Threads -> Requests]
        BY <1>7, <2>1 DEF CountUsers, TypeOK
    <2> QED
        BY <1>7, <2>2 DEF CountUsers, TypeOK, tables, Present
<1>14. ASSUME NEW t \in Threads, NEW r \in Roles, ReadRole(t, r)
       PROVE  TypeOK'
    <2>1. [request[t] EXCEPT !.step = "labelling", !.role = r, !.asked = grants[r]] \in Requests
        BY DEF TypeOK, Requests
    <2>2. request' \in [Threads -> Requests]
        BY <1>14, <2>1 DEF ReadRole, TypeOK
    <2> QED
        BY <1>14, <2>2 DEF ReadRole, TypeOK, tables, Present
<1>15. ASSUME NEW t \in Threads, Relabel(t)
       PROVE  TypeOK'
    <2>1. request' \in [Threads -> Requests] /\ cited' \in SUBSET Users
        BY <1>15, ServedType, LogsType DEF Relabel, Commit
    <2>2. request[t].role \in Roles /\ request[t].asked \in SUBSET Actions
        BY DEF TypeOK, Requests
    <2>3. logged' \in [Roles -> SUBSET Actions] /\ torn' \in SUBSET Roles
        BY <1>15, <2>2 DEF Relabel, TypeOK
    <2> QED
        BY <1>15, <2>1, <2>3 DEF Relabel, Commit, TypeOK, Present
<1>8. ASSUME NEW t \in Threads, UpdateRole(t)
      PROVE  TypeOK'
    <2>1. request' \in [Threads -> Requests] /\ cited' \in SUBSET Users
        BY <1>8, OutlastingType, LogsType DEF UpdateRole, Commit
    <2>2. request[t].role \in Roles /\ request[t].asked \in SUBSET Actions
        BY DEF TypeOK, Requests
    <2>3. /\ grants' \in [Roles -> SUBSET Actions]
          /\ logged' \in [Roles -> SUBSET Actions] /\ torn' \in SUBSET Roles
        BY <1>8, <2>2 DEF UpdateRole, TypeOK
    <2>4. \A q \in Roles \ roles' : grants'[q] = {}
        BY <1>8, <2>2 DEF UpdateRole, TypeOK
    <2> QED
        BY <1>8, <2>1, <2>3, <2>4 DEF UpdateRole, Commit, TypeOK, Present
<1>9. ASSUME NEW t \in Threads, DeleteRole(t)
      PROVE  TypeOK'
    <2>1. request' \in [Threads -> Requests] /\ cited' \in SUBSET Users
        BY <1>9, OutlastingType, LogsType DEF DeleteRole, Commit
    <2>2. /\ roles' \in SUBSET Roles /\ grants' \in [Roles -> SUBSET Actions]
          /\ \A q \in Roles \ roles' : grants'[q] = {}
          /\ logged' \in [Roles -> SUBSET Actions] /\ torn' \in SUBSET Roles
        BY <1>9 DEF DeleteRole, TypeOK
    <2> QED
        BY <1>9, <2>1, <2>2 DEF DeleteRole, Commit, TypeOK, Present
<1>10. ASSUME NEW t \in Threads, Reject(t)
       PROVE  TypeOK'
    BY <1>10, IdleType DEF Reject, TypeOK, tables, Present
<1>11. ASSUME NEW u \in Users, Work(u)
       PROVE  TypeOK'
    BY <1>11 DEF Work, TypeOK, Present
<1>12. CASE Bootstrap
    <2>1. role' \in [Users -> Roles \union {NoRole}] /\ active' \in SUBSET Present'
        BY <1>12, AccountsAssumption DEF Bootstrap, TypeOK, Present
    <2> QED
        BY <1>12, <2>1 DEF Bootstrap, TypeOK
<1>13. CASE UNCHANGED vars
    BY <1>13 DEF vars, tables, TypeOK, Present
<1> QED
    BY <1>1, <1>2, <1>3, <1>4, <1>5, <1>6, <1>7, <1>8, <1>9, <1>10, <1>11, <1>12, <1>13,
       <1>14, <1>15
    DEF Next, Serve

(* The tables of users and roles and the requests keep their types         *)
(* whatever requests overlap (users.py, roles.py).                         *)
THEOREM TypeCorrect == Spec => []TypeOK
BY InitType, TypeStep, PTL DEF Spec

-----------------------------------------------------------------------------
(* What the requests know. *)

(* At the start there is no request.                                       *)
LEMMA InitKnow == Init => RequestsKnow
BY DEF Init, RequestsKnow, Knows, Idle

(* The request that is served is idle next; nothing is known of it.        *)
LEMMA OutlastingKnow ==
    ASSUME TypeOK, RequestsKnow, NEW t \in Threads, NEW gone, Outlasting(t, gone),
           SystemRoles \subseteq roles',
           \A r \in Roles \ {request[t].role} :
               grants'[r] = grants[r] /\ (r \in roles => r \in roles')
    PROVE  RequestsKnow'
<1> SUFFICES ASSUME NEW x \in Threads
             PROVE  Knows(x)'
    BY DEF RequestsKnow
<1>1. CASE x = t
    BY <1>1 DEF Outlasting, Knows, Idle
<1>2. CASE x # t /\ Overlapping(t, x)
    <2>1. request'[x] = [request[x] EXCEPT !.erased = @ \ gone, !.overlapped = TRUE]
        BY <1>2 DEF Outlasting
    <2>2. request[x] \in Requests /\ Knows(x)
        BY DEF TypeOK, RequestsKnow
    <2>3. /\ request'[x].step = request[x].step /\ request'[x].role = request[x].role
          /\ request'[x].overlapped
        BY <2>1, <2>2 DEF Requests
    <2> QED
        BY <2>2, <2>3 DEF Knows
<1>3. CASE x # t /\ ~Overlapping(t, x)
    <2>1. request'[x] = request[x]
        BY <1>3 DEF Outlasting
    <2>2. request[x] \in Requests /\ Knows(x)
        BY DEF TypeOK, RequestsKnow
    <2>3. request[x].step \in {"editing", "labelling"} =>
              request[x].role \in Roles \ {request[t].role}
        BY <1>3, <2>2 DEF Overlapping, Requests
    <2> QED
        BY <2>1, <2>2, <2>3 DEF Knows
<1> QED
    BY <1>1, <1>2, <1>3

(* An answer leaves the other requests what they know.                     *)
LEMMA ServedKnow ==
    ASSUME TypeOK, RequestsKnow, NEW t \in Threads, Served(t),
           roles \subseteq roles', \A r \in roles : grants'[r] = grants[r]
    PROVE  RequestsKnow'
<1> SUFFICES ASSUME NEW x \in Threads
             PROVE  Knows(x)'
    BY DEF RequestsKnow
<1>1. CASE x = t
    BY <1>1 DEF Served, TypeOK, Knows, Idle
<1>2. CASE x # t
    <2>1. request'[x] = request[x] /\ Knows(x)
        BY <1>2 DEF Served, TypeOK, RequestsKnow
    <2> QED
        BY <2>1 DEF Knows
<1> QED
    BY <1>1, <1>2

(* What a request knows stays true until it is served.                     *)
LEMMA KnowStep == TypeOK /\ RequestsKnow /\ [Next]_vars => RequestsKnow'
<1> SUFFICES ASSUME TypeOK, RequestsKnow, [Next]_vars PROVE RequestsKnow'
    OBVIOUS
<1>1. ASSUME NEW t \in Threads, NEW u \in Users, Authorize(t, u)
      PROVE  RequestsKnow'
    BY <1>1 DEF Authorize, tables, TypeOK, RequestsKnow, Knows, Idle
<1>2. ASSUME NEW t \in Threads, NEW u \in Users, UpdateUser(t, u)
      PROVE  RequestsKnow'
    BY <1>2, ServedKnow DEF UpdateUser
<1>3. ASSUME NEW t \in Threads, NEW u \in Users, DeleteUser(t, u)
      PROVE  RequestsKnow'
    BY <1>3, ServedKnow DEF DeleteUser
<1>4. ASSUME NEW t \in Threads, NEW u \in Users, NEW r \in Roles, CreateUser(t, u, r)
      PROVE  RequestsKnow'
    BY <1>4, ServedKnow DEF CreateUser
<1>5. ASSUME NEW t \in Threads, NEW r \in Roles, NEW asked \in SUBSET Actions,
             CreateRole(t, r, asked)
      PROVE  RequestsKnow'
    <2>1. roles \subseteq roles' /\ \A q \in roles : grants'[q] = grants[q]
        BY <1>5 DEF CreateRole, TypeOK
    <2> QED
        BY <1>5, <2>1, ServedKnow DEF CreateRole
<1>6. ASSUME NEW t \in Threads, NEW r \in Roles, NEW asked \in SUBSET Actions,
             EraseGrants(t, r, asked)
      PROVE  RequestsKnow'
    <2> SUFFICES ASSUME NEW x \in Threads
                 PROVE  Knows(x)'
        BY <1>6 DEF EraseGrants, tables, RequestsKnow
    <2>1. CASE x = t
        <3>1. request[t] \in Requests
            BY DEF TypeOK
        <3>2. /\ request'[t].step = "editing" /\ request'[t].role = r
              /\ request'[t].erased = grants[r] /\ r \in roles \ {SUPER_ADMIN}
              /\ roles' = roles /\ grants' = grants
            BY <1>6, <3>1 DEF EraseGrants, tables, TypeOK, Requests
        <3> QED
            BY <2>1, <3>2 DEF Knows
    <2>2. CASE x # t
        BY <1>6, <2>2 DEF EraseGrants, tables, TypeOK, RequestsKnow, Knows
    <2> QED
        BY <2>1, <2>2
<1>7. ASSUME NEW t \in Threads, NEW r \in Roles, CountUsers(t, r)
      PROVE  RequestsKnow'
    <2> SUFFICES ASSUME NEW x \in Threads
                 PROVE  Knows(x)'
        BY <1>7 DEF CountUsers, tables, RequestsKnow
    <2>1. CASE x = t
        <3>1. request[t] \in Requests
            BY DEF TypeOK
        <3>2. request'[t].step = "deleting" /\ request'[t].role = r /\ r \notin SystemRoles
            BY <1>7, <3>1 DEF CountUsers, TypeOK, Requests
        <3> QED
            BY <2>1, <3>2 DEF Knows
    <2>2. CASE x # t
        BY <1>7, <2>2 DEF CountUsers, tables, TypeOK, RequestsKnow, Knows
    <2> QED
        BY <2>1, <2>2
<1>14. ASSUME NEW t \in Threads, NEW r \in Roles, ReadRole(t, r)
       PROVE  RequestsKnow'
    <2> SUFFICES ASSUME NEW x \in Threads
                 PROVE  Knows(x)'
        BY <1>14 DEF ReadRole, tables, RequestsKnow
    <2>1. CASE x = t
        <3>1. request[t] \in Requests
            BY DEF TypeOK
        <3>2. /\ request'[t].step = "labelling" /\ request'[t].role = r
              /\ request'[t].asked = grants[r] /\ r \in roles
              /\ roles' = roles /\ grants' = grants
            BY <1>14, <3>1 DEF ReadRole, tables, TypeOK, Requests
        <3> QED
            BY <2>1, <3>2 DEF Knows
    <2>2. CASE x # t
        BY <1>14, <2>2 DEF ReadRole, tables, TypeOK, RequestsKnow, Knows
    <2> QED
        BY <2>1, <2>2
<1>15. ASSUME NEW t \in Threads, Relabel(t)
       PROVE  RequestsKnow'
    BY <1>15, ServedKnow DEF Relabel
<1>8. ASSUME NEW t \in Threads, UpdateRole(t)
      PROVE  RequestsKnow'
    <2>1. Outlasting(t, request[t].erased) /\ roles' = roles
        BY <1>8 DEF UpdateRole
    <2>2. \A r \in Roles \ {request[t].role} : grants'[r] = grants[r]
        BY <1>8 DEF UpdateRole, TypeOK
    <2>3. SystemRoles \subseteq roles'
        BY <2>1 DEF RequestsKnow
    <2> QED
        BY <2>1, <2>2, <2>3, OutlastingKnow
<1>9. ASSUME NEW t \in Threads, DeleteRole(t)
      PROVE  RequestsKnow'
    <2>1. Outlasting(t, {}) /\ roles' = roles \ {request[t].role}
        BY <1>9 DEF DeleteRole
    <2>2. \A r \in Roles \ {request[t].role} : grants'[r] = grants[r]
        BY <1>9 DEF DeleteRole, TypeOK
    <2>3. SystemRoles \subseteq roles'
        BY <1>9, <2>1 DEF DeleteRole, Commit, RequestsKnow, Knows
    <2> QED
        BY <2>1, <2>2, <2>3, OutlastingKnow
<1>10. ASSUME NEW t \in Threads, Reject(t)
       PROVE  RequestsKnow'
    BY <1>10, ServedKnow DEF Reject, Served, tables
<1>11. ASSUME NEW u \in Users, Work(u)
       PROVE  RequestsKnow'
    BY <1>11 DEF Work, RequestsKnow, Knows
<1>12. CASE Bootstrap
    BY <1>12 DEF Bootstrap, RequestsKnow, Knows
<1>13. CASE UNCHANGED vars
    BY <1>13 DEF vars, tables, RequestsKnow, Knows
<1> QED
    BY <1>1, <1>2, <1>3, <1>4, <1>5, <1>6, <1>7, <1>8, <1>9, <1>10, <1>11, <1>12, <1>13,
       <1>14, <1>15
    DEF Next, Serve

-----------------------------------------------------------------------------
(* References between the tables. *)

(* At the start there is nobody to refer to anything.                      *)
LEMMA InitReferences == Init => RolesInUseExist /\ AuthorsRemain
BY AccountsAssumption DEF Init, RolesInUseExist, AuthorsRemain, Present

(* A user who is named is not deleted, and who names himself is there.     *)
LEMMA ReferencesStep ==
    TypeOK /\ RolesInUseExist /\ AuthorsRemain /\ [Next]_vars
        => RolesInUseExist' /\ AuthorsRemain'
<1> SUFFICES ASSUME TypeOK, RolesInUseExist, AuthorsRemain, [Next]_vars
             PROVE  RolesInUseExist' /\ AuthorsRemain'
    OBVIOUS
<1> USE DEF RolesInUseExist, AuthorsRemain, Present
<1>1. ASSUME NEW t \in Threads, NEW u \in Users,
             Authorize(t, u) \/ UpdateUser(t, u) \/ DeleteUser(t, u)
      PROVE  RolesInUseExist' /\ AuthorsRemain'
    <2>1. CASE Authorize(t, u)
        BY <2>1 DEF Authorize, tables
    <2>2. CASE UpdateUser(t, u)
        BY <2>2, AccountsAssumption DEF UpdateUser, Commit, Logs, TypeOK
    <2>3. CASE DeleteUser(t, u)
        BY <2>3 DEF DeleteUser, Commit, Logs, TypeOK
    <2> QED
        BY <1>1, <2>1, <2>2, <2>3
<1>2. ASSUME NEW t \in Threads, NEW u \in Users, NEW r \in Roles, CreateUser(t, u, r)
      PROVE  RolesInUseExist' /\ AuthorsRemain'
    BY <1>2, AccountsAssumption DEF CreateUser, Commit, Logs, TypeOK
<1>3. ASSUME NEW t \in Threads, NEW r \in Roles, NEW asked \in SUBSET Actions,
             CreateRole(t, r, asked) \/ EraseGrants(t, r, asked)
      PROVE  RolesInUseExist' /\ AuthorsRemain'
    BY <1>3 DEF CreateRole, EraseGrants, tables, Commit, Logs, TypeOK
<1>4. ASSUME NEW t \in Threads, NEW r \in Roles, CountUsers(t, r)
      PROVE  RolesInUseExist' /\ AuthorsRemain'
    BY <1>4 DEF CountUsers, tables
<1>5. ASSUME NEW t \in Threads,
             \/ UpdateRole(t) \/ Relabel(t) \/ DeleteRole(t) \/ Reject(t)
             \/ \E r \in Roles : ReadRole(t, r)
      PROVE  RolesInUseExist' /\ AuthorsRemain'
    BY <1>5 DEF UpdateRole, ReadRole, Relabel, DeleteRole, Reject, tables, Commit, Logs, TypeOK
<1>6. ASSUME NEW u \in Users, Work(u)
      PROVE  RolesInUseExist' /\ AuthorsRemain'
    BY <1>6 DEF Work, May
<1>7. CASE Bootstrap
    BY <1>7, AccountsAssumption DEF Bootstrap, TypeOK
<1>8. CASE UNCHANGED vars
    BY <1>8 DEF vars, tables
<1> QED
    BY <1>1, <1>2, <1>3, <1>4, <1>5, <1>6, <1>7, <1>8 DEF Next, Serve

-----------------------------------------------------------------------------
(* Who can manage users. *)

(* At the start there is nobody to lock out.                               *)
LEMMA InitLockout == Init => NoLockout
<1> SUFFICES ASSUME Init PROVE NoLockout
    OBVIOUS
<1>1. SUPER_ADMIN \in roles /\ grants[SUPER_ADMIN] = Actions
    BY AccountsAssumption DEF Init
<1>2. Present = {}
    BY DEF Init, Present
<1> QED
    BY <1>1, <1>2 DEF NoLockout

(* One who can manage users and keeps account, role and its permission     *)
(* still can.                                                              *)
LEMMA StaysManager ==
    ASSUME NEW u \in Managers, u \in active', role'[u] = role[u],
           grants'[role[u]] = grants[role[u]]
    PROVE  Managers' # {}
BY DEF Managers, May

(* An actor whose right is fresh keeps it: no request is about its own     *)
(* account, a role with users is neither made nor deleted, and an edit that*)
(* takes the right from the actor's role is a mishap.                      *)
LEMMA ActorStays ==
    ASSUME TypeOK, RequestsKnow, RolesInUseExist, NEW t \in Threads,
           \/ \E u \in Users : UpdateUser(t, u) \/ DeleteUser(t, u)
           \/ \E u \in Users, r \in Roles : CreateUser(t, u, r)
           \/ \E r \in Roles, asked \in SUBSET Actions : CreateRole(t, r, asked)
           \/ UpdateRole(t)
           \/ DeleteRole(t),
           ~mishap'
    PROVE  Managers' # {}
<1> DEFINE a == request[t].actor
<1>1. a \in Managers
    BY DEF UpdateUser, DeleteUser, CreateUser, CreateRole, UpdateRole, DeleteRole, Stale
<1>2. a \in active /\ a \in Present /\ role[a] \in roles /\ role[a] \in Roles
    BY <1>1 DEF Managers, May, Present, RolesInUseExist, TypeOK
<1>3. ASSUME NEW u \in Users, UpdateUser(t, u) \/ DeleteUser(t, u)
      PROVE  Managers' # {}
    <2>1. a # u /\ a \in active' /\ role'[a] = role[a] /\ grants' = grants
        BY <1>2, <1>3 DEF UpdateUser, DeleteUser, TypeOK, Present
    <2> QED
        BY <1>1, <2>1, StaysManager
<1>4. ASSUME NEW u \in Users, NEW r \in Roles, CreateUser(t, u, r)
      PROVE  Managers' # {}
    <2>1. a # u /\ a \in active' /\ role'[a] = role[a] /\ grants' = grants
        BY <1>2, <1>4 DEF CreateUser, TypeOK, Present
    <2> QED
        BY <1>1, <2>1, StaysManager
<1>5. ASSUME NEW r \in Roles, NEW asked \in SUBSET Actions, CreateRole(t, r, asked)
      PROVE  Managers' # {}
    <2>1. a \in active' /\ role'[a] = role[a] /\ grants'[role[a]] = grants[role[a]]
        BY <1>2, <1>5 DEF CreateRole, TypeOK
    <2> QED
        BY <1>1, <2>1, StaysManager
<1>6. CASE UpdateRole(t)
    <2>1. a \in active' /\ role' = role
        BY <1>2, <1>6 DEF UpdateRole
    <2>2. CASE role[a] # request[t].role
        <3>1. grants'[role[a]] = grants[role[a]]
            BY <1>2, <1>6, <2>2 DEF UpdateRole, TypeOK
        <3> QED
            BY <1>1, <2>1, <3>1, StaysManager
    <2>3. CASE role[a] = request[t].role
        <3>1. USER_MANAGE \in grants'[role[a]]
            BY <1>6, <2>3 DEF UpdateRole
        <3>2. a \in Managers'
            BY <1>2, <2>1, <3>1 DEF Managers, May, Present
        <3> QED
            BY <3>2
    <2> QED
        BY <2>2, <2>3
<1>7. CASE DeleteRole(t)
    <2>1. a \in active' /\ role'[a] = role[a] /\ grants'[role[a]] = grants[role[a]]
        BY <1>2, <1>7 DEF DeleteRole, TypeOK, Present
    <2> QED
        BY <1>1, <2>1, StaysManager
<1> QED
    BY <1>3, <1>4, <1>5, <1>6, <1>7

(* SUPER_ADMIN is neither made, edited nor deleted.                        *)
LEMMA SuperAdminStays ==
    ASSUME TypeOK, RequestsKnow, NoLockout, [Next]_vars
    PROVE  SUPER_ADMIN \in roles' /\ grants'[SUPER_ADMIN] = Actions
<1> USE AccountsAssumption DEF NoLockout
<1>1. ASSUME NEW t \in Threads, NEW u \in Users,
             Authorize(t, u) \/ UpdateUser(t, u) \/ DeleteUser(t, u)
      PROVE  SUPER_ADMIN \in roles' /\ grants'[SUPER_ADMIN] = Actions
    BY <1>1 DEF Authorize, UpdateUser, DeleteUser, tables
<1>2. ASSUME NEW t \in Threads, NEW u \in Users, NEW r \in Roles, CreateUser(t, u, r)
      PROVE  SUPER_ADMIN \in roles' /\ grants'[SUPER_ADMIN] = Actions
    BY <1>2 DEF CreateUser
<1>3. ASSUME NEW t \in Threads, NEW r \in Roles, NEW asked \in SUBSET Actions,
             CreateRole(t, r, asked) \/ EraseGrants(t, r, asked)
      PROVE  SUPER_ADMIN \in roles' /\ grants'[SUPER_ADMIN] = Actions
    BY <1>3 DEF CreateRole, EraseGrants, tables, TypeOK
<1>4. ASSUME NEW t \in Threads, NEW r \in Roles,
             CountUsers(t, r) \/ ReadRole(t, r) \/ Relabel(t)
      PROVE  SUPER_ADMIN \in roles' /\ grants'[SUPER_ADMIN] = Actions
    BY <1>4 DEF CountUsers, ReadRole, Relabel, tables
<1>5. ASSUME NEW t \in Threads, UpdateRole(t) \/ DeleteRole(t)
      PROVE  SUPER_ADMIN \in roles' /\ grants'[SUPER_ADMIN] = Actions
    <2>1. request[t].role # SUPER_ADMIN
        BY <1>5 DEF UpdateRole, DeleteRole, Commit, RequestsKnow, Knows
    <2> QED
        BY <1>5, <2>1 DEF UpdateRole, DeleteRole, TypeOK
<1>6. ASSUME NEW t \in Threads, Reject(t)
      PROVE  SUPER_ADMIN \in roles' /\ grants'[SUPER_ADMIN] = Actions
    BY <1>6 DEF Reject, tables
<1>7. CASE (\E u \in Users : Work(u)) \/ Bootstrap \/ UNCHANGED vars
    BY <1>7 DEF Work, Bootstrap, vars, tables
<1> QED
    BY <1>1, <1>2, <1>3, <1>4, <1>5, <1>6, <1>7 DEF Next, Serve

(* Without a mishap every step leaves somebody who can manage users.       *)
LEMMA LockoutStep ==
    TypeOK /\ RequestsKnow /\ RolesInUseExist /\ NoLockout /\ [Next]_vars => NoLockout'
<1> SUFFICES ASSUME TypeOK, RequestsKnow, RolesInUseExist, NoLockout, [Next]_vars,
                    ~mishap', Present' # {}
             PROVE  Managers' # {}
    BY SuperAdminStays DEF NoLockout
<1>1. ASSUME NEW t \in Threads,
             \/ \E u \in Users : UpdateUser(t, u) \/ DeleteUser(t, u)
             \/ \E u \in Users, r \in Roles : CreateUser(t, u, r)
             \/ \E r \in Roles, asked \in SUBSET Actions : CreateRole(t, r, asked)
             \/ UpdateRole(t)
             \/ DeleteRole(t)
      PROVE  Managers' # {}
    BY <1>1, ActorStays
<1>2. ASSUME UNCHANGED <<role, active, grants, mishap>>
      PROVE  Managers' # {}
    BY <1>2 DEF NoLockout, Managers, May, Present
<1>3. ASSUME NEW t \in Threads,
             \/ \E u \in Users : Authorize(t, u)
             \/ \E r \in Roles, asked \in SUBSET Actions : EraseGrants(t, r, asked)
             \/ \E r \in Roles : CountUsers(t, r) \/ ReadRole(t, r)
             \/ Relabel(t) \/ Reject(t)
      PROVE  Managers' # {}
    BY <1>2, <1>3 DEF Authorize, EraseGrants, CountUsers, ReadRole, Relabel, Reject, tables
<1>4. CASE (\E u \in Users : Work(u)) \/ UNCHANGED vars
    BY <1>2, <1>4 DEF Work, vars, tables
<1>5. CASE Bootstrap
    <2>1. SuperUser \in active' /\ role'[SuperUser] = SUPER_ADMIN /\ grants' = grants
        BY <1>5, AccountsAssumption DEF Bootstrap, TypeOK
    <2>2. SUPER_ADMIN # NoRole /\ USER_MANAGE \in grants[SUPER_ADMIN]
        BY AccountsAssumption DEF NoLockout
    <2>3. SuperUser \in Managers'
        BY <2>1, <2>2, AccountsAssumption DEF Managers, May
    <2> QED
        BY <2>3
<1> QED
    BY <1>1, <1>3, <1>4, <1>5 DEF Next, Serve

-----------------------------------------------------------------------------
(* What the log says of a role. *)

(* At the start the log says what the migration has granted.               *)
LEMMA InitWhole == Init => EditsAreWhole
BY DEF Init, EditsAreWhole

(* An edit that nobody overlapped logs what its role may do.               *)
LEMMA WholeStep ==
    TypeOK /\ RequestsKnow /\ EditsAreWhole /\ [Next]_vars => EditsAreWhole'
<1> SUFFICES ASSUME TypeOK, RequestsKnow, EditsAreWhole, [Next]_vars
             PROVE  EditsAreWhole'
    OBVIOUS
<1> USE DEF EditsAreWhole
<1>1. ASSUME UNCHANGED <<roles, grants, logged, torn>>
      PROVE  EditsAreWhole'
    BY <1>1
<1>2. ASSUME NEW t \in Threads,
             \/ \E u \in Users : Authorize(t, u) \/ UpdateUser(t, u) \/ DeleteUser(t, u)
             \/ \E u \in Users, r \in Roles : CreateUser(t, u, r)
             \/ \E r \in Roles, asked \in SUBSET Actions : EraseGrants(t, r, asked)
             \/ \E r \in Roles : CountUsers(t, r) \/ ReadRole(t, r)
             \/ Reject(t)
      PROVE  EditsAreWhole'
    BY <1>1, <1>2 DEF Authorize, UpdateUser, DeleteUser, CreateUser, EraseGrants,
                      CountUsers, ReadRole, Reject, tables
<1>3. ASSUME NEW t \in Threads, NEW r \in Roles, NEW asked \in SUBSET Actions,
             CreateRole(t, r, asked)
      PROVE  EditsAreWhole'
    BY <1>3 DEF CreateRole, TypeOK
<1>4. ASSUME NEW t \in Threads, DeleteRole(t)
      PROVE  EditsAreWhole'
    BY <1>4 DEF DeleteRole, TypeOK
<1>5. ASSUME NEW t \in Threads, UpdateRole(t)
      PROVE  EditsAreWhole'
    <2> DEFINE r == request[t].role
    <2>1. r \in Roles /\ request[t].overlapped \in BOOLEAN
        BY DEF TypeOK, Requests
    <2>2. \A q \in Roles \ {r} : /\ grants'[q] = grants[q] /\ logged'[q] = logged[q]
                                 /\ q \in torn' <=> q \in torn
        BY <1>5, <2>1 DEF UpdateRole, TypeOK
    <2>3. CASE request[t].overlapped
        <3>1. r \in torn'
            BY <1>5, <2>3 DEF UpdateRole
        <3> QED
            BY <1>5, <2>2, <3>1 DEF UpdateRole, TypeOK
    <2>4. CASE ~request[t].overlapped
        <3>1. request[t].erased = grants[r]
            BY <1>5, <2>4 DEF UpdateRole, Commit, RequestsKnow, Knows
        <3>2. grants'[r] = request[t].asked /\ logged'[r] = request[t].asked
            BY <1>5, <2>1, <3>1 DEF UpdateRole, TypeOK
        <3> QED
            BY <1>5, <2>2, <3>2 DEF UpdateRole, TypeOK
    <2> QED
        BY <2>1, <2>3, <2>4
<1>6. ASSUME NEW t \in Threads, Relabel(t)
      PROVE  EditsAreWhole'
    <2> DEFINE r == request[t].role
    <2>1. r \in Roles /\ roles' = roles /\ grants' = grants
        BY <1>6 DEF Relabel, TypeOK, Requests
    <2>2. \A q \in Roles \ {r} : logged'[q] = logged[q] /\ (q \in torn' <=> q \in torn)
        BY <1>6, <2>1 DEF Relabel, TypeOK
    <2>3. CASE request[t].overlapped
        <3>1. r \in torn'
            BY <1>6, <2>3 DEF Relabel
        <3> QED
            BY <2>1, <2>2, <3>1 DEF TypeOK
    <2>4. CASE ~request[t].overlapped
        <3>1. request[t].asked = grants[r]
            BY <1>6, <2>4 DEF Relabel, Commit, RequestsKnow, Knows
        <3>2. logged'[r] = grants'[r]
            BY <1>6, <2>1, <3>1 DEF Relabel, TypeOK
        <3> QED
            BY <2>1, <2>2, <3>2 DEF TypeOK
    <2> QED
        BY <2>3, <2>4
<1>7. CASE (\E u \in Users : Work(u)) \/ Bootstrap \/ UNCHANGED vars
    BY <1>1, <1>7 DEF Work, Bootstrap, vars, tables
<1> QED
    BY <1>2, <1>3, <1>4, <1>5, <1>6, <1>7 DEF Next, Serve

-----------------------------------------------------------------------------
(* Roles in use and authors of log entries depend on one another: a user    *)
(* can be deleted only as long as nothing refers to him.                    *)
LEMMA ReferencesHold == Spec => [](RolesInUseExist /\ AuthorsRemain)
BY InitType, TypeStep, InitReferences, ReferencesStep, PTL DEF Spec

(* Every user's role exists, also when the users of a role were counted     *)
(* before somebody was given it (roles.py: delete_role).                    *)
THEOREM RolesStay == Spec => []RolesInUseExist
BY ReferencesHold, PTL

(* Whoever the log or another row refers to exists, also when the deletion  *)
(* of a user was checked before he left it (users.py: delete_user).         *)
THEOREM AuthorsStay == Spec => []AuthorsRemain
BY ReferencesHold, PTL

(* Nobody is left to manage users only after a request whose actor had     *)
(* lost the right took effect, or an edit that took it from the role of its*)
(* own actor (users.py and roles.py, the guards on one's own account and on*)
(* SUPER_ADMIN).                                                           *)
THEOREM ManagersRemain == Spec => []NoLockout
BY InitType, TypeStep, InitKnow, KnowStep, InitReferences, ReferencesStep,
   InitLockout, LockoutStep, PTL DEF Spec

(* An edit that no other overlaps leaves the role what the log says        *)
(* (roles.py: update_role).                                                *)
THEOREM LoneEditsAreWhole == Spec => []EditsAreWhole
BY InitType, TypeStep, InitKnow, KnowStep, InitWhole, WholeStep, PTL DEF Spec
=============================================================================
