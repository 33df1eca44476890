------------------------------ MODULE Accounts ------------------------------
(***************************************************************************)
(* Users, roles and what the roles may do, as administrators change them.  *)
(*                                                                         *)
(* A request first learns that its actor may manage users, and takes       *)
(* effect in a transaction that commits later, with a row of audit_logs    *)
(* that refers to the actor.  Deleting a role counts its users before, and *)
(* editing one deletes the rows of role_permissions that statement sees;   *)
(* an edit of its label alone logs the actions it has read before.         *)
(* mishap tells of the two ways to take a right that nobody guards: a      *)
(* request that takes effect though its actor lost the right meanwhile,    *)
(* and an edit that takes the right from the role of its own actor.        *)
(***************************************************************************)
EXTENDS Naturals

CONSTANTS
    Users,        \* ids of campaign.users
    Roles,        \* codes of campaign.roles
    SystemRoles,  \* those of migration 0007
    SUPER_ADMIN,
    Actions,      \* the catalogue in core/permissions.py
    USER_MANAGE,
    SeedGrants,   \* role_permissions after migration 0007
    SuperUser,    \* whom SUPER_EMAIL names
    Threads,      \* requests the API serves at the same time
    Nobody, NoRole,
    \* Bound of a run of the checker:
    MaxRequests

ASSUME AccountsAssumption ==
    /\ SystemRoles \subseteq Roles
    /\ SUPER_ADMIN \in SystemRoles
    /\ USER_MANAGE \in Actions
    /\ SeedGrants \in [SystemRoles -> SUBSET Actions]
    /\ SeedGrants[SUPER_ADMIN] = Actions
    /\ SuperUser \in Users
    /\ Nobody \notin Users /\ NoRole \notin Roles
    /\ MaxRequests \in Nat

VARIABLES
    role,     \* users.role, NoRole where there is no such user
    active,   \* users with is_active
    roles,    \* rows of campaign.roles
    grants,   \* role_permissions
    cited,    \* users whom audit_logs, imports or campaigns refer to
    logged,   \* what the last row of audit_logs on a role says it may do
    torn,     \* roles whose last edit overlapped another
    request,  \* what each thread is doing
    mishap, requests

tables == <<role, active, roles, grants, cited, logged, torn>>
vars == <<tables, request, mishap, requests>>

Idle == [step |-> "idle", actor |-> Nobody, role |-> SUPER_ADMIN, asked |-> {},
         erased |-> {}, overlapped |-> FALSE]

(* After the migrations of the first deployment, before its bootstrap.     *)
Init ==
    /\ role = [u \in Users |-> NoRole]
    /\ active = {}
    /\ roles = SystemRoles
    /\ grants = [r \in Roles |-> IF r \in SystemRoles THEN SeedGrants[r] ELSE {}]
    /\ cited = {}
    /\ logged = grants
    /\ torn = {}
    /\ request = [t \in Threads |-> Idle]
    /\ mishap = FALSE
    /\ requests = 0

Present == {u \in Users : role[u] # NoRole}
May(u, action) == u \in active /\ role[u] # NoRole /\ action \in grants[role[u]]
Managers == {u \in Users : May(u, USER_MANAGE)}

-----------------------------------------------------------------------------
(* require_action: the answer holds for the rest of the request.           *)
Authorize(t, u) ==
    /\ request[t] = Idle
    /\ May(u, USER_MANAGE)
    /\ requests < MaxRequests
    /\ requests' = requests + 1
    /\ request' = [request EXCEPT ![t] = [Idle EXCEPT !.step = "authorized", !.actor = u]]
    /\ UNCHANGED <<tables, mishap>>

(* A refusal, or a constraint that rolls the transaction back.             *)
Reject(t) ==
    /\ request[t] # Idle
    /\ request' = [request EXCEPT ![t] = Idle]
    /\ UNCHANGED <<tables, mishap, requests>>

(* The row of audit_logs refers to the actor, who has to be there still.   *)
Logs(t) ==
    /\ request[t].actor \in Present
    /\ cited' = cited \union {request[t].actor}

(* The end of a transaction at step s, which may come too late.            *)
Commit(t, s) ==
    /\ request[t].step = s
    /\ Logs(t)
    /\ UNCHANGED requests

(* Edits under way of the role this request is about.                     *)
Overlapping(t, x) ==
    x # t /\ request[x].step \in {"editing", "labelling"} /\ request[x].role = request[t].role

(* They outlast it, and have fewer rows left to delete.                    *)
Outlasting(t, gone) ==
    request' = [x \in Threads |->
        IF x = t THEN Idle
        ELSE IF Overlapping(t, x)
        THEN [request[x] EXCEPT !.erased = @ \ gone, !.overlapped = TRUE]
        ELSE request[x]]

Stale(t) == request[t].actor \notin Managers
Served(t) == request' = [request EXCEPT ![t] = Idle]

CreateUser(t, u, r) ==
    /\ Commit(t, "authorized")
    /\ u \notin Present
    /\ r \in roles
    /\ role' = [role EXCEPT ![u] = r]
    /\ active' = active \union {u}
    /\ mishap' = (mishap \/ Stale(t))
    /\ Served(t)
    /\ UNCHANGED <<roles, grants, logged, torn>>

(* Without the guards on one's own account. *)
UpdateAnyUser(t, u) ==
    /\ Commit(t, "authorized")
    /\ u \in Present
    /\ \/ \E r \in roles : role' = [role EXCEPT ![u] = r] /\ UNCHANGED active
       \/ active' = active \ {u} /\ UNCHANGED role
       \/ active' = active \union {u} /\ UNCHANGED role
    /\ mishap' = (mishap \/ Stale(t))
    /\ Served(t)
    /\ UNCHANGED <<roles, grants, logged, torn>>

(* Of one's own account nothing that matters here may be changed.          *)
UpdateUser(t, u) ==
    /\ Commit(t, "authorized")
    /\ u \in Present \ {request[t].actor}
    /\ \/ \E r \in roles : role' = [role EXCEPT ![u] = r] /\ UNCHANGED active
       \/ active' = active \ {u} /\ UNCHANGED role
       \/ active' = active \union {u} /\ UNCHANGED role
    /\ mishap' = (mishap \/ Stale(t))
    /\ Served(t)
    /\ UNCHANGED <<roles, grants, logged, torn>>

(* If the log and the imports let go of the user. *)
DeleteUserCited(t, u) ==
    /\ Commit(t, "authorized")
    /\ u \in Present \ {request[t].actor}
    /\ role' = [role EXCEPT ![u] = NoRole]
    /\ active' = active \ {u}
    /\ mishap' = (mishap \/ Stale(t))
    /\ Served(t)
    /\ UNCHANGED <<roles, grants, logged, torn>>

(* Foreign keys keep a user who has done anything; sessions and codes go.  *)
DeleteUser(t, u) ==
    /\ Commit(t, "authorized")
    /\ u \in Present \ {request[t].actor}
    /\ u \notin cited
    /\ role' = [role EXCEPT ![u] = NoRole]
    /\ active' = active \ {u}
    /\ mishap' = (mishap \/ Stale(t))
    /\ Served(t)
    /\ UNCHANGED <<roles, grants, logged, torn>>

CreateRole(t, r, asked) ==
    /\ Commit(t, "authorized")
    /\ r \notin roles
    /\ roles' = roles \union {r}
    /\ grants' = [grants EXCEPT ![r] = asked]
    /\ logged' = [logged EXCEPT ![r] = asked]
    /\ torn' = torn \ {r}
    /\ mishap' = (mishap \/ Stale(t))
    /\ Served(t)
    /\ UNCHANGED <<role, active>>

(* An edit that only adds. *)
EraseNothing(t, r, asked) ==
    /\ request[t].step = "authorized"
    /\ r \in roles \ {SUPER_ADMIN}
    /\ request' = [request EXCEPT ![t].step = "editing", ![t].role = r, ![t].asked = asked]
    /\ UNCHANGED <<tables, mishap, requests>>

(* DELETE: its snapshot has what is committed.                             *)
EraseGrants(t, r, asked) ==
    /\ request[t].step = "authorized"
    /\ r \in roles \ {SUPER_ADMIN}
    /\ request' = [request EXCEPT ![t].step = "editing", ![t].role = r,
                                  ![t].asked = asked, ![t].erased = grants[r]]
    /\ UNCHANGED <<tables, mishap, requests>>

(* The rows another edit was to delete are gone; those inserted are not    *)
(* among them, and collide with its own by primary key or stay.            *)
UpdateRole(t) ==
    LET r == request[t].role
        kept == grants[r] \ request[t].erased
        asked == request[t].asked
    IN  /\ Commit(t, "editing")
        /\ r \in roles \/ asked = {}
        /\ kept \intersect asked = {}
        /\ grants' = [grants EXCEPT ![r] = kept \union asked]
        /\ logged' = [logged EXCEPT ![r] = asked]
        /\ torn' = IF request[t].overlapped THEN torn \union {r} ELSE torn \ {r}
        /\ Outlasting(t, request[t].erased)
        /\ mishap' = (mishap \/ Stale(t) \/ (role[request[t].actor] = r
                                             /\ USER_MANAGE \notin grants'[r]))
        /\ UNCHANGED <<role, active, roles>>

(* An edit of the label alone, which SUPER_ADMIN allows too.               *)
ReadRole(t, r) ==
    /\ request[t].step = "authorized"
    /\ r \in roles
    /\ request' = [request EXCEPT ![t].step = "labelling", ![t].role = r,
                                  ![t].asked = grants[r]]
    /\ UNCHANGED <<tables, mishap, requests>>

Relabel(t) ==
    LET r == request[t].role
    IN  /\ Commit(t, "labelling")
        /\ logged' = [logged EXCEPT ![r] = request[t].asked]
        /\ torn' = IF request[t].overlapped THEN torn \union {r} ELSE torn \ {r}
        /\ Served(t)
        /\ UNCHANGED <<role, active, roles, grants, mishap>>

CountUsers(t, r) ==
    /\ request[t].step = "authorized"
    /\ r \in roles \ SystemRoles
    /\ \A u \in Users : role[u] # r
    /\ request' = [request EXCEPT ![t].step = "deleting", ![t].role = r]
    /\ UNCHANGED <<tables, mishap, requests>>

(* Without the foreign key of users.role. *)
DeleteCountedRole(t) ==
    /\ Commit(t, "deleting")
    /\ roles' = roles \ {request[t].role}
    /\ grants' = [grants EXCEPT ![request[t].role] = {}]
    /\ logged' = [logged EXCEPT ![request[t].role] = {}]
    /\ mishap' = (mishap \/ Stale(t))
    /\ Served(t)
    /\ UNCHANGED <<role, active, torn>>

(* The foreign key refuses a role that has users by now; the cascade waits *)
(* for an edit that has deleted rows.                                      *)
DeleteRole(t) ==
    /\ Commit(t, "deleting")
    /\ \A u \in Users : role[u] # request[t].role
    /\ \A x \in Threads : Overlapping(t, x) => request[x].erased = {}
    /\ roles' = roles \ {request[t].role}
    /\ grants' = [grants EXCEPT ![request[t].role] = {}]
    /\ logged' = [logged EXCEPT ![request[t].role] = {}]
    /\ mishap' = (mishap \/ Stale(t))
    /\ Outlasting(t, {})
    /\ UNCHANGED <<role, active, torn>>

(* What else users do leaves rows that refer to them.                      *)
Work(u) ==
    /\ \E a \in Actions \ {USER_MANAGE} : May(u, a)
    /\ cited' = cited \union {u}
    /\ UNCHANGED <<role, active, roles, grants, logged, torn, request, mishap, requests>>

(* app.scripts.bootstrap at a deployment: an existing user stays as he is. *)
Bootstrap ==
    /\ SuperUser \notin Present
    /\ SUPER_ADMIN \in roles
    /\ role' = [role EXCEPT ![SuperUser] = SUPER_ADMIN]
    /\ active' = active \union {SuperUser}
    /\ UNCHANGED <<roles, grants, cited, logged, torn, request, mishap, requests>>

-----------------------------------------------------------------------------
Serve(t) ==
    \/ \E u \in Users : Authorize(t, u) \/ UpdateUser(t, u) \/ DeleteUser(t, u)
    \/ \E u \in Users, r \in Roles : CreateUser(t, u, r)
    \/ \E r \in Roles, asked \in SUBSET Actions :
          CreateRole(t, r, asked) \/ EraseGrants(t, r, asked)
    \/ \E r \in Roles : CountUsers(t, r) \/ ReadRole(t, r)
    \/ UpdateRole(t) \/ Relabel(t) \/ DeleteRole(t) \/ Reject(t)

Next == (\E t \in Threads : Serve(t)) \/ (\E u \in Users : Work(u)) \/ Bootstrap

Spec == Init /\ [][Next]_vars

-----------------------------------------------------------------------------
Requests ==
    [step : {"idle", "authorized", "editing", "labelling", "deleting"},
     actor : Users \union {Nobody}, role : Roles, asked : SUBSET Actions,
     erased : SUBSET Actions, overlapped : BOOLEAN]

(* Types; only rows of roles have permissions (role_permissions.role_code) *)
(* and only users that exist are active.                                   *)
TypeOK ==
    /\ role \in [Users -> Roles \union {NoRole}]
    /\ active \in SUBSET Present
    /\ roles \in SUBSET Roles
    /\ grants \in [Roles -> SUBSET Actions]
    /\ \A r \in Roles \ roles : grants[r] = {}
    /\ cited \in SUBSET Users
    /\ logged \in [Roles -> SUBSET Actions]
    /\ torn \in SUBSET Roles
    /\ request \in [Threads -> Requests]
    /\ mishap \in BOOLEAN
    /\ requests \in 0 .. MaxRequests

(* Nobody is left with a role that is not there and resolves to nothing,   *)
(* though its users were counted before others were given it (roles.py:    *)
(* delete_role; migration 0007: users_role_fkey).                          *)
RolesInUseExist == \A u \in Present : role[u] \in roles

(* Whoever is named by the log, an import or a campaign is there to be     *)
(* looked up (users.py: delete_user; audit.py: write_audit_log).           *)
AuthorsRemain == cited \subseteq Present

(* SUPER_ADMIN can do everything; and somebody can manage users since the  *)
(* bootstrap, unless a request took effect whose actor had lost the right  *)
(* since it was checked or an edit took it from the role of its own actor  *)
(* (users.py: update_user, delete_user; roles.py: update_role).            *)
NoLockout ==
    /\ SUPER_ADMIN \in roles /\ grants[SUPER_ADMIN] = Actions
    /\ Present # {} => Managers # {} \/ mishap

(* A role may do what the last row of the log on it says, unless that edit *)
(* overlapped another, be it of its label alone (roles.py: update_role).   *)
EditsAreWhole == \A r \in roles \ torn : grants[r] = logged[r]
=============================================================================
