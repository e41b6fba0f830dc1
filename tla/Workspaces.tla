----------------------------- MODULE Workspaces -----------------------------
(***************************************************************************)
(* Workspaces, users, roles, permissions and sessions (auth/, users/,      *)
(* rbac/, tenants/).                                                       *)
(*                                                                         *)
(* As in Connections, a handler checks the rows it reads (Begin), holds    *)
(* what its transaction will write, and commits it later (Commit) if the   *)
(* constraints of the schema hold, or fails (Abort). Passwords, the        *)
(* sign-in limit (RateLimiter), display names and service accounts are     *)
(* left out: a sign-in is one with the right password. A payload changes   *)
(* one field; fields are written independently of each other.              *)
(***************************************************************************)
EXTENDS Naturals, FiniteSets

CONSTANTS
  Thread,
  UserName, RoleName, WorkspaceName, Action,
  RolePermissions, \* ROLE_PERMISSIONS: the built-in roles and their actions
  Asked,           \* the sets of actions a payload may give a role
  Start,           \* databases the system may start with
  MaxRequests,     \* bound on the requests of a behaviour
  None

Admin == "admin"     \* DEFAULT_ADMIN_USERNAME
Default == "default" \* DEFAULT_WORKSPACE_NAME
PlatformAdmin == "platform_admin"

ASSUME WorkspacesAssumption ==
  /\ Admin \in UserName /\ Default \in WorkspaceName
  /\ DOMAIN RolePermissions \subseteq RoleName
  /\ PlatformAdmin \in DOMAIN RolePermissions
  /\ \A n \in DOMAIN RolePermissions : RolePermissions[n] \subseteq Action
  /\ RolePermissions[PlatformAdmin] = {"*"}
  /\ IsFiniteSet(DOMAIN RolePermissions)
  /\ Asked \subseteq SUBSET Action /\ MaxRequests \in Nat

-----------------------------------------------------------------------------
(* The constraints of the schema.                                          *)
UniqueBy(f, key(_)) ==
  \A i, j \in DOMAIN f : key(f[i]) = key(f[j]) => i = j

UniqueRoles(d) ==
  /\ UniqueBy(d.role, LAMBDA r : <<r.workspace, r.name>>)
  /\ \A p, q \in d.permission : p.role = q.role /\ p.action = q.action => p = q

(* A wrong schema: the name of a user is unique in the workspace.          *)
UniqueInWorkspace(d) ==
  /\ UniqueBy(d.workspace, LAMBDA w : w)
  /\ UniqueBy(d.user, LAMBDA u : <<u.workspace, u.name>>)
  /\ UniqueRoles(d)

Unique(d) ==
  /\ UniqueBy(d.workspace, LAMBDA w : w)
  /\ UniqueBy(d.user, LAMBDA u : u.name)
  /\ UniqueRoles(d)

References(d) ==
  /\ \A p \in d.permission : p.role \in DOMAIN d.role
  /\ \A g \in d.user_role : g[1] \in DOMAIN d.user /\ g[2] \in DOMAIN d.role
  /\ \A u \in DOMAIN d.user : d.user[u].workspace \in DOMAIN d.workspace
  /\ \A r \in DOMAIN d.role : d.role[r].workspace \in DOMAIN d.workspace

(* A user only ever has roles of the workspace the user is in: no          *)
(* constraint of the schema demands it.                                    *)
InOneWorkspace(d) ==
  \A g \in d.user_role : d.user[g[1]].workspace = d.role[g[2]].workspace

(* A database that earlier runs of the service left, its identifiers       *)
(* numbered anew.                                                          *)
UserRow == [name : UserName, workspace : Nat, active : BOOLEAN]
RoleRow == [name : RoleName, workspace : Nat]
PermissionRow == [role : Nat, action : Action, by : Nat]

Rows(d) ==
  /\ d = [workspace |-> d.workspace, user |-> d.user, role |-> d.role,
          user_role |-> d.user_role, permission |-> d.permission,
          session |-> d.session]
  /\ \A u \in DOMAIN d.user : d.user[u] \in UserRow
  /\ \A r \in DOMAIN d.role : d.role[r] \in RoleRow
  /\ d.user_role \subseteq Nat \X Nat
  /\ d.permission \subseteq PermissionRow
  /\ \A s \in d.session : s.user \in DOMAIN d.user

LeftBehind(d) ==
  /\ Rows(d) /\ Unique(d) /\ References(d) /\ InOneWorkspace(d)
  /\ \A k \in {"workspace", "user", "role"} :
       IsFiniteSet(DOMAIN d[k]) /\ DOMAIN d[k] = 1..Cardinality(DOMAIN d[k])

ASSUME StartAssumption == \A d \in Start : LeftBehind(d)

VARIABLES
  db,       \* per table its rows by identifier; user_role, permission and
            \* session are sets, told apart by the request that inserted them
  given,    \* per table the number of identifiers given out
  req,      \* what the request of a thread has decided to write
  alone,    \* history: has no other request been under way since it began?
  started   \* requests so far

vars == <<db, given, req, alone, started>>

-----------------------------------------------------------------------------
(* What a request holds until it commits: inserted rows and set columns    *)
(* by identifier, rows inserted and deleted.                               *)
NoRows == [x \in {} |-> None]
Row(i, row) == [x \in {i} |-> row]
Nothing ==
  [op |-> "write", workspace |-> NoRows, user |-> NoRows, role |-> NoRows,
   updates |-> {}, delete_role |-> {},
   grants |-> {}, revokes |-> {}, inserts |-> {}, clears |-> {},
   sign_in |-> {}, sign_out |-> {}, asked |-> None, by |-> started + 1]

Init ==
  /\ db \in Start
  /\ given = [workspace |-> Cardinality(DOMAIN db.workspace),
              user |-> Cardinality(DOMAIN db.user),
              role |-> Cardinality(DOMAIN db.role)]
  /\ req = [t \in Thread |-> None]
  /\ alone = [t \in Thread |-> FALSE]
  /\ started = 0

Idle(t) == req[t] = None /\ started < MaxRequests

Begin(t, w) ==
  /\ req' = [req EXCEPT ![t] = w]
  /\ alone' = [u \in Thread |-> u = t /\ \A v \in Thread \ {t} : req[v] = None]
  /\ started' = started + 1
  /\ given' = [k \in DOMAIN given |->
                 given[k] + Cardinality(DOMAIN w[k] \ DOMAIN db[k])]
  /\ UNCHANGED db

-----------------------------------------------------------------------------
(* RbacService.user_actions, can; the user of a session, which need not be *)
(* active (user_for_token).                                                *)
RolesOf(d, u) == {g[2] : g \in {g \in d.user_role : g[1] = u}}
UserActions(d, u) ==
  {p.action : p \in {p \in d.permission : p.role \in RolesOf(d, u)}}
Can(u, action) == UserActions(db, u) \cap {"*", action} # {}

CurrentUsers(action) ==
  {u \in {s.user : s \in db.session} : Can(u, action)}

RolesIn(d, w) == {r \in DOMAIN d.role : d.role[r].workspace = w}

(* A wrong look-up: the workspace is forgotten.                            *)
ValidAnywhere(w, roles) == roles \subseteq DOMAIN db.role

(* roles_by_ids: fails unless all are roles of the workspace.              *)
ValidRoles(w, roles) == roles \subseteq RolesIn(db, w)

NamedUsers(n) == {u \in DOMAIN db.user : db.user[u].name = n}
NamedRoles(w, n) == {r \in RolesIn(db, w) : db.role[r].name = n}
NamedWorkspaces(n) == {w \in DOMAIN db.workspace : db.workspace[w] = n}

(* A wrong check: names are compared within the workspace.                 *)
FreeInWorkspace(w, n) ==
  {u \in NamedUsers(n) : db.user[u].workspace = w} = {}

UsernameFree(w, n) == NamedUsers(n) = {}

Permissions(r, actions, by) ==
  {[role |-> r, action |-> a, by |-> by] : a \in actions}

PermissionsOf(r) == {p \in db.permission : p.role = r}
ActionsOf(r) == {p.action : p \in PermissionsOf(r)}

-----------------------------------------------------------------------------
(* The default administrator.                                              *)

(* The identifiers of the built-in roles of w, new ones where missing.     *)
Missing(w) == {n \in DOMAIN RolePermissions : NamedRoles(w, n) = {}}
Numbering(names) == CHOOSE f \in [names -> 1..Cardinality(names)] :
                      \A a, b \in names : f[a] = f[b] => a = b
RoleIds(w) ==
  [n \in DOMAIN RolePermissions |->
     IF n \in Missing(w) THEN given.role + Numbering(Missing(w))[n]
     ELSE CHOOSE r \in NamedRoles(w, n) : TRUE]

(* A wrong repair: only missing roles get the actions of their name.       *)
LackingOfNew(w) ==
  UNION {Permissions(RoleIds(w)[n], RolePermissions[n], started + 1)
           : n \in Missing(w)}

(* _ensure_roles: every built-in role gets the actions it lacks.           *)
Lacking(w) ==
  UNION {Permissions(RoleIds(w)[n],
                     RolePermissions[n] \ ActionsOf(RoleIds(w)[n]),
                     started + 1)
           : n \in DOMAIN RolePermissions}

(* The rows for an administrator n of a workspace: a new one, or the one   *)
(* that has the name already.                                              *)
WithAdmin(n, workspace_name) ==
  LET found == NamedWorkspaces(workspace_name)
      w == IF found = {} THEN given.workspace + 1
           ELSE CHOOSE x \in found : TRUE
      ids == RoleIds(w)
      u == given.user + 1
  IN [Nothing EXCEPT
        !.op = "admin",
        !.workspace = IF found = {} THEN Row(w, workspace_name) ELSE NoRows,
        !.user = Row(u, [name |-> n, workspace |-> w, active |-> TRUE]),
        !.role = [r \in {ids[x] : x \in Missing(w)} |->
                    [name |-> CHOOSE x \in Missing(w) : ids[x] = r,
                     workspace |-> w]],
        !.inserts = Lacking(w),
        !.grants = {<<u, ids[PlatformAdmin]>>}]

(* ensure_default_admin.                                                   *)
EnsureDefaultAdmin ==
  IF NamedUsers(Admin) = {} THEN WithAdmin(Admin, Default) ELSE Nothing

(* The start of a process of the service.                                  *)
StartUp(t) == NamedUsers(Admin) = {} /\ Begin(t, EnsureDefaultAdmin)

Bootstrap(t, n, workspace_name) ==
  /\ DOMAIN db.user = {}
  /\ LET w == WithAdmin(n, workspace_name) IN
       Begin(t, [w EXCEPT !.sign_in = DOMAIN w.user])

Login(t, n) ==
  LET w == EnsureDefaultAdmin
      users == NamedUsers(n) \cup {u \in DOMAIN w.user : w.user[u].name = n}
  IN \E u \in users :
       /\ u \in DOMAIN db.user => db.user[u].active
       /\ Begin(t, [w EXCEPT !.sign_in = {u}])

Logout(t, s) == Begin(t, [Nothing EXCEPT !.sign_out = {s}])

-----------------------------------------------------------------------------
(* Users, roles and the workspace. a is the user who asks.                 *)
WorkspaceOf(u) == db.user[u].workspace
Colleagues(a) ==
  {u \in DOMAIN db.user : db.user[u].workspace = WorkspaceOf(a)}

CreateUser(t, a, n, roles) ==
  /\ a \in CurrentUsers("users.manage")
  /\ UsernameFree(WorkspaceOf(a), n) /\ ValidRoles(WorkspaceOf(a), roles)
  /\ LET u == given.user + 1 IN
     Begin(t, [Nothing EXCEPT
       !.user = Row(u, [name |-> n, workspace |-> WorkspaceOf(a),
                        active |-> TRUE]),
       !.grants = {u} \X roles])

(* A flush writes a column only if its value changed.                      *)
RenameUser(t, a, u, n) ==
  /\ a \in CurrentUsers("users.manage") /\ u \in Colleagues(a)
  /\ NamedUsers(n) \subseteq {u} /\ db.user[u].name # n
  /\ Begin(t, [Nothing EXCEPT !.user = Row(u, [name |-> n])])

(* update_user and, for FALSE, deactivate_user.                            *)
ActivateUser(t, a, u, active) ==
  /\ a \in CurrentUsers("users.manage") /\ u \in Colleagues(a)
  /\ active \/ u # a
  /\ db.user[u].active # active
  /\ Begin(t, [Nothing EXCEPT !.user = Row(u, [active |-> active])])

(* update_user and replace_user_roles write the difference between the     *)
(* roles of the user and those of the payload.                             *)
ReplaceUserRoles(t, a, u, roles) ==
  /\ a \in CurrentUsers("users.manage") \cup CurrentUsers("roles.manage")
  /\ u \in Colleagues(a) /\ ValidRoles(WorkspaceOf(a), roles)
  /\ roles # RolesOf(db, u)
  /\ Begin(t, [Nothing EXCEPT
       !.grants = {u} \X (roles \ RolesOf(db, u)),
       !.revokes = {u} \X (RolesOf(db, u) \ roles)])

CreateRole(t, a, n, actions) ==
  /\ a \in CurrentUsers("roles.manage")
  /\ NamedRoles(WorkspaceOf(a), n) = {}
  /\ LET r == given.role + 1 IN
     Begin(t, [Nothing EXCEPT
       !.role = Row(r, [name |-> n, workspace |-> WorkspaceOf(a)]),
       !.inserts = Permissions(r, actions, started + 1)])

RenameRole(t, a, r, n) ==
  /\ a \in CurrentUsers("roles.manage") /\ r \in RolesIn(db, WorkspaceOf(a))
  /\ db.role[r].name # n /\ NamedRoles(WorkspaceOf(a), n) = {}
  /\ Begin(t, [Nothing EXCEPT !.role = Row(r, [name |-> n]), !.updates = {r}])

(* A wrong replacement: the actions asked for are added.                   *)
NothingCleared(r) == {}

Cleared(r) == PermissionsOf(r)

(* replace_permissions deletes the rows it loaded and inserts new ones.    *)
ReplacePermissions(t, a, r, actions) ==
  /\ a \in CurrentUsers("roles.manage") /\ r \in RolesIn(db, WorkspaceOf(a))
  /\ Begin(t, [Nothing EXCEPT
       !.clears = Cleared(r),
       !.inserts = Permissions(r, actions, started + 1),
       !.asked = [role |-> r, actions |-> actions]])

(* Deleting a role deletes its permissions and takes it from its users, as *)
(* far as they are loaded.                                                 *)
DeleteRole(t, a, r) ==
  /\ a \in CurrentUsers("roles.manage") /\ r \in RolesIn(db, WorkspaceOf(a))
  /\ db.role[r].name # PlatformAdmin
  /\ Begin(t, [Nothing EXCEPT
       !.delete_role = {r}, !.clears = PermissionsOf(r),
       !.revokes = {g \in db.user_role : g[2] = r}])

RenameWorkspace(t, a, n) ==
  /\ a \in CurrentUsers("workspace.manage")
  /\ NamedWorkspaces(n) = {}
  /\ Begin(t, [Nothing EXCEPT !.workspace = Row(WorkspaceOf(a), n)])

-----------------------------------------------------------------------------
(* The end of a request.                                                   *)
Over(written, old) ==
  [c \in DOMAIN old \cup DOMAIN written |->
     IF c \in DOMAIN written THEN written[c] ELSE old[c]]

RowsAfter(written, rows) ==
  [i \in DOMAIN rows \cup DOMAIN written |->
     IF i \notin DOMAIN written THEN rows[i]
     ELSE IF i \notin DOMAIN rows THEN written[i]
     ELSE Over(written[i], rows[i])]

After(w) ==
  LET roles == RowsAfter(w.role, db.role) IN
  [workspace |-> Over(w.workspace, db.workspace),
   user |-> RowsAfter(w.user, db.user),
   role |-> [r \in DOMAIN roles \ w.delete_role |-> roles[r]],
   user_role |-> (db.user_role \ w.revokes) \cup w.grants,
   permission |-> (db.permission \ w.clears) \cup w.inserts,
   session |-> (db.session \ w.sign_out)
                 \cup {[user |-> u, by |-> w.by] : u \in w.sign_in}]

(* An UPDATE of a row that is gone fails, and so does a DELETE of a row of *)
(* user_role; an INSERT of one that is there violates its primary key.     *)
Accepted(w) ==
  /\ w.updates \subseteq DOMAIN db.role
  /\ w.revokes \subseteq db.user_role /\ w.grants \cap db.user_role = {}
  /\ Unique(After(w)) /\ References(After(w))

Done(t) ==
  /\ req' = [req EXCEPT ![t] = None]
  /\ alone' = [alone EXCEPT ![t] = FALSE]
  /\ UNCHANGED <<given, started>>

Commit(t) ==
  /\ req[t] # None /\ Accepted(req[t])
  /\ db' = After(req[t])
  /\ Done(t)

Abort(t) ==
  /\ req[t] # None
  /\ Done(t)
  /\ UNCHANGED db

(* A session ends by itself.                                               *)
Expire(s) ==
  /\ s \in db.session
  /\ db' = [db EXCEPT !.session = @ \ {s}]
  /\ UNCHANGED <<given, req, alone, started>>

(* Payloads give at most one role.                                         *)
FewRoles == {S \in SUBSET DOMAIN db.role : Cardinality(S) <= 1}

SignInRequest(t) ==
  \/ StartUp(t)
  \/ \E n \in UserName, w \in WorkspaceName : Bootstrap(t, n, w)
  \/ \E n \in UserName : Login(t, n)
  \/ \E s \in db.session : Logout(t, s)

UserRequest(t, a) ==
  \/ \E n \in UserName, roles \in FewRoles : CreateUser(t, a, n, roles)
  \/ \E u \in DOMAIN db.user :
       \/ \E n \in UserName : RenameUser(t, a, u, n)
       \/ \E active \in BOOLEAN : ActivateUser(t, a, u, active)
       \/ \E roles \in FewRoles : ReplaceUserRoles(t, a, u, roles)

RoleRequest(t, a) ==
  \/ \E n \in RoleName, actions \in Asked : CreateRole(t, a, n, actions)
  \/ \E r \in DOMAIN db.role :
       \/ \E n \in RoleName : RenameRole(t, a, r, n)
       \/ \E actions \in Asked : ReplacePermissions(t, a, r, actions)
       \/ DeleteRole(t, a, r)

Next ==
  \/ \E t \in Thread :
       \/ /\ Idle(t)
          /\ \/ SignInRequest(t)
             \/ \E a \in DOMAIN db.user :
                  \/ UserRequest(t, a)
                  \/ RoleRequest(t, a)
                  \/ \E n \in WorkspaceName : RenameWorkspace(t, a, n)
       \/ Commit(t)
       \/ Abort(t)
  \/ \E s \in db.session : Expire(s)

Spec == Init /\ [][Next]_vars

-----------------------------------------------------------------------------
(* The constraints of the schema hold whatever overlaps, identifiers are   *)
(* not given out twice, and every session is that of a user.               *)
TypeOK ==
  /\ Cardinality({db.user[u].name : u \in DOMAIN db.user})
       = Cardinality(DOMAIN db.user)
  /\ UniqueRoles(db) /\ References(db)
  /\ \A k \in DOMAIN given : DOMAIN db[k] \subseteq 1..given[k]
  /\ \A s \in db.session : s.user \in DOMAIN db.user
  /\ \A u \in DOMAIN db.user : /\ db.user[u].name \in UserName
                               /\ db.user[u].active \in BOOLEAN
  /\ \A p \in db.permission : p.action \in Action
  /\ alone \in [Thread -> BOOLEAN] /\ started \in 0..MaxRequests

(* A user only ever has roles of the workspace the user is in, also while  *)
(* roles and users are changed and workspaces added (RbacService           *)
(* .roles_by_ids): no constraint of the schema demands it.                 *)
RolesOfOneWorkspace == InOneWorkspace(db)

(* What a handler checks is enough for the schema: a request that nothing  *)
(* overlapped is never refused at its commit, and one that replaces the    *)
(* permissions of a role leaves exactly those it asked for                 *)
(* (users/router.py:31-43, rbac/service.py:21-81).                         *)
LoneRequestSucceeds ==
  \A t \in Thread : req[t] # None /\ alone[t] =>
    /\ Accepted(req[t])
    /\ LET asked == req[t].asked IN
       asked # None =>
         {p.action : p \in {p \in After(req[t]).permission :
                              p.role = asked.role}} = asked.actions

(* Whatever users, roles and workspaces were renamed, stripped or deleted  *)
(* before, the administrator that a lone sign-in, start-up or bootstrap    *)
(* adds may do everything (auth/service.py:58-104): the roles it finds are *)
(* repaired.                                                               *)
NewAdminCanManage ==
  [][\A t \in Thread :
       req[t] # None /\ alone[t] /\ req[t].op = "admin" /\ Commit(t) =>
         \A u \in DOMAIN req[t].user : "*" \in UserActions(db', u)]_vars
=============================================================================
