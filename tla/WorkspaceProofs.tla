-------------------------- MODULE WorkspaceProofs --------------------------
(***************************************************************************)
(* Users, roles and workspaces, for any number of overlapping requests:    *)
(* what handlers check holds at their commits as far as the schema demands *)
(* it, roles never cross workspaces although nothing demands that, and a   *)
(* request that nothing overlaps does what it was asked for.               *)
(***************************************************************************)
EXTENDS Workspaces, FiniteSetTheorems, TLAPS

-----------------------------------------------------------------------------
(* Identifiers are those given out.                                        *)
Numbered(rows, g) ==
  /\ DOMAIN rows.workspace \subseteq 1..g.workspace
  /\ DOMAIN rows.user \subseteq 1..g.user
  /\ DOMAIN rows.role \subseteq 1..g.role

(* A sound database.                                                       *)
DatabaseHolds(d, g) ==
  Rows(d) /\ Unique(d) /\ References(d) /\ InOneWorkspace(d) /\ Numbered(d, g)

(* A user is new or stays where it is. So does a role, but one that a      *)
(* request updates may be gone by then.                                    *)
UserColumns == [name : UserName] \cup [active : BOOLEAN]

UserRows(d, w) ==
  \A u \in DOMAIN w.user :
    IF u \in DOMAIN d.user THEN w.user[u] \in UserColumns
    ELSE w.user[u] \in UserRow

NewRoles(w) == DOMAIN w.role \ w.updates

RoleRows(d, w) ==
  /\ \A r \in NewRoles(w) : r \notin DOMAIN d.role /\ w.role[r] \in RoleRow
  /\ \A r \in DOMAIN w.role \cap w.updates : w.role[r] \in [name : RoleName]

(* The workspace of user u once w is committed.                            *)
WorkspaceWith(d, w, u) ==
  IF u \in DOMAIN d.user THEN d.user[u].workspace ELSE w.user[u].workspace

(* A role that is granted is one of the workspace, or is gone for good.    *)
GrantHolds(d, g, w, x) ==
  /\ x \in Nat \X Nat /\ x[2] \in 1..g.role
  /\ x[1] \in DOMAIN d.user \cup DOMAIN w.user
  /\ x[2] \in DOMAIN d.role =>
       d.role[x[2]].workspace = WorkspaceWith(d, w, x[1])
  /\ x[2] \in NewRoles(w) =>
       w.role[x[2]].workspace = WorkspaceWith(d, w, x[1])

(* What a request that is under way still knows, whatever database the     *)
(* others leave it.                                                        *)
RequestHolds(d, g, w) ==
  /\ Numbered(w, g) /\ UserRows(d, w) /\ RoleRows(d, w)
  /\ \A x \in w.grants : GrantHolds(d, g, w, x)
  /\ w.inserts \subseteq PermissionRow
  /\ \A u \in w.sign_in : u \in DOMAIN d.user \cup DOMAIN w.user

(* Two requests under way insert different users and roles, and neither    *)
(* grants a role that the other inserts.                                   *)
Apart(d, v, w) ==
  /\ DOMAIN v.user \cap DOMAIN w.user \subseteq DOMAIN d.user
  /\ DOMAIN v.role \cap DOMAIN w.role \subseteq v.updates \cap w.updates
  /\ \A x \in v.grants : x[2] \notin NewRoles(w)
  /\ \A x \in w.grants : x[2] \notin NewRoles(v)

(* What a request that nothing overlaps achieves: After and Accepted, of   *)
(* any database d.                                                         *)
Result(d, w) ==
  LET roles == RowsAfter(w.role, d.role) IN
  [workspace |-> Over(w.workspace, d.workspace),
   user |-> RowsAfter(w.user, d.user),
   role |-> [r \in DOMAIN roles \ w.delete_role |-> roles[r]],
   user_role |-> (d.user_role \ w.revokes) \cup w.grants,
   permission |-> (d.permission \ w.clears) \cup w.inserts,
   session |-> (d.session \ w.sign_out)
                 \cup {[user |-> u, by |-> w.by] : u \in w.sign_in}]

AcceptedBy(d, w) ==
  /\ w.updates \subseteq DOMAIN d.role
  /\ w.revokes \subseteq d.user_role /\ w.grants \cap d.user_role = {}
  /\ Unique(Result(d, w)) /\ References(Result(d, w))

AskedHolds(d, w) ==
  w.asked # None =>
    {p.action : p \in {p \in Result(d, w).permission : p.role = w.asked.role}}
      = w.asked.actions

AdminHolds(d, w) ==
  w.op = "admin" =>
    \A u \in DOMAIN w.user : "*" \in UserActions(Result(d, w), u)

(* What lone requests owe.                                                 *)
Lone(d, w) == AcceptedBy(d, w) /\ AskedHolds(d, w) /\ AdminHolds(d, w)

(* The inductive invariant: a sound database, requests that stay sound and *)
(* apart whichever commits first, and lone ones that owe what they say.    *)
Bounds ==
  /\ given \in [workspace : Nat, user : Nat, role : Nat]
  /\ req = [t \in Thread |-> req[t]]
  /\ alone \in [Thread -> BOOLEAN]
  /\ started \in 0..MaxRequests

WorkspacesInv ==
  /\ Bounds
  /\ DatabaseHolds(db, given)
  /\ \A t \in Thread : req[t] # None => RequestHolds(db, given, req[t])
  /\ \A t, u \in Thread :
       t # u /\ req[t] # None /\ req[u] # None => Apart(db, req[t], req[u])
  /\ \A t \in Thread : req[t] # None /\ alone[t] => Lone(db, req[t])
  /\ \A t, u \in Thread : t # u /\ req[t] # None /\ alone[t] => req[u] = None

-----------------------------------------------------------------------------
(* The rows after a commit.                                                *)

(* A commit leaves the result for the database it finds.                   *)
LEMMA AfterIsResult ==
  ASSUME NEW w
  PROVE  After(w) = Result(db, w) /\ (Accepted(w) <=> AcceptedBy(db, w))
<1>1. After(w) = Result(db, w)
  BY DEF After, Result
<1> QED  BY <1>1 DEF Accepted, AcceptedBy

(* Its sets,                                                               *)
LEMMA AfterRows ==
  ASSUME NEW w
  PROVE  /\ After(w) = [workspace |-> After(w).workspace,
                        user |-> After(w).user, role |-> After(w).role,
                        user_role |-> After(w).user_role,
                        permission |-> After(w).permission,
                        session |-> After(w).session]
         /\ After(w).user_role = (db.user_role \ w.revokes) \cup w.grants
         /\ After(w).permission = (db.permission \ w.clears) \cup w.inserts
         /\ After(w).session
              = (db.session \ w.sign_out)
                  \cup {[user |-> u, by |-> w.by] : u \in w.sign_in}
BY DEF After

(* its workspaces,                                                         *)
LEMMA AfterWorkspaces ==
  ASSUME NEW w
  PROVE  /\ DOMAIN After(w).workspace
              = DOMAIN db.workspace \cup DOMAIN w.workspace
         /\ \A x \in DOMAIN w.workspace :
              After(w).workspace[x] = w.workspace[x]
         /\ \A x \in DOMAIN db.workspace \ DOMAIN w.workspace :
              After(w).workspace[x] = db.workspace[x]
BY DEF After, Over

(* its users                                                               *)
LEMMA AfterUsers ==
  ASSUME NEW w
  PROVE  /\ DOMAIN After(w).user = DOMAIN db.user \cup DOMAIN w.user
         /\ \A u \in DOMAIN db.user \ DOMAIN w.user :
              After(w).user[u] = db.user[u]
         /\ \A u \in DOMAIN w.user \ DOMAIN db.user :
              After(w).user[u] = w.user[u]
         /\ \A u \in DOMAIN w.user \cap DOMAIN db.user :
              After(w).user[u] = Over(w.user[u], db.user[u])
BY DEF After, RowsAfter

(* and its roles.                                                          *)
LEMMA AfterRoles ==
  ASSUME NEW w
  PROVE  /\ DOMAIN After(w).role
              = (DOMAIN db.role \cup DOMAIN w.role) \ w.delete_role
         /\ \A r \in DOMAIN After(w).role :
              /\ r \in DOMAIN db.role \ DOMAIN w.role =>
                   After(w).role[r] = db.role[r]
              /\ r \in DOMAIN w.role \ DOMAIN db.role =>
                   After(w).role[r] = w.role[r]
              /\ r \in DOMAIN w.role \cap DOMAIN db.role =>
                   After(w).role[r] = Over(w.role[r], db.role[r])
BY DEF After, RowsAfter

(* A user whose column is set stays in its workspace,                      *)
LEMMA OverUser ==
  ASSUME NEW c \in UserColumns, NEW row \in UserRow
  PROVE  Over(c, row) \in UserRow /\ Over(c, row).workspace = row.workspace
<1>1. CASE c \in [name : UserName]
  <2>1. Over(c, row) = [name |-> c.name, workspace |-> row.workspace,
                        active |-> row.active]
    BY <1>1 DEF Over, UserRow
  <2> QED  BY <1>1, <2>1 DEF UserRow
<1>2. CASE c \in [active : BOOLEAN]
  <2>1. Over(c, row) = [name |-> row.name, workspace |-> row.workspace,
                        active |-> c.active]
    BY <1>2 DEF Over, UserRow
  <2> QED  BY <1>2, <2>1 DEF UserRow
<1> QED  BY <1>1, <1>2 DEF UserColumns

(* and so does a role that is renamed.                                     *)
LEMMA OverRole ==
  ASSUME NEW c \in [name : RoleName], NEW row \in RoleRow
  PROVE  Over(c, row) = [name |-> c.name, workspace |-> row.workspace]
BY DEF Over, RoleRow

(* Users stay in their workspaces, and new ones come to theirs.            *)
LEMMA UsersStay ==
  ASSUME NEW w, Rows(db), UserRows(db, w)
  PROVE  \A u \in DOMAIN After(w).user :
           /\ After(w).user[u] \in UserRow
           /\ After(w).user[u].workspace = WorkspaceWith(db, w, u)
BY AfterUsers, OverUser DEF UserRows, WorkspaceWith, Rows

(* So do roles; a role that is only there afterwards is a new one.         *)
LEMMA RolesStay ==
  ASSUME NEW w, Rows(db), RoleRows(db, w), w.updates \subseteq DOMAIN db.role
  PROVE  \A r \in DOMAIN After(w).role :
           /\ After(w).role[r] \in RoleRow
           /\ r \in DOMAIN db.role =>
                After(w).role[r].workspace = db.role[r].workspace
           /\ r \notin DOMAIN db.role =>
                r \in NewRoles(w) /\ After(w).role[r] = w.role[r]
<1> SUFFICES ASSUME NEW r \in DOMAIN After(w).role
             PROVE  /\ After(w).role[r] \in RoleRow
                    /\ r \in DOMAIN db.role =>
                         After(w).role[r].workspace = db.role[r].workspace
                    /\ r \notin DOMAIN db.role =>
                         r \in NewRoles(w) /\ After(w).role[r] = w.role[r]
  OBVIOUS
<1>1. CASE r \in DOMAIN db.role \ DOMAIN w.role
  BY <1>1, AfterRoles DEF Rows
<1>2. CASE r \in DOMAIN w.role \ DOMAIN db.role
  BY <1>2, AfterRoles DEF RoleRows, NewRoles
<1>3. CASE r \in DOMAIN w.role \cap DOMAIN db.role
  <2>1. w.role[r] \in [name : RoleName] /\ db.role[r] \in RoleRow
    BY <1>3 DEF Rows, RoleRows, NewRoles
  <2>2. After(w).role[r]
          = [name |-> w.role[r].name, workspace |-> db.role[r].workspace]
    BY <1>3, <2>1, AfterRoles, OverRole
  <2> QED  BY <1>3, <2>1, <2>2 DEF RoleRow
<1> QED  BY <1>1, <1>2, <1>3, AfterRoles

-----------------------------------------------------------------------------
(* A commit.                                                               *)

(* An accepted request leaves a sound database.                            *)
LEMMA CommittedDatabase ==
  ASSUME NEW w, NEW g \in [workspace : Nat, user : Nat, role : Nat],
         DatabaseHolds(db, g), RequestHolds(db, g, w), Accepted(w)
  PROVE  DatabaseHolds(After(w), g)
<1> USE DEF DatabaseHolds, RequestHolds
<1>1. w.updates \subseteq DOMAIN db.role
      /\ Unique(After(w)) /\ References(After(w))
  BY DEF Accepted
<1>2. Numbered(After(w), g)
  BY AfterWorkspaces, AfterUsers, AfterRoles DEF Numbered
<1>3. InOneWorkspace(After(w))
  <2> SUFFICES ASSUME NEW x \in After(w).user_role
               PROVE  After(w).user[x[1]].workspace
                        = After(w).role[x[2]].workspace
    BY DEF InOneWorkspace
  <2>1. x[1] \in DOMAIN After(w).user /\ x[2] \in DOMAIN After(w).role
    BY <1>1 DEF References
  <2>2. After(w).user[x[1]].workspace = WorkspaceWith(db, w, x[1])
    BY <2>1, UsersStay
  <2>3. CASE x \in w.grants
    <3>1. GrantHolds(db, g, w, x)
      BY <2>3
    <3> QED  BY <1>1, <2>1, <2>2, <3>1, RolesStay DEF GrantHolds
  <2>4. CASE x \in db.user_role
    <3>1. x[1] \in DOMAIN db.user /\ x[2] \in DOMAIN db.role
          /\ db.user[x[1]].workspace = db.role[x[2]].workspace
      BY <2>4 DEF References, InOneWorkspace
    <3> QED  BY <1>1, <2>1, <2>2, <3>1, RolesStay DEF WorkspaceWith
  <2> QED  BY <2>3, <2>4, AfterRows
<1>4. Rows(After(w))
  <2>1. \A u \in DOMAIN After(w).user : After(w).user[u] \in UserRow
    BY UsersStay
  <2>2. \A r \in DOMAIN After(w).role : After(w).role[r] \in RoleRow
    BY <1>1, RolesStay
  <2>3. After(w).user_role \subseteq Nat \X Nat
    BY AfterRows DEF GrantHolds, Rows
  <2>4. After(w).permission \subseteq PermissionRow
    BY AfterRows DEF Rows
  <2>5. \A s \in After(w).session : s.user \in DOMAIN After(w).user
    <3> SUFFICES ASSUME NEW s \in After(w).session
                 PROVE  s.user \in DOMAIN After(w).user
      OBVIOUS
    <3>1. CASE s \in db.session
      BY <3>1, AfterUsers DEF Rows
    <3>2. CASE s \notin db.session
      <4>1. PICK u \in w.sign_in : s = [user |-> u, by |-> w.by]
        BY <3>2, AfterRows
      <4> QED  BY <4>1, AfterUsers
    <3> QED  BY <3>1, <3>2
  <2>6. After(w) = [workspace |-> After(w).workspace,
                    user |-> After(w).user, role |-> After(w).role,
                    user_role |-> After(w).user_role,
                    permission |-> After(w).permission,
                    session |-> After(w).session]
    BY AfterRows
  <2> QED  BY <2>1, <2>2, <2>3, <2>4, <2>5, <2>6 DEF Rows
<1> QED  BY <1>1, <1>2, <1>3, <1>4

(* The others find their users and roles as they left them, or roles gone. *)
LEMMA CommittedOthers ==
  ASSUME NEW v, NEW w, NEW g \in [workspace : Nat, user : Nat, role : Nat],
         DatabaseHolds(db, g), RequestHolds(db, g, w), Accepted(w),
         RequestHolds(db, g, v), Apart(db, v, w)
  PROVE  RequestHolds(After(w), g, v)
<1> USE DEF DatabaseHolds, RequestHolds
<1>1. w.updates \subseteq DOMAIN db.role
  BY DEF Accepted
<1>2. DOMAIN db.user \subseteq DOMAIN After(w).user
      /\ \A u \in DOMAIN v.user :
           u \in DOMAIN After(w).user => u \in DOMAIN db.user
  BY AfterUsers DEF Apart
<1>3. UserRows(After(w), v)
  BY <1>2 DEF UserRows
<1>4. RoleRows(After(w), v)
  BY <1>1, RolesStay DEF RoleRows, Apart, NewRoles
<1>5. ASSUME NEW x \in v.grants PROVE GrantHolds(After(w), g, v, x)
  <2>1. GrantHolds(db, g, v, x) /\ x[2] \notin NewRoles(w)
    BY DEF Apart
  <2>2. x[1] \in DOMAIN After(w).user \cup DOMAIN v.user
    BY <1>2, <2>1 DEF GrantHolds
  <2>3. WorkspaceWith(After(w), v, x[1]) = WorkspaceWith(db, v, x[1])
    <3>1. CASE x[1] \in DOMAIN db.user
      BY <1>2, <3>1, UsersStay DEF WorkspaceWith
    <3>2. CASE x[1] \notin DOMAIN db.user
      BY <1>2, <3>2, <2>1 DEF WorkspaceWith, GrantHolds
    <3> QED  BY <3>1, <3>2
  <2>4. x[2] \in DOMAIN After(w).role =>
          /\ x[2] \in DOMAIN db.role
          /\ After(w).role[x[2]].workspace = db.role[x[2]].workspace
    BY <1>1, <2>1, RolesStay
  <2> QED  BY <2>1, <2>2, <2>3, <2>4 DEF GrantHolds
<1>6. \A u \in v.sign_in : u \in DOMAIN After(w).user \cup DOMAIN v.user
  BY <1>2
<1> QED  BY <1>3, <1>4, <1>5, <1>6

(* Requests stay apart while users are only added.                         *)
LEMMA ApartStays ==
  ASSUME NEW v, NEW w, NEW c, NEW d, Apart(c, v, w),
         DOMAIN c.user \subseteq DOMAIN d.user
  PROVE  Apart(d, v, w)
BY DEF Apart

LEMMA CommitKeeps ==
  ASSUME WorkspacesInv, NEW t \in Thread, Commit(t)
  PROVE  WorkspacesInv'
<1> DEFINE w == req[t]
<1>1. /\ w # None /\ Accepted(w) /\ db' = After(w)
      /\ req' = [req EXCEPT ![t] = None]
      /\ alone' = [alone EXCEPT ![t] = FALSE]
      /\ UNCHANGED <<given, started>>
  BY DEF Commit, Done
<1>2. /\ given \in [workspace : Nat, user : Nat, role : Nat]
      /\ DatabaseHolds(db, given) /\ RequestHolds(db, given, w)
  BY <1>1 DEF WorkspacesInv, Bounds
<1>3. Bounds'
  BY <1>1 DEF WorkspacesInv, Bounds
<1>4. \A v \in Thread : /\ req'[v] = IF v = t THEN None ELSE req[v]
                        /\ alone'[v] = IF v = t THEN FALSE ELSE alone[v]
  BY <1>1 DEF WorkspacesInv, Bounds
<1>5. DatabaseHolds(db, given)'
  BY <1>1, <1>2, CommittedDatabase
<1>6. ASSUME NEW v \in Thread, req'[v] # None
      PROVE  RequestHolds(db', given', req'[v])
  <2>1. v # t /\ req'[v] = req[v] /\ RequestHolds(db, given, req[v])
        /\ Apart(db, req[v], w)
    BY <1>1, <1>4, <1>6 DEF WorkspacesInv
  <2> QED  BY <1>1, <1>2, <2>1, CommittedOthers
<1>7. ASSUME NEW v \in Thread, NEW u \in Thread, v # u, req'[v] # None,
             req'[u] # None
      PROVE  Apart(db', req'[v], req'[u])
  <2>1. /\ req'[v] = req[v] /\ req'[u] = req[u]
        /\ Apart(db, req[v], req[u])
    BY <1>4, <1>7 DEF WorkspacesInv
  <2> QED  BY <1>1, <2>1, AfterUsers, ApartStays
<1>8. \A v \in Thread : req'[v] # None => ~alone'[v]
  BY <1>1, <1>4 DEF WorkspacesInv
<1>9. WorkspacesInv'
  <2> HIDE DEF w
  <2> QED  BY <1>3, <1>5, <1>6, <1>7, <1>8 DEF WorkspacesInv
<1> QED  BY <1>9

LEMMA AbortKeeps ==
  ASSUME WorkspacesInv, NEW t \in Thread, Abort(t)
  PROVE  WorkspacesInv'
<1>1. /\ req' = [req EXCEPT ![t] = None]
      /\ alone' = [alone EXCEPT ![t] = FALSE]
      /\ UNCHANGED <<db, given, started>>
  BY DEF Abort, Done
<1>2. Bounds'
  BY <1>1 DEF WorkspacesInv, Bounds
<1>3. \A v \in Thread : /\ req'[v] = IF v = t THEN None ELSE req[v]
                        /\ alone'[v] = IF v = t THEN FALSE ELSE alone[v]
  BY <1>1 DEF WorkspacesInv, Bounds
<1>4. DatabaseHolds(db, given)'
  BY <1>1 DEF WorkspacesInv
<1>5. ASSUME NEW v \in Thread, req'[v] # None
      PROVE  /\ RequestHolds(db', given', req'[v])
             /\ alone'[v] => Lone(db', req'[v])
             /\ \A u \in Thread \ {v} :
                  /\ req'[u] # None => Apart(db', req'[v], req'[u])
                  /\ alone'[v] => req'[u] = None
  BY <1>1, <1>3, <1>5 DEF WorkspacesInv
<1> QED  BY <1>2, <1>4, <1>5 DEF WorkspacesInv

-----------------------------------------------------------------------------
(* The end of a session touches nothing else.                              *)
LEMMA SessionsAside ==
  ASSUME NEW c, NEW d, c.workspace = d.workspace, c.user = d.user,
         c.role = d.role, c.user_role = d.user_role,
         c.permission = d.permission
  PROVE  /\ Unique(c) <=> Unique(d)
         /\ References(c) <=> References(d)
         /\ InOneWorkspace(c) <=> InOneWorkspace(d)
         /\ \A u : UserActions(c, u) = UserActions(d, u)
BY DEF Unique, UniqueRoles, UniqueBy, References, InOneWorkspace, UserActions,
       RolesOf

(* What a lone request achieves does not depend on sessions.               *)
LEMMA LoneAside ==
  ASSUME NEW c, NEW d, c.workspace = d.workspace, c.user = d.user,
         c.role = d.role, c.user_role = d.user_role,
         c.permission = d.permission, NEW w, Lone(c, w)
  PROVE  Lone(d, w)
<1> DEFINE a == Result(c, w)
           b == Result(d, w)
<1>1. /\ a.workspace = b.workspace /\ a.user = b.user /\ a.role = b.role
      /\ a.user_role = b.user_role /\ a.permission = b.permission
  BY DEF Result
<1> HIDE DEF a, b
<1>2. /\ Unique(a) <=> Unique(b)
      /\ References(a) <=> References(b)
      /\ \A u : UserActions(a, u) = UserActions(b, u)
  BY <1>1, SessionsAside
<1>3. AcceptedBy(d, w)
  BY <1>2 DEF Lone, AcceptedBy, a, b
<1>4. AskedHolds(d, w)
  BY <1>1 DEF Lone, AskedHolds, a, b
<1>5. AdminHolds(d, w)
  BY <1>2 DEF Lone, AdminHolds, a, b
<1> QED  BY <1>3, <1>4, <1>5 DEF Lone

LEMMA ExpireKeeps ==
  ASSUME WorkspacesInv, NEW s \in db.session, Expire(s)
  PROVE  WorkspacesInv'
<1>1. /\ db' = [db EXCEPT !.session = @ \ {s}]
      /\ UNCHANGED <<given, req, alone, started>>
  BY DEF Expire
<1>2. /\ db'.workspace = db.workspace /\ db'.user = db.user
      /\ db'.role = db.role /\ db'.user_role = db.user_role
      /\ db'.permission = db.permission
      /\ db'.session = db.session \ {s}
      /\ db' = [workspace |-> db'.workspace, user |-> db'.user,
                role |-> db'.role, user_role |-> db'.user_role,
                permission |-> db'.permission, session |-> db'.session]
  BY <1>1 DEF WorkspacesInv, DatabaseHolds, Rows
<1>3. DatabaseHolds(db', given')
  <2>1. DatabaseHolds(db, given)
    BY DEF WorkspacesInv
  <2>2. Unique(db') /\ References(db') /\ InOneWorkspace(db')
    BY <1>2, <2>1, SessionsAside DEF DatabaseHolds
  <2>3. Rows(db')
    BY <1>2, <2>1 DEF DatabaseHolds, Rows
  <2>4. Numbered(db', given')
    BY <1>1, <1>2, <2>1 DEF DatabaseHolds, Numbered
  <2> QED  BY <2>2, <2>3, <2>4 DEF DatabaseHolds
<1>4. ASSUME NEW w, RequestHolds(db, given, w)
      PROVE  RequestHolds(db', given', w)
  BY <1>1, <1>2, <1>4 DEF RequestHolds, UserRows, RoleRows, GrantHolds,
                          WorkspaceWith
<1>5. \A v, w : Apart(db, v, w) => Apart(db', v, w)
  BY <1>2 DEF Apart
<1>6. \A w : Lone(db, w) => Lone(db', w)
  BY <1>2, LoneAside
<1>7. Bounds'
  BY <1>1 DEF WorkspacesInv, Bounds
<1> QED  BY <1>1, <1>3, <1>4, <1>5, <1>6, <1>7 DEF WorkspacesInv

-----------------------------------------------------------------------------
(* The beginning of a request.                                             *)
LEMMA InitHolds == Init => WorkspacesInv
<1> SUFFICES ASSUME Init PROVE WorkspacesInv
  OBVIOUS
<1>1. /\ LeftBehind(db)
      /\ given = [workspace |-> Cardinality(DOMAIN db.workspace),
                  user |-> Cardinality(DOMAIN db.user),
                  role |-> Cardinality(DOMAIN db.role)]
      /\ req = [t \in Thread |-> None] /\ alone = [t \in Thread |-> FALSE]
      /\ started = 0
  BY StartAssumption DEF Init
<1>2. /\ IsFiniteSet(DOMAIN db.workspace) /\ IsFiniteSet(DOMAIN db.user)
      /\ IsFiniteSet(DOMAIN db.role)
      /\ DOMAIN db.workspace = 1..given.workspace
      /\ DOMAIN db.user = 1..given.user /\ DOMAIN db.role = 1..given.role
  BY <1>1 DEF LeftBehind
<1>3. given \in [workspace : Nat, user : Nat, role : Nat]
  BY <1>1, <1>2, FS_CardinalityType
<1>4. DatabaseHolds(db, given)
  BY <1>1, <1>2 DEF LeftBehind, DatabaseHolds, Numbered
<1>5. Bounds
  BY <1>1, <1>3, WorkspacesAssumption DEF Bounds
<1> QED  BY <1>1, <1>4, <1>5 DEF WorkspacesInv

(* The identifiers given out once w has begun.                             *)
GivenAfter(w) ==
  [workspace |-> given.workspace
                   + Cardinality(DOMAIN w.workspace \ DOMAIN db.workspace),
   user |-> given.user + Cardinality(DOMAIN w.user \ DOMAIN db.user),
   role |-> given.role + Cardinality(DOMAIN w.role \ DOMAIN db.role)]

(* What every handler decides: its new rows have identifiers nobody was    *)
(* given.                                                                  *)
Decided(w) ==
  /\ GivenAfter(w) \in [workspace : Nat, user : Nat, role : Nat]
  /\ RequestHolds(db, GivenAfter(w), w)
  /\ \A u \in DOMAIN w.user : u \in DOMAIN db.user \/ u > given.user
  /\ \A r \in NewRoles(w) : r > given.role
  /\ w.updates \subseteq DOMAIN db.role
  /\ \A x \in w.grants : x[2] \in DOMAIN db.role \/ x[2] > given.role
  /\ Lone(db, w)

(* A request needs no more identifiers than were given out.                *)
LEMMA RequestsStay ==
  ASSUME NEW d, NEW g \in [workspace : Nat, user : Nat, role : Nat],
         NEW h \in [workspace : Nat, user : Nat, role : Nat],
         g.workspace <= h.workspace, g.user <= h.user, g.role <= h.role,
         NEW w, RequestHolds(d, g, w)
  PROVE  RequestHolds(d, h, w)
BY DEF RequestHolds, Numbered, GrantHolds

(* A request that begins shares no new row with those under way.           *)
LEMMA NewOnesApart ==
  ASSUME WorkspacesInv, NEW w, Decided(w), NEW v, RequestHolds(db, given, v)
  PROVE  Apart(db, v, w) /\ Apart(db, w, v)
<1>1. given \in [workspace : Nat, user : Nat, role : Nat]
  BY DEF WorkspacesInv, Bounds
<1>2. \A u \in DOMAIN v.user : u \in Nat /\ u <= given.user
  BY <1>1 DEF RequestHolds, Numbered
<1>3. \A r \in DOMAIN v.role : r \in Nat /\ r <= given.role
  BY <1>1 DEF RequestHolds, Numbered
<1>4. \A x \in v.grants : x[2] \in Nat /\ x[2] <= given.role
  BY <1>1 DEF RequestHolds, GrantHolds
<1>5. \A r \in DOMAIN v.role : r \in DOMAIN db.role => r \in v.updates
  BY DEF RequestHolds, RoleRows, NewRoles
<1>6. DOMAIN v.user \cap DOMAIN w.user \subseteq DOMAIN db.user
  BY <1>1, <1>2 DEF Decided
<1>7. DOMAIN v.role \cap DOMAIN w.role \subseteq v.updates \cap w.updates
  BY <1>1, <1>3, <1>5 DEF Decided, NewRoles
<1>8. \A x \in v.grants : x[2] \notin NewRoles(w)
  BY <1>1, <1>4 DEF Decided
<1>9. \A x \in w.grants : x[2] \notin NewRoles(v)
  BY <1>1, <1>3, <1>5 DEF Decided, NewRoles
<1> QED  BY <1>6, <1>7, <1>8, <1>9 DEF Apart

LEMMA BeginKeeps ==
  ASSUME WorkspacesInv, NEW t \in Thread, Idle(t), NEW w, Begin(t, w),
         Decided(w)
  PROVE  WorkspacesInv'
<1>1. /\ req' = [req EXCEPT ![t] = w]
      /\ alone' = [u \in Thread |->
                     u = t /\ \A v \in Thread \ {t} : req[v] = None]
      /\ started' = started + 1 /\ db' = db
  BY DEF Begin
<1>2. given \in [workspace : Nat, user : Nat, role : Nat]
  BY DEF WorkspacesInv, Bounds
<1>3. given' = GivenAfter(w)
  BY <1>2 DEF Begin, GivenAfter
<1>4. given' \in [workspace : Nat, user : Nat, role : Nat]
      /\ given.workspace <= given'.workspace /\ given.user <= given'.user
      /\ given.role <= given'.role
  <2>1. given' \in [workspace : Nat, user : Nat, role : Nat]
    BY <1>3 DEF Decided
  <2> QED
    <3>1. /\ DOMAIN w.workspace \ DOMAIN db.workspace
               \subseteq 1..given'.workspace
          /\ DOMAIN w.user \ DOMAIN db.user \subseteq 1..given'.user
          /\ DOMAIN w.role \ DOMAIN db.role \subseteq 1..given'.role
      BY <1>3 DEF Decided, RequestHolds, Numbered
    <3>2. /\ IsFiniteSet(1..given'.workspace) /\ IsFiniteSet(1..given'.user)
          /\ IsFiniteSet(1..given'.role)
      BY <2>1, FS_Interval
    <3>3. /\ IsFiniteSet(DOMAIN w.workspace \ DOMAIN db.workspace)
          /\ IsFiniteSet(DOMAIN w.user \ DOMAIN db.user)
          /\ IsFiniteSet(DOMAIN w.role \ DOMAIN db.role)
      BY <3>1, <3>2, FS_Subset
    <3>4. /\ Cardinality(DOMAIN w.workspace \ DOMAIN db.workspace) \in Nat
          /\ Cardinality(DOMAIN w.user \ DOMAIN db.user) \in Nat
          /\ Cardinality(DOMAIN w.role \ DOMAIN db.role) \in Nat
      BY <3>3, FS_CardinalityType
    <3> QED  BY <1>2, <1>3, <2>1, <3>4 DEF GivenAfter
<1>5. \A v \in Thread :
        /\ req'[v] = IF v = t THEN w ELSE req[v]
        /\ alone'[v] <=> v = t /\ \A u \in Thread \ {t} : req[u] = None
  BY <1>1 DEF WorkspacesInv, Bounds
<1>6. Bounds'
  <2>1. started < MaxRequests /\ started \in Nat /\ MaxRequests \in Nat
    BY WorkspacesAssumption DEF Idle, WorkspacesInv, Bounds
  <2>2. started' \in 0..MaxRequests
    BY <1>1, <2>1
  <2> QED  BY <1>1, <1>4, <2>2 DEF WorkspacesInv, Bounds
<1>7. DatabaseHolds(db', given')
  <2>1. DatabaseHolds(db, given)
    BY DEF WorkspacesInv
  <2>2. Numbered(db, given')
    BY <1>2, <1>4, <2>1 DEF DatabaseHolds, Numbered
  <2> QED  BY <1>1, <2>1, <2>2 DEF DatabaseHolds
<1>8. ASSUME NEW v \in Thread, req'[v] # None
      PROVE  RequestHolds(db', given', req'[v])
  <2>1. CASE v = t
    BY <1>1, <1>3, <1>5, <2>1 DEF Decided
  <2>2. CASE v # t
    <3>1. req'[v] = req[v] /\ RequestHolds(db, given, req[v])
      BY <1>5, <1>8, <2>2 DEF WorkspacesInv
    <3>2. RequestHolds(db, given', req[v])
      BY <1>2, <1>4, <3>1, RequestsStay
    <3> QED  BY <1>1, <3>1, <3>2
  <2> QED  BY <2>1, <2>2
<1>9. ASSUME NEW v \in Thread, NEW u \in Thread, v # u, req'[v] # None,
             req'[u] # None
      PROVE  Apart(db', req'[v], req'[u])
  <2>1. CASE v # t /\ u # t
    BY <1>1, <1>5, <1>9, <2>1 DEF WorkspacesInv
  <2>2. CASE v = t
    <3>1. req'[v] = w /\ req'[u] = req[u] /\ RequestHolds(db, given, req[u])
      BY <1>5, <1>9, <2>2 DEF WorkspacesInv
    <3> QED  BY <1>1, <3>1, NewOnesApart
  <2>3. CASE u = t
    <3>1. req'[u] = w /\ req'[v] = req[v] /\ RequestHolds(db, given, req[v])
      BY <1>5, <1>9, <2>3 DEF WorkspacesInv
    <3> QED  BY <1>1, <3>1, NewOnesApart
  <2> QED  BY <2>1, <2>2, <2>3
<1>10. ASSUME NEW v \in Thread, req'[v] # None, alone'[v]
       PROVE  /\ Lone(db', req'[v])
              /\ \A u \in Thread : v # u => req'[u] = None
  BY <1>1, <1>5, <1>10 DEF Decided
<1> QED  BY <1>6, <1>7, <1>8, <1>9, <1>10 DEF WorkspacesInv

-----------------------------------------------------------------------------
(* What handlers check suffices for the schema.                            *)
(* New rows take the identifiers that follow.                              *)
OneMore(ids, old, n) == ids \subseteq old \cup {n + 1}

Counted(ids, old, n) ==
  /\ Cardinality(ids \ old) \in Nat
  /\ ids \subseteq 1..(n + Cardinality(ids \ old))

(* Names and actions are new, grants are those of one workspace, and nothing *)
(* refers to what is deleted.                                              *)
NewNames(w) ==
  /\ \A x \in DOMAIN w.workspace : NamedWorkspaces(w.workspace[x]) = {}
  /\ \A x, y \in DOMAIN w.workspace : x = y
  /\ \A u \in DOMAIN w.user :
       "name" \in DOMAIN w.user[u] => NamedUsers(w.user[u].name) \subseteq {u}
  /\ \A u, v \in DOMAIN w.user : u = v
  /\ \A r \in DOMAIN w.role :
       NamedRoles(After(w).role[r].workspace, w.role[r].name) = {}
  /\ \A q, r \in DOMAIN w.role : w.role[q].name = w.role[r].name => q = r

NewPermissions(w) ==
  /\ w.inserts \subseteq PermissionRow
  /\ \A p \in w.inserts : p.role \in DOMAIN After(w).role
  /\ \A p \in w.inserts, q \in db.permission \ w.clears :
       ~(p.role = q.role /\ p.action = q.action)
  /\ \A p, q \in w.inserts :
       p.role = q.role /\ p.action = q.action => p = q

NewGrants(w) ==
  /\ w.revokes \subseteq db.user_role
  /\ \A x \in w.grants :
       /\ x \in Nat \X Nat /\ x \notin db.user_role
       /\ x[1] \in DOMAIN After(w).user /\ x[2] \in DOMAIN After(w).role
       /\ After(w).role[x[2]].workspace = WorkspaceWith(db, w, x[1])

NothingLost(w) ==
  /\ \A p \in db.permission \ w.clears : p.role \notin w.delete_role
  /\ \A x \in db.user_role \ w.revokes : x[2] \notin w.delete_role
  /\ \A u \in DOMAIN w.user \ DOMAIN db.user :
       w.user[u].workspace \in DOMAIN After(w).workspace
  /\ \A r \in NewRoles(w) :
       w.role[r].workspace \in DOMAIN After(w).workspace

Checked(w) ==
  /\ OneMore(DOMAIN w.workspace, DOMAIN db.workspace, given.workspace)
  /\ OneMore(DOMAIN w.user, DOMAIN db.user, given.user)
  /\ Counted(DOMAIN w.role, DOMAIN db.role, given.role)
  /\ \A r \in NewRoles(w) : r > given.role
  /\ w.updates \subseteq DOMAIN db.role
  /\ UserRows(db, w) /\ RoleRows(db, w)
  /\ NewNames(w) /\ NewPermissions(w) /\ NewGrants(w) /\ NothingLost(w)
  /\ \A u \in w.sign_in : u \in DOMAIN db.user \cup DOMAIN w.user

(* The identifier after the last is counted.                               *)
LEMMA OneMoreCounted ==
  ASSUME NEW n \in Nat, NEW old \in SUBSET (1..n), NEW ids,
         OneMore(ids, old, n)
  PROVE  Counted(ids, old, n)
<1>1. CASE n + 1 \in ids
  <2>0. n + 1 \notin old
    <3>1. n + 1 \notin 1..n
      OBVIOUS
    <3> QED  BY <3>1
  <2>1. ids \ old = {n + 1}
    BY <1>1, <2>0 DEF OneMore
  <2>2. Cardinality(ids \ old) = 1
    BY <2>1, FS_Singleton
  <2> QED  BY <2>2 DEF OneMore, Counted
<1>2. CASE n + 1 \notin ids
  <2>1. ids \ old = {} /\ ids \subseteq old
    BY <1>2 DEF OneMore
  <2>2. Cardinality(ids \ old) = 0
    BY <2>1, FS_EmptySet
  <2> QED  BY <2>1, <2>2 DEF Counted
<1> QED  BY <1>1, <1>2

(* Names that were free stay unique: of workspaces,                        *)
LEMMA WorkspacesUnique ==
  ASSUME Unique(db), NEW w, NewNames(w)
  PROVE  UniqueBy(After(w).workspace, LAMBDA x : x)
BY AfterWorkspaces DEF Unique, UniqueBy, NewNames, NamedWorkspaces

(* The names of users after a commit.                                      *)
LEMMA UserNames ==
  ASSUME NEW w, Rows(db), UserRows(db, w), NEW u \in DOMAIN After(w).user
  PROVE  /\ u \notin DOMAIN w.user =>
              u \in DOMAIN db.user /\ After(w).user[u].name = db.user[u].name
         /\ u \in DOMAIN w.user /\ "name" \in DOMAIN w.user[u] =>
              After(w).user[u].name = w.user[u].name
         /\ u \in DOMAIN w.user /\ "name" \notin DOMAIN w.user[u] =>
              u \in DOMAIN db.user /\ After(w).user[u].name = db.user[u].name
<1>1. CASE u \notin DOMAIN w.user
  BY <1>1, AfterUsers
<1>2. CASE u \in DOMAIN w.user \ DOMAIN db.user
  BY <1>2, AfterUsers DEF UserRows, UserRow
<1>3. CASE u \in DOMAIN w.user \cap DOMAIN db.user
  <2>1. After(w).user[u] = Over(w.user[u], db.user[u])
    BY <1>3, AfterUsers
  <2>2. db.user[u] \in UserRow
    BY <1>3 DEF Rows
  <2> QED  BY <1>3, <2>1, <2>2 DEF Over, UserRow
<1> QED  BY <1>1, <1>2, <1>3

(* of users,                                                               *)
LEMMA UsersUnique ==
  ASSUME Unique(db), NEW w, Rows(db), UserRows(db, w), NewNames(w)
  PROVE  UniqueBy(After(w).user, LAMBDA u : u.name)
<1> SUFFICES ASSUME NEW u \in DOMAIN After(w).user,
                    NEW v \in DOMAIN After(w).user,
                    After(w).user[u].name = After(w).user[v].name
             PROVE  u = v
  BY DEF UniqueBy
<1>1. ASSUME NEW a \in DOMAIN After(w).user, NEW b \in DOMAIN After(w).user,
             After(w).user[a].name = After(w).user[b].name,
             a \in DOMAIN w.user, b \notin DOMAIN w.user
      PROVE  a = b
  <2>1. b \in DOMAIN db.user /\ After(w).user[b].name = db.user[b].name
    BY <1>1, UserNames
  <2>2. CASE "name" \in DOMAIN w.user[a]
    BY <1>1, <2>1, <2>2, UserNames DEF NewNames, NamedUsers
  <2>3. CASE "name" \notin DOMAIN w.user[a]
    BY <1>1, <2>1, <2>3, UserNames DEF Unique, UniqueBy
  <2> QED  BY <2>2, <2>3
<1>2. CASE u \in DOMAIN w.user /\ v \in DOMAIN w.user
  BY <1>2 DEF NewNames
<1>3. CASE u \notin DOMAIN w.user /\ v \notin DOMAIN w.user
  BY <1>3, UserNames DEF Unique, UniqueBy
<1> QED  BY <1>1, <1>2, <1>3

(* The names of roles after a commit.                                      *)
LEMMA RoleNames ==
  ASSUME NEW w, Rows(db), RoleRows(db, w), w.updates \subseteq DOMAIN db.role,
         NEW r \in DOMAIN After(w).role
  PROVE  /\ r \notin DOMAIN w.role =>
              r \in DOMAIN db.role /\ After(w).role[r] = db.role[r]
         /\ r \in DOMAIN w.role => After(w).role[r].name = w.role[r].name
<1>1. CASE r \notin DOMAIN w.role
  BY <1>1, AfterRoles
<1>2. CASE r \in DOMAIN w.role \ DOMAIN db.role
  BY <1>2, AfterRoles
<1>3. CASE r \in DOMAIN w.role \cap DOMAIN db.role
  <2>1. w.role[r] \in [name : RoleName] /\ db.role[r] \in RoleRow
    BY <1>3 DEF Rows, RoleRows, NewRoles
  <2> QED  BY <1>3, <2>1, AfterRoles, OverRole
<1> QED  BY <1>1, <1>2, <1>3

(* of the roles of a workspace.                                            *)
LEMMA RolesUnique ==
  ASSUME Unique(db), NEW w, Rows(db), RoleRows(db, w), NewNames(w),
         w.updates \subseteq DOMAIN db.role
  PROVE  UniqueBy(After(w).role, LAMBDA r : <<r.workspace, r.name>>)
<1> SUFFICES ASSUME NEW u \in DOMAIN After(w).role,
                    NEW v \in DOMAIN After(w).role,
                    After(w).role[u].name = After(w).role[v].name,
                    After(w).role[u].workspace = After(w).role[v].workspace
             PROVE  u = v
  BY DEF UniqueBy
<1>1. ASSUME NEW a \in DOMAIN After(w).role, NEW b \in DOMAIN After(w).role,
             After(w).role[a].name = After(w).role[b].name,
             After(w).role[a].workspace = After(w).role[b].workspace,
             a \in DOMAIN w.role, b \notin DOMAIN w.role
      PROVE  FALSE
  <2>1. /\ b \in DOMAIN db.role /\ After(w).role[b] = db.role[b]
        /\ After(w).role[a].name = w.role[a].name
    BY <1>1, RoleNames
  <2>2. b \in NamedRoles(After(w).role[a].workspace, w.role[a].name)
    BY <1>1, <2>1 DEF NamedRoles, RolesIn
  <2> QED  BY <1>1, <2>2 DEF NewNames
<1>2. CASE u \in DOMAIN w.role /\ v \in DOMAIN w.role
  BY <1>2, RoleNames DEF NewNames
<1>3. CASE u \notin DOMAIN w.role /\ v \notin DOMAIN w.role
  BY <1>3, RoleNames DEF Unique, UniqueRoles, UniqueBy
<1> QED  BY <1>1, <1>2, <1>3

(* A checked request is accepted by the database it checked.               *)
LEMMA CheckedIsAccepted ==
  ASSUME DatabaseHolds(db, given), NEW w, Checked(w)
  PROVE  AcceptedBy(db, w)
<1> USE DEF Checked, DatabaseHolds
<1>1. \A p, q \in After(w).permission :
        p.role = q.role /\ p.action = q.action => p = q
  BY AfterRows DEF NewPermissions, Unique, UniqueRoles
<1>2. Unique(After(w))
  BY <1>1, WorkspacesUnique, UsersUnique, RolesUnique DEF Unique, UniqueRoles
<1>3. \A p \in After(w).permission : p.role \in DOMAIN After(w).role
  BY AfterRows, AfterRoles DEF NewPermissions, NothingLost, References
<1>4. \A x \in After(w).user_role :
        x[1] \in DOMAIN After(w).user /\ x[2] \in DOMAIN After(w).role
  BY AfterRows, AfterUsers, AfterRoles DEF NewGrants, NothingLost, References
<1>5. \A u \in DOMAIN After(w).user :
        After(w).user[u].workspace \in DOMAIN After(w).workspace
  BY UsersStay, AfterUsers, AfterWorkspaces
  DEF WorkspaceWith, NothingLost, References
<1>6. \A r \in DOMAIN After(w).role :
        After(w).role[r].workspace \in DOMAIN After(w).workspace
  BY RolesStay, AfterWorkspaces DEF NothingLost, References
<1>7. References(After(w))
  BY <1>3, <1>4, <1>5, <1>6 DEF References
<1>8. w.grants \cap db.user_role = {} /\ w.revokes \subseteq db.user_role
  BY DEF NewGrants
<1> QED  BY <1>2, <1>7, <1>8, AfterIsResult DEF AcceptedBy

(* What a handler has to show of its request.                              *)
LEMMA CheckedDecides ==
  ASSUME WorkspacesInv, NEW w, Checked(w), AskedHolds(db, w), AdminHolds(db, w)
  PROVE  Decided(w)
<1>1. given \in [workspace : Nat, user : Nat, role : Nat]
      /\ DatabaseHolds(db, given)
  BY DEF WorkspacesInv, Bounds
<1>2. /\ Counted(DOMAIN w.workspace, DOMAIN db.workspace, given.workspace)
      /\ Counted(DOMAIN w.user, DOMAIN db.user, given.user)
      /\ Counted(DOMAIN w.role, DOMAIN db.role, given.role)
  BY <1>1, OneMoreCounted DEF Checked, DatabaseHolds, Numbered
<1>3. /\ GivenAfter(w) \in [workspace : Nat, user : Nat, role : Nat]
      /\ Numbered(w, GivenAfter(w))
  <2>1. /\ GivenAfter(w).workspace
             = given.workspace
                 + Cardinality(DOMAIN w.workspace \ DOMAIN db.workspace)
        /\ GivenAfter(w).user
             = given.user + Cardinality(DOMAIN w.user \ DOMAIN db.user)
        /\ GivenAfter(w).role
             = given.role + Cardinality(DOMAIN w.role \ DOMAIN db.role)
    BY DEF GivenAfter
  <2>2. Numbered(w, GivenAfter(w))
    BY <1>2, <2>1 DEF Counted, Numbered
  <2>3. GivenAfter(w) \in [workspace : Nat, user : Nat, role : Nat]
    BY <1>1, <1>2 DEF Counted, GivenAfter
  <2> QED  BY <2>2, <2>3
<1>4. Lone(db, w)
  BY <1>1, CheckedIsAccepted DEF Lone
<1>5. ASSUME NEW x \in w.grants
      PROVE  /\ GrantHolds(db, GivenAfter(w), w, x)
             /\ x[2] \in DOMAIN db.role \/ x[2] > given.role
  <2>1. /\ x \in Nat \X Nat /\ x[1] \in DOMAIN db.user \cup DOMAIN w.user
        /\ x[2] \in DOMAIN After(w).role
        /\ After(w).role[x[2]].workspace = WorkspaceWith(db, w, x[1])
    BY AfterUsers DEF Checked, NewGrants
  <2>2. /\ x[2] \in DOMAIN db.role =>
             After(w).role[x[2]].workspace = db.role[x[2]].workspace
        /\ x[2] \notin DOMAIN db.role =>
             x[2] \in NewRoles(w) /\ After(w).role[x[2]] = w.role[x[2]]
    BY <1>1, <2>1, RolesStay DEF Checked, DatabaseHolds
  <2>3. x[2] \in DOMAIN db.role \cup DOMAIN w.role
    BY <2>2 DEF NewRoles
  <2>4. x[2] \in 1..GivenAfter(w).role
    <3>1. CASE x[2] \in DOMAIN w.role
      BY <1>3, <3>1 DEF Numbered
    <3>2. CASE x[2] \in DOMAIN db.role
      <4>1. x[2] \in 1..given.role
        BY <1>1, <3>2 DEF DatabaseHolds, Numbered
      <4>2. GivenAfter(w).role \in Nat /\ given.role \in Nat
            /\ given.role <= GivenAfter(w).role
        BY <1>1, <1>2, <1>3 DEF Counted, GivenAfter
      <4> QED  BY <4>1, <4>2
    <3> QED  BY <2>3, <3>1, <3>2
  <2>5. x[2] \in NewRoles(w) => x[2] \notin DOMAIN db.role
    BY DEF Checked, RoleRows
  <2>6. x[2] \in NewRoles(w) => x[2] > given.role
    BY DEF Checked
  <2> QED  BY <2>1, <2>2, <2>4, <2>5, <2>6 DEF GrantHolds
<1>6. RequestHolds(db, GivenAfter(w), w)
  BY <1>3, <1>5 DEF RequestHolds, Checked, NewPermissions
<1>7. \A u \in DOMAIN w.user : u \in DOMAIN db.user \/ u > given.user
  BY <1>1 DEF Checked, OneMore
<1> QED  BY <1>3, <1>4, <1>5, <1>6, <1>7 DEF Decided, Checked

-----------------------------------------------------------------------------
(* The handlers.                                                           *)
LEMMA RowFacts ==
  /\ DOMAIN NoRows = {}
  /\ \A i, row : DOMAIN Row(i, row) = {i} /\ Row(i, row)[i] = row
BY DEF NoRows, Row

(* The parts of Checked that a request with nothing of a kind meets.       *)
LEMMA IdsCounted ==
  ASSUME DatabaseHolds(db, given), NEW w,
         given \in [workspace : Nat, user : Nat, role : Nat],
         OneMore(DOMAIN w.role, DOMAIN db.role, given.role)
  PROVE  Counted(DOMAIN w.role, DOMAIN db.role, given.role)
BY OneMoreCounted DEF DatabaseHolds, Numbered

LEMMA NoUsers ==
  ASSUME NEW w, w.user = NoRows
  PROVE  /\ OneMore(DOMAIN w.user, DOMAIN db.user, given.user)
         /\ UserRows(db, w)
         /\ DOMAIN w.user = {} /\ DOMAIN After(w).user = DOMAIN db.user
BY RowFacts, AfterUsers DEF OneMore, UserRows

LEMMA NoWorkspaces ==
  ASSUME NEW w, w.workspace = NoRows
  PROVE  /\ OneMore(DOMAIN w.workspace, DOMAIN db.workspace, given.workspace)
         /\ DOMAIN w.workspace = {}
         /\ DOMAIN After(w).workspace = DOMAIN db.workspace
BY RowFacts, AfterWorkspaces DEF OneMore

LEMMA NoRoles ==
  ASSUME NEW w, w.role = NoRows
  PROVE  /\ OneMore(DOMAIN w.role, DOMAIN db.role, given.role)
         /\ RoleRows(db, w) /\ NewRoles(w) = {}
         /\ DOMAIN w.role = {}
         /\ DOMAIN After(w).role = DOMAIN db.role \ w.delete_role
         /\ \A r \in DOMAIN After(w).role : After(w).role[r] = db.role[r]
BY RowFacts, AfterRoles DEF OneMore, RoleRows, NewRoles

LEMMA NoOtherPermissions ==
  ASSUME NEW w, w.inserts = {}
  PROVE  NewPermissions(w)
BY DEF NewPermissions

LEMMA NoneAsked ==
  ASSUME NEW w, w.op = "write", w.asked = None
  PROVE  AskedHolds(db, w) /\ AdminHolds(db, w)
BY DEF AskedHolds, AdminHolds

(* The requests of the handlers are checked: of sign-ins and sign-outs,    *)
LEMMA SessionsDecide ==
  ASSUME WorkspacesInv, NEW S \in SUBSET DOMAIN db.user, NEW w,
         \/ w = [Nothing EXCEPT !.sign_in = S]
         \/ \E s : w = [Nothing EXCEPT !.sign_out = {s}]
  PROVE  Decided(w)
<1>1. /\ w.op = "write" /\ w.workspace = NoRows /\ w.user = NoRows
      /\ w.role = NoRows /\ w.updates = {} /\ w.delete_role = {}
      /\ w.grants = {} /\ w.revokes = {} /\ w.inserts = {} /\ w.clears = {}
      /\ w.sign_in \subseteq DOMAIN db.user /\ w.asked = None
  BY DEF Nothing
<1>2. DatabaseHolds(db, given)
      /\ given \in [workspace : Nat, user : Nat, role : Nat]
  BY DEF WorkspacesInv, Bounds
<1>3. NewNames(w) /\ NewGrants(w) /\ NothingLost(w)
  BY <1>1, NoUsers, NoWorkspaces, NoRoles DEF NewNames, NewGrants, NothingLost
<1>4. Checked(w)
  BY <1>1, <1>2, <1>3, NoUsers, NoWorkspaces, NoRoles, NoOtherPermissions,
     IdsCounted DEF Checked
<1> QED  BY <1>1, <1>4, NoneAsked, CheckedDecides

(* of a renamed, activated or deactivated user,                            *)
LEMMA UserColumnDecides ==
  ASSUME WorkspacesInv, NEW u \in DOMAIN db.user, NEW row \in UserColumns,
         "name" \in DOMAIN row => NamedUsers(row.name) \subseteq {u},
         NEW w, w = [Nothing EXCEPT !.user = Row(u, row)]
  PROVE  Decided(w)
<1>1. /\ w.op = "write" /\ w.workspace = NoRows /\ w.user = Row(u, row)
      /\ w.role = NoRows /\ w.updates = {} /\ w.delete_role = {}
      /\ w.grants = {} /\ w.revokes = {} /\ w.inserts = {} /\ w.clears = {}
      /\ w.sign_in = {} /\ w.asked = None
  BY DEF Nothing
<1>2. DatabaseHolds(db, given)
      /\ given \in [workspace : Nat, user : Nat, role : Nat]
  BY DEF WorkspacesInv, Bounds
<1>3. DOMAIN w.user = {u} /\ w.user[u] = row
  BY <1>1 DEF Row
<1>4. OneMore(DOMAIN w.user, DOMAIN db.user, given.user) /\ UserRows(db, w)
  BY <1>3 DEF OneMore, UserRows
<1>5. NewNames(w) /\ NewGrants(w) /\ NothingLost(w)
  BY <1>1, <1>3, NoWorkspaces, NoRoles DEF NewNames, NewGrants, NothingLost
<1>6. Checked(w)
  BY <1>1, <1>2, <1>4, <1>5, NoWorkspaces, NoRoles, NoOtherPermissions,
     IdsCounted DEF Checked
<1> QED  BY <1>1, <1>6, NoneAsked, CheckedDecides

(* of a renamed workspace,                                                 *)
LEMMA WorkspaceDecides ==
  ASSUME WorkspacesInv, NEW x \in DOMAIN db.workspace, NEW n,
         NamedWorkspaces(n) = {},
         NEW w, w = [Nothing EXCEPT !.workspace = Row(x, n)]
  PROVE  Decided(w)
<1>1. /\ w.op = "write" /\ w.workspace = Row(x, n) /\ w.user = NoRows
      /\ w.role = NoRows /\ w.updates = {} /\ w.delete_role = {}
      /\ w.grants = {} /\ w.revokes = {} /\ w.inserts = {} /\ w.clears = {}
      /\ w.sign_in = {} /\ w.asked = None
  BY DEF Nothing
<1>2. DatabaseHolds(db, given)
      /\ given \in [workspace : Nat, user : Nat, role : Nat]
  BY DEF WorkspacesInv, Bounds
<1>3. DOMAIN w.workspace = {x} /\ w.workspace[x] = n
  BY <1>1 DEF Row
<1>4. OneMore(DOMAIN w.workspace, DOMAIN db.workspace, given.workspace)
  BY <1>3 DEF OneMore
<1>5. NewNames(w) /\ NewGrants(w) /\ NothingLost(w)
  BY <1>1, <1>3, NoUsers, NoRoles DEF NewNames, NewGrants, NothingLost
<1>6. Checked(w)
  BY <1>1, <1>2, <1>4, <1>5, NoUsers, NoRoles, NoOtherPermissions,
     IdsCounted DEF Checked
<1> QED  BY <1>1, <1>6, NoneAsked, CheckedDecides

(* of a new user, whose roles are those of its workspace,                  *)
LEMMA CreateUserDecides ==
  ASSUME WorkspacesInv, NEW a \in DOMAIN db.user, NEW n \in UserName,
         NEW roles, UsernameFree(WorkspaceOf(a), n),
         ValidRoles(WorkspaceOf(a), roles), NEW w,
         w = [Nothing EXCEPT
                !.user = Row(given.user + 1,
                             [name |-> n, workspace |-> WorkspaceOf(a),
                              active |-> TRUE]),
                !.grants = {given.user + 1} \X roles]
  PROVE  Decided(w)
<1> DEFINE u == given.user + 1
           row == [name |-> n, workspace |-> WorkspaceOf(a), active |-> TRUE]
<1>1. /\ w.op = "write" /\ w.workspace = NoRows /\ w.user = Row(u, row)
      /\ w.role = NoRows /\ w.updates = {} /\ w.delete_role = {}
      /\ w.grants = {u} \X roles
      /\ w.revokes = {} /\ w.inserts = {} /\ w.clears = {}
      /\ w.sign_in = {} /\ w.asked = None
  BY DEF Nothing
<1>2. DatabaseHolds(db, given)
      /\ given \in [workspace : Nat, user : Nat, role : Nat]
  BY DEF WorkspacesInv, Bounds
<1>3. DOMAIN w.user = {u} /\ w.user[u] = row
  BY <1>1 DEF Row
<1>4. /\ u \in Nat /\ u \notin DOMAIN db.user
      /\ row \in UserRow /\ row.workspace \in DOMAIN db.workspace
  BY <1>2 DEF DatabaseHolds, Numbered, Rows, References, UserRow, WorkspaceOf
<1>5. OneMore(DOMAIN w.user, DOMAIN db.user, given.user) /\ UserRows(db, w)
  BY <1>3, <1>4 DEF OneMore, UserRows
<1>9. row.name = n /\ row.workspace = WorkspaceOf(a)
  OBVIOUS
<1> HIDE DEF u, row
<1>6. NewNames(w) /\ NothingLost(w)
  <2>1. NewNames(w)
    BY <1>1, <1>3, <1>9, NoWorkspaces, NoRoles DEF NewNames, UsernameFree
  <2>2. NothingLost(w)
    BY <1>1, <1>3, <1>4, NoWorkspaces, NoRoles DEF NothingLost
  <2> QED  BY <2>1, <2>2
<1>7. NewGrants(w)
  <2> SUFFICES ASSUME NEW r \in roles
               PROVE  /\ <<u, r>> \in Nat \X Nat
                      /\ <<u, r>> \notin db.user_role
                      /\ u \in DOMAIN After(w).user
                      /\ r \in DOMAIN After(w).role
                      /\ After(w).role[r].workspace = WorkspaceWith(db, w, u)
    BY <1>1 DEF NewGrants
  <2>1. r \in DOMAIN db.role /\ db.role[r].workspace = WorkspaceOf(a)
    BY DEF ValidRoles, RolesIn
  <2>2. r \in Nat /\ <<u, r>> \notin db.user_role
    BY <1>2, <1>4, <2>1 DEF DatabaseHolds, Numbered, References
  <2>3. u \in DOMAIN After(w).user /\ WorkspaceWith(db, w, u) = WorkspaceOf(a)
    <3>1. u \in DOMAIN After(w).user
      BY <1>3, AfterUsers
    <3>2. WorkspaceWith(db, w, u) = row.workspace
      BY <1>3, <1>4 DEF WorkspaceWith
    <3> QED  BY <1>9, <3>1, <3>2
  <2>4. r \in DOMAIN After(w).role /\ After(w).role[r] = db.role[r]
    <3>1. w.role = NoRows /\ w.delete_role = {}
      BY <1>1
    <3>2. \A q \in DOMAIN db.role :
            q \in DOMAIN After(w).role /\ After(w).role[q] = db.role[q]
      BY <3>1, NoRoles
    <3> QED  BY <3>2, <2>1
  <2> QED  BY <1>4, <2>1, <2>2, <2>3, <2>4
<1>8. Checked(w)
  BY <1>1, <1>2, <1>5, <1>6, <1>7, NoWorkspaces, NoRoles, NoOtherPermissions,
     IdsCounted DEF Checked
<1> QED  BY <1>1, <1>8, NoneAsked, CheckedDecides

(* of other roles for a user,                                              *)
LEMMA ReplaceUserRolesDecides ==
  ASSUME WorkspacesInv, NEW u \in DOMAIN db.user, NEW roles,
         ValidRoles(WorkspaceOf(u), roles), NEW w,
         w = [Nothing EXCEPT !.grants = {u} \X (roles \ RolesOf(db, u)),
                             !.revokes = {u} \X (RolesOf(db, u) \ roles)]
  PROVE  Decided(w)
<1>1. /\ w.op = "write" /\ w.workspace = NoRows /\ w.user = NoRows
      /\ w.role = NoRows /\ w.updates = {} /\ w.delete_role = {}
      /\ w.grants = {u} \X (roles \ RolesOf(db, u))
      /\ w.revokes = {u} \X (RolesOf(db, u) \ roles)
      /\ w.inserts = {} /\ w.clears = {}
      /\ w.sign_in = {} /\ w.asked = None
  BY DEF Nothing
<1>2. DatabaseHolds(db, given)
      /\ given \in [workspace : Nat, user : Nat, role : Nat]
  BY DEF WorkspacesInv, Bounds
<1>3. \A r : <<u, r>> \in db.user_role <=> r \in RolesOf(db, u)
  BY <1>2 DEF RolesOf, DatabaseHolds, Rows
<1>4. NewNames(w) /\ NothingLost(w)
  BY <1>1, NoUsers, NoWorkspaces, NoRoles DEF NewNames, NothingLost
<1>5. NewGrants(w)
  <2>1. w.revokes \subseteq db.user_role
    BY <1>1, <1>3
  <2> SUFFICES ASSUME NEW r \in roles \ RolesOf(db, u)
               PROVE  /\ <<u, r>> \in Nat \X Nat
                      /\ <<u, r>> \notin db.user_role
                      /\ u \in DOMAIN After(w).user
                      /\ r \in DOMAIN After(w).role
                      /\ After(w).role[r].workspace = WorkspaceWith(db, w, u)
    BY <1>1, <2>1 DEF NewGrants
  <2>2. r \in DOMAIN db.role /\ db.role[r].workspace = WorkspaceOf(u)
    BY DEF ValidRoles, RolesIn
  <2>3. r \in Nat /\ u \in Nat /\ <<u, r>> \notin db.user_role
    BY <1>2, <1>3, <2>2 DEF DatabaseHolds, Numbered
  <2>4. r \in DOMAIN After(w).role /\ After(w).role[r] = db.role[r]
    <3>1. w.role = NoRows /\ w.delete_role = {}
      BY <1>1
    <3>2. \A q \in DOMAIN db.role :
            q \in DOMAIN After(w).role /\ After(w).role[q] = db.role[q]
      BY <3>1, NoRoles
    <3> QED  BY <3>2, <2>2
  <2>5. /\ u \in DOMAIN After(w).user
        /\ WorkspaceWith(db, w, u) = WorkspaceOf(u)
    BY <1>1, NoUsers DEF WorkspaceWith, WorkspaceOf
  <2> QED  BY <2>2, <2>3, <2>4, <2>5
<1>6. Checked(w)
  BY <1>1, <1>2, <1>4, <1>5, NoUsers, NoWorkspaces, NoRoles,
     NoOtherPermissions, IdsCounted DEF Checked
<1> QED  BY <1>1, <1>6, NoneAsked, CheckedDecides

(* of a new role,                                                          *)
LEMMA CreateRoleDecides ==
  ASSUME WorkspacesInv, NEW a \in DOMAIN db.user, NEW n \in RoleName,
         NEW actions \in SUBSET Action, NamedRoles(WorkspaceOf(a), n) = {},
         started \in Nat, NEW w,
         w = [Nothing EXCEPT
                !.role = Row(given.role + 1,
                             [name |-> n, workspace |-> WorkspaceOf(a)]),
                !.inserts = Permissions(given.role + 1, actions, started + 1)]
  PROVE  Decided(w)
<1> DEFINE r == given.role + 1
           row == [name |-> n, workspace |-> WorkspaceOf(a)]
           new == Permissions(r, actions, started + 1)
<1>1. /\ w.op = "write" /\ w.workspace = NoRows /\ w.user = NoRows
      /\ w.role = Row(r, row) /\ w.updates = {} /\ w.delete_role = {}
      /\ w.grants = {} /\ w.revokes = {} /\ w.inserts = new /\ w.clears = {}
      /\ w.sign_in = {} /\ w.asked = None
  BY DEF Nothing
<1>2. DatabaseHolds(db, given)
      /\ given \in [workspace : Nat, user : Nat, role : Nat]
  BY DEF WorkspacesInv, Bounds
<1>3. DOMAIN w.role = {r} /\ w.role[r] = row
  BY <1>1 DEF Row
<1>4. /\ r \in Nat /\ r > given.role /\ r \notin DOMAIN db.role
      /\ \A p \in db.permission : p.role # r
      /\ row \in RoleRow /\ row.workspace \in DOMAIN db.workspace
  BY <1>2 DEF DatabaseHolds, Numbered, Rows, References, UserRow, RoleRow,
              WorkspaceOf
<1>5. /\ \A p \in new : p \in PermissionRow /\ p.role = r
      /\ \A p, q \in new : p.action = q.action => p = q
  BY <1>4 DEF Permissions, PermissionRow
<1>6. OneMore(DOMAIN w.role, DOMAIN db.role, given.role)
  BY <1>3 DEF OneMore
<1>7. row.name = n /\ row.workspace = WorkspaceOf(a)
  OBVIOUS
<1> HIDE DEF r, row, new
<1>8. RoleRows(db, w) /\ NewRoles(w) = {r}
  BY <1>1, <1>3, <1>4 DEF RoleRows, NewRoles
<1>9. r \in DOMAIN After(w).role /\ After(w).role[r] = row
  <2>1. r \notin w.delete_role
    BY <1>1
  <2>2. r \in DOMAIN w.role \ DOMAIN db.role
    BY <1>3, <1>4
  <2> QED  BY <1>3, <2>1, <2>2, AfterRoles
<1>10. NewNames(w)
  BY <1>1, <1>3, <1>7, <1>9, NoUsers, NoWorkspaces DEF NewNames
<1>11. NewGrants(w) /\ NothingLost(w)
  BY <1>1, <1>3, <1>4, <1>8, NoUsers, NoWorkspaces DEF NewGrants, NothingLost
<1>12. NewPermissions(w)
  BY <1>1, <1>4, <1>5, <1>9 DEF NewPermissions
<1>13. Checked(w)
  BY <1>1, <1>2, <1>4, <1>6, <1>8, <1>10, <1>11, <1>12, NoUsers, NoWorkspaces,
     IdsCounted DEF Checked
<1> QED  BY <1>1, <1>13, NoneAsked, CheckedDecides

(* of a renamed one,                                                       *)
LEMMA RenameRoleDecides ==
  ASSUME WorkspacesInv, NEW r \in DOMAIN db.role, NEW n \in RoleName,
         NamedRoles(db.role[r].workspace, n) = {}, NEW w,
         w = [Nothing EXCEPT !.role = Row(r, [name |-> n]), !.updates = {r}]
  PROVE  Decided(w)
<1> DEFINE row == [name |-> n]
<1>1. /\ w.op = "write" /\ w.workspace = NoRows /\ w.user = NoRows
      /\ w.role = Row(r, row) /\ w.updates = {r} /\ w.delete_role = {}
      /\ w.grants = {} /\ w.revokes = {} /\ w.inserts = {} /\ w.clears = {}
      /\ w.sign_in = {} /\ w.asked = None
  BY DEF Nothing
<1>2. DatabaseHolds(db, given)
      /\ given \in [workspace : Nat, user : Nat, role : Nat]
  BY DEF WorkspacesInv, Bounds
<1>3. DOMAIN w.role = {r} /\ w.role[r] = row
  BY <1>1 DEF Row
<1>4. row \in [name : RoleName] /\ row.name = n /\ db.role[r] \in RoleRow
  BY <1>2 DEF DatabaseHolds, Rows
<1> HIDE DEF row
<1>5. OneMore(DOMAIN w.role, DOMAIN db.role, given.role)
      /\ RoleRows(db, w) /\ NewRoles(w) = {}
  BY <1>1, <1>3, <1>4 DEF OneMore, RoleRows, NewRoles
<1>6. After(w).role[r] = [name |-> n, workspace |-> db.role[r].workspace]
  <2>1. r \notin w.delete_role
    BY <1>1
  <2>2. r \in DOMAIN w.role \cap DOMAIN db.role
    BY <1>3
  <2>3. After(w).role[r] = Over(row, db.role[r])
    BY <1>3, <2>1, <2>2, AfterRoles
  <2> QED  BY <1>4, <2>3, OverRole
<1>7. NewNames(w)
  BY <1>1, <1>3, <1>4, <1>6, NoUsers, NoWorkspaces DEF NewNames
<1>8. NewGrants(w) /\ NothingLost(w)
  BY <1>1, <1>5, NoUsers, NoWorkspaces DEF NewGrants, NothingLost
<1>9. Checked(w)
  BY <1>1, <1>2, <1>5, <1>7, <1>8, NoUsers, NoWorkspaces, NoOtherPermissions,
     IdsCounted DEF Checked
<1> QED  BY <1>1, <1>9, NoneAsked, CheckedDecides

(* of other permissions for a role, which are those asked for,             *)
LEMMA ReplacePermissionsDecides ==
  ASSUME WorkspacesInv, NEW r \in DOMAIN db.role,
         NEW actions \in SUBSET Action, started \in Nat, NEW w,
         w = [Nothing EXCEPT
                !.clears = Cleared(r),
                !.inserts = Permissions(r, actions, started + 1),
                !.asked = [role |-> r, actions |-> actions]]
  PROVE  Decided(w)
<1> DEFINE new == Permissions(r, actions, started + 1)
<1>1. /\ w.op = "write" /\ w.workspace = NoRows /\ w.user = NoRows
      /\ w.role = NoRows /\ w.updates = {} /\ w.delete_role = {}
      /\ w.grants = {} /\ w.revokes = {}
      /\ w.inserts = new /\ w.clears = PermissionsOf(r)
      /\ w.sign_in = {} /\ w.asked = [role |-> r, actions |-> actions]
  BY DEF Nothing, Cleared
<1>2. DatabaseHolds(db, given)
      /\ given \in [workspace : Nat, user : Nat, role : Nat]
  BY DEF WorkspacesInv, Bounds
<1>3. r \in Nat
  BY <1>2 DEF DatabaseHolds, Numbered
<1>4. /\ \A p \in new : p \in PermissionRow /\ p.role = r
      /\ \A p, q \in new : p.action = q.action => p = q
  BY <1>3 DEF Permissions, PermissionRow
<1>5. {p.action : p \in new} = actions
  <2>1. \A p \in new : p.action \in actions
    BY DEF Permissions
  <2>2. ASSUME NEW a \in actions PROVE \E p \in new : p.action = a
    <3> DEFINE p == [role |-> r, action |-> a, by |-> started + 1]
    <3>1. p \in new /\ p.action = a
      BY DEF Permissions
    <3> QED  BY <3>1
  <2> HIDE DEF new
  <2> QED  BY <2>1, <2>2
<1> HIDE DEF new
<1>6. \A p \in db.permission \ w.clears : p.role # r
  BY <1>1 DEF PermissionsOf
<1>7. NewPermissions(w)
  BY <1>1, <1>4, <1>6, NoRoles DEF NewPermissions
<1>8. NewNames(w) /\ NewGrants(w) /\ NothingLost(w)
  BY <1>1, NoUsers, NoWorkspaces, NoRoles DEF NewNames, NewGrants, NothingLost
<1>9. Checked(w)
  BY <1>1, <1>2, <1>7, <1>8, NoUsers, NoWorkspaces, NoRoles, IdsCounted
  DEF Checked
<1>10. AskedHolds(db, w)
  <2>1. Result(db, w).permission = (db.permission \ w.clears) \cup new
    BY <1>1 DEF Result
  <2>2. {p \in Result(db, w).permission : p.role = r} = new
    BY <1>4, <1>6, <2>1
  <2>3. w.asked.role = r /\ w.asked.actions = actions
    BY <1>1
  <2> QED  BY <1>5, <2>2, <2>3 DEF AskedHolds
<1>11. AdminHolds(db, w)
  BY <1>1 DEF AdminHolds
<1> QED  BY <1>9, <1>10, <1>11, CheckedDecides

(* of a deleted one.                                                       *)
LEMMA DeleteRoleDecides ==
  ASSUME WorkspacesInv, NEW r \in DOMAIN db.role, NEW w,
         w = [Nothing EXCEPT
                !.delete_role = {r}, !.clears = PermissionsOf(r),
                !.revokes = {g \in db.user_role : g[2] = r}]
  PROVE  Decided(w)
<1>1. /\ w.op = "write" /\ w.workspace = NoRows /\ w.user = NoRows
      /\ w.role = NoRows /\ w.updates = {} /\ w.delete_role = {r}
      /\ w.grants = {} /\ w.revokes = {g \in db.user_role : g[2] = r}
      /\ w.inserts = {} /\ w.clears = PermissionsOf(r)
      /\ w.sign_in = {} /\ w.asked = None
  BY DEF Nothing
<1>2. DatabaseHolds(db, given)
      /\ given \in [workspace : Nat, user : Nat, role : Nat]
  BY DEF WorkspacesInv, Bounds
<1>3. NewNames(w) /\ NewGrants(w)
  BY <1>1, NoUsers, NoWorkspaces, NoRoles DEF NewNames, NewGrants
<1>4. NothingLost(w)
  BY <1>1, NoUsers, NoRoles DEF NothingLost, PermissionsOf
<1>5. Checked(w)
  BY <1>1, <1>2, <1>3, <1>4, NoUsers, NoWorkspaces, NoRoles,
     NoOtherPermissions, IdsCounted DEF Checked
<1> QED  BY <1>1, <1>5, NoneAsked, CheckedDecides

-----------------------------------------------------------------------------
(* The administrator.                                                      *)

(* Missing roles are numbered apart.                                       *)
LEMMA NumberingIsInjective ==
  ASSUME NEW S, IsFiniteSet(S)
  PROVE  /\ Numbering(S) \in [S -> 1..Cardinality(S)]
         /\ \A a, b \in S : Numbering(S)[a] = Numbering(S)[b] => a = b
<1> DEFINE k == Cardinality(S)
           N(f) == \A a, b \in S : f[a] = f[b] => a = b
<1>1. k \in Nat /\ ExistsBijection(1..k, S)
  BY FS_CardinalityType
<1>2. PICK g \in Bijection(1..k, S) : TRUE
  BY <1>1 DEF ExistsBijection
<1>3. /\ g \in [1..k -> S]
      /\ \A s \in S : \E i \in 1..k : g[i] = s
  BY DEF Bijection, Injection, Surjection
<1> DEFINE f == [s \in S |-> CHOOSE i \in 1..k : g[i] = s]
<1>4. \A s \in S : f[s] \in 1..k /\ g[f[s]] = s
  BY <1>3
<1>5. f \in [S -> 1..k] /\ N(f)
  <2>1. f \in [S -> 1..k]
    BY <1>4
  <2> HIDE DEF f
  <2>2. N(f)
    BY <1>4
  <2> QED  BY <2>1, <2>2
<1>6. \E h \in [S -> 1..k] : N(h)
  <2> HIDE DEF f, N
  <2> QED  BY <1>5
<1>7. Numbering(S) = CHOOSE h \in [S -> 1..k] : N(h)
  BY DEF Numbering
<1> HIDE DEF N, k
<1>8. Numbering(S) \in [S -> 1..k] /\ N(Numbering(S))
  BY <1>6, <1>7
<1> QED  BY <1>8 DEF N, k

(* The built-in roles of workspace x: those it has, new ones for others.   *)
LEMMA RoleIdsOf ==
  ASSUME WorkspacesInv, NEW x
  PROVE  /\ \A n \in Missing(x) :
              RoleIds(x)[n] \in Nat /\ RoleIds(x)[n] > given.role
         /\ \A n \in DOMAIN RolePermissions \ Missing(x) :
              RoleIds(x)[n] \in NamedRoles(x, n)
         /\ \A a, b \in Missing(x) : RoleIds(x)[a] = RoleIds(x)[b] => a = b
         /\ Missing(x) \subseteq DOMAIN RolePermissions
         /\ \A n \in Missing(x) : NamedRoles(x, n) = {}
         /\ IsFiniteSet(Missing(x))
         /\ \A n \in Missing(x) :
              RoleIds(x)[n] <= given.role + Cardinality(Missing(x))
<1> DEFINE M == Missing(x)
           N == Numbering(M)
<1>1. M \subseteq DOMAIN RolePermissions /\ IsFiniteSet(M)
  <2>1. M \subseteq DOMAIN RolePermissions
    BY DEF Missing
  <2> QED  BY <2>1, WorkspacesAssumption, FS_Subset
<1>2. /\ N \in [M -> 1..Cardinality(M)] /\ Cardinality(M) \in Nat
      /\ \A a, b \in M : N[a] = N[b] => a = b
  BY <1>1, NumberingIsInjective, FS_CardinalityType
<1>3. given.role \in Nat
  BY DEF WorkspacesInv, Bounds
<1>4. \A n \in M : RoleIds(x)[n] = given.role + N[n]
  BY <1>1 DEF RoleIds
<1>5. \A n \in DOMAIN RolePermissions \ M :
        RoleIds(x)[n] = CHOOSE r \in NamedRoles(x, n) : TRUE
  BY DEF RoleIds
<1>6. /\ \A n \in DOMAIN RolePermissions \ M : NamedRoles(x, n) # {}
      /\ \A n \in M : NamedRoles(x, n) = {}
  BY DEF Missing
<1> HIDE DEF M, N
<1>7. \A n \in M : /\ N[n] \in Nat /\ N[n] > 0 /\ N[n] <= Cardinality(M)
  BY <1>2
<1>8. \A n \in M : /\ RoleIds(x)[n] \in Nat /\ RoleIds(x)[n] > given.role
                   /\ RoleIds(x)[n] <= given.role + Cardinality(M)
  BY <1>2, <1>3, <1>4, <1>7
<1>9. \A a, b \in M : RoleIds(x)[a] = RoleIds(x)[b] => a = b
  BY <1>2, <1>3, <1>4, <1>7
<1>10. \A n \in DOMAIN RolePermissions \ M : RoleIds(x)[n] \in NamedRoles(x, n)
  BY <1>5, <1>6
<1> QED  BY <1>1, <1>6, <1>8, <1>9, <1>10 DEF M

(* The permissions that the roles of workspace x lack.                     *)
LEMMA LackingOf ==
  ASSUME NEW x
  PROVE  /\ \A p \in Lacking(x) : \E n \in DOMAIN RolePermissions :
              \E a \in RolePermissions[n] \ ActionsOf(RoleIds(x)[n]) :
                p = [role |-> RoleIds(x)[n], action |-> a, by |-> started + 1]
         /\ \A n \in DOMAIN RolePermissions :
              \A a \in RolePermissions[n] \ ActionsOf(RoleIds(x)[n]) :
                [role |-> RoleIds(x)[n], action |-> a, by |-> started + 1]
                  \in Lacking(x)
BY DEF Lacking, Permissions

(* The fields of WithAdmin.                                                *)
AdminIn(w, n, x) ==
  /\ w.op = "admin" /\ w.updates = {} /\ w.delete_role = {}
  /\ w.revokes = {} /\ w.clears = {} /\ w.asked = None
  /\ w.user = Row(given.user + 1,
                  [name |-> n, workspace |-> x, active |-> TRUE])
  /\ w.role = [r \in {RoleIds(x)[y] : y \in Missing(x)} |->
                 [name |-> CHOOSE y \in Missing(x) : RoleIds(x)[y] = r,
                  workspace |-> x]]
  /\ w.inserts = Lacking(x)
  /\ w.grants = {<<given.user + 1, RoleIds(x)[PlatformAdmin]>>}

(* The roles that it adds are new ones, named apart.                       *)
LEMMA AdminRoles ==
  ASSUME WorkspacesInv, NEW w, NEW n, NEW x \in Nat, AdminIn(w, n, x)
  PROVE  /\ DOMAIN w.role = {RoleIds(x)[y] : y \in Missing(x)}
         /\ NewRoles(w) = DOMAIN w.role
         /\ \A r \in DOMAIN w.role :
              /\ r \in Nat /\ r > given.role /\ r \notin DOMAIN db.role
              /\ w.role[r] \in RoleRow /\ w.role[r].workspace = x
              /\ w.role[r].name \in Missing(x)
              /\ RoleIds(x)[w.role[r].name] = r
         /\ Counted(DOMAIN w.role, DOMAIN db.role, given.role)
<1> DEFINE M == Missing(x)
           I == {RoleIds(x)[y] : y \in M}
           named(r) == CHOOSE y \in M : RoleIds(x)[y] = r
<1>1. w.role = [r \in I |-> [name |-> named(r), workspace |-> x]]
      /\ w.updates = {}
  BY DEF AdminIn
<1>2. DOMAIN w.role = I /\ NewRoles(w) = I
  BY <1>1 DEF NewRoles
<1>3. /\ DatabaseHolds(db, given)
      /\ given \in [workspace : Nat, user : Nat, role : Nat]
  BY DEF WorkspacesInv, Bounds
<1>4. \A r \in I : /\ named(r) \in M /\ RoleIds(x)[named(r)] = r
  OBVIOUS
<1>5. \A r \in I : /\ r \in Nat /\ r > given.role
                   /\ r <= given.role + Cardinality(M)
  BY RoleIdsOf
<1>6. \A r \in I : r \notin DOMAIN db.role
  BY <1>3, <1>5 DEF DatabaseHolds, Numbered
<1>7. M \subseteq RoleName
  BY RoleIdsOf, WorkspacesAssumption
<1>8. Cardinality(I) = Cardinality(M) /\ Cardinality(M) \in Nat
  <2> DEFINE f == [y \in M |-> RoleIds(x)[y]]
  <2>1. f \in Bijection(M, I)
    <3>1. \A a, b \in M : f[a] = f[b] => a = b
      BY RoleIdsOf
    <3>2. f \in [M -> I] /\ \A r \in I : \E y \in M : f[y] = r
      OBVIOUS
    <3> HIDE DEF f, M, I
    <3> QED  BY <3>1, <3>2 DEF Bijection, Injection, Surjection,
                               IsInjective
  <2>2. ExistsBijection(M, I)
    BY <2>1 DEF ExistsBijection
  <2>3. IsFiniteSet(M)
    BY RoleIdsOf
  <2> HIDE DEF M, I
  <2> QED  BY <2>2, <2>3, FS_Bijection, FS_CardinalityType
<1>9. \A r \in I : /\ w.role[r].name = named(r) /\ w.role[r].workspace = x
                   /\ w.role[r] = [name |-> named(r), workspace |-> x]
  BY <1>1
<1> HIDE DEF I, M, named
<1>10. Counted(I, DOMAIN db.role, given.role)
  <2>1. I \ DOMAIN db.role = I
    BY <1>6
  <2>2. I \subseteq 1..(given.role + Cardinality(I))
    BY <1>3, <1>5, <1>8
  <2> QED  BY <1>8, <2>1, <2>2 DEF Counted
<1>11. \A r \in I : w.role[r] \in RoleRow
  <2> SUFFICES ASSUME NEW r \in I PROVE w.role[r] \in RoleRow
    OBVIOUS
  <2>1. named(r) \in RoleName
    BY <1>4, <1>7
  <2>2. w.role[r] = [name |-> named(r), workspace |-> x]
    BY <1>9
  <2> QED  BY <2>1, <2>2 DEF RoleRow
<1>12. \A r \in I : w.role[r].name \in M /\ RoleIds(x)[w.role[r].name] = r
  BY <1>4, <1>9
<1> QED  BY <1>2, <1>5, <1>6, <1>9, <1>10, <1>11, <1>12 DEF I, M

(* No role gets an action twice.                                           *)
LEMMA AdminPermissions ==
  ASSUME WorkspacesInv, NEW w, NEW n, NEW x \in Nat, AdminIn(w, n, x),
         started \in Nat
  PROVE  NewPermissions(w)
<1>1. DatabaseHolds(db, given) /\ w.inserts = Lacking(x) /\ w.delete_role = {}
  BY DEF WorkspacesInv, AdminIn
<1>2. \A m \in DOMAIN RolePermissions :
        RoleIds(x)[m] \in DOMAIN db.role \cup DOMAIN w.role
  BY RoleIdsOf, AdminRoles DEF NamedRoles, RolesIn
<1>3. \A m \in DOMAIN RolePermissions :
        RoleIds(x)[m] \in DOMAIN After(w).role /\ RoleIds(x)[m] \in Nat
  <2>1. \A r \in DOMAIN db.role \cup DOMAIN w.role : r \in DOMAIN After(w).role
    BY <1>1, AfterRoles
  <2>2. \A r \in DOMAIN db.role \cup DOMAIN w.role : r \in Nat
    BY <1>1, AdminRoles DEF DatabaseHolds, Numbered
  <2> QED  BY <1>2, <2>1, <2>2
<1>4. ASSUME NEW p \in Lacking(x)
      PROVE  /\ p \in PermissionRow /\ p.role \in DOMAIN After(w).role
             /\ p.by = started + 1
             /\ p = [role |-> p.role, action |-> p.action, by |-> p.by]
             /\ p.action \notin ActionsOf(p.role)
  <2>1. PICK m \in DOMAIN RolePermissions :
               \E a \in RolePermissions[m] \ ActionsOf(RoleIds(x)[m]) :
                 p = [role |-> RoleIds(x)[m], action |-> a, by |-> started + 1]
    BY <1>4, LackingOf
  <2>2. PICK a \in RolePermissions[m] \ ActionsOf(RoleIds(x)[m]) :
               p = [role |-> RoleIds(x)[m], action |-> a, by |-> started + 1]
    BY <2>1
  <2>3. a \in Action
    BY <2>2, WorkspacesAssumption
  <2> QED  BY <1>3, <2>2, <2>3 DEF PermissionRow
<1>5. \A q \in db.permission : q.action \in ActionsOf(q.role)
  BY DEF ActionsOf, PermissionsOf
<1> QED  BY <1>1, <1>4, <1>5 DEF NewPermissions

(* An administrator of a workspace that was found or is new: it may do     *)
(* everything, whatever its role lacked.                                   *)
LEMMA AdminDecides ==
  ASSUME WorkspacesInv, started \in Nat, NEW w, NEW n \in UserName,
         NamedUsers(n) = {}, NEW x \in Nat, AdminIn(w, n, x),
         x \in DOMAIN After(w).workspace,
         OneMore(DOMAIN w.workspace, DOMAIN db.workspace, given.workspace),
         \A y \in DOMAIN w.workspace : NamedWorkspaces(w.workspace[y]) = {},
         \A y, z \in DOMAIN w.workspace : y = z,
         w.sign_in \subseteq DOMAIN db.user \cup {given.user + 1}
  PROVE  Decided(w)
<1> DEFINE u == given.user + 1
           row == [name |-> n, workspace |-> x, active |-> TRUE]
           ids == RoleIds(x)
           admin == ids[PlatformAdmin]
<1>1. /\ w.op = "admin" /\ w.updates = {} /\ w.delete_role = {}
      /\ w.revokes = {} /\ w.clears = {} /\ w.asked = None
      /\ w.user = Row(u, row) /\ w.inserts = Lacking(x)
      /\ w.grants = {<<u, admin>>}
  BY DEF AdminIn
<1>2. DatabaseHolds(db, given)
      /\ given \in [workspace : Nat, user : Nat, role : Nat]
  BY DEF WorkspacesInv, Bounds
<1>3. DOMAIN w.user = {u} /\ w.user[u] = row
  BY <1>1 DEF Row
<1>4. /\ u \in Nat /\ u \notin DOMAIN db.user /\ row \in UserRow
      /\ row.name = n /\ row.workspace = x
  BY <1>2 DEF DatabaseHolds, Numbered, UserRow
<1>5. OneMore(DOMAIN w.user, DOMAIN db.user, given.user)
  BY <1>3 DEF OneMore
<1> HIDE DEF u, row
<1>6. UserRows(db, w)
  BY <1>3, <1>4 DEF UserRows
<1>7. RoleRows(db, w) /\ \A r \in NewRoles(w) : r > given.role
  BY <1>1, AdminRoles DEF RoleRows
<1>8. \A r \in DOMAIN w.role :
        r \in DOMAIN After(w).role /\ After(w).role[r] = w.role[r]
  BY <1>1, AdminRoles, AfterRoles
<1>9. NewNames(w)
  <2>1. \A r \in DOMAIN w.role :
          NamedRoles(After(w).role[r].workspace, w.role[r].name) = {}
    BY <1>8, AdminRoles, RoleIdsOf
  <2>2. \A q, r \in DOMAIN w.role : w.role[q].name = w.role[r].name => q = r
    BY AdminRoles
  <2>3. /\ \A v \in DOMAIN w.user : NamedUsers(w.user[v].name) = {}
        /\ \A v, y \in DOMAIN w.user : v = y
    BY <1>3, <1>4
  <2> QED  BY <2>1, <2>2, <2>3 DEF NewNames
<1>10. NewPermissions(w)
  BY AdminPermissions
<1>11. admin \in Nat /\ admin \in DOMAIN After(w).role
       /\ After(w).role[admin].workspace = x
  <2>1. CASE PlatformAdmin \in Missing(x)
    BY <1>8, <2>1, AdminRoles
  <2>2. CASE PlatformAdmin \notin Missing(x)
    <3>1. admin \in NamedRoles(x, PlatformAdmin)
      BY <2>2, RoleIdsOf, WorkspacesAssumption
    <3>2. admin \in DOMAIN db.role /\ db.role[admin].workspace = x
      BY <3>1 DEF NamedRoles, RolesIn
    <3>3. admin \notin DOMAIN w.role /\ admin \in Nat
      BY <1>2, <3>2, AdminRoles DEF DatabaseHolds, Numbered
    <3>4. admin \in DOMAIN After(w).role
      BY <1>1, <3>2, AfterRoles
    <3> QED  BY <3>2, <3>3, <3>4, AfterRoles
  <2> QED  BY <2>1, <2>2
<1> HIDE DEF admin, ids
<1>12. NewGrants(w)
  <2>1. u \in DOMAIN After(w).user /\ WorkspaceWith(db, w, u) = x
    BY <1>3, <1>4, AfterUsers DEF WorkspaceWith
  <2>2. <<u, admin>> \notin db.user_role
    BY <1>2, <1>4 DEF DatabaseHolds, References
  <2>3. /\ <<u, admin>> \in Nat \X Nat
        /\ <<u, admin>>[1] = u /\ <<u, admin>>[2] = admin
    BY <1>4, <1>11
  <2> QED  BY <1>1, <1>11, <2>1, <2>2, <2>3 DEF NewGrants
<1>13. NothingLost(w)
  BY <1>1, <1>3, <1>4, AdminRoles DEF NothingLost
<1>14. \A v \in w.sign_in : v \in DOMAIN db.user \cup DOMAIN w.user
  BY <1>3 DEF u
<1>15. w.updates \subseteq DOMAIN db.role
  BY <1>1
<1>16. Checked(w)
  BY <1>5, <1>6, <1>7, <1>9, <1>10, <1>12, <1>13, <1>14, <1>15, AdminRoles
  DEF Checked
<1>17. "*" \in UserActions(Result(db, w), u)
  <2>1. admin \in RolesOf(Result(db, w), u)
    <3>1. <<u, admin>> \in Result(db, w).user_role
      BY <1>1 DEF Result
    <3>2. <<u, admin>>[1] = u /\ <<u, admin>>[2] = admin
      OBVIOUS
    <3> QED  BY <3>1, <3>2 DEF RolesOf
  <2>2. \E p \in Result(db, w).permission : p.role = admin /\ p.action = "*"
    <3>1. \A p \in db.permission \cup Lacking(x) :
            p \in Result(db, w).permission
      BY <1>1 DEF Result
    <3>2. CASE "*" \in ActionsOf(admin)
      BY <3>1, <3>2 DEF ActionsOf, PermissionsOf
    <3>3. CASE "*" \notin ActionsOf(admin)
      <4> DEFINE p == [role |-> admin, action |-> "*", by |-> started + 1]
      <4>1. "*" \in RolePermissions[PlatformAdmin]
            /\ PlatformAdmin \in DOMAIN RolePermissions
        BY WorkspacesAssumption
      <4>2. p \in Lacking(x)
        BY <3>3, <4>1, LackingOf DEF admin, ids
      <4>3. p.role = admin /\ p.action = "*"
        OBVIOUS
      <4> HIDE DEF p
      <4> QED  BY <3>1, <4>2, <4>3
    <3> QED  BY <3>2, <3>3
  <2> QED  BY <2>1, <2>2 DEF UserActions
<1>18. AdminHolds(db, w)
  BY <1>3, <1>17 DEF AdminHolds
<1>19. AskedHolds(db, w)
  BY <1>1 DEF AskedHolds
<1> QED  BY <1>16, <1>18, <1>19, CheckedDecides

(* The workspace of a new administrator.                                   *)
FoundWorkspace(workspace_name) ==
  IF NamedWorkspaces(workspace_name) = {} THEN given.workspace + 1
  ELSE CHOOSE x \in NamedWorkspaces(workspace_name) : TRUE

(* The same fields, from WithAdmin.                                        *)
LEMMA WithAdminFields ==
  ASSUME NEW n, NEW workspace_name
  PROVE  /\ AdminIn(WithAdmin(n, workspace_name), n,
                    FoundWorkspace(workspace_name))
         /\ WithAdmin(n, workspace_name).workspace
              = IF NamedWorkspaces(workspace_name) = {}
                THEN Row(FoundWorkspace(workspace_name), workspace_name)
                ELSE NoRows
         /\ WithAdmin(n, workspace_name).sign_in = {}
         /\ DOMAIN WithAdmin(n, workspace_name).user = {given.user + 1}
<1> DEFINE x == FoundWorkspace(workspace_name)
           u == given.user + 1
           rows == IF NamedWorkspaces(workspace_name) = {}
                   THEN Row(x, workspace_name) ELSE NoRows
           user == Row(u, [name |-> n, workspace |-> x, active |-> TRUE])
           role == [r \in {RoleIds(x)[y] : y \in Missing(x)} |->
                      [name |-> CHOOSE y \in Missing(x) : RoleIds(x)[y] = r,
                       workspace |-> x]]
           inserts == Lacking(x)
           grants == {<<u, RoleIds(x)[PlatformAdmin]>>}
           w == WithAdmin(n, workspace_name)
<1>1. w = [Nothing EXCEPT
             !.op = "admin", !.workspace = rows, !.user = user, !.role = role,
             !.inserts = inserts, !.grants = grants]
  BY DEF WithAdmin, FoundWorkspace
<1> HIDE DEF w, rows, user, role, inserts, grants
<1>2. /\ w.op = "admin" /\ w.updates = {} /\ w.delete_role = {}
      /\ w.revokes = {} /\ w.clears = {} /\ w.asked = None
      /\ w.workspace = rows /\ w.user = user /\ w.role = role
      /\ w.inserts = inserts /\ w.grants = grants /\ w.sign_in = {}
  BY <1>1 DEF Nothing
<1>3. AdminIn(w, n, x)
  <2>1. /\ w.user = Row(given.user + 1,
                        [name |-> n, workspace |-> x, active |-> TRUE])
        /\ w.inserts = Lacking(x)
        /\ w.grants = {<<given.user + 1, RoleIds(x)[PlatformAdmin]>>}
    BY <1>2 DEF user, inserts, grants
  <2>2. w.role = [r \in {RoleIds(x)[y] : y \in Missing(x)} |->
                    [name |-> CHOOSE y \in Missing(x) : RoleIds(x)[y] = r,
                     workspace |-> x]]
    BY <1>2 DEF role
  <2> QED  BY <1>2, <2>1, <2>2 DEF AdminIn
<1>4. DOMAIN w.user = {u}
  BY <1>2 DEF user, Row
<1> QED  BY <1>2, <1>3, <1>4 DEF w, rows

(* An administrator, signed in or not.                                     *)
LEMMA WithAdminDecides ==
  ASSUME WorkspacesInv, started \in Nat, NEW n \in UserName,
         NEW workspace_name, NamedUsers(n) = {}, NEW w,
         \/ w = WithAdmin(n, workspace_name)
         \/ \E S \in SUBSET (DOMAIN db.user \cup {given.user + 1}) :
              w = [WithAdmin(n, workspace_name) EXCEPT !.sign_in = S]
  PROVE  Decided(w)
<1> DEFINE found == NamedWorkspaces(workspace_name)
           x == FoundWorkspace(workspace_name)
<1>1. /\ AdminIn(w, n, x)
      /\ w.workspace = IF found = {} THEN Row(x, workspace_name) ELSE NoRows
      /\ w.sign_in \subseteq DOMAIN db.user \cup {given.user + 1}
  <2>1. CASE w = WithAdmin(n, workspace_name)
    BY <2>1, WithAdminFields
  <2>2. ASSUME NEW S \in SUBSET (DOMAIN db.user \cup {given.user + 1}),
               w = [WithAdmin(n, workspace_name) EXCEPT !.sign_in = S]
        PROVE  /\ AdminIn(w, n, x)
               /\ w.workspace = WithAdmin(n, workspace_name).workspace
               /\ w.sign_in = S
    <3> DEFINE v == WithAdmin(n, workspace_name)
    <3>1. /\ w.op = v.op /\ w.updates = v.updates
          /\ w.delete_role = v.delete_role /\ w.revokes = v.revokes
          /\ w.clears = v.clears /\ w.asked = v.asked
          /\ w.workspace = v.workspace /\ w.user = v.user
          /\ w.role = v.role /\ w.inserts = v.inserts
          /\ w.grants = v.grants /\ w.sign_in = S
      BY <2>2 DEF WithAdmin, Nothing
    <3>2. AdminIn(v, n, x)
      BY WithAdminFields
    <3> HIDE DEF v, x
    <3>3. AdminIn(w, n, x)
      BY <3>1, <3>2 DEF AdminIn
    <3> QED  BY <3>1, <3>3 DEF v
  <2> QED  BY <2>1, <2>2, WithAdminFields
<1>2. DatabaseHolds(db, given)
      /\ given \in [workspace : Nat, user : Nat, role : Nat]
  BY DEF WorkspacesInv, Bounds
<1>3. CASE found = {}
  <2>1. x = given.workspace + 1 /\ w.workspace = Row(x, workspace_name)
    BY <1>1, <1>3 DEF FoundWorkspace
  <2>2. DOMAIN w.workspace = {x} /\ w.workspace[x] = workspace_name
    BY <2>1 DEF Row
  <2>3. x \in Nat
    BY <1>2, <2>1
  <2>4. x \in DOMAIN After(w).workspace
    BY <2>2, AfterWorkspaces
  <2>5. OneMore(DOMAIN w.workspace, DOMAIN db.workspace, given.workspace)
    BY <2>1, <2>2 DEF OneMore
  <2> HIDE DEF x
  <2> QED  BY <1>1, <1>3, <2>2, <2>3, <2>4, <2>5, AdminDecides
<1>4. CASE found # {}
  <2>1. x \in found /\ w.workspace = NoRows
    BY <1>1, <1>4 DEF FoundWorkspace
  <2>2. x \in DOMAIN db.workspace
    BY <2>1 DEF NamedWorkspaces
  <2>3. x \in Nat
    BY <1>2, <2>2 DEF DatabaseHolds, Numbered
  <2>4. x \in DOMAIN After(w).workspace /\ DOMAIN w.workspace = {}
        /\ OneMore(DOMAIN w.workspace, DOMAIN db.workspace, given.workspace)
    BY <2>1, <2>2, NoWorkspaces
  <2> HIDE DEF x, found
  <2> QED  BY <1>1, <2>3, <2>4, AdminDecides
<1> QED  BY <1>3, <1>4

-----------------------------------------------------------------------------
(* Users and roles are in workspaces that exist.                           *)
LEMMA DatabaseFacts ==
  ASSUME WorkspacesInv
  PROVE  /\ started \in Nat
         /\ \A u \in DOMAIN db.user : WorkspaceOf(u) \in DOMAIN db.workspace
         /\ \A x, r : r \in RolesIn(db, x) =>
              r \in DOMAIN db.role /\ db.role[r].workspace = x
<1>1. started \in Nat
  BY WorkspacesAssumption DEF WorkspacesInv, Bounds
<1>2. References(db)
  BY DEF WorkspacesInv, DatabaseHolds
<1> QED  BY <1>1, <1>2 DEF References, WorkspaceOf, RolesIn

(* A sign-in, which may add the default administrator.                     *)
LEMMA EnsuringDecides ==
  ASSUME WorkspacesInv,
         NEW S \in SUBSET (DOMAIN db.user \cup {given.user + 1}),
         NamedUsers(Admin) # {} => S \subseteq DOMAIN db.user, NEW w,
         w = [EnsureDefaultAdmin EXCEPT !.sign_in = S]
  PROVE  Decided(w)
<1>1. CASE NamedUsers(Admin) = {}
  BY <1>1, DatabaseFacts, WithAdminDecides, WorkspacesAssumption
  DEF EnsureDefaultAdmin
<1>2. CASE NamedUsers(Admin) # {}
  BY <1>2, SessionsDecide DEF EnsureDefaultAdmin
<1> QED  BY <1>1, <1>2

(* Each handler keeps the invariant.                                       *)
LEMMA StartUpKeeps ==
  ASSUME WorkspacesInv, NEW t \in Thread, Idle(t), StartUp(t)
  PROVE  WorkspacesInv'
<1>1. NamedUsers(Admin) = {} /\ Begin(t, WithAdmin(Admin, Default))
  BY DEF StartUp, EnsureDefaultAdmin
<1>2. Decided(WithAdmin(Admin, Default))
  BY <1>1, DatabaseFacts, WithAdminDecides, WorkspacesAssumption
<1> QED  BY <1>1, <1>2, BeginKeeps

LEMMA BootstrapKeeps ==
  ASSUME WorkspacesInv, NEW t \in Thread, Idle(t), NEW n \in UserName,
         NEW workspace_name, Bootstrap(t, n, workspace_name)
  PROVE  WorkspacesInv'
<1> DEFINE v == WithAdmin(n, workspace_name)
           S == DOMAIN v.user
           w == [v EXCEPT !.sign_in = S]
<1>1. DOMAIN db.user = {} /\ Begin(t, w)
  BY DEF Bootstrap
<1>2. NamedUsers(n) = {}
  BY <1>1 DEF NamedUsers
<1>3. S = {given.user + 1}
  BY WithAdminFields
<1>4. S \in SUBSET (DOMAIN db.user \cup {given.user + 1})
  BY <1>3
<1> HIDE DEF S
<1>5. Decided(w)
  BY <1>2, <1>4, DatabaseFacts, WithAdminDecides
<1> QED  BY <1>1, <1>5, BeginKeeps

LEMMA LoginKeeps ==
  ASSUME WorkspacesInv, NEW t \in Thread, Idle(t), NEW n \in UserName,
         Login(t, n)
  PROVE  WorkspacesInv'
<1> DEFINE v == EnsureDefaultAdmin
           users == NamedUsers(n)
                      \cup {u \in DOMAIN v.user : v.user[u].name = n}
<1>1. PICK u \in users : Begin(t, [v EXCEPT !.sign_in = {u}])
  BY DEF Login
<1>2. NamedUsers(Admin) = {} => DOMAIN v.user = {given.user + 1}
  BY WithAdminFields DEF EnsureDefaultAdmin
<1>3. NamedUsers(Admin) # {} => DOMAIN v.user = {}
  BY DEF EnsureDefaultAdmin, Nothing, NoRows
<1>4. NamedUsers(n) \subseteq DOMAIN db.user
  BY DEF NamedUsers
<1>5. /\ {u} \in SUBSET (DOMAIN db.user \cup {given.user + 1})
      /\ NamedUsers(Admin) # {} => {u} \subseteq DOMAIN db.user
  <2> HIDE DEF v
  <2> QED  BY <1>2, <1>3, <1>4
<1>6. Decided([v EXCEPT !.sign_in = {u}])
  BY <1>5, EnsuringDecides
<1> QED  BY <1>1, <1>6, BeginKeeps

LEMMA LogoutKeeps ==
  ASSUME WorkspacesInv, NEW t \in Thread, Idle(t), NEW s, Logout(t, s)
  PROVE  WorkspacesInv'
<1>1. Begin(t, [Nothing EXCEPT !.sign_out = {s}])
  BY DEF Logout
<1>2. Decided([Nothing EXCEPT !.sign_out = {s}])
  BY SessionsDecide
<1> QED  BY <1>1, <1>2, BeginKeeps

LEMMA SignInKeeps ==
  ASSUME WorkspacesInv, NEW t \in Thread, Idle(t), SignInRequest(t)
  PROVE  WorkspacesInv'
BY StartUpKeeps, BootstrapKeeps, LoginKeeps, LogoutKeeps DEF SignInRequest

LEMMA CreateUserKeeps ==
  ASSUME WorkspacesInv, NEW t \in Thread, Idle(t), NEW a \in DOMAIN db.user,
         NEW n \in UserName, NEW roles, CreateUser(t, a, n, roles)
  PROVE  WorkspacesInv'
<1> DEFINE w == [Nothing EXCEPT
                   !.user = Row(given.user + 1,
                                [name |-> n, workspace |-> WorkspaceOf(a),
                                 active |-> TRUE]),
                   !.grants = {given.user + 1} \X roles]
<1>1. Begin(t, w) /\ UsernameFree(WorkspaceOf(a), n)
      /\ ValidRoles(WorkspaceOf(a), roles)
  BY DEF CreateUser
<1>2. Decided(w)
  BY <1>1, CreateUserDecides
<1> QED  BY <1>1, <1>2, BeginKeeps

LEMMA RenameUserKeeps ==
  ASSUME WorkspacesInv, NEW t \in Thread, Idle(t), NEW a, NEW u,
         NEW n \in UserName, RenameUser(t, a, u, n)
  PROVE  WorkspacesInv'
<1> DEFINE row == [name |-> n]
           w == [Nothing EXCEPT !.user = Row(u, row)]
<1>1. Begin(t, w) /\ u \in DOMAIN db.user /\ NamedUsers(n) \subseteq {u}
  BY DEF RenameUser, Colleagues
<1>2. row \in UserColumns /\ row.name = n
  BY DEF UserColumns
<1>3. Decided(w)
  <2> HIDE DEF row
  <2> QED  BY <1>1, <1>2, UserColumnDecides
<1> QED  BY <1>1, <1>3, BeginKeeps

LEMMA ActivateUserKeeps ==
  ASSUME WorkspacesInv, NEW t \in Thread, Idle(t), NEW a, NEW u,
         NEW active \in BOOLEAN, ActivateUser(t, a, u, active)
  PROVE  WorkspacesInv'
<1> DEFINE row == [active |-> active]
           w == [Nothing EXCEPT !.user = Row(u, row)]
<1>1. Begin(t, w) /\ u \in DOMAIN db.user
  BY DEF ActivateUser, Colleagues
<1>2. row \in UserColumns /\ "name" \notin DOMAIN row
  BY DEF UserColumns
<1>3. Decided(w)
  <2> HIDE DEF row
  <2> QED  BY <1>1, <1>2, UserColumnDecides
<1> QED  BY <1>1, <1>3, BeginKeeps

LEMMA ReplaceUserRolesKeeps ==
  ASSUME WorkspacesInv, NEW t \in Thread, Idle(t), NEW a, NEW u, NEW roles,
         ReplaceUserRoles(t, a, u, roles)
  PROVE  WorkspacesInv'
<1> DEFINE w == [Nothing EXCEPT
                   !.grants = {u} \X (roles \ RolesOf(db, u)),
                   !.revokes = {u} \X (RolesOf(db, u) \ roles)]
<1>1. Begin(t, w) /\ u \in DOMAIN db.user /\ WorkspaceOf(u) = WorkspaceOf(a)
      /\ ValidRoles(WorkspaceOf(a), roles)
  BY DEF ReplaceUserRoles, Colleagues, WorkspaceOf
<1>2. Decided(w)
  BY <1>1, ReplaceUserRolesDecides
<1> QED  BY <1>1, <1>2, BeginKeeps

LEMMA UserRequestKeeps ==
  ASSUME WorkspacesInv, NEW t \in Thread, Idle(t), NEW a \in DOMAIN db.user,
         UserRequest(t, a)
  PROVE  WorkspacesInv'
BY CreateUserKeeps, RenameUserKeeps, ActivateUserKeeps, ReplaceUserRolesKeeps
DEF UserRequest

LEMMA CreateRoleKeeps ==
  ASSUME WorkspacesInv, NEW t \in Thread, Idle(t), NEW a \in DOMAIN db.user,
         NEW n \in RoleName, NEW actions \in Asked,
         CreateRole(t, a, n, actions)
  PROVE  WorkspacesInv'
<1> DEFINE w == [Nothing EXCEPT
                   !.role = Row(given.role + 1,
                                [name |-> n, workspace |-> WorkspaceOf(a)]),
                   !.inserts = Permissions(given.role + 1, actions,
                                           started + 1)]
<1>1. Begin(t, w) /\ NamedRoles(WorkspaceOf(a), n) = {}
  BY DEF CreateRole
<1>2. actions \in SUBSET Action
  BY WorkspacesAssumption
<1>3. Decided(w)
  BY <1>1, <1>2, DatabaseFacts, CreateRoleDecides
<1> QED  BY <1>1, <1>3, BeginKeeps

LEMMA RenameRoleKeeps ==
  ASSUME WorkspacesInv, NEW t \in Thread, Idle(t), NEW a, NEW r,
         NEW n \in RoleName, RenameRole(t, a, r, n)
  PROVE  WorkspacesInv'
<1> DEFINE w == [Nothing EXCEPT !.role = Row(r, [name |-> n]), !.updates = {r}]
<1>1. Begin(t, w) /\ r \in RolesIn(db, WorkspaceOf(a))
      /\ NamedRoles(WorkspaceOf(a), n) = {}
  BY DEF RenameRole
<1>2. r \in DOMAIN db.role /\ NamedRoles(db.role[r].workspace, n) = {}
  BY <1>1, DatabaseFacts
<1>3. Decided(w)
  BY <1>2, RenameRoleDecides
<1> QED  BY <1>1, <1>3, BeginKeeps

LEMMA ReplacePermissionsKeeps ==
  ASSUME WorkspacesInv, NEW t \in Thread, Idle(t), NEW a, NEW r,
         NEW actions \in Asked, ReplacePermissions(t, a, r, actions)
  PROVE  WorkspacesInv'
<1> DEFINE w == [Nothing EXCEPT
                   !.clears = Cleared(r),
                   !.inserts = Permissions(r, actions, started + 1),
                   !.asked = [role |-> r, actions |-> actions]]
<1>1. Begin(t, w) /\ r \in RolesIn(db, WorkspaceOf(a))
  BY DEF ReplacePermissions
<1>2. r \in DOMAIN db.role /\ actions \in SUBSET Action
  BY <1>1, DatabaseFacts, WorkspacesAssumption
<1>3. Decided(w)
  BY <1>2, DatabaseFacts, ReplacePermissionsDecides
<1> QED  BY <1>1, <1>3, BeginKeeps

LEMMA DeleteRoleKeeps ==
  ASSUME WorkspacesInv, NEW t \in Thread, Idle(t), NEW a, NEW r,
         DeleteRole(t, a, r)
  PROVE  WorkspacesInv'
<1> DEFINE w == [Nothing EXCEPT
                   !.delete_role = {r}, !.clears = PermissionsOf(r),
                   !.revokes = {g \in db.user_role : g[2] = r}]
<1>1. Begin(t, w) /\ r \in RolesIn(db, WorkspaceOf(a))
  BY DEF DeleteRole
<1>2. Decided(w)
  BY <1>1, DatabaseFacts, DeleteRoleDecides
<1> QED  BY <1>1, <1>2, BeginKeeps

LEMMA RoleRequestKeeps ==
  ASSUME WorkspacesInv, NEW t \in Thread, Idle(t), NEW a \in DOMAIN db.user,
         RoleRequest(t, a)
  PROVE  WorkspacesInv'
BY CreateRoleKeeps, RenameRoleKeeps, ReplacePermissionsKeeps, DeleteRoleKeeps
DEF RoleRequest

LEMMA RenameWorkspaceKeeps ==
  ASSUME WorkspacesInv, NEW t \in Thread, Idle(t), NEW a \in DOMAIN db.user,
         NEW n, RenameWorkspace(t, a, n)
  PROVE  WorkspacesInv'
<1> DEFINE w == [Nothing EXCEPT !.workspace = Row(WorkspaceOf(a), n)]
<1>1. Begin(t, w) /\ NamedWorkspaces(n) = {}
  BY DEF RenameWorkspace
<1>2. Decided(w)
  BY <1>1, DatabaseFacts, WorkspaceDecides
<1> QED  BY <1>1, <1>2, BeginKeeps

-----------------------------------------------------------------------------
LEMMA StepHolds == WorkspacesInv /\ [Next]_vars => WorkspacesInv'
<1> SUFFICES ASSUME WorkspacesInv, [Next]_vars PROVE WorkspacesInv'
  OBVIOUS
<1>1. ASSUME NEW t \in Thread, Idle(t), SignInRequest(t)
      PROVE  WorkspacesInv'
  BY <1>1, SignInKeeps
<1>2. ASSUME NEW t \in Thread, Idle(t), NEW a \in DOMAIN db.user,
             \/ UserRequest(t, a)
             \/ RoleRequest(t, a)
             \/ \E n \in WorkspaceName : RenameWorkspace(t, a, n)
      PROVE  WorkspacesInv'
  BY <1>2, UserRequestKeeps, RoleRequestKeeps, RenameWorkspaceKeeps
<1>3. ASSUME NEW t \in Thread, Commit(t) PROVE WorkspacesInv'
  BY <1>3, CommitKeeps
<1>4. ASSUME NEW t \in Thread, Abort(t) PROVE WorkspacesInv'
  BY <1>4, AbortKeeps
<1>5. ASSUME NEW s \in db.session, Expire(s) PROVE WorkspacesInv'
  BY <1>5, ExpireKeeps
<1>6. CASE UNCHANGED vars
  BY <1>6 DEF vars, WorkspacesInv, Bounds
<1> QED  BY <1>1, <1>2, <1>3, <1>4, <1>5, <1>6 DEF Next

-----------------------------------------------------------------------------
(* The invariant holds throughout.                                         *)
THEOREM WorkspacesHold == Spec => []WorkspacesInv
<1>1. Init => WorkspacesInv
  BY InitHolds
<1>2. WorkspacesInv /\ [Next]_vars => WorkspacesInv'
  BY StepHolds
<1> QED  BY <1>1, <1>2, PTL DEF Spec

(* The constraints of the schema hold whatever overlaps, identifiers are not *)
(* given out twice, and every session is that of a user (db/models.py).    *)
THEOREM WorkspacesTyped == Spec => []TypeOK
<1>1. WorkspacesInv => TypeOK
  <2> SUFFICES ASSUME WorkspacesInv PROVE TypeOK
    OBVIOUS
  <2>1. /\ Rows(db) /\ Unique(db) /\ References(db) /\ Numbered(db, given)
        /\ given \in [workspace : Nat, user : Nat, role : Nat]
        /\ alone \in [Thread -> BOOLEAN] /\ started \in 0..MaxRequests
    BY DEF WorkspacesInv, DatabaseHolds, Bounds
  <2>2. Cardinality({db.user[u].name : u \in DOMAIN db.user})
          = Cardinality(DOMAIN db.user)
    <3> DEFINE U == DOMAIN db.user
               N == {db.user[u].name : u \in U}
               f == [u \in U |-> db.user[u].name]
    <3>1. f \in [U -> N] /\ \A n \in N : \E u \in U : f[u] = n
      OBVIOUS
    <3>2. \A u, v \in U : f[u] = f[v] => u = v
      BY <2>1 DEF Unique, UniqueBy
    <3>3. U \subseteq 1..given.user /\ given.user \in Nat
      BY <2>1 DEF Numbered
    <3> HIDE DEF f, U, N
    <3>4. f \in Bijection(U, N)
      BY <3>1, <3>2 DEF Bijection, Injection, Surjection, IsInjective
    <3>5. ExistsBijection(U, N)
      BY <3>4 DEF ExistsBijection
    <3>6. IsFiniteSet(U)
      <4>1. IsFiniteSet(1..given.user)
        BY <3>3, FS_Interval
      <4> QED  BY <3>3, <4>1, FS_Subset
    <3>7. Cardinality(N) = Cardinality(U)
      BY <3>5, <3>6, FS_Bijection
    <3> QED  BY <3>7 DEF U, N
  <2>3. \A k \in DOMAIN given : DOMAIN db[k] \subseteq 1..given[k]
    BY <2>1 DEF Numbered
  <2>4. \A u \in DOMAIN db.user : /\ db.user[u].name \in UserName
                                  /\ db.user[u].active \in BOOLEAN
    BY <2>1 DEF Rows, UserRow
  <2>5. \A p \in db.permission : p.action \in Action
    BY <2>1 DEF Rows, PermissionRow
  <2> QED  BY <2>1, <2>2, <2>3, <2>4, <2>5 DEF TypeOK, Unique, Rows
<1> QED  BY <1>1, WorkspacesHold, PTL

(* A user only ever has roles of its own workspace, whatever is renamed,   *)
(* deleted or replaced meanwhile (rbac/service.py:53-63).                  *)
THEOREM RolesStayInWorkspace == Spec => []RolesOfOneWorkspace
<1>1. WorkspacesInv => RolesOfOneWorkspace
  BY DEF WorkspacesInv, DatabaseHolds, RolesOfOneWorkspace
<1> QED  BY <1>1, WorkspacesHold, PTL

(* What handlers check is enough: a request that nothing overlapped is not *)
(* refused at its commit, and replaced permissions are those asked for     *)
(* (users/router.py:31-43, rbac/service.py:21-81).                         *)
THEOREM LoneRequestsSucceed == Spec => []LoneRequestSucceeds
<1>1. WorkspacesInv => LoneRequestSucceeds
  <2> SUFFICES ASSUME WorkspacesInv, NEW t \in Thread, req[t] # None, alone[t]
               PROVE  /\ Accepted(req[t])
                      /\ req[t].asked # None =>
                           {p.action : p \in {p \in After(req[t]).permission :
                                                p.role = req[t].asked.role}}
                             = req[t].asked.actions
    BY DEF LoneRequestSucceeds
  <2>1. Lone(db, req[t])
    BY DEF WorkspacesInv
  <2> QED  BY <2>1, AfterIsResult DEF Lone, AskedHolds
<1> QED  BY <1>1, WorkspacesHold, PTL

(* An administrator that a lone start-up, sign-in or bootstrap adds may do *)
(* everything (auth/service.py:58-104).                                    *)
THEOREM NewAdminsCanManage == Spec => NewAdminCanManage
<1> DEFINE Manages ==
      \A t \in Thread :
        req[t] # None /\ alone[t] /\ req[t].op = "admin" /\ Commit(t) =>
          \A u \in DOMAIN req[t].user : "*" \in UserActions(db', u)
<1>1. WorkspacesInv => Manages
  <2> SUFFICES ASSUME WorkspacesInv, NEW t \in Thread, req[t] # None,
                      alone[t], req[t].op = "admin", Commit(t),
                      NEW u \in DOMAIN req[t].user
               PROVE  "*" \in UserActions(db', u)
    OBVIOUS
  <2>1. AdminHolds(db, req[t])
    BY DEF WorkspacesInv, Lone
  <2>2. db' = Result(db, req[t])
    BY AfterIsResult DEF Commit
  <2> QED  BY <2>1, <2>2 DEF AdminHolds
<1>2. WorkspacesInv => [Manages]_vars
  BY <1>1
<1> QED  BY <1>2, WorkspacesHold, PTL DEF NewAdminCanManage

=============================================================================
