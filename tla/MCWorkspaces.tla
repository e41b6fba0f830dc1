---------------------------- MODULE MCWorkspaces ----------------------------
(* An instance of Workspaces for TLC: two built-in roles; an empty         *)
(* database, one workspace with an administrator and a user, and two       *)
(* workspaces, as a sign-in leaves them after both names were changed.     *)
EXTENDS Workspaces, TLC

MCRolePermissions ==
  PlatformAdmin :> {"*"}
    @@ "workspace_admin" :> {"users.manage", "roles.manage"}

MCAction == {"*", "users.manage", "roles.manage"}
MCAsked == {{}, {"*", "users.manage"}}

Empty ==
  [workspace |-> NoRows, user |-> NoRows, role |-> NoRows, user_role |-> {},
   permission |-> {}, session |-> {}]

User(n, w) == [name |-> n, workspace |-> w, active |-> TRUE]
Role(n, w) == [name |-> n, workspace |-> w]
BuiltIn(a, b) ==
  Permissions(a, MCRolePermissions[PlatformAdmin], 0)
    \cup Permissions(b, MCRolePermissions["workspace_admin"], 0)

OneWorkspace ==
  [workspace |-> 1 :> "default",
   user |-> 1 :> User("admin", 1) @@ 2 :> User("ann", 1),
   role |-> 1 :> Role(PlatformAdmin, 1) @@ 2 :> Role("workspace_admin", 1),
   user_role |-> {<<1, 1>>, <<2, 2>>}, permission |-> BuiltIn(1, 2),
   session |-> {[user |-> 1, by |-> 0]}]

TwoWorkspaces ==
  [workspace |-> 1 :> "lab" @@ 2 :> "default",
   user |-> 1 :> User("ann", 1) @@ 2 :> User("admin", 2),
   role |-> 1 :> Role(PlatformAdmin, 1) @@ 2 :> Role("workspace_admin", 1)
              @@ 3 :> Role(PlatformAdmin, 2) @@ 4 :> Role("workspace_admin", 2),
   user_role |-> {<<1, 1>>, <<2, 3>>},
   permission |-> BuiltIn(1, 2) \cup BuiltIn(3, 4),
   session |-> {[user |-> 1, by |-> 0]}]

MCStart == {Empty, OneWorkspace, TwoWorkspaces}
=============================================================================
