SPECIFICATION Spec
CONSTANTS
  None = None
  Thread = {t1, t2}
  UserName = {"admin", "ann", "bob"}
  RoleName = {"platform_admin", "workspace_admin", "auditor"}
  WorkspaceName = {"default", "lab"}
  Action <- MCAction
  RolePermissions <- MCRolePermissions
  Asked <- MCAsked
  Start <- MCStart
  MaxRequests = 3
CHECK_DEADLOCK FALSE
INVARIANTS
  TypeOK
  RolesOfOneWorkspace
  LoneRequestSucceeds
PROPERTIES
  NewAdminCanManage
