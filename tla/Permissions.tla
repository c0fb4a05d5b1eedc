---- MODULE Permissions ----
(* The role/permission matrix of organizations/permissions.ts, and the policy
   each pushed entity is held to (sync/entities.ts). *)

Roles == {"owner", "admin", "manager", "member"}

(* Never "owner": an organization has exactly one. *)
AssignableRoles == {"admin", "manager", "member"}

Permission == {"manageBilling", "editCompanyProfile", "deleteOrganization",
               "manageTeam", "changeRoles", "manageTaxonomy", "manageTasks",
               "createProject", "deleteProject"}

ManagerPermissions ==
    {"manageTeam", "manageTaxonomy", "manageTasks", "createProject", "deleteProject"}

Can(role, permission) ==
    \/ role = "owner"
    \/ role = "admin" /\ permission # "deleteOrganization"
    \/ role = "manager" /\ permission \in ManagerPermissions
    \/ role = "member" /\ permission = "createProject"

(* PUSH_ENTITIES: the policy of every entity a client may push. *)
Policy ==
    [project           |-> "project",
     projectLabel      |-> "taxonomy",
     tag               |-> "taxonomy",
     checklistTemplate |-> "taxonomy",
     photo             |-> "member",
     photoComment      |-> "member",
     task              |-> "task",
     taskComment       |-> "member",
     checklist         |-> "checklist",
     checklistItem     |-> "checklistItem",
     report            |-> "member",
     beforeAfterPair   |-> "member",
     page              |-> "member",
     measurement       |-> "member"]

PushEntities == DOMAIN Policy
====
