------------------------------ MODULE OrgScreens ------------------------------
(***************************************************************************)
(* The organization pages: the present one, where the tabs follow the      *)
(* selected organization, and the earlier one, still routed, where they    *)
(* are mounted anew for each.                                              *)
(***************************************************************************)
EXTENDS ScreenParts

CreateOrg == InDialog("create", Request("dialog", "reload"))
RequestQuote == InPart("create", Request("dialog", "nothing"))
CreateOrgModal == [create |-> CreateOrg, quote |-> RequestQuote]

AddMember == InDialog("add", Request("dialog", "reload"))
ChangeRole == OnRow(Request("row", "reload"))
RemoveMember == OnRow(Request("none", "reload"))
MembersTab ==
    Selected(List("tab", [add |-> AddMember, role |-> ChangeRole, remove |-> RemoveMember]))

AnalyticsTab == Selected(Emptied(Uncovered(List("tab", NoRequest))))
AuditTab == Selected(Emptied(Refreshed(List("tab", NoRequest))))

\* The tab is part of the page whose list these requests change; the name that
\* is saved is not shown in it.
SaveOrg == InPart("settings", Request("dialog", "unshown"))
LeaveOrg == InDialog("settings", Request("dialog", "reload"))
DeleteOrg == InDialog("settings", Request("none", "reload"))
SettingsTab == [save |-> SaveOrg, leave |-> LeaveOrg, delete |-> DeleteOrg]

OrganizationsPage == {List("tab", CreateOrgModal), List("tab", SettingsTab)}

\* The earlier pages.
InviteMember == InDialog("invite", Request("dialog", "nothing"))
CreateWorkspace == Request("screen", "reload")
DeleteWorkspace == OnRow(Request("none", "overwrite"))
SaveWorkspace == InPart("settings", Request("dialog", "patch"))
DeleteFromSettings == InPart("settings", Request("dialog", "overwrite"))
WorkspaceSettings == [save |-> SaveWorkspace, delete |-> DeleteFromSettings]
WorkspaceList == [create |-> CreateWorkspace, delete |-> DeleteWorkspace]
WorkspacesPage == {List("tab", WorkspaceList), List("tab", WorkspaceSettings)}

InviteLink == Request("screen", "nothing")
AddByEmail == Request("screen", "patch")
TransferOwnershipTo == OnRow(Request("none", "reload"))
ChangeRoleOf == OnRow(Request("row", "patch"))
RemoveFrom == OnRow(Request("row", "patch"))
MembersView ==
    Remounted(Refreshed(List("tab",
        [add |-> AddByEmail, transfer |-> TransferOwnershipTo, role |-> ChangeRoleOf])))
MembersViewLinks ==
    Remounted(Refreshed(List("tab", [invite |-> InviteLink, remove |-> RemoveFrom])))

SaveQuota == Request("screen", "nothing")
DeleteInGovernance == Request("none", "leaves")
GovernanceView == Remounted(List("tab", [quota |-> SaveQuota, delete |-> DeleteInGovernance]))

RolesView == Remounted(Emptied(List("tab", NoRequest)))
AuditLogs == Remounted(Refreshed(List("tab", NoRequest)))
OrgOverview == Remounted(Emptied(Uncovered(List("tab", [invite |-> InviteMember]))))

OrgScreenSet ==
    OrganizationsPage \cup WorkspacesPage
        \cup {MembersTab, AnalyticsTab, AuditTab, MembersView, MembersViewLinks, GovernanceView,
              RolesView, AuditLogs, OrgOverview}
=============================================================================
