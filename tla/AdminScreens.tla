----------------------------- MODULE AdminScreens -----------------------------
(***************************************************************************)
(* The administrator's page: eleven tabs over lists that are state of the  *)
(* one page component, loaded when a tab is opened and every ten seconds.  *)
(***************************************************************************)
EXTENDS ScreenParts

\* loadData and its effect: the spinner replaces the tab except for a silent
\* load, and a failed load leaves what was shown.
AdminTab(requests) == Polled(List("page", requests))

SuspendUser == OnRow(Request("none", "refresh"))
DeleteUser == Locked("delete", Request("screen", "refresh"))
\* The dialog can be closed meanwhile; the answer closes whichever is open.
CreateUser == InDialog("create", Request("screen", "refresh"))
UsersTab == AdminTab([suspend |-> SuspendUser, delete |-> DeleteUser, create |-> CreateUser])

WorkerAction == OnRow(Request("none", "refresh"))
WorkersTab == AdminTab([restart |-> WorkerAction])

ToggleFlag == OnRow(Request("none", "refresh"))
FlagsTab == AdminTab([toggle |-> ToggleFlag])

SavePlan == InDialog("plan", Request("none", "reload"))
DeletePlan == OnRow(Request("none", "reload"))
PlansPart == AdminTab([save |-> SavePlan, delete |-> DeletePlan])
CancelSubscription == OnRow(Request("none", "refresh"))
SubscribersPart == AdminTab([cancel |-> CancelSubscription])

SyncInvoices == Request("screen", "refresh")
InvoicesTab == AdminTab([sync |-> SyncInvoices])

CreateDiscountCode == Request("screen", "refresh")
DeleteDiscountCode == OnRow(Request("none", "refresh"))
DiscountsTab == AdminTab([create |-> CreateDiscountCode, delete |-> DeleteDiscountCode])

\* The form of a plan is a copy taken when editing starts; opening that of
\* another plan is possible while the save runs, whose answer closes it.
EditPlan == InDialog("plan", Request("screen", "refresh"))
EditOrgPlan == InDialog("plan", Request("screen", "refresh"))
CreateEnterprisePlan == Request("screen", "refresh")
ManagementTab == AdminTab([edit |-> EditPlan, enterprise |-> CreateEnterprisePlan])
OrgPlansPart == AdminTab([edit |-> EditOrgPlan])

MetricsTab == AdminTab(NoRequest)
OrganizationsList == AdminTab(NoRequest)  \* "Override Quota" has no handler
SystemTab == AdminTab(NoRequest)
CommissionPart == AdminTab(NoRequest)

AdminScreens ==
    {UsersTab, WorkersTab, FlagsTab, PlansPart, SubscribersPart, InvoicesTab, DiscountsTab,
     ManagementTab, OrgPlansPart, MetricsTab, OrganizationsList, SystemTab, CommissionPart}
=============================================================================
