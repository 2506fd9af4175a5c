---------------------------- MODULE AccountScreens ----------------------------
(***************************************************************************)
(* The pages of one's own account and of what an organization pays.        *)
(***************************************************************************)
EXTENDS ScreenParts

\* The record of the user, kept by the store; it is read again once saved.
SaveProfile == Request("screen", "reload")
ChangePassword == Request("screen", "nothing")
AccountPage == Uncovered(List("page", [profile |-> SaveProfile, password |-> ChangePassword]))

CreateToken == Request("screen", "reload")
RevokeToken == OnRow(Request("none", "reload"))
ApiTokens == Emptied(List("tab", [create |-> CreateToken, revoke |-> RevokeToken]))

SaveProfileEarlier == Request("screen", "reload")
SettingsPage == Uncovered(List("page", [profile |-> SaveProfileEarlier]))
CreateTokenEarlier == Request("screen", "reload")
RevokeTokenEarlier == OnRow(Request("none", "reload"))
ApiTokensEarlier == List("tab", [create |-> CreateTokenEarlier, revoke |-> RevokeTokenEarlier])

\* The plan shown stays that of the organization selected before until the
\* answer comes, and for good if it is an error.
ApplyDiscount == InPart("checkout", Request("dialog", "nothing"))
Checkout == InPart("checkout", Request("dialog", "leaves"))
CheckoutPopup == [discount |-> ApplyDiscount, checkout |-> Checkout]
RequestPlanQuote == InPart("quote", Request("dialog", "nothing"))
PlanOf(requests) == Selected(Uncovered(List("tab", requests)))
InvoicesOf == Selected(List("tab", NoRequest))
BillingPage == {PlanOf(CheckoutPopup), PlanOf([quote |-> RequestPlanQuote]), InvoicesOf}
ReceiptsPage == Selected(List("tab", NoRequest))

Upgrade == OnRow(Request("row", "leaves"))
ManageSubscription == Request("screen", "leaves")
CancelPlan == Request("none", "reload")
BillingEarlier ==
    PlanOf([upgrade |-> Upgrade, manage |-> ManageSubscription, cancel |-> CancelPlan])

AccountScreenSet ==
    BillingPage \cup {AccountPage, ApiTokens, SettingsPage, ApiTokensEarlier, ReceiptsPage,
                      BillingEarlier}
=============================================================================
