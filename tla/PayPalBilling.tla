--------------------------- MODULE PayPalBilling ---------------------------
(***************************************************************************)
(* The subscription row and the invoices of one organization, kept by five *)
(* HTTP handlers that overlap: the PayPal webhook, the verification the    *)
(* billing page asks for on the way back from PayPal, the cancellation,    *)
(* the checkout and the administrator's synchronization of invoices.  A    *)
(* handler reads the row, awaits, and writes the columns it changed;       *)
(* sessions are READ COMMITTED and take no lock.  PayPal delivers an event *)
(* until it is answered 200.                                               *)
(***************************************************************************)
EXTENDS Naturals, FiniteSets

CONSTANTS
    Subs,      \* PayPal subscription ids, one per checkout
    None,      \* no PayPal subscription, no row
    MaxSales,  \* bound: payments of one subscription
    MaxNow,    \* bound: billing periods that pass
    MaxOpen    \* bound: handlers in flight

ASSUME BillingAssumption ==
    /\ MaxSales \in Nat /\ MaxNow \in Nat /\ MaxOpen \in Nat
    /\ None \notin Subs

VARIABLES
    paypal,   \* external: status of each PayPal subscription
    sales,    \* external: payments PayPal has taken for each
    outbox,   \* external: webhook events PayPal still delivers
    sub,      \* the organization's row of subscriptions
    events,   \* rows of paypal_webhook_events
    invoices, \* paypal_invoice_id of the rows of invoices
    granted,  \* ghost: how often each event extended the period
    open,     \* handlers between their read and their commit
    url,      \* PayPal ids the billing page has in its address
    now

rowVars == <<sub, events, invoices, granted>>
vars == <<paypal, sales, outbox, sub, events, invoices, granted, open, url, now>>

Event(t, s, n) == [type |-> t, sub |-> s, sale |-> n]
Sales == [type : {"sale"}, sub : Subs, sale : 1..MaxSales]
Events == [type : {"activated", "cancelled"}, sub : Subs, sale : {0}] \cup Sales
Rows == [pp : Subs \cup {None}, status : {"trialing", "active", "canceled"}, end : Nat]
\* The id under which a payment is invoiced: the sale's, or, for sale 0, that of
\* the subscription, which a verification uses.
InvoiceId(s, n) == [sub |-> s, sale |-> n]
InvoiceIds == [sub : Subs, sale : 0..MaxSales]
Handlers == [kind : {"hook", "cancel", "fetched", "verify", "sync"}, ev : Events,
             row : Rows \cup {None}]

\* An organization starts on its trial period, without a PayPal subscription.
Init ==
    /\ paypal = [s \in Subs |-> "none"] /\ sales = [s \in Subs |-> 0]
    /\ outbox = {} /\ events = {} /\ invoices = {} /\ open = {}
    /\ granted = [e \in Sales |-> 0]
    /\ sub = [pp |-> None, status |-> "trialing", end |-> 1]
    /\ url = {} /\ now = 0

Begin(h) == Cardinality(open) < MaxOpen /\ h \notin open /\ open' = open \cup {h}
End(h) == h \in open /\ open' = open \ {h}

\* Flush of a session: the columns that differ from what was loaded, and the
\* timestamps, which always do.
Save(old, new) ==
    [sub EXCEPT !.pp = IF new.pp = old.pp THEN @ ELSE new.pp,
                !.status = IF new.status = old.status THEN @ ELSE new.status,
                !.end = new.end]
SaveStatus(old, st) == [sub EXCEPT !.status = IF old.status = st THEN @ ELSE st]

(***************************************************************************)
(* Checkout, and what the administrator and PayPal do.                     *)
(***************************************************************************)
\* A PayPal subscription is created; the row learns nothing of it.
CreateCheckoutSession(s) ==
    /\ paypal[s] = "none"
    /\ paypal' = [paypal EXCEPT ![s] = "pending"]
    /\ UNCHANGED <<sales, outbox, rowVars, open, url, now>>

\* The administrator approves or gives up, and is redirected to the page.
Return(s) ==
    /\ paypal[s] = "pending" /\ s \notin url
    /\ paypal' \in {paypal, [paypal EXCEPT ![s] = "approved"]}
    /\ url' \in {url \cup {s}, url}
    /\ UNCHANGED <<sales, outbox, rowVars, open, now>>

Charge(s) ==
    /\ paypal[s] \in {"approved", "active"} /\ sales[s] < MaxSales
    /\ sales' = [sales EXCEPT ![s] = @ + 1]
    /\ paypal' = [paypal EXCEPT ![s] = "active"]
    /\ outbox' = outbox \cup {Event("sale", s, sales[s] + 1)}
         \cup (IF paypal[s] = "approved" THEN {Event("activated", s, 0)} ELSE {})
    /\ UNCHANGED <<rowVars, open, url, now>>

CancelledAtPayPal(s) ==
    /\ paypal[s] = "active"
    /\ paypal' = [paypal EXCEPT ![s] = "cancelled"]
    /\ outbox' = outbox \cup {Event("cancelled", s, 0)}

\* "Manage subscription" on the page opens PayPal's own page.
CancelAtPayPal(s) ==
    /\ CancelledAtPayPal(s)
    /\ UNCHANGED <<sales, rowVars, open, url, now>>

Tick ==
    /\ now < MaxNow /\ now' = now + 1
    /\ UNCHANGED <<paypal, sales, outbox, rowVars, open, url>>

(***************************************************************************)
(* The webhook.                                                            *)
(***************************************************************************)
\* A signature PayPal could not be asked about counts as invalid; it and an
\* event already recorded are answered 200, and PayPal does not send it again.
Dismiss(e) ==
    /\ e \in outbox /\ outbox' = outbox \ {e}
    /\ UNCHANGED <<paypal, sales, rowVars, open, url, now>>

\* Mutant: the event's row is not looked up.
FirstDeliveryUnseen(e) == \A h \in open : h.kind = "hook" => h.ev # e

\* The event id is unique: a second delivery waits for the first at its insert.
FirstDelivery(e) ==
    /\ e \notin events
    /\ \A h \in open : h.kind = "hook" => h.ev # e

ProcessEvent(e) ==
    /\ e \in outbox /\ FirstDelivery(e)
    /\ Begin([kind |-> "hook", ev |-> e, row |-> IF sub.pp = e.sub THEN sub ELSE None])
    /\ UNCHANGED <<paypal, sales, outbox, rowVars, url, now>>

HandleSubscriptionActivated(h) ==
    /\ h.ev.type = "activated"
    /\ sub' = IF h.row = None THEN sub ELSE SaveStatus(h.row, "active")
    /\ UNCHANGED <<invoices, granted>>

HandleSubscriptionCancelled(h) ==
    /\ h.ev.type = "cancelled"
    /\ sub' = IF h.row = None THEN sub ELSE SaveStatus(h.row, "canceled")
    /\ UNCHANGED <<invoices, granted>>

\* The period grows from the end that was read, and the sale is invoiced, unless
\* the synchronization did so.
HandlePaymentCompleted(h) ==
    /\ h.ev.type = "sale"
    /\ IF h.row = None
         THEN UNCHANGED <<sub, invoices, granted>>
         ELSE /\ sub' = Save(h.row, [h.row EXCEPT !.status = "active", !.end = @ + 1])
              /\ invoices' = invoices \cup {InvoiceId(h.ev.sub, h.ev.sale)}
              /\ granted' = [granted EXCEPT ![h.ev] = @ + 1]

\* The handler's writes and the event's row commit together; the answer may
\* be lost, and then PayPal sends the event again.
CommitEvent(h) ==
    /\ End(h) /\ h.kind = "hook"
    /\ events' = events \cup {h.ev}
    /\ outbox' \in {outbox \ {h.ev}, outbox}
    /\ \/ HandleSubscriptionActivated(h)
       \/ HandleSubscriptionCancelled(h)
       \/ HandlePaymentCompleted(h)
    /\ UNCHANGED <<paypal, sales, url, now>>

\* Rolled back and answered 500, or the process died: PayPal keeps the event.
FailEvent(h) ==
    /\ End(h) /\ h.kind = "hook"
    /\ UNCHANGED <<paypal, sales, outbox, rowVars, url, now>>

(***************************************************************************)
(* Verification, asked for by the billing page for the id in its address.  *)
(***************************************************************************)
\* Mutant: a subscription still waiting for approval counts as confirmed.
VerifiablePending(s) == paypal[s] # "none"

Verifiable(s) == paypal[s] \in {"approved", "active"}

\* PayPal says what the subscription is; the handler goes on if it is paid.
VerifyFetch(s) ==
    /\ s \in url /\ Verifiable(s)
    /\ Begin([kind |-> "fetched", ev |-> Event("activated", s, 0), row |-> None])
    /\ UNCHANGED <<paypal, sales, outbox, rowVars, url, now>>

\* Not confirmed, or any error: answered 200 "pending", and the page drops
\* the id from its address as if it had been confirmed.
VerifyPending(s) ==
    /\ s \in url /\ url' = url \ {s}
    /\ UNCHANGED <<paypal, sales, outbox, rowVars, open, now>>

VerifyRead(h) ==
    /\ h \in open /\ h.kind = "fetched"
    /\ open' = (open \ {h}) \cup {[h EXCEPT !.kind = "verify", !.row = sub]}
    /\ UNCHANGED <<paypal, sales, outbox, rowVars, url, now>>

\* Mutant: each verification adds a period instead of setting the end.
VerifyCommitAdds(h) ==
    /\ End(h) /\ h.kind = "verify"
    /\ sub' = Save(h.row, [pp |-> h.ev.sub, status |-> "active", end |-> h.row.end + 1])
    /\ invoices' = invoices \cup {InvoiceId(h.ev.sub, 0)}
    /\ url' = url \ {h.ev.sub}
    /\ UNCHANGED <<paypal, sales, outbox, events, granted, now>>

\* The period is counted from now, and what was paid at PayPal is invoiced under
\* the id of the subscription, whether its sale was or will be invoiced or not.
VerifyCommit(h) ==
    /\ End(h) /\ h.kind = "verify"
    /\ sub' = Save(h.row, [pp |-> h.ev.sub, status |-> "active", end |-> now + 1])
    /\ invoices' = invoices \cup {InvoiceId(h.ev.sub, 0)}
    /\ url' = url \ {h.ev.sub}
    /\ UNCHANGED <<paypal, sales, outbox, events, granted, now>>

(***************************************************************************)
(* Cancellation in the application.                                        *)
(***************************************************************************)
\* PayPal is asked first.  A refusal, also of a subscription that is already
\* cancelled there, ends the handler and changes nothing.
CancelSubscription ==
    /\ sub.pp # None /\ CancelledAtPayPal(sub.pp)
    /\ Begin([kind |-> "cancel", ev |-> Event("cancelled", sub.pp, 0), row |-> sub])
    /\ UNCHANGED <<sales, rowVars, url, now>>

\* The row follows, unless the process dies first.
CancelCommit(h) ==
    /\ End(h) /\ h.kind = "cancel"
    /\ sub' \in {sub, SaveStatus(h.row, "canceled")}
    /\ UNCHANGED <<paypal, sales, outbox, events, invoices, granted, url, now>>

(***************************************************************************)
(* The administrator has the invoices completed from PayPal's records.     *)
(***************************************************************************)
SyncInvoices ==
    /\ sub.pp # None
    /\ Begin([kind |-> "sync", ev |-> Event("activated", sub.pp, 0), row |-> None])
    /\ UNCHANGED <<paypal, sales, outbox, rowVars, url, now>>

\* The payments PayPal listed until one could not be read; a webhook that wrote
\* one of them since undoes them all.
SyncCommit(h) ==
    /\ End(h) /\ h.kind = "sync"
    /\ \E listed \in SUBSET (1..sales[h.ev.sub]) :
         invoices' = invoices \cup {InvoiceId(h.ev.sub, n) : n \in listed}
    /\ UNCHANGED <<paypal, sales, outbox, sub, events, granted, url, now>>

Hook == \/ \E e \in outbox : Dismiss(e) \/ ProcessEvent(e)
        \/ \E h \in open : CommitEvent(h) \/ FailEvent(h)
Verify == \/ \E s \in Subs : VerifyFetch(s) \/ VerifyPending(s)
          \/ \E h \in open : VerifyRead(h) \/ VerifyCommit(h)
Next ==
    \/ \E s \in Subs : \/ CreateCheckoutSession(s) \/ Return(s)
                       \/ Charge(s) \/ CancelAtPayPal(s)
    \/ Tick \/ Hook \/ Verify
    \/ CancelSubscription \/ SyncInvoices
    \/ \E h \in open : CancelCommit(h) \/ SyncCommit(h)

Spec == Init /\ [][Next]_vars

-----------------------------------------------------------------------------
\* The row, the events and the handlers have the shape the code gives them.
TypeOK ==
    /\ paypal \in [Subs -> {"none", "pending", "approved", "active", "cancelled"}]
    /\ sales \in [Subs -> 0..MaxSales] /\ outbox \subseteq Events
    /\ sub \in Rows /\ events \subseteq Events
    /\ invoices \subseteq InvoiceIds
    /\ granted \in [Sales -> Nat] /\ open \subseteq Handlers
    /\ url \subseteq Subs /\ now \in 0..MaxNow

\* However often PayPal sends an event, whatever fails on the way and whatever
\* runs beside it, a payment extends the paid period at most once.
PaymentExtendsOnce == \A e \in Sales : granted[e] <= 1

\* A payment that extended the period has its invoice.  One that did not may
\* have it too, from the synchronization.
ExtendedIsInvoiced == \A e \in Sales : granted[e] > 0 => InvoiceId(e.sub, e.sale) \in invoices

\* What is invoiced was paid: a sale PayPal took, or, once per subscription and
\* perhaps beside its first sale, what a verification found approved.
InvoicedWasPaid ==
    \A i \in invoices : IF i.sale = 0 THEN paypal[i.sub] \in {"approved", "active", "cancelled"}
                                     ELSE i.sale <= sales[i.sub]

\* Together: a sale extends the period once and not without its invoice, and
\* the books hold no more than the payments and one verification.
PaymentsBooked == PaymentExtendsOnce /\ ExtendedIsInvoiced /\ InvoicedWasPaid

\* The organization is served as a paying one only for a PayPal subscription
\* its administrator approved, through every order of redirects and webhooks.
ActiveWasApproved ==
    sub.status = "active" => sub.pp # None /\ paypal[sub.pp] \in {"approved", "active", "cancelled"}

\* The period never ends later than the sales recorded for it, one period each,
\* beyond the trial or the verification it was last counted from.  A first
\* payment is both: its verification gives a period and its sale another.
EndIsPaidFor ==
    sub.end <= now + 1 + Cardinality({e \in Sales : granted[e] > 0})

\* "Create invoice for this payment if not already recorded" (billing_service.py
\* 231, and webhook_handler.py 160 alike): a subscription has no more invoices
\* than payments.  The two look for different ids.
InvoicedOnce ==
    \A s \in Subs : Cardinality({i \in invoices : i.sub = s}) <= IF sales[s] = 0 THEN 1 ELSE sales[s]

\* handle_subscription_activated "Updates subscription status to active in
\* DB": once the event of a paid subscription is recorded as processed and
\* nothing is under way, the organization's row is that subscription's.
ActivatedIsActive ==
    \A s \in Subs : Event("activated", s, 0) \in events /\ open = {} /\ s \notin url
                      => sub.pp # None
=============================================================================
