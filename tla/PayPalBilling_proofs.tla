------------------------- MODULE PayPalBilling_proofs -------------------------
(***************************************************************************)
(* For any number of checkouts, payments and overlapping handlers: a sale  *)
(* extends the paid period once and not without its invoice, what is       *)
(* invoiced was paid, the period never ends later than the sales and one   *)
(* verification pay for, and an organization is active only on an approved *)
(* subscription.                                                           *)
(***************************************************************************)
EXTENDS PayPalBilling, FiniteSetTheorems, TLAPS

Paid == {"approved", "active", "cancelled"}

\* PaymentExtendsOnce alone would let an event be processed again, by a second
\* delivery or by a handler that is still under way: a payment has extended the
\* period only if its event is recorded, a webhook under way is of an event
\* that is not, and no two are of the same.
OnceInv ==
    /\ \A e \in Sales : granted[e] <= IF e \in events THEN 1 ELSE 0
    /\ \A h \in open : h.kind = "hook" => h.ev \notin events
    /\ \A g, h \in open : g.kind = "hook" /\ h.kind = "hook" /\ g.ev = h.ev => g = h

\* What ActiveWasApproved rests on: the row, and every handler that has yet to
\* write it, names only approved subscriptions, and the row does not lose the
\* one it names.
ApprovedInv ==
    /\ sub.pp # None => paypal[sub.pp] \in Paid
    /\ sub.status = "active" => sub.pp # None
    /\ \A h \in open :
         /\ h.kind \in {"fetched", "verify"} => paypal[h.ev.sub] \in Paid
         /\ h.kind \in {"hook", "cancel"} /\ h.row # None => sub.pp # None
         /\ h.kind = "verify" => h.row \in Rows /\ (h.row.pp # None => sub.pp # None)

IInv == TypeOK /\ OnceInv /\ ExtendedIsInvoiced /\ ApprovedInv

LEMMA InitInv == Init => IInv
BY BillingAssumption
   DEF Init, IInv, TypeOK, OnceInv, ExtendedIsInvoiced, ApprovedInv, Rows, Sales

\* What a handler writes is a row again, and still names a subscription if the
\* row did.
LEMMA SaveStatusIsRow ==
    ASSUME sub \in Rows, NEW old, NEW st \in {"trialing", "active", "canceled"}
    PROVE  SaveStatus(old, st) \in Rows /\ SaveStatus(old, st).pp = sub.pp
BY DEF Rows, SaveStatus

LEMMA SaveIsRow ==
    ASSUME sub \in Rows, NEW old, NEW new \in Rows
    PROVE  /\ Save(old, new) \in Rows
           /\ Save(old, new).pp = IF new.pp = old.pp THEN sub.pp ELSE new.pp
<1>1. new.pp \in Subs \cup {None} /\ new.status \in {"trialing", "active", "canceled"} /\ new.end \in Nat
  BY DEF Rows
<1> QED  BY <1>1 DEF Rows, Save

\* A step of PayPal, of the administrator or of the clock touches neither the
\* row nor the handlers, and a subscription stays approved.
LEMMA OutsideInv ==
    ASSUME IInv, paypal' \in [Subs -> {"none", "pending", "approved", "active", "cancelled"}],
           \A s \in Subs : paypal[s] \in Paid => paypal'[s] \in Paid,
           sales' \in [Subs -> 0..MaxSales], outbox' \subseteq Events,
           url' \subseteq Subs, now' \in 0..MaxNow, UNCHANGED <<rowVars, open>>
    PROVE  IInv'
<1>1. TypeOK'
  BY DEF IInv, TypeOK, rowVars
<1>2. OnceInv' /\ ExtendedIsInvoiced'
  BY DEF IInv, OnceInv, ExtendedIsInvoiced, rowVars
<1>3. ApprovedInv'
  <2>1. sub \in Rows /\ \A h \in open : h.ev.sub \in Subs
    BY DEF IInv, TypeOK, Handlers, Events, Sales
  <2> QED
    BY <2>1 DEF IInv, ApprovedInv, rowVars, Rows
<1> QED  BY <1>1, <1>2, <1>3 DEF IInv

\* A handler that begins has read a row that is there, of an event nobody
\* handles, and keeps what is said of handlers.
LEMMA BeginInv ==
    ASSUME IInv, NEW h \in Handlers, Begin(h), UNCHANGED <<sales, rowVars, url, now>>,
           paypal' \in [Subs -> {"none", "pending", "approved", "active", "cancelled"}],
           \A s \in Subs : paypal[s] \in Paid => paypal'[s] \in Paid,
           outbox' \subseteq Events,
           h.kind = "hook" => FirstDelivery(h.ev),
           h.kind \in {"fetched", "verify"} => paypal'[h.ev.sub] \in Paid,
           h.kind \in {"hook", "cancel"} /\ h.row # None => sub.pp # None, h.kind # "verify"
    PROVE  IInv'
<1>1. TypeOK'
  BY DEF IInv, TypeOK, rowVars, Begin
<1>2. OnceInv' /\ ExtendedIsInvoiced'
  BY DEF IInv, OnceInv, ExtendedIsInvoiced, rowVars, Begin, FirstDelivery
<1>3. ApprovedInv'
  <2>1. sub \in Rows /\ \A g \in open : g.ev.sub \in Subs
    BY DEF IInv, TypeOK, Handlers, Events, Sales
  <2> QED
    BY <2>1 DEF IInv, ApprovedInv, rowVars, Rows, Begin
<1> QED  BY <1>1, <1>2, <1>3 DEF IInv

\* A webhook that commits records its event with what it wrote.
LEMMA CommitEventInv == ASSUME IInv, NEW h, CommitEvent(h) PROVE IInv'
<1>1. /\ h \in open /\ h.kind = "hook" /\ open' = open \ {h}
      /\ h \in Handlers /\ h.ev \in Events /\ h.row \in Rows \cup {None}
      /\ sub \in Rows /\ h.ev \notin events /\ events' = events \cup {h.ev}
  BY DEF CommitEvent, End, IInv, TypeOK, Handlers, OnceInv
<1>2. /\ sub' \in Rows /\ (sub.pp # None => sub'.pp = sub.pp)
      /\ (sub'.status = "active" => sub'.pp # None)
      /\ (sub'.pp # None => sub'.pp = sub.pp)
  <2>1. CASE sub' = sub
    BY <1>1, <2>1 DEF IInv, ApprovedInv
  <2>2. CASE sub' # sub
    <3>1. h.row \in Rows /\ sub.pp # None
      BY <1>1, <2>2 DEF CommitEvent, HandleSubscriptionActivated,
         HandleSubscriptionCancelled, HandlePaymentCompleted, IInv, ApprovedInv
    <3>2. /\ sub' \in Rows /\ sub'.pp = sub.pp
      <4>1. ASSUME NEW st \in {"active", "canceled"}, sub' = SaveStatus(h.row, st)
            PROVE  sub' \in Rows /\ sub'.pp = sub.pp
        BY <1>1, <4>1, SaveStatusIsRow
      <4>2. ASSUME sub' = Save(h.row, [h.row EXCEPT !.status = "active", !.end = @ + 1])
            PROVE  sub' \in Rows /\ sub'.pp = sub.pp
        <5> DEFINE paid == [h.row EXCEPT !.status = "active", !.end = @ + 1]
        <5>1. h.row.end + 1 \in Nat
          BY <3>1 DEF Rows
        <5>2. paid \in Rows /\ paid.pp = h.row.pp
          BY <3>1, <5>1 DEF Rows
        <5>3. sub' = Save(h.row, paid)
          BY <4>2
        <5> HIDE DEF paid
        <5> QED  BY <1>1, <3>1, <5>2, <5>3, SaveIsRow
      <4> QED
        BY <2>2, <4>1, <4>2 DEF CommitEvent, HandleSubscriptionActivated,
           HandleSubscriptionCancelled, HandlePaymentCompleted
    <3> QED  BY <3>1, <3>2
  <2> QED  BY <2>1, <2>2
<1>3. /\ granted' \in [Sales -> Nat] /\ invoices' \subseteq InvoiceIds /\ invoices \subseteq invoices'
      /\ \A e \in Sales : /\ e # h.ev => granted'[e] = granted[e]
                          /\ e = h.ev => /\ granted'[e] \in {granted[e], granted[e] + 1}
                                         /\ granted'[e] # granted[e] => InvoiceId(e.sub, e.sale) \in invoices'
  <2>1. CASE HandlePaymentCompleted(h)
    <3>1. h.ev \in Sales /\ InvoiceId(h.ev.sub, h.ev.sale) \in InvoiceIds
      BY <1>1, <2>1, BillingAssumption DEF Events, HandlePaymentCompleted, Sales, InvoiceId, InvoiceIds
    <3> QED  BY <1>1, <2>1, <3>1 DEF IInv, TypeOK, HandlePaymentCompleted
  <2>2. CASE UNCHANGED <<invoices, granted>>
    BY <2>2 DEF IInv, TypeOK
  <2> QED
    BY <2>1, <2>2 DEF CommitEvent, HandleSubscriptionActivated, HandleSubscriptionCancelled
<1>4. TypeOK'
  BY <1>1, <1>2, <1>3 DEF IInv, TypeOK, CommitEvent
<1>5. OnceInv'
  <2>1. \A e \in Sales : granted[e] \in Nat /\ granted'[e] <= IF e \in events' THEN 1 ELSE 0
    BY <1>1, <1>3 DEF IInv, TypeOK, OnceInv
  <2> QED  BY <1>1, <2>1 DEF IInv, OnceInv
<1>6. ExtendedIsInvoiced'
  <2>1. \A e \in Sales : granted[e] \in Nat
    BY DEF IInv, TypeOK
  <2> QED  BY <1>1, <1>3, <2>1 DEF IInv, ExtendedIsInvoiced
<1>7. ApprovedInv'
  <2>1. paypal' = paypal  BY DEF CommitEvent
  <2> QED  BY <1>1, <1>2, <2>1 DEF IInv, ApprovedInv
<1> QED  BY <1>4, <1>5, <1>6, <1>7 DEF IInv

\* A handler that ends without writing the row leaves fewer to say things of.
LEMMA EndInv ==
    ASSUME IInv, NEW h, End(h), UNCHANGED <<paypal, sales, outbox, rowVars, url, now>>
    PROVE  IInv'
<1>1. TypeOK'
  BY DEF IInv, TypeOK, rowVars, End
<1>2. OnceInv' /\ ExtendedIsInvoiced'
  BY DEF IInv, OnceInv, ExtendedIsInvoiced, rowVars, End
<1>3. ApprovedInv'
  BY DEF IInv, ApprovedInv, rowVars, End
<1> QED  BY <1>1, <1>2, <1>3 DEF IInv

\* A verification reads the row after PayPal has confirmed the subscription.
LEMMA VerifyReadInv == ASSUME IInv, NEW h, VerifyRead(h) PROVE IInv'
<1> DEFINE g == [h EXCEPT !.kind = "verify", !.row = sub]
<1>1. /\ h \in open /\ h.kind = "fetched" /\ open' = (open \ {h}) \cup {g}
      /\ h \in Handlers /\ sub \in Rows /\ UNCHANGED <<paypal, sales, outbox, rowVars, url, now>>
  BY DEF VerifyRead, IInv, TypeOK
<1>2. g \in Handlers /\ g.kind = "verify" /\ g.ev = h.ev /\ g.row = sub
  BY <1>1 DEF Handlers
<1> HIDE DEF g
<1>3. TypeOK'
  BY <1>1, <1>2 DEF IInv, TypeOK, rowVars
<1>4. OnceInv' /\ ExtendedIsInvoiced'
  BY <1>1, <1>2 DEF IInv, OnceInv, ExtendedIsInvoiced, rowVars
<1>5. ApprovedInv'
  BY <1>1, <1>2 DEF IInv, ApprovedInv, rowVars
<1> QED  BY <1>3, <1>4, <1>5 DEF IInv

\* A verification names an approved subscription, whatever it overwrites.
LEMMA VerifyCommitInv == ASSUME IInv, NEW h, VerifyCommit(h) PROVE IInv'
<1> DEFINE new == [pp |-> h.ev.sub, status |-> "active", end |-> now + 1]
<1>1. /\ h \in open /\ h.kind = "verify" /\ open' = open \ {h}
      /\ h \in Handlers /\ h.ev.sub \in Subs /\ sub \in Rows /\ now + 1 \in Nat
      /\ paypal[h.ev.sub] \in Paid
      /\ UNCHANGED <<paypal, sales, outbox, events, granted, now>>
  BY BillingAssumption
     DEF VerifyCommit, End, IInv, TypeOK, Handlers, Events, Sales, ApprovedInv
<1>2. new \in Rows /\ new.pp = h.ev.sub
  BY <1>1 DEF Rows
<1>3. sub' = Save(h.row, new)
  BY DEF VerifyCommit
<1> HIDE DEF new
<1>4. h.row \in Rows /\ (h.row.pp # None => sub.pp # None)
  BY <1>1 DEF IInv, ApprovedInv
<1>5. /\ sub' \in Rows /\ sub'.pp \in {sub.pp, h.ev.sub} /\ sub'.pp # None
  BY <1>1, <1>2, <1>3, <1>4, SaveIsRow, BillingAssumption
<1>6. TypeOK'
  <2>1. InvoiceId(h.ev.sub, 0) \in InvoiceIds
    BY <1>1, BillingAssumption DEF InvoiceId, InvoiceIds
  <2>2. invoices' \subseteq InvoiceIds /\ url' \subseteq Subs
    BY <2>1 DEF IInv, TypeOK, VerifyCommit
  <2> QED  BY <1>1, <1>5, <2>2 DEF IInv, TypeOK
<1>7. OnceInv' /\ ExtendedIsInvoiced'
  <2>1. invoices \subseteq invoices'
    BY DEF VerifyCommit
  <2> QED  BY <1>1, <2>1 DEF IInv, OnceInv, ExtendedIsInvoiced
<1>8. ApprovedInv'
  BY <1>1, <1>5 DEF IInv, ApprovedInv
<1> QED  BY <1>6, <1>7, <1>8 DEF IInv

\* The cancellation writes the status alone, or nothing.
LEMMA CancelCommitInv == ASSUME IInv, NEW h, CancelCommit(h) PROVE IInv'
<1>1. /\ h \in open /\ h.kind = "cancel" /\ open' = open \ {h}
      /\ h \in Handlers /\ sub \in Rows
      /\ UNCHANGED <<paypal, sales, outbox, events, invoices, granted, url, now>>
  BY DEF CancelCommit, End, IInv, TypeOK
<1>2. sub' \in Rows /\ sub'.pp = sub.pp /\ sub'.status \in {sub.status, "canceled"}
  BY <1>1 DEF CancelCommit, SaveStatus, Rows
<1>3. TypeOK'
  BY <1>1, <1>2 DEF IInv, TypeOK
<1>4. OnceInv' /\ ExtendedIsInvoiced'
  BY <1>1 DEF IInv, OnceInv, ExtendedIsInvoiced
<1>5. ApprovedInv'
  BY <1>1, <1>2 DEF IInv, ApprovedInv
<1> QED  BY <1>3, <1>4, <1>5 DEF IInv

\* The synchronization adds invoices of payments PayPal took, and writes nothing else.
LEMMA SyncCommitInv == ASSUME IInv, NEW h, SyncCommit(h) PROVE IInv'
<1>1. /\ h \in open /\ open' = open \ {h} /\ h.ev.sub \in Subs
      /\ UNCHANGED <<paypal, sales, outbox, sub, events, granted, url, now>>
  BY DEF SyncCommit, End, IInv, TypeOK, Handlers, Events, Sales
<1>2. invoices \subseteq invoices' /\ invoices' \subseteq InvoiceIds
  <2>1. sales[h.ev.sub] \in 0..MaxSales
    BY <1>1 DEF IInv, TypeOK
  <2>2. \A n \in 1..sales[h.ev.sub] : InvoiceId(h.ev.sub, n) \in InvoiceIds
    BY <1>1, <2>1, BillingAssumption DEF InvoiceId, InvoiceIds
  <2> QED  BY <2>2 DEF SyncCommit, IInv, TypeOK
<1>3. TypeOK'
  BY <1>1, <1>2 DEF IInv, TypeOK
<1>4. OnceInv' /\ ExtendedIsInvoiced'
  BY <1>1, <1>2 DEF IInv, OnceInv, ExtendedIsInvoiced
<1>5. ApprovedInv'
  BY <1>1 DEF IInv, ApprovedInv
<1> QED  BY <1>3, <1>4, <1>5 DEF IInv

\* Every event the model names is one of Events.
LEMMA EventTypes ==
    \A s \in Subs : Event("activated", s, 0) \in Events /\ Event("cancelled", s, 0) \in Events
BY DEF Event, Events

LEMMA StepInv == IInv /\ [Next]_vars => IInv'
<1> SUFFICES ASSUME IInv, [Next]_vars PROVE IInv'
  OBVIOUS
<1> USE EventTypes
<1>1. ASSUME NEW s \in Subs, CreateCheckoutSession(s) \/ Return(s) \/ CancelAtPayPal(s)
      PROVE  IInv'
  BY <1>1, OutsideInv DEF CreateCheckoutSession, Return, CancelAtPayPal, CancelledAtPayPal,
     IInv, TypeOK, Paid
<1>2. ASSUME NEW s \in Subs, Charge(s) PROVE IInv'
  <2>1. sales[s] + 1 \in 1..MaxSales /\ sales[s] + 1 \in 0..MaxSales
    BY <1>2, BillingAssumption DEF Charge, IInv, TypeOK
  <2>2. Event("sale", s, sales[s] + 1) \in Events
    BY <2>1 DEF Event, Events, Sales
  <2> QED
    BY <1>2, <2>1, <2>2, OutsideInv DEF Charge, IInv, TypeOK, Paid
<1>3. CASE Tick
  BY <1>3, OutsideInv, BillingAssumption DEF Tick, IInv, TypeOK
<1>4. ASSUME NEW e, Dismiss(e) PROVE IInv'
  BY <1>4, OutsideInv DEF Dismiss, IInv, TypeOK
<1>5. ASSUME NEW e, ProcessEvent(e) PROVE IInv'
  <2> DEFINE h == [kind |-> "hook", ev |-> e, row |-> IF sub.pp = e.sub THEN sub ELSE None]
  <2>1. e \in Events /\ e.sub \in Subs
    BY <1>5 DEF ProcessEvent, IInv, TypeOK, Events, Sales
  <2>2. h \in Handlers /\ (h.row # None => sub.pp # None)
    BY <2>1, BillingAssumption DEF Handlers, IInv, TypeOK
  <2> QED
    BY <1>5, <2>2, BeginInv DEF ProcessEvent, IInv, TypeOK
<1>6. ASSUME NEW s \in Subs, VerifyFetch(s) PROVE IInv'
  <2> DEFINE h == [kind |-> "fetched", ev |-> Event("activated", s, 0), row |-> None]
  <2>1. h \in Handlers /\ h.ev.sub = s
    BY DEF Handlers, Event
  <2>2. paypal[s] \in Paid
    BY <1>6 DEF VerifyFetch, Verifiable, Paid
  <2> QED
    BY <1>6, <2>1, <2>2, BeginInv DEF VerifyFetch, IInv, TypeOK
<1>7. ASSUME NEW s \in Subs, VerifyPending(s) PROVE IInv'
  BY <1>7, OutsideInv DEF VerifyPending, IInv, TypeOK
<1>8. CASE CancelSubscription
  <2> DEFINE h == [kind |-> "cancel", ev |-> Event("cancelled", sub.pp, 0), row |-> sub]
  <2>1. sub.pp \in Subs /\ sub.pp # None
    BY <1>8 DEF CancelSubscription, IInv, TypeOK, Rows
  <2>2. h \in Handlers
    BY <2>1 DEF Handlers, IInv, TypeOK
  <2> QED
    BY <1>8, <2>1, <2>2, BeginInv
       DEF CancelSubscription, CancelledAtPayPal, IInv, TypeOK, Paid
<1>9. ASSUME NEW h \in open, FailEvent(h) PROVE IInv'
  BY <1>9, EndInv DEF FailEvent
<1>11. CASE SyncInvoices
  <2> DEFINE h == [kind |-> "sync", ev |-> Event("activated", sub.pp, 0), row |-> None]
  <2>1. sub.pp \in Subs
    BY <1>11 DEF SyncInvoices, IInv, TypeOK, Rows
  <2>2. h \in Handlers
    BY <2>1 DEF Handlers
  <2> QED
    BY <1>11, <2>2, BeginInv DEF SyncInvoices, IInv, TypeOK
<1>10. CASE UNCHANGED vars
  BY <1>10, OutsideInv DEF vars, rowVars, IInv, TypeOK
<1> QED
  BY <1>1, <1>2, <1>3, <1>4, <1>5, <1>6, <1>7, <1>8, <1>9, <1>10, <1>11, CommitEventInv,
     VerifyReadInv, VerifyCommitInv, CancelCommitInv, SyncCommitInv DEF Next, Hook, Verify

\* The strengthened invariant holds of every reachable state.
\* What handlers still may write agrees with the events that were processed and
\* the subscriptions that were approved.
THEOREM Invariant == Spec => []IInv
BY InitInv, StepInv, PTL DEF Spec

\* The row, the events and the handlers keep the shape the code gives them.
THEOREM TypeCorrect == Spec => []TypeOK
<1>1. IInv => TypeOK  BY DEF IInv
<1> QED  BY <1>1, Invariant, PTL

\* A payment extends the paid period at most once, for any number of
\* deliveries, failures and overlapping handlers (webhook_handler.py 17-75).
THEOREM ExtendsOnce == Spec => []PaymentExtendsOnce
<1>1. IInv => PaymentExtendsOnce
  BY DEF IInv, TypeOK, OnceInv, PaymentExtendsOnce
<1> QED  BY <1>1, Invariant, PTL

\* What extended the period is invoiced (webhook_handler.py 132-181): the
\* extension is never committed alone.
THEOREM Invoiced == Spec => []ExtendedIsInvoiced
<1>1. IInv => ExtendedIsInvoiced  BY DEF IInv
<1> QED  BY <1>1, Invariant, PTL

-----------------------------------------------------------------------------
\* The books.  InvoicedWasPaid alone is not inductive: the sales that are still
\* to be delivered, or being handled, were taken by PayPal.

BooksInv ==
    /\ InvoicedWasPaid
    /\ \A e \in outbox : e.type = "sale" => e.sale <= sales[e.sub]
    /\ \A h \in open : h.kind = "hook" /\ h.ev.type = "sale" => h.ev.sale <= sales[h.ev.sub]

LEMMA InitBooks == Init => BooksInv
BY DEF Init, BooksInv, InvoicedWasPaid

\* A step that invoices nothing: PayPal may take payments and send events, and
\* webhooks begin for what it has sent.
LEMMA BooksFrame ==
    ASSUME IInv, BooksInv, sales' \in [Subs -> Nat], invoices' = invoices,
           \A s \in Subs : sales[s] <= sales'[s] /\ (paypal[s] \in Paid => paypal'[s] \in Paid),
           \A e \in outbox' : e \in outbox \/ (e.type = "sale" => e.sale <= sales'[e.sub]),
           \A h \in open' : h \in open \/ h.kind # "hook" \/ h.ev \in outbox
    PROVE  BooksInv'
<1>1. /\ \A e \in Events : e.sub \in Subs /\ e.sale \in Nat
      /\ \A i \in invoices : i.sub \in Subs /\ i.sale \in Nat
      /\ \A h \in open : h.ev \in Events
      /\ outbox \subseteq Events /\ \A s \in Subs : sales[s] \in Nat /\ sales'[s] \in Nat
  BY BillingAssumption DEF IInv, TypeOK, Events, Sales, Handlers, InvoiceIds
<1>2. InvoicedWasPaid'
  BY <1>1 DEF BooksInv, InvoicedWasPaid, Paid
<1>3. ASSUME NEW e \in outbox, e.type = "sale" PROVE e.sale <= sales'[e.sub]
  <2>1. e.sale <= sales[e.sub] /\ sales[e.sub] <= sales'[e.sub] /\ e.sub \in Subs /\ e.sale \in Nat
    BY <1>1, <1>3 DEF BooksInv
  <2> QED  BY <1>1, <2>1
<1>4. ASSUME NEW h \in open, h.kind = "hook", h.ev.type = "sale" PROVE h.ev.sale <= sales'[h.ev.sub]
  <2>1. h.ev.sale <= sales[h.ev.sub] /\ h.ev.sub \in Subs /\ h.ev.sale \in Nat
    BY <1>1, <1>4 DEF BooksInv
  <2>2. sales[h.ev.sub] <= sales'[h.ev.sub]
    BY <2>1
  <2> QED  BY <1>1, <2>1, <2>2
<1> QED  BY <1>2, <1>3, <1>4 DEF BooksInv

\* A step of the handlers that invoices what was paid.
LEMMA BooksWrite ==
    ASSUME IInv, BooksInv, UNCHANGED <<paypal, sales>>, outbox' \subseteq outbox, open' \subseteq open,
           \A i \in invoices' : i \in invoices \/ (i.sale = 0 /\ paypal[i.sub] \in Paid)
                                 \/ (i.sale # 0 /\ i.sale <= sales[i.sub])
    PROVE  BooksInv'
BY DEF BooksInv, InvoicedWasPaid, Paid

LEMMA StepBooks == IInv /\ BooksInv /\ [Next]_vars => BooksInv'
<1> SUFFICES ASSUME IInv, BooksInv, [Next]_vars PROVE BooksInv'
  OBVIOUS
<1>0. sales \in [Subs -> Nat] /\ outbox \subseteq Events
  BY DEF IInv, TypeOK
<1>1. ASSUME NEW s \in Subs,
             CreateCheckoutSession(s) \/ Return(s) \/ CancelAtPayPal(s) \/ VerifyFetch(s) \/ VerifyPending(s)
      PROVE  BooksInv'
  <2>1. UNCHANGED <<sales, invoices>>
    BY <1>1 DEF CreateCheckoutSession, Return, CancelAtPayPal, VerifyFetch, VerifyPending, rowVars
  <2>2. \A t \in Subs : paypal[t] \in Paid => paypal'[t] \in Paid
    BY <1>1 DEF CreateCheckoutSession, Return, CancelAtPayPal, CancelledAtPayPal, VerifyFetch,
       VerifyPending, IInv, TypeOK, Paid
  <2>3. \A e \in outbox' : e \in outbox \/ e.type # "sale"
    BY <1>1 DEF CreateCheckoutSession, Return, CancelAtPayPal, CancelledAtPayPal, VerifyFetch,
       VerifyPending, Event
  <2>4. \A h \in open' : h \in open \/ h.kind # "hook"
    BY <1>1 DEF CreateCheckoutSession, Return, CancelAtPayPal, VerifyFetch, VerifyPending, Begin
  <2> QED  BY <1>0, <2>1, <2>2, <2>3, <2>4, BooksFrame
<1>2. ASSUME NEW s \in Subs, Charge(s) PROVE BooksInv'
  <2>1. /\ sales' = [sales EXCEPT ![s] = @ + 1] /\ paypal' = [paypal EXCEPT ![s] = "active"]
        /\ UNCHANGED <<invoices, open>>
        /\ \A e \in outbox' : e \in outbox \/ e.type # "sale" \/ e = Event("sale", s, sales[s] + 1)
    BY <1>2 DEF Charge, Event, rowVars
  <2>2. /\ sales' \in [Subs -> Nat] /\ sales'[s] = sales[s] + 1
        /\ \A t \in Subs : sales[t] <= sales'[t]
    BY <1>0, <2>1
  <2>3. \A t \in Subs : paypal[t] \in Paid => paypal'[t] \in Paid
    BY <2>1 DEF Paid, IInv, TypeOK
  <2>4. \A e \in outbox' : e \in outbox \/ (e.type = "sale" => e.sale <= sales'[e.sub])
    BY <1>0, <2>1, <2>2 DEF Event
  <2> QED  BY <2>1, <2>2, <2>3, <2>4, BooksFrame
<1>3. ASSUME UNCHANGED <<paypal, sales, invoices>>, outbox' \subseteq outbox,
             \A h \in open' : h \in open \/ h.kind # "hook" \/ h.ev \in outbox
      PROVE  BooksInv'
  BY <1>0, <1>3, BooksFrame
<1>4. CASE Tick \/ (\E e \in outbox : Dismiss(e)) \/ UNCHANGED vars
  BY <1>3, <1>4 DEF Tick, Dismiss, vars, rowVars
<1>5. ASSUME NEW e \in outbox, ProcessEvent(e) PROVE BooksInv'
  BY <1>3, <1>5 DEF ProcessEvent, Begin, rowVars
<1>6. ASSUME NEW h \in open, VerifyRead(h) PROVE BooksInv'
  <2> DEFINE g == [h EXCEPT !.kind = "verify", !.row = sub]
  <2>1. g.kind = "verify" /\ open' = (open \ {h}) \cup {g}
    BY <1>6 DEF VerifyRead, IInv, TypeOK, Handlers
  <2> HIDE DEF g
  <2> QED  BY <1>3, <1>6, <2>1 DEF VerifyRead, rowVars
<1>7. CASE SyncInvoices
  BY <1>3, <1>7 DEF SyncInvoices, Begin, rowVars
<1>8. CASE CancelSubscription
  <2>1. sub.pp \in Subs /\ \A t \in Subs : paypal[t] \in Paid => paypal'[t] \in Paid
    BY <1>8 DEF CancelSubscription, CancelledAtPayPal, IInv, TypeOK, Rows, Paid
  <2>2. \A e \in outbox' : e \in outbox \/ e.type # "sale"
    BY <1>8 DEF CancelSubscription, CancelledAtPayPal, Event
  <2>3. /\ UNCHANGED <<sales, invoices>>
        /\ \A h \in open' : h \in open \/ h.kind # "hook"
    BY <1>8 DEF CancelSubscription, Begin, rowVars
  <2> QED  BY <1>0, <2>1, <2>2, <2>3, BooksFrame
<1>9. ASSUME NEW h \in open, FailEvent(h) \/ CancelCommit(h) PROVE BooksInv'
  BY <1>3, <1>9 DEF FailEvent, CancelCommit, End, rowVars
<1>10. ASSUME NEW h \in open, CommitEvent(h) PROVE BooksInv'
  <2>1. /\ UNCHANGED <<paypal, sales>> /\ outbox' \subseteq outbox /\ open' \subseteq open /\ h.kind = "hook"
    BY <1>10 DEF CommitEvent, End
  <2>2. CASE HandlePaymentCompleted(h)
    <3>1. h.ev.type = "sale" /\ invoices' \subseteq invoices \cup {InvoiceId(h.ev.sub, h.ev.sale)}
      BY <2>2 DEF HandlePaymentCompleted
    <3>2. h.ev.sale <= sales[h.ev.sub] /\ h.ev.sale # 0
      BY <2>1, <3>1 DEF BooksInv, IInv, TypeOK, Handlers, Events, Sales
    <3> QED  BY <2>1, <3>1, <3>2, BooksWrite DEF InvoiceId
  <2>3. CASE invoices' = invoices
    BY <2>1, <2>3, BooksWrite
  <2> QED
    BY <1>10, <2>2, <2>3 DEF CommitEvent, HandleSubscriptionActivated, HandleSubscriptionCancelled
<1>11. ASSUME NEW h \in open, VerifyCommit(h) PROVE BooksInv'
  <2>1. /\ UNCHANGED <<paypal, sales, outbox>> /\ open' \subseteq open /\ h.kind = "verify"
        /\ invoices' = invoices \cup {InvoiceId(h.ev.sub, 0)}
    BY <1>11 DEF VerifyCommit, End
  <2>2. paypal[h.ev.sub] \in Paid
    BY <2>1 DEF IInv, ApprovedInv
  <2> QED  BY <2>1, <2>2, BooksWrite DEF InvoiceId
<1>12. ASSUME NEW h \in open, SyncCommit(h) PROVE BooksInv'
  <2>0. h.ev.sub \in Subs
    BY DEF IInv, TypeOK, Handlers, Events, Sales
  <2>1. PICK listed \in SUBSET (1..sales[h.ev.sub]) :
           invoices' = invoices \cup {InvoiceId(h.ev.sub, n) : n \in listed}
    BY <1>12 DEF SyncCommit
  <2>2. sales[h.ev.sub] \in Nat
    BY <1>0, <2>0
  <2>3. \A i \in invoices' : i \in invoices \/ (i.sale # 0 /\ i.sale <= sales[i.sub])
    <3>1. \A n \in listed : n \in Nat /\ n # 0 /\ n <= sales[h.ev.sub]
      BY <2>1, <2>2
    <3> QED  BY <2>1, <3>1 DEF InvoiceId
  <2>4. UNCHANGED <<paypal, sales, outbox>> /\ open' \subseteq open
    BY <1>12 DEF SyncCommit, End
  <2> QED  BY <2>3, <2>4, BooksWrite
<1> QED
  BY <1>1, <1>2, <1>4, <1>5, <1>6, <1>7, <1>8, <1>9, <1>10, <1>11, <1>12 DEF Next, Hook, Verify

\* What is invoiced was paid at PayPal, or is the one invoice of a verification,
\* whatever webhooks, verifications and synchronizations overlap (admin.py
\* 315-384, billing_service.py 231-248).
THEOREM BooksHold == Spec => []InvoicedWasPaid
<1>1. BooksInv => InvoicedWasPaid  BY DEF BooksInv
<1> QED  BY <1>1, InitBooks, StepBooks, Invariant, PTL DEF Spec

\* A sale extends the period once and not without its invoice, and the books
\* hold no more than the payments and one verification of each subscription.
THEOREM Booked == Spec => []PaymentsBooked
BY ExtendsOnce, Invoiced, BooksHold, PTL DEF PaymentsBooked

\* An active organization has a PayPal subscription its administrator approved
\* (billing_service.py 177-254), whatever handlers overlapped on the way.
THEOREM ActiveApproved == Spec => []ActiveWasApproved
<1>1. IInv => ActiveWasApproved
  BY DEF IInv, ApprovedInv, ActiveWasApproved, Paid
<1> QED  BY <1>1, Invariant, PTL

-----------------------------------------------------------------------------
\* The end of the period.  EndIsPaidFor alone is not inductive: a handler adds
\* a period to the end it read, however long ago.  What it read was paid for
\* then, and its own payment does not count yet.

Counted == {e \in Sales : granted[e] > 0}
PaidUntil == now + 1 + Cardinality(Counted)

PaidInv ==
    /\ IsFiniteSet(Counted)
    /\ sub.end <= PaidUntil
    /\ \A h \in open : h.row # None => h.row.end <= PaidUntil

LEMMA InitPaid == Init => PaidInv
<1> SUFFICES ASSUME Init PROVE PaidInv
  OBVIOUS
<1>1. Counted = {}
  BY DEF Init, Counted
<1>2. IsFiniteSet(Counted) /\ Cardinality(Counted) = 0
  BY <1>1, FS_EmptySet
<1>3. open = {} /\ now = 0 /\ sub.end = 1
  BY DEF Init
<1> QED  BY <1>2, <1>3 DEF PaidInv, PaidUntil

\* Time and payments only push the bound out.
LEMMA PaidGrows ==
    ASSUME IInv, PaidInv, now' \in Nat, now <= now', granted' = granted
    PROVE  /\ Counted' = Counted /\ PaidUntil \in Nat /\ PaidUntil' \in Nat
           /\ PaidUntil <= PaidUntil'
<1>1. Counted' = Counted
  BY DEF Counted
<1>2. Cardinality(Counted) \in Nat /\ now \in Nat
  BY FS_CardinalityType DEF PaidInv, IInv, TypeOK
<1> QED  BY <1>1, <1>2 DEF PaidUntil

\* What a handler has read, or reads now, was paid for.
LEMMA ReadsPaid ==
    ASSUME IInv, PaidInv, now' \in Nat, now <= now', granted' = granted, sub' = sub,
           \A h \in open' : h \in open \/ h.row = None \/ h.row = sub \/ (\E g \in open : h.row = g.row),
           \A h \in open' : h.row \in Rows \cup {None}
    PROVE  PaidInv'
<1>1. Counted' = Counted /\ PaidUntil \in Nat /\ PaidUntil' \in Nat /\ PaidUntil <= PaidUntil'
  BY PaidGrows
<1>2. sub \in Rows /\ sub.end \in Nat
  BY DEF IInv, TypeOK, Rows
<1>3. ASSUME NEW h \in open', h.row # None PROVE h.row.end <= PaidUntil'
  <2>1. h.row.end \in Nat
    BY <1>3 DEF Rows
  <2>2. h.row.end <= PaidUntil
    BY <1>3 DEF PaidInv
  <2> QED  BY <1>1, <2>1, <2>2
<1> QED  BY <1>1, <1>2, <1>3 DEF PaidInv

\* A row written with an end that is paid for.
LEMMA WritesPaid ==
    ASSUME IInv, PaidInv, now' = now, granted' = granted, open' \subseteq open,
           sub'.end \in Nat, sub'.end <= PaidUntil
    PROVE  PaidInv'
<1>1. Counted' = Counted /\ PaidUntil' = PaidUntil
  BY DEF Counted, PaidUntil
<1> QED  BY <1>1 DEF PaidInv

LEMMA CommitEventPaid == ASSUME IInv, PaidInv, NEW h, CommitEvent(h) PROVE PaidInv'
<1>1. /\ h \in open /\ h.kind = "hook" /\ open' = open \ {h} /\ now' = now /\ now \in Nat
      /\ h \in Handlers /\ h.ev \in Events /\ h.row \in Rows \cup {None}
      /\ sub \in Rows /\ sub.end \in Nat /\ h.ev \notin events
  BY DEF CommitEvent, End, IInv, TypeOK, Handlers, OnceInv, Rows
<1>2. CASE granted' = granted /\ sub'.end = sub.end
  BY <1>1, <1>2, WritesPaid DEF PaidInv
<1>3. CASE HandlePaymentCompleted(h) /\ h.row # None
  <2>1. /\ h.ev \in Sales /\ h.row.end \in Nat /\ h.row.end <= PaidUntil
        /\ granted' = [granted EXCEPT ![h.ev] = @ + 1]
        /\ sub' = Save(h.row, [h.row EXCEPT !.status = "active", !.end = @ + 1])
    BY <1>1, <1>3 DEF HandlePaymentCompleted, PaidInv, Events, Rows
  <2>2. sub'.end = h.row.end + 1
    BY <1>1, <1>3, <2>1 DEF Save, Rows
  <2>3. granted[h.ev] = 0 /\ \A e \in Sales : granted[e] \in Nat
    BY <1>1, <2>1 DEF IInv, TypeOK, OnceInv
  <2>4. h.ev \notin Counted /\ Counted' = Counted \cup {h.ev}
    BY <2>1, <2>3 DEF Counted, IInv, TypeOK
  <2>5. /\ IsFiniteSet(Counted) /\ IsFiniteSet(Counted') /\ Cardinality(Counted) \in Nat
        /\ Cardinality(Counted') = Cardinality(Counted) + 1
    <3>1. IsFiniteSet(Counted)
      BY DEF PaidInv
    <3> QED  BY <2>4, <3>1, FS_AddElement, FS_CardinalityType
  <2>6. PaidUntil \in Nat /\ PaidUntil' = PaidUntil + 1
    BY <1>1, <2>5 DEF PaidUntil
  <2>7. \A g \in open : g.row # None => g.row.end \in Nat /\ g.row.end <= PaidUntil'
    <3>1. \A g \in open : g.row # None => g.row.end \in Nat
      BY DEF IInv, TypeOK, Handlers, Rows
    <3> QED  BY <2>6, <3>1 DEF PaidInv
  <2> QED  BY <1>1, <2>1, <2>2, <2>5, <2>6, <2>7 DEF PaidInv
<1>4. \/ granted' = granted /\ sub'.end = sub.end
      \/ HandlePaymentCompleted(h) /\ h.row # None
  <2>1. ASSUME NEW st, sub' = SaveStatus(h.row, st) PROVE sub'.end = sub.end
    BY <1>1, <2>1 DEF SaveStatus, Rows
  <2> QED
    BY <2>1 DEF CommitEvent, HandleSubscriptionActivated, HandleSubscriptionCancelled, HandlePaymentCompleted
<1> QED  BY <1>2, <1>3, <1>4

LEMMA StepPaid == IInv /\ PaidInv /\ [Next]_vars => PaidInv'
<1> SUFFICES ASSUME IInv, PaidInv, [Next]_vars PROVE PaidInv'
  OBVIOUS
<1>0. /\ now \in Nat /\ sub \in Rows /\ sub.end \in Nat /\ sub.end <= PaidUntil /\ PaidUntil \in Nat
      /\ \A h \in open : h.row \in Rows \cup {None}
  <2>1. Cardinality(Counted) \in Nat
    BY FS_CardinalityType DEF PaidInv
  <2>2. now \in Nat /\ sub \in Rows /\ sub.end \in Nat /\ \A h \in open : h.row \in Rows \cup {None}
    BY DEF IInv, TypeOK, Handlers, Rows
  <2> QED  BY <2>1, <2>2 DEF PaidUntil, PaidInv
<1>1. ASSUME UNCHANGED <<granted, sub, open>>, now' \in Nat, now <= now' PROVE PaidInv'
  BY <1>0, <1>1, ReadsPaid
<1>2. ASSUME NEW s \in Subs,
             CreateCheckoutSession(s) \/ Return(s) \/ CancelAtPayPal(s) \/ Charge(s) \/ VerifyPending(s)
      PROVE  PaidInv'
  BY <1>0, <1>1, <1>2 DEF CreateCheckoutSession, Return, CancelAtPayPal, Charge, VerifyPending, rowVars
<1>3. CASE Tick
  BY <1>0, <1>1, <1>3 DEF Tick, rowVars
<1>4. ASSUME NEW e, Dismiss(e) PROVE PaidInv'
  BY <1>0, <1>1, <1>4 DEF Dismiss, rowVars
<1>5. ASSUME NEW h, Begin(h), h.row \in {None, sub}, UNCHANGED <<granted, sub, now>> PROVE PaidInv'
  BY <1>0, <1>5, ReadsPaid DEF Begin
<1>6. ASSUME NEW e, ProcessEvent(e) PROVE PaidInv'
  BY <1>5, <1>6 DEF ProcessEvent, rowVars
<1>7. ASSUME NEW s \in Subs, VerifyFetch(s) PROVE PaidInv'
  BY <1>5, <1>7 DEF VerifyFetch, rowVars
<1>8. CASE CancelSubscription
  BY <1>5, <1>8 DEF CancelSubscription, rowVars
<1>9. ASSUME NEW h \in open, FailEvent(h) PROVE PaidInv'
  BY <1>0, <1>9, ReadsPaid DEF FailEvent, End, rowVars
<1>10. ASSUME NEW h \in open, VerifyRead(h) PROVE PaidInv'
  <2>1. h \in Handlers
    BY <1>10 DEF IInv, TypeOK
  <2>2. PICK g : g = [h EXCEPT !.kind = "verify", !.row = sub]
    OBVIOUS
  <2>3. g.row = sub
    BY <2>1, <2>2 DEF Handlers
  <2>4. open' = (open \ {h}) \cup {g} /\ UNCHANGED <<granted, sub, now>>
    BY <1>10, <2>2 DEF VerifyRead, rowVars
  <2> QED  BY <1>0, <2>3, <2>4, ReadsPaid
<1>11. ASSUME NEW h \in open, VerifyCommit(h) PROVE PaidInv'
  <2>1. sub'.end = now + 1
    BY <1>0, <1>11 DEF VerifyCommit, Save, Rows
  <2>2. now + 1 <= PaidUntil
    <3>1. Cardinality(Counted) \in Nat
      BY FS_CardinalityType DEF PaidInv
    <3> QED  BY <1>0, <3>1 DEF PaidUntil
  <2> QED  BY <1>0, <1>11, <2>1, <2>2, WritesPaid DEF VerifyCommit, End
<1>12. ASSUME NEW h \in open, CancelCommit(h) PROVE PaidInv'
  <2>1. sub'.end = sub.end
    BY <1>0, <1>12 DEF CancelCommit, SaveStatus, Rows
  <2> QED  BY <1>0, <1>12, <2>1, WritesPaid DEF CancelCommit, End
<1>13. CASE UNCHANGED vars
  BY <1>0, <1>1, <1>13 DEF vars, rowVars
<1>14. CASE SyncInvoices
  BY <1>5, <1>14 DEF SyncInvoices, rowVars
<1>15. ASSUME NEW h \in open, SyncCommit(h) PROVE PaidInv'
  BY <1>0, <1>15, WritesPaid DEF SyncCommit, End
<1> QED
  BY <1>2, <1>3, <1>4, <1>6, <1>7, <1>8, <1>9, <1>10, <1>11, <1>12, <1>13, <1>14, <1>15,
     CommitEventPaid
     DEF Next, Hook, Verify

\* The period never ends later than one period per sale recorded, beyond
\* the verification or the trial it was counted from, whatever end the handlers
\* that overlap had read (webhook_handler.py 132-181, billing_service.py 177-254).
THEOREM EndPaidFor == Spec => []EndIsPaidFor
<1>1. PaidInv => EndIsPaidFor
  BY DEF PaidInv, PaidUntil, Counted, EndIsPaidFor
<1> QED  BY <1>1, InitPaid, StepPaid, Invariant, PTL DEF Spec
=============================================================================
