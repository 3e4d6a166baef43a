------------------------------ MODULE Billing ------------------------------
(***************************************************************************)
(* The subscription of one organization (src/src/modules/subscriptions),   *)
(* the plans it may be on, whose prices and intervals change, and the      *)
(* administrators' hand on it (modules/admin/subscription): one row,       *)
(* unique per organization, and what was billed for it, with each query    *)
(* and each call of the payment provider a step.                           *)
(*                                                                         *)
(* The share of the days left is all of them or none: what lies between is *)
(* between the two.  The provider is the manual one, which accepts         *)
(* everything; no other can be configured.  Notes, mails and the           *)
(* administrators' payment fields are left out.                            *)
(***************************************************************************)
EXTENDS Naturals, FiniteSets

CONSTANTS Plans, NoPlan, Requests,
          Terms,        \* [price, interval] a plan may have; the interval is any string
          Chosen,       \* the statuses administrators set
          MaxSettled    \* bound: beyond it no plan change begins and no price rises

Intervals == {"month", "year", "one_time"}   \* calculatePeriodEnd throws at any other
BillingAssumption ==
  /\ NoPlan \notin Plans /\ MaxSettled \in Nat
  /\ Terms # {} /\ \A t \in Terms : t.price \in Nat
  /\ Chosen \subseteq {"ACTIVE", "TRIAL", "CANCELLED", "PENDING_PAYMENT", "PAYMENT_OVERDUE"}

VARIABLES plans,      \* plan rows
          terms,      \* what each plan costs, and for how long
          offered,    \* active plans
          row,        \* the subscription; ends: the interval its period was given
          over,       \* its period has ended
          billed,     \* billing_history: what was paid
          req,
          forgone     \* history: what the code asks nobody for, see PaidInFull
plan_rows == <<plans, terms, offered>>
vars == <<plans, terms, offered, row, over, billed, req, forgone>>

AnyTerms == CHOOSE t \in Terms : TRUE
SubscriptionRow(p, m, s, e) == [plan |-> p, method |-> m, status |-> s, ends |-> e]
NoRow == SubscriptionRow(NoPlan, FALSE, "none", "none")
Statuses == {"ACTIVE", "TRIALING", "CANCELLED"} \cup Chosen
\* plan, trial: asked for; old: the price of the plan on record, new: the terms of
\* the plan asked for, method: all as read.
Idle == [op |-> "idle", pc |-> "idle", plan |-> NoPlan, old |-> 0, new |-> AnyTerms,
         method |-> FALSE, trial |-> FALSE]

Init ==
  /\ plans = {} /\ offered = {} /\ terms = [p \in Plans |-> AnyTerms]
  /\ row = NoRow /\ over = FALSE /\ billed = 0
  /\ req = [r \in Requests |-> Idle] /\ forgone = 0

Exists == row # NoRow
At(r, op, pc) == req[r].op = op /\ req[r].pc = pc
Become(r, q) == req' = [req EXCEPT ![r] = q]
Goto(r, pc) == Become(r, [req[r] EXCEPT !.pc = pc])
Finish(r) == Become(r, Idle)
Begin(r, op, p, method, trial) ==
  /\ req[r] = Idle
  /\ Become(r, [Idle EXCEPT !.op = op, !.pc = "find", !.plan = p, !.method = method, !.trial = trial])
Quiet == UNCHANGED plan_rows /\ UNCHANGED <<row, over, billed, forgone>>
Forgo(n) == forgone' = forgone + n
Bounded == billed + forgone < MaxSettled

\* The manual provider succeeds; what fails is recorded too, but pays nothing.
Outcomes == {TRUE}
ProcessPayment(n) == {IF success THEN n ELSE 0 : success \in Outcomes}
CreateBillingRecord(n) == \E paid \in ProcessPayment(n) : billed' = billed + paid
\* A period counted from a start in the past may end on either side of now.
CalculatePeriodEnd(interval) == IF interval = "one_time" THEN {FALSE} ELSE BOOLEAN

CreateSubscription(r, p, method, trial) == Begin(r, "create", p, method, trial) /\ Quiet
CancelSubscription(r) == Begin(r, "cancel", NoPlan, FALSE, FALSE) /\ Quiet
ChangePlan(r, p) == Bounded /\ Begin(r, "change", p, FALSE, FALSE) /\ Quiet
UpdatePaymentMethod(r) == Begin(r, "method", NoPlan, FALSE, FALSE) /\ Quiet

----------------------------------------------------------------------------
(* create: any earlier subscription, also a cancelled one, is a conflict. *)
FindExisting(r) ==
  /\ At(r, "create", "find")
  /\ IF Exists THEN Finish(r) ELSE Goto(r, "plan")
  /\ Quiet
FindPlan(r) ==   \* also in changePlan
  /\ req[r].pc = "plan"
  /\ IF req[r].plan \notin offered THEN Finish(r)
     ELSE Become(r, [req[r] EXCEPT !.new = terms[req[r].plan],
                       !.pc = IF req[r].op = "change" /\ req[r].method THEN "prorate" ELSE "write"])
  /\ Quiet
\* The plan's row is referred to, and its interval was one calculatePeriodEnd knows.
Writable(q) == q.plan \in plans /\ q.new.interval \in Intervals
Insert(r) ==   \* one row per organization
  /\ At(r, "create", "write")
  /\ IF Exists \/ ~Writable(req[r]) THEN Finish(r) /\ Quiet
     ELSE /\ row' = SubscriptionRow(req[r].plan, req[r].method,
                       IF req[r].trial THEN "TRIALING" ELSE "ACTIVE", req[r].new.interval)
          /\ over' = FALSE
          /\ IF req[r].method /\ ~req[r].trial
             THEN Goto(r, "bill") /\ UNCHANGED forgone
             ELSE Finish(r) /\ Forgo(req[r].new.price)
          /\ UNCHANGED plan_rows /\ UNCHANGED billed
BillCreated(r) ==   \* createBillingRecord, after the row
  /\ At(r, "create", "bill")
  /\ CreateBillingRecord(req[r].new.price)
  /\ Finish(r) /\ UNCHANGED plan_rows /\ UNCHANGED <<row, over, forgone>>

----------------------------------------------------------------------------
(* changePlan: charge the difference, tell the provider, write the plan. *)
FindForChange(r) ==   \* whatever its status
  /\ At(r, "change", "find")
  /\ IF Exists
     THEN Become(r, [req[r] EXCEPT !.pc = "plan", !.old = terms[row.plan].price, !.method = row.method])
     ELSE Finish(r)
  /\ Quiet
Positive(n, m) == IF n > m THEN n - m ELSE 0
\* With the prices the wrong way round; and as it is.
ProratedByTheOldPlan(old, new, left) ==
  IF left THEN IF over THEN Positive(new, old) ELSE Positive(old, new) ELSE 0
\* The share of the days left in the period on record, whatever interval the new plan
\* has; once that is over the days are negative, and so is the sign.
Prorated(old, new, left) ==
  IF left THEN IF over THEN Positive(old, new) ELSE Positive(new, old) ELSE 0
HandlePlanChange(r) ==
  /\ At(r, "change", "prorate")
  /\ \E left \in BOOLEAN :
       /\ CreateBillingRecord(Prorated(req[r].old, req[r].new.price, left))
       /\ Forgo(IF left /\ ~over THEN 0 ELSE Positive(req[r].new.price, req[r].old))
  /\ Goto(r, "provider") /\ UNCHANGED plan_rows /\ UNCHANGED <<row, over>>
UpdateProvider(r) ==   \* with the id of the plan still on record
  /\ At(r, "change", "provider") /\ Goto(r, "write") /\ Quiet
WritePlan(r) ==   \* the period, too; the charge stands when the interval is unknown
  /\ At(r, "change", "write")
  /\ IF Writable(req[r])
     THEN /\ row' = [row EXCEPT !.plan = req[r].plan, !.ends = req[r].new.interval]
          /\ over' \in CalculatePeriodEnd(req[r].new.interval)
          /\ Forgo(IF req[r].method THEN 0 ELSE Positive(req[r].new.price, req[r].old))
     ELSE UNCHANGED <<row, over, forgone>>
  /\ Finish(r) /\ UNCHANGED plan_rows /\ UNCHANGED billed

----------------------------------------------------------------------------
(* cancel and updatePaymentMethod. *)
FindForCancel(r) ==
  /\ At(r, "cancel", "find")
  /\ IF Exists THEN Goto(r, IF row.method THEN "provider" ELSE "write") ELSE Finish(r)
  /\ Quiet
CancelWithProvider(r) ==   \* which writes the status a first time
  /\ At(r, "cancel", "provider")
  /\ row' = [row EXCEPT !.status = "CANCELLED"]
  /\ Goto(r, "write") /\ UNCHANGED plan_rows /\ UNCHANGED <<over, billed, forgone>>
WriteCancelled(r) ==
  /\ At(r, "cancel", "write")
  /\ row' = [row EXCEPT !.status = "CANCELLED"]
  /\ Finish(r) /\ UNCHANGED plan_rows /\ UNCHANGED <<over, billed, forgone>>
FindForMethod(r) ==
  /\ At(r, "method", "find")
  /\ (IF Exists THEN Goto(r, "write") ELSE Finish(r)) /\ Quiet
WriteMethod(r) ==
  /\ At(r, "method", "write")
  /\ row' = [row EXCEPT !.method = TRUE]
  /\ Finish(r) /\ UNCHANGED plan_rows /\ UNCHANGED <<over, billed, forgone>>

\* Any step of a request may fail; an insert that goes unbilled is noted.
Fail(r) ==
  /\ req[r] # Idle /\ Finish(r)
  /\ Forgo(IF At(r, "create", "bill") THEN req[r].new.price ELSE 0)
  /\ UNCHANGED plan_rows /\ UNCHANGED <<row, over, billed>>

----------------------------------------------------------------------------
(* Administrators, plans and time. *)
UpdateStatus(s) ==   \* a trial begins a new period
  /\ Exists
  /\ row' = [row EXCEPT !.status = s, !.ends = IF s = "TRIAL" THEN "trial" ELSE @]
  /\ over' = (over /\ s # "TRIAL")
  /\ UNCHANGED plan_rows /\ UNCHANGED <<billed, req, forgone>>
AdminUpdateStatus(s) == UpdateStatus(s)
Offer(p, active) == offered' = IF active THEN offered \cup {p} ELSE offered \ {p}
\* Ids are not used twice: no request has read a plan of this id.
Fresh(p) == \A r \in Requests : req[r].plan = p => req[r].pc \in {"find", "plan"}
CreatePlan(p, t, active) ==
  /\ p \notin plans /\ Fresh(p)
  /\ plans' = plans \cup {p} /\ terms' = [terms EXCEPT ![p] = t] /\ Offer(p, active)
  /\ UNCHANGED <<row, over, billed, req, forgone>>
UpdatePlan(p, t, active) ==   \* who is on it is not asked for the rise
  /\ p \in plans /\ (t.price > terms[p].price => Bounded)
  /\ terms' = [terms EXCEPT ![p] = t] /\ Offer(p, active)
  /\ Forgo(Positive(t.price, terms[p].price))
  /\ UNCHANGED <<plans, row, over, billed, req>>
RemovePlan(p) ==   \* not while the row refers to it
  /\ p \in plans /\ row.plan # p
  /\ plans' = plans \ {p} /\ terms' = [terms EXCEPT ![p] = AnyTerms] /\ Offer(p, FALSE)
  /\ UNCHANGED <<row, over, billed, req, forgone>>
HttpCreatePlan(p, t, active) == CreatePlan(p, t, active)
HttpUpdatePlan(p, t, active) == UpdatePlan(p, t, active)
HttpDeletePlan(p) == RemovePlan(p)
PeriodEnds ==
  /\ Exists /\ row.ends # "one_time" /\ ~over /\ over' = TRUE
  /\ UNCHANGED plan_rows /\ UNCHANGED <<row, billed, req, forgone>>

Step(r) ==
  \/ FindExisting(r) \/ FindPlan(r) \/ Insert(r) \/ BillCreated(r)
  \/ FindForChange(r) \/ HandlePlanChange(r) \/ UpdateProvider(r) \/ WritePlan(r)
  \/ FindForCancel(r) \/ CancelWithProvider(r) \/ WriteCancelled(r)
  \/ FindForMethod(r) \/ WriteMethod(r) \/ Fail(r)
Arrive(r) ==
  \/ \E p \in Plans, method, trial \in BOOLEAN : CreateSubscription(r, p, method, trial)
  \/ \E p \in Plans : ChangePlan(r, p)
  \/ CancelSubscription(r) \/ UpdatePaymentMethod(r)
Manage(p) ==
  \/ HttpDeletePlan(p)
  \/ \E t \in Terms, active \in BOOLEAN : HttpCreatePlan(p, t, active) \/ HttpUpdatePlan(p, t, active)
Next == \/ \E r \in Requests : Arrive(r) \/ Step(r)
        \/ \E s \in Chosen : AdminUpdateStatus(s)
        \/ \E p \in Plans : Manage(p)
        \/ PeriodEnds
Spec == Init /\ [][Next]_vars

----------------------------------------------------------------------------
Records == [op: {"idle", "create", "change", "cancel", "method"},
            pc: {"idle", "find", "plan", "write", "bill", "prorate", "provider"},
            plan: Plans \cup {NoPlan}, old: Nat, new: Terms, method: BOOLEAN, trial: BOOLEAN]
Rows == [status: Statuses, plan: Plans, method: BOOLEAN, ends: Intervals \cup {"trial"}]
TypeOK ==
  /\ plans \subseteq Plans /\ offered \subseteq plans /\ terms \in [Plans -> Terms]
  /\ row \in Rows \cup {NoRow} /\ over \in BOOLEAN /\ billed \in Nat /\ forgone \in Nat
  /\ req \in [Requests -> Records]

\* However plan changes overlap with each other and with changes of the plans, fail half
\* way or are repeated, what was billed and what the code lets go add up to the price of
\* the plan on record: the charge comes before the plan is written, and is against a
\* plan that was itself settled (subscription.service.ts 166-189).  What it lets go:
\* what is created or changed without a payment method or in a trial, the first bill
\* when it fails, the share of the days gone by of the old period (all of it when that
\* is over), and rises of a plan's price.
PaidInFull ==
  Exists => \/ billed + forgone >= terms[row.plan].price
            \/ \E r \in Requests : At(r, "create", "bill")

\* Why: what is owed is settled by that sum and what is still to be asked, or will be by
\* the first bill; so is the price a change is charged against, and a plan that was read
\* costs more only by what was let go since.
Settled(owed, asked) ==
  \/ billed + forgone + asked >= owed
  \/ \E r \in Requests : At(r, "create", "bill") /\ billed + forgone + asked + req[r].new.price >= owed
Uncharged(q) == q.op = "change" /\ (q.pc = "prorate" \/ (q.pc = "write" /\ ~q.method))
Charged(q) ==
  /\ q.op = "change" /\ q.pc = "plan" => Settled(q.old, 0)
  /\ q.plan \in plans =>
       LET price == terms[q.plan].price IN
       /\ q.op = "create" /\ q.pc = "write" => price <= billed + forgone + q.new.price
       /\ Uncharged(q) => Settled(price + q.old, q.new.price)
       /\ q.op = "change" /\ q.pc \in {"provider", "write"} /\ q.method => Settled(price, 0)
Found(q) ==
  /\ q.op = "change" /\ q.pc \in {"plan", "prorate", "provider", "write"} => Exists
  /\ q.op = "change" /\ q.pc \in {"prorate", "provider"} => q.method
  /\ q.op \in {"cancel", "method"} /\ q.pc \in {"provider", "write"} => Exists
  /\ q.pc = "plan" => q.op \in {"create", "change"}
  /\ q.op \in {"create", "change"} => q.plan \in Plans
Paid == Exists => row.plan \in plans /\ Settled(terms[row.plan].price, 0)
Inv == /\ TypeOK /\ Paid
       /\ \A r \in Requests : Charged(req[r]) /\ Found(req[r])
=============================================================================
