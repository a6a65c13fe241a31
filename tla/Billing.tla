------------------------------ MODULE Billing ------------------------------
(***************************************************************************)
(* The platform billing of one user: the Stripe customer, its one         *)
(* subscription and its payment methods, and the rows of the customers,   *)
(* stripe_prices and stripe_default_payment_methods tables that mirror    *)
(* them.  The actors are the signup's createCustomer (auth.go), the gRPC  *)
(* handlers SubscribeToPlan, UpdateSubscription, RetryInvoice and         *)
(* AttachPaymentMethod (payment.go) running concurrently, and Stripe's    *)
(* payment_method.attached webhook (webhook/stripe.go).                    *)
(*                                                                         *)
(* The login handlers that start signup's createCustomer and give the    *)
(* user a session are in Account, which extends this module and composes *)
(* the two: `session' and the `signup' call are the interface.            *)
(*                                                                         *)
(* Every Stripe or database call is one atomic step; a call may fail, and *)
(* then the handler returns with what earlier calls did left in place.   *)
(* A webhook event is delivered any number of times, in any order, and    *)
(* Stripe redelivers it while the handler answers with an error.          *)
(***************************************************************************)
EXTENDS Naturals, FiniteSets

CONSTANTS
    Cus,        \* Stripe customer ids
    PMs,        \* Stripe payment method ids a client may send
    Reqs,       \* concurrent gRPC requests of the user
    MaxReqs,    \* bound on the number of requests the user makes
    NoCus, NoPM, NoPlan

\* pb plans; signup subscribes to the free price (cfg.PriceIDFree).
Plans == {"free", "plus"}

VARIABLES
    session,    \* the user holds a live session (set by Account's logins)
    signup,     \* signup's createCustomer call: "idle", a step, "ok" or "err"
    sgCus,      \* the customer the signup created
    scus,       \* Stripe: customers created
    splan,      \* Stripe: plan of the customer's subscription, NoPlan if none
    attached,   \* Stripe: payment methods attached to each customer
    sdefault,   \* Stripe: invoice_settings.default_payment_method
    spent,      \* Stripe: detached payment methods, which cannot be reused
    whEvents,   \* payment_method.attached events not yet acknowledged
    dbCus,      \* customers.customer_id of the user's row, NoCus if no row
    dbTrial,    \* customers.trial_used of that row
    dbPlan,     \* stripe_prices.plan by customer_id
    dbPM,       \* stripe_default_payment_methods.id by customer_id
    req,        \* per request: handler, program counter and locals
    started,    \* requests made so far
    trialsGranted \* ghost: sub.Update calls that set TrialEnd

\* Everything but the interface variables.
billingVars == <<sgCus, scus, splan, attached, sdefault, spent, whEvents,
                 dbCus, dbTrial, dbPlan, dbPM, req, started, trialsGranted>>

Ops == {"subscribe", "update", "attach", "retry"}

\* An idle request slot.  subs and dpm are the customer snapshot the
\* handler passes to UpdatePlatformSubscription, list the payment methods
\* paymentmethod.List returned, trialUsed the trial_used it read.
Idle == [op |-> "none", pc |-> "idle", cus |-> NoCus, pm |-> NoPM,
         plan |-> NoPlan, subs |-> FALSE, dpm |-> NoPM, list |-> {},
         trialUsed |-> FALSE]

ReqRec == [op : Ops \cup {"none"}, pc : STRING, cus : Cus \cup {NoCus},
           pm : PMs \cup {NoPM}, plan : Plans \cup {NoPlan}, subs : BOOLEAN,
           dpm : PMs \cup {NoPM}, list : SUBSET PMs, trialUsed : BOOLEAN]

SignupSteps == {"createCustomer", "storeCustomer", "createSub", "storeSub"}

BillingTypeOK ==
    /\ session \in BOOLEAN
    /\ signup \in SignupSteps \cup {"idle", "ok", "err"}
    /\ sgCus \in Cus \cup {NoCus}
    /\ scus \subseteq Cus
    /\ splan \in [Cus -> Plans \cup {NoPlan}]
    /\ attached \in [Cus -> SUBSET PMs]
    /\ sdefault \in [Cus -> PMs \cup {NoPM}]
    /\ spent \subseteq PMs
    /\ whEvents \subseteq PMs \X Cus
    /\ dbCus \in Cus \cup {NoCus}
    /\ dbTrial \in BOOLEAN
    /\ dbPlan \in [Cus -> Plans \cup {NoPlan}]
    /\ dbPM \in [Cus -> PMs \cup {NoPM}]
    /\ req \in [Reqs -> ReqRec]
    /\ started \in 0..MaxReqs
    /\ trialsGranted \in Nat

BillingInit ==
    /\ signup = "idle"
    /\ sgCus = NoCus
    /\ scus = {}
    /\ splan = [c \in Cus |-> NoPlan]
    /\ attached = [c \in Cus |-> {}]
    /\ sdefault = [c \in Cus |-> NoPM]
    /\ spent = {}
    /\ whEvents = {}
    /\ dbCus = NoCus
    /\ dbTrial = FALSE
    /\ dbPlan = [c \in Cus |-> NoPlan]
    /\ dbPM = [c \in Cus |-> NoPM]
    /\ req = [r \in Reqs |-> Idle]
    /\ started = 0
    /\ trialsGranted = 0

Stripe == <<scus, splan, attached, sdefault, spent, whEvents, trialsGranted>>
DB == <<dbCus, dbTrial, dbPlan, dbPM>>

Goto(r, l) == req' = [req EXCEPT ![r].pc = l]
Return(r) == req' = [req EXCEPT ![r] = Idle]

(***************************************************************************)
(* The generated queries (customers/queries.sql.go) on the user's rows.   *)
(* The upserts conflict on customer_id: one row per Stripe customer.      *)
(***************************************************************************)
\* UseTrial: UPDATE customers SET trial_used = true WHERE customer_id = c.
UseTrial(c) == dbTrial \/ c = dbCus

\* StorePrice: INSERT INTO stripe_prices ... ON CONFLICT DO UPDATE plan.
StorePrice(c, plan) == [dbPlan EXCEPT ![c] = plan]

\* StoreDefaultPaymentMethod: INSERT ... ON CONFLICT DO UPDATE SET id.
StoreDefaultPaymentMethod(c, pm) == [dbPM EXCEPT ![c] = pm]

\* ClearCustomerPaymentMethods: DELETE ... WHERE customer_id = c.
DeleteDefaultPMRows(c) == [dbPM EXCEPT ![c] = NoPM]

\* HasCustomerUsedTrial, GetCustomerUserID: SELECT FROM customers WHERE
\* customer_id = c, which is sql.ErrNoRows unless the user's row has c.
CustomerRowExists(c) == c = dbCus

(***************************************************************************)
(* StoreSubscriptionWithPrice(c, plan, withTrial, stored): the subscription *)
(* row, then the price row, then with withTrial the UseTrial update; stored *)
(* says how far it got before a call failed: "none" (StoreSubscription or  *)
(* StorePrice failed; the status row is not modelled), "price" (UseTrial   *)
(* failed) or "all".  UseTrial updates the row WHERE customer_id = c.      *)
(***************************************************************************)
StoreSubscriptionWithPrice(c, plan, withTrial, stored) ==
    /\ dbPlan' = IF stored = "none" THEN dbPlan ELSE StorePrice(c, plan)
    /\ dbTrial' = IF withTrial /\ stored = "all" THEN UseTrial(c) ELSE dbTrial

StoreOutcomes(withTrial) == IF withTrial THEN {"none", "price", "all"}
                                          ELSE {"none", "all"}

(***************************************************************************)
(* Signup: createCustomer.  Each call may fail, and then signup returns    *)
(* an error with the earlier calls' effects in place (SignupFail).         *)
(***************************************************************************)
SignupCreateCustomer ==
    /\ signup = "createCustomer"
    /\ \E c \in Cus :
         /\ scus' = scus \cup {c}
         /\ sgCus' = c
    /\ signup' = "storeCustomer"
    /\ UNCHANGED <<splan, attached, sdefault, spent, whEvents, trialsGranted, DB, req, started>>

SignupStoreCustomer ==
    /\ signup = "storeCustomer"
    /\ dbCus' = sgCus
    /\ signup' = "createSub"
    /\ UNCHANGED <<sgCus, Stripe, dbTrial, dbPlan, dbPM, req, started>>

SignupCreateSub ==
    /\ signup = "createSub"
    /\ splan' = [splan EXCEPT ![sgCus] = "free"]
    /\ signup' = "storeSub"
    /\ UNCHANGED <<sgCus, scus, attached, sdefault, spent, whEvents, trialsGranted, DB, req, started>>

\* StoreSubscription passing WithTrial as StorePlatformSubscription does.
SignupStoreSubWithTrial ==
    /\ signup = "storeSub"
    /\ \E stored \in StoreOutcomes(TRUE) :
         /\ StoreSubscriptionWithPrice(sgCus, "free", TRUE, stored)
         /\ signup' = IF stored = "all" THEN "ok" ELSE "err"
    /\ UNCHANGED <<sgCus, Stripe, dbCus, dbPM, req, started>>

\* StoreSubscription: StoreSubscriptionWithPrice without WithTrial.
SignupStoreSub ==
    /\ signup = "storeSub"
    /\ \E stored \in StoreOutcomes(FALSE) :
         /\ StoreSubscriptionWithPrice(sgCus, "free", FALSE, stored)
         /\ signup' = IF stored = "all" THEN "ok" ELSE "err"
    /\ UNCHANGED <<sgCus, Stripe, dbCus, dbPM, req, started>>

SignupFail ==
    /\ signup \in {"createCustomer", "storeCustomer", "createSub"}
    /\ signup' = "err"
    /\ UNCHANGED <<sgCus, Stripe, DB, req, started>>

(***************************************************************************)
(* A request of the user, which the authorize middleware lets through    *)
(* with a live session.  UpdateSubscription, AttachPaymentMethod and      *)
(* RetryInvoice take the customer id from the client, which has it from   *)
(* the user's row.                                                        *)
(***************************************************************************)
NewReq(op, pc, c, pm, plan) ==
    [Idle EXCEPT !.op = op, !.pc = pc, !.cus = c, !.pm = pm, !.plan = plan]

Start(r) ==
    /\ session
    /\ req[r].pc = "idle"
    /\ started < MaxReqs
    /\ \/ \E pm \in PMs, plan \in Plans :
            req' = [req EXCEPT ![r] = NewReq("subscribe", "getCustomer", NoCus, pm, plan)]
       \/ /\ dbCus # NoCus
          /\ \/ \E plan \in Plans :
                  req' = [req EXCEPT ![r] = NewReq("update", "customerGet", dbCus, NoPM, plan)]
             \/ \E pm \in PMs :
                  req' = [req EXCEPT ![r] = NewReq("attach", "list", dbCus, pm, NoPlan)]
             \/ \E pm \in PMs :
                  req' = [req EXCEPT ![r] = NewReq("retry", "attach", dbCus, pm, NoPlan)]
    /\ started' = started + 1
    /\ UNCHANGED <<signup, sgCus, Stripe, DB>>

\* SubscribeToPlan: GetCustomerByUserID; ErrNoCustomer leads to recreation.
GetCustomerByUserID(r) ==
    /\ req[r].pc = "getCustomer"
    /\ IF dbCus = NoCus
         THEN Goto(r, "createCustomer")
         ELSE req' = [req EXCEPT ![r].cus = dbCus, ![r].pc = "attach"]
    /\ UNCHANGED <<signup, sgCus, Stripe, DB, started>>

\* SubscribeToPlan: stripesvc.CreateCustomer for a user without a row.
CreateCustomer(r) ==
    /\ req[r].pc = "createCustomer"
    /\ \E c \in Cus \ scus :
         /\ scus' = scus \cup {c}
         /\ req' = [req EXCEPT ![r].cus = c, ![r].pc = "storeCustomer"]
    /\ UNCHANGED <<signup, sgCus, splan, attached, sdefault, spent, whEvents,
                   trialsGranted, DB, started>>

(***************************************************************************)
(* SubscribeToPlan: StoreCustomer inserts the user's row, and then       *)
(* cus.CustomerId dereferences the still nil cus: the panic is not        *)
(* recovered, the server exits and every request in flight ends with it,  *)
(* signup's createCustomer included.  Account ends its own handler too.  *)
(***************************************************************************)
StoreCustomerPanic(r) ==
    /\ req[r].pc = "storeCustomer"
    /\ dbCus = NoCus
    /\ dbCus' = req[r].cus
    /\ req' = [q \in Reqs |-> Idle]
    /\ signup' = "idle"
    /\ UNCHANGED <<sgCus, Stripe, dbTrial, dbPlan, dbPM, started>>

\* StoreCustomer fails on the duplicate id of a row stored meanwhile.
StoreCustomerDuplicate(r) ==
    /\ req[r].pc = "storeCustomer"
    /\ dbCus # NoCus
    /\ Return(r)
    /\ UNCHANGED <<signup, sgCus, Stripe, DB, started>>

AttachedElsewhere(pm, c) == \E o \in Cus \ {c} : pm \in attached[o]

(***************************************************************************)
(* paymentmethod.Attach (SubscribeToPlan, AttachPaymentMethod and         *)
(* RetryInvoice).  Stripe refuses a detached payment method and one       *)
(* attached to another customer; a new attachment emits the               *)
(* payment_method.attached event.                                          *)
(***************************************************************************)
Attach(r) ==
    LET c == req[r].cus  pm == req[r].pm IN
    /\ req[r].pc = "attach"
    /\ \/ /\ pm \in spent \/ AttachedElsewhere(pm, c)
          /\ Return(r)
          /\ UNCHANGED <<attached, whEvents>>
       \/ /\ pm \notin spent /\ ~AttachedElsewhere(pm, c)
          /\ attached' = [attached EXCEPT ![c] = @ \cup {pm}]
          /\ whEvents' = IF pm \in attached[c] THEN whEvents
                                               ELSE whEvents \cup {<<pm, c>>}
          /\ Goto(r, IF req[r].op = "subscribe" THEN "cusUpdate" ELSE "setDefault")
    /\ UNCHANGED <<signup, sgCus, scus, splan, sdefault, spent, trialsGranted, DB, started>>

(***************************************************************************)
(* customer.Update setting invoice_settings.default_payment_method, which  *)
(* Stripe refuses for a payment method no longer attached.  In            *)
(* SubscribeToPlan it expands the subscriptions: the snapshot passed on.  *)
(* RetryInvoice then only reads the invoice and returns.                  *)
(***************************************************************************)
UpdateDefaultPM(r) ==
    LET c == req[r].cus  pm == req[r].pm  op == req[r].op IN
    /\ req[r].pc \in {"cusUpdate", "setDefault"}
    /\ \/ /\ pm \notin attached[c]
          /\ Return(r)
          /\ UNCHANGED sdefault
       \/ /\ pm \in attached[c]
          /\ sdefault' = [sdefault EXCEPT ![c] = pm]
          /\ req' = IF op = "retry"
                      THEN [req EXCEPT ![r] = Idle]
                      ELSE [req EXCEPT ![r].subs = (splan[c] # NoPlan),
                                       ![r].dpm = pm,
                                       ![r].pc = IF op = "subscribe" THEN "trialRead"
                                                                     ELSE "clear"]
    /\ UNCHANGED <<signup, sgCus, scus, splan, attached, spent, whEvents,
                   trialsGranted, DB, started>>

\* UpdateSubscription: customer.Get with subscriptions and default expanded.
CustomerGet(r) ==
    LET c == req[r].cus IN
    /\ req[r].pc = "customerGet"
    /\ req' = [req EXCEPT ![r].subs = (splan[c] # NoPlan),
                          ![r].dpm = sdefault[c], ![r].pc = "trialRead"]
    /\ UNCHANGED <<signup, sgCus, Stripe, DB, started>>

(***************************************************************************)
(* UpdatePlatformSubscription up to the read of trial_used: the snapshot   *)
(* must show one subscription and a default payment method, and           *)
(* HasCustomerUsedTrial finds no row for a customer id not in customers.  *)
(***************************************************************************)
HasCustomerUsedTrial(r) ==
    LET c == req[r].cus IN
    /\ req[r].pc = "trialRead"
    /\ IF req[r].subs /\ req[r].dpm # NoPM /\ CustomerRowExists(c)
         THEN req' = [req EXCEPT ![r].trialUsed = dbTrial, ![r].pc = "subUpdate"]
         ELSE Return(r)
    /\ UNCHANGED <<signup, sgCus, Stripe, DB, started>>

\* UpdatePlatformSubscription: sub.Update to the plan's price, with a
\* TrialEnd when trial_used was false.
SubUpdate(r) ==
    LET c == req[r].cus IN
    /\ req[r].pc = "subUpdate"
    /\ splan' = [splan EXCEPT ![c] = req[r].plan]
    /\ trialsGranted' = IF req[r].trialUsed THEN trialsGranted ELSE trialsGranted + 1
    /\ Goto(r, "store")
    /\ UNCHANGED <<signup, sgCus, scus, attached, sdefault, spent, whEvents, DB, started>>

(***************************************************************************)
(* StorePlatformSubscription (WithTrial).  SubscribeToPlan returns on its *)
(* error; UpdateSubscription overwrites the error and returns success.    *)
(***************************************************************************)
StorePlatformSubscription(r) ==
    LET c == req[r].cus IN
    /\ req[r].pc = "store"
    /\ \E stored \in StoreOutcomes(TRUE) :
         /\ StoreSubscriptionWithPrice(c, req[r].plan, TRUE, stored)
         /\ IF req[r].op = "subscribe" /\ stored = "all"
              THEN Goto(r, "storeDefault")
              ELSE Return(r)
    /\ UNCHANGED <<signup, sgCus, Stripe, dbCus, dbPM, started>>

\* StoreDefaultPM: upsert of the customer's one default payment method row.
StoreDefaultPM(r) ==
    /\ req[r].pc = "storeDefault"
    /\ dbPM' = StoreDefaultPaymentMethod(req[r].cus, req[r].pm)
    /\ Return(r)
    /\ UNCHANGED <<signup, sgCus, Stripe, dbCus, dbTrial, dbPlan, started>>

\* AttachPaymentMethod: paymentmethod.List of the customer's cards.
PMList(r) ==
    /\ req[r].pc = "list"
    /\ req' = [req EXCEPT ![r].list = attached[req[r].cus], ![r].pc = "detach"]
    /\ UNCHANGED <<signup, sgCus, Stripe, DB, started>>

(***************************************************************************)
(* AttachPaymentMethod: one iteration of the Detach loop, in any order of *)
(* the listed ids; a card a concurrent request detached meanwhile makes   *)
(* Detach fail.  Detaching the default clears the customer's default.    *)
(***************************************************************************)
PMDetach(r) ==
    LET c == req[r].cus IN
    /\ req[r].pc = "detach"
    /\ \/ /\ req[r].list = {}
          /\ Goto(r, "attach")
          /\ UNCHANGED <<attached, sdefault, spent>>
       \/ \E p \in req[r].list :
            \/ /\ p \in attached[c]
               /\ attached' = [attached EXCEPT ![c] = @ \ {p}]
               /\ spent' = spent \cup {p}
               /\ sdefault' = IF sdefault[c] = p THEN [sdefault EXCEPT ![c] = NoPM]
                                                 ELSE sdefault
               /\ req' = [req EXCEPT ![r].list = @ \ {p}]
            \/ /\ p \notin attached[c]
               /\ Return(r)
               /\ UNCHANGED <<attached, sdefault, spent>>
    /\ UNCHANGED <<signup, sgCus, scus, splan, whEvents, trialsGranted, DB, started>>

\* AttachPaymentMethod: delete the customer's payment method rows.
ClearCustomerPaymentMethods(r) ==
    /\ req[r].pc = "clear"
    /\ dbPM' = DeleteDefaultPMRows(req[r].cus)
    /\ Goto(r, "storeDefault")
    /\ UNCHANGED <<signup, sgCus, Stripe, dbCus, dbTrial, dbPlan, started>>

\* The steps whose call may fail; the handler then returns the error.
Calls == {"getCustomer", "createCustomer", "storeCustomer", "attach",
          "cusUpdate", "setDefault", "customerGet", "trialRead", "subUpdate",
          "storeDefault", "list", "detach", "clear"}

Fail(r) ==
    /\ req[r].pc \in Calls
    /\ Return(r)
    /\ UNCHANGED <<signup, sgCus, Stripe, DB, started>>

(***************************************************************************)
(* HandlePMAttached: GetCustomerUserID fails for a customer without a row *)
(* (Stripe then redelivers); otherwise the event's card is upserted as   *)
(* the default, and Stripe may still deliver the event again.  The user  *)
(* has no connected customers, so the sync loop does nothing.            *)
(***************************************************************************)
HandlePMAttached ==
    \E e \in whEvents :
       /\ CustomerRowExists(e[2])
       /\ dbPM' = StoreDefaultPaymentMethod(e[2], e[1])
       /\ whEvents' \in {whEvents \ {e}, whEvents}
       /\ UNCHANGED <<signup, sgCus, scus, splan, attached, sdefault, spent,
                      trialsGranted, dbCus, dbTrial, dbPlan, req, started>>

Signup == SignupCreateCustomer \/ SignupStoreCustomer \/ SignupCreateSub
          \/ SignupStoreSub \/ SignupFail

\* The steps of a request other than the panic, which ends more than it.
Request(r) ==
    \/ Start(r) \/ GetCustomerByUserID(r) \/ CreateCustomer(r)
    \/ StoreCustomerDuplicate(r) \/ Attach(r) \/ UpdateDefaultPM(r)
    \/ CustomerGet(r) \/ HasCustomerUsedTrial(r) \/ SubUpdate(r)
    \/ StorePlatformSubscription(r) \/ StoreDefaultPM(r) \/ PMList(r)
    \/ PMDetach(r) \/ ClearCustomerPaymentMethods(r) \/ Fail(r)

\* Billing's steps that leave the session and the login handler alone.
BillingNext == Signup \/ (\E r \in Reqs : Request(r)) \/ HandlePMAttached

(***************************************************************************)
(* Properties.                                                            *)
(***************************************************************************)

\* The user's row says the trial was used only if Stripe has granted one:
\* signup's StoreSubscription stores without WithTrial, and UseTrial runs
\* only after a sub.Update succeeded, so no failure or crash between the
\* trial read, sub.Update and the stores marks a trial nobody got.
TrialMarkedOnlyIfGranted == dbTrial => trialsGranted >= 1

\* UpdatePlatformSubscription reads trial_used "If the user hasn't used the
\* trial, set the subscription param trial, otherwise do not set that
\* value": a user gets the free trial at most once.
TrialGrantedAtMostOnce == trialsGranted <= 1

=============================================================================
