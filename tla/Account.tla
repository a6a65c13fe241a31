------------------------------ MODULE Account ------------------------------
(***************************************************************************)
(* The login handlers of auth.go for one person with one email address,   *)
(* composed with their billing (Billing).  googleAuthentication           *)
(* (GoogleCallback, GoogleOneTap) and EmailSignup create the users row    *)
(* and then the Stripe customer and free subscription (Billing's signup   *)
(* call); EmailSignin, EmailVerify, ChangePassword and ResetPassword work *)
(* on the row; a successful login gives the person a session, which lets  *)
(* Billing's payment requests through.                                    *)
(*                                                                         *)
(* The users row is keyed by user id: Google's subject for a Google       *)
(* signup, a fresh uuid for an email signup.  customers is keyed by the   *)
(* same id, so a Google login finds the customer row only of a row made   *)
(* by a Google signup.  One login request is in flight at a time; every   *)
(* database, Stripe or redis call may fail and the handler returns.       *)
(***************************************************************************)
EXTENDS Billing

CONSTANTS
    MaxAuth,    \* bound on the login and account requests made
    MaxPwd      \* bound on the password updates

VARIABLES
    user,       \* users row with the email: "none", or the kind of its id
    verified,   \* users.email_verified
    pwd,        \* how many times the password was updated
    link,       \* the person holds an unexpired email verification JWT
    aop,        \* the login handler in flight, "none" if none
    apc,        \* its program counter
    authStarted \* login and account requests made so far

accountVars == <<user, verified, pwd, link, aop, apc, authStarted>>
vars == <<session, signup, billingVars, accountVars>>

AuthOps == {"google", "signup", "signin"}

TypeOK ==
    /\ BillingTypeOK
    /\ user \in {"none", "google", "email"}
    /\ verified \in BOOLEAN
    /\ pwd \in 0..MaxPwd
    /\ link \in BOOLEAN
    /\ aop \in AuthOps \cup {"none"}
    /\ apc \in {"idle", "getCustomer", "getUser", "usernameExists", "emailExists",
                "createUser", "createCustomer", "verificationJWT", "getUserID",
                "getPassword", "setNew"}
    /\ authStarted \in 0..MaxAuth

Init ==
    /\ BillingInit
    /\ session = FALSE
    /\ user = "none"
    /\ verified = FALSE
    /\ pwd = 0
    /\ link = FALSE
    /\ aop = "none"
    /\ apc = "idle"
    /\ authStarted = 0

Call(op, pc) ==
    /\ apc = "idle"
    /\ authStarted < MaxAuth
    /\ aop' = op
    /\ apc' = pc
    /\ authStarted' = authStarted + 1

AuthGoto(pc) == apc' = pc /\ UNCHANGED <<aop, authStarted>>
AuthReturn == apc' = "idle" /\ aop' = "none" /\ UNCHANGED authStarted

\* GoogleCallback and GoogleOneTap: googleAuthentication with the subject,
\* name and email extauth put in the metadata.
GoogleAuthentication ==
    /\ Call("google", "getCustomer")
    /\ UNCHANGED <<session, signup, billingVars, user, verified, pwd, link>>

\* Signin decided by the users row instead of the customer row.
GoogleGetCustomerByUser ==
    /\ apc = "getCustomer"
    /\ AuthGoto(IF user = "google" THEN "getUser" ELSE "emailExists")
    /\ UNCHANGED <<session, signup, billingVars, user, verified, pwd, link>>

\* GetCustomerByUserID decides between signin and signup: no customer row
\* for Google's id (ErrNoCustomer) means the user is signing up.
GoogleGetCustomer ==
    /\ apc = "getCustomer"
    /\ AuthGoto(IF user = "google" /\ dbCus # NoCus THEN "getUser" ELSE "emailExists")
    /\ UNCHANGED <<session, signup, billingVars, user, verified, pwd, link>>

\* Signin: GetUser of the row, which the customer row's presence implies.
GoogleGetUser ==
    /\ apc = "getUser"
    /\ AuthGoto("setNew")
    /\ UNCHANGED <<session, signup, billingVars, user, verified, pwd, link>>

\* EmailSignup with a fresh uuid, then createUser's checks.
EmailSignup ==
    /\ Call("signup", "usernameExists")
    /\ UNCHANGED <<session, signup, billingVars, user, verified, pwd, link>>

\* createUser (local): the username is taken by an earlier email signup.
UsernameExists ==
    /\ apc = "usernameExists"
    /\ IF user = "email" THEN AuthReturn ELSE AuthGoto("emailExists")
    /\ UNCHANGED <<session, signup, billingVars, user, verified, pwd, link>>

\* createUser: "email already exists" for any row with the email.
EmailExists ==
    /\ apc = "emailExists"
    /\ IF user # "none" THEN AuthReturn ELSE AuthGoto("createUser")
    /\ UNCHANGED <<session, signup, billingVars, user, verified, pwd, link>>

(***************************************************************************)
(* createUser inserts the row; then createCustomer (inline in             *)
(* googleAuthentication) runs Billing's signup call.                      *)
(***************************************************************************)
CreateUser ==
    /\ apc = "createUser"
    /\ user' = IF aop = "google" THEN "google" ELSE "email"
    /\ signup' = "createCustomer"
    /\ AuthGoto("createCustomer")
    /\ UNCHANGED <<session, billingVars, verified, pwd, link>>

\* createCustomer returns: on its error the handler returns it.
CreateCustomerReturns ==
    /\ apc = "createCustomer"
    /\ signup \in {"ok", "err"}
    /\ signup' = "idle"
    /\ IF signup = "err" THEN AuthReturn
       ELSE AuthGoto(IF aop = "google" THEN "setNew" ELSE "verificationJWT")
    /\ UNCHANGED <<session, billingVars, user, verified, pwd, link>>

\* EmailSignup: createVerificationJWT, mailed by smtp.SendMail.
VerificationJWT ==
    /\ apc = "verificationJWT"
    /\ link' = TRUE
    /\ AuthGoto("setNew")
    /\ UNCHANGED <<session, signup, billingVars, user, verified, pwd>>

\* EmailSignin: GetUserIDFromEmail, then GetPassword, NULL for a Google row.
EmailSignin ==
    /\ Call("signin", "getUserID")
    /\ UNCHANGED <<session, signup, billingVars, user, verified, pwd, link>>

GetUserIDFromEmail ==
    /\ apc = "getUserID"
    /\ IF user = "none" THEN AuthReturn ELSE AuthGoto("getPassword")
    /\ UNCHANGED <<session, signup, billingVars, user, verified, pwd, link>>

GetPassword ==
    /\ apc = "getPassword"
    /\ IF user = "google" THEN AuthReturn ELSE AuthGoto("setNew")
    /\ UNCHANGED <<session, signup, billingVars, user, verified, pwd, link>>

\* sm.SetNew and the Set-Cookie header; EmailSignin's GetUser afterwards
\* can only turn the answer into an error, with the cookie already sent.
SetNew ==
    /\ apc = "setNew"
    /\ session' = TRUE
    /\ AuthReturn
    /\ UNCHANGED <<signup, billingVars, user, verified, pwd, link>>

\* The steps whose call may fail; the handler then returns the error.
AuthCalls == {"getCustomer", "getUser", "usernameExists", "emailExists",
              "createUser", "verificationJWT", "getUserID", "getPassword", "setNew"}

AuthFail ==
    /\ apc \in AuthCalls
    /\ AuthReturn
    /\ UNCHANGED <<session, signup, billingVars, user, verified, pwd, link>>

\* EmailVerify, for the session's user, with the JWT from the email.
EmailVerify ==
    /\ session /\ link
    /\ authStarted < MaxAuth
    /\ verified' = TRUE
    /\ authStarted' = authStarted + 1
    /\ UNCHANGED <<session, signup, billingVars, user, pwd, link, aop, apc>>

\* ChangePassword: email_verified must be set and the old password right.
ChangePassword ==
    /\ session /\ user = "email" /\ verified
    /\ authStarted < MaxAuth /\ pwd < MaxPwd
    /\ pwd' = pwd + 1
    /\ authStarted' = authStarted + 1
    /\ UNCHANGED <<session, signup, billingVars, user, verified, link, aop, apc>>

\* ResetPassword (unauthenticated): any unexpired JWT signed with the
\* client secret names the user whose password it sets.
ResetPassword ==
    /\ link
    /\ authStarted < MaxAuth /\ pwd < MaxPwd
    /\ pwd' = pwd + 1
    /\ authStarted' = authStarted + 1
    /\ UNCHANGED <<session, signup, billingVars, user, verified, link, aop, apc>>

\* The verification JWT expires (VerificationTknExpiry).
LinkExpires ==
    /\ link
    /\ link' = FALSE
    /\ UNCHANGED <<session, signup, billingVars, user, verified, pwd, aop, apc, authStarted>>

\* The session ends: SignOut or expiry (modelled in Session).
SessionEnds ==
    /\ session
    /\ session' = FALSE
    /\ UNCHANGED <<signup, billingVars, accountVars>>

\* SubscribeToPlan's panic ends the process, and the login handler with it.
Panic ==
    /\ \E r \in Reqs : StoreCustomerPanic(r)
    /\ apc' = "idle" /\ aop' = "none"
    /\ UNCHANGED <<session, user, verified, pwd, link, authStarted>>

AccountNext ==
    \/ GoogleAuthentication \/ GoogleGetCustomer \/ GoogleGetUser
    \/ EmailSignup \/ UsernameExists \/ EmailExists \/ CreateUser
    \/ CreateCustomerReturns \/ VerificationJWT \/ EmailSignin
    \/ GetUserIDFromEmail \/ GetPassword \/ SetNew \/ AuthFail
    \/ EmailVerify \/ ChangePassword \/ ResetPassword \/ LinkExpires
    \/ SessionEnds

Next ==
    \/ AccountNext
    \/ BillingNext /\ UNCHANGED <<session, accountVars>>
    \/ Panic

Spec == Init /\ [][Next]_vars

(***************************************************************************)
(* Properties.                                                            *)
(***************************************************************************)

\* A person signed in with Google has a customer row: googleAuthentication
\* gives a session either on the signin branch, taken only when
\* GetCustomerByUserID found the row, or after its own createCustomer
\* stored one, and nothing deletes the row.
GoogleSessionHasCustomer == session /\ user = "google" => dbCus # NoCus

=============================================================================
