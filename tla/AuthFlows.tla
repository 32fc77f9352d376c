------------------------------ MODULE AuthFlows ------------------------------
(***************************************************************************)
(* The routes /api/auth/... of handlers/auth.go on top of the sessions of  *)
(* SessionStore: authentication in the middleware, password login, logout, *)
(* password change, and the three kinds of mailed links of                 *)
(* services/email.go.  A request is served by one goroutine; each command  *)
(* it sends to Postgres, Redis or the mail provider is a step.             *)
(*                                                                         *)
(* A bcrypt hash stands for the password it was made from, a token hash    *)
(* for its token, an e-mail address for its user.  Users are registered    *)
(* beforehand.                                                             *)
(***************************************************************************)
EXTENDS SessionStore

CONSTANTS Password,     \* passwords that pass validatePassword
          Mail,         \* values GenerateToken of services/email.go can return
          Routes,       \* the routes clients use, a subset of Route
          WithCookie,   \* those to which they also send a cookie they hold
          MailOutcomes  \* how provider.Send may end

Guarded == {"logout", "me", "change", "resend"}        \* behind requireAuth
Sending == {"resend", "magic", "forgot"}               \* mail a link
Redeeming == {"magicVerify", "reset"}                  \* a link for a session
Route == Guarded \cup Sending \cup Redeeming \cup {"login", "verify"}
Kind == {"verify", "magic", "reset"}

ASSUME RoutesAssumption == Routes \cup WithCookie \subseteq Route
ASSUME MailAssumption == MailOutcomes \subseteq Outcome
ASSUME FlowNoneAssumption == None \notin Password \cup Mail \cup Kind \cup Route

VARIABLES
    password,  \* password[u]: password_hash in table users
    verified,  \* verified[u]: email_verified in table users
    mail,      \* mail[m]: the row of the link's table, and whose link it is
    inbox,     \* links that reached their addressee
    req,       \* req[p]: the request served with call p of AuthService
    opened,    \* history: links presented to the server
    uses       \* history: uses[m], how often m was answered with a session

flowVars == <<password, verified, mail, inbox, opened, uses>>
vars == <<storeVars, flowVars, req>>

NoMail == [kind |-> None, user |-> None, row |-> "absent"]
MailRow == [kind : Kind \cup {None}, user : User \cup {None},
            row : {"absent", "open", "used", "expired"}]

Stage == {"idle", "auth", "start", "mint", "send", "confirm", "purge", "mark", "find",
          "verifying", "fetch", "update", "revoking", "session", "opening", "deleting", "done"}

\* user, hash and confirmed: the user in the request context as the middleware
\* read it, or the one a handler looked up; given, new: the passwords in the
\* body; status: the answer.  Three fields record what held when the request
\* arrived: live, that the cookie of a guarded route was a usable session; held,
\* the sessions of an account changing its password that had a row; late, that
\* the link had been redeemed.
Request == [at : Stage, route : Route \cup {None}, cookie : Token \cup {None},
            user : User \cup {None}, hash : Password \cup {None}, confirmed : BOOLEAN,
            given : Password \cup {None}, new : Password \cup {None},
            link : Mail \cup {None}, status : {None, "ok", "denied", "error", "panic"},
            live : BOOLEAN, held : SUBSET Token, late : BOOLEAN]

Quiet == [at |-> "idle", route |-> None, cookie |-> None, user |-> None, hash |-> None,
          confirmed |-> FALSE, given |-> None, new |-> None, link |-> None, status |-> None,
          live |-> FALSE, held |-> {}, late |-> FALSE]

Go(p, stage) == req' = [req EXCEPT ![p].at = stage]
Answer(p, answer) == req' = [req EXCEPT ![p].at = "done", ![p].status = answer]
At(p, stage, routes) == req[p].at = stage /\ req[p].route \in routes

Init ==
    /\ StoreInit
    /\ password \in [User -> Password]
    /\ verified = [u \in User |-> FALSE]
    /\ mail = [m \in Mail |-> NoMail]
    /\ inbox = {}
    /\ req = [p \in Call |-> Quiet]
    /\ opened = {}
    /\ uses = [m \in Mail |-> 0]

-----------------------------------------------------------------------------
\* The middleware

Present(p, route, cookie, user, given, new, link) ==
    LET account == IF link # None THEN mail[link].user
                   ELSE IF cookie # None THEN issued[cookie] ELSE None
    IN  /\ req' = [req EXCEPT ![p] =
              [at |-> IF cookie = None THEN "start" ELSE "auth",
               route |-> route, cookie |-> cookie, user |-> user, hash |-> None,
               confirmed |-> FALSE, given |-> given, new |-> new, link |-> link,
               status |-> None, live |-> route \in Guarded /\ cookie \in Usable,
               held |-> IF route \notin {"change", "reset"} THEN {}
                        ELSE {t \in delivered : InPg(t) /\ issued[t] = account},
               late |-> link # None /\ uses[link] > 0]]
        /\ opened' = opened \cup ({link} \ {None})
        /\ IF cookie = None THEN UNCHANGED storeVars ELSE BeginValidate(p, cookie)

\* A client sends a request; any cookie or link it sends was given to it.
Arrive(p) ==
    /\ req[p].at = "idle"
    /\ \E route \in Routes :
       \E cookie \in IF route \in WithCookie THEN delivered \cup {None} ELSE {None},
          user \in IF route \in {"login", "magic", "forgot"} THEN User ELSE {None},
          given \in IF route \in {"login", "change"} THEN Password ELSE {None},
          new \in IF route \in {"change", "reset"} THEN Password ELSE {None},
          link \in IF route \in Redeeming \cup {"verify"} THEN inbox ELSE {None} :
          Present(p, route, cookie, user, given, new, link)
    /\ UNCHANGED <<password, verified, mail, inbox, uses>>

\* getUserByID at the end of ValidateSession reads the row handlers work with.
ReadContext(p) ==
    /\ req[p].at = "auth"
    /\ LookupUser(p)
    /\ req' = [req EXCEPT ![p].hash = password[call[p].user],
                          ![p].confirmed = verified[call[p].user]]
    /\ UNCHANGED flowVars

\* Mutant: the answer of ValidateSession is not looked at.
ContextUserUnchecked(p) == call[p].user

ContextUser(p) == IF call[p].at = "valid" THEN call[p].user ELSE None

\* Authenticate passes the request on with or without a user; only guarded
\* handlers look at it.
Authenticate(p) ==
    /\ req[p].at = "auth"
    /\ call[p].at \in {"valid", "rejected", "failed"}
    /\ req' = [req EXCEPT ![p].at = "start",
                          ![p].user = IF req[p].route \in Guarded THEN ContextUser(p) ELSE @]
    /\ Return(p)
    /\ UNCHANGED flowVars

RequireAuth(p) ==
    /\ At(p, "start", Guarded)
    /\ req[p].user = None
    /\ Answer(p, "denied")
    /\ UNCHANGED <<storeVars, flowVars>>

\* A command of the AuthService call the handler waits for.
ServiceStep(p) ==
    /\ \/ Create(p) \/ Delete(p) \/ DeleteAll(p)
       \/ RedisGet(p) \/ RedisExpire(p) \/ SelectSession(p) \/ CheckExpiry(p)
    /\ UNCHANGED <<flowVars, req>>

-----------------------------------------------------------------------------
\* Login, Logout, Me

Me(p) ==
    /\ At(p, "start", {"me"})
    /\ req[p].user # None
    /\ Answer(p, "ok")
    /\ UNCHANGED <<storeVars, flowVars>>

Login(p) ==
    /\ At(p, "start", {"login"})
    /\ \E o \in PgOutcomes :
          IF ~Reported(o) THEN Answer(p, "error")
          ELSE IF req[p].given # password[req[p].user] THEN Answer(p, "denied")
          ELSE Go(p, "session")
    /\ UNCHANGED <<storeVars, flowVars>>

Logout(p) ==
    /\ At(p, "start", {"logout"})
    /\ req[p].user # None
    /\ BeginDelete(p, req[p].cookie)
    /\ Go(p, "deleting")
    /\ UNCHANGED flowVars

\* Mutant: the handler does not wait for DeleteSession.
LoggedOutAtOnce(p) ==
    /\ req[p].at = "deleting"
    /\ call' = [call EXCEPT ![p] = Idle]
    /\ Answer(p, "ok")
    /\ UNCHANGED <<redis, pg, issued, delivered, flowVars>>

\* The error of DeleteSession is ignored.
LoggedOut(p) ==
    /\ req[p].at = "deleting"
    /\ call[p].at \in {"deleted", "failed"}
    /\ Return(p)
    /\ Answer(p, "ok")
    /\ UNCHANGED flowVars

-----------------------------------------------------------------------------
\* ChangePassword and the steps it shares with ResetPassword

\* The password is compared with the row the middleware read.
ChangePassword(p) ==
    /\ At(p, "start", {"change"})
    /\ req[p].user # None
    /\ IF req[p].given # req[p].hash THEN Answer(p, "denied") ELSE Go(p, "update")
    /\ UNCHANGED <<storeVars, flowVars>>

\* Mutant: a changed password leaves the account's sessions alone.
KeepSessions(p) ==
    Go(p, IF req[p].route = "reset" THEN "mark" ELSE "session") /\ UNCHANGED storeVars

AfterUpdate(p) ==
    IF req[p].route = "reset" THEN Go(p, "mark") /\ UNCHANGED storeVars
    ELSE Go(p, "revoking") /\ BeginDeleteAll(p, req[p].user)

UpdatePassword(p) ==
    /\ req[p].at = "update"
    /\ \E o \in PgOutcomes :
          /\ password' = IF Applied(o) THEN [password EXCEPT ![req[p].user] = req[p].new]
                         ELSE password
          /\ IF ~Reported(o) THEN Answer(p, "error") /\ UNCHANGED storeVars
             ELSE AfterUpdate(p)
    /\ UNCHANGED <<verified, mail, inbox, opened, uses>>

\* The error of DeleteAllUserSessions is ignored.
SessionsRevoked(p) ==
    /\ req[p].at = "revoking"
    /\ call[p].at \in {"revoked", "failed"}
    /\ Return(p)
    /\ Go(p, IF req[p].route = "reset" THEN "verifying" ELSE "session")
    /\ UNCHANGED flowVars

OpenSession(p) ==
    /\ req[p].at = "session"
    /\ BeginCreate(p, req[p].user)
    /\ Go(p, "opening")
    /\ UNCHANGED flowVars

SessionOpened(p) ==
    /\ req[p].at = "opening"
    /\ call[p].at \in {"created", "failed"}
    /\ Return(p)
    /\ Answer(p, IF call[p].at = "created" THEN "ok" ELSE "error")
    /\ uses' = IF req[p].route \in Redeeming /\ call[p].at = "created"
               THEN [uses EXCEPT ![req[p].link] = @ + 1] ELSE uses
    /\ UNCHANGED <<password, verified, mail, inbox, opened>>

-----------------------------------------------------------------------------
\* Links: sending them

ResendVerification(p) ==
    /\ At(p, "start", {"resend"})
    /\ req[p].user # None
    /\ IF req[p].confirmed THEN Answer(p, "denied") ELSE Go(p, "mint")
    /\ UNCHANGED <<storeVars, flowVars>>

\* MagicLink, ForgotPassword: the answer never tells whether GetByEmail failed.
RequestLink(p) ==
    /\ At(p, "start", {"magic", "forgot"})
    /\ \E o \in PgOutcomes : IF Reported(o) THEN Go(p, "mint") ELSE Answer(p, "ok")
    /\ UNCHANGED <<storeVars, flowVars>>

\* Mutant: links are kept under the name of the route.
RouteName(route) == route

\* The table of a route's links.
KindOf(route) == CASE route \in {"resend", "verify"}     -> "verify"
                   [] route \in {"magic", "magicVerify"} -> "magic"
                   [] route \in {"forgot", "reset"}      -> "reset"

\* Only ResendVerification reports that storing or sending the link failed.
Failure(p) == IF req[p].route = "resend" THEN "error" ELSE "ok"

MintLink(p) ==
    /\ req[p].at = "mint"
    /\ \E m \in Mail, o \in PgOutcomes :
          /\ mail[m].kind = None
          /\ mail' = [mail EXCEPT ![m] = [kind |-> KindOf(req[p].route), user |-> req[p].user,
                                          row |-> IF Applied(o) THEN "open" ELSE "absent"]]
          /\ IF Reported(o) THEN req' = [req EXCEPT ![p].at = "send", ![p].link = m]
             ELSE Answer(p, Failure(p))
    /\ UNCHANGED <<storeVars, password, verified, inbox, opened, uses>>

SendLink(p) ==
    /\ req[p].at = "send"
    /\ \E o \in MailOutcomes :
          /\ inbox' = IF Applied(o) THEN inbox \cup {req[p].link} ELSE inbox
          /\ Answer(p, IF Reported(o) THEN "ok" ELSE Failure(p))
    /\ UNCHANGED <<storeVars, password, verified, mail, opened, uses>>

-----------------------------------------------------------------------------
\* Links: redeeming them

\* Mutant: used_at is not looked at.
RedeemableTwice(m, route) == mail[m].kind = KindOf(route) /\ mail[m].row \in {"open", "used"}

Redeemable(m, route) == mail[m].kind = KindOf(route) /\ mail[m].row = "open"

\* VerifyEmail, VerifyMagicLink, VerifyPasswordResetToken look the link up in
\* the table of its kind; a failed query and a bad link are answered alike.
CheckLink(p) ==
    /\ At(p, "start", Redeeming \cup {"verify"})
    /\ \E o \in PgOutcomes :
          IF Reported(o) /\ Redeemable(req[p].link, req[p].route)
          THEN req' = [req EXCEPT ![p].user = mail[req[p].link].user,
                                  ![p].at = CASE req[p].route = "verify"      -> "confirm"
                                              [] req[p].route = "magicVerify" -> "mark"
                                              [] req[p].route = "reset"       -> "update"]
          ELSE Answer(p, "denied")
    /\ UNCHANGED <<storeVars, flowVars>>

\* The UPDATE does not look at used_at again, and its error is only logged.
MarkUsed(p) ==
    /\ req[p].at = "mark"
    /\ \E o \in PgOutcomes :
          mail' = IF Applied(o) /\ mail[req[p].link].row # "absent"
                  THEN [mail EXCEPT ![req[p].link].row = "used"] ELSE mail
    /\ IF req[p].route = "reset" THEN Go(p, "revoking") /\ BeginDeleteAll(p, req[p].user)
       ELSE Go(p, "find") /\ UNCHANGED storeVars
    /\ UNCHANGED <<password, verified, inbox, opened, uses>>

\* MagicLinkVerify: GetByEmail.
FindUser(p) ==
    /\ req[p].at = "find"
    /\ \E o \in PgOutcomes :
          IF ~Reported(o) THEN Answer(p, "denied")
          ELSE Go(p, IF verified[req[p].user] THEN "session" ELSE "verifying")
    /\ UNCHANGED <<storeVars, flowVars>>

\* Mutant: the UPDATE of users has no WHERE.
EverybodyVerified(u, o) == IF Applied(o) THEN [v \in User |-> TRUE] ELSE verified

WithVerified(u, o) == IF Applied(o) THEN [verified EXCEPT ![u] = TRUE] ELSE verified

\* MarkEmailVerified; its error is only logged.
MarkVerified(p) ==
    /\ req[p].at = "verifying"
    /\ \E o \in PgOutcomes :
          /\ verified' = WithVerified(req[p].user, o)
          /\ Go(p, IF req[p].route = "reset" \/ Reported(o) THEN "fetch" ELSE "session")
    /\ UNCHANGED <<storeVars, password, mail, inbox, opened, uses>>

\* GetByID; MagicLinkVerify drops its error and goes on with a nil user.
FetchUser(p) ==
    /\ req[p].at = "fetch"
    /\ \E o \in PgOutcomes :
          IF Reported(o) THEN Go(p, "session")
          ELSE Answer(p, IF req[p].route = "reset" THEN "error" ELSE "panic")
    /\ UNCHANGED <<storeVars, flowVars>>

\* VerifyEmail: the UPDATE of users, then the DELETE of all the user's links.
ConfirmEmail(p) ==
    /\ req[p].at = "confirm"
    /\ \E o \in PgOutcomes :
          /\ verified' = WithVerified(req[p].user, o)
          /\ IF Reported(o) THEN Go(p, "purge") ELSE Answer(p, "denied")
    /\ UNCHANGED <<storeVars, password, mail, inbox, opened, uses>>

PurgeLinks(p) ==
    /\ req[p].at = "purge"
    /\ \E o \in PgOutcomes :
          mail' = IF Applied(o)
                  THEN [m \in Mail |-> IF mail[m].kind = "verify" /\ mail[m].user = req[p].user
                                       THEN [mail[m] EXCEPT !.row = "absent"] ELSE mail[m]]
                  ELSE mail
    /\ Answer(p, "ok")
    /\ UNCHANGED <<storeVars, password, verified, inbox, opened, uses>>

-----------------------------------------------------------------------------
\* The end of a request, and the environment

\* The response has been written.
Finish(p) ==
    /\ req[p].at = "done"
    /\ req' = [req EXCEPT ![p] = Quiet]
    /\ UNCHANGED <<storeVars, flowVars>>

\* The server process dies with the requests it serves.
ServerCrash ==
    /\ \E p \in Call : req[p].at # "idle"
    /\ req' = [p \in Call |-> Quiet]
    /\ IF \E p \in Call : call[p].at # "idle" THEN Crash ELSE UNCHANGED storeVars
    /\ UNCHANGED flowVars

\* A link reaches its expires_at.
LinkExpires(m) ==
    /\ mail[m].row = "open"
    /\ mail' = [mail EXCEPT ![m].row = "expired"]
    /\ UNCHANGED <<storeVars, password, verified, inbox, req, opened, uses>>

TimePasses ==
    /\ Tick \/ \E t \in Token : RedisLoss(t)
    /\ UNCHANGED <<flowVars, req>>

Serve(p) ==
    \/ Arrive(p) \/ ReadContext(p) \/ Authenticate(p) \/ RequireAuth(p) \/ ServiceStep(p)
    \/ Me(p) \/ Login(p) \/ Logout(p) \/ LoggedOut(p)
    \/ ChangePassword(p) \/ UpdatePassword(p) \/ SessionsRevoked(p)
    \/ OpenSession(p) \/ SessionOpened(p)
    \/ ResendVerification(p) \/ RequestLink(p) \/ MintLink(p) \/ SendLink(p)
    \/ CheckLink(p) \/ MarkUsed(p) \/ FindUser(p) \/ MarkVerified(p) \/ FetchUser(p)
    \/ ConfirmEmail(p) \/ PurgeLinks(p)
    \/ Finish(p)

Next == \/ \E p \in Call : Serve(p)
        \/ \E m \in Mail : LinkExpires(m)
        \/ TimePasses
        \/ ServerCrash

Spec == Init /\ [][Next]_vars

-----------------------------------------------------------------------------
\* Properties

AuthTypeOK ==
    /\ TypeOK
    /\ password \in [User -> Password]
    /\ verified \in [User -> BOOLEAN]
    /\ mail \in [Mail -> MailRow]
    /\ inbox \subseteq Mail
    /\ req \in [Call -> Request]
    /\ opened \subseteq Mail
    /\ uses \in [Mail -> Nat]

\* The handler behind requireAuth is running or has run.
Admitted(p) == /\ At(p, req[p].at, Guarded)
               /\ req[p].at \notin {"idle", "auth", "start"}
               /\ req[p].status # "denied"

\* A guarded handler only runs for a request whose cookie was a usable session
\* when it arrived, and as the user that session was opened for, though the
\* session may be deleted, expire or lose its key while it is being checked.
AdmittedBySession ==
    \A p \in Call : Admitted(p) =>
        req[p].live /\ req[p].user = issued[req[p].cookie]

\* Once a password change or reset is answered with success, no session of the
\* account that was kept in Postgres when the request arrived is there still.
AnsweredMeansRevoked ==
    \A p \in Call :
        At(p, "done", {"change", "reset"}) /\ req[p].status = "ok" =>
            \A t \in req[p].held : ~InPg(t)

\* A magic or reset link that has been answered with a session is refused to
\* every later request, before anything is done for it.
RedeemedIsSpent ==
    \A p \in Call : req[p].late /\ req[p].route \in Redeeming =>
        req[p].at \in {"auth", "start"} \/ req[p].status = "denied"

\* An address only counts as verified once somebody presented a link that was
\* mailed to it.
VerifiedByMail ==
    \A u \in User : verified[u] => \E m \in opened : mail[m].user = u

\* services/email.go:368 tells the addressee of a magic link that it "can only
\* be used once", :419 the addressee of a reset link.
LinkUsedOnce == \A m \in Mail : uses[m] <= 1

\* handlers/auth.go:215 "Verify current password": whoever changes a password
\* with the form knows the one he replaces.
CurrentPasswordVerified ==
    [][\A p \in Call, u \in User :
          At(p, "update", {"change"}) /\ password'[u] # password[u]
             /\ req'[p].at = "revoking" =>
          req[p].given = password[u]]_vars
=============================================================================
