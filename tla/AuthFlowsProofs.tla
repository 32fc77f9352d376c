-------------------------- MODULE AuthFlowsProofs --------------------------
(***************************************************************************)
(* Proofs about AuthFlows, for any number of requests, users, sessions and *)
(* links: the routes use the sessions only through AuthService, so what is *)
(* proved of SessionStore holds for them, and the invariants that relate a *)
(* request to its session, its link and its account.                       *)
(***************************************************************************)
EXTENDS AuthFlows, SessionStoreProofs

WithLink == Redeeming \cup {"verify"}

\* The handler has taken the request up and has not answered it.
Handling(p) == req[p].at \notin {"idle", "auth", "start", "done"}

FlowTypeOK ==
    /\ password \in [User -> Password]
    /\ verified \in [User -> BOOLEAN]
    /\ mail \in [Mail -> MailRow]
    /\ inbox \subseteq Mail
    /\ req \in [Call -> Request]
    /\ opened \subseteq Mail
    /\ uses \in [Mail -> Nat]

\* A link that has been generated is somebody's, and only such are mailed.
MailInv ==
    /\ opened \subseteq inbox
    /\ \A m \in inbox : mail[m].kind # None
    /\ \A m \in Mail : mail[m].kind # None => mail[m].user \in User

\* Where a handler can be, by the route it serves.
StageFacts(p) ==
    /\ req[p].at # "idle" => req[p].route \in Route
    /\ req[p].at \in {"mint", "send"} => req[p].route \in Sending
    /\ req[p].at \in {"confirm", "purge"} => req[p].route = "verify"
    /\ req[p].at = "find" => req[p].route = "magicVerify"
    /\ req[p].at \in {"mark", "verifying", "fetch"} => req[p].route \in Redeeming
    /\ req[p].at \in {"update", "revoking"} => req[p].route \in {"change", "reset"}
    /\ req[p].at \in {"session", "opening"} =>
          req[p].route \in Redeeming \cup {"login", "change"}
    /\ req[p].at = "deleting" => req[p].route = "logout"

\* What the client sent was given to it.
InputFacts(p) ==
    req[p].at # "idle" =>
        /\ req[p].route \in {"login", "magic", "forgot"} => req[p].user \in User
        /\ req[p].route \in {"change", "reset"} => req[p].new \in Password
        /\ req[p].route \in WithLink => req[p].link \in opened
        /\ req[p].cookie # None => req[p].cookie \in delivered

\* Whose request it is once a handler has taken it up.
UserFacts(p) ==
    /\ Handling(p) => req[p].user \in User
    /\ Handling(p) /\ req[p].route \in WithLink => req[p].user = mail[req[p].link].user
    /\ req[p].at = "send" => req[p].link \in Mail /\ mail[req[p].link].kind # None

\* While the middleware waits, its call is about the cookie and remembers
\* whether it was usable; a user in the context is the one of that session.
GuardFacts(p) ==
    /\ req[p].at = "auth" =>
          /\ req[p].cookie \in delivered
          /\ call[p].tok = req[p].cookie
          /\ req[p].route \in Guarded /\ req[p].cookie \in call[p].before => req[p].live
    /\ req[p].route \in Guarded /\ req[p].at \notin {"idle", "auth"} /\ req[p].user # None =>
          req[p].live /\ req[p].cookie \in delivered /\ req[p].user = issued[req[p].cookie]
    /\ Admitted(p) => req[p].user # None

RequestFacts(p) == StageFacts(p) /\ InputFacts(p) /\ UserFacts(p) /\ GuardFacts(p)

RequestInv == \A p \in Call : RequestFacts(p)

FlowInv == IInv /\ FlowTypeOK /\ MailInv /\ RequestInv

\* With a Postgres that carries out what it is asked, a link that has brought a
\* session is not open, nor is one a handler has marked.
Marked == {"find", "verifying", "fetch", "revoking", "session", "opening"}

SpentFacts(p) ==
    /\ req[p].route \in Redeeming /\ req[p].at \in Marked => mail[req[p].link].row # "open"
    /\ req[p].late /\ req[p].route \in Redeeming =>
          /\ uses[req[p].link] > 0
          /\ req[p].at \in {"auth", "start"} \/ (req[p].at = "done" /\ req[p].status = "denied")

SpentInv ==
    /\ \A m \in Mail : uses[m] > 0 => mail[m].kind # None /\ mail[m].row # "open"
    /\ \A p \in Call : SpentFacts(p)

\* The sessions a request must end are those of its account; they have no row
\* any more when DeleteAllUserSessions is over.
Revoked(p) == \A t \in req[p].held : ~InPg(t)

AccountOf(p) == IF req[p].route = "reset" THEN mail[req[p].link].user ELSE issued[req[p].cookie]

PastRevoking(p) == \/ req[p].at \in {"verifying", "fetch", "session", "opening"}
                   \/ req[p].at = "done" /\ req[p].status = "ok"

HeldFacts(p) ==
    /\ req[p].held \subseteq delivered
    /\ req[p].at # "idle" /\ req[p].held # {} =>
          /\ req[p].route \in {"change", "reset"}
          /\ req[p].route = "change" => req[p].cookie # None
          /\ \A t \in req[p].held : issued[t] = AccountOf(p)

RevokedFacts(p) ==
    /\ HeldFacts(p)
    /\ req[p].at = "revoking" =>
          /\ call[p].at \in Revoking \cup {"revoked"}
          /\ call[p].at \in Revoking => call[p].user = req[p].user
          /\ call[p].at = "revoked" => Revoked(p)
    /\ req[p].route \in {"change", "reset"} /\ PastRevoking(p) => Revoked(p)

RevokedInv == \A p \in Call : RevokedFacts(p)

-----------------------------------------------------------------------------
\* The effect of a handler's step on its request

Others(p) == \A q \in Call \ {p} : req'[q] = req[q]

\* What the client sent, and what held then, is not changed while it is served.
Carried(p) ==
    /\ Others(p)
    /\ req'[p].route = req[p].route /\ req'[p].cookie = req[p].cookie
    /\ req'[p].given = req[p].given /\ req'[p].new = req[p].new
    /\ req'[p].live = req[p].live /\ req'[p].held = req[p].held
    /\ req'[p].late = req[p].late

\* Everything but at and status stays.
Kept(p) ==
    /\ Carried(p)
    /\ req'[p].user = req[p].user /\ req'[p].hash = req[p].hash
    /\ req'[p].confirmed = req[p].confirmed /\ req'[p].link = req[p].link

\* A handler on one of the routes goes on from one stage to one of others.
Goes(p, from, routes, stages) ==
    At(p, from, routes) /\ req'[p].at \in stages /\ req'[p].status = req[p].status

\* A handler on one of the routes answers.
Ends(p, from, routes, answers) ==
    At(p, from, routes) /\ req'[p].at = "done" /\ req'[p].status \in answers

\* A request without fields is well typed.
LEMMA QuietTyped == Quiet \in Request
  BY DEF Quiet, Request, Stage

\* Go moves one request on and keeps the rest of it.
LEMMA GoEffect ==
    ASSUME req \in [Call -> Request], NEW p \in Call, NEW stage \in Stage, Go(p, stage)
    PROVE  /\ req' \in [Call -> Request]
           /\ Kept(p)
           /\ req'[p].at = stage /\ req'[p].status = req[p].status
  BY DEF Go, Kept, Carried, Others, Request

\* Answer does the same and records the answer.
LEMMA AnswerEffect ==
    ASSUME req \in [Call -> Request], NEW p \in Call,
           NEW answer \in {"ok", "denied", "error", "panic"}, Answer(p, answer)
    PROVE  /\ req' \in [Call -> Request]
           /\ Kept(p)
           /\ req'[p].at = "done" /\ req'[p].status = answer
<1>1. req'[p] = [req[p] EXCEPT !.at = "done", !.status = answer] /\ Others(p)
  BY DEF Answer, Others
<1>2. req[p] \in Request
  OBVIOUS
<1>3. req'[p] \in Request
  BY <1>1, <1>2 DEF Request, Stage
<1>4. req' \in [Call -> Request]
  BY <1>3 DEF Answer
<1> QED
  BY <1>1, <1>2, <1>4 DEF Kept, Carried, Request

\* The steps of handlers that write nothing into their request but at and
\* status, by the routes they serve: the control flow of handlers/auth.go.
Moved(p) ==
    /\ req' \in [Call -> Request]
    /\ Kept(p)
    /\ \/ Ends(p, "start", Guarded, {"denied"})
       \/ Ends(p, "start", {"me"}, {"ok"}) /\ req[p].user # None
       \/ Ends(p, "start", {"login"}, {"denied", "error"})
       \/ Ends(p, "start", {"magic", "forgot"}, {"ok"})
       \/ Ends(p, "start", WithLink, {"denied"})
       \/ Goes(p, "start", {"login"}, {"session"})
       \/ Goes(p, "start", {"magic", "forgot"}, {"mint"})
       \/ Goes(p, "start", {"logout"}, {"deleting"}) /\ req[p].user # None
       \/ Goes(p, "start", {"change"}, {"update"}) /\ req[p].user # None
       \/ Goes(p, "start", {"resend"}, {"mint"}) /\ req[p].user # None
       \/ Ends(p, "deleting", {"logout"}, {"ok"})
       \/ Ends(p, "mint", Sending, {"ok", "error"})
       \/ Ends(p, "send", Sending, {"ok", "error"})
       \/ Ends(p, "update", {"change", "reset"}, {"error"})
       \/ Goes(p, "update", {"change"}, {"revoking"})
       \/ Goes(p, "update", {"reset"}, {"mark"})
       \/ Goes(p, "mark", {"reset"}, {"revoking"})
       \/ Goes(p, "mark", {"magicVerify"}, {"find"})
       \/ Goes(p, "revoking", {"change"}, {"session"})
       \/ Goes(p, "revoking", {"reset"}, {"verifying"})
       \/ Ends(p, "find", {"magicVerify"}, {"denied"})
       \/ Goes(p, "find", {"magicVerify"}, {"verifying", "session"})
       \/ Goes(p, "verifying", Redeeming, {"fetch", "session"})
       \/ Ends(p, "fetch", Redeeming, {"error", "panic"})
       \/ Goes(p, "fetch", Redeeming, {"session"})
       \/ Ends(p, "confirm", {"verify"}, {"denied"})
       \/ Goes(p, "confirm", {"verify"}, {"purge"})
       \/ Ends(p, "purge", {"verify"}, {"ok"})
       \/ Goes(p, "session", Redeeming \cup {"login", "change"}, {"opening"})
       \/ Ends(p, "opening", Redeeming \cup {"login", "change"}, {"ok", "error"})

\* The steps of a handler that are so.
Handle(p) ==
    \/ RequireAuth(p) \/ Me(p) \/ Login(p) \/ Logout(p) \/ LoggedOut(p)
    \/ ChangePassword(p) \/ UpdatePassword(p) \/ SessionsRevoked(p)
    \/ OpenSession(p) \/ SessionOpened(p)
    \/ ResendVerification(p) \/ RequestLink(p) \/ SendLink(p)
    \/ MarkUsed(p) \/ FindUser(p) \/ MarkVerified(p) \/ FetchUser(p)
    \/ ConfirmEmail(p) \/ PurgeLinks(p)

\* The handlers follow the table.
LEMMA HandlerMoves ==
    ASSUME req \in [Call -> Request], NEW p \in Call, StageFacts(p), Handle(p)
    PROVE  Moved(p)
<1>1. ASSUME NEW a \in {"ok", "denied", "error", "panic"}, Answer(p, a)
      PROVE  /\ req' \in [Call -> Request] /\ Kept(p)
             /\ req'[p].at = "done" /\ req'[p].status = a
  BY <1>1, AnswerEffect
<1>2. ASSUME NEW stage \in Stage, Go(p, stage)
      PROVE  /\ req' \in [Call -> Request] /\ Kept(p)
             /\ req'[p].at = stage /\ req'[p].status = req[p].status
  BY <1>2, GoEffect
<1> {"session", "deleting", "update", "mint", "mark", "revoking", "find", "verifying",
     "fetch", "purge", "opening"} \subseteq Stage
  BY DEF Stage
<1> USE DEF Moved, Ends, Goes, At
<1>3. CASE RequireAuth(p)
  BY <1>1, <1>3 DEF RequireAuth
<1>4. CASE Me(p)
  BY <1>1, <1>4 DEF Me
<1>5. CASE Login(p)
  BY <1>1, <1>2, <1>5 DEF Login
<1>6. CASE Logout(p)
  BY <1>2, <1>6 DEF Logout
<1>7. CASE LoggedOut(p)
  BY <1>1, <1>7 DEF LoggedOut, StageFacts
<1>8. CASE ChangePassword(p)
  BY <1>1, <1>2, <1>8 DEF ChangePassword, Guarded
<1>9. CASE UpdatePassword(p)
  BY <1>1, <1>2, <1>9 DEF UpdatePassword, AfterUpdate, StageFacts
<1>10. CASE SessionsRevoked(p)
  BY <1>2, <1>10 DEF SessionsRevoked, StageFacts
<1>11. CASE OpenSession(p)
  BY <1>2, <1>11 DEF OpenSession, StageFacts
<1>12. CASE SessionOpened(p)
  BY <1>1, <1>12 DEF SessionOpened, StageFacts
<1>13. CASE ResendVerification(p)
  BY <1>1, <1>2, <1>13 DEF ResendVerification, Guarded
<1>14. CASE RequestLink(p)
  BY <1>1, <1>2, <1>14 DEF RequestLink
<1>15. CASE SendLink(p)
  BY <1>1, <1>15 DEF SendLink, StageFacts, Failure
<1>16. CASE MarkUsed(p)
  BY <1>2, <1>16 DEF MarkUsed, StageFacts, Redeeming
<1>17. CASE FindUser(p)
  BY <1>1, <1>2, <1>17 DEF FindUser, StageFacts
<1>18. CASE MarkVerified(p)
  BY <1>2, <1>18 DEF MarkVerified, StageFacts
<1>19. CASE FetchUser(p)
  BY <1>1, <1>2, <1>19 DEF FetchUser, StageFacts
<1>20. CASE ConfirmEmail(p)
  BY <1>1, <1>2, <1>20 DEF ConfirmEmail, StageFacts
<1>21. CASE PurgeLinks(p)
  BY <1>1, <1>21 DEF PurgeLinks, StageFacts
<1> QED
  BY <1>3, <1>4, <1>5, <1>6, <1>7, <1>8, <1>9, <1>10, <1>11, <1>12, <1>13, <1>14, <1>15,
     <1>16, <1>17, <1>18, <1>19, <1>20, <1>21 DEF Handle

-----------------------------------------------------------------------------
\* The routes use the sessions only through AuthService

\* Arrive gives the request one of the cookies and links the client was given.
Arrived(p) ==
    /\ req' \in [Call -> Request] /\ Others(p)
    /\ req[p].at = "idle"
    /\ req'[p].at = IF req'[p].cookie = None THEN "start" ELSE "auth"
    /\ req'[p].route \in Route
    /\ req'[p].cookie # None => req'[p].cookie \in delivered
    /\ req'[p].route \in {"login", "magic", "forgot"} => req'[p].user \in User
    /\ req'[p].route \in Guarded => req'[p].user = None
    /\ req'[p].route \in {"change", "reset"} => req'[p].new \in Password
    /\ req'[p].link \in (IF req'[p].route \in WithLink THEN inbox ELSE {None})
    /\ req'[p].live = (req'[p].route \in Guarded /\ req'[p].cookie \in Usable)
    /\ req'[p].held \subseteq {t \in delivered : InPg(t) /\ issued[t] = AccountOf(p)'}
    /\ req'[p].held # {} => req'[p].route \in {"change", "reset"}
    /\ req'[p].held # {} /\ req'[p].route = "change" => req'[p].cookie # None
    /\ req'[p].late = (req'[p].link # None /\ uses[req'[p].link] > 0)
    /\ opened' = opened \cup ({req'[p].link} \ {None})
    /\ UNCHANGED <<issued, delivered, password, verified, mail, inbox, uses>>
    /\ IF req'[p].cookie = None THEN UNCHANGED storeVars ELSE BeginValidate(p, req'[p].cookie)

\* What Arrive does to the request, field by field.
LEMMA ArriveEffect ==
    ASSUME FlowInv, NEW p \in Call, Arrive(p)
    PROVE  Arrived(p)
<1>0. TypeOK /\ FlowTypeOK
  BY DEF FlowInv, IInv
<1>a. PICK route \in Routes :
       \E cookie \in IF route \in WithCookie THEN delivered \cup {None} ELSE {None},
          user \in IF route \in {"login", "magic", "forgot"} THEN User ELSE {None},
          given \in IF route \in {"login", "change"} THEN Password ELSE {None},
          new \in IF route \in {"change", "reset"} THEN Password ELSE {None},
          link \in IF route \in Redeeming \cup {"verify"} THEN inbox ELSE {None} :
          Present(p, route, cookie, user, given, new, link)
  BY DEF Arrive
<1>1. PICK cookie \in IF route \in WithCookie THEN delivered \cup {None} ELSE {None},
          user \in IF route \in {"login", "magic", "forgot"} THEN User ELSE {None},
          given \in IF route \in {"login", "change"} THEN Password ELSE {None},
          new \in IF route \in {"change", "reset"} THEN Password ELSE {None},
          link \in IF route \in Redeeming \cup {"verify"} THEN inbox ELSE {None} :
          Present(p, route, cookie, user, given, new, link)
  BY <1>a
<1> DEFINE account == IF link # None THEN mail[link].user
                      ELSE IF cookie # None THEN issued[cookie] ELSE None
           held == IF route \notin {"change", "reset"} THEN {}
                   ELSE {t \in delivered : InPg(t) /\ issued[t] = account}
           live == route \in Guarded /\ cookie \in Usable
           late == link # None /\ uses[link] > 0
           at == IF cookie = None THEN "start" ELSE "auth"
           new_req == [at |-> at, route |-> route, cookie |-> cookie, user |-> user,
                       hash |-> None, confirmed |-> FALSE, given |-> given, new |-> new,
                       link |-> link, status |-> None, live |-> live, held |-> held,
                       late |-> late]
<1>3. req' = [req EXCEPT ![p] = new_req]
  BY <1>1 DEF Present
<1>4. /\ route \in Route /\ cookie \in Token \cup {None} /\ user \in User \cup {None}
      /\ given \in Password \cup {None} /\ new \in Password \cup {None}
      /\ link \in Mail \cup {None} /\ held \subseteq Token
      /\ live \in BOOLEAN /\ late \in BOOLEAN /\ at \in Stage
  BY <1>0, <1>1, RoutesAssumption DEF TypeOK, FlowTypeOK, Stage
<1> HIDE DEF account, held, live, late, at
<1>5. new_req \in Request
  BY <1>4 DEF Request
<1>6. /\ new_req.at = at /\ new_req.route = route /\ new_req.cookie = cookie
      /\ new_req.user = user /\ new_req.new = new /\ new_req.link = link
      /\ new_req.live = live /\ new_req.held = held /\ new_req.late = late
  OBVIOUS
<1> HIDE DEF new_req
<1>7. req' \in [Call -> Request] /\ Others(p) /\ req'[p] = new_req
  BY <1>0, <1>3, <1>5 DEF FlowTypeOK, Others
<1>8. /\ req[p].at = "idle"
      /\ UNCHANGED <<password, verified, mail, inbox, uses>>
      /\ UNCHANGED <<issued, delivered>>
  BY <1>1 DEF Arrive, Present, BeginValidate, storeVars
<1>9. None \notin inbox /\ \A t \in delivered : issued[t] # None
  BY <1>0, FlowNoneAssumption DEF FlowInv, IInv, KnownAreIssued, FlowTypeOK
<1>10. /\ held # {} => route \in {"change", "reset"}
       /\ held # {} /\ route = "change" => cookie # None
       /\ held \subseteq {t \in delivered : InPg(t) /\ issued[t] = AccountOf(p)'}
  <2>1. held # {} => route \in {"change", "reset"}
    BY DEF held
  <2>2. route = "change" => link = None
    BY <1>1 DEF Redeeming
  <2>3. route = "reset" => link # None
    BY <1>1, <1>9 DEF Redeeming
  <2>4. held # {} /\ route = "change" => cookie # None
    BY <1>9, <2>2 DEF held, account
  <2>5. AccountOf(p)' = IF route = "reset" THEN mail[link].user ELSE issued[cookie]
    BY <1>6, <1>7, <1>8 DEF AccountOf
  <2>6. held # {} => account = AccountOf(p)'
    BY <2>1, <2>2, <2>3, <2>4, <2>5 DEF account
  <2> QED
    BY <2>1, <2>4, <2>6 DEF held
<1> QED
  BY <1>1, <1>4, <1>6, <1>7, <1>8, <1>10 DEF Present, Arrived, WithLink, at, live, late, Guarded

\* A request works on the sessions by a step of its own call, or not at all.
LEMMA ServeUsesStore ==
    ASSUME FlowInv, NEW p \in Call, Serve(p)
    PROVE  UNCHANGED storeVars \/ Begin(p) \/ Command(p) \/ Return(p)
<1>1. TypeOK /\ RequestFacts(p)
  BY DEF FlowInv, IInv, RequestInv
<1>2. CASE Arrive(p)
  BY <1>1, <1>2, ArriveEffect DEF Arrived, Begin, TypeOK, BeginValidate
<1>3. CASE ReadContext(p) \/ ServiceStep(p)
  BY <1>3 DEF ReadContext, ServiceStep, Command, Validate
<1>4. CASE Authenticate(p) \/ LoggedOut(p) \/ SessionsRevoked(p) \/ SessionOpened(p)
  BY <1>4 DEF Authenticate, LoggedOut, SessionsRevoked, SessionOpened
<1>5. CASE Logout(p)
  BY <1>1, <1>5 DEF Logout, Begin, TypeOK, BeginDelete
<1>6. CASE UpdatePassword(p) \/ MarkUsed(p)
  <2>1. req[p].user \in User
    BY <1>1, <1>6 DEF UpdatePassword, MarkUsed, RequestFacts, UserFacts, Handling
  <2> QED
    BY <1>6, <2>1 DEF UpdatePassword, AfterUpdate, MarkUsed, Begin
<1>7. CASE OpenSession(p)
  <2>1. req[p].user \in User
    BY <1>1, <1>7 DEF OpenSession, RequestFacts, UserFacts, Handling
  <2> QED
    BY <1>7, <2>1 DEF OpenSession, Begin
<1>8. CASE \/ RequireAuth(p) \/ Me(p) \/ Login(p) \/ ChangePassword(p)
           \/ ResendVerification(p) \/ RequestLink(p) \/ MintLink(p) \/ SendLink(p)
           \/ CheckLink(p) \/ FindUser(p) \/ MarkVerified(p) \/ FetchUser(p)
           \/ ConfirmEmail(p) \/ PurgeLinks(p) \/ Finish(p)
  BY <1>8 DEF RequireAuth, Me, Login, ChangePassword, ResendVerification, RequestLink,
              MintLink, SendLink, CheckLink, FindUser, MarkVerified, FetchUser,
              ConfirmEmail, PurgeLinks, Finish
<1> QED
  BY <1>2, <1>3, <1>4, <1>5, <1>6, <1>7, <1>8 DEF Serve

\* So every step of the routes is one of the sessions' or leaves them alone.
LEMMA UsesStore ==
    ASSUME FlowInv, [Next]_vars
    PROVE  [StoreNext]_storeVars
<1>1. ASSUME NEW p \in Call, Serve(p)
      PROVE  [StoreNext]_storeVars
  BY <1>1, ServeUsesStore DEF StoreNext
<1>2. CASE TimePasses \/ ServerCrash
  BY <1>2 DEF TimePasses, ServerCrash, StoreNext
<1>3. ASSUME NEW m \in Mail, LinkExpires(m)
      PROVE  [StoreNext]_storeVars
  BY <1>3 DEF LinkExpires
<1>4. CASE UNCHANGED vars
  BY <1>4 DEF vars
<1> QED
  BY <1>1, <1>2, <1>3, <1>4 DEF Next

\* The calls of other requests stay as they are.
LEMMA CallsApart ==
    ASSUME FlowInv, NEW p \in Call, Serve(p), NEW q \in Call, q # p
    PROVE  call'[q] = call[q]
<1>1. TypeOK
  BY DEF FlowInv, IInv
<1>2. CASE Begin(p)
  BY <1>1, <1>2 DEF Begin, BeginCreate, BeginDeleteAll, BeginValidate, BeginDelete, TypeOK
<1>3. CASE Command(p)
  BY <1>1, <1>3 DEF Command, Create, Validate, Delete, DeleteAll, RedisSet, InsertSession,
       RedisGet, RedisExpire, SelectSession, CheckExpiry, LookupUser, RedisDel, EraseSession,
       ListSessions, SweepRedis, EraseUserSessions, TypeOK
<1>4. CASE Return(p)
  BY <1>1, <1>4 DEF Return, TypeOK
<1>5. CASE UNCHANGED storeVars
  BY <1>5 DEF storeVars
<1> QED
  BY <1>2, <1>3, <1>4, <1>5, ServeUsesStore

\* A command of a call does not change what the call is about.
LEMMA CommandKeeps ==
    ASSUME TypeOK, NEW c \in Call, Command(c)
    PROVE  call'[c].tok = call[c].tok /\ call'[c].before = call[c].before
<1>1. CASE RedisSet(c) \/ InsertSession(c) \/ RedisExpire(c) \/ LookupUser(c)
           \/ EraseSession(c) \/ EraseUserSessions(c)
  BY <1>1 DEF RedisSet, InsertSession, RedisExpire, LookupUser, EraseSession,
              EraseUserSessions, TypeOK, Frame
<1>2. CASE RedisGet(c)
  BY <1>2 DEF RedisGet, TypeOK, Frame
<1>3. CASE SelectSession(c)
  BY <1>3 DEF SelectSession, TypeOK, Frame
<1>4. CASE CheckExpiry(c)
  BY <1>4 DEF CheckExpiry, TypeOK, Frame
<1>5. CASE RedisDel(c)
  BY <1>5 DEF RedisDel, TypeOK, Frame
<1>6. CASE ListSessions(c)
  BY <1>6 DEF ListSessions, TypeOK, Frame
<1>7. CASE SweepRedis(c)
  BY <1>7 DEF SweepRedis, TypeOK, Frame
<1> QED
  BY <1>1, <1>2, <1>3, <1>4, <1>5, <1>6, <1>7
  DEF Command, Create, Validate, Delete, DeleteAll

\* What was handed to a client, and whose it is, stays so; its row does not
\* come back.
LEMMA DeliveredStable ==
    ASSUME FlowInv, [Next]_vars, NEW t \in delivered
    PROVE  /\ t \in Token /\ t \in delivered'
           /\ issued'[t] = issued[t] /\ issued[t] \in User
           /\ InPg(t)' => InPg(t)
<1>1. IInv /\ [StoreNext]_storeVars
  BY UsesStore DEF FlowInv
<1>2. t \in Token /\ issued[t] # None /\ ~Pending(t)
  BY <1>1, SettledTokens
<1>3. issued[t] \in User
  BY <1>1, <1>2 DEF IInv, TypeOK
<1> QED
  BY <1>1, <1>2, <1>3, DeliveredGrows, NoRevival

-----------------------------------------------------------------------------
\* The steps that write more than at and status into a request

\* ReadContext writes what the handlers will know of the user.
LEMMA ReadContextEffect ==
    ASSUME FlowInv, NEW p \in Call, ReadContext(p)
    PROVE  /\ req' \in [Call -> Request] /\ Carried(p)
           /\ req[p].at = "auth" /\ req'[p].at = "auth" /\ req'[p].status = req[p].status
           /\ req'[p].user = req[p].user /\ req'[p].link = req[p].link
           /\ UNCHANGED <<flowVars, issued, delivered>>
<1>1. PICK u \in User : u = call[p].user
  <2>1. call[p].at = "lookup"
    BY DEF ReadContext, LookupUser
  <2>2. call[p].tok \in delivered /\ call[p].user = issued[call[p].tok]
    BY <2>1 DEF FlowInv, IInv, ValidateInv, ValidateFacts, Validating
  <2>3. call[p].user \in User
    BY <2>2, SettledTokens DEF FlowInv, IInv, TypeOK
  <2> QED
    BY <2>3
<1>2. password[u] \in Password /\ verified[u] \in BOOLEAN /\ req \in [Call -> Request]
  BY DEF FlowInv, FlowTypeOK
<1>3. /\ req'[p] = [req[p] EXCEPT !.hash = password[u], !.confirmed = verified[u]]
      /\ req' = [req EXCEPT ![p] = req'[p]]
  BY <1>1, <1>2 DEF ReadContext
<1>4. req[p] \in Request /\ req[p].at = "auth"
  BY <1>2 DEF ReadContext
<1>5. req'[p] \in Request
  BY <1>2, <1>3, <1>4 DEF Request
<1>6. req' \in [Call -> Request] /\ Others(p)
  BY <1>2, <1>3, <1>5 DEF Others
<1> QED
  BY <1>3, <1>4, <1>6 DEF Request, Carried, ReadContext, LookupUser

\* Authenticate passes the request on, to a guarded handler with the user.
LEMMA AuthenticateEffect ==
    ASSUME FlowInv, NEW p \in Call, Authenticate(p)
    PROVE  /\ req' \in [Call -> Request] /\ Carried(p)
           /\ req[p].at = "auth" /\ req'[p].at = "start" /\ req'[p].status = req[p].status
           /\ req'[p].link = req[p].link
           /\ req'[p].user = IF req[p].route \in Guarded THEN ContextUser(p) ELSE req[p].user
           /\ UNCHANGED flowVars /\ Return(p)
<1> DEFINE u == IF req[p].route \in Guarded THEN ContextUser(p) ELSE req[p].user
<1>1. req \in [Call -> Request] /\ call \in [Call -> Frame]
  BY DEF FlowInv, FlowTypeOK, IInv, TypeOK
<1>2. u \in User \cup {None}
  BY <1>1 DEF ContextUser, Frame, Request
<1>3. /\ req'[p] = [req[p] EXCEPT !.at = "start", !.user = u]
      /\ req' = [req EXCEPT ![p] = req'[p]]
  BY <1>1 DEF Authenticate
<1> HIDE DEF u
<1>4. req[p] \in Request /\ "start" \in Stage
  BY <1>1 DEF Stage
<1>5. req'[p] \in Request
  BY <1>2, <1>3, <1>4 DEF Request
<1>6. req' \in [Call -> Request] /\ Others(p)
  BY <1>1, <1>3, <1>5 DEF Others
<1> QED
  BY <1>3, <1>4, <1>6 DEF Authenticate, Request, Carried, u

\* MintLink answers, or goes on with a new link of the request's user.
LEMMA MintEffect ==
    ASSUME FlowInv, NEW p \in Call, MintLink(p)
    PROVE  /\ req' \in [Call -> Request]
           /\ At(p, "mint", Sending) /\ req[p].user \in User
           /\ \E m \in Mail :
                 /\ mail[m].kind = None
                 /\ mail' \in [Mail -> MailRow]
                 /\ mail'[m].kind \in Kind /\ mail'[m].user = req[p].user
                 /\ \A n \in Mail \ {m} : mail'[n] = mail[n]
                 /\ \/ Kept(p) /\ Ends(p, "mint", Sending, {"ok", "error"})
                    \/ /\ Carried(p) /\ Goes(p, "mint", Sending, {"send"})
                       /\ req'[p].user = req[p].user /\ req'[p].link = m
<1>1. req \in [Call -> Request] /\ mail \in [Mail -> MailRow]
  BY DEF FlowInv, FlowTypeOK
<1>2. At(p, "mint", Sending) /\ req[p].user \in User
  BY DEF MintLink, FlowInv, RequestInv, RequestFacts, StageFacts, UserFacts, Handling, At
<1>3. PICK m \in Mail, o \in PgOutcomes :
          /\ mail[m].kind = None
          /\ mail' = [mail EXCEPT ![m] = [kind |-> KindOf(req[p].route), user |-> req[p].user,
                                          row |-> IF Applied(o) THEN "open" ELSE "absent"]]
          /\ IF Reported(o) THEN req' = [req EXCEPT ![p].at = "send", ![p].link = m]
             ELSE Answer(p, Failure(p))
  BY DEF MintLink
<1>4. KindOf(req[p].route) \in Kind
  BY <1>2 DEF KindOf, Kind, At, Sending
<1>5. /\ mail' \in [Mail -> MailRow]
      /\ mail'[m].kind \in Kind /\ mail'[m].user = req[p].user
      /\ \A n \in Mail \ {m} : mail'[n] = mail[n]
  <2> DEFINE row == [kind |-> KindOf(req[p].route), user |-> req[p].user,
                     row |-> IF Applied(o) THEN "open" ELSE "absent"]
  <2>1. row \in MailRow
    BY <1>2, <1>4 DEF MailRow
  <2> QED
    BY <1>1, <1>3, <1>4, <2>1
<1>6. CASE Reported(o)
  <2>1. req'[p] = [req[p] EXCEPT !.at = "send", !.link = m] /\ req' = [req EXCEPT ![p] = req'[p]]
    BY <1>1, <1>3, <1>6
  <2>2. req[p] \in Request /\ "send" \in Stage
    BY <1>1 DEF Stage
  <2>3. req'[p] \in Request
    BY <2>1, <2>2 DEF Request
  <2>4. req' \in [Call -> Request] /\ Others(p)
    BY <1>1, <2>1, <2>3 DEF Others
  <2>5. Carried(p) /\ Goes(p, "mint", Sending, {"send"})
        /\ req'[p].user = req[p].user /\ req'[p].link = m
    BY <1>2, <2>1, <2>2, <2>4 DEF Carried, Goes, Request
  <2> QED
    BY <1>2, <1>3, <1>5, <2>4, <2>5
<1>7. CASE ~Reported(o)
  <2>1. Failure(p) \in {"ok", "error"} /\ Answer(p, Failure(p))
    BY <1>3, <1>7 DEF Failure
  <2>2. req' \in [Call -> Request] /\ Kept(p) /\ Ends(p, "mint", Sending, {"ok", "error"})
    BY <1>1, <1>2, <2>1, AnswerEffect DEF Ends
  <2> QED
    BY <1>2, <1>3, <1>5, <2>2
<1> QED
  BY <1>6, <1>7

\* CheckLink refuses the link or goes on for the user it was mailed to.
LEMMA CheckEffectOfLink ==
    ASSUME FlowInv, NEW p \in Call, CheckLink(p)
    PROVE  /\ req' \in [Call -> Request] /\ Carried(p)
           /\ At(p, "start", WithLink) /\ req[p].link \in opened
           /\ req'[p].link = req[p].link
           /\ UNCHANGED <<storeVars, flowVars>>
           /\ \/ Kept(p) /\ Ends(p, "start", WithLink, {"denied"})
              \/ /\ Redeemable(req[p].link, req[p].route)
                 /\ req'[p].user = mail[req[p].link].user /\ req'[p].user \in User
                 /\ \/ Goes(p, "start", {"verify"}, {"confirm"})
                    \/ Goes(p, "start", {"magicVerify"}, {"mark"})
                    \/ Goes(p, "start", {"reset"}, {"update"})
<1>1. req \in [Call -> Request] /\ At(p, "start", WithLink)
  BY DEF FlowInv, FlowTypeOK, CheckLink, WithLink
<1>2. req[p].link \in opened /\ req[p].link \in Mail
  BY <1>1 DEF FlowInv, RequestInv, RequestFacts, InputFacts, At, FlowTypeOK
<1>3. PICK o \in PgOutcomes :
          IF Reported(o) /\ Redeemable(req[p].link, req[p].route)
          THEN req' = [req EXCEPT ![p].user = mail[req[p].link].user,
                                  ![p].at = CASE req[p].route = "verify"      -> "confirm"
                                              [] req[p].route = "magicVerify" -> "mark"
                                              [] req[p].route = "reset"       -> "update"]
          ELSE Answer(p, "denied")
  BY DEF CheckLink
<1>4. UNCHANGED <<storeVars, flowVars>>
  BY DEF CheckLink
<1>5. CASE Reported(o) /\ Redeemable(req[p].link, req[p].route)
  <2> DEFINE u == mail[req[p].link].user
             at == CASE req[p].route = "verify"      -> "confirm"
                     [] req[p].route = "magicVerify" -> "mark"
                     [] req[p].route = "reset"       -> "update"
  <2>1. u \in User
    <3>1. mail[req[p].link].kind # None
      BY <1>2 DEF FlowInv, MailInv
    <3> QED
      BY <1>2, <3>1 DEF FlowInv, MailInv
  <2>2. at \in Stage
    BY <1>1 DEF At, WithLink, Redeeming, Stage
  <2>3. /\ req'[p] = [req[p] EXCEPT !.user = u, !.at = at]
        /\ req' = [req EXCEPT ![p] = req'[p]]
    BY <1>1, <1>3, <1>5
  <2>4. \/ req[p].route = "verify" /\ at = "confirm"
        \/ req[p].route = "magicVerify" /\ at = "mark"
        \/ req[p].route = "reset" /\ at = "update"
    BY <1>1 DEF At, WithLink, Redeeming
  <2> HIDE DEF u, at
  <2>5. req[p] \in Request
    BY <1>1
  <2>6. req'[p] \in Request
    BY <2>1, <2>2, <2>3, <2>5 DEF Request
  <2>7. req' \in [Call -> Request] /\ Others(p)
    BY <1>1, <2>3, <2>6 DEF Others
  <2>8. Carried(p) /\ req'[p].link = req[p].link /\ req'[p].status = req[p].status
        /\ req'[p].user = u /\ req'[p].at = at
    BY <2>3, <2>5, <2>7 DEF Carried, Request
  <2>9. \/ Goes(p, "start", {"verify"}, {"confirm"})
        \/ Goes(p, "start", {"magicVerify"}, {"mark"})
        \/ Goes(p, "start", {"reset"}, {"update"})
    BY <1>1, <2>4, <2>8 DEF Goes, At
  <2> QED
    BY <1>1, <1>2, <1>4, <1>5, <2>1, <2>7, <2>8, <2>9 DEF u
<1>6. CASE ~(Reported(o) /\ Redeemable(req[p].link, req[p].route))
  <2>1. req' \in [Call -> Request] /\ Kept(p) /\ Ends(p, "start", WithLink, {"denied"})
    BY <1>1, <1>3, <1>6, AnswerEffect DEF Ends
  <2> QED
    BY <1>1, <1>2, <1>4, <2>1 DEF Kept
<1> QED
  BY <1>5, <1>6

\* Finish leaves no request.
LEMMA FinishEffect ==
    ASSUME FlowInv, NEW p \in Call, Finish(p)
    PROVE  /\ req' \in [Call -> Request] /\ Others(p)
           /\ req[p].at = "done" /\ req'[p] = Quiet
           /\ UNCHANGED <<storeVars, flowVars>>
  BY QuietTyped DEF FlowInv, FlowTypeOK, Finish, Others

\* Each step serves one request and keeps the requests well typed.
LEMMA RequestsApart ==
    ASSUME FlowInv, NEW p \in Call, Serve(p)
    PROVE  req' \in [Call -> Request] /\ Others(p)
<1>1. req \in [Call -> Request] /\ StageFacts(p)
  BY DEF FlowInv, FlowTypeOK, RequestInv, RequestFacts
<1>2. CASE Handle(p)
  BY <1>1, <1>2, HandlerMoves DEF Moved, Kept, Carried
<1>3. CASE Arrive(p)
  BY <1>3, ArriveEffect DEF Arrived
<1>4. CASE ReadContext(p)
  BY <1>4, ReadContextEffect DEF Carried
<1>5. CASE Authenticate(p)
  BY <1>5, AuthenticateEffect DEF Carried
<1>6. CASE ServiceStep(p)
  BY <1>1, <1>6 DEF ServiceStep, Others
<1>7. CASE MintLink(p)
  BY <1>7, MintEffect DEF Carried, Kept
<1>8. CASE CheckLink(p)
  BY <1>8, CheckEffectOfLink DEF Carried
<1>9. CASE Finish(p)
  BY <1>9, FinishEffect
<1> QED
  BY <1>2, <1>3, <1>4, <1>5, <1>6, <1>7, <1>8, <1>9 DEF Serve, Handle

-----------------------------------------------------------------------------
\* Types, and the links

\* The steps that write the tables of users and links.
LEMMA Writers ==
    ASSUME NEW p \in Call, Serve(p)
    PROVE  /\ UNCHANGED password \/ UpdatePassword(p)
           /\ UNCHANGED verified \/ MarkVerified(p) \/ ConfirmEmail(p)
           /\ UNCHANGED mail \/ MintLink(p) \/ MarkUsed(p) \/ PurgeLinks(p)
           /\ UNCHANGED inbox \/ SendLink(p)
           /\ UNCHANGED opened \/ Arrive(p)
           /\ UNCHANGED uses \/ SessionOpened(p)
  BY DEF Serve, flowVars, Arrive, ReadContext, Authenticate, RequireAuth, ServiceStep, Me,
         Login, Logout, LoggedOut, ChangePassword, UpdatePassword, SessionsRevoked,
         OpenSession, SessionOpened, ResendVerification, RequestLink, MintLink, SendLink,
         CheckLink, MarkUsed, FindUser, MarkVerified, FetchUser, ConfirmEmail, PurgeLinks,
         Finish

\* A link stays what it is and whose it is, and is never opened again.
MailStable ==
    /\ mail' \in [Mail -> MailRow]
    /\ \A m \in Mail :
          /\ mail[m].kind # None =>
                /\ mail'[m].kind = mail[m].kind /\ mail'[m].user = mail[m].user
                /\ mail'[m].row = "open" => mail[m].row = "open"
          /\ mail[m].kind = None /\ mail'[m].kind # None => mail'[m].user \in User

\* Every step keeps the links so.
LEMMA MailStep ==
    ASSUME FlowInv, [Next]_vars
    PROVE  MailStable
<1>1. mail \in [Mail -> MailRow]
  BY DEF FlowInv, FlowTypeOK
<1>2. CASE UNCHANGED mail
  BY <1>1, <1>2 DEF MailStable
<1>3. ASSUME NEW p \in Call, MintLink(p)
      PROVE  MailStable
  BY <1>1, <1>3, MintEffect, FlowNoneAssumption DEF MailStable
<1>4. ASSUME NEW p \in Call, MarkUsed(p)
      PROVE  MailStable
  <2>1. PICK o \in PgOutcomes :
          mail' = IF Applied(o) /\ mail[req[p].link].row # "absent"
                  THEN [mail EXCEPT ![req[p].link].row = "used"] ELSE mail
    BY <1>4 DEF MarkUsed
  <2>2. CASE mail' = [mail EXCEPT ![req[p].link].row = "used"]
    <3>1. ASSUME NEW m \in Mail
          PROVE  [mail[m] EXCEPT !.row = "used"] \in MailRow
      BY <1>1, <3>1 DEF MailRow
    <3>2. mail' \in [Mail -> MailRow]
      BY <1>1, <2>2, <3>1
    <3>3. ASSUME NEW m \in Mail
          PROVE  /\ mail'[m].kind = mail[m].kind /\ mail'[m].user = mail[m].user
                 /\ mail'[m].row = "open" => mail[m].row = "open"
      BY <1>1, <2>2, <3>3 DEF MailRow
    <3> QED
      BY <3>2, <3>3 DEF MailStable
  <2> QED
    BY <1>2, <2>1, <2>2
<1>5. ASSUME NEW p \in Call, PurgeLinks(p)
      PROVE  MailStable
  <2>1. PICK o \in PgOutcomes :
          mail' = IF Applied(o)
                  THEN [m \in Mail |-> IF mail[m].kind = "verify" /\ mail[m].user = req[p].user
                                       THEN [mail[m] EXCEPT !.row = "absent"] ELSE mail[m]]
                  ELSE mail
    BY <1>5 DEF PurgeLinks
  <2>2. ASSUME NEW m \in Mail
        PROVE  [mail[m] EXCEPT !.row = "absent"] \in MailRow
    BY <1>1, <2>2 DEF MailRow
  <2>3. CASE Applied(o)
    <3>1. mail' \in [Mail -> MailRow]
      BY <1>1, <2>1, <2>2, <2>3
    <3>2. ASSUME NEW m \in Mail
          PROVE  /\ mail'[m].kind = mail[m].kind /\ mail'[m].user = mail[m].user
                 /\ mail'[m].row = "open" => mail[m].row = "open"
      BY <1>1, <2>1, <2>3, <3>2 DEF MailRow
    <3> QED
      BY <3>1, <3>2 DEF MailStable
  <2> QED
    BY <1>2, <2>1, <2>3
<1>6. ASSUME NEW m \in Mail, LinkExpires(m)
      PROVE  MailStable
  BY <1>1, <1>6 DEF LinkExpires, MailStable, MailRow
<1>7. ASSUME NEW p \in Call, Serve(p)
      PROVE  MailStable
  BY <1>2, <1>3, <1>4, <1>5, <1>7, Writers
<1>8. CASE TimePasses \/ ServerCrash \/ UNCHANGED vars
  BY <1>2, <1>8 DEF TimePasses, ServerCrash, vars, flowVars
<1> QED
  BY <1>6, <1>7, <1>8 DEF Next

\* Every step keeps the variables of the routes well typed.
LEMMA FlowTypeStep ==
    ASSUME FlowInv, [Next]_vars
    PROVE  FlowTypeOK'
<1>0. /\ FlowTypeOK /\ mail' \in [Mail -> MailRow] /\ MailInv
      /\ \A p \in Call : RequestFacts(p)
  BY MailStep DEF FlowInv, MailStable, RequestInv
<1>1. ASSUME NEW p \in Call, Serve(p)
      PROVE  FlowTypeOK'
  <2>1. req' \in [Call -> Request]
    BY <1>1, RequestsApart
  <2>2. password' \in [User -> Password]
    <3>1. CASE UpdatePassword(p)
      <4>1. req[p].new \in Password
        BY <1>0, <3>1 DEF UpdatePassword, RequestFacts, StageFacts, InputFacts
      <4> QED
        BY <1>0, <3>1, <4>1 DEF UpdatePassword, FlowTypeOK
    <3> QED
      BY <1>0, <1>1, <3>1, Writers DEF FlowTypeOK
  <2>3. verified' \in [User -> BOOLEAN]
    <3>1. CASE MarkVerified(p) \/ ConfirmEmail(p)
      BY <1>0, <3>1 DEF MarkVerified, ConfirmEmail, WithVerified, FlowTypeOK
    <3> QED
      BY <1>0, <1>1, <3>1, Writers DEF FlowTypeOK
  <2>4. inbox' \subseteq Mail
    <3>1. CASE SendLink(p)
      BY <1>0, <3>1 DEF SendLink, FlowTypeOK, RequestFacts, UserFacts
    <3> QED
      BY <1>0, <1>1, <3>1, Writers DEF FlowTypeOK
  <2>5. opened' \subseteq Mail
    <3>1. CASE Arrive(p)
      BY <1>0, <3>1, ArriveEffect DEF Arrived, FlowTypeOK
    <3> QED
      BY <1>0, <1>1, <3>1, Writers DEF FlowTypeOK
  <2>6. uses' \in [Mail -> Nat]
    <3>1. CASE SessionOpened(p)
      <4>1. req[p].route \in Redeeming => req[p].link \in Mail
        BY <1>0, <3>1 DEF SessionOpened, RequestFacts, InputFacts, WithLink, FlowTypeOK
      <4> QED
        BY <1>0, <3>1, <4>1 DEF SessionOpened, FlowTypeOK
    <3> QED
      BY <1>0, <1>1, <3>1, Writers DEF FlowTypeOK
  <2> QED
    BY <1>0, <2>1, <2>2, <2>3, <2>4, <2>5, <2>6 DEF FlowTypeOK
<1>2. CASE TimePasses \/ UNCHANGED vars
  BY <1>0, <1>2 DEF TimePasses, vars, flowVars, FlowTypeOK
<1>3. CASE ServerCrash
  BY <1>0, <1>3, QuietTyped DEF ServerCrash, flowVars, FlowTypeOK
<1>4. ASSUME NEW m \in Mail, LinkExpires(m)
      PROVE  FlowTypeOK'
  BY <1>0, <1>4 DEF LinkExpires, FlowTypeOK
<1> QED
  BY <1>1, <1>2, <1>3, <1>4 DEF Next

\* Links and the tables they are in only grow.
LEMMA MailInvStep ==
    ASSUME FlowInv, [Next]_vars
    PROVE  MailInv' /\ inbox \subseteq inbox' /\ opened \subseteq opened'
<1>0. FlowTypeOK /\ MailInv /\ MailStable /\ FlowTypeOK' /\ RequestInv
  BY MailStep, FlowTypeStep DEF FlowInv
<1>1. inbox \subseteq inbox' /\ \A m \in inbox' : mail'[m].kind # None
  <2>1. ASSUME NEW p \in Call, SendLink(p)
        PROVE  inbox \subseteq inbox' /\ \A m \in inbox' : mail[m].kind # None
    BY <1>0, <2>1 DEF SendLink, MailInv, RequestInv, RequestFacts, UserFacts
  <2>2. ASSUME UNCHANGED inbox
        PROVE  inbox \subseteq inbox' /\ \A m \in inbox' : mail[m].kind # None
    BY <1>0, <2>2 DEF MailInv
  <2>3. inbox \subseteq inbox' /\ \A m \in inbox' : mail[m].kind # None
    BY <2>1, <2>2, Writers
    DEF Next, TimePasses, ServerCrash, LinkExpires, vars, flowVars
  <2> QED
    BY <1>0, <2>3 DEF FlowTypeOK, MailStable
<1>2. opened \subseteq opened' /\ opened' \subseteq inbox'
  <2>1. ASSUME NEW p \in Call, Arrive(p)
        PROVE  opened \subseteq opened' /\ opened' \subseteq inbox
    BY <1>0, <2>1, ArriveEffect DEF Arrived, MailInv
  <2>2. CASE UNCHANGED opened
    BY <1>0, <1>1, <2>2 DEF MailInv
  <2> QED
    BY <1>1, <2>1, <2>2, Writers
    DEF Next, TimePasses, ServerCrash, LinkExpires, vars, flowVars
<1>3. \A m \in Mail : mail'[m].kind # None => mail'[m].user \in User
  BY <1>0 DEF MailStable, MailInv
<1> QED
  BY <1>1, <1>2, <1>3 DEF MailInv

-----------------------------------------------------------------------------
\* Requests

\* What a request relies on outlasts every step: its cookie, its link and whom
\* they belong to.
Background ==
    /\ opened \subseteq opened' /\ opened \subseteq Mail
    /\ \A t \in delivered : /\ t \in delivered' /\ issued[t] \in User
                            /\ issued'[t] = issued[t]
    /\ \A m \in Mail : mail[m].kind # None =>
                          mail'[m].kind # None /\ mail'[m].user = mail[m].user
    /\ \A m \in opened : mail[m].kind # None

\* Every step leaves them.
LEMMA BackgroundStep ==
    ASSUME FlowInv, [Next]_vars
    PROVE  Background
  BY MailStep, MailInvStep, DeliveredStable
  DEF FlowInv, FlowTypeOK, MailInv, MailStable, Background

\* A request nothing is done for keeps its facts.
LEMMA UntouchedRequest ==
    ASSUME FlowInv, [Next]_vars, NEW q \in Call, req'[q] = req[q],
           call'[q].tok = call[q].tok, call'[q].before = call[q].before
    PROVE  RequestFacts(q)'
<1>1. RequestFacts(q) /\ Background
  BY BackgroundStep DEF FlowInv, RequestInv
<1>2. StageFacts(q)'
  BY <1>1 DEF RequestFacts, StageFacts
<1>3. InputFacts(q)'
  BY <1>1 DEF RequestFacts, InputFacts, Background
<1>4. UserFacts(q)'
  BY <1>1 DEF RequestFacts, InputFacts, UserFacts, Handling, Background
<1>5. GuardFacts(q)'
  BY <1>1 DEF RequestFacts, GuardFacts, Admitted, At, Background
<1> QED
  BY <1>2, <1>3, <1>4, <1>5 DEF RequestFacts

\* A handler's move from a stage to another, or to an answer, keeps them.
LEMMA MovedRequest ==
    ASSUME FlowInv, [Next]_vars, NEW p \in Call, Moved(p)
    PROVE  RequestFacts(p)'
<1>1. RequestFacts(p) /\ Background
  BY BackgroundStep DEF FlowInv, RequestInv
<1>2. Kept(p)
  BY DEF Moved
<1>3. req[p].user \in User \cup {None}
  BY DEF FlowInv, FlowTypeOK, Request
<1>4. StageFacts(p)'
  BY <1>1, <1>2 DEF Moved, Kept, Carried, RequestFacts, StageFacts, Goes, Ends, At, Guarded,
                    Sending, Redeeming, Route
<1>5. InputFacts(p)'
  <2>1. req[p].at # "idle"
    BY DEF Moved, Goes, Ends, At
  <2> QED
    BY <1>1, <1>2, <2>1 DEF Kept, Carried, RequestFacts, InputFacts, Background
<1>6. Handling(p)' => Handling(p) \/ (req[p].at = "start" /\ req[p].user \in User
                                        /\ req[p].route \notin WithLink)
  BY <1>1, <1>3 DEF Moved, Handling, RequestFacts, InputFacts, Goes, Ends, At, WithLink,
                    Redeeming
<1>7. UserFacts(p)'
  <2>1. Handling(p)' => req'[p].user \in User
    BY <1>1, <1>2, <1>6 DEF RequestFacts, UserFacts, Kept
  <2>2. Handling(p)' /\ req'[p].route \in WithLink => req'[p].user = mail'[req'[p].link].user
    <3>1. Handling(p) => req[p].at # "idle"
      BY DEF Handling
    <3> QED
      BY <1>1, <1>2, <1>6, <3>1
      DEF RequestFacts, InputFacts, UserFacts, Kept, Carried, Background
  <2>3. req'[p].at # "send"
    BY DEF Moved, Goes, Ends, At
  <2> QED
    BY <2>1, <2>2, <2>3 DEF UserFacts
<1>8. GuardFacts(p)'
  <2>1. req[p].at \notin {"idle", "auth"} /\ req'[p].at \notin {"idle", "auth", "start"}
    BY DEF Moved, Goes, Ends, At
  <2>2. req[p].route \in Guarded /\ req[p].user # None =>
           /\ req'[p].live /\ req'[p].cookie \in delivered'
           /\ req'[p].user = issued'[req'[p].cookie]
    BY <1>1, <1>2, <2>1 DEF RequestFacts, GuardFacts, Kept, Carried, Background
  <2>3. Handling(p) => req[p].user # None
    BY <1>1, NoneAssumption DEF RequestFacts, UserFacts
  <2>4. req'[p].route \in Guarded /\ req'[p].status # "denied" => req[p].user # None
    BY <1>2, <2>3 DEF Moved, Handling, Kept, Carried, Goes, Ends, At, Guarded, WithLink,
                      Redeeming
  <2> QED
    BY <1>2, <2>1, <2>2, <2>4 DEF GuardFacts, Admitted, At, Kept, Carried
<1> QED
  BY <1>4, <1>5, <1>7, <1>8 DEF RequestFacts

\* A request that arrives relies on what the client was given.
LEMMA ArrivedRequest ==
    ASSUME FlowInv, [Next]_vars, NEW p \in Call, Arrive(p)
    PROVE  RequestFacts(p)'
<1>1. Arrived(p) /\ Background /\ MailInv /\ TypeOK
  BY ArriveEffect, BackgroundStep DEF FlowInv, IInv
<1>2. req'[p].at \in {"start", "auth"}
  BY <1>1 DEF Arrived
<1>3. StageFacts(p)'
  BY <1>1, <1>2 DEF Arrived, StageFacts
<1>4. InputFacts(p)'
  <2>1. req'[p].route \in WithLink => req'[p].link \in opened'
    <3>1. None \notin inbox
      BY FlowNoneAssumption DEF FlowInv, FlowTypeOK
    <3> QED
      BY <1>1, <3>1 DEF Arrived
  <2>2. delivered' = delivered
    BY <1>1 DEF Arrived
  <2> QED
    BY <1>1, <2>1, <2>2 DEF Arrived, InputFacts
<1>5. UserFacts(p)'
  BY <1>2 DEF UserFacts, Handling
<1>6. GuardFacts(p)'
  <2>1. CASE req'[p].cookie = None
    BY <1>1, <2>1 DEF Arrived, GuardFacts, Admitted
  <2>2. CASE req'[p].cookie # None
    <3>1. BeginValidate(p, req'[p].cookie) /\ req'[p].at = "auth"
      BY <1>1, <2>2 DEF Arrived
    <3>2. call'[p].tok = req'[p].cookie /\ call'[p].before \subseteq Usable
          /\ req'[p].cookie \in delivered'
      BY <1>1, <3>1 DEF BeginValidate, TypeOK, Idle
    <3>3. req'[p].route \in Guarded /\ req'[p].cookie \in call'[p].before => req'[p].live
      BY <1>1, <3>2 DEF Arrived
    <3> QED
      BY <3>1, <3>2, <3>3 DEF GuardFacts, Admitted
  <2> QED
    BY <2>1, <2>2
<1> QED
  BY <1>3, <1>4, <1>5, <1>6 DEF RequestFacts

\* The middleware passes a user on only if the cookie was a usable session.
LEMMA AuthenticatedRequest ==
    ASSUME FlowInv, [Next]_vars, NEW p \in Call, Authenticate(p)
    PROVE  RequestFacts(p)'
<1>1. /\ RequestFacts(p) /\ Background /\ ValidateFacts(p)
      /\ Carried(p) /\ req[p].at = "auth" /\ req'[p].at = "start" /\ req'[p].link = req[p].link
      /\ req'[p].user = IF req[p].route \in Guarded THEN ContextUser(p) ELSE req[p].user
  BY AuthenticateEffect, BackgroundStep DEF FlowInv, RequestInv, IInv, ValidateInv
<1>2. StageFacts(p)'
  BY <1>1 DEF RequestFacts, StageFacts, Carried
<1>3. InputFacts(p)'
  BY <1>1 DEF RequestFacts, InputFacts, Carried, Background, Guarded
<1>4. UserFacts(p)'
  BY <1>1 DEF UserFacts, Handling
<1>5. GuardFacts(p)'
  <2>1. ASSUME req[p].route \in Guarded, ContextUser(p) # None
        PROVE  /\ req'[p].live /\ req'[p].cookie \in delivered'
               /\ req'[p].user = issued'[req'[p].cookie]
    <3>1. call[p].at = "valid" /\ req'[p].user = call[p].user
      BY <1>1, <2>1 DEF ContextUser
    <3>2. call[p].tok \in call[p].before /\ call[p].user = issued[call[p].tok]
      BY <1>1, <3>1 DEF ValidateFacts
    <3>3. call[p].tok = req[p].cookie /\ req[p].cookie \in delivered /\ req[p].live
      BY <1>1, <2>1, <3>2 DEF RequestFacts, GuardFacts
    <3> QED
      BY <1>1, <3>1, <3>2, <3>3 DEF Carried, Background
  <2> QED
    BY <1>1, <2>1 DEF GuardFacts, Admitted, Carried
<1> QED
  BY <1>2, <1>3, <1>4, <1>5 DEF RequestFacts

\* While the middleware waits, only the call's progress changes.
LEMMA WaitingRequest ==
    ASSUME FlowInv, [Next]_vars, NEW p \in Call, ReadContext(p)
    PROVE  RequestFacts(p)'
<1>1. /\ RequestFacts(p) /\ Background
      /\ Carried(p) /\ req[p].at = "auth" /\ req'[p].at = "auth"
      /\ req'[p].user = req[p].user /\ req'[p].link = req[p].link
      /\ UNCHANGED <<flowVars, issued, delivered>>
  BY ReadContextEffect, BackgroundStep DEF FlowInv, RequestInv
<1>2. call'[p].tok = call[p].tok /\ call'[p].before = call[p].before
  BY CommandKeeps DEF FlowInv, IInv, ReadContext, Command, Validate
<1> QED
  BY <1>1, <1>2 DEF RequestFacts, StageFacts, InputFacts, UserFacts, Handling, GuardFacts,
                    Admitted, At, Carried, Background

\* A link is minted for the user of the request.
LEMMA MintingRequest ==
    ASSUME FlowInv, [Next]_vars, NEW p \in Call, MintLink(p)
    PROVE  RequestFacts(p)'
<1>1. RequestFacts(p) /\ Background /\ UNCHANGED <<issued, delivered>>
  BY BackgroundStep DEF FlowInv, RequestInv, MintLink, storeVars
<1>2. PICK m \in Mail :
         /\ mail'[m].kind \in Kind /\ mail'[m].user = req[p].user
         /\ \/ Kept(p) /\ Ends(p, "mint", Sending, {"ok", "error"})
            \/ /\ Carried(p) /\ Goes(p, "mint", Sending, {"send"})
               /\ req'[p].user = req[p].user /\ req'[p].link = m
  BY MintEffect
<1>3. req' \in [Call -> Request] /\ At(p, "mint", Sending) /\ req[p].user \in User
  BY MintEffect
<1>4. CASE Kept(p) /\ Ends(p, "mint", Sending, {"ok", "error"})
  BY <1>3, <1>4, MovedRequest DEF Moved
<1>5. CASE /\ Carried(p) /\ Goes(p, "mint", Sending, {"send"})
           /\ req'[p].user = req[p].user /\ req'[p].link = m
  <2>1. req[p].at = "mint" /\ req[p].route \in Sending /\ req'[p].at = "send"
        /\ req'[p].status = req[p].status
    BY <1>5 DEF Goes, At
  <2>2. StageFacts(p)'
    BY <1>5, <2>1 DEF StageFacts, Carried, Route
  <2>3. InputFacts(p)'
    BY <1>1, <1>5, <2>1
    DEF RequestFacts, InputFacts, Carried, Background, Sending, WithLink, Redeeming
  <2>4. UserFacts(p)'
    BY <1>2, <1>3, <1>5, <2>1, FlowNoneAssumption
    DEF UserFacts, Handling, Carried, Sending, WithLink, Redeeming
  <2>5. GuardFacts(p)'
    BY <1>1, <1>3, <1>5, <2>1, NoneAssumption
    DEF RequestFacts, GuardFacts, Admitted, At, Carried, Background
  <2> QED
    BY <2>2, <2>3, <2>4, <2>5 DEF RequestFacts
<1> QED
  BY <1>2, <1>4, <1>5

\* A link that can be redeemed makes the request one of its addressee.
LEMMA CheckingRequest ==
    ASSUME FlowInv, [Next]_vars, NEW p \in Call, CheckLink(p)
    PROVE  RequestFacts(p)'
<1>1. RequestFacts(p) /\ Background
  BY BackgroundStep DEF FlowInv, RequestInv
<1>2. /\ req' \in [Call -> Request] /\ Carried(p)
      /\ At(p, "start", WithLink) /\ req[p].link \in opened
      /\ req'[p].link = req[p].link
      /\ UNCHANGED <<storeVars, flowVars>>
  BY CheckEffectOfLink
<1>3. CASE Kept(p) /\ Ends(p, "start", WithLink, {"denied"})
  BY <1>2, <1>3, MovedRequest DEF Moved
<1>4. CASE /\ req'[p].user = mail[req[p].link].user /\ req'[p].user \in User
           /\ \/ Goes(p, "start", {"verify"}, {"confirm"})
              \/ Goes(p, "start", {"magicVerify"}, {"mark"})
              \/ Goes(p, "start", {"reset"}, {"update"})
  <2>1. /\ req[p].at = "start" /\ req'[p].at \in {"confirm", "mark", "update"}
        /\ req[p].route \in WithLink
        /\ req'[p].at = "confirm" => req[p].route = "verify"
        /\ req'[p].at = "mark" => req[p].route = "magicVerify"
        /\ req'[p].at = "update" => req[p].route = "reset"
    BY <1>2, <1>4 DEF Goes, At
  <2>2. StageFacts(p)'
    BY <1>2, <2>1 DEF StageFacts, Carried, Route, WithLink, Redeeming
  <2>3. InputFacts(p)'
    BY <1>1, <1>2, <2>1
    DEF RequestFacts, InputFacts, Carried, Background, WithLink, Redeeming
  <2>4. UserFacts(p)'
    BY <1>2, <1>4, <2>1 DEF UserFacts, Handling, Carried, flowVars
  <2>5. GuardFacts(p)'
    BY <1>2, <2>1 DEF GuardFacts, Admitted, At, Carried, Guarded, WithLink, Redeeming
  <2> QED
    BY <2>2, <2>3, <2>4, <2>5 DEF RequestFacts
<1> QED
  BY <1>3, <1>4, CheckEffectOfLink

\* Nothing is claimed of what is not a request.
LEMMA NoRequest ==
    ASSUME NEW p \in Call, req'[p] = Quiet
    PROVE  RequestFacts(p)'
  BY DEF Quiet, RequestFacts, StageFacts, InputFacts, UserFacts, Handling, GuardFacts,
         Admitted, At

\* Every step keeps the facts about all requests.
LEMMA RequestStep ==
    ASSUME FlowInv, [Next]_vars
    PROVE  RequestInv'
<1>0. TypeOK /\ req \in [Call -> Request] /\ \A p \in Call : StageFacts(p)
  BY DEF FlowInv, IInv, FlowTypeOK, RequestInv, RequestFacts
<1> SUFFICES ASSUME NEW q \in Call
             PROVE  RequestFacts(q)'
  BY DEF RequestInv
<1>1. ASSUME NEW p \in Call, Serve(p), p # q
      PROVE  RequestFacts(q)'
  <2>1. req'[q] = req[q] /\ call'[q] = call[q]
    BY <1>1, RequestsApart, CallsApart DEF Others
  <2> QED
    BY <2>1, UntouchedRequest
<1>2. CASE Serve(q)
  <2>1. CASE Handle(q)
    BY <1>0, <2>1, HandlerMoves, MovedRequest
  <2>2. CASE ServiceStep(q)
    <3>1. call'[q].tok = call[q].tok /\ call'[q].before = call[q].before /\ req'[q] = req[q]
      BY <1>0, <2>2, CommandKeeps DEF ServiceStep, Command, Validate
    <3> QED
      BY <3>1, UntouchedRequest
  <2>3. CASE Finish(q)
    BY <2>3, FinishEffect, NoRequest
  <2> QED
    BY <1>2, <2>1, <2>2, <2>3, ArrivedRequest, AuthenticatedRequest, WaitingRequest,
       MintingRequest, CheckingRequest DEF Serve, Handle
<1>3. CASE TimePasses
  <2>1. CASE Tick
    <3>1. call'[q].tok = call[q].tok /\ call'[q].before = call[q].before /\ req'[q] = req[q]
      BY <1>0, <1>3, <2>1, TickEffect DEF TimePasses
    <3> QED
      BY <3>1, UntouchedRequest
  <2>2. CASE \E t \in Token : RedisLoss(t)
    BY <1>3, <2>2, UntouchedRequest DEF TimePasses, RedisLoss
  <2> QED
    BY <1>3, <2>1, <2>2 DEF TimePasses
<1>4. CASE ServerCrash
  BY <1>4, NoRequest DEF ServerCrash
<1>5. CASE UNCHANGED vars \/ \E m \in Mail : LinkExpires(m)
  BY <1>5, UntouchedRequest DEF vars, LinkExpires, storeVars
<1> QED
  BY <1>1, <1>2, <1>3, <1>4, <1>5 DEF Next

-----------------------------------------------------------------------------
\* Theorems

\* The invariant holds at the start.
LEMMA FlowInit == Init => FlowInv
<1> SUFFICES ASSUME Init
             PROVE  FlowInv
  OBVIOUS
<1>1. IInv
  BY InvInit DEF Init
<1>2. FlowTypeOK
  <2>1. NoMail \in MailRow
    BY DEF NoMail, MailRow
  <2> QED
    BY <2>1, QuietTyped DEF Init, FlowTypeOK
<1>3. MailInv
  BY DEF Init, MailInv, NoMail
<1>4. RequestInv
  BY DEF Init, RequestInv, Quiet, RequestFacts, StageFacts, InputFacts, UserFacts, Handling,
         GuardFacts, Admitted, At
<1> QED
  BY <1>1, <1>2, <1>3, <1>4 DEF FlowInv

\* The invariant is inductive.
LEMMA FlowStep == FlowInv /\ [Next]_vars => FlowInv'
<1>1. FlowInv /\ [Next]_vars => IInv'
  BY UsesStore, InvStep DEF FlowInv
<1> QED
  BY <1>1, FlowTypeStep, MailInvStep, RequestStep DEF FlowInv

\* The invariant the other theorems rest on holds in every reachable state.
THEOREM FlowInvariant == Spec => []FlowInv
  BY FlowInit, FlowStep, PTL DEF Spec

\* The variables of the routes and of the sessions keep their types.
THEOREM AuthTypeCorrect == Spec => []AuthTypeOK
<1>1. FlowInv => AuthTypeOK
  BY DEF FlowInv, FlowTypeOK, IInv, AuthTypeOK
<1> QED
  BY <1>1, FlowInvariant, PTL

\* The routes, the middleware included, only use the sessions as AuthService
\* lets them: what is proved of SessionStore holds for the server as a whole.
THEOREM FlowsUseStore == Spec => StoreSpec
<1>1. Init => StoreInit
  BY DEF Init
<1>2. FlowInv /\ [Next]_vars => [StoreNext]_storeVars
  BY UsesStore
<1> QED
  BY <1>1, <1>2, FlowInvariant, PTL DEF Spec, StoreSpec

\* However the routes combine the operations of AuthService, only usable
\* sessions are accepted, deletions have achieved what they report, and a token
\* has one user and never comes back.
THEOREM FlowsKeepSessions ==
    Spec => /\ []ValidSession /\ []LoggedOutIsDead /\ []FallbackRevoked
            /\ RegistrySpec
BY FlowsUseStore, ValidSessionTheorem, LogoutTheorem, RevocationTheorem, StoreRefinesRegistry

\* No session, whatever happens to it while it is checked, lets a request pass
\* as somebody else or after it was over when the request arrived.
THEOREM AdmissionTheorem == Spec => []AdmittedBySession
<1>1. FlowInv => AdmittedBySession
  BY DEF FlowInv, RequestInv, RequestFacts, GuardFacts, AdmittedBySession, Admitted, At
<1> QED
  BY <1>1, FlowInvariant, PTL

-----------------------------------------------------------------------------
\* An address is verified by a mailed link

\* Whoever's address becomes verified was mailed the link of the request.
LEMMA VerifiedStep ==
    ASSUME FlowInv, VerifiedByMail, [Next]_vars
    PROVE  VerifiedByMail'
<1>0. Background /\ FlowTypeOK /\ \A p \in Call : RequestFacts(p)
  BY BackgroundStep DEF FlowInv, RequestInv
<1>1. ASSUME NEW u \in User, verified[u]
      PROVE  \E m \in opened' : mail'[m].user = u
  BY <1>0, <1>1 DEF VerifiedByMail, Background
<1>2. CASE UNCHANGED verified
  BY <1>1, <1>2 DEF VerifiedByMail
<1>3. ASSUME NEW p \in Call, MarkVerified(p) \/ ConfirmEmail(p)
      PROVE  VerifiedByMail'
  <2>1. PICK o \in PgOutcomes : verified' = WithVerified(req[p].user, o)
    BY <1>3 DEF MarkVerified, ConfirmEmail
  <2>2. req[p].link \in opened /\ req[p].user = mail[req[p].link].user
    BY <1>0, <1>3 DEF MarkVerified, ConfirmEmail, RequestFacts, StageFacts, InputFacts,
                      UserFacts, Handling, WithLink
  <2>3. req[p].link \in opened' /\ mail'[req[p].link].user = req[p].user
    BY <1>0, <2>2 DEF Background
  <2>4. \A u \in User : verified'[u] => verified[u] \/ u = req[p].user
    BY <1>0, <2>1 DEF WithVerified, FlowTypeOK
  <2> QED
    BY <1>1, <2>3, <2>4 DEF VerifiedByMail
<1>4. ASSUME NEW p \in Call, Serve(p)
      PROVE  VerifiedByMail'
  BY <1>2, <1>3, <1>4, Writers
<1>5. CASE TimePasses \/ ServerCrash \/ UNCHANGED vars \/ \E m \in Mail : LinkExpires(m)
  BY <1>2, <1>5 DEF TimePasses, ServerCrash, LinkExpires, vars, flowVars
<1> QED
  BY <1>4, <1>5 DEF Next

\* No race of requests and no failed command verifies an address for which
\* nobody presented a link that was mailed to it.
THEOREM VerificationTheorem == Spec => []VerifiedByMail
<1>1. Init => VerifiedByMail
  BY DEF Init, VerifiedByMail
<1>2. FlowInv /\ VerifiedByMail /\ [Next]_vars => VerifiedByMail'
  BY VerifiedStep
<1> QED
  BY <1>1, <1>2, FlowInvariant, PTL DEF Spec

-----------------------------------------------------------------------------
\* A redeemed link is spent, as long as Postgres carries out its commands

\* Links are redeemed more often, never less.
LEMMA UsesGrow ==
    ASSUME FlowInv, [Next]_vars
    PROVE  \A m \in Mail : uses[m] > 0 => uses'[m] > 0
<1>0. uses \in [Mail -> Nat]
  BY DEF FlowInv, FlowTypeOK
<1>1. ASSUME NEW p \in Call, SessionOpened(p)
      PROVE  \A m \in Mail : uses[m] > 0 => uses'[m] > 0
  BY <1>0, <1>1 DEF SessionOpened
<1> QED
  BY <1>1, Writers DEF Next, TimePasses, ServerCrash, LinkExpires, vars, flowVars

\* MarkUsed leaves the link of its request not open.
LEMMA MarkUsedCloses ==
    ASSUME FlowInv, "refused" \notin PgOutcomes, NEW p \in Call, MarkUsed(p)
    PROVE  mail'[req[p].link].row # "open"
<1>1. mail \in [Mail -> MailRow] /\ req[p].link \in Mail
  BY DEF FlowInv, FlowTypeOK, RequestInv, RequestFacts, StageFacts, InputFacts, MarkUsed,
         WithLink
<1>2. PICK o \in PgOutcomes :
        mail' = IF Applied(o) /\ mail[req[p].link].row # "absent"
                THEN [mail EXCEPT ![req[p].link].row = "used"] ELSE mail
  BY DEF MarkUsed
<1>3. Applied(o)
  BY OutcomeAssumption DEF Applied, Outcome
<1>4. mail[req[p].link] \in MailRow
  BY <1>1
<1> QED
  BY <1>1, <1>2, <1>3, <1>4 DEF MailRow

\* A request nothing is done for keeps what is known of its link.
LEMMA UntouchedSpent ==
    ASSUME FlowInv, SpentInv, [Next]_vars, NEW q \in Call, req'[q] = req[q]
    PROVE  SpentFacts(q)'
<1>1. SpentFacts(q) /\ RequestFacts(q) /\ Background /\ MailStable
  BY BackgroundStep, MailStep DEF FlowInv, RequestInv, SpentInv
<1>2. ASSUME req[q].route \in Redeeming, req[q].at # "idle"
      PROVE  /\ req[q].link \in Mail
             /\ mail'[req[q].link].row = "open" => mail[req[q].link].row = "open"
             /\ uses[req[q].link] > 0 => uses'[req[q].link] > 0
  BY <1>1, <1>2, UsesGrow
  DEF RequestFacts, InputFacts, WithLink, Background, MailStable
<1> QED
  BY <1>1, <1>2 DEF SpentFacts, Marked

\* A step of a handler keeps it too.
LEMMA MovedSpent ==
    ASSUME FlowInv, SpentInv, [Next]_vars, "refused" \notin PgOutcomes,
           NEW p \in Call, Handle(p), Moved(p)
    PROVE  SpentFacts(p)'
<1>1. SpentFacts(p) /\ RequestFacts(p) /\ Background /\ MailStable
  BY BackgroundStep, MailStep DEF FlowInv, RequestInv, SpentInv
<1>2. Carried(p) /\ req'[p].link = req[p].link /\ req[p].at # "idle"
  BY DEF Moved, Kept, Goes, Ends, At
<1>3. ASSUME req[p].route \in Redeeming
      PROVE  /\ req[p].link \in Mail
             /\ mail'[req[p].link].row = "open" => mail[req[p].link].row = "open"
             /\ uses[req[p].link] > 0 => uses'[req[p].link] > 0
  BY <1>1, <1>2, <1>3, UsesGrow
  DEF RequestFacts, InputFacts, WithLink, Background, MailStable
<1>4. ASSUME req[p].route \in Redeeming, req'[p].at \in Marked
      PROVE  req[p].at \in Marked \cup {"mark"}
  BY <1>4 DEF Moved, Goes, Ends, At, Marked, Redeeming
<1>5. req[p].at = "mark" => MarkUsed(p)
  BY DEF Handle, RequireAuth, Me, Login, Logout, LoggedOut, ChangePassword, UpdatePassword,
         SessionsRevoked, OpenSession, SessionOpened, ResendVerification, RequestLink,
         SendLink, FindUser, MarkVerified, FetchUser, ConfirmEmail, PurgeLinks, At
<1>6. req[p].route \in Redeeming /\ req'[p].at \in Marked => mail'[req[p].link].row # "open"
  BY <1>1, <1>3, <1>4, <1>5, MarkUsedCloses DEF SpentFacts
<1>7. req[p].late /\ req[p].route \in Redeeming =>
         req'[p].at = "done" /\ req'[p].status = "denied"
  BY <1>1 DEF SpentFacts, Moved, Goes, Ends, At, Redeeming, Guarded, WithLink
<1> QED
  BY <1>1, <1>2, <1>3, <1>6, <1>7 DEF SpentFacts, Carried

\* Every step keeps SpentInv.
LEMMA SpentStep ==
    ASSUME FlowInv, SpentInv, [Next]_vars, "refused" \notin PgOutcomes
    PROVE  SpentInv'
<1>0. /\ req \in [Call -> Request] /\ Background /\ MailStable /\ FlowTypeOK
      /\ \A p \in Call : RequestFacts(p) /\ SpentFacts(p)
  BY BackgroundStep, MailStep DEF FlowInv, FlowTypeOK, RequestInv, SpentInv
<1>1. \A m \in Mail : uses'[m] > 0 => mail'[m].kind # None /\ mail'[m].row # "open"
  <2>1. ASSUME UNCHANGED uses
        PROVE  \A m \in Mail : uses'[m] > 0 => mail'[m].kind # None /\ mail'[m].row # "open"
    BY <1>0, <2>1 DEF SpentInv, MailStable, Background
  <2>2. ASSUME NEW p \in Call, SessionOpened(p)
        PROVE  \A m \in Mail : uses'[m] > 0 => mail'[m].kind # None /\ mail'[m].row # "open"
    <3>1. \A m \in Mail : uses'[m] = uses[m] \/ (m = req[p].link /\ req[p].route \in Redeeming)
      BY <1>0, <2>2 DEF SessionOpened, FlowTypeOK
    <3>2. req[p].at = "opening" /\ UNCHANGED mail
      BY <2>2 DEF SessionOpened
    <3>3. req[p].route \in Redeeming =>
             mail[req[p].link].kind # None /\ mail[req[p].link].row # "open"
      BY <1>0, <3>2 DEF RequestFacts, InputFacts, WithLink, Background, SpentFacts, Marked
    <3> QED
      BY <3>1, <3>2, <3>3 DEF SpentInv
  <2> QED
    BY <2>1, <2>2, Writers DEF Next, TimePasses, ServerCrash, LinkExpires, vars, flowVars
<1>2. ASSUME NEW q \in Call
      PROVE  SpentFacts(q)'
  <2>1. ASSUME NEW p \in Call, Serve(p), p # q
        PROVE  SpentFacts(q)'
    BY <1>2, <2>1, RequestsApart, UntouchedSpent DEF Others
  <2>2. CASE Handle(q)
    BY <1>0, <1>2, <2>2, HandlerMoves, MovedSpent DEF RequestFacts
  <2>3. CASE Arrive(q)
    <3>1. Arrived(q)
      BY <1>2, <2>3, ArriveEffect
    <3> QED
      BY <3>1 DEF Arrived, SpentFacts, Marked
  <2>4. CASE ReadContext(q) \/ Authenticate(q)
    <3>1. Carried(q) /\ req'[q].link = req[q].link /\ req[q].at = "auth"
          /\ req'[q].at \in {"auth", "start"}
      BY <1>2, <2>4, ReadContextEffect, AuthenticateEffect
    <3>2. req[q].route \in Redeeming => req[q].link \in Mail
      BY <1>0, <1>2, <3>1 DEF RequestFacts, InputFacts, WithLink, Background
    <3> QED
      BY <1>0, <1>2, <3>1, <3>2, UsesGrow DEF SpentFacts, Carried, Marked
  <2>5. CASE ServiceStep(q)
    BY <1>2, <2>5, UntouchedSpent DEF ServiceStep
  <2>6. CASE MintLink(q)
    <3>1. req'[q].route \in Sending
      BY <1>2, <2>6, MintEffect DEF Kept, Carried, At
    <3> QED
      BY <3>1 DEF SpentFacts, Sending, Redeeming
  <2>7. CASE CheckLink(q)
    <3>1. Carried(q) /\ req'[q].link = req[q].link /\ req[q].link \in Mail
          /\ UNCHANGED <<mail, uses>>
      BY <1>0, <1>2, <2>7, CheckEffectOfLink DEF flowVars, Background
    <3>2. req[q].late /\ req[q].route \in Redeeming =>
             ~Redeemable(req[q].link, req[q].route)
      BY <1>0, <1>2, <3>1 DEF SpentFacts, SpentInv, Redeemable
    <3>3. req'[q].at \notin Marked /\ (req[q].late /\ req[q].route \in Redeeming =>
             req'[q].at = "done" /\ req'[q].status = "denied")
      BY <1>2, <2>7, <3>2, CheckEffectOfLink DEF Ends, Goes, Marked
    <3> QED
      BY <1>0, <1>2, <3>1, <3>3 DEF SpentFacts, Carried
  <2>8. ASSUME req'[q] = Quiet
        PROVE  SpentFacts(q)'
    BY <2>8 DEF Quiet, SpentFacts, Marked
  <2>9. CASE Finish(q) \/ ServerCrash
    BY <1>2, <2>8, <2>9, FinishEffect DEF ServerCrash
  <2>10. CASE TimePasses \/ UNCHANGED vars \/ \E m \in Mail : LinkExpires(m)
    BY <1>2, <2>10, UntouchedSpent DEF TimePasses, vars, LinkExpires
  <2> QED
    BY <1>2, <2>1, <2>2, <2>3, <2>4, <2>5, <2>6, <2>7, <2>9, <2>10 DEF Next, Serve, Handle
<1> QED
  BY <1>1, <1>2 DEF SpentInv

\* If Postgres carries out what it is asked, though its replies may be lost, a
\* magic or reset link that has brought a session never brings another to a
\* request that arrives later.
THEOREM SpentTheorem ==
    ASSUME "refused" \notin PgOutcomes
    PROVE  Spec => []RedeemedIsSpent
<1>1. Init => SpentInv
  BY DEF Init, SpentInv, SpentFacts, Quiet, Marked
<1>2. FlowInv /\ SpentInv /\ [Next]_vars => SpentInv'
  BY SpentStep
<1>3. SpentInv => RedeemedIsSpent
  BY DEF SpentInv, SpentFacts, RedeemedIsSpent
<1> QED
  BY <1>1, <1>2, <1>3, FlowInvariant, PTL DEF Spec

-----------------------------------------------------------------------------
\* A password change ends the account's sessions, as long as Postgres answers

\* The sessions a handler must end are those of the user it works for.
LEMMA HeldAreTheUsers ==
    ASSUME FlowInv, NEW p \in Call, RevokedFacts(p),
           Handling(p), req[p].route \in {"change", "reset"}
    PROVE  \A t \in req[p].held : issued[t] = req[p].user
<1>1. RequestFacts(p)
  BY DEF FlowInv, RequestInv
<1>2. req[p].at \notin {"idle", "auth"} /\ req[p].user # None
  BY <1>1, NoneAssumption DEF RequestFacts, UserFacts, Handling
<1>3. CASE req[p].route = "change"
  BY <1>1, <1>2, <1>3 DEF RequestFacts, GuardFacts, Guarded, RevokedFacts, HeldFacts, AccountOf,
       Handling
<1>4. CASE req[p].route = "reset"
  BY <1>1, <1>2, <1>4 DEF RequestFacts, UserFacts, WithLink, Redeeming, RevokedFacts, HeldFacts,
       AccountOf, Handling
<1> QED
  BY <1>3, <1>4

\* What DeleteAllUserSessions does for such a handler.
LEMMA RevokingCall ==
    ASSUME FlowInv, PgOutcomes \subseteq {"ok"}, NEW p \in Call, RevokedFacts(p),
           req[p].at = "revoking", ServiceStep(p), [Next]_vars
    PROVE  /\ call'[p].at \in Revoking \cup {"revoked"}
           /\ call'[p].user = req[p].user
           /\ call'[p].at = "revoked" => Revoked(p)'
<1>0. IInv /\ TypeOK /\ UNCHANGED req /\ req[p].route \in {"change", "reset"}
  BY DEF FlowInv, IInv, ServiceStep, RequestInv, RequestFacts, StageFacts
<1>1. call[p].at \in Revoking \cup {"revoked"}
  BY DEF RevokedFacts
<1>2. ListSessions(p) \/ SweepRedis(p) \/ EraseUserSessions(p)
  BY <1>1 DEF ServiceStep, Create, Delete, DeleteAll, Revoking, RedisSet, InsertSession,
       RedisDel, EraseSession, RedisGet, RedisExpire, SelectSession, CheckExpiry
<1>3. call[p].user = req[p].user
  BY <1>2 DEF ListSessions, SweepRedis, EraseUserSessions, Revoking, RevokedFacts
<1>4. CASE ListSessions(p)
  <2>1. PICK o \in PgOutcomes, got \in SUBSET RowsOf(call[p].user) :
           call' = [call EXCEPT ![p] =
                              [@ EXCEPT !.at = "sweep", !.rows = got, !.todo = got]]
    BY <1>4 DEF ListSessions, Reported
  <2>2. call'[p].at = "sweep" /\ call'[p].user = call[p].user
    BY <1>0, <2>1 DEF TypeOK, Frame
  <2> QED
    BY <1>3, <2>2 DEF Revoking
<1>5. CASE SweepRedis(p)
  <2>1. PICK t \in call[p].todo, o \in RedisOutcomes :
           call' = [call EXCEPT ![p] = [call[p] EXCEPT
                      !.todo = @ \ {t}, !.missed = IF Applied(o) THEN @ ELSE @ \cup {t}]]
    BY <1>5 DEF SweepRedis
  <2>2. call'[p].at = call[p].at /\ call'[p].user = call[p].user
    BY <1>0, <2>1 DEF TypeOK, Frame
  <2> QED
    BY <1>3, <1>5, <2>2 DEF SweepRedis, Revoking
<1>6. CASE EraseUserSessions(p)
  <2>1. /\ pg' = [t \in Token |-> IF pg[t].user = call[p].user THEN Absent ELSE pg[t]]
        /\ call' = [call EXCEPT ![p].at = "revoked"]
    BY <1>6 DEF EraseUserSessions, Applied, Reported
  <2>2. call'[p].at = "revoked" /\ call'[p].user = call[p].user
    BY <1>0, <2>1 DEF TypeOK, Frame
  <2>3. ASSUME NEW t \in req[p].held
        PROVE  ~InPg(t)'
    <3>1. t \in Token /\ issued[t] = call[p].user
      BY <1>0, <1>3, <2>3, HeldAreTheUsers DEF RevokedFacts, HeldFacts, TypeOK, Handling
    <3>2. InPg(t) => pg[t].user = call[p].user
      BY <1>0, <3>1 DEF IInv, StoredAreIssued
    <3>3. pg'[t] = IF pg[t].user = call[p].user THEN Absent ELSE pg[t]
      BY <2>1, <3>1
    <3> QED
      BY <3>2, <3>3 DEF InPg, Absent
  <2> QED
    BY <1>0, <1>3, <2>2, <2>3 DEF Revoked
<1> QED
  BY <1>2, <1>4, <1>5, <1>6

\* Whose sessions they are does not change.
LEMMA HeldStep ==
    ASSUME FlowInv, [Next]_vars, NEW p \in Call, HeldFacts(p),
           req'[p].route = req[p].route, req'[p].cookie = req[p].cookie,
           req'[p].held = req[p].held, req'[p].at # "idle" => req[p].at # "idle",
           req[p].route \in {"change", "reset"} => req'[p].link = req[p].link
    PROVE  HeldFacts(p)'
<1>1. Background /\ RequestFacts(p)
  BY BackgroundStep DEF FlowInv, RequestInv
<1>2. req'[p].held \subseteq delivered'
  BY <1>1 DEF HeldFacts, Background
<1>3. ASSUME req[p].at # "idle", req[p].held # {}
      PROVE  /\ req[p].route \in {"change", "reset"}
             /\ req[p].route = "change" => req[p].cookie # None
             /\ \A t \in req[p].held : issued'[t] = AccountOf(p)'
  <2>1. /\ req[p].route \in {"change", "reset"}
        /\ req[p].route = "change" => req[p].cookie # None /\ req[p].cookie \in delivered
        /\ req[p].route = "reset" => req[p].link \in opened
    BY <1>1, <1>3 DEF HeldFacts, RequestFacts, InputFacts, WithLink, Redeeming
  <2>2. AccountOf(p)' = AccountOf(p)
    BY <1>1, <2>1 DEF AccountOf, Background
  <2> QED
    BY <1>1, <1>3, <2>1, <2>2 DEF HeldFacts, Background
<1> QED
  BY <1>2, <1>3 DEF HeldFacts

\* Their rows do not come back.
LEMMA StillRevoked ==
    ASSUME FlowInv, [Next]_vars, NEW p \in Call, HeldFacts(p), Revoked(p),
           req'[p].held = req[p].held
    PROVE  Revoked(p)'
<1>1. \A t \in delivered : InPg(t)' => InPg(t)
  BY DeliveredStable
<1> QED
  BY <1>1 DEF HeldFacts, Revoked

\* A request nothing is done for keeps what is known of its sessions.
LEMMA UntouchedRevoked ==
    ASSUME FlowInv, [Next]_vars, NEW q \in Call, RevokedFacts(q), req'[q] = req[q],
           req[q].at = "revoking" => call'[q].at = call[q].at /\ call'[q].user = call[q].user
    PROVE  RevokedFacts(q)'
<1>1. HeldFacts(q)' /\ (Revoked(q) => Revoked(q)')
  BY HeldStep, StillRevoked DEF RevokedFacts
<1> QED
  BY <1>1 DEF RevokedFacts, PastRevoking

\* The handlers that start DeleteAllUserSessions start it for their user, and
\* those that go on after it go on when it is over.
LEMMA MovedRevoked ==
    ASSUME FlowInv, PgOutcomes \subseteq {"ok"}, [Next]_vars,
           NEW p \in Call, RevokedFacts(p), Handle(p), Moved(p)
    PROVE  RevokedFacts(p)'
<1>1. TypeOK
  BY DEF FlowInv, IInv
<1>2. Kept(p) /\ req[p].at # "idle"
  BY DEF Moved, Goes, Ends, At
<1>3. HeldFacts(p)' /\ (Revoked(p) => Revoked(p)')
  BY <1>2, HeldStep, StillRevoked DEF RevokedFacts, Kept, Carried
<1>4. req'[p].at = "revoking" =>
         call'[p].at \in Revoking /\ call'[p].user = req'[p].user
  <2>1. ASSUME req'[p].at = "revoking"
        PROVE  BeginDeleteAll(p, req[p].user)
    <3>1. \/ req[p].at = "update" /\ req[p].route = "change"
          \/ req[p].at = "mark" /\ req[p].route = "reset"
      BY <2>1 DEF Moved, Goes, Ends, At
    <3>2. UpdatePassword(p) \/ MarkUsed(p)
      BY <3>1 DEF Handle, RequireAuth, Me, Login, Logout, LoggedOut, ChangePassword,
         UpdatePassword, SessionsRevoked, OpenSession, SessionOpened, ResendVerification,
         RequestLink, SendLink, FindUser, MarkVerified, FetchUser, ConfirmEmail, PurgeLinks, At
    <3>3. CASE UpdatePassword(p)
      <4>1. PICK o \in PgOutcomes :
               IF ~Reported(o) THEN Answer(p, "error") /\ UNCHANGED storeVars
               ELSE AfterUpdate(p)
        BY <3>3 DEF UpdatePassword
      <4> QED
        BY <3>1, <3>3, <4>1 DEF AfterUpdate, Reported, UpdatePassword
    <3>4. CASE MarkUsed(p)
      BY <3>1, <3>4 DEF MarkUsed
    <3> QED
      BY <3>2, <3>3, <3>4
  <2> QED
    BY <1>1, <1>2, <2>1 DEF BeginDeleteAll, TypeOK, Idle, Revoking, Kept
<1>5. ASSUME req[p].route \in {"change", "reset"}, PastRevoking(p)'
      PROVE  Revoked(p)
  <2>1. CASE req[p].at = "revoking"
    <3>1. SessionsRevoked(p)
      BY <2>1 DEF Handle, RequireAuth, Me, Login, Logout, LoggedOut, ChangePassword,
         UpdatePassword, OpenSession, SessionOpened, ResendVerification, MarkUsed,
         RequestLink, SendLink, FindUser, MarkVerified, FetchUser, ConfirmEmail, PurgeLinks, At
    <3> QED
      BY <2>1, <3>1 DEF SessionsRevoked, RevokedFacts, Revoking
  <2>2. CASE req[p].at # "revoking"
    <3>1. PastRevoking(p)
      BY <1>5, <2>2 DEF Moved, Goes, Ends, At, PastRevoking, Redeeming, Sending, Guarded, WithLink
    <3> QED
      BY <1>5, <3>1 DEF RevokedFacts
  <2> QED
    BY <2>1, <2>2
<1> QED
  BY <1>2, <1>3, <1>4, <1>5 DEF RevokedFacts, Kept, Carried, Revoking

\* So do the steps that come before it.
LEMMA CarriedRevoked ==
    ASSUME FlowInv, [Next]_vars, NEW q \in Call, RevokedFacts(q), Carried(q),
           req[q].at # "idle", req'[q].at # "revoking",
           req[q].route \in {"change", "reset"} =>
              req'[q].link = req[q].link /\ ~PastRevoking(q)'
    PROVE  RevokedFacts(q)'
<1>1. HeldFacts(q)'
  BY HeldStep DEF RevokedFacts, Carried
<1> QED
  BY <1>1 DEF RevokedFacts, Carried

\* Every step keeps RevokedInv.
LEMMA RevokedStep ==
    ASSUME FlowInv, RevokedInv, PgOutcomes \subseteq {"ok"}, [Next]_vars
    PROVE  RevokedInv'
<1>0. /\ TypeOK /\ req \in [Call -> Request]
      /\ \A p \in Call : RequestFacts(p) /\ RevokedFacts(p)
  BY DEF FlowInv, IInv, FlowTypeOK, RequestInv, RevokedInv
<1> SUFFICES ASSUME NEW q \in Call
             PROVE  RevokedFacts(q)'
  BY DEF RevokedInv
<1>1. ASSUME NEW p \in Call, Serve(p), p # q
      PROVE  RevokedFacts(q)'
  <2>1. req'[q] = req[q] /\ call'[q] = call[q]
    BY <1>1, RequestsApart, CallsApart DEF Others
  <2> QED
    BY <1>0, <2>1, UntouchedRevoked
<1>2. CASE Handle(q)
  BY <1>0, <1>2, HandlerMoves, MovedRevoked DEF RequestFacts
<1>3. CASE Arrive(q)
  <2>1. Arrived(q)
    BY <1>3, ArriveEffect
  <2> QED
    BY <2>1 DEF Arrived, RevokedFacts, HeldFacts, PastRevoking
<1>4. CASE ReadContext(q) \/ Authenticate(q)
  <2>1. /\ Carried(q) /\ req[q].at = "auth" /\ req'[q].at \in {"auth", "start"}
        /\ req'[q].link = req[q].link
    BY <1>4, ReadContextEffect, AuthenticateEffect
  <2> QED
    BY <1>0, <2>1, CarriedRevoked DEF PastRevoking
<1>5. CASE MintLink(q)
  <2>1. /\ Carried(q) /\ req[q].at = "mint" /\ req'[q].at \in {"send", "done"}
        /\ req[q].route \in Sending
    BY <1>5, MintEffect DEF Kept, At, Goes, Ends
  <2> QED
    BY <1>0, <2>1, CarriedRevoked DEF Sending
<1>6. CASE CheckLink(q)
  <2>1. /\ Carried(q) /\ req[q].at = "start" /\ req'[q].link = req[q].link
        /\ \/ req'[q].at \in {"confirm", "mark", "update"}
           \/ req'[q].at = "done" /\ req'[q].status = "denied"
    BY <1>6, CheckEffectOfLink DEF At, Goes, Ends
  <2> QED
    BY <1>0, <2>1, CarriedRevoked DEF PastRevoking
<1>7. CASE ServiceStep(q)
  <2>1. req'[q] = req[q]
    BY <1>7 DEF ServiceStep
  <2>2. CASE req[q].at = "revoking"
    <3>1. /\ call'[q].at \in Revoking \cup {"revoked"} /\ call'[q].user = req[q].user
          /\ call'[q].at = "revoked" => Revoked(q)'
      BY <1>0, <1>7, <2>2, RevokingCall
    <3>2. HeldFacts(q)'
      BY <1>0, <2>1, HeldStep DEF RevokedFacts
    <3> QED
      BY <2>1, <2>2, <3>1, <3>2 DEF RevokedFacts, PastRevoking
  <2>3. CASE req[q].at # "revoking"
    BY <1>0, <2>1, <2>3, UntouchedRevoked
  <2> QED
    BY <2>2, <2>3
<1>8. ASSUME req'[q] = Quiet
      PROVE  RevokedFacts(q)'
  BY <1>8 DEF Quiet, RevokedFacts, HeldFacts, PastRevoking
<1>9. CASE Finish(q) \/ ServerCrash
  BY <1>8, <1>9, FinishEffect DEF ServerCrash
<1>10. CASE TimePasses
  <2>1. CASE Tick
    <3>1. call'[q].at = call[q].at /\ call'[q].user = call[q].user /\ req'[q] = req[q]
      BY <1>0, <1>10, <2>1, TickEffect DEF TimePasses
    <3> QED
      BY <1>0, <3>1, UntouchedRevoked
  <2>2. CASE \E t \in Token : RedisLoss(t)
    BY <1>0, <1>10, <2>2, UntouchedRevoked DEF TimePasses, RedisLoss
  <2> QED
    BY <1>10, <2>1, <2>2 DEF TimePasses
<1>11. CASE UNCHANGED vars \/ \E m \in Mail : LinkExpires(m)
  BY <1>0, <1>11, UntouchedRevoked DEF vars, LinkExpires, storeVars
<1> QED
  BY <1>1, <1>2, <1>3, <1>4, <1>5, <1>6, <1>7, <1>9, <1>10, <1>11 DEF Next, Serve, Handle

\* If Postgres answers every command, a changed or reset password is answered
\* with success only when no row of the account's sessions is left, whatever
\* Redis does and other requests of the account create meanwhile.
THEOREM AnsweredTheorem ==
    ASSUME PgOutcomes \subseteq {"ok"}
    PROVE  Spec => []AnsweredMeansRevoked
<1>1. Init => RevokedInv
  <2> SUFFICES ASSUME Init, NEW p \in Call
               PROVE  RevokedFacts(p)
    BY DEF RevokedInv
  <2>1. req[p].at = "idle" /\ req[p].held = {}
    BY DEF Init, Quiet
  <2> QED
    BY <2>1 DEF RevokedFacts, HeldFacts, PastRevoking
<1>2. FlowInv /\ RevokedInv /\ [Next]_vars => RevokedInv'
  BY RevokedStep
<1>3. RevokedInv => AnsweredMeansRevoked
  BY DEF RevokedInv, RevokedFacts, PastRevoking, Revoked, AnsweredMeansRevoked, At
<1> QED
  BY <1>1, <1>2, <1>3, FlowInvariant, PTL DEF Spec
=============================================================================
