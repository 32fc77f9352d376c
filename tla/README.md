# TLA+ models of the notes application

The repository is a small web application: a Go server (`cmd/server`,
`internal/`) with Postgres and Redis behind it, and a single-page browser
application (`web/static/js`). Its hard part is authentication: sessions kept in
two stores that fail independently, links that are mailed and redeemed in several
commands, and requests that run concurrently without transactions or locks. The
models start there and go on to the browser, whose handlers await calls that
cross.

Every action is one command to a store, one step of a handler, or in the browser
the code between two awaits, because that is where another goroutine, another
event, a failure or a crash can come in between.

## The system

| Part | State it keeps | Operations | What makes it correct |
|---|---|---|---|
| Session store `services/auth.go` | Redis keys `session:<hash>` with a TTL; table `sessions` | `CreateSession`, `ValidateSession`, `DeleteSession`, `DeleteAllUserSessions` | only usable sessions are accepted, for their own user; ended sessions stay ended |
| Authentication `handlers/auth.go`, `middleware/auth.go` | none of its own: the user in the request context, the cookie | the routes of `/api/auth`, `Authenticate`, `RequireAuth` | guarded handlers run for the session's user; what an answer says has happened |
| Mailed links `services/email.go` | three token tables | send and redeem verification, magic and reset links | a link is redeemed once; only a presented link verifies an address |
| Users `services/user.go` | table `users` with UNIQUE address and name | `Create`, `UpdatePassword`, `MarkEmailVerified`, lookups | an account is its founder's; names are unique |
| Notes `services/notes.go`, `handlers/notes.go` | table `notes` | create, list, get, update, delete, always by owner | a user only reaches notes of his own |
| Browser application `app.js`, `api.js` | user, list of notes, note being edited, CSRF token, address and page | routing by hash, handlers that await calls | the page is the one of the address and of the user; the list shown agrees with the server |
| CSRF `middleware/csrf.go` | a cookie in the browser | `Protect`, `GetToken` | a token fetched is accepted |
| Rate limiter `middleware/ratelimit.go` (no route uses it) | a Redis counter per key and window | `Middleware` | at most the limit per window; every counter expires |
| Server `cmd/server/main.go` | pools, the listener | start, graceful shutdown | requests end before the pools close |
| Health, pages, assets, headers, compression, logging, configuration | read once or none | | stateless |

How they interact: a request passes the middleware chain (`Authenticate` calls
`ValidateSession`), reaches a handler, and the handler calls services one after
the other; services send single commands to Postgres and Redis (no transaction
anywhere). `Register` starts one goroutine that mails a link after the answer.
Nothing else runs in the background. The browser calls the server through
`API.request`, which repeats a call once after a CSRF refusal.

### What is hard

The full list, with lines, is `hazards` in `PROJECT.json`. In short:

- two requests between each other's commands: a validation extends a session
  another request deletes; two requests redeem one link; two registrations pass
  each other's checks; a login or password change uses a hash that was replaced;
- a command that fails, or takes effect and loses its reply, while the code
  ignores the error (`DEL`, `EXPIRE`, the cleanup `DELETE`, marking a link);
- a session that is in one store, in the other or in both, with a sliding end in
  Redis and a fixed one in Postgres;
- a crash between two commands: link spent but no session, account made but no
  session or mail;
- a shutdown that closes the pools: who is still served, who is waited for;
- in the browser, state changed after an `await` that was read before it: lists
  that arrive after later changes, a form cleared while its next use is typed, a
  token fetched before the cookie changed, a user who signed out on a page that was
  guarded when it was shown, an address that has changed when the answer comes.

## Modules

| Module | What it is |
|---|---|
| `SessionRegistry` | abstract: a token is fresh, opening, live or dead, and dead is for good |
| `SessionStore` | `AuthService` over Redis and Postgres, one action per command |
| `AuthFlows` | all routes of `/api/auth` except `register`, on top of `SessionStore` |
| `ServerRun` | `run()` of `main.go` from `ListenAndServe` on: two goroutines, the channel between them, the connections and the pools |
| `Accounts` | `register` with `UserService.Create`, on top of `SessionRegistry`, in the process of `ServerRun` |
| `NotesApp` | the pages of one browser (`app.js`) with the notes routes and the table `notes` |
| `AppPages` | the router, the start and the pages of `app.js` that sign in and out |
| `ApiClient` | `API.request` and `fetchCSRFToken` (`api.js`) against the CSRF middleware |
| `SessionStoreProofs`, `AuthFlowsProofs`, `AccountsProofs`, `NotesAppProofs`, `AppPagesProofs`, `ApiClientProofs` | the theorems about these modules |
| `MCSessionStore`, `MCAuthFlows`, `MCAccounts`, `MCNotesApp`, `MCAppPages`, `MCApiClient` | the sets the configurations instantiate them with |

**SessionStore.** `redis[t]` is the key of token `t` with its user and remaining
TTL, `pg[t]` its row (an expired row has `left = 0`), `call[c]` the local
variables and the place of one call. `BeginCreate`, `RedisSet`, `InsertSession`
are `CreateSession`; `BeginValidate`, `RedisGet`, `RedisExpire`, `SelectSession`,
`CheckExpiry`, `LookupUser` are `ValidateSession`; `BeginDelete`, `RedisDel`,
`EraseSession` are `DeleteSession`; `BeginDeleteAll`, `ListSessions`,
`SweepRedis`, `EraseUserSessions` are `DeleteAllUserSessions`. Every command ends
in one of the outcomes `"ok"`, `"refused"` (no effect, an error) and `"lost"`
(effect, and an error), of which a configuration chooses the possible ones.
`Tick`, `RedisLoss` and `Crash` are the environment. `issued` and `delivered` say
which tokens were generated and which a client was given; `before` and `missed` in
a frame remember what held when the call began and which `DEL` had no effect, and
guard nothing.

**AuthFlows.** `req[p]` is one request: the handler's place and variables; the
call it makes of `AuthService` is `call[p]`. `Arrive`, `ReadContext`,
`Authenticate`, `RequireAuth` are the middleware; `ServiceStep` is any command of
the service call the handler waits for; the other actions are stretches of a
handler between two commands. `Present` is what a request brings and what the middleware
begins with, `Arrive` chooses it. A bcrypt hash stands for its password, a link for
its row and its URL. `live`, `held`, `late`, `opened` and `uses` are history and
guard nothing. The constant `WithCookie` names the routes to which clients send a
cookie they hold.

**Accounts.** `users[e]` is the row with address `e`. `CheckEmail`, `CheckName`,
`InsertUser` are `Create`; `OpenSession` and `SessionOpened` are its
`CreateSession`, taken from `SessionRegistry`; `MintLink` and `SendLink` are the
goroutine. A request is read from a connection of `ServerRun` (`Arrive`) and leaves it
when it is answered (`Finish`); when `pools` says that Postgres is closed, its commands are
refused (`Endings`), which happens to requests past the deadline and to the goroutine until
`Exit` ends the process. It is then started again.

**ServerRun.** `main` is where the goroutine of `run` is, `stopper` where the one is that
waits for a signal, `done` the channel between them, `pools` what the deferred functions
have closed, `conns` the connections. `Signal`, `Drain` or `Overrun`, and `CloseDone` are
the lines of the second goroutine; `Listen`, `ServerClosed` or `ListenFails`, `ReceiveDone`,
`CloseRedis` and `ClosePostgres` those of the first. Every line that waits for something
else is an action of its own. `net/http` is taken at its word: `ListenAndServe` returns once
`Shutdown` has been called and accepts nothing after that; `Shutdown` returns no error when
every connection is closed, which it does to those with no request on them. A request on a
connection accepted before may still be read while `Shutdown` waits. That a connection counts
as idle for an instant after its request was read, and may then be closed under it, is a race
inside the library and not modelled.

**NotesApp.** `app[p]` is the object `App` of a page with what its document shows:
`user`, `notes`, `editing` (`editingNoteId`), `hash`, `view`, the inputs of the note
form (`text`, `label`) and the list `shown`. `call[k]` is a call from the method that
made it to the code after its `await`. `Visit`, `FollowLink`, `SubmitCredentials`,
`ClickLogout`, `StartEditingNote`, `ClickClear`, `Type`, `SaveNote`, `DeleteNote` and
`Reload` are the user; `Redirect`, `ShowPage` and `RenderNotesApp` are `route()` when
the event `hashchange` (the Boolean `event`) is due; `ListNotes`, `CreateNote`,
`UpdateNote` and `EraseNote` are the routes with their SQL; `ReceiveAnswer` and
`ReceiveError` are the rest of each method, and its `catch` clause. The text of a note
is abstracted to what it was typed for (`NewNote`, or the note being edited), a list
to the set of its entries, and the cookie `jar` to the user of its session; the server
may refuse any call, which is how it does not accept a session. Calls that do not
touch the table are served when their answer is received. A page that is loaded again
gives up its calls, but those that change notes may still be served (`page = None`).
`undisturbed` is history.

**AppPages.** `app` is the page: how far `init` is (`phase`), `App.user`, the address
(`hash`) and the number of its events not handled yet (`due`), what the container
shows (`view`: the page, the person it greets or names, whose notes it lists) and
whose `App.notes` are. `jar` is the user of the cookie, `call[k]` a call with the
user it was sent for. `HandleHashChange` and the end of `init` (`Start`) call
`route()`, which is `RouteFrom`: it redirects, or renders, or renders and makes a
call. `Then` and `Catch` are what each method does after its `await`;
`ThenCheckAuth` is the second call of `verifyEmail` and `resetPassword`. `Submit` is
every form and button, `Visit` a link, the history or a typed address, `OtherPage`
what other pages do to the cookie. A token stands for the user it was mailed to;
the server may refuse any call (`Fail`), so spent tokens need no state. An e-mail
address in an address is `typed`, `encoded` or `garbled`: this conversion is modelled,
as the code does it twice. `NotesApp` models the same `App` with what its notes page
does; there the other pages are one, here the notes are one list per user. `steady`
is history.

**ApiClient.** `jar` is the cookie `csrf_token`, `token[p]` and `tried[p]` are
`API.csrfToken` and `retryCount` of a page, `call[k]` is a call of `API.request` or
the fetch of `API.init`, with the request under way: the cookie and the header it
carries, and the cookie and the answer that come back. `Begin`, `Receive` and
`GiveUp` (the timeout) are `request`; `Open` is `init`; `GetToken`, `ReceiveToken`,
`ReadToken`, `FetchFails` and `FetchAgain` are `fetchCSRFToken` and its route, with the
arrival of the cookie and the reading of the body apart; `ServeGet` and `ServeChange`
are the middleware in front of any handler, of which only `runs` counts the runs.
`crossed` is history.

Where several handlers take the same step (a session is opened at the end of
login, password change, magic link and reset), one action stands for it and
`map` names one of the places.

Operators whose comment begins with "Mutant" are not part of the model. Each is a
plausible slip in the code of the definition that follows, and the property paired
with it in `PROJECT.json` fails when it takes that definition's place.

## Runs

| Run | Question | Bounds |
|---|---|---|
| `sessions` | Are only usable sessions accepted, do ended ones stay ended, do the two stores implement the registry? | 2 calls, 2 users, 2 tokens, duration 2 ticks, all outcomes, Redis forgets |
| `session_expiry` | Does an unused session expire for good? | 2 calls, 1 token, all outcomes |
| `revoke_all` | Does a password change end all sessions? **No** | 1 call, nothing fails |
| `auth_sessions` | Who gets past `requireAuth`; what has a password change ended when it is answered? | 2 requests, 2 tokens, 2 passwords, Redis refuses and forgets |
| `auth_links` | Is a link that gave a session refused to later requests? Who verifies an address? | 2 requests, 2 users, 1 link, 2 tokens, replies of Postgres and of the mail provider lost |
| `link_used_once` | Does a magic link give one session? **No** | 2 requests, 1 link, nothing fails |
| `stale_password` | Is the password compared with the one being replaced? **No** | 2 requests, 3 passwords, nothing fails |
| `registration` | Whose is an account two requests register? Under whom does a shutdown close the pools? | 2 connections, 2 addresses, 2 spellings of a name, all outcomes, a signal or a failing listener at any time |
| `username_case` | Are names unique up to case? **No** | as `registration`, nothing fails |
| `notes_app` | Where does a typed text end, what does the button do, when is the list right? | 1 page, 2 calls, 1 user, 2 notes, all outcomes |
| `app_pages` | Is the page shown the one of the address and of the user, and does it come to rest? | 1 page, 2 calls, 2 users, 7 addresses, 1 event due |
| `api_client` | Does a repeated call take effect once, when is it refused again, does it end? | 1 page, 2 calls, 4 tokens |

Two calls are enough for the interleavings of interest: each property relates one
call to what others do in between, and one other call, which may end and begin
again as another operation, does all of that. Two tokens allow a session that is
being ended next to one that is being made; a duration of two ticks tells "just
extended" from "about to expire". One password is enough for `registration`, whose
founders differ in the spelling of the name. One link is enough for `auth_links`: its
properties follow one link, of any kind, through two requests that present it, and the
account it verifies. The theorems have no bounds. Tokens, links and addresses are used up in these
instances, so the runs of `AuthFlows` and `Accounts` come to a rest and do not check for
deadlock, nor does `notes_app`, whose notes are used up, nor `app_pages`, whose user may
stop; calls of `SessionStore` and `ApiClient` never wait for one another, and their runs
do check.

The runs of the browser have one page. Two calls of a page already cross in every
order, against the page's own state and against the cookie, and a second page meets the
first only in the table and the cookie, which the server and `CookieExpires` also
change under it. Any number of pages, calls and users is what the proofs are for. Two
ways to sign in are enough: `magic` brings a session at once, `reset` one with
`checkAuth` behind it. Four tokens are never all in use (TLC would stop at `Fresh`).

In `app_pages` the user acts only while fewer than `Haste` events are due (one answer
more may still add one), and goes to one address of every kind that `route` tells
apart; `#check-email` and `#home` are reached by the calls that lead there. Links are
of one user each, and one of the users has an e-mail address with a percent sign, the
other one with a character that must be encoded. Two calls suffice for an answer that
arrives after another call has changed user, cookie or address.

The properties and the hazards behind them:

- `ValidSession`: accepted only if usable when asked. The code looks at Redis, then
  at Postgres, then at the clock, and other requests delete, extend and expire the
  session between these.
- `LoggedOutIsDead`, `FallbackRevoked`: what a deletion has achieved when it
  reports success, including that no concurrent validation undoes it.
- `RegistrySpec`: the refinement; no sequence of commands brings a session back
  or gives it to another user. `EXPIRE` does nothing to a missing key: this is
  what the property rests on.
- `AdmittedBySession`, `AnsweredMeansRevoked`, `StoreSpec`: the same seen from the
  routes. The second is checked with a Postgres that answers, since the handlers
  ignore the error of `DeleteAllUserSessions`.
- `RedeemedIsSpent`, `VerifiedByMail`: links. The first is checked without refused
  commands, since a refused `UPDATE` is only logged and leaves the link open.
- `FounderOnly`: rests on the UNIQUE constraints, as the checks before `INSERT` are
  races.
- `TextWhereTyped`, `LabelTellsTruth`: `editingNoteId` outlives routes, users and the
  note itself, and answers to earlier saves clear the form.
- `ListAgrees`: the list is right if the calls of the page did not overlap. It is not
  if they did: a list read before a deletion and received after it brings the note
  back until the next load.
- `OrderlyStop`: `ListenAndServe` returns when `Shutdown` begins, with requests still being
  served and more to be read from connections accepted before. That the pools outlive them
  rests on two goroutines keeping to an order: `Shutdown` returns, `done` is closed,
  `<-done` is passed, the deferred functions run. Past the 30 s, or when the listener fails
  (`ListenFails`), the pools are closed under requests.
- `PageFollowsAddress`: a page is rendered for the address as it was, and answers
  change address and container later. It fails for an e-mail address with a percent
  sign: `renderCheckEmail` decodes what `URLSearchParams` has decoded, so
  `decodeURIComponent` throws or shows another address.
- `GuardsOutliveRoute`: `route` guards a page when it is shown, not while it is. That no
  form for guests stays with a user, and no notes without one, rests on every method
  that sets `user` also changing the address. The exception it names is real: a
  failed `checkAuth` after a reset, on a page that is already `#app`.
- `SignedInAs`: user, cookie, greeting and list agree when calls about the session came
  one by one. They do not when they overlap: a list asked for by the last user is shown
  to the next.
- `Settles`: every redirect and every spinner ends.
- `RunsOnce`, `RefusedTwiceMeansCrossed`, `CallsEnd`: the repetition in `API.request`.
  The second rests on the order of two `Set-Cookie` headers in one answer
  (`ensureToken` and `GetToken` both make a token when the request has none). `crossed`
  says what may spoil it: the fetch failed, the cookie expired, or another call
  changed the cookie or the page's token.

**Fairness.** `TimedSpec` of `SessionStore` assumes weak fairness of `Tick`: time goes
on. Its calls are given none, since a call may hang until the process ends, so a
session is only promised to expire when no call is about to use it. `Spec` of
`ApiClient` assumes weak fairness of each call: `request` aborts after 30 s, a fetch of
a token ends when the network gives it up, and JavaScript runs what is due. `FairSpec`
of `AppPages` assumes weak fairness of `Browser` as a whole, for the same reasons; user
and other pages have none, and `Settles` is about a page they leave alone. Neither the
fetch of the token (`api.js:14`) nor the reading of a body (after the `clearTimeout` of
line 56) has a timeout of its own: that these end is the network's doing.

**What does not hold.** Four runs end in a counterexample to what a comment or a
mail of the repository says; `findings` quotes the lines. The gravest is
`revoke_all`: `DeleteAllUserSessions` looks for sessions in the table that is only
written when Redis fails, so with a healthy Redis a password change ends none.

## Proofs

`SessionStoreProofs` proves, for any sets of calls, users and tokens, any duration
above zero and any of the outcomes, that `StoreSpec` implies `[]TypeOK`,
`[]ValidSession`, `[]LoggedOutIsDead`, `[]FallbackRevoked` and `Registry!Spec`. The
assumptions are those `SessionStore` names: `None` is no user or token, the duration
is positive, the outcomes are among the three.

None of the properties is inductive. `IInv` adds what they rest on:

- `StoredAreIssued`, `KnownAreIssued`: the stores agree with `issued`, and nobody
  knows a token that was not generated. Without them a stored user could be wrong.
- `CreateInv`, `PendingInv`: a token in `CreateSession` belongs to one call and is in
  no client's hands and in no list, so it may be written without reviving anything.
- `ValidateInv`, `DeleteInv`, `RevokeInv`: what each operation knows at each of its
  steps. For example before `GET` and before `SELECT` a token that is alive was
  usable when the call began.

The argument turns on `NoRevival`: no step makes an issued token that no
`CreateSession` is working on appear in a store it was not in. `Locality` says that a
call changes by its own steps, `Tick` and `Crash` only, so that `ValidateStep`,
`DeleteStep` and `RevokeStep` look at one call's own commands and use `NoRevival` for
all others. The refinement follows: `BeginCreate` is `Open`, everything else is
`Settle` (`OpenStep`, `SettleStep`).

`AuthFlowsProofs` proves the same of the routes, for any requests, users, passwords,
links and routes that carry a cookie. `FlowsUseStore` is the composition: every step of
a route is a step of `SessionStore` or leaves the stores alone, so `Spec` implies
`StoreSpec` and with it all of the above (`FlowsKeepSessions`). The assumption
`FlowNoneAssumption` says that `None` is no password, link, kind of link or route.
`FlowInv` adds to `IInv`:

- `StageFacts`: where a handler can be, by the route it serves. It rests on `Moved`, the
  control flow of `handlers/auth.go` as a table of steps, which `HandlerMoves` reads off
  the actions once, so that the invariants need not look at each action again.
- `InputFacts`, `MailInv`: the client sends cookies and links it was given, and a link it
  was given is somebody's.
- `UserFacts`, `GuardFacts`: whose request it is, and that the user in the context is the
  one of a session that was usable when the request arrived. While the middleware waits
  this is what `ValidateInv` says of its call.

`AdmittedBySession` and `VerifiedByMail` follow from it. Two theorems have a hypothesis on
what Postgres does, the one the runs have, because the code ignores the error of the
command in question. `SpentTheorem` (`RedeemedIsSpent`) assumes that Postgres refuses
nothing, though its replies may be lost, as in `auth_links`: a refused `UPDATE` is only
logged and leaves the link open. `SpentInv` says that a link is no longer open once a
handler has marked it, and that a late request gets no further than its `SELECT`.
`AnsweredTheorem` (`AnsweredMeansRevoked`) assumes that Postgres answers, as in
`auth_sessions`: the handlers ignore the error of `DeleteAllUserSessions`. `RevokedInv`
says that the sessions a request must end belong to the account it is for, and follows
them through `DeleteAllUserSessions`; that they get no new row is `NoRevival` again.
Redis may do anything in both.

`AccountsProofs` proves `[]TypeOK`, `[]FounderOnly` and `[]OrderlyStop` for any requests,
addresses, names and tokens, from `None` being none of them. `OneFounder` is what makes
`FounderOnly` inductive: a session belongs to a registered address, and a request about
to open one is the only request for its address and finds no session there. It is kept
because `INSERT` touches no row that exists (`InsertStep`). `Attended` ties a session being
opened to its request and a request to its connection. `OrderlyStop` follows from it with
`StopOrder`, what the goroutines of `run` know of each other: past `<-done` the channel is
closed, then `Shutdown` has returned, and if it was in time there is no connection and
`main` accepts no more. `ProcessStep` shows that each of their steps keeps this.

`NotesAppProofs` proves `[]TypeOK`, `[]TextWhereTyped`, `[]LabelTellsTruth` and
`[]ListAgrees` for any pages, calls, users and notes, from `NewNote` being no note and
`None` being nothing else. What makes them inductive is `FormInv`: what is in the inputs
was typed for `editingNoteId`, and they are empty wherever the note form is not; and
`SentInv`: a call on its way carries a text that was typed for what it will write. Each
method of `App` is an operator on the state of one page and a lemma says it keeps
`FormInv`, so that an action only has to be seen to apply one of them to one page.

`ListAgrees` speaks of a page at rest, so `ListInv` says what the page is while its one
call is under way (`CallAgrees`): before the call is served `App.notes` are the rows of
the table, and once it is answered they are what the rest of the method will make of
`App.notes` (`After`). `RowsCreated`, `RowsUpdated` and `RowsErased` say that the array
methods of `saveNote` and `deleteNote` do to the list what the SQL does to the rows. The
first needs `IdsInUse`, that a new note has an identifier no row has. A step of another
page or session that changes the cookie or the table disturbs the page or leaves it as
it was (`FrameAgrees`).

`AppPagesProofs` proves `[]TypeOK`, `[]SignedInAs`, `[]PageFollowsAddress` and
`GuardsOutliveRoute` for any users, calls, events due and addresses visited, from `None`
being no user and no operation. `PagesInv` consists of

- `PhaseInv`: until `init` is done there is the loading page, no user, no listener, and
  at most the call of its `checkAuth`, so the first `route` starts from a known page;
- `CallInv`: answers that sign somebody in tell whom;
- `Fits`: when no event is due the page is the one of the address. An answer that
  changes the address makes an event due, one that does not shows a result or what fits
  any address, and `RouteFrom` renders for the address it read (`LeadsNowhere`,
  `LeadsFits`);
- `SteadyInv`: while calls about the session come one by one they are calls of the
  cookie's user, `App.user` is that user unless a `checkAuth` is under way, and the notes
  page greets him and lists his notes or is waiting for them.

`PageFollowsTheorem` has the hypothesis that no address users go to leads to
`#check-email`: they come there by the program, which encodes the e-mail address. The
run has it too; without it the address of a person may be one nobody encoded.
`GuardsTheorem` is the action property, proved from `PagesInv`: `ReceiveGuards`
and `FailGuards` look at the answers and failures that set `App.user`, all other steps
leave the user or the page as they were.

`ApiClientProofs` proves `[]TypeOK`, `[]RunsOnce` and `[]RefusedTwiceMeansCrossed` for
any pages, calls and tokens. The theorems assume `[]CanMint`: the server can always
generate a value nobody has, 32 random bytes in the code. `RunsInv` counts the runs
of the handler along the stages of a call, `TokenInv` says of a call nothing has
crossed that the token it is fetching is the one the browser has or will have. A step
of one call leaves `TokenInv` of the others alone, or has crossed them (`OneCall`).

Only model-checked: the liveness properties `SessionsExpire`, `CallsEnd` and `Settles`.
They need fairness, whose `ENABLED` the prover does not reason about. Every invariant
and every safety action property of a passing run is a theorem.

Writing the proofs changed the models in three places. `PageOf` had two arms for the
links without a token, which `CASE` leaves open in TLA+ though TLC takes the first: the
arms now exclude each other. `RedeemedIsSpent` allowed for a late request before its
handler only at `"start"`, not while the middleware looks at a cookie it sent along
(`"auth"`). And the constants were not said to be apart from `None` where an option is
told from a value by it (`FlowNoneAssumption`, `OpAssumption`).

## Not modelled

- Bytes: hashing, token formats, JSON, templates, validation of input. Requests in
  the models carry valid data.
- Commands applied late: a command whose reply was lost has taken effect when the
  call goes on. A Redis that applies a `SET` after its client gave up, or a replica
  that forgets a `DEL`, could bring a session back.
- The cancellation of a request whose client went away: to the stores it is a
  command that is refused or whose reply is lost.
- The rate limiter, which no route of `main.go` uses, and `GET /api/notes/{id}`, which
  changes nothing and the page never asks for.
- Messages on the screen, layout, and the wording that tells the types of
  `#check-email` apart. The footer's links and the skip link of `index.html` are
  fragments like any other: `route` answers them with "Page not found" (`"other"`).
- The start of the server, which gives up at the first error; its shutdown is in
  `Accounts` only, since the other modules have crashes at every step, which leave the
  stores in the same states.
- Two pages that edit one note: the last write wins, and nothing promises otherwise.
- Health checks, pages, assets, headers, compression, logging, configuration and
  scripts: stateless or sequential.

## Plan

1. Proofs: what is left are facts next to the theorems, not the properties themselves.
   Of `AuthFlows`, that a link is redeemed at most once per request that was under way
   when it was first redeemed; of `SessionStore`, a bound on what a healthy Redis keeps
   alive after `DeleteAllUserSessions`.
2. `NotesApp` and `AppPages` model one `App` from two sides; an abstract page that both
   implement would tie them together.
3. The counter script of the rate limiter, if a route comes to use it.
