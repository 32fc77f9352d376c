------------------------------ MODULE AppPages ------------------------------
(***************************************************************************)
(* The pages of app.js: the start of the application, the router on the    *)
(* fragment of the address, and the pages that sign users in and out, with *)
(* the calls of api.js they make.  One page of the browser is modelled;    *)
(* others share the cookie with it and change it at any time.  What the    *)
(* notes page does after it is shown is the matter of NotesApp.            *)
(*                                                                         *)
(* A handler runs without interruption up to an await; what follows the    *)
(* await is another step.  Answers arrive in any order, the server may     *)
(* refuse any call, and API.request gives up one that takes 30 seconds.    *)
(***************************************************************************)
EXTENDS Naturals

CONSTANTS User,     \* users, whose e-mail address and links name them
          Percent,  \* those with a percent sign in their address
          Special,  \* those with a character that means something in a query
          Call,     \* calls that may be in flight: bounds the user's haste
          Haste,    \* events hashchange the user may leave due, a bound too
          Addresses, \* where the user goes, a set of members of Address
          None

ASSUME UserAssumption == Percent \cup Special \subseteq User /\ None \notin User
ASSUME HasteAssumption == Haste \in Nat

VARIABLES
    jar,    \* whose session the cookie names
    app,    \* the object App, the address and the document
    call,   \* call[k]: a call in flight
    steady  \* history: calls about the session came one by one, see SignedInAs

vars == <<jar, app, call, steady>>

-----------------------------------------------------------------------------
\* Addresses and what is shown for them

\* #check-email of type verification offers to send the link again, the other
\* types only differ in wording.  "other" is any fragment without a page, as
\* the footer's links and the skip link of index.html are.
CheckEmail == {"check-verification", "check-inbox"}
Links == {"verify-email", "magic-link", "reset-password"}
Plain == {"home", "login", "register", "forgot-password", "app", "other"}
Route == Plain \cup Links \cup CheckEmail

\* An e-mail address is as the user typed it, encoded, or has become another.
Text == {"typed", "encoded", "garbled"}
Address == [route : Route, of : User \cup {None}, text : Text \cup {None}]

ASSUME AddressesAssumption == Addresses \subseteq Address

To(route) == [route |-> route, of |-> None, text |-> None]
Link(route, u) == [route |-> route, of |-> u, text |-> None]

\* Mutant: the address is put into the query as it is.
UncodedCheck(type, u) == [route |-> type, of |-> u, text |-> "typed"]

\* `#check-email?type=...&email=${encodeURIComponent(email)}`
CheckAddress(type, u) == [route |-> type, of |-> u, text |-> "encoded"]

\* URLSearchParams in parseHash undoes the encoding once; what was not encoded
\* loses the characters that mean something.
Param(h) == IF h.text = "encoded" THEN "typed"
            ELSE IF h.of \in Special \cup Percent THEN "garbled" ELSE h.text

\* What follows renderCheckEmail's own decodeURIComponent depends on the two
\* characters after the percent sign: it throws or they become another one.
Undecodable(h) == h.route \in CheckEmail /\ h.of \in Percent

Results == {"verified", "failed"}
Waits == {"loading", "verifying", "signing-in"}
View == [page : (Route \ (Links \cup {"app", "other"})) \cup Results \cup Waits
                   \cup {"reset-password", "notes", "not-found"},
         of : User \cup {None}, text : Text \cup {None}, shown : User \cup {None}]

Showing(page) == [page |-> page, of |-> None, text |-> None, shown |-> None]

\* The views route may leave behind for an address without a call of its own.
Rendered(a) ==
    LET h == a.hash IN
    IF h.route \in CheckEmail
    THEN {[Showing(h.route) EXCEPT !.of = h.of,
                                   !.text = IF Undecodable(h) THEN "garbled" ELSE Param(h)]}
            \cup (IF Undecodable(h) THEN {a.view} ELSE {})
    ELSE IF h.route = "other" \/ (h.route \in Links /\ h.of = None) THEN {Showing("not-found")}
    ELSE {[Showing(h.route) EXCEPT !.of = h.of]}

-----------------------------------------------------------------------------
\* phase tells how far init() is; notes is whose notes App.notes are; due counts
\* the hashchange events not handled; view.of is who the page greets or names,
\* view.shown whose notes it lists.
AppState == [phase : {"csrf", "me", "ready"}, user : User \cup {None}, hash : Address,
             due : Nat, view : View, notes : User \cup {None}]

\* Calls that may open a session, those behind requireAuth that matter here, and
\* the rest: magicLink and forgotPassword both ask for a mail.
Opening == {"login", "register", "magicVerify", "reset"}
Guarded == {"me", "verifyMe", "resetMe", "logout", "list"}
SessionOps == Opening \cup Guarded
Op == SessionOps \cup {"mail", "resend", "verify"}

ASSUME OpAssumption == None \notin Op

Free == [op |-> None, who |-> None, of |-> None]
CallState == [op : Op, who : User \cup {None}, of : User \cup {None}]

\* API.request: the browser adds the cookie when the call is sent; who it is of
\* matters to guarded calls only.
Request(op, u) == [op |-> op, who |-> IF op \in Guarded THEN jar ELSE None, of |-> u]

OneByOne(calls, op) ==
    op \in SessionOps => \A k \in Call : calls[k].op \notin SessionOps

Send(k, op, u) ==
    /\ call[k] = Free
    /\ call' = [call EXCEPT ![k] = Request(op, u)]
    /\ steady' = (steady /\ OneByOne(call, op))

Loading(hash) == [phase |-> "csrf", user |-> None, hash |-> hash, due |-> 0,
                  view |-> Showing("loading"), notes |-> None]

Init ==
    /\ jar \in User \cup {None}
    /\ \E h \in Addresses : app = Loading(h)
    /\ call = [k \in Call |-> Free]
    /\ steady = TRUE

\* window.location.hash = h.  Nobody listens before init() is done.
GoTo(a, h) ==
    [a EXCEPT !.hash = h, !.due = IF a.phase = "ready" /\ a.hash # h THEN @ + 1 ELSE @]

-----------------------------------------------------------------------------
\* route(), as what follows state a with the calls c and the history s

\* Mutant: forms for guests are shown to everybody.
OnlyNotesForbidden(a) == a.hash.route = "app" /\ a.user = None

Forbidden(a) == \/ a.hash.route = "app" /\ a.user = None
                \/ a.hash.route \in {"login", "register"} /\ a.user # None

Redirect(a) == GoTo(a, To(IF a.user = None THEN "login" ELSE "app"))

\* verifyEmail, verifyMagicLink and renderNotesApp show a page and make a call.
OpOf(h) == CASE h.route = "verify-email" /\ h.of # None -> "verify"
             [] h.route = "magic-link" /\ h.of # None   -> "magicVerify"
             [] h.route = "app"                         -> "list"
             [] OTHER                                   -> None

Waiting(a) == CASE a.hash.route = "verify-email" -> Showing("verifying")
                [] a.hash.route = "magic-link"   -> Showing("signing-in")
                [] a.hash.route = "app"          -> [Showing("notes") EXCEPT !.of = a.user]

RouteFrom(a, c, s) ==
    \/ /\ Forbidden(a)
       /\ app' = Redirect(a)
       /\ call' = c
       /\ steady' = s
    \/ /\ ~Forbidden(a) /\ OpOf(a.hash) = None
       /\ \E v \in Rendered(a) : app' = [a EXCEPT !.view = v]
       /\ call' = c
       /\ steady' = s
    \/ /\ ~Forbidden(a) /\ OpOf(a.hash) # None
       /\ app' = [a EXCEPT !.view = Waiting(a)]
       /\ \E k \in Call :
             /\ c[k] = Free
             /\ call' = [c EXCEPT ![k] = Request(OpOf(a.hash), a.hash.of)]
       /\ steady' = (s /\ OneByOne(c, OpOf(a.hash)))

\* Mutant: a page is rendered again without an event.
HandleAnyTime ==
    /\ app.phase = "ready"
    /\ RouteFrom([app EXCEPT !.due = @ - 1], call, steady)
    /\ UNCHANGED jar

HandleHashChange ==
    /\ app.due > 0
    /\ RouteFrom([app EXCEPT !.due = @ - 1], call, steady)
    /\ UNCHANGED jar

\* init(): the token for writes, then checkAuth.
FetchToken ==
    /\ app.phase = "csrf"
    /\ app' = [app EXCEPT !.phase = "me"]
    /\ \E k \in Call : Send(k, "me", None)
    /\ UNCHANGED jar

-----------------------------------------------------------------------------
\* The rest of a method, after its await

SignedIn(a, u, h) == GoTo([a EXCEPT !.user = u], h)

\* Mutant: the link's user is not taken over.
LinkIgnored(a, u) == GoTo(a, To("app"))

MagicSignIn(a, u) == SignedIn(a, u, To("app"))

SignedOut(a) == GoTo([a EXCEPT !.user = None, !.notes = None], To("home"))

RenderNotes(a) == IF a.view.page = "notes" THEN [a EXCEPT !.view.shown = a.notes] ELSE a

\* Mutant: without their catch clauses the pages of links stay as they are.
StillWaiting(a) == a

LinkFailed(a) == [a EXCEPT !.view = Showing("failed")]

\* The catch clauses; a message to the user is left out.
Catch(a, op) ==
    CASE op = "logout"      -> SignedOut(a)
      [] op = "resetMe"     -> SignedIn(a, None, To("app"))
      [] op = "verifyMe"    -> [a EXCEPT !.user = None, !.view = Showing("verified")]
      [] op \in {"verify", "magicVerify"} -> LinkFailed(a)
      [] op = "list"        -> RenderNotes(a)
      [] OTHER              -> a

Then(a, r) ==
    CASE r.op = "login"       -> SignedIn(a, r.of, To("app"))
      [] r.op = "register"    -> SignedIn(a, r.of, CheckAddress("check-verification", r.of))
      [] r.op = "logout"      -> SignedOut(a)
      [] r.op = "mail"        -> GoTo(a, CheckAddress("check-inbox", r.of))
      [] r.op = "resend"      -> a
      [] r.op = "magicVerify" -> MagicSignIn(a, r.of)
      [] r.op = "verifyMe"    -> [a EXCEPT !.user = r.who, !.view = Showing("verified")]
      [] r.op = "resetMe"     -> SignedIn(a, r.who, To("app"))
      [] r.op = "list"        -> RenderNotes([a EXCEPT !.notes = r.who])

\* Whether a call can be served, and the cookie after its answer.
Permitted(k) == call[k].op \in Guarded => call[k].who # None

Cookie(k) == IF call[k].op \in Opening THEN call[k].of
             ELSE IF call[k].op = "logout" THEN None ELSE jar

Receive(k) ==
    /\ call[k].op \notin {None, "me", "reset", "verify"} /\ Permitted(k)
    /\ app' = Then(app, call[k])
    /\ jar' = Cookie(k)
    /\ call' = [call EXCEPT ![k] = Free]
    /\ UNCHANGED steady

\* resetPassword and verifyEmail go on with checkAuth.
ThenCheckAuth(k) ==
    /\ call[k].op \in {"reset", "verify"}
    /\ jar' = Cookie(k)
    /\ LET op == IF call[k].op = "reset" THEN "resetMe" ELSE "verifyMe" IN
          /\ call' = [call EXCEPT ![k] = [op |-> op, who |-> jar', of |-> None]]
          /\ steady' = (steady /\ OneByOne([call EXCEPT ![k] = Free], op))
    /\ UNCHANGED app

\* The call is refused, or its answer is lost or given up after the browser has
\* taken the cookie from it.
Fail(k) ==
    /\ call[k].op \notin {None, "me"}
    /\ app' = Catch(app, call[k].op)
    /\ call' = [call EXCEPT ![k] = Free]
    /\ \/ /\ jar' = jar
          /\ steady' = (steady /\ (call[k].op \in SessionOps => call[k].op \in Opening \/ ~Permitted(k)))
       \/ /\ Permitted(k) /\ Cookie(k) # jar /\ jar' = Cookie(k)
          /\ steady' = FALSE

\* init() goes on: checkAuth has set the user, the listeners are attached and
\* route() is called for the address as it is by now.
Start(k) ==
    /\ call[k].op = "me"
    /\ \E user \in {call[k].who, None} :
          RouteFrom([app EXCEPT !.phase = "ready", !.user = user],
                    [call EXCEPT ![k] = Free], steady /\ user = call[k].who)
    /\ UNCHANGED jar

-----------------------------------------------------------------------------
\* What the user and other pages do

\* A link, a button of the history, or an address typed in.
Visit(h) ==
    /\ app.due < Haste
    /\ app.hash # h
    /\ app' = GoTo(app, h)
    /\ UNCHANGED <<jar, call, steady>>

\* The forms and buttons of a page.
Submit(k) ==
    /\ app.due < Haste
    /\ \/ /\ app.view.page = "login"
          /\ \E u \in User : Send(k, "login", u)
       \/ /\ app.view.page \in {"login", "forgot-password"}
          /\ \E u \in User : Send(k, "mail", u)
       \/ /\ app.view.page = "register"
          /\ \E u \in User : Send(k, "register", u)
       \/ /\ app.view.page = "reset-password"
          /\ Send(k, "reset", app.view.of)
       \/ /\ app.view.page = "check-verification"
          /\ Send(k, "resend", None)
       \/ /\ app.user # None
          /\ Send(k, "logout", None)
    /\ UNCHANGED <<jar, app>>

\* Calls in flight are given up; what the server still makes of them is seen
\* as a change by another page.
Reload ==
    /\ app' = Loading(app.hash)
    /\ call' = [k \in Call |-> Free]
    /\ steady' = TRUE
    /\ UNCHANGED jar

\* Another page signs in or out, or the session ends.
OtherPage ==
    /\ jar' \in (User \cup {None}) \ {jar}
    /\ steady' = FALSE
    /\ UNCHANGED <<app, call>>

Outside ==
    \/ \E h \in Addresses : Visit(h)
    \/ \E k \in Call : Submit(k)
    \/ Reload \/ OtherPage

Browser ==
    \/ HandleHashChange \/ FetchToken
    \/ \E k \in Call : Start(k) \/ Receive(k) \/ ThenCheckAuth(k) \/ Fail(k)

Next == Outside \/ Browser

Spec == Init /\ [][Next]_vars

\* Events are handled and calls end, if only because they are given up.
FairSpec == Spec /\ WF_vars(Browser)

-----------------------------------------------------------------------------
\* Properties

TypeOK ==
    /\ jar \in User \cup {None}
    /\ app \in AppState
    /\ call \in [Call -> CallState \cup {Free}]
    /\ steady \in BOOLEAN

\* The events are handled, for an address whose page can be shown.
Still == app.phase = "ready" /\ app.due = 0 /\ ~Undecodable(app.hash)

PageOf(h) ==
    CASE h.route = "other" \/ (h.route \in Links /\ h.of = None) -> "not-found"
      [] h.route = "verify-email" /\ h.of # None -> "verifying"
      [] h.route = "magic-link" /\ h.of # None   -> "signing-in"
      [] h.route = "app"                         -> "notes"
      [] OTHER                                   -> h.route

\* Once the events are handled the page is the one of the address, for the
\* person the address names, unless the result of a mailed link has taken its
\* place: redirects, late answers and changes of the address before init() is
\* done leave no other page behind.  Of an e-mail address with a percent sign
\* this is not true: renderCheckEmail decodes it twice.
PageFollowsAddress ==
    Still =>
        \/ app.view.page \in Results
        \/ /\ app.view.page = PageOf(app.hash)
           /\ app.hash.route \in CheckEmail \cup {"reset-password"} => app.view.of = app.hash.of
           /\ app.hash.route \in CheckEmail => app.view.text = "typed"

GuestForm == Still /\ app.view.page \in {"login", "register"} /\ app.user # None
OrphanedNotes == Still /\ app.view.page = "notes" /\ app.user = None

\* Who is signed in changes while answers are awaited, but the page that route
\* guarded never stays with the wrong user: forms for guests never with one who
\* is signed in, notes never without a user, unless checkAuth failed after a
\* password reset.
GuardsOutliveRoute ==
    [][/\ GuestForm' => GuestForm
       /\ OrphanedNotes' => \/ OrphanedNotes
                             \/ \E k \in Call : call[k].op = "resetMe" /\ call'[k] = Free]_vars

\* As long as calls about the session came one by one since the page was loaded
\* and were answered, and no other page touched the cookie: App.user is the user
\* of the cookie, and the notes page greets him and lists his notes.
SignedInAs ==
    steady /\ app.phase = "ready" /\ (\A k \in Call : call[k].op \notin SessionOps) =>
        /\ app.user = jar
        /\ Still /\ app.view.page = "notes" => app.view.of = jar /\ app.view.shown = jar

Settled ==
    /\ app.phase = "ready" /\ app.due = 0
    /\ \A k \in Call : call[k] = Free
    /\ app.view.page \in Waits => Undecodable(app.hash)

\* Left alone the page settles: redirects come to an end, and no page goes on
\* showing that it waits.
Settles == <>[][Browser]_vars => <>[]Settled
=============================================================================
