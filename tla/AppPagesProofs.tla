--------------------------- MODULE AppPagesProofs ---------------------------
(***************************************************************************)
(* Proofs about AppPages, for any number of users, calls in flight and     *)
(* events not yet handled, and wherever the user goes.                     *)
(***************************************************************************)
EXTENDS AppPages, TLAPS

\* Until init() is done there is the loading page, nobody signed in, nobody who
\* listens to the address, and no call but checkAuth's.
PhaseInv ==
    /\ app.phase # "ready" => app.user = None /\ app.due = 0 /\ app.view.page = "loading"
    /\ app.phase = "csrf" => \A k \in Call : call[k] = Free
    /\ app.phase = "me" => \A k, l \in Call :
          /\ call[k] # Free => call[k].op = "me"
          /\ call[k] # Free /\ call[l] # Free => k = l
    /\ app.phase = "ready" => \A k \in Call : call[k].op # "me"

\* The answers that sign somebody in tell who it is.
CallInv == \A k \in Call : call[k].op \in {"login", "register", "magicVerify"} => call[k].of \in User

\* What is shown in state a is the page of its address, for its person, whose
\* e-mail address is as typed when the fragment has it encoded.
Quiet(a) == a.phase = "ready" /\ a.due = 0 /\ ~Undecodable(a.hash)

PageFits(a) ==
    /\ a.view.page = PageOf(a.hash)
    /\ a.hash.route \in CheckEmail \cup {"reset-password"} => a.view.of = a.hash.of
    /\ a.hash.route \in CheckEmail /\ a.hash.text = "encoded" => a.view.text = "typed"

Fits(a) == Quiet(a) => a.view.page \in Results \/ PageFits(a)

InSession(k) == call[k].op \in SessionOps

\* What holds while calls about the session come one by one.
OneCall == \A k, l \in Call : InSession(k) /\ InSession(l) => k = l

CallsAreTheUsers ==
    \A k \in Call : /\ call[k].op \in Guarded => call[k].who = jar
                    /\ call[k].op = "list" => call[k].who # None

UserIsTheJars ==
    app.phase = "ready" /\ (\A k \in Call : call[k].op # "resetMe") => app.user = jar

NotesAreTheUsers ==
    Still /\ app.view.page = "notes" =>
        /\ app.view.of = app.user
        /\ \A k \in Call : InSession(k) => call[k].op \in {"list", "logout", "verifyMe"}
        /\ app.view.shown = jar \/ \E k \in Call : call[k].op = "list"

Steady == OneCall /\ CallsAreTheUsers /\ UserIsTheJars /\ NotesAreTheUsers

SteadyInv == steady => Steady

BaseInv == TypeOK /\ PhaseInv /\ CallInv /\ Fits(app)

PagesInv == BaseInv /\ SteadyInv

\* An address of #check-email has its e-mail address encoded.
Encoded(h) == h.route \in CheckEmail => h.text = "encoded"

-----------------------------------------------------------------------------
\* What the operators return

\* The address of a page without parameters, and the one #check-email is given,
\* are addresses that PageFollowsAddress is about.
LEMMA AddressesMade ==
    /\ \A r \in Route : To(r) \in Address /\ To(r).route = r
    /\ \A t \in CheckEmail, u \in User \cup {None} :
          /\ CheckAddress(t, u) \in Address
          /\ CheckAddress(t, u).route = t /\ CheckAddress(t, u).text = "encoded"
BY DEF To, CheckAddress, Address, Text, Route, Plain, Links, CheckEmail

\* State b is state a with the address h: what GoTo leaves.
Leads(a, b, h) ==
    /\ b.phase = a.phase /\ b.view = a.view /\ b.hash = h
    /\ b.due = IF a.phase = "ready" /\ a.hash # h THEN a.due + 1 ELSE a.due

\* What GoTo returns.
LEMMA GoToEffect ==
    ASSUME NEW a \in AppState, NEW h \in Address
    PROVE  /\ GoTo(a, h) \in AppState
           /\ Leads(a, GoTo(a, h), h)
           /\ GoTo(a, h).user = a.user /\ GoTo(a, h).notes = a.notes
<1> DEFINE due == IF a.phase = "ready" /\ a.hash # h THEN a.due + 1 ELSE a.due
           b == [a EXCEPT !.hash = h, !.due = due]
<1>1. due \in Nat
  BY DEF AppState
<1>2. GoTo(a, h) = b
  BY DEF GoTo
<1> HIDE DEF due
<1>3. b \in AppState
  BY <1>1 DEF AppState
<1>4. /\ b.phase = a.phase /\ b.view = a.view /\ b.hash = h /\ b.due = due
      /\ b.user = a.user /\ b.notes = a.notes
  BY DEF AppState
<1>5. Leads(a, b, h)
  BY <1>4 DEF Leads, due
<1> QED BY <1>2, <1>3, <1>4, <1>5

\* Once the events are handled the address has not been changed.
LEMMA LeadsNowhere ==
    ASSUME NEW a \in AppState, NEW b \in AppState, NEW h \in Address, Leads(a, b, h), Quiet(b)
    PROVE  Quiet(a) /\ a.hash = h /\ b.hash = h /\ b.view = a.view
<1>1. b.phase = "ready" /\ b.due = 0 /\ a.phase = "ready" /\ b.hash = h /\ b.view = a.view
  BY DEF Leads, Quiet
<1>2. a.due \in Nat
  BY DEF AppState
<1>3. a.hash = h
  <2> SUFFICES ASSUME a.hash # h PROVE FALSE
    OBVIOUS
  <2>1. b.due = a.due + 1
    BY <1>1 DEF Leads
  <2> QED BY <2>1, <1>1, <1>2
<1>4. a.due = 0
  BY <1>1, <1>3 DEF Leads
<1> QED BY <1>1, <1>3, <1>4 DEF Quiet

\* Going to an address keeps what is shown for it.
LEMMA LeadsFits ==
    ASSUME NEW a \in AppState, NEW b \in AppState, NEW h \in Address, Leads(a, b, h), Fits(a)
    PROVE  Fits(b)
<1> SUFFICES ASSUME Quiet(b) PROVE b.view.page \in Results \/ PageFits(b)
  BY DEF Fits
<1>1. Quiet(a) /\ a.hash = b.hash /\ b.view = a.view
  BY LeadsNowhere
<1> QED BY <1>1 DEF Fits, PageFits

\* State b is state a with a view of its own, for the same address.
Shows(a, b, v) == b.phase = a.phase /\ b.hash = a.hash /\ b.due = a.due /\ b.view = v

\* A result of a mailed link fits any address.
LEMMA ResultFits ==
    ASSUME NEW a, NEW b, NEW p \in Results, Shows(a, b, Showing(p))
    PROVE  Fits(b)
BY DEF Shows, Showing, Fits

\* What Showing returns.
LEMMA ShowingView ==
    ASSUME NEW p, p \in (Route \ (Links \cup {"app", "other"})) \cup Results \cup Waits
                          \cup {"reset-password", "notes", "not-found"}
    PROVE  Showing(p) \in View /\ Showing(p).page = p
BY DEF Showing, View

\* Signing in and going to an address, as Then and Catch do.
LEMMA SignedInEffect ==
    ASSUME NEW a \in AppState, NEW u \in User \cup {None}, NEW h \in Address
    PROVE  /\ SignedIn(a, u, h) \in AppState
           /\ Leads(a, SignedIn(a, u, h), h)
           /\ SignedIn(a, u, h).user = u /\ SignedIn(a, u, h).notes = a.notes
<1> DEFINE b == [a EXCEPT !.user = u]
<1>1. /\ b \in AppState
      /\ b.phase = a.phase /\ b.view = a.view /\ b.hash = a.hash /\ b.due = a.due
      /\ b.user = u /\ b.notes = a.notes
  BY DEF AppState
<1>2. SignedIn(a, u, h) = GoTo(b, h)
  BY DEF SignedIn
<1> HIDE DEF b
<1>3. /\ GoTo(b, h) \in AppState /\ Leads(b, GoTo(b, h), h)
      /\ GoTo(b, h).user = b.user /\ GoTo(b, h).notes = b.notes
  BY <1>1, GoToEffect
<1>4. Leads(a, GoTo(b, h), h)
  BY <1>1, <1>3 DEF Leads
<1> QED BY <1>1, <1>2, <1>3, <1>4

\* Signing out.
LEMMA SignedOutEffect ==
    ASSUME NEW a \in AppState
    PROVE  /\ SignedOut(a) \in AppState
           /\ Leads(a, SignedOut(a), To("home"))
           /\ SignedOut(a).user = None
<1> DEFINE b == [a EXCEPT !.user = None, !.notes = None]
<1>1. /\ b \in AppState /\ b.user = None
      /\ b.phase = a.phase /\ b.view = a.view /\ b.hash = a.hash /\ b.due = a.due
  BY DEF AppState
<1>2. SignedOut(a) = GoTo(b, To("home"))
  BY DEF SignedOut
<1> HIDE DEF b
<1>3. To("home") \in Address
  BY AddressesMade DEF Route, Plain
<1>4. /\ GoTo(b, To("home")) \in AppState /\ Leads(b, GoTo(b, To("home")), To("home"))
      /\ GoTo(b, To("home")).user = b.user
  BY <1>1, <1>3, GoToEffect
<1>5. Leads(a, GoTo(b, To("home")), To("home"))
  BY <1>1, <1>4 DEF Leads
<1> QED BY <1>1, <1>2, <1>4, <1>5

\* Showing the result of a mailed link, with the user or without.
LEMMA ResultEffect ==
    ASSUME NEW a \in AppState, NEW u \in User \cup {None}, NEW p \in Results
    PROVE  LET b == [a EXCEPT !.user = u, !.view = Showing(p)] IN
               b \in AppState /\ Shows(a, b, Showing(p)) /\ b.user = u
<1>1. Showing(p) \in View
  BY ShowingView
<1> QED BY <1>1 DEF AppState, Shows

\* Showing that a mailed link is of no use.
LEMMA LinkFailedEffect ==
    ASSUME NEW a \in AppState
    PROVE  /\ LinkFailed(a) \in AppState /\ Shows(a, LinkFailed(a), Showing("failed"))
           /\ LinkFailed(a).user = a.user
<1>1. Showing("failed") \in View
  BY ShowingView DEF Results
<1> QED BY <1>1 DEF AppState, Shows, LinkFailed

\* RenderNotes changes what the notes page lists, and nothing on other pages.
Lists(a, b, u) ==
    /\ b.phase = a.phase /\ b.hash = a.hash /\ b.due = a.due /\ b.user = a.user
    /\ b.view.page = a.view.page /\ b.view.of = a.view.of /\ b.view.text = a.view.text
    /\ a.view.page = "notes" => b.view.shown = u

LEMMA RenderNotesEffect ==
    ASSUME NEW a \in AppState
    PROVE  RenderNotes(a) \in AppState /\ Lists(a, RenderNotes(a), a.notes)
<1>1. CASE a.view.page = "notes"
  <2> DEFINE v == [a.view EXCEPT !.shown = a.notes]
  <2>1. /\ v \in View /\ v.shown = a.notes
        /\ v.page = a.view.page /\ v.of = a.view.of /\ v.text = a.view.text
    BY DEF AppState, View
  <2>2. RenderNotes(a) = [a EXCEPT !.view = v]
    BY <1>1 DEF RenderNotes
  <2> HIDE DEF v
  <2>3. [a EXCEPT !.view = v] \in AppState /\ Lists(a, [a EXCEPT !.view = v], a.notes)
    BY <2>1 DEF AppState, Lists
  <2> QED BY <2>2, <2>3
<1>2. CASE a.view.page # "notes"
  BY <1>2 DEF RenderNotes, Lists
<1> QED BY <1>1, <1>2

\* The same after the answer with the notes of user u.
LEMMA ListEffect ==
    ASSUME NEW a \in AppState, NEW u \in User \cup {None}
    PROVE  LET b == RenderNotes([a EXCEPT !.notes = u]) IN b \in AppState /\ Lists(a, b, u)
<1> DEFINE c == [a EXCEPT !.notes = u]
<1>1. /\ c \in AppState /\ c.phase = a.phase /\ c.hash = a.hash /\ c.due = a.due
      /\ c.user = a.user /\ c.view = a.view /\ c.notes = u
  BY DEF AppState
<1> HIDE DEF c
<1>2. RenderNotes(c) \in AppState /\ Lists(c, RenderNotes(c), c.notes)
  BY <1>1, RenderNotesEffect
<1>3. Lists(a, RenderNotes(c), u)
  BY <1>1, <1>2 DEF Lists
<1> QED BY <1>2, <1>3 DEF c

\* The notes fit no worse than before.
LEMMA ListsFits ==
    ASSUME NEW a, NEW b, NEW u, Lists(a, b, u), Fits(a)
    PROVE  Fits(b)
BY DEF Lists, Fits, Quiet, PageFits

\* What the answer r to a call makes of state a, op by op.
ThenTable(a, b, r) ==
    /\ b \in AppState
    /\ r.op \in {"login", "magicVerify"} => Leads(a, b, To("app")) /\ b.user = r.of
    /\ r.op = "register" =>
          Leads(a, b, CheckAddress("check-verification", r.of)) /\ b.user = r.of
    /\ r.op = "logout" => Leads(a, b, To("home")) /\ b.user = None
    /\ r.op = "mail" => Leads(a, b, CheckAddress("check-inbox", r.of)) /\ b.user = a.user
    /\ r.op = "resend" => b = a
    /\ r.op = "verifyMe" => Shows(a, b, Showing("verified")) /\ b.user = r.who
    /\ r.op = "resetMe" => Leads(a, b, To("app")) /\ b.user = r.who
    /\ r.op = "list" => Lists(a, b, r.who)

LEMMA ThenEffect ==
    ASSUME NEW a \in AppState, NEW r \in CallState, r.op \notin {"me", "reset", "verify"}
    PROVE  ThenTable(a, Then(a, r), r)
<1>1. r.of \in User \cup {None} /\ r.who \in User \cup {None}
  BY DEF CallState
<1>2. To("app") \in Address /\ To("home") \in Address
  BY AddressesMade DEF Route, Plain
<1>3. /\ CheckAddress("check-verification", r.of) \in Address
      /\ CheckAddress("check-inbox", r.of) \in Address
  BY <1>1, AddressesMade DEF CheckEmail
<1>4. r.op \in {"login", "register", "logout", "mail", "resend", "magicVerify", "verifyMe",
                "resetMe", "list"}
  BY DEF CallState, Op, SessionOps, Opening, Guarded
<1>5. CASE r.op \in {"login", "magicVerify"}
  <2>1. Then(a, r) = SignedIn(a, r.of, To("app"))
    BY <1>5 DEF Then, MagicSignIn
  <2>2. LET b == SignedIn(a, r.of, To("app")) IN
            b \in AppState /\ Leads(a, b, To("app")) /\ b.user = r.of
    BY <1>1, <1>2, SignedInEffect
  <2> QED BY <2>1, <2>2, <1>5 DEF ThenTable
<1>6. CASE r.op = "register"
  <2>1. Then(a, r) = SignedIn(a, r.of, CheckAddress("check-verification", r.of))
    BY <1>6 DEF Then
  <2>2. LET b == SignedIn(a, r.of, CheckAddress("check-verification", r.of)) IN
            b \in AppState /\ Leads(a, b, CheckAddress("check-verification", r.of)) /\ b.user = r.of
    BY <1>1, <1>3, SignedInEffect
  <2> QED BY <2>1, <2>2, <1>6 DEF ThenTable
<1>7. CASE r.op = "logout"
  <2>1. Then(a, r) = SignedOut(a)
    BY <1>7 DEF Then
  <2> QED BY <2>1, <1>7, SignedOutEffect DEF ThenTable
<1>8. CASE r.op = "mail"
  <2>1. Then(a, r) = GoTo(a, CheckAddress("check-inbox", r.of))
    BY <1>8 DEF Then
  <2> QED BY <2>1, <1>3, <1>8, GoToEffect DEF ThenTable
<1>9. CASE r.op = "resend"
  BY <1>9 DEF Then, ThenTable
<1>10. CASE r.op = "verifyMe"
  <2>1. Then(a, r) = [a EXCEPT !.user = r.who, !.view = Showing("verified")]
    BY <1>10 DEF Then
  <2>2. "verified" \in Results
    BY DEF Results
  <2>3. LET b == [a EXCEPT !.user = r.who, !.view = Showing("verified")] IN
            b \in AppState /\ Shows(a, b, Showing("verified")) /\ b.user = r.who
    BY <2>2, <1>1, ResultEffect
  <2> QED BY <2>1, <2>3, <1>10 DEF ThenTable
<1>11. CASE r.op = "resetMe"
  <2>1. Then(a, r) = SignedIn(a, r.who, To("app"))
    BY <1>11 DEF Then
  <2>2. LET b == SignedIn(a, r.who, To("app")) IN
            b \in AppState /\ Leads(a, b, To("app")) /\ b.user = r.who
    BY <1>1, <1>2, SignedInEffect
  <2> QED BY <2>1, <2>2, <1>11 DEF ThenTable
<1>12. CASE r.op = "list"
  <2>1. Then(a, r) = RenderNotes([a EXCEPT !.notes = r.who])
    BY <1>12 DEF Then
  <2> QED BY <2>1, <1>1, <1>12, ListEffect DEF ThenTable
<1> QED BY <1>4, <1>5, <1>6, <1>7, <1>8, <1>9, <1>10, <1>11, <1>12

\* What the failure of a call makes of state a.
CatchTable(a, b, op) ==
    /\ b \in AppState
    /\ op = "logout" => Leads(a, b, To("home")) /\ b.user = None
    /\ op = "resetMe" => Leads(a, b, To("app")) /\ b.user = None
    /\ op = "verifyMe" => Shows(a, b, Showing("verified")) /\ b.user = None
    /\ op \in {"verify", "magicVerify"} => Shows(a, b, Showing("failed")) /\ b.user = a.user
    /\ op = "list" => Lists(a, b, a.notes)
    /\ op \notin {"logout", "resetMe", "verifyMe", "verify", "magicVerify", "list"} => b = a

LEMMA CatchEffect ==
    ASSUME NEW a \in AppState, NEW op
    PROVE  CatchTable(a, Catch(a, op), op)
<1>1. CASE op = "logout"
  <2>1. Catch(a, op) = SignedOut(a)
    BY <1>1 DEF Catch
  <2> QED BY <2>1, <1>1, SignedOutEffect DEF CatchTable
<1>2. CASE op = "resetMe"
  <2>1. Catch(a, op) = SignedIn(a, None, To("app"))
    BY <1>2 DEF Catch
  <2>2. To("app") \in Address
    BY AddressesMade DEF Route, Plain
  <2> QED BY <2>1, <2>2, <1>2, SignedInEffect DEF CatchTable
<1>3. CASE op = "verifyMe"
  <2>1. Catch(a, op) = [a EXCEPT !.user = None, !.view = Showing("verified")]
    BY <1>3 DEF Catch
  <2>2. "verified" \in Results
    BY DEF Results
  <2>3. LET b == [a EXCEPT !.user = None, !.view = Showing("verified")] IN
            b \in AppState /\ Shows(a, b, Showing("verified")) /\ b.user = None
    BY <2>2, ResultEffect
  <2> QED BY <2>1, <2>3, <1>3 DEF CatchTable
<1>4. CASE op \in {"verify", "magicVerify"}
  <2>1. Catch(a, op) = LinkFailed(a)
    BY <1>4 DEF Catch
  <2> QED BY <2>1, <1>4, LinkFailedEffect DEF CatchTable
<1>5. CASE op = "list"
  <2>1. Catch(a, op) = RenderNotes(a)
    BY <1>5 DEF Catch
  <2> QED BY <2>1, <1>5, RenderNotesEffect DEF CatchTable
<1>6. CASE op \notin {"logout", "resetMe", "verifyMe", "verify", "magicVerify", "list"}
  BY <1>6 DEF Catch, CatchTable
<1> QED BY <1>1, <1>2, <1>3, <1>4, <1>5, <1>6

\* The views of pages without a call are views, and those of their address.
LEMMA RenderedFits ==
    ASSUME NEW a \in AppState, ~Forbidden(a), OpOf(a.hash) = None, NEW v \in Rendered(a)
    PROVE  LET b == [a EXCEPT !.view = v] IN
               /\ b \in AppState /\ Shows(a, b, v) /\ b.user = a.user
               /\ Fits(b)
               /\ Quiet(b) => /\ v.page # "notes"
                              /\ v.page \in {"login", "register"} => a.user = None
<1> DEFINE h == a.hash
           b == [a EXCEPT !.view = v]
<1>1. h \in Address /\ a.view \in View
  BY DEF AppState
<1>2. h.route \in Route /\ h.of \in User \cup {None} /\ h.text \in Text \cup {None}
  BY <1>1 DEF Address
<1>3. h.route # "app" /\ (h.route \in {"verify-email", "magic-link"} => h.of = None)
  BY OpAssumption DEF OpOf, Op, SessionOps, Opening, Guarded
<1>4. h.route \in {"login", "register"} => a.user = None
  BY DEF Forbidden
<1> HIDE DEF h
<1>5. ASSUME v \in View, Quiet(b) => PageFits(b),
             Quiet(b) => v.page # "notes" /\ (v.page \in {"login", "register"} => a.user = None)
      PROVE  /\ b \in AppState /\ Shows(a, b, v) /\ b.user = a.user /\ Fits(b)
             /\ Quiet(b) => /\ v.page # "notes"
                            /\ v.page \in {"login", "register"} => a.user = None
  BY <1>5 DEF AppState, Shows, Fits
<1>6. b.view = v /\ b.hash = h
  BY DEF AppState, h
<1>7. CASE h.route \in CheckEmail
  <2> DEFINE w(t) == [Showing(h.route) EXCEPT !.of = h.of, !.text = t]
  <2>1. h.route \in (Route \ (Links \cup {"app", "other"}))
    BY <1>7 DEF CheckEmail, Route, Plain, Links
  <2>2. ASSUME NEW t \in Text \cup {None}
        PROVE  w(t) \in View /\ w(t).page = h.route /\ w(t).of = h.of /\ w(t).text = t
    BY <2>1, <1>2 DEF Showing, View
  <2> HIDE DEF w
  <2>3. Param(h) \in Text \cup {None} /\ (h.text = "encoded" => Param(h) = "typed")
    BY <1>2 DEF Param, Text
  <2>4. CASE Undecodable(h)
    <3>1. v = w("garbled") \/ v = a.view
      BY <1>7, <2>4 DEF Rendered, w, h
    <3>2. v \in View
      BY <3>1, <2>2, <1>1 DEF Text
    <3>3. ~Quiet(b)
      BY <1>6, <2>4 DEF Quiet
    <3> QED BY <3>2, <3>3, <1>5
  <2>5. CASE ~Undecodable(h)
    <3>1. v = w(Param(h))
      BY <1>7, <2>5 DEF Rendered, w, h
    <3>2. v \in View /\ v.page = h.route /\ v.of = h.of /\ v.text = Param(h)
      BY <3>1, <2>2, <2>3
    <3>3. PageFits(b)
      BY <3>2, <1>6, <1>7, <2>3 DEF PageFits, PageOf, CheckEmail, Links
    <3>4. v.page \notin {"notes", "login", "register"}
      BY <3>2, <1>7 DEF CheckEmail
    <3> QED BY <3>2, <3>3, <3>4, <1>5
  <2> QED BY <2>4, <2>5
<1>8. CASE h.route = "other" \/ (h.route \in Links /\ h.of = None)
  <2>1. v = Showing("not-found")
    BY <1>8 DEF Rendered, h, CheckEmail, Links
  <2>2. v \in View /\ v.page = "not-found" /\ v.of = None
    <3>1. Showing("not-found") \in View /\ Showing("not-found").page = "not-found"
      BY ShowingView
    <3> QED BY <2>1, <3>1 DEF Showing
  <2>3. PageOf(h) = "not-found"
    BY <1>8 DEF PageOf, Links
  <2>4. h.route \notin CheckEmail /\ (h.route = "reset-password" => h.of = None)
    BY <1>8 DEF Links, CheckEmail
  <2>5. PageFits(b)
    BY <2>2, <2>3, <2>4, <1>6 DEF PageFits
  <2> QED BY <2>2, <2>5, <1>5
<1>9. CASE /\ h.route \notin CheckEmail
           /\ ~(h.route = "other" \/ (h.route \in Links /\ h.of = None))
  <2>1. h.route \in (Route \ (Links \cup {"app", "other"})) \cup {"reset-password"}
    BY <1>2, <1>3, <1>9 DEF Links
  <2>2. v = [Showing(h.route) EXCEPT !.of = h.of]
    BY <1>9 DEF Rendered, h
  <2>3. v \in View /\ v.page = h.route /\ v.of = h.of
    BY <2>1, <2>2, <1>2 DEF Showing, View
  <2>4. PageFits(b)
    BY <2>3, <1>3, <1>6, <1>9 DEF PageFits, PageOf, Links
  <2>5. v.page # "notes" /\ (v.page \in {"login", "register"} => a.user = None)
    BY <2>3, <1>2, <1>4 DEF Route, Plain, Links, CheckEmail
  <2> QED BY <2>3, <2>4, <2>5, <1>5
<1> QED BY <1>7, <1>8, <1>9

\* The views of the pages that make a call, and which call it is.
LEMMA WaitingFits ==
    ASSUME NEW a \in AppState, ~Forbidden(a), OpOf(a.hash) # None
    PROVE  LET b == [a EXCEPT !.view = Waiting(a)]
               op == OpOf(a.hash) IN
               /\ b \in AppState /\ Shows(a, b, Waiting(a)) /\ b.user = a.user
               /\ Fits(b)
               /\ op \in {"verify", "magicVerify", "list"}
               /\ op = "magicVerify" => a.hash.of \in User
               /\ op = "list" => Waiting(a).page = "notes" /\ Waiting(a).of = a.user /\ a.user # None
               /\ op # "list" => Waiting(a).page \in {"verifying", "signing-in"}
<1> DEFINE h == a.hash
           b == [a EXCEPT !.view = Waiting(a)]
           v == Waiting(a)
<1>1. h \in Address /\ a.user \in User \cup {None}
  BY DEF AppState
<1>2. h.of \in User \cup {None}
  BY <1>1 DEF Address
<1>3. v \in View => /\ b \in AppState /\ Shows(a, b, v) /\ b.user = a.user
                    /\ b.view = v /\ b.hash = h
  BY DEF AppState, Shows
<1>4. CASE h.route = "verify-email"
  <2>1. h.of # None /\ OpOf(h) = "verify" /\ v = Showing("verifying")
    BY <1>4 DEF OpOf, Waiting
  <2>2. v \in View /\ v.page = "verifying"
    BY <2>1, ShowingView DEF Waits
  <2>3. PageFits(b)
    BY <2>1, <2>2, <1>3, <1>4 DEF PageFits, PageOf, Links, CheckEmail
  <2> QED BY <2>1, <2>2, <2>3, <1>3 DEF Fits
<1>5. CASE h.route = "magic-link"
  <2>1. h.of # None /\ OpOf(h) = "magicVerify" /\ v = Showing("signing-in")
    BY <1>5 DEF OpOf, Waiting
  <2>2. v \in View /\ v.page = "signing-in"
    BY <2>1, ShowingView DEF Waits
  <2>3. PageFits(b)
    BY <2>1, <2>2, <1>3, <1>5 DEF PageFits, PageOf, Links, CheckEmail
  <2> QED BY <2>1, <2>2, <2>3, <1>2, <1>3 DEF Fits
<1>6. CASE h.route = "app"
  <2>1. OpOf(h) = "list" /\ v = [Showing("notes") EXCEPT !.of = a.user]
    BY <1>6 DEF OpOf, Waiting
  <2>2. a.user # None
    BY <1>6 DEF Forbidden
  <2>3. v \in View /\ v.page = "notes" /\ v.of = a.user
    BY <2>1, <1>1 DEF Showing, View
  <2>4. PageFits(b)
    BY <2>3, <1>3, <1>6 DEF PageFits, PageOf, Links, CheckEmail
  <2> QED BY <2>1, <2>2, <2>3, <2>4, <1>3 DEF Fits
<1>7. h.route \in {"verify-email", "magic-link", "app"}
  BY DEF OpOf
<1> QED BY <1>4, <1>5, <1>6, <1>7

-----------------------------------------------------------------------------
\* What route() leaves behind, of state a, calls c and history s: a page that
\* fits, which is no notes page without a call for the list and no form for
\* guests that somebody signed in sees, unless the address has changed again.
Sends(a, c, s, k, op, u) ==
    /\ c[k] = Free
    /\ call' = [c EXCEPT ![k] = Request(op, u)]
    /\ steady' = (s /\ OneByOne(c, op))
    /\ op = "magicVerify" => u \in User
    /\ op = "list" => app'.view.page = "notes" /\ app'.view.of = a.user /\ a.user # None
    /\ op # "list" => app'.view.page \in {"verifying", "signing-in"}

Called(a, c, s) ==
    \E k \in Call, op \in {"verify", "magicVerify", "list"}, u \in User \cup {None} :
        Sends(a, c, s, k, op, u)

Shown(a, c, s) ==
    /\ call' = c /\ steady' = s
    /\ Quiet(app') => /\ app'.view.page # "notes"
                      /\ app'.view.page \in {"login", "register"} => a.user = None

Routed(a, c, s) ==
    /\ app' \in AppState /\ app'.phase = a.phase /\ app'.user = a.user
    /\ app'.hash \in {a.hash, To("login"), To("app")}
    /\ Fits(app')
    /\ Shown(a, c, s) \/ Called(a, c, s)

LEMMA RouteEffect ==
    ASSUME NEW a \in AppState, NEW c, NEW s, a.phase = "ready", RouteFrom(a, c, s)
    PROVE  Routed(a, c, s)
<1>1. a.hash \in Address /\ a.user \in User \cup {None}
  BY DEF AppState
<1>2. CASE Forbidden(a) /\ app' = Redirect(a) /\ call' = c /\ steady' = s
  <2> DEFINE h == To(IF a.user = None THEN "login" ELSE "app")
  <2>1. h \in Address /\ h \in {To("login"), To("app")} /\ h.route \in {"login", "app"}
    BY AddressesMade DEF Route, Plain
  <2>2. a.hash # h
    <3>1. CASE a.user = None
      <4>1. h = To("login") /\ a.hash.route = "app"
        BY <1>2, <3>1 DEF Forbidden
      <4> QED BY <4>1 DEF To
    <3>2. CASE a.user # None
      <4>1. h = To("app") /\ a.hash.route \in {"login", "register"}
        BY <1>2, <3>2 DEF Forbidden
      <4> QED BY <4>1 DEF To
    <3> QED BY <3>1, <3>2
  <2>3. app' = GoTo(a, h)
    BY <1>2 DEF Redirect
  <2> HIDE DEF h
  <2>4. /\ app' \in AppState /\ Leads(a, app', h) /\ app'.user = a.user
    BY <2>1, <2>3, GoToEffect
  <2>5. ~Quiet(app')
    BY <2>1, <2>2, <2>4, LeadsNowhere
  <2>6. app'.hash = h /\ app'.phase = a.phase
    BY <2>4 DEF Leads
  <2> QED BY <1>2, <2>1, <2>4, <2>5, <2>6 DEF Routed, Shown, Fits
<1>3. CASE /\ ~Forbidden(a) /\ OpOf(a.hash) = None
           /\ \E v \in Rendered(a) : app' = [a EXCEPT !.view = v]
           /\ call' = c /\ steady' = s
  <2>1. PICK v \in Rendered(a) : app' = [a EXCEPT !.view = v]
    BY <1>3
  <2>2. /\ app' \in AppState /\ Shows(a, app', v) /\ app'.user = a.user /\ Fits(app')
        /\ Quiet(app') => /\ v.page # "notes"
                          /\ v.page \in {"login", "register"} => a.user = None
    BY <1>3, <2>1, RenderedFits
  <2> QED BY <1>3, <2>2 DEF Routed, Shown, Shows
<1>4. CASE /\ ~Forbidden(a) /\ OpOf(a.hash) # None
           /\ app' = [a EXCEPT !.view = Waiting(a)]
           /\ \E k \in Call :
                 /\ c[k] = Free
                 /\ call' = [c EXCEPT ![k] = Request(OpOf(a.hash), a.hash.of)]
           /\ steady' = (s /\ OneByOne(c, OpOf(a.hash)))
  <2> DEFINE op == OpOf(a.hash)
             u == a.hash.of
  <2>1. PICK k \in Call : c[k] = Free /\ call' = [c EXCEPT ![k] = Request(op, u)]
    BY <1>4
  <2>2. /\ app' \in AppState /\ Shows(a, app', Waiting(a)) /\ app'.user = a.user /\ Fits(app')
        /\ op \in {"verify", "magicVerify", "list"}
        /\ op = "magicVerify" => u \in User
        /\ op = "list" => Waiting(a).page = "notes" /\ Waiting(a).of = a.user /\ a.user # None
        /\ op # "list" => Waiting(a).page \in {"verifying", "signing-in"}
    BY <1>4, WaitingFits
  <2>3. u \in User \cup {None}
    BY <1>1 DEF Address
  <2>4. steady' = (s /\ OneByOne(c, op))
    BY <1>4
  <2>5. app'.view = Waiting(a) /\ app'.hash = a.hash /\ app'.phase = a.phase
    BY <2>2 DEF Shows
  <2> HIDE DEF op, u
  <2>6. Sends(a, c, s, k, op, u)
    BY <2>1, <2>2, <2>4, <2>5 DEF Sends
  <2> QED BY <2>2, <2>3, <2>5, <2>6 DEF Routed, Called
<1> QED BY <1>2, <1>3, <1>4 DEF RouteFrom

\* The state route() is called for, by the listener and at the end of init().
LEMMA HandledIsState ==
    ASSUME NEW a \in AppState, a.due > 0
    PROVE  LET b == [a EXCEPT !.due = @ - 1] IN
               b \in AppState /\ b.phase = a.phase /\ b.user = a.user /\ b.hash = a.hash
<1>1. a.due - 1 \in Nat
  BY DEF AppState
<1> QED BY <1>1 DEF AppState

\* The same with the user that checkAuth has found.
LEMMA StartedIsState ==
    ASSUME NEW a \in AppState, NEW u \in User \cup {None}
    PROVE  LET b == [a EXCEPT !.phase = "ready", !.user = u] IN
               b \in AppState /\ b.phase = "ready" /\ b.user = u /\ b.hash = a.hash
BY DEF AppState

-----------------------------------------------------------------------------
\* The invariant without what it says about a steady history

\* A call that is not free is one of the calls, and Free is none.
LEMMA CallIsCall ==
    ASSUME TypeOK, NEW k \in Call
    PROVE  /\ call[k] \in CallState \/ call[k] = Free
           /\ call[k].op # None => call[k] \in CallState
           /\ call[k] # Free => call[k] \in CallState
           /\ call[k] \in CallState => call[k].op \in Op /\ call[k] # Free
           /\ Free.op = None
           /\ Free.op \notin Op
BY OpAssumption DEF TypeOK, CallState, Free

\* What is sent is a call.
LEMMA RequestIsCall ==
    ASSUME jar \in User \cup {None}, NEW op \in Op, NEW u \in User \cup {None}
    PROVE  /\ Request(op, u) \in CallState
           /\ Request(op, u).op = op /\ Request(op, u).of = u
           /\ op \in Guarded => Request(op, u).who = jar
BY DEF Request, CallState

\* What Send does to the calls.
LEMMA SendEffect ==
    ASSUME TypeOK, NEW k \in Call, NEW op \in Op, NEW u \in User \cup {None}, Send(k, op, u)
    PROVE  /\ call' \in [Call -> CallState \cup {Free}] /\ steady' \in BOOLEAN
           /\ call[k] = Free /\ call'[k] = Request(op, u)
           /\ \A l \in Call \ {k} : call'[l] = call[l]
           /\ steady' => steady /\ OneByOne(call, op)
<1>1. Request(op, u) \in CallState
  BY RequestIsCall DEF TypeOK
<1>2. steady' \in BOOLEAN
  BY DEF Send
<1> QED BY <1>1, <1>2 DEF Send, TypeOK

\* What route() does to the calls.
LEMMA RoutedCalls ==
    ASSUME jar \in User \cup {None}, NEW a, NEW c \in [Call -> CallState \cup {Free}],
           NEW s \in BOOLEAN, Routed(a, c, s)
    PROVE  /\ call' \in [Call -> CallState \cup {Free}] /\ steady' \in BOOLEAN
           /\ \A l \in Call : \/ call'[l] = c[l]
                              \/ /\ call'[l].op \in {"verify", "magicVerify", "list"}
                                 /\ call'[l].op = "magicVerify" => call'[l].of \in User
<1>1. CASE Shown(a, c, s)
  BY <1>1 DEF Shown
<1>2. CASE Called(a, c, s)
  <2>1. PICK k \in Call, op \in {"verify", "magicVerify", "list"}, u \in User \cup {None} :
            Sends(a, c, s, k, op, u)
    BY <1>2 DEF Called
  <2>2. op \in Op
    BY DEF Op, SessionOps, Opening, Guarded
  <2>3. Request(op, u) \in CallState /\ Request(op, u).op = op /\ Request(op, u).of = u
    BY <2>2, RequestIsCall
  <2>4. call' = [c EXCEPT ![k] = Request(op, u)] /\ (op = "magicVerify" => u \in User)
    BY <2>1 DEF Sends
  <2>5. steady' \in BOOLEAN
    BY <2>1 DEF Sends
  <2> QED BY <2>3, <2>4, <2>5
<1> QED BY <1>1, <1>2 DEF Routed

\* The listener calls route() for the state without the event it handles.
LEMMA HandleRoutes ==
    ASSUME BaseInv, HandleHashChange
    PROVE  /\ Routed([app EXCEPT !.due = @ - 1], call, steady)
           /\ [app EXCEPT !.due = @ - 1].user = app.user
           /\ [app EXCEPT !.due = @ - 1].hash = app.hash
           /\ app.phase = "ready" /\ [app EXCEPT !.due = @ - 1].phase = "ready"
           /\ jar' = jar
<1> DEFINE a == [app EXCEPT !.due = @ - 1]
<1>1. app \in AppState /\ app.due > 0 /\ jar' = jar /\ RouteFrom(a, call, steady)
  BY DEF BaseInv, TypeOK, HandleHashChange
<1>2. /\ a \in AppState /\ a.phase = app.phase /\ a.user = app.user /\ a.hash = app.hash
  BY <1>1, HandledIsState
<1>3. app.phase = "ready"
  BY <1>1 DEF BaseInv, TypeOK, PhaseInv
<1> HIDE DEF a
<1>4. Routed(a, call, steady)
  BY <1>1, <1>2, <1>3, RouteEffect
<1> QED BY <1>1, <1>2, <1>3, <1>4 DEF a

\* init() calls it with the user checkAuth has found, when no call is in flight.
Started(k, user, a, c, s) ==
    /\ Routed(a, c, s) /\ jar' = jar
    /\ a \in AppState /\ a.phase = "ready" /\ a.user = user /\ a.hash = app.hash
    /\ c \in [Call -> CallState \cup {Free}] /\ \A l \in Call : c[l] = Free
    /\ \A l \in Call \ {k} : call[l] = Free
    /\ s \in BOOLEAN /\ (s => steady /\ user = call[k].who) /\ call[k].op = "me"

LEMMA StartRoutes ==
    ASSUME BaseInv, NEW k \in Call, Start(k)
    PROVE  \E user, a, c, s : Started(k, user, a, c, s)
<1> USE DEF BaseInv
<1>1. PICK user \in {call[k].who, None} :
          RouteFrom([app EXCEPT !.phase = "ready", !.user = user],
                    [call EXCEPT ![k] = Free], steady /\ user = call[k].who)
  BY DEF Start
<1> DEFINE a == [app EXCEPT !.phase = "ready", !.user = user]
           c == [call EXCEPT ![k] = Free]
           s == steady /\ user = call[k].who
<1>2. call[k].op = "me" /\ jar' = jar
  BY DEF Start
<1>3. call[k] \in CallState
  BY <1>2, CallIsCall, OpAssumption DEF Op, SessionOps, Guarded
<1>4. app.phase = "me"
  BY <1>2, <1>3, CallIsCall DEF TypeOK, AppState, PhaseInv
<1>5. \A l \in Call \ {k} : call[l] = Free
  BY <1>3, <1>4, CallIsCall DEF PhaseInv
<1>6. user \in User \cup {None}
  BY <1>3 DEF CallState
<1>7. a \in AppState /\ a.phase = "ready" /\ a.user = user /\ a.hash = app.hash
  BY <1>6, StartedIsState DEF TypeOK
<1>8. /\ c \in [Call -> CallState \cup {Free}] /\ s \in BOOLEAN
      /\ s => steady /\ user = call[k].who
  BY DEF TypeOK
<1>9. \A l \in Call : c[l] = Free
  BY <1>5 DEF TypeOK
<1> HIDE DEF a, c, s
<1>10. Routed(a, c, s)
  BY <1>1, <1>7, RouteEffect DEF a, c, s
<1>11. Started(k, user, a, c, s)
  BY <1>2, <1>5, <1>7, <1>8, <1>9, <1>10 DEF Started
<1> QED BY <1>11

\* The listener.
LEMMA HandleBase ==
    ASSUME BaseInv, HandleHashChange
    PROVE  BaseInv'
<1> USE DEF BaseInv
<1> DEFINE a == [app EXCEPT !.due = @ - 1]
<1>1. Routed(a, call, steady) /\ app.phase = "ready" /\ a.phase = "ready" /\ jar' = jar
  BY HandleRoutes
<1> HIDE DEF a
<1>2. /\ call' \in [Call -> CallState \cup {Free}] /\ steady' \in BOOLEAN
      /\ \A l \in Call : \/ call'[l] = call[l]
                         \/ /\ call'[l].op \in {"verify", "magicVerify", "list"}
                            /\ call'[l].op = "magicVerify" => call'[l].of \in User
  BY <1>1, RoutedCalls DEF TypeOK
<1>3. TypeOK'
  BY <1>1, <1>2 DEF TypeOK, Routed
<1>4. PhaseInv'
  BY <1>1, <1>2 DEF PhaseInv, Routed
<1>5. CallInv'
  BY <1>2 DEF CallInv
<1>6. Fits(app)'
  BY <1>1 DEF Routed
<1> QED BY <1>3, <1>4, <1>5, <1>6

\* init() goes on with checkAuth.
LEMMA FetchBase ==
    ASSUME BaseInv, FetchToken
    PROVE  BaseInv'
<1> USE DEF BaseInv
<1>1. app \in AppState /\ app.phase = "csrf" /\ app' = [app EXCEPT !.phase = "me"] /\ jar' = jar
  BY DEF TypeOK, FetchToken
<1>2. PICK k \in Call : Send(k, "me", None)
  BY DEF FetchToken
<1>3. "me" \in Op
  BY DEF Op, SessionOps, Guarded
<1>4. /\ call' \in [Call -> CallState \cup {Free}] /\ steady' \in BOOLEAN
      /\ call'[k] = Request("me", None)
      /\ \A l \in Call \ {k} : call'[l] = call[l]
  BY <1>2, <1>3, SendEffect
<1>5. Request("me", None).op = "me"
  BY DEF Request
<1>6. \A l \in Call : call[l] = Free
  BY <1>1 DEF PhaseInv
<1>7. app' \in AppState /\ app'.phase = "me" /\ app'.user = app.user /\ app'.due = app.due
      /\ app'.view = app.view
  BY <1>1 DEF AppState
<1>8. TypeOK'
  BY <1>1, <1>4, <1>7 DEF TypeOK
<1>9. PhaseInv'
  BY <1>1, <1>4, <1>5, <1>6, <1>7 DEF PhaseInv
<1>10. CallInv'
  BY <1>4, <1>5 DEF CallInv
<1>11. Fits(app)'
  BY <1>7 DEF Fits, Quiet
<1> QED BY <1>8, <1>9, <1>10, <1>11

\* The answer to checkAuth, and the first route().
LEMMA StartBase ==
    ASSUME BaseInv, NEW k \in Call, Start(k)
    PROVE  BaseInv'
<1> USE DEF BaseInv
<1>1. PICK user, a, c, s : Started(k, user, a, c, s)
  BY StartRoutes
<1>2. /\ call' \in [Call -> CallState \cup {Free}] /\ steady' \in BOOLEAN
      /\ \A l \in Call : \/ call'[l] = Free
                         \/ /\ call'[l].op \in {"verify", "magicVerify", "list"}
                            /\ call'[l].op = "magicVerify" => call'[l].of \in User
  BY <1>1, RoutedCalls DEF TypeOK, Started
<1>3. Free.op = None /\ None \notin {"me", "login", "register", "magicVerify"}
  BY OpAssumption DEF Free, Op, SessionOps, Opening, Guarded
<1>4. TypeOK'
  BY <1>1, <1>2 DEF TypeOK, Routed, Started
<1>5. PhaseInv'
  BY <1>1, <1>2, <1>3 DEF PhaseInv, Routed, Started
<1>6. CallInv'
  BY <1>2, <1>3 DEF CallInv
<1>7. Fits(app)'
  BY <1>1 DEF Routed, Started
<1> QED BY <1>4, <1>5, <1>6, <1>7

\* Other answers than checkAuth's arrive when init() is done.
LEMMA AnswerReady ==
    ASSUME BaseInv, NEW k \in Call, call[k].op \notin {None, "me"}
    PROVE  call[k] \in CallState /\ app.phase = "ready"
<1> USE DEF BaseInv
<1>1. call[k] \in CallState /\ call[k] # Free
  BY CallIsCall
<1> QED BY <1>1 DEF TypeOK, AppState, PhaseInv

\* The cookie after an answer names a user.
LEMMA CookieIsUser ==
    ASSUME TypeOK, NEW k \in Call, call[k] \in CallState
    PROVE  Cookie(k) \in User \cup {None}
BY DEF TypeOK, CallState, Cookie

\* Freeing a call keeps what is known of the calls.
LEMMA FreeBase ==
    ASSUME BaseInv, NEW k \in Call, app.phase = "ready", app'.phase = "ready",
           jar' \in User \cup {None}, app' \in AppState, Fits(app'), steady' \in BOOLEAN,
           call' = [call EXCEPT ![k] = Free]
    PROVE  BaseInv'
<1> USE DEF BaseInv
<1>1. Free.op \notin {"me", "login", "register", "magicVerify"}
  BY OpAssumption DEF Free, Op, SessionOps, Opening, Guarded
<1>2. \A l \in Call : call'[l] = Free \/ call'[l] = call[l]
  BY DEF TypeOK
<1>3. TypeOK'
  BY DEF TypeOK
<1>4. PhaseInv'
  BY <1>1, <1>2 DEF PhaseInv
<1>5. CallInv'
  BY <1>1, <1>2 DEF CallInv
<1> QED BY <1>3, <1>4, <1>5

\* The address after an answer is the same, or one that the program makes.
Goes(h) == h \in {To("login"), To("app"), To("home")} \/ h.text = "encoded"

\* The answer to a call.
LEMMA ReceiveBase ==
    ASSUME BaseInv, NEW k \in Call, Receive(k)
    PROVE  /\ BaseInv' /\ app.phase = "ready" /\ call[k] \in CallState
           /\ ThenTable(app, app', call[k])
           /\ app'.hash = app.hash \/ Goes(app'.hash)
<1> USE DEF BaseInv
<1>1. /\ call[k].op \notin {None, "me", "reset", "verify"} /\ app' = Then(app, call[k])
      /\ jar' = Cookie(k) /\ call' = [call EXCEPT ![k] = Free] /\ steady' = steady
  BY DEF Receive
<1>2. call[k] \in CallState /\ app.phase = "ready"
  BY <1>1, AnswerReady
<1>3. ThenTable(app, app', call[k])
  BY <1>1, <1>2, ThenEffect DEF TypeOK
<1>4. call[k].op \in {"login", "register", "logout", "mail", "resend", "magicVerify", "verifyMe",
                      "resetMe", "list"} /\ call[k].of \in User \cup {None}
  BY <1>1, <1>2 DEF CallState, Op, SessionOps, Opening, Guarded
<1>5. /\ To("app") \in Address /\ To("home") \in Address
      /\ CheckAddress("check-verification", call[k].of) \in Address
      /\ CheckAddress("check-inbox", call[k].of) \in Address
      /\ CheckAddress("check-verification", call[k].of).text = "encoded"
      /\ CheckAddress("check-inbox", call[k].of).text = "encoded"
  BY <1>4, AddressesMade DEF Route, Plain, CheckEmail
<1>6. app' \in AppState /\ app \in AppState
  BY <1>3 DEF ThenTable, TypeOK
<1>7. ASSUME NEW h \in Address, Leads(app, app', h), Goes(h)
      PROVE  Fits(app') /\ app'.phase = "ready" /\ Goes(app'.hash)
  BY <1>2, <1>6, <1>7, LeadsFits DEF Leads
<1>8. Fits(app') /\ app'.phase = "ready" /\ (app'.hash = app.hash \/ Goes(app'.hash))
  <2>1. CASE call[k].op \in {"login", "magicVerify", "resetMe"}
    BY <2>1, <1>3, <1>5, <1>7 DEF ThenTable, Goes
  <2>2. CASE call[k].op = "register"
    BY <2>2, <1>3, <1>5, <1>7 DEF ThenTable, Goes
  <2>3. CASE call[k].op = "logout"
    BY <2>3, <1>3, <1>5, <1>7 DEF ThenTable, Goes
  <2>4. CASE call[k].op = "mail"
    BY <2>4, <1>3, <1>5, <1>7 DEF ThenTable, Goes
  <2>5. CASE call[k].op = "resend"
    BY <2>5, <1>2, <1>3 DEF ThenTable
  <2>6. CASE call[k].op = "verifyMe"
    <3>1. Shows(app, app', Showing("verified")) /\ "verified" \in Results
      BY <2>6, <1>3 DEF ThenTable, Results
    <3> QED BY <3>1, <1>2, ResultFits DEF Shows
  <2>7. CASE call[k].op = "list"
    <3>1. Lists(app, app', call[k].who)
      BY <2>7, <1>3 DEF ThenTable
    <3> QED BY <3>1, <1>2, ListsFits DEF Lists
  <2> QED BY <1>4, <2>1, <2>2, <2>3, <2>4, <2>5, <2>6, <2>7
<1>9. jar' \in User \cup {None} /\ steady' \in BOOLEAN
  BY <1>1, <1>2, CookieIsUser DEF TypeOK
<1>10. BaseInv'
  BY <1>1, <1>2, <1>6, <1>8, <1>9, FreeBase
<1> QED BY <1>2, <1>3, <1>8, <1>10

\* The failure of a call.
LEMMA FailBase ==
    ASSUME BaseInv, NEW k \in Call, Fail(k)
    PROVE  /\ BaseInv' /\ app.phase = "ready" /\ call[k] \in CallState
           /\ CatchTable(app, app', call[k].op)
           /\ app'.hash = app.hash \/ Goes(app'.hash)
<1> USE DEF BaseInv
<1>1. /\ call[k].op \notin {None, "me"} /\ app' = Catch(app, call[k].op)
      /\ call' = [call EXCEPT ![k] = Free]
      /\ jar' = jar \/ jar' = Cookie(k)
  BY DEF Fail
<1>2. call[k] \in CallState /\ app.phase = "ready"
  BY <1>1, AnswerReady
<1> DEFINE op == call[k].op
<1>3. CatchTable(app, app', op)
  BY <1>1, <1>2, CatchEffect DEF TypeOK
<1>4. To("app") \in Address /\ To("home") \in Address
  BY AddressesMade DEF Route, Plain
<1>5. app' \in AppState /\ app \in AppState
  BY <1>3 DEF CatchTable, TypeOK
<1>6. ASSUME NEW h \in Address, Leads(app, app', h), Goes(h)
      PROVE  Fits(app') /\ app'.phase = "ready" /\ Goes(app'.hash)
  BY <1>2, <1>5, <1>6, LeadsFits DEF Leads
<1>7. Fits(app') /\ app'.phase = "ready" /\ (app'.hash = app.hash \/ Goes(app'.hash))
  <2>1. CASE op = "logout"
    BY <2>1, <1>3, <1>4, <1>6 DEF CatchTable, Goes
  <2>2. CASE op = "resetMe"
    BY <2>2, <1>3, <1>4, <1>6 DEF CatchTable, Goes
  <2>3. CASE op = "verifyMe"
    <3>1. Shows(app, app', Showing("verified")) /\ "verified" \in Results
      BY <2>3, <1>3 DEF CatchTable, Results
    <3> QED BY <3>1, <1>2, ResultFits DEF Shows
  <2>4. CASE op \in {"verify", "magicVerify"}
    <3>1. Shows(app, app', Showing("failed")) /\ "failed" \in Results
      BY <2>4, <1>3 DEF CatchTable, Results
    <3> QED BY <3>1, <1>2, ResultFits DEF Shows
  <2>5. CASE op = "list"
    <3>1. Lists(app, app', app.notes)
      BY <2>5, <1>3 DEF CatchTable
    <3> QED BY <3>1, <1>2, ListsFits DEF Lists
  <2>6. CASE op \notin {"logout", "resetMe", "verifyMe", "verify", "magicVerify", "list"}
    BY <2>6, <1>2, <1>3 DEF CatchTable
  <2> QED BY <2>1, <2>2, <2>3, <2>4, <2>5, <2>6
<1>8. jar' \in User \cup {None}
  BY <1>1, <1>2, CookieIsUser DEF TypeOK
<1>9. steady' \in BOOLEAN
  BY DEF Fail
<1>10. BaseInv'
  BY <1>1, <1>2, <1>5, <1>7, <1>8, <1>9, FreeBase
<1> QED BY <1>2, <1>3, <1>7, <1>10

\* A reset or a verification goes on with checkAuth, under the cookie it leaves.
LEMMA ThenCheckBase ==
    ASSUME BaseInv, NEW k \in Call, ThenCheckAuth(k)
    PROVE  /\ BaseInv' /\ app.phase = "ready" /\ call[k] \in CallState
           /\ call'[k].op \in {"resetMe", "verifyMe"} /\ call'[k].who = jar'
           /\ \A l \in Call \ {k} : call'[l] = call[l]
<1> USE DEF BaseInv
<1> DEFINE op == IF call[k].op = "reset" THEN "resetMe" ELSE "verifyMe"
           r == [op |-> op, who |-> jar', of |-> None]
<1>1. /\ call[k].op \in {"reset", "verify"} /\ jar' = Cookie(k) /\ app' = app
      /\ call' = [call EXCEPT ![k] = r]
      /\ steady' = (steady /\ OneByOne([call EXCEPT ![k] = Free], op))
  BY DEF ThenCheckAuth
<1>2. None \notin {"reset", "verify"}
  BY OpAssumption DEF Op, SessionOps, Opening
<1>3. call[k] \in CallState /\ app.phase = "ready"
  BY <1>1, <1>2, AnswerReady
<1>4. jar' \in User \cup {None} /\ steady' \in BOOLEAN
  BY <1>1, <1>3, CookieIsUser
<1>5. r \in CallState /\ r.op \in {"resetMe", "verifyMe"} /\ r.who = jar'
  BY <1>4 DEF CallState, Op, SessionOps, Guarded
<1> HIDE DEF op, r
<1>6. /\ call' \in [Call -> CallState \cup {Free}]
      /\ call'[k] = r
      /\ \A l \in Call \ {k} : call'[l] = call[l]
  BY <1>1, <1>5 DEF TypeOK
<1>7. TypeOK'
  BY <1>1, <1>4, <1>6 DEF TypeOK
<1>8. PhaseInv'
  BY <1>1, <1>3, <1>5, <1>6 DEF PhaseInv
<1>9. CallInv'
  BY <1>5, <1>6 DEF CallInv
<1>10. Fits(app)'
  BY <1>1 DEF Fits
<1> QED BY <1>3, <1>5, <1>6, <1>7, <1>8, <1>9, <1>10

\* The call a form or button sends: no form for guests is at work on the notes
\* page, which the button to sign out and the mail forms may be.
Submitted(k, op, u) ==
    /\ Send(k, op, u) /\ op \in Op /\ u \in User \cup {None}
    /\ op \in {"login", "register", "reset", "logout", "mail", "resend"}
    /\ op \in {"login", "register"} => u \in User
    /\ op \in {"login", "register", "reset"} => app.view.page # "notes"
    /\ app.view.page # "loading" \/ app.user # None

LEMMA SubmitSends ==
    ASSUME TypeOK, NEW k \in Call, Submit(k)
    PROVE  /\ \E op \in Op, u \in User \cup {None} : Submitted(k, op, u)
           /\ jar' = jar /\ app' = app
<1>1. {"login", "register", "reset", "logout", "mail", "resend"} \subseteq Op
  BY DEF Op, SessionOps, Opening, Guarded
<1>2. app.view.of \in User \cup {None}
  BY DEF TypeOK, AppState, View
<1>3. ASSUME app.view.page = "login", NEW u \in User, Send(k, "login", u)
      PROVE  \E op \in Op, v \in User \cup {None} : Submitted(k, op, v)
  BY <1>1, <1>3 DEF Submitted
<1>4. ASSUME app.view.page \in {"login", "forgot-password"}, NEW u \in User, Send(k, "mail", u)
      PROVE  \E op \in Op, v \in User \cup {None} : Submitted(k, op, v)
  BY <1>1, <1>4 DEF Submitted
<1>5. ASSUME app.view.page = "register", NEW u \in User, Send(k, "register", u)
      PROVE  \E op \in Op, v \in User \cup {None} : Submitted(k, op, v)
  BY <1>1, <1>5 DEF Submitted
<1>6. ASSUME app.view.page = "reset-password", Send(k, "reset", app.view.of)
      PROVE  \E op \in Op, v \in User \cup {None} : Submitted(k, op, v)
  BY <1>1, <1>2, <1>6 DEF Submitted
<1>7. ASSUME app.view.page = "check-verification", Send(k, "resend", None)
      PROVE  \E op \in Op, v \in User \cup {None} : Submitted(k, op, v)
  BY <1>1, <1>7 DEF Submitted
<1>8. ASSUME app.user # None, Send(k, "logout", None)
      PROVE  \E op \in Op, v \in User \cup {None} : Submitted(k, op, v)
  BY <1>1, <1>8 DEF Submitted
<1> QED BY <1>3, <1>4, <1>5, <1>6, <1>7, <1>8 DEF Submit

\* The forms and buttons; the loading page has none.
LEMMA SubmitBase ==
    ASSUME BaseInv, NEW k \in Call, Submit(k)
    PROVE  BaseInv' /\ app.phase = "ready"
<1> USE DEF BaseInv
<1>1. jar' = jar /\ app' = app /\ \E op \in Op, u \in User \cup {None} : Submitted(k, op, u)
  BY SubmitSends
<1>2. PICK op \in Op, u \in User \cup {None} : Submitted(k, op, u)
  BY <1>1
<1>3. /\ call' \in [Call -> CallState \cup {Free}] /\ steady' \in BOOLEAN
      /\ call'[k] = Request(op, u)
      /\ \A l \in Call \ {k} : call'[l] = call[l]
  BY <1>2, SendEffect DEF Submitted
<1>4. Request(op, u).op = op /\ Request(op, u).of = u
  BY DEF Request
<1>5. app.phase = "ready"
  BY <1>2 DEF Submitted, PhaseInv
<1>6. op \notin {"me", "magicVerify"} /\ (op \in {"login", "register"} => u \in User)
  BY <1>2 DEF Submitted
<1>7. TypeOK'
  BY <1>1, <1>3 DEF TypeOK
<1>8. PhaseInv'
  BY <1>1, <1>3, <1>4, <1>5, <1>6 DEF PhaseInv
<1>9. CallInv'
  BY <1>3, <1>4, <1>6 DEF CallInv
<1>10. Fits(app)'
  BY <1>1 DEF Fits
<1> QED BY <1>5, <1>7, <1>8, <1>9, <1>10

\* The user goes to another address.
LEMMA VisitBase ==
    ASSUME BaseInv, NEW h \in Addresses, Visit(h)
    PROVE  /\ BaseInv' /\ ~Quiet(app')
           /\ app'.phase = app.phase /\ app'.user = app.user /\ app'.hash = h
           /\ jar' = jar /\ call' = call /\ steady' = steady
<1> USE DEF BaseInv
<1>1. app.hash # h /\ app' = GoTo(app, h) /\ jar' = jar /\ call' = call /\ steady' = steady
  BY DEF Visit
<1>2. h \in Address /\ app \in AppState
  BY AddressesAssumption DEF TypeOK
<1>3. app' \in AppState /\ Leads(app, app', h) /\ app'.user = app.user
  BY <1>1, <1>2, GoToEffect
<1>4. ~Quiet(app')
  BY <1>1, <1>2, <1>3, LeadsNowhere
<1>5. app'.phase = app.phase /\ app'.view = app.view /\ app'.hash = h
  BY <1>3 DEF Leads
<1>6. TypeOK'
  BY <1>1, <1>3 DEF TypeOK
<1>7. PhaseInv'
  BY <1>1, <1>3, <1>5 DEF PhaseInv, Leads
<1>8. CallInv'
  BY <1>1 DEF CallInv
<1>9. Fits(app)'
  BY <1>4 DEF Fits
<1> QED BY <1>1, <1>3, <1>4, <1>5, <1>6, <1>7, <1>8, <1>9

\* The page is loaded, or was loaded again.
LEMMA LoadingBase ==
    ASSUME jar \in User \cup {None}, NEW h \in Address, app = Loading(h),
           call = [k \in Call |-> Free], steady = TRUE
    PROVE  BaseInv
<1> USE DEF BaseInv
<1>1. Showing("loading") \in View /\ Showing("loading").page = "loading"
  BY ShowingView DEF Waits
<1>2. /\ app \in AppState /\ app.phase = "csrf" /\ app.user = None /\ app.due = 0
      /\ app.view = Showing("loading")
  BY <1>1 DEF Loading, AppState
<1>3. TypeOK
  BY <1>2 DEF TypeOK
<1>4. PhaseInv
  BY <1>1, <1>2 DEF PhaseInv
<1>5. CallInv
  BY OpAssumption DEF CallInv, Free, Op, SessionOps, Opening
<1>6. Fits(app)
  BY <1>2 DEF Fits, Quiet
<1> QED BY <1>3, <1>4, <1>5, <1>6

\* The same for a step.
LEMMA ReloadBase ==
    ASSUME BaseInv, Reload
    PROVE  BaseInv'
<1>1. jar' \in User \cup {None} /\ app.hash \in Address
  BY DEF BaseInv, TypeOK, AppState, Reload
<1>2. app' = Loading(app.hash) /\ call' = [k \in Call |-> Free] /\ steady' = TRUE
  BY DEF Reload
<1>3. Showing("loading") \in View /\ Showing("loading").page = "loading"
  BY ShowingView DEF Waits
<1>4. /\ app' \in AppState /\ app'.phase = "csrf" /\ app'.user = None /\ app'.due = 0
      /\ app'.view = Showing("loading")
  BY <1>1, <1>2, <1>3 DEF Loading, AppState
<1>5. TypeOK'
  BY <1>1, <1>2, <1>4 DEF TypeOK
<1>6. PhaseInv'
  BY <1>2, <1>3, <1>4 DEF PhaseInv
<1>7. CallInv'
  BY <1>2, OpAssumption DEF CallInv, Free, Op, SessionOps, Opening
<1>8. Fits(app)'
  BY <1>4 DEF Fits, Quiet
<1> QED BY <1>5, <1>6, <1>7, <1>8 DEF BaseInv

\* What other pages do leaves the page alone.
LEMMA OtherBase ==
    ASSUME BaseInv, OtherPage
    PROVE  BaseInv' /\ ~steady'
<1>1. jar' \in User \cup {None} /\ steady' = FALSE /\ app' = app /\ call' = call
  BY DEF OtherPage
<1> QED BY <1>1 DEF BaseInv, TypeOK, PhaseInv, CallInv, Fits

-----------------------------------------------------------------------------
\* The part of the invariant about a steady history

\* Which calls are about the session.
LEMMA SessionOpsAre ==
    /\ SessionOps = {"login", "register", "magicVerify", "reset", "me", "verifyMe", "resetMe",
                     "logout", "list"}
    /\ Guarded \subseteq SessionOps /\ "list" \in Guarded
    /\ Free.op = None /\ None \notin SessionOps
BY OpAssumption DEF Free, Op, SessionOps, Opening, Guarded

\* What calls c have to be, with the user u, for the session of the cookie.
SteadyCalls(c, u) ==
    /\ \A k, l \in Call : c[k].op \in SessionOps /\ c[l].op \in SessionOps => k = l
    /\ \A k \in Call : /\ c[k].op \in Guarded => c[k].who = jar
                       /\ c[k].op = "list" => c[k].who # None
    /\ (\A k \in Call : c[k].op # "resetMe") => u = jar

\* route() keeps the session steady: it asks for the list of the user it is for.
LEMMA RouteSteady ==
    ASSUME jar \in User \cup {None}, jar' = jar, NEW a,
           NEW c \in [Call -> CallState \cup {Free}], NEW s \in BOOLEAN,
           Routed(a, c, s), steady', s => SteadyCalls(c, a.user)
    PROVE  s /\ Steady'
<1>1. app'.user = a.user
  BY DEF Routed
<1>2. CASE Shown(a, c, s)
  <2>1. s /\ call' = c /\ SteadyCalls(c, a.user)
    BY <1>2 DEF Shown
  <2>2. OneCall' /\ CallsAreTheUsers' /\ UserIsTheJars'
    BY <1>1, <2>1 DEF SteadyCalls, OneCall, InSession, CallsAreTheUsers, UserIsTheJars
  <2>3. NotesAreTheUsers'
    BY <1>2 DEF Shown, NotesAreTheUsers, Still, Quiet
  <2> QED BY <2>1, <2>2, <2>3 DEF Steady
<1>3. CASE Called(a, c, s)
  <2>1. PICK k \in Call, op \in {"verify", "magicVerify", "list"}, u \in User \cup {None} :
            Sends(a, c, s, k, op, u)
    BY <1>3 DEF Called
  <2>2. s /\ OneByOne(c, op) /\ SteadyCalls(c, a.user)
    BY <2>1 DEF Sends
  <2>3. call' = [c EXCEPT ![k] = Request(op, u)]
    BY <2>1 DEF Sends
  <2>4. /\ call'[k].op = op /\ (op = "list" => call'[k].who = jar)
        /\ \A l \in Call \ {k} : call'[l] = c[l]
    BY <2>3, SessionOpsAre DEF Request
  <2>5. op \in SessionOps => \A l \in Call : c[l].op \notin SessionOps
    BY <2>2 DEF OneByOne
  <2>6. OneCall'
    BY <2>2, <2>4, <2>5 DEF OneCall, InSession, SteadyCalls
  <2>7. (\A l \in Call : call'[l].op # "resetMe") => a.user = jar
    <3>1. c[k] = Free
      BY <2>1 DEF Sends
    <3> QED BY <3>1, <2>2, <2>4, SessionOpsAre DEF SteadyCalls
  <2>8. UserIsTheJars'
    BY <1>1, <2>7 DEF UserIsTheJars
  <2>9. op = "list" => a.user = jar /\ a.user # None
    <3>1. ASSUME op = "list" PROVE \A l \in Call : c[l].op # "resetMe"
      BY <3>1, <2>5, SessionOpsAre
    <3> QED BY <3>1, <2>1, <2>2 DEF SteadyCalls, Sends
  <2>10. CallsAreTheUsers'
    <3>1. op \in Guarded => op = "list"
      BY DEF Guarded
    <3> QED BY <3>1, <2>2, <2>4, <2>9 DEF CallsAreTheUsers, SteadyCalls
  <2>11. NotesAreTheUsers'
    <3>1. CASE op = "list"
      <4>1. app'.view.of = app'.user
        BY <3>1, <1>1, <2>1 DEF Sends
      <4>2. \A l \in Call : call'[l].op \in SessionOps => l = k
        BY <3>1, <2>4, <2>5, SessionOpsAre
      <4> QED BY <3>1, <2>4, <4>1, <4>2 DEF NotesAreTheUsers, InSession
    <3>2. CASE op # "list"
      BY <3>2, <2>1 DEF Sends, NotesAreTheUsers
    <3> QED BY <3>1, <3>2
  <2> QED BY <2>2, <2>6, <2>8, <2>10, <2>11 DEF Steady
<1> QED BY <1>2, <1>3 DEF Routed

\* The listener.
LEMMA HandleSteady ==
    ASSUME BaseInv, SteadyInv, HandleHashChange, steady'
    PROVE  Steady'
<1> DEFINE a == [app EXCEPT !.due = @ - 1]
<1>1. Routed(a, call, steady) /\ app.phase = "ready" /\ a.user = app.user /\ jar' = jar
  BY HandleRoutes
<1> HIDE DEF a
<1>2. steady => SteadyCalls(call, a.user)
  BY <1>1 DEF SteadyInv, Steady, SteadyCalls, OneCall, InSession, CallsAreTheUsers, UserIsTheJars
<1> QED BY <1>1, <1>2, RouteSteady DEF BaseInv, TypeOK

\* The end of init(): checkAuth's answer is the user of the cookie.
LEMMA StartSteady ==
    ASSUME BaseInv, SteadyInv, NEW k \in Call, Start(k), steady'
    PROVE  Steady'
<1>1. PICK user, a, c, s : Started(k, user, a, c, s)
  BY StartRoutes
<1>2. s => user = jar
  BY <1>1 DEF Started, SteadyInv, Steady, CallsAreTheUsers, Guarded
<1>3. s => SteadyCalls(c, a.user)
  BY <1>1, <1>2, SessionOpsAre DEF Started, SteadyCalls
<1> QED BY <1>1, <1>3, RouteSteady DEF BaseInv, TypeOK, Started

\* The answer or failure of a call that is not about the session.
LEMMA OtherAnswerSteady ==
    ASSUME BaseInv, Steady, NEW k \in Call, call[k].op \notin SessionOps,
           call' = [call EXCEPT ![k] = Free], jar' = jar,
           app'.phase = app.phase, app'.user = app.user,
           Quiet(app') => \/ app'.view.page # "notes"
                          \/ Quiet(app) /\ app'.view = app.view
    PROVE  Steady'
<1> USE DEF BaseInv
<1>1. \A l \in Call : \/ call'[l] = call[l]
                      \/ l = k /\ call'[l].op \notin SessionOps
  BY SessionOpsAre DEF TypeOK
<1>2. \A l \in Call : call'[l].op \in SessionOps => call'[l] = call[l]
  BY <1>1
<1>3. \A l \in Call : call[l].op \in SessionOps => call'[l] = call[l]
  BY <1>1
<1>4. OneCall'
  BY <1>2 DEF Steady, OneCall, InSession
<1>5. CallsAreTheUsers'
  BY <1>2, SessionOpsAre DEF Steady, CallsAreTheUsers
<1>6. UserIsTheJars'
  <2>1. "resetMe" \in SessionOps
    BY SessionOpsAre
  <2> QED BY <1>3, <2>1 DEF Steady, UserIsTheJars
<1>7. NotesAreTheUsers'
  <2> SUFFICES ASSUME Still', app'.view.page = "notes"
               PROVE  /\ app'.view.of = app'.user
                      /\ \A l \in Call : InSession(l)' =>
                             call'[l].op \in {"list", "logout", "verifyMe"}
                      /\ app'.view.shown = jar' \/ \E l \in Call : call'[l].op = "list"
    BY DEF NotesAreTheUsers
  <2>1. Still /\ app'.view = app.view
    BY DEF Still, Quiet
  <2>2. /\ app.view.of = app.user
        /\ \A l \in Call : InSession(l) => call[l].op \in {"list", "logout", "verifyMe"}
        /\ app.view.shown = jar \/ \E l \in Call : call[l].op = "list"
    BY <2>1 DEF Steady, NotesAreTheUsers
  <2>3. "list" \in SessionOps
    BY SessionOpsAre
  <2> QED BY <1>2, <1>3, <2>1, <2>2, <2>3 DEF InSession
<1> QED BY <1>4, <1>5, <1>6, <1>7 DEF Steady

\* That of a call about the session, which was the only one: what remains is
\* that the user is the cookie's, and that the notes page is his.
LEMMA SessionAnswerSteady ==
    ASSUME BaseInv, Steady, NEW k \in Call, call[k].op \in SessionOps,
           call' = [call EXCEPT ![k] = Free],
           app'.phase = "ready" => app'.user = jar',
           Quiet(app') /\ app'.view.page = "notes" =>
               app'.view.of = app'.user /\ app'.view.shown = jar'
    PROVE  Steady'
<1> USE DEF BaseInv
<1>1. \A l \in Call : call'[l].op \notin SessionOps
  <2>1. \A l \in Call \ {k} : call[l].op \notin SessionOps
    BY DEF Steady, OneCall, InSession
  <2> QED BY <2>1, SessionOpsAre DEF TypeOK
<1>2. OneCall' /\ CallsAreTheUsers'
  BY <1>1, SessionOpsAre DEF OneCall, CallsAreTheUsers, InSession
<1>3. UserIsTheJars'
  BY DEF UserIsTheJars
<1>4. NotesAreTheUsers'
  BY <1>1 DEF NotesAreTheUsers, InSession, Still, Quiet
<1> QED BY <1>2, <1>3, <1>4 DEF Steady

\* An answer that leads away from the notes page, or finds it with calls that
\* its user cannot have made.
LEMMA LeavesNotes ==
    ASSUME BaseInv, Steady, NEW k \in Call, NEW h \in Address,
           Leads(app, app', h), app' \in AppState,
           \/ call[k].op \in SessionOps \ {"list", "logout", "verifyMe"}
           \/ h.route = "home"
    PROVE  ~(Quiet(app') /\ app'.view.page = "notes")
<1> SUFFICES ASSUME Quiet(app'), app'.view.page = "notes" PROVE FALSE
  OBVIOUS
<1>1. Quiet(app) /\ app.hash = h /\ app.view.page = "notes"
  BY LeadsNowhere DEF BaseInv, TypeOK
<1>2. CASE call[k].op \in SessionOps \ {"list", "logout", "verifyMe"}
  BY <1>1, <1>2 DEF Steady, NotesAreTheUsers, Still, Quiet, InSession
<1>3. CASE h.route = "home"
  <2>1. PageFits(app)
    BY <1>1 DEF BaseInv, Fits, Results
  <2>2. PageOf(h) = "home"
    BY <1>3 DEF PageOf, Links
  <2> QED BY <1>1, <2>1, <2>2 DEF PageFits
<1> QED BY <1>2, <1>3

\* The answer to a call.
LEMMA ReceiveSteady ==
    ASSUME BaseInv, SteadyInv, NEW k \in Call, Receive(k), steady'
    PROVE  Steady'
<1> DEFINE r == call[k]
<1>1. /\ r.op \notin {None, "me", "reset", "verify"} /\ Permitted(k) /\ jar' = Cookie(k)
      /\ call' = [call EXCEPT ![k] = Free] /\ steady
  BY DEF Receive
<1>2. /\ app.phase = "ready" /\ r \in CallState /\ ThenTable(app, app', r)
      /\ app \in AppState /\ app' \in AppState
  BY ReceiveBase DEF BaseInv, TypeOK
<1>3. Steady
  BY <1>1 DEF SteadyInv
<1>4. r.op \in {"login", "register", "logout", "mail", "resend", "magicVerify", "verifyMe",
                "resetMe", "list"} /\ r.of \in User \cup {None}
  BY <1>1, <1>2 DEF CallState, Op, SessionOps, Opening, Guarded
<1>5. /\ To("app") \in Address /\ To("home") \in Address /\ To("home").route = "home"
      /\ CheckAddress("check-verification", r.of) \in Address
      /\ CheckAddress("check-inbox", r.of) \in Address
  BY <1>4, AddressesMade DEF Route, Plain, CheckEmail
<1>6. r.op \in Guarded => r.who = jar
  BY <1>3 DEF Steady, CallsAreTheUsers
<1>7. CASE r.op \in {"login", "magicVerify", "register"}
  <2>1. PICK h \in Address : Leads(app, app', h) /\ app'.user = r.of
    BY <1>2, <1>5, <1>7 DEF ThenTable
  <2>2. jar' = r.of
    BY <1>1, <1>7 DEF Cookie, Opening
  <2>3. r.op \in SessionOps \ {"list", "logout", "verifyMe"}
    BY <1>7, SessionOpsAre
  <2>4. ~(Quiet(app') /\ app'.view.page = "notes")
    BY <1>2, <1>3, <2>1, <2>3, LeavesNotes
  <2> QED BY <1>1, <1>3, <2>1, <2>2, <2>3, <2>4, SessionAnswerSteady
<1>8. CASE r.op = "logout"
  <2>1. Leads(app, app', To("home")) /\ app'.user = None
    BY <1>2, <1>8 DEF ThenTable
  <2>2. jar' = None
    BY <1>1, <1>8 DEF Cookie, Opening
  <2>3. ~(Quiet(app') /\ app'.view.page = "notes")
    BY <1>2, <1>3, <1>5, <2>1, LeavesNotes
  <2>4. r.op \in SessionOps
    BY <1>8, SessionOpsAre
  <2> QED BY <1>1, <1>3, <2>1, <2>2, <2>3, <2>4, SessionAnswerSteady
<1>9. CASE r.op = "verifyMe"
  <2>1. Shows(app, app', Showing("verified")) /\ app'.user = r.who
    BY <1>2, <1>9 DEF ThenTable
  <2>2. jar' = r.who
    BY <1>1, <1>6, <1>9 DEF Cookie, Opening, Guarded
  <2>3. app'.view.page # "notes"
    BY <2>1 DEF Shows, Showing
  <2>4. r.op \in SessionOps
    BY <1>9, SessionOpsAre
  <2> QED BY <1>1, <1>3, <2>1, <2>2, <2>3, <2>4, SessionAnswerSteady
<1>10. CASE r.op = "resetMe"
  <2>1. Leads(app, app', To("app")) /\ app'.user = r.who
    BY <1>2, <1>10 DEF ThenTable
  <2>2. jar' = r.who
    BY <1>1, <1>6, <1>10 DEF Cookie, Opening, Guarded
  <2>3. r.op \in SessionOps \ {"list", "logout", "verifyMe"}
    BY <1>10, SessionOpsAre
  <2>4. ~(Quiet(app') /\ app'.view.page = "notes")
    BY <1>2, <1>3, <1>5, <2>1, <2>3, LeavesNotes
  <2> QED BY <1>1, <1>3, <2>1, <2>2, <2>3, <2>4, SessionAnswerSteady
<1>11. CASE r.op = "list"
  <2>1. Lists(app, app', r.who)
    BY <1>2, <1>11 DEF ThenTable
  <2>2. jar' = jar /\ r.who = jar
    BY <1>1, <1>6, <1>11 DEF Cookie, Opening, Guarded
  <2>3. r.op \in SessionOps
    BY <1>11, SessionOpsAre
  <2>4. \A l \in Call : call[l].op # "resetMe"
    BY <1>3, <1>11, <2>3, SessionOpsAre DEF Steady, OneCall, InSession
  <2>5. app.user = jar
    BY <1>2, <1>3, <2>4 DEF Steady, UserIsTheJars
  <2>6. Quiet(app') /\ app'.view.page = "notes" =>
            app'.view.of = app'.user /\ app'.view.shown = jar'
    BY <1>3, <2>1, <2>2 DEF Lists, Steady, NotesAreTheUsers, Still, Quiet
  <2>7. app'.user = jar'
    BY <2>1, <2>2, <2>5 DEF Lists
  <2> QED BY <1>1, <1>3, <2>3, <2>6, <2>7, SessionAnswerSteady
<1>12. CASE r.op \in {"mail", "resend"}
  <2>1. r.op \notin SessionOps
    BY <1>12, SessionOpsAre
  <2>2. jar' = jar
    BY <1>1, <1>12 DEF Cookie, Opening
  <2>3. /\ app'.phase = app.phase /\ app'.user = app.user
        /\ Quiet(app') => Quiet(app) /\ app'.view = app.view
    <3>1. CASE r.op = "mail"
      <4>1. Leads(app, app', CheckAddress("check-inbox", r.of)) /\ app'.user = app.user
        BY <1>2, <3>1 DEF ThenTable
      <4> QED BY <4>1, <1>2, <1>5, LeadsNowhere DEF Leads
    <3>2. CASE r.op = "resend"
      BY <1>2, <3>2 DEF ThenTable
    <3> QED BY <1>12, <3>1, <3>2
  <2> QED BY <1>1, <1>3, <2>1, <2>2, <2>3, OtherAnswerSteady
<1> QED BY <1>4, <1>7, <1>8, <1>9, <1>10, <1>11, <1>12

\* The failure of a call: of those behind requireAuth only a refusal, which is
\* for a page without a session, leaves the history steady.
LEMMA FailSteady ==
    ASSUME BaseInv, SteadyInv, NEW k \in Call, Fail(k), steady'
    PROVE  Steady'
<1> DEFINE op == call[k].op
<1>1. /\ op \notin {None, "me"} /\ call' = [call EXCEPT ![k] = Free]
      /\ jar' = jar /\ steady
      /\ op \in SessionOps => op \in Opening \/ ~Permitted(k)
  BY DEF Fail
<1>2. /\ app.phase = "ready" /\ call[k] \in CallState /\ CatchTable(app, app', op)
      /\ app \in AppState /\ app' \in AppState
  BY FailBase DEF BaseInv, TypeOK
<1>3. Steady
  BY <1>1 DEF SteadyInv
<1>4. op \in {"login", "register", "magicVerify", "reset", "verifyMe", "resetMe", "logout",
              "list", "mail", "resend", "verify"}
  BY <1>1, <1>2 DEF CallState, Op, SessionOps, Opening, Guarded
<1>5. op \in Guarded => call[k].who = jar /\ jar = None
  <2>1. op \in Guarded => call[k].who = jar
    BY <1>3 DEF Steady, CallsAreTheUsers
  <2>2. op \in Guarded => op \in SessionOps /\ op \notin Opening
    BY DEF SessionOps, Opening, Guarded
  <2> QED BY <1>1, <2>1, <2>2 DEF Permitted
<1>6. To("app") \in Address /\ To("home") \in Address /\ To("home").route = "home"
  BY AddressesMade DEF Route, Plain
<1>7. CASE op = "list"
  <2>1. op \in Guarded
    BY <1>7, SessionOpsAre
  <2> QED BY <1>3, <1>5, <1>7, <2>1 DEF Steady, CallsAreTheUsers
<1>8. CASE op \in {"login", "register", "reset"}
  <2>1. app' = app
    BY <1>2, <1>8 DEF CatchTable
  <2>2. op \in SessionOps \ {"list", "logout", "verifyMe"} /\ op # "resetMe"
    BY <1>8, SessionOpsAre
  <2>3. \A l \in Call : call[l].op # "resetMe"
    BY <1>3, <2>2, SessionOpsAre DEF Steady, OneCall, InSession
  <2>4. app'.user = jar'
    BY <1>1, <1>2, <1>3, <2>1, <2>3 DEF Steady, UserIsTheJars
  <2>5. ~(Quiet(app') /\ app'.view.page = "notes")
    BY <1>3, <2>1, <2>2 DEF Steady, NotesAreTheUsers, Still, Quiet, InSession
  <2> QED BY <1>1, <1>3, <2>2, <2>4, <2>5, SessionAnswerSteady
<1>9. CASE op = "magicVerify"
  <2>1. Shows(app, app', Showing("failed")) /\ app'.user = app.user
    BY <1>2, <1>9 DEF CatchTable
  <2>2. op \in SessionOps /\ op # "resetMe"
    BY <1>9, SessionOpsAre
  <2>3. \A l \in Call : call[l].op # "resetMe"
    BY <1>3, <2>2, SessionOpsAre DEF Steady, OneCall, InSession
  <2>4. app'.user = jar'
    BY <1>1, <1>2, <1>3, <2>1, <2>3 DEF Steady, UserIsTheJars
  <2>5. app'.view.page # "notes"
    BY <2>1 DEF Shows, Showing
  <2> QED BY <1>1, <1>3, <2>2, <2>4, <2>5, SessionAnswerSteady
<1>10. CASE op = "verifyMe"
  <2>1. Shows(app, app', Showing("verified")) /\ app'.user = None
    BY <1>2, <1>10 DEF CatchTable
  <2>2. op \in SessionOps /\ op \in Guarded
    BY <1>10, SessionOpsAre DEF Guarded
  <2>3. app'.view.page # "notes"
    BY <2>1 DEF Shows, Showing
  <2> QED BY <1>1, <1>3, <1>5, <2>1, <2>2, <2>3, SessionAnswerSteady
<1>11. CASE op \in {"resetMe", "logout"}
  <2>1. op \in SessionOps /\ op \in Guarded
    BY <1>11, SessionOpsAre DEF Guarded
  <2>2. /\ app'.user = None
        /\ op = "logout" => Leads(app, app', To("home"))
        /\ op = "resetMe" => Leads(app, app', To("app"))
    BY <1>2, <1>11 DEF CatchTable
  <2>3. op = "logout" => ~(Quiet(app') /\ app'.view.page = "notes")
    BY <1>2, <1>3, <1>6, <2>2, LeavesNotes
  <2>4. op = "resetMe" => ~(Quiet(app') /\ app'.view.page = "notes")
    <3> SUFFICES ASSUME op = "resetMe" PROVE ~(Quiet(app') /\ app'.view.page = "notes")
      OBVIOUS
    <3>1. op \in SessionOps \ {"list", "logout", "verifyMe"}
      BY <2>1
    <3> QED BY <1>2, <1>3, <1>6, <2>2, <3>1, LeavesNotes
  <2> QED BY <1>1, <1>3, <1>5, <1>11, <2>1, <2>2, <2>3, <2>4, SessionAnswerSteady
<1>12. CASE op \in {"mail", "resend", "verify"}
  <2>1. op \notin SessionOps
    BY <1>12, SessionOpsAre
  <2>2. /\ app'.phase = app.phase /\ app'.user = app.user
        /\ Quiet(app') => \/ app'.view.page # "notes"
                          \/ Quiet(app) /\ app'.view = app.view
    <3>1. CASE op = "verify"
      BY <1>2, <3>1 DEF CatchTable, Shows, Showing
    <3>2. CASE op \in {"mail", "resend"}
      BY <1>2, <3>2 DEF CatchTable
    <3> QED BY <1>12, <3>1, <3>2
  <2> QED BY <1>1, <1>3, <2>1, <2>2, OtherAnswerSteady
<1> QED BY <1>4, <1>7, <1>8, <1>9, <1>10, <1>11, <1>12

\* A reset or a verification goes on with checkAuth.
LEMMA ThenCheckSteady ==
    ASSUME BaseInv, SteadyInv, NEW k \in Call, ThenCheckAuth(k), steady'
    PROVE  Steady'
<1> DEFINE op == IF call[k].op = "reset" THEN "resetMe" ELSE "verifyMe"
           c == [call EXCEPT ![k] = Free]
<1>1. /\ call[k].op \in {"reset", "verify"} /\ jar' = Cookie(k) /\ app' = app
      /\ call' = [call EXCEPT ![k] = [op |-> op, who |-> jar', of |-> None]]
      /\ steady /\ OneByOne(c, op)
  BY DEF ThenCheckAuth
<1>2. /\ app.phase = "ready"
      /\ call'[k].op = op /\ call'[k].who = jar' /\ \A l \in Call \ {k} : call'[l] = call[l]
  <2>1. call'[k].op = op
    BY <1>1 DEF BaseInv, TypeOK
  <2> QED BY <2>1, ThenCheckBase
<1>3. Steady
  BY <1>1 DEF SteadyInv
<1>4. op \in SessionOps /\ op \in {"resetMe", "verifyMe"} /\ op # "list"
  BY SessionOpsAre
<1>5. \A l \in Call \ {k} : call[l].op \notin SessionOps
  BY <1>1, <1>4 DEF OneByOne, BaseInv, TypeOK
<1> HIDE DEF op, c
<1>6. OneCall'
  BY <1>2, <1>5 DEF OneCall, InSession
<1>7. CallsAreTheUsers'
  BY <1>2, <1>4, <1>5, SessionOpsAre DEF CallsAreTheUsers
<1>8. CASE call[k].op = "reset"
  <2>1. call'[k].op = "resetMe"
    BY <1>2, <1>8 DEF op
  <2>2. UserIsTheJars'
    BY <2>1 DEF UserIsTheJars
  <2>3. ~(Still /\ app.view.page = "notes")
    BY <1>3, <1>8, SessionOpsAre DEF Steady, NotesAreTheUsers, InSession
  <2>4. NotesAreTheUsers'
    BY <1>1, <2>3 DEF NotesAreTheUsers, Still
  <2> QED BY <1>6, <1>7, <2>2, <2>4 DEF Steady
<1>9. CASE call[k].op = "verify"
  <2>1. call'[k].op = "verifyMe" /\ jar' = jar
    BY <1>1, <1>2, <1>9 DEF op, Cookie, Opening
  <2>2. \A l \in Call : call[l].op \notin SessionOps
    BY <1>5, <1>9, SessionOpsAre
  <2>3. app.user = jar
    BY <1>2, <1>3, <2>2, SessionOpsAre DEF Steady, UserIsTheJars
  <2>4. UserIsTheJars'
    BY <1>1, <2>1, <2>3 DEF UserIsTheJars
  <2>5. Still /\ app.view.page = "notes" => app.view.of = app.user /\ app.view.shown = jar
    BY <1>3, <2>2, SessionOpsAre DEF Steady, NotesAreTheUsers
  <2>6. \A l \in Call : InSession(l)' => call'[l].op = "verifyMe"
    BY <1>2, <1>5, <2>1 DEF InSession
  <2>7. NotesAreTheUsers'
    BY <1>1, <2>1, <2>5, <2>6 DEF NotesAreTheUsers, Still
  <2> QED BY <1>6, <1>7, <2>4, <2>7 DEF Steady
<1> QED BY <1>1, <1>8, <1>9

\* A call that a form sends.
LEMMA SubmitSteady ==
    ASSUME BaseInv, SteadyInv, NEW k \in Call, Submit(k), steady'
    PROVE  Steady'
<1>1. jar' = jar /\ app' = app /\ \E op \in Op, u \in User \cup {None} : Submitted(k, op, u)
  BY SubmitSends DEF BaseInv
<1>2. PICK op \in Op, u \in User \cup {None} : Submitted(k, op, u)
  BY <1>1
<1>3. /\ call[k] = Free /\ call'[k] = Request(op, u)
      /\ \A l \in Call \ {k} : call'[l] = call[l]
      /\ steady /\ OneByOne(call, op)
  BY <1>2, SendEffect DEF Submitted, BaseInv
<1>4. call'[k].op = op /\ (op \in Guarded => call'[k].who = jar)
  BY <1>3 DEF Request
<1>5. Steady
  BY <1>3 DEF SteadyInv
<1>6. op \notin {"list", "resetMe"} /\ (app.view.page = "notes" => op \in {"logout", "mail", "resend"})
  BY <1>2 DEF Submitted
<1>7. op \in SessionOps => \A l \in Call : call[l].op \notin SessionOps
  BY <1>3 DEF OneByOne
<1>8. OneCall'
  BY <1>3, <1>4, <1>5, <1>7 DEF Steady, OneCall, InSession
<1>9. CallsAreTheUsers'
  BY <1>1, <1>3, <1>4, <1>5, <1>6 DEF Steady, CallsAreTheUsers
<1>10. UserIsTheJars'
  BY <1>1, <1>3, <1>5, SessionOpsAre DEF Steady, UserIsTheJars
<1>11. NotesAreTheUsers'
  <2> SUFFICES ASSUME Still', app'.view.page = "notes"
               PROVE  /\ app'.view.of = app'.user
                      /\ \A l \in Call : InSession(l)' =>
                             call'[l].op \in {"list", "logout", "verifyMe"}
                      /\ app'.view.shown = jar' \/ \E l \in Call : call'[l].op = "list"
    BY DEF NotesAreTheUsers
  <2>1. /\ app.view.of = app.user
        /\ \A l \in Call : InSession(l) => call[l].op \in {"list", "logout", "verifyMe"}
        /\ app.view.shown = jar \/ \E l \in Call : call[l].op = "list"
    BY <1>1, <1>5 DEF Steady, NotesAreTheUsers, Still
  <2>2. \A l \in Call : InSession(l)' => call'[l].op \in {"list", "logout", "verifyMe"}
    BY <1>1, <1>3, <1>4, <1>6, <2>1, SessionOpsAre DEF InSession
  <2>3. \A l \in Call : call[l].op = "list" => call'[l] = call[l]
    BY <1>3, SessionOpsAre
  <2> QED BY <1>1, <2>1, <2>2, <2>3
<1> QED BY <1>8, <1>9, <1>10, <1>11 DEF Steady

\* The user goes to another address.
LEMMA VisitSteady ==
    ASSUME BaseInv, SteadyInv, NEW h \in Addresses, Visit(h), steady'
    PROVE  Steady'
<1>1. /\ ~Quiet(app') /\ app'.phase = app.phase /\ app'.user = app.user
      /\ jar' = jar /\ call' = call /\ steady' = steady
  BY VisitBase
<1>2. Steady
  BY <1>1 DEF SteadyInv
<1>3. OneCall' /\ CallsAreTheUsers' /\ UserIsTheJars'
  BY <1>1, <1>2 DEF Steady, OneCall, InSession, CallsAreTheUsers, UserIsTheJars
<1>4. NotesAreTheUsers'
  BY <1>1 DEF NotesAreTheUsers, Still, Quiet
<1> QED BY <1>3, <1>4 DEF Steady

\* While the page is loaded nobody is signed in: no call but checkAuth's.
LEMMA LoadingSteady ==
    ASSUME app.phase # "ready",
           \A k, l \in Call : call[k] # Free /\ call[l] # Free => k = l,
           \A k \in Call : call[k] # Free => call[k].op = "me" /\ call[k].who = jar
    PROVE  Steady
<1>1. OneCall
  BY SessionOpsAre DEF OneCall, InSession
<1>2. CallsAreTheUsers
  BY SessionOpsAre DEF CallsAreTheUsers
<1> QED BY <1>1, <1>2 DEF Steady, UserIsTheJars, NotesAreTheUsers, Still

\* init() goes on with checkAuth.
LEMMA FetchSteady ==
    ASSUME BaseInv, FetchToken
    PROVE  Steady'
<1>1. PICK k \in Call : Send(k, "me", None)
  BY DEF FetchToken
<1>2. app.phase = "csrf" /\ app' = [app EXCEPT !.phase = "me"] /\ jar' = jar
  BY DEF FetchToken
<1>3. "me" \in Op /\ "me" \in Guarded
  BY DEF Op, SessionOps, Guarded
<1>4. call'[k] = Request("me", None) /\ \A l \in Call \ {k} : call'[l] = call[l]
  BY <1>1, <1>3, SendEffect DEF BaseInv
<1>5. call'[k].op = "me" /\ call'[k].who = jar'
  BY <1>2, <1>3, <1>4 DEF Request
<1>6. \A l \in Call : call[l] = Free
  BY <1>2 DEF BaseInv, PhaseInv
<1>7. app'.phase # "ready"
  BY <1>2 DEF BaseInv, TypeOK, AppState
<1>8. /\ \A l, m \in Call : call'[l] # Free /\ call'[m] # Free => l = m
      /\ \A l \in Call : call'[l] # Free => call'[l].op = "me" /\ call'[l].who = jar'
  BY <1>4, <1>5, <1>6
<1>9. OneCall'
  BY <1>8, SessionOpsAre DEF OneCall, InSession
<1>10. CallsAreTheUsers'
  BY <1>8, SessionOpsAre DEF CallsAreTheUsers
<1> QED BY <1>7, <1>9, <1>10 DEF Steady, UserIsTheJars, NotesAreTheUsers, Still

-----------------------------------------------------------------------------
\* The theorems

\* The invariant holds at the start.
LEMMA PagesInit == Init => PagesInv
<1> SUFFICES ASSUME Init PROVE PagesInv
  OBVIOUS
<1>1. PICK h \in Addresses : app = Loading(h)
  BY DEF Init
<1>2. /\ jar \in User \cup {None} /\ call = [k \in Call |-> Free] /\ steady = TRUE
      /\ h \in Address
  BY AddressesAssumption DEF Init
<1>3. BaseInv
  BY <1>1, <1>2, LoadingBase
<1>4. app.phase # "ready"
  BY <1>1 DEF Loading
<1>5. Steady
  BY <1>2, <1>4, LoadingSteady
<1> QED BY <1>3, <1>5 DEF PagesInv, SteadyInv

\* Every step keeps it.
LEMMA PagesStep == PagesInv /\ [Next]_vars => PagesInv'
<1> SUFFICES ASSUME PagesInv, [Next]_vars PROVE BaseInv' /\ SteadyInv'
  BY DEF PagesInv
<1> USE DEF PagesInv, SteadyInv
<1>1. ASSUME NEW h \in Addresses, Visit(h) PROVE BaseInv' /\ SteadyInv'
  BY <1>1, VisitBase, VisitSteady
<1>2. ASSUME NEW k \in Call, Submit(k) PROVE BaseInv' /\ SteadyInv'
  BY <1>2, SubmitBase, SubmitSteady
<1>3. CASE Reload
  <2>1. BaseInv'
    BY <1>3, ReloadBase
  <2>2. \A k \in Call : call'[k] = Free
    BY <1>3 DEF Reload
  <2>3. app'.phase # "ready"
    BY <1>3 DEF Reload, Loading
  <2>4. OneCall'
    BY <2>2, SessionOpsAre DEF OneCall, InSession
  <2>5. CallsAreTheUsers'
    BY <2>2, SessionOpsAre DEF CallsAreTheUsers
  <2>6. Steady'
    BY <2>3, <2>4, <2>5 DEF Steady, UserIsTheJars, NotesAreTheUsers, Still
  <2> QED BY <2>1, <2>6
<1>4. CASE OtherPage
  BY <1>4, OtherBase
<1>5. CASE HandleHashChange
  BY <1>5, HandleBase, HandleSteady
<1>6. CASE FetchToken
  BY <1>6, FetchBase, FetchSteady
<1>7. ASSUME NEW k \in Call, Start(k) PROVE BaseInv' /\ SteadyInv'
  BY <1>7, StartBase, StartSteady
<1>8. ASSUME NEW k \in Call, Receive(k) PROVE BaseInv' /\ SteadyInv'
  BY <1>8, ReceiveBase, ReceiveSteady
<1>9. ASSUME NEW k \in Call, ThenCheckAuth(k) PROVE BaseInv' /\ SteadyInv'
  BY <1>9, ThenCheckBase, ThenCheckSteady
<1>10. ASSUME NEW k \in Call, Fail(k) PROVE BaseInv' /\ SteadyInv'
  BY <1>10, FailBase, FailSteady
<1>11. CASE UNCHANGED vars
  <2>1. app' = app /\ call' = call /\ jar' = jar /\ steady' = steady
    BY <1>11 DEF vars
  <2>2. BaseInv'
    BY <2>1 DEF BaseInv, TypeOK, PhaseInv, CallInv, Fits
  <2>3. SteadyInv'
    BY <2>1 DEF Steady, OneCall, InSession, CallsAreTheUsers, UserIsTheJars, NotesAreTheUsers,
                Still
  <2> QED BY <2>2, <2>3
<1> QED BY <1>1, <1>2, <1>3, <1>4, <1>5, <1>6, <1>7, <1>8, <1>9, <1>10, <1>11
        DEF Next, Outside, Browser

\* The inductive invariant of the pages.
THEOREM PagesInvariant == Spec => []PagesInv
BY PagesInit, PagesStep, PTL DEF Spec

\* The variables of the page have their types.
THEOREM PagesTypeCorrect == Spec => []TypeOK
<1>1. PagesInv => TypeOK
  BY DEF PagesInv, BaseInv
<1> QED BY <1>1, PagesInvariant, PTL

\* As long as calls about the session came one by one and were answered, and no
\* other page touched the cookie, App.user is the user of the cookie and the
\* notes page lists his notes.
THEOREM SignedInTheorem == Spec => []SignedInAs
<1>1. PagesInv => SignedInAs
  BY SessionOpsAre DEF PagesInv, SteadyInv, Steady, UserIsTheJars, NotesAreTheUsers, SignedInAs
<1> QED BY <1>1, PagesInvariant, PTL

\* The addresses the program makes are encoded.
LEMMA GoesEncoded == \A h : Goes(h) => Encoded(h)
BY DEF Goes, Encoded, To, CheckEmail

\* As long as users come to #check-email by the program only, each address of it
\* is encoded.
LEMMA EncodedStep ==
    ASSUME \A h \in Addresses : Encoded(h), PagesInv, Encoded(app.hash), [Next]_vars
    PROVE  Encoded(app'.hash)
<1> USE DEF PagesInv
<1>1. \A h : h \in {To("login"), To("app")} => Encoded(h)
  BY GoesEncoded DEF Goes
<1>2. ASSUME NEW h \in Addresses, Visit(h) PROVE Encoded(app'.hash)
  BY <1>2, VisitBase
<1>3. ASSUME NEW k \in Call, Submit(k) PROVE Encoded(app'.hash)
  BY <1>3, SubmitSends DEF BaseInv
<1>4. CASE Reload
  BY <1>4 DEF Reload, Loading
<1>5. CASE OtherPage
  BY <1>5 DEF OtherPage
<1>6. CASE HandleHashChange
  BY <1>1, <1>6, HandleRoutes DEF Routed
<1>7. CASE FetchToken
  BY <1>7 DEF FetchToken, BaseInv, TypeOK, AppState
<1>8. ASSUME NEW k \in Call, Start(k) PROVE Encoded(app'.hash)
  <2>1. PICK user, a, c, s : Started(k, user, a, c, s)
    BY <1>8, StartRoutes
  <2> QED BY <1>1, <2>1 DEF Routed, Started
<1>9. ASSUME NEW k \in Call, Receive(k) PROVE Encoded(app'.hash)
  BY <1>9, ReceiveBase, GoesEncoded
<1>10. ASSUME NEW k \in Call, ThenCheckAuth(k) PROVE Encoded(app'.hash)
  BY <1>10 DEF ThenCheckAuth
<1>11. ASSUME NEW k \in Call, Fail(k) PROVE Encoded(app'.hash)
  BY <1>11, FailBase, GoesEncoded
<1>12. CASE UNCHANGED vars
  BY <1>12 DEF vars
<1> QED BY <1>2, <1>3, <1>4, <1>5, <1>6, <1>7, <1>8, <1>9, <1>10, <1>11, <1>12
        DEF Next, Outside, Browser

\* Once the events are handled the page is the one of the address, for the
\* person the address names, unless the result of a mailed link has taken its
\* place; when users come to #check-email by the program only.
THEOREM PageFollowsTheorem ==
    ASSUME \A h \in Addresses : Encoded(h)
    PROVE  Spec => []PageFollowsAddress
<1>1. Init => Encoded(app.hash)
  BY DEF Init, Loading
<1>2. PagesInv /\ Encoded(app.hash) /\ [Next]_vars => Encoded(app.hash)'
  BY EncodedStep
<1>3. PagesInv /\ Encoded(app.hash) => PageFollowsAddress
  BY DEF PagesInv, BaseInv, Fits, Quiet, PageFits, Encoded, PageFollowsAddress, Still
<1> QED BY <1>1, <1>2, <1>3, PagesInvariant, PTL DEF Spec

\* What route() shows is guarded: no form for guests that somebody signed in
\* sees, no notes page without a user.
LEMMA RoutedGuarded ==
    ASSUME NEW a, NEW c, NEW s, Routed(a, c, s), Quiet(app')
    PROVE  /\ app'.view.page \in {"login", "register"} => app'.user = None
           /\ app'.view.page = "notes" => app'.user # None
<1>1. CASE Shown(a, c, s)
  BY <1>1 DEF Routed, Shown
<1>2. CASE Called(a, c, s)
  BY <1>2 DEF Routed, Called, Sends
<1> QED BY <1>1, <1>2 DEF Routed

\* What an answer leads to: whose page it is is decided before it comes.
LEMMA LeadsGuarded ==
    ASSUME NEW h \in Address, app \in AppState, app' \in AppState, Leads(app, app', h),
           Fits(app'), Quiet(app')
    PROVE  /\ h.route \notin {"login", "register"} => app'.view.page \notin {"login", "register"}
           /\ h.route \in {"home"} \cup CheckEmail => app'.view.page # "notes"
<1>1. app'.hash = h
  BY DEF Leads
<1>2. app'.view.page \in Results \/ app'.view.page = PageOf(h)
  BY <1>1 DEF Fits, PageFits
<1>3. h.route \notin {"login", "register"} => PageOf(h) \notin {"login", "register"}
  BY DEF PageOf, Links
<1>4. h.route \in {"home"} \cup CheckEmail => PageOf(h) # "notes"
  BY DEF PageOf, Links, CheckEmail
<1> QED BY <1>2, <1>3, <1>4 DEF Results

\* What GuardsOutliveRoute says of a step.
Guards == /\ GuestForm' => GuestForm
          /\ OrphanedNotes' => \/ OrphanedNotes
                               \/ \E k \in Call : call[k].op = "resetMe" /\ call'[k] = Free

\* A step after which the page is guarded, or that leaves page and user alone.
LEMMA GuardedStep ==
    ASSUME Quiet(app') => /\ app'.view.page \in {"login", "register"} => app'.user = None
                          /\ app'.view.page = "notes" => app'.user # None
    PROVE  Guards
BY DEF Guards, GuestForm, OrphanedNotes, Still, Quiet

\* The other case of it.
LEMMA AloneStep ==
    ASSUME Quiet(app') => Quiet(app) /\ app'.view.page = app.view.page /\ app'.user = app.user
    PROVE  Guards
BY DEF Guards, GuestForm, OrphanedNotes, Still, Quiet

\* The answer to a call: the user it signs in is one.
LEMMA ReceiveGuards ==
    ASSUME BaseInv, NEW k \in Call, Receive(k)
    PROVE  Guards
<1> DEFINE r == call[k]
<1>1. /\ r \in CallState /\ ThenTable(app, app', r) /\ app \in AppState /\ app' \in AppState
      /\ Fits(app')
  BY ReceiveBase DEF BaseInv, TypeOK
<1>2. r.op \notin {None, "me", "reset", "verify"} /\ call' = [call EXCEPT ![k] = Free]
  BY DEF Receive
<1>3. r.op \in {"login", "register", "logout", "mail", "resend", "magicVerify", "verifyMe",
                "resetMe", "list"} /\ r.of \in User \cup {None}
  BY <1>1, <1>2 DEF CallState, Op, SessionOps, Opening, Guarded
<1>4. /\ To("app") \in Address /\ To("app").route = "app"
      /\ To("home") \in Address /\ To("home").route = "home"
      /\ CheckAddress("check-verification", r.of) \in Address
      /\ CheckAddress("check-verification", r.of).route \in CheckEmail
      /\ CheckAddress("check-inbox", r.of) \in Address
      /\ CheckAddress("check-inbox", r.of).route \in CheckEmail
  BY <1>3, AddressesMade DEF Route, Plain, CheckEmail
<1>5. \A t \in CheckEmail : t \notin {"login", "register"}
  BY DEF CheckEmail
<1>6. CASE r.op \in {"login", "magicVerify"}
  <2>1. Leads(app, app', To("app")) /\ app'.user = r.of /\ r.of # None
    BY <1>1, <1>6, UserAssumption DEF ThenTable, BaseInv, CallInv
  <2> QED BY <1>1, <1>4, <2>1, LeadsGuarded, GuardedStep
<1>7. CASE r.op = "register"
  <2>1. Leads(app, app', CheckAddress("check-verification", r.of))
    BY <1>1, <1>7 DEF ThenTable
  <2> QED BY <1>1, <1>4, <1>5, <2>1, LeadsGuarded, GuardedStep
<1>8. CASE r.op = "logout"
  <2>1. Leads(app, app', To("home"))
    BY <1>1, <1>8 DEF ThenTable
  <2> QED BY <1>1, <1>4, <2>1, LeadsGuarded, GuardedStep
<1>9. CASE r.op = "mail"
  <2>1. Leads(app, app', CheckAddress("check-inbox", r.of))
    BY <1>1, <1>9 DEF ThenTable
  <2> QED BY <1>1, <1>4, <1>5, <2>1, LeadsGuarded, GuardedStep
<1>10. CASE r.op = "resend"
  BY <1>1, <1>10, AloneStep DEF ThenTable
<1>11. CASE r.op = "verifyMe"
  <2>1. app'.view.page = "verified"
    BY <1>1, <1>11 DEF ThenTable, Shows, Showing
  <2> QED BY <2>1, GuardedStep
<1>12. CASE r.op = "resetMe"
  <2>1. Leads(app, app', To("app"))
    BY <1>1, <1>12 DEF ThenTable
  <2>2. Quiet(app') => app'.view.page \notin {"login", "register"}
    BY <1>1, <1>4, <2>1, LeadsGuarded
  <2>3. call'[k] = Free
    BY <1>2 DEF BaseInv, TypeOK
  <2> QED BY <1>12, <2>2, <2>3 DEF Guards, GuestForm, Still, Quiet
<1>13. CASE r.op = "list"
  <2>1. Lists(app, app', r.who)
    BY <1>1, <1>13 DEF ThenTable
  <2> QED BY <2>1, AloneStep DEF Lists, Quiet
<1> QED BY <1>3, <1>6, <1>7, <1>8, <1>9, <1>10, <1>11, <1>12, <1>13

\* The failure of a call.
LEMMA FailGuards ==
    ASSUME BaseInv, NEW k \in Call, Fail(k)
    PROVE  Guards
<1> DEFINE op == call[k].op
<1>1. /\ CatchTable(app, app', op) /\ app \in AppState /\ app' \in AppState /\ Fits(app')
  BY FailBase DEF BaseInv, TypeOK
<1>2. call'[k] = Free
  BY DEF Fail, BaseInv, TypeOK
<1>3. /\ To("app") \in Address /\ To("app").route = "app"
      /\ To("home") \in Address /\ To("home").route = "home"
  BY AddressesMade DEF Route, Plain
<1>4. CASE op = "logout"
  <2>1. Leads(app, app', To("home"))
    BY <1>1, <1>4 DEF CatchTable
  <2> QED BY <1>1, <1>3, <2>1, LeadsGuarded, GuardedStep
<1>5. CASE op = "resetMe"
  <2>1. Leads(app, app', To("app"))
    BY <1>1, <1>5 DEF CatchTable
  <2>2. Quiet(app') => app'.view.page \notin {"login", "register"}
    BY <1>1, <1>3, <2>1, LeadsGuarded
  <2> QED BY <1>2, <1>5, <2>2 DEF Guards, GuestForm, Still, Quiet
<1>6. CASE op = "verifyMe"
  <2>1. app'.view.page = "verified"
    BY <1>1, <1>6 DEF CatchTable, Shows, Showing
  <2> QED BY <2>1, GuardedStep
<1>7. CASE op \in {"verify", "magicVerify"}
  <2>1. app'.view.page = "failed"
    BY <1>1, <1>7 DEF CatchTable, Shows, Showing
  <2> QED BY <2>1, GuardedStep
<1>8. CASE op = "list"
  <2>1. Lists(app, app', app.notes)
    BY <1>1, <1>8 DEF CatchTable
  <2> QED BY <2>1, AloneStep DEF Lists, Quiet
<1>9. CASE op \notin {"logout", "resetMe", "verifyMe", "verify", "magicVerify", "list"}
  BY <1>1, <1>9, AloneStep DEF CatchTable
<1> QED BY <1>4, <1>5, <1>6, <1>7, <1>8, <1>9

\* Every step.
LEMMA GuardsStep ==
    ASSUME PagesInv, Next
    PROVE  Guards
<1> USE DEF PagesInv
<1>1. ASSUME NEW h \in Addresses, Visit(h) PROVE Guards
  BY <1>1, VisitBase, AloneStep
<1>2. ASSUME NEW k \in Call, Submit(k) PROVE Guards
  BY <1>2, SubmitSends, AloneStep DEF BaseInv
<1>3. CASE Reload
  <2>1. app'.phase # "ready"
    BY <1>3 DEF Reload, Loading
  <2> QED BY <2>1, AloneStep DEF Quiet
<1>4. CASE OtherPage
  BY <1>4, AloneStep DEF OtherPage
<1>5. CASE HandleHashChange
  BY <1>5, HandleRoutes, RoutedGuarded, GuardedStep
<1>6. CASE FetchToken
  <2>1. app'.phase # "ready"
    BY <1>6 DEF FetchToken, BaseInv, TypeOK, AppState
  <2> QED BY <2>1, AloneStep DEF Quiet
<1>7. ASSUME NEW k \in Call, Start(k) PROVE Guards
  <2>1. PICK user, a, c, s : Started(k, user, a, c, s)
    BY <1>7, StartRoutes
  <2> QED BY <2>1, RoutedGuarded, GuardedStep DEF Started
<1>8. ASSUME NEW k \in Call, Receive(k) PROVE Guards
  BY <1>8, ReceiveGuards
<1>9. ASSUME NEW k \in Call, ThenCheckAuth(k) PROVE Guards
  BY <1>9, AloneStep DEF ThenCheckAuth
<1>10. ASSUME NEW k \in Call, Fail(k) PROVE Guards
  BY <1>10, FailGuards
<1> QED BY <1>1, <1>2, <1>3, <1>4, <1>5, <1>6, <1>7, <1>8, <1>9, <1>10
        DEF Next, Outside, Browser

\* The page that route() guarded never stays with the wrong user while answers
\* are awaited, unless checkAuth failed after a password reset.
THEOREM GuardsTheorem == Spec => GuardsOutliveRoute
<1>1. PagesInv /\ [Next]_vars =>
          [/\ GuestForm' => GuestForm
           /\ OrphanedNotes' => \/ OrphanedNotes
                                 \/ \E k \in Call : call[k].op = "resetMe" /\ call'[k] = Free]_vars
  BY GuardsStep DEF Guards
<1> QED BY <1>1, PagesInvariant, PTL DEF Spec, GuardsOutliveRoute
=============================================================================
