------------------------------ MODULE NotesApp ------------------------------
(***************************************************************************)
(* The browser application (app.js) with the notes behind it (notes.go of  *)
(* handlers and services): pages of one browser, their calls to the server *)
(* and the table notes.                                                    *)
(*                                                                         *)
(* A handler of the page runs without interruption up to an await; what    *)
(* follows the await is another step, and answers arrive in any order.     *)
(* The text of a note is abstracted to what it was typed for: a new note   *)
(* or a change of note n.  A list is the set of its entries: order and     *)
(* repetition are layout.  The cookie of the browser, shared by its pages, *)
(* stands for the user its session is of; whether the server still accepts *)
(* that session is the matter of SessionStore, here it may refuse any call.*)
(***************************************************************************)
EXTENDS FiniteSets

CONSTANTS Page,     \* pages open in the browser
          Call,     \* calls that may be in flight: bounds the user's haste
          User,
          Note,     \* identifiers of notes
          NewNote,  \* editingNoteId is null
          None,
          SignIns,  \* the ways users sign in or confirm an address
          Outcomes  \* how a call may end

Outcome == {"ok", "refused", "lost"}

ASSUME OutcomesAssumption == Outcomes \subseteq Outcome
ASSUME NewNoteAssumption == NewNote \notin Note
ASSUME NoneAssumption == None \notin User \cup Page \cup Note \cup {NewNote}

VARIABLES
    table,       \* table[n]: the row of note n
    created,     \* the identifiers in use: gen_random_uuid gives none twice
    jar,         \* whose session the cookie of the browser names
    app,         \* app[p]: the object App of page p and its document
    call,        \* call[k]: a call in flight
    undisturbed  \* history: pages whose calls came one by one, see ListAgrees

vars == <<table, created, jar, app, call, undisturbed>>
server == <<table, created>>

Text == Note \cup {NewNote}
Row == [owner : User, text : Text]
NoRow == [owner |-> None, text |-> None]
Entry == [id : Note, text : Text]

\* Fragments of the address: the guarded route, those for guests, the others.
Hash == {"app", "login", "home"}

\* text and label are the note form's inputs and its submit button; event says
\* that a hashchange is due.
AppState == [user : User \cup {None}, notes : SUBSET Entry, editing : Text,
             hash : Hash, event : BOOLEAN, view : {"notes", "login", "other"},
             text : Text \cup {None}, label : {"add", "save"}, shown : SUBSET Entry]

NoteOp == {"list", "create", "update", "delete"}
Guarded == NoteOp \cup {"logout", "resetMe", "verifyMe"}
Op == Guarded \cup {"login", "register", "magic", "reset", "verify"}
NoCall == [page |-> None, op |-> "list", who |-> None, note |-> NewNote, text |-> NewNote,
           user |-> None, at |-> "idle", rows |-> {}]
CallState == [page : Page \cup {None}, op : Op, who : User \cup {None}, note : Text,
              text : Text, user : User \cup {None}, at : {"idle", "sent", "ok", "lost"},
              rows : SUBSET Entry]

Idle(k) == call[k].at = "idle"
Busy(p) == \E k \in Call : ~Idle(k) /\ call[k].page = p
RowsOf(u) == {[id |-> n, text |-> table[n].text] : n \in {m \in Note : table[m].owner = u}}

Started(user, hash) ==
    [user |-> user, notes |-> {}, editing |-> NewNote, hash |-> hash, event |-> TRUE,
     view |-> "other", text |-> None, label |-> "add", shown |-> {}]

Init ==
    /\ table = [n \in Note |-> NoRow]
    /\ created = {}
    /\ jar = None
    /\ app = [p \in Page |-> Started(None, "home")]
    /\ call = [k \in Call |-> NoCall]
    /\ undisturbed = [p \in Page |-> FALSE]

-----------------------------------------------------------------------------
\* The methods of App, as functions of its state

\* window.location.hash = h
GoTo(a, h) == [a EXCEPT !.hash = h, !.event = @ \/ a.hash # h]

Leave(a, view) == [a EXCEPT !.view = view, !.text = None, !.label = "add", !.shown = {}]

\* Mutant: the button is rendered with a fixed label.
AlwaysAdd(editing) == "add"

LabelFor(editing) == IF editing = NewNote THEN "add" ELSE "save"

NotesView(a) == [Leave(a, "notes") EXCEPT !.label = LabelFor(a.editing)]

RenderNotes(a) == IF a.view = "notes" THEN [a EXCEPT !.shown = a.notes] ELSE a

\* Mutant: the inputs keep what was typed.
ForgetEditing(a) == [a EXCEPT !.editing = NewNote, !.label = "add"]

ClearNoteForm(a) == [a EXCEPT !.editing = NewNote, !.text = None, !.label = "add"]

SignedIn(a, user, h) == GoTo([a EXCEPT !.user = user], h)
SignedOut(a) == GoTo([a EXCEPT !.user = None, !.notes = {}], "home")

\* API.request: the browser adds the cookie when the call is sent.
Request(p, op) == [NoCall EXCEPT !.page = p, !.op = op, !.who = jar, !.at = "sent"]

Send(k, p, request) ==
    /\ Idle(k)
    /\ call' = [call EXCEPT ![k] = request]
    /\ undisturbed' = [undisturbed EXCEPT ![p] = @ /\ ~Busy(p)]

-----------------------------------------------------------------------------
\* What the user does

\* A link, a button of the history, or an address typed in.
Visit(p, h) ==
    /\ app[p].hash # h
    /\ app' = [app EXCEPT ![p] = GoTo(@, h)]
    /\ UNCHANGED <<table, created, jar, call, undisturbed>>

\* A mailed link: route() starts the call when it shows the page.
FollowLink(p, k, op, u) ==
    /\ ~app[p].event
    /\ app' = [app EXCEPT ![p] = Leave([@ EXCEPT !.hash = "home"], "other")]
    /\ Send(k, p, [Request(p, op) EXCEPT !.user = u])
    /\ UNCHANGED <<table, created, jar>>

\* register, login, and resetPassword on the page of a mailed link
SubmitCredentials(p, k, op, u) ==
    /\ app[p].view = IF op = "reset" THEN "other" ELSE "login"
    /\ Send(k, p, [Request(p, op) EXCEPT !.user = u])
    /\ UNCHANGED <<table, created, jar, app>>

ClickLogout(p, k) ==
    /\ app[p].user # None
    /\ Send(k, p, Request(p, "logout"))
    /\ UNCHANGED <<table, created, jar, app>>

\* The buttons are those of the list shown, the entry is looked up in App.notes.
StartEditingNote(p, n) ==
    /\ n \in {e.id : e \in app[p].shown} \cap {e.id : e \in app[p].notes}
    /\ app' = [app EXCEPT ![p] = [@ EXCEPT !.editing = n, !.text = n, !.label = "save"]]
    /\ UNCHANGED <<table, created, jar, call, undisturbed>>

ClickClear(p) ==
    /\ app[p].view = "notes"
    /\ app' = [app EXCEPT ![p] = ClearNoteForm(@)]
    /\ UNCHANGED <<table, created, jar, call, undisturbed>>

\* The user goes by the button: it adds a note or saves the one being edited.
Type(p) ==
    /\ app[p].view = "notes"
    /\ app' = [app EXCEPT ![p].text = IF app[p].label = "add" THEN NewNote ELSE app[p].editing]
    /\ UNCHANGED <<table, created, jar, call, undisturbed>>

SaveRequest(p) ==
    [Request(p, IF app[p].editing = NewNote THEN "create" ELSE "update")
        EXCEPT !.note = app[p].editing, !.text = app[p].text]

SaveNote(p, k) ==
    /\ app[p].text # None
    /\ Send(k, p, SaveRequest(p))
    /\ UNCHANGED <<table, created, jar, app>>

DeleteNote(p, k, n) ==
    /\ n \in {e.id : e \in app[p].shown}
    /\ Send(k, p, [Request(p, "delete") EXCEPT !.note = n])
    /\ UNCHANGED <<table, created, jar, app>>

\* init() again: calls in flight are given up; the server may still serve those
\* that change notes.
Reload(p) ==
    /\ \E user \in {jar, None} : app' = [app EXCEPT ![p] = Started(user, app[p].hash)]
    /\ call' = [k \in Call |->
                   IF call[k].page # p THEN call[k]
                   ELSE IF call[k].at = "sent" /\ call[k].op \in {"create", "update", "delete"}
                        THEN [call[k] EXCEPT !.page = None]
                        ELSE NoCall]
    /\ undisturbed' = [undisturbed EXCEPT ![p] = FALSE]
    /\ UNCHANGED <<table, created, jar>>

-----------------------------------------------------------------------------
\* route(), on the event hashchange

Redirect(p) ==
    /\ app[p].event
    /\ \/ /\ app[p].hash = "app" /\ app[p].user = None
          /\ app' = [app EXCEPT ![p].hash = "login"]
       \/ /\ app[p].hash = "login" /\ app[p].user # None
          /\ app' = [app EXCEPT ![p].hash = "app"]
    /\ UNCHANGED <<table, created, jar, call, undisturbed>>

ShowPage(p) ==
    /\ app[p].event
    /\ \/ app[p].hash = "home"
       \/ app[p].hash = "login" /\ app[p].user = None
    /\ app' = [app EXCEPT ![p] =
                  [Leave(@, IF @.hash = "login" THEN "login" ELSE "other") EXCEPT !.event = FALSE]]
    /\ UNCHANGED <<table, created, jar, call, undisturbed>>

RenderNotesApp(p, k) ==
    /\ app[p].event /\ app[p].hash = "app" /\ app[p].user # None
    /\ app' = [app EXCEPT ![p] = [NotesView(@) EXCEPT !.event = FALSE]]
    /\ Idle(k)
    /\ call' = [call EXCEPT ![k] = Request(p, "list")]
    /\ undisturbed' = [undisturbed EXCEPT ![p] = ~Busy(p)]
    /\ UNCHANGED <<table, created, jar>>

-----------------------------------------------------------------------------
\* The server.  A call whose page is gone ends without an answer.

\* Mutant: the routes of the notes are registered without requireAuth.
GuardedLate(k) ==
    call[k].op \in {"update", "delete"} => table[call[k].note].owner = call[k].who

\* requireAuth, and WHERE id = $n AND user_id = $m
Permitted(k) ==
    /\ call[k].op \in Guarded => call[k].who # None
    /\ call[k].op \in {"update", "delete"} => table[call[k].note].owner = call[k].who

Served(k, op) == call[k].at = "sent" /\ call[k].op = op /\ Permitted(k)

Answered(k, rows) ==
    \E o \in Outcomes \ {"refused"} :
        call' = [call EXCEPT ![k] =
                    IF @.page = None THEN NoCall
                    ELSE IF o = "ok" THEN [@ EXCEPT !.at = "ok", !.text = NewNote, !.rows = rows]
                    ELSE [NoCall EXCEPT !.page = call[k].page, !.op = call[k].op, !.at = "lost"]]

\* The other pages do not see what changed.
Changed(k) == undisturbed' = [q \in Page |-> undisturbed[q] /\ q = call[k].page]

ListNotes(k) ==
    /\ Served(k, "list")
    /\ Answered(k, RowsOf(call[k].who))
    /\ UNCHANGED <<table, created, jar, app, undisturbed>>

CreateNote(k) ==
    /\ Served(k, "create")
    /\ \E n \in Note \ created :
          /\ table' = [table EXCEPT ![n] = [owner |-> call[k].who, text |-> call[k].text]]
          /\ created' = created \cup {n}
          /\ Answered(k, {[id |-> n, text |-> call[k].text]})
    /\ Changed(k)
    /\ UNCHANGED <<jar, app>>

UpdateNote(k) ==
    /\ Served(k, "update")
    /\ table' = [table EXCEPT ![call[k].note].text = call[k].text]
    /\ Answered(k, {[id |-> call[k].note, text |-> call[k].text]})
    /\ Changed(k)
    /\ UNCHANGED <<created, jar, app>>

EraseNote(k) ==
    /\ Served(k, "delete")
    /\ table' = [table EXCEPT ![call[k].note] = NoRow]
    /\ Answered(k, {})
    /\ Changed(k)
    /\ UNCHANGED <<created, jar, app>>

-----------------------------------------------------------------------------
\* The rest of a method, after its await.  A call that does not touch the table
\* is served when its answer arrives: no variable tells the difference.

Received(k) ==
    /\ call[k].page # None
    /\ \/ call[k].op \in NoteOp /\ call[k].at = "ok"
       \/ call[k].op \notin NoteOp /\ call[k].at = "sent" /\ Permitted(k)

Finish(k, a) ==
    /\ app' = [app EXCEPT ![call[k].page] = a]
    /\ call' = [call EXCEPT ![k] = NoCall]

ShowList(k) ==
    /\ call[k].op = "list"
    /\ Finish(k, RenderNotes([app[call[k].page] EXCEPT !.notes = call[k].rows]))

\* Mutant: an updated note is added next to what the list has of it.
AddedAgain(notes, row, op) == notes \cup {row}

\* this.notes.map(...) or [response.note, ...this.notes]
WithSaved(notes, row, op) ==
    IF op = "create" THEN notes \cup {row}
    ELSE {IF e.id = row.id THEN row ELSE e : e \in notes}

NoteSaved(k) ==
    /\ call[k].op \in {"create", "update"}
    /\ \E row \in call[k].rows :
          Finish(k, RenderNotes(ClearNoteForm(
                      [app[call[k].page] EXCEPT !.notes = WithSaved(@, row, call[k].op)])))

NoteDeleted(k) ==
    /\ call[k].op = "delete"
    /\ Finish(k, RenderNotes([app[call[k].page] EXCEPT
                                 !.notes = {e \in @ : e.id # call[k].note}]))

\* A cookie for another session comes with the answer.
Login(k) ==
    /\ call[k].op \in {"login", "register", "magic"}
    /\ jar' = call[k].user
    /\ Finish(k, SignedIn(app[call[k].page], call[k].user,
                          IF call[k].op = "register" THEN "home" ELSE "app"))

Logout(k) ==
    /\ call[k].op = "logout"
    /\ jar' = None
    /\ Finish(k, SignedOut(app[call[k].page]))

\* resetPassword and verifyEmail go on with checkAuth.
ThenCheckAuth(k) ==
    /\ call[k].op \in {"reset", "verify"}
    /\ jar' = IF call[k].op = "reset" THEN call[k].user ELSE jar
    /\ call' = [call EXCEPT ![k] =
                   [NoCall EXCEPT !.page = call[k].page, !.who = jar', !.at = "sent",
                                  !.op = IF call[k].op = "reset" THEN "resetMe" ELSE "verifyMe"]]
    /\ UNCHANGED app

AuthChecked(k, user) ==
    /\ call[k].op \in {"resetMe", "verifyMe"}
    /\ Finish(k, IF call[k].op = "resetMe" THEN SignedIn(app[call[k].page], user, "app")
                 ELSE [Leave(app[call[k].page], "other") EXCEPT !.user = user])

ReceiveAnswer(k) ==
    /\ Received(k)
    /\ \/ /\ ShowList(k) \/ NoteSaved(k) \/ NoteDeleted(k) \/ AuthChecked(k, call[k].who)
          /\ UNCHANGED <<jar, undisturbed>>
       \/ /\ Login(k) \/ Logout(k) \/ ThenCheckAuth(k)
          /\ undisturbed' = [p \in Page |-> FALSE]
    /\ UNCHANGED server

\* The catch clauses.  Those not named show a message and leave App as it is.
Catch(a, op) ==
    CASE op = "list" -> RenderNotes(a)
      [] op = "logout" -> SignedOut(a)
      [] op = "resetMe" -> SignedIn(a, None, "app")
      [] op = "verifyMe" -> [Leave(a, "other") EXCEPT !.user = None]
      [] op \in {"magic", "verify"} -> Leave(a, "other")
      [] OTHER -> a

\* Refused before the handler, by it or by the database, or given up: that may
\* come at any time, so it takes one step with its catch clause.
Failed(k) ==
    \/ call[k].at = "lost"
    \/ call[k].at = "sent" /\ ("refused" \in Outcomes \/ ~Permitted(k))

ReceiveError(k) ==
    /\ Failed(k)
    /\ app' = [p \in Page |-> IF p = call[k].page THEN Catch(app[p], call[k].op) ELSE app[p]]
    /\ undisturbed' = [p \in Page |-> undisturbed[p] /\ p # call[k].page]
    /\ call' = [call EXCEPT ![k] = NoCall]
    /\ UNCHANGED <<table, created, jar>>

-----------------------------------------------------------------------------
Act(p) ==
    \/ \E h \in Hash : Visit(p, h)
    \/ \E n \in Note : StartEditingNote(p, n)
    \/ ClickClear(p) \/ Type(p) \/ Reload(p) \/ Redirect(p) \/ ShowPage(p)
    \/ \E k \in Call :
          \/ \E op \in SignIns \cap {"magic", "verify"}, u \in User : FollowLink(p, k, op, u)
          \/ \E op \in SignIns \cap {"login", "register", "reset"}, u \in User : SubmitCredentials(p, k, op, u)
          \/ ClickLogout(p, k) \/ SaveNote(p, k) \/ RenderNotesApp(p, k)
          \/ \E n \in Note : DeleteNote(p, k, n)

Serve(k) == ListNotes(k) \/ CreateNote(k) \/ UpdateNote(k) \/ EraseNote(k)

Next ==
    \/ \E p \in Page : Act(p)
    \/ \E k \in Call : Serve(k) \/ ReceiveAnswer(k) \/ ReceiveError(k)

Spec == Init /\ [][Next]_vars

-----------------------------------------------------------------------------
TypeOK ==
    /\ table \in [Note -> Row \cup {NoRow}]
    /\ created \subseteq Note
    /\ jar \in User \cup {None}
    /\ app \in [Page -> AppState]
    /\ call \in [Call -> CallState]
    /\ undisturbed \in [Page -> BOOLEAN]

(***************************************************************************)
(* What is typed for one note never ends in another: answers that clear    *)
(* the form, a list loaded again, another route and another user all come  *)
(* between Edit and Save.                                                  *)
(***************************************************************************)
TextWhereTyped == \A n \in created : table[n].text \in {NewNote, n, None}

(***************************************************************************)
(* The button tells what it will do: it offers to save changes exactly if  *)
(* saveNote will update a note.                                            *)
(***************************************************************************)
LabelTellsTruth ==
    \A p \in Page : app[p].view = "notes" => (app[p].label = "save" <=> app[p].editing # NewNote)

(***************************************************************************)
(* A page whose calls came one by one since it loaded the list, all of     *)
(* them answered with success, with no other page or session between,      *)
(* shows the notes of the server.  With calls that overlap it may not: a   *)
(* list read before a deletion brings the note back.                       *)
(***************************************************************************)
ListAgrees ==
    \A p \in Page :
        app[p].view = "notes" /\ undisturbed[p] /\ ~Busy(p) => app[p].shown = RowsOf(jar)
=============================================================================
