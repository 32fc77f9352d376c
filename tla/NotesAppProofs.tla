--------------------------- MODULE NotesAppProofs ---------------------------
(***************************************************************************)
(* Proofs about NotesApp, for any pages, calls, users and notes: types,    *)
(* the label of the note form, where the text typed into it ends, and what *)
(* the list of notes shows.                                                *)
(***************************************************************************)
EXTENDS NotesApp, TLAPS

(***************************************************************************)
(* The form of a page holds nothing or what was typed for the note that    *)
(* saveNote would write, and its button says which that is.  Only the page *)
(* with the notes has buttons to edit them.                                *)
(***************************************************************************)
FormInv(a) ==
    /\ a.text # None => a.view = "notes" /\ a.text = a.editing
    /\ a.view = "notes" => (a.label = "save" <=> a.editing # NewNote)
    /\ a.view # "notes" => a.shown = {}

Good(a) == a \in AppState /\ FormInv(a)

\* A call on its way carries a text that was typed for what it writes.
SentInv(r) ==
    r.at = "sent" => /\ r.op = "create" => r.text = NewNote
                     /\ r.op = "update" => r.note \in Note /\ r.text = r.note

\* Every page, every call, every row.
AppsGood == app \in [Page -> AppState] /\ \A p \in Page : FormInv(app[p])
CallsGood == call \in [Call -> CallState] /\ \A k \in Call : SentInv(call[k])
TableGood ==
    /\ table \in [Note -> Row \cup {NoRow}]
    /\ \A n \in Note : table[n].text \in {NewNote, n, None}

IInv ==
    /\ AppsGood /\ CallsGood /\ TableGood
    /\ created \subseteq Note
    /\ jar \in User \cup {None}
    /\ undisturbed \in [Page -> BOOLEAN]

-----------------------------------------------------------------------------
\* The operators on pages keep their types and the form in order.

\* window.location.hash = h
LEMMA GoToGood ==
    ASSUME NEW a, Good(a), NEW h \in Hash
    PROVE  Good(GoTo(a, h))
BY DEF Good, GoTo, AppState, FormInv

\* Another page takes the place of the notes.
LEMMA LeaveGood ==
    ASSUME NEW a, Good(a), NEW v \in {"login", "other"}
    PROVE  Good(Leave(a, v))
BY DEF Good, Leave, AppState, FormInv

\* renderNotesApp: the inputs are empty, the button follows editingNoteId.
LEMMA NotesViewGood ==
    ASSUME NEW a, Good(a)
    PROVE  Good(NotesView(a))
BY DEF Good, NotesView, Leave, LabelFor, AppState, FormInv

\* renderNotes
LEMMA RenderNotesGood ==
    ASSUME NEW a, Good(a)
    PROVE  Good(RenderNotes(a))
BY DEF Good, RenderNotes, AppState, FormInv

\* clearNoteForm
LEMMA ClearNoteFormGood ==
    ASSUME NEW a, Good(a)
    PROVE  Good(ClearNoteForm(a))
BY DEF Good, ClearNoteForm, AppState, FormInv, Text

\* Signing in and out touches neither the form nor editingNoteId.
LEMMA SignedGood ==
    ASSUME NEW a, Good(a), NEW u \in User \cup {None}, NEW h \in Hash
    PROVE  Good(SignedIn(a, u, h)) /\ Good(SignedOut(a))
<1>1. Good([a EXCEPT !.user = u]) /\ Good([a EXCEPT !.user = None, !.notes = {}])
  BY DEF Good, AppState, FormInv
<1>2. "home" \in Hash
  BY DEF Hash
<1> QED
  BY <1>1, <1>2, GoToGood DEF SignedIn, SignedOut

\* this.notes = notes
LEMMA NotesGood ==
    ASSUME NEW a, Good(a), NEW s \in SUBSET Entry
    PROVE  Good([a EXCEPT !.notes = s])
BY DEF Good, AppState, FormInv

\* The catch clauses.
LEMMA CatchGood ==
    ASSUME NEW a, Good(a), NEW op
    PROVE  Good(Catch(a, op))
<1>1. Good(RenderNotes(a)) /\ Good(SignedOut(a)) /\ Good(SignedIn(a, None, "app"))
  BY RenderNotesGood, SignedGood DEF Hash
<1>2. Good(Leave(a, "other"))
  BY LeaveGood
<1>3. Good([Leave(a, "other") EXCEPT !.user = None])
  BY <1>2 DEF Good, AppState, FormInv
<1> QED
  BY <1>1, <1>2, <1>3 DEF Catch

-----------------------------------------------------------------------------
\* One page, one call changes: what has to be shown of it.

\* The page that changes stays in order.
LEMMA OnePage ==
    ASSUME AppsGood, NEW p \in Page, NEW a, Good(a), app' = [app EXCEPT ![p] = a]
    PROVE  AppsGood'
BY DEF AppsGood, Good

\* The call that changes keeps its type and its text.
LEMMA OneCall ==
    ASSUME CallsGood, NEW k \in Call, NEW r \in CallState, SentInv(r),
           call' = [call EXCEPT ![k] = r]
    PROVE  CallsGood'
BY DEF CallsGood

\* A request starts with empty fields and the cookie.
LEMMA RequestType ==
    ASSUME jar \in User \cup {None}, NEW p \in Page, NEW op \in Op
    PROVE  /\ Request(p, op) \in CallState
           /\ Request(p, op).op = op
BY DEF Request, NoCall, CallState, Text

\* An idle call is in order.
LEMMA NoCallGood == NoCall \in CallState /\ SentInv(NoCall)
BY DEF NoCall, CallState, SentInv, Text, Op, Guarded, NoteOp

\* Sending a request that is in order.
LEMMA SendGood ==
    ASSUME CallsGood, undisturbed \in [Page -> BOOLEAN], NEW k \in Call, NEW p \in Page,
           NEW r \in CallState, SentInv(r), Send(k, p, r)
    PROVE  CallsGood' /\ undisturbed' \in [Page -> BOOLEAN]
<1>1. CallsGood'
  BY OneCall DEF Send
<1>2. undisturbed' \in [Page -> BOOLEAN]
  BY DEF Send
<1> QED
  BY <1>1, <1>2

\* A list has the notes of its user.
LEMMA RowsOfType ==
    ASSUME TableGood, NEW u \in User
    PROVE  RowsOf(u) \in SUBSET Entry
<1>1. \A m \in Note : table[m].owner = u => table[m] \in Row
  BY NoneAssumption DEF TableGood, NoRow
<1> QED
  BY <1>1 DEF RowsOf, Entry, Row

-----------------------------------------------------------------------------
\* The invariant holds initially and every step keeps it.

\* Nothing exists, every page shows the home page.
LEMMA InitIInv == Init => IInv
<1> SUFFICES ASSUME Init PROVE IInv
  OBVIOUS
<1>1. Started(None, "home") \in AppState /\ FormInv(Started(None, "home"))
  BY DEF Started, AppState, FormInv, Text, Hash
<1>2. AppsGood
  BY <1>1 DEF Init, AppsGood
<1>3. CallsGood
  BY NoCallGood DEF Init, CallsGood
<1>4. TableGood
  BY DEF Init, TableGood, NoRow
<1> QED
  BY <1>2, <1>3, <1>4 DEF Init, IInv

\* What the user does to the page alone keeps the invariant.
LEMMA FormStep ==
    ASSUME IInv, NEW p \in Page,
           \/ \E h \in Hash : Visit(p, h)
           \/ ClickClear(p) \/ Type(p)
           \/ \E n \in Note : StartEditingNote(p, n)
    PROVE  IInv'
<1> USE DEF IInv
<1>0. Good(app[p]) /\ app[p] \in AppState
  BY DEF Good, AppsGood
<1>1. ASSUME NEW h \in Hash, Visit(p, h) PROVE IInv'
  <2>1. AppsGood'
    BY <1>0, <1>1, GoToGood, OnePage DEF Visit
  <2> QED
    BY <1>1, <2>1 DEF Visit, CallsGood, TableGood
<1>2. CASE ClickClear(p)
  <2>1. AppsGood'
    BY <1>0, <1>2, ClearNoteFormGood, OnePage DEF ClickClear
  <2> QED
    BY <1>2, <2>1 DEF ClickClear, CallsGood, TableGood
<1>3. CASE Type(p)
  <2> DEFINE a == [app[p] EXCEPT !.text = IF app[p].label = "add" THEN NewNote ELSE app[p].editing]
  <2>1. Good(a)
    BY <1>0, <1>3 DEF Type, Good, AppState, FormInv, Text
  <2>2. app' = [app EXCEPT ![p] = a]
    BY <1>3 DEF Type
  <2>3. AppsGood'
    BY <2>1, <2>2, OnePage
  <2> QED
    BY <1>3, <2>3 DEF Type, CallsGood, TableGood
<1>4. ASSUME NEW n \in Note, StartEditingNote(p, n) PROVE IInv'
  <2> DEFINE a == [app[p] EXCEPT !.editing = n, !.text = n, !.label = "save"]
  <2>1. app[p].view = "notes"
    BY <1>0, <1>4 DEF StartEditingNote, Good, FormInv
  <2>2. Good(a)
    BY <1>0, <2>1, NewNoteAssumption DEF Good, AppState, FormInv, Text
  <2>3. AppsGood'
    BY <1>4, <2>2, OnePage DEF StartEditingNote
  <2> QED
    BY <1>4, <2>3 DEF StartEditingNote, CallsGood, TableGood
<1> QED
  BY <1>1, <1>2, <1>3, <1>4

\* The user's calls keep the invariant.
LEMMA SubmitStep ==
    ASSUME IInv, NEW p \in Page, NEW k \in Call,
           \/ \E op \in {"magic", "verify"}, u \in User : FollowLink(p, k, op, u)
           \/ \E op \in {"login", "register", "reset"}, u \in User : SubmitCredentials(p, k, op, u)
           \/ ClickLogout(p, k) \/ SaveNote(p, k)
           \/ \E n \in Note : DeleteNote(p, k, n)
    PROVE  IInv'
<1> USE DEF IInv
<1>0. Good(app[p]) /\ app[p] \in AppState
  BY DEF Good, AppsGood
<1>1. ASSUME NEW op \in {"magic", "verify"}, NEW u \in User, FollowLink(p, k, op, u) PROVE IInv'
  <2>1. Good([app[p] EXCEPT !.hash = "home"])
    BY <1>0 DEF Good, AppState, FormInv, Hash
  <2>2. AppsGood'
    BY <1>1, <2>1, LeaveGood, OnePage DEF FollowLink
  <2>3. Request(p, op) \in CallState /\ Request(p, op).op = op
    BY RequestType DEF Op
  <2>4. [Request(p, op) EXCEPT !.user = u] \in CallState /\ SentInv([Request(p, op) EXCEPT !.user = u])
    BY <2>3 DEF CallState, SentInv
  <2>5. CallsGood' /\ undisturbed' \in [Page -> BOOLEAN]
    BY <1>1, <2>4, SendGood DEF FollowLink
  <2> QED
    BY <1>1, <2>2, <2>5 DEF FollowLink, TableGood
<1>2. ASSUME NEW op \in {"login", "register", "reset"}, NEW u \in User, SubmitCredentials(p, k, op, u)
      PROVE IInv'
  <2>3. Request(p, op) \in CallState /\ Request(p, op).op = op
    BY RequestType DEF Op
  <2>4. [Request(p, op) EXCEPT !.user = u] \in CallState /\ SentInv([Request(p, op) EXCEPT !.user = u])
    BY <2>3 DEF CallState, SentInv
  <2>5. CallsGood' /\ undisturbed' \in [Page -> BOOLEAN]
    BY <1>2, <2>4, SendGood DEF SubmitCredentials
  <2> QED
    BY <1>2, <2>5 DEF SubmitCredentials, TableGood, AppsGood
<1>3. CASE ClickLogout(p, k)
  <2>1. Request(p, "logout") \in CallState /\ SentInv(Request(p, "logout"))
    <3>1. "logout" \in Op
      BY DEF Op, Guarded
    <3> QED
      BY <3>1, RequestType DEF SentInv
  <2>2. CallsGood' /\ undisturbed' \in [Page -> BOOLEAN]
    BY <1>3, <2>1, SendGood DEF ClickLogout
  <2> QED
    BY <1>3, <2>2 DEF ClickLogout, TableGood, AppsGood
<1>4. CASE SaveNote(p, k)
  <2>1. app[p].text = app[p].editing /\ app[p].editing \in Text
    BY <1>0, <1>4 DEF SaveNote, Good, FormInv, AppState
  <2>2. SaveRequest(p) \in CallState /\ SentInv(SaveRequest(p))
    <3>1. CASE app[p].editing = NewNote
      <4>1. Request(p, "create") \in CallState /\ Request(p, "create").op = "create"
        BY RequestType DEF Op, Guarded, NoteOp
      <4> QED
        BY <2>1, <3>1, <4>1 DEF SaveRequest, CallState, SentInv
    <3>2. CASE app[p].editing # NewNote
      <4>1. Request(p, "update") \in CallState /\ Request(p, "update").op = "update"
        BY RequestType DEF Op, Guarded, NoteOp
      <4> QED
        BY <2>1, <3>2, <4>1 DEF SaveRequest, CallState, SentInv, Text
    <3> QED
      BY <3>1, <3>2
  <2>3. CallsGood' /\ undisturbed' \in [Page -> BOOLEAN]
    BY <1>4, <2>2, SendGood DEF SaveNote
  <2> QED
    BY <1>4, <2>3 DEF SaveNote, TableGood, AppsGood
<1>5. ASSUME NEW n \in Note, DeleteNote(p, k, n) PROVE IInv'
  <2>1. Request(p, "delete") \in CallState /\ Request(p, "delete").op = "delete"
    BY RequestType DEF Op, Guarded, NoteOp
  <2>2. [Request(p, "delete") EXCEPT !.note = n] \in CallState
        /\ SentInv([Request(p, "delete") EXCEPT !.note = n])
    BY <2>1 DEF CallState, SentInv, Text
  <2>3. CallsGood' /\ undisturbed' \in [Page -> BOOLEAN]
    BY <1>5, <2>2, SendGood DEF DeleteNote
  <2>4. AppsGood' /\ TableGood' /\ UNCHANGED <<created, jar>>
    BY <1>5 DEF DeleteNote, TableGood, AppsGood
  <2> QED
    BY <2>3, <2>4
<1> QED
  BY <1>1, <1>2, <1>3, <1>4, <1>5

\* Loading the page again: calls it waited for are idle or without a page.
LEMMA ReloadStep ==
    ASSUME IInv, NEW p \in Page, Reload(p)
    PROVE  IInv'
<1> USE DEF IInv
<1>1. PICK user \in {jar, None} : app' = [app EXCEPT ![p] = Started(user, app[p].hash)]
  BY DEF Reload
<1>2. app[p].hash \in Hash
  BY DEF AppsGood, AppState
<1>3. Good(Started(user, app[p].hash))
  BY <1>2 DEF Good, Started, AppState, FormInv, Text
<1>4. AppsGood'
  BY <1>1, <1>3, OnePage
<1>5. CallsGood'
  <2> SUFFICES ASSUME NEW k \in Call PROVE call'[k] \in CallState /\ SentInv(call'[k])
    BY DEF Reload, CallsGood
  <2>1. call[k] \in CallState /\ SentInv(call[k])
    BY DEF CallsGood
  <2>2. [call[k] EXCEPT !.page = None] \in CallState /\ SentInv([call[k] EXCEPT !.page = None])
    BY <2>1 DEF CallState, SentInv
  <2> QED
    BY <2>1, <2>2, NoCallGood DEF Reload
<1> QED
  BY <1>4, <1>5 DEF Reload, TableGood

\* route() keeps the invariant when it calls nobody.
LEMMA RouteStep ==
    ASSUME IInv, NEW p \in Page, Redirect(p) \/ ShowPage(p)
    PROVE  IInv'
<1> USE DEF IInv
<1>0. Good(app[p])
  BY DEF Good, AppsGood
<1>1. CASE Redirect(p)
  <2>1. Good([app[p] EXCEPT !.hash = "login"]) /\ Good([app[p] EXCEPT !.hash = "app"])
    BY <1>0 DEF Good, AppState, FormInv, Hash
  <2>2. \/ app' = [app EXCEPT ![p] = [app[p] EXCEPT !.hash = "login"]]
        \/ app' = [app EXCEPT ![p] = [app[p] EXCEPT !.hash = "app"]]
    BY <1>1 DEF Redirect
  <2>3. AppsGood'
    BY <2>1, <2>2, OnePage
  <2> QED
    BY <1>1, <2>3 DEF Redirect, CallsGood, TableGood
<1>2. CASE ShowPage(p)
  <2> DEFINE v == IF app[p].hash = "login" THEN "login" ELSE "other"
  <2>1. Good(Leave(app[p], v))
    BY <1>0, LeaveGood
  <2>2. Good([Leave(app[p], v) EXCEPT !.event = FALSE])
    BY <2>1 DEF Good, AppState, FormInv
  <2>3. AppsGood'
    BY <1>2, <2>2, OnePage DEF ShowPage
  <2> QED
    BY <1>2, <2>3 DEF ShowPage, CallsGood, TableGood
<1> QED
  BY <1>1, <1>2

\* renderNotesApp keeps the invariant and asks for the list.
LEMMA RenderStep ==
    ASSUME IInv, NEW p \in Page, NEW k \in Call, RenderNotesApp(p, k)
    PROVE  IInv'
<1> USE DEF IInv
<1>0. Good(app[p])
  BY DEF Good, AppsGood
<1>1. Good(NotesView(app[p]))
  BY <1>0, NotesViewGood
<1>2. Good([NotesView(app[p]) EXCEPT !.event = FALSE])
  BY <1>1 DEF Good, AppState, FormInv
<1>3. AppsGood'
  BY <1>2, OnePage DEF RenderNotesApp
<1>4. Request(p, "list") \in CallState /\ SentInv(Request(p, "list"))
  <2>1. "list" \in Op
    BY DEF Op, Guarded, NoteOp
  <2> QED
    BY <2>1, RequestType DEF SentInv
<1>5. CallsGood'
  BY <1>4, OneCall DEF RenderNotesApp
<1>6. undisturbed' \in [Page -> BOOLEAN]
  BY DEF RenderNotesApp
<1> QED
  BY <1>3, <1>5, <1>6 DEF RenderNotesApp, TableGood

\* An answer of the server is in order.
LEMMA AnsweredGood ==
    ASSUME CallsGood, NEW k \in Call, NEW rows \in SUBSET Entry, Answered(k, rows)
    PROVE  CallsGood'
<1>1. call[k] \in CallState
  BY DEF CallsGood
<1> DEFINE r == [call[k] EXCEPT !.at = "ok", !.text = NewNote, !.rows = rows]
           s == [NoCall EXCEPT !.page = call[k].page, !.op = call[k].op, !.at = "lost"]
<1>2. r \in CallState /\ SentInv(r)
  BY <1>1 DEF CallState, SentInv, Text
<1>3. s \in CallState /\ SentInv(s)
  BY <1>1, NoCallGood DEF CallState, SentInv
<1>4. \/ call' = [call EXCEPT ![k] = NoCall]
      \/ call' = [call EXCEPT ![k] = r]
      \/ call' = [call EXCEPT ![k] = s]
  BY DEF Answered
<1> QED
  BY <1>2, <1>3, <1>4, NoCallGood, OneCall

\* The handlers of the notes keep the invariant.
LEMMA ServeStep ==
    ASSUME IInv, NEW k \in Call, Serve(k)
    PROVE  IInv'
<1> USE DEF IInv
<1>0. call[k] \in CallState /\ SentInv(call[k])
  BY DEF CallsGood
<1>1. CASE ListNotes(k)
  <2>1. call[k].who \in User
    BY <1>0, <1>1 DEF ListNotes, Served, Permitted, Guarded, NoteOp, CallState
  <2>2. CallsGood'
    BY <1>1, <2>1, RowsOfType, AnsweredGood DEF ListNotes
  <2> QED
    BY <1>1, <2>2 DEF ListNotes, AppsGood, TableGood
<1>2. CASE CreateNote(k)
  <2>1. call[k].who \in User /\ call[k].text = NewNote
    BY <1>0, <1>2 DEF CreateNote, Served, Permitted, Guarded, NoteOp, CallState, SentInv
  <2>2. PICK n \in Note \ created :
           /\ table' = [table EXCEPT ![n] = [owner |-> call[k].who, text |-> call[k].text]]
           /\ created' = created \cup {n}
           /\ Answered(k, {[id |-> n, text |-> call[k].text]})
    BY <1>2 DEF CreateNote
  <2>3. CallsGood'
    <3>1. {[id |-> n, text |-> call[k].text]} \in SUBSET Entry
      BY <2>1 DEF Entry, Text
    <3> QED
      BY <2>2, <3>1, AnsweredGood
  <2>4. TableGood'
    BY <2>1, <2>2 DEF TableGood, Row, Text
  <2>5. undisturbed' \in [Page -> BOOLEAN]
    BY <1>2 DEF CreateNote, Changed
  <2> QED
    BY <1>2, <2>2, <2>3, <2>4, <2>5 DEF CreateNote, AppsGood
<1>3. CASE UpdateNote(k)
  <2>1. call[k].who \in User /\ call[k].text = call[k].note /\ call[k].note \in Text
    BY <1>0, <1>3 DEF UpdateNote, Served, Permitted, Guarded, NoteOp, CallState, SentInv
  <2>2. table[call[k].note].owner = call[k].who
    BY <1>3 DEF UpdateNote, Served, Permitted
  <2>3. call[k].note \in Note => table[call[k].note] \in Row
    BY <2>1, <2>2, NoneAssumption DEF TableGood, NoRow
  <2>4. TableGood'
    <3> SUFFICES ASSUME NEW n \in Note
                 PROVE  table'[n] \in Row \cup {NoRow} /\ table'[n].text \in {NewNote, n, None}
      BY <1>3 DEF UpdateNote, TableGood
    <3>1. CASE n = call[k].note
      BY <1>3, <2>1, <2>3, <3>1 DEF UpdateNote, TableGood, Row
    <3>2. CASE n # call[k].note
      BY <1>3, <3>2 DEF UpdateNote, TableGood
    <3> QED
      BY <3>1, <3>2
  <2>5. CallsGood'
    <3>2. call[k].note \in Note
      BY <1>0, <1>3 DEF UpdateNote, Served, SentInv
    <3>3. {[id |-> call[k].note, text |-> call[k].text]} \in SUBSET Entry
      BY <2>1, <3>2 DEF Entry
    <3> QED
      BY <1>3, <3>3, AnsweredGood DEF UpdateNote
  <2>6. undisturbed' \in [Page -> BOOLEAN]
    BY <1>3 DEF UpdateNote, Changed
  <2> QED
    BY <1>3, <2>4, <2>5, <2>6 DEF UpdateNote, AppsGood
<1>4. CASE EraseNote(k)
  <2>1. CallsGood'
    BY <1>4, AnsweredGood DEF EraseNote
  <2>2. TableGood'
    BY <1>4 DEF EraseNote, TableGood, NoRow
  <2>3. undisturbed' \in [Page -> BOOLEAN]
    BY <1>4 DEF EraseNote, Changed
  <2> QED
    BY <1>4, <2>1, <2>2, <2>3 DEF EraseNote, AppsGood
<1> QED
  BY <1>1, <1>2, <1>3, <1>4 DEF Serve

\* The rest of a method after a successful call keeps the invariant.
LEMMA AnswerStep ==
    ASSUME IInv, NEW k \in Call, ReceiveAnswer(k)
    PROVE  IInv'
<1> USE DEF IInv
<1> DEFINE p == call[k].page
<1>0. call[k] \in CallState /\ p \in Page
  BY DEF CallsGood, CallState, ReceiveAnswer, Received
<1>1. Good(app[p])
  BY <1>0 DEF Good, AppsGood
<1>2. ASSUME NEW a, Good(a), Finish(k, a) PROVE AppsGood' /\ CallsGood'
  BY <1>0, <1>2, OnePage, OneCall, NoCallGood DEF Finish
<1>3. table' = table /\ created' = created /\ TableGood'
  BY DEF ReceiveAnswer, server, TableGood
<1>4. CASE (ShowList(k) \/ NoteSaved(k) \/ NoteDeleted(k) \/ AuthChecked(k, call[k].who))
           /\ UNCHANGED <<jar, undisturbed>>
  <2>1. CASE ShowList(k)
    <3>1. Good(RenderNotes([app[p] EXCEPT !.notes = call[k].rows]))
      BY <1>0, <1>1, NotesGood, RenderNotesGood DEF CallState
    <3> QED
      BY <1>2, <1>3, <1>4, <2>1, <3>1 DEF ShowList
  <2>2. CASE NoteSaved(k)
    <3> DEFINE saved(row) == WithSaved(app[p].notes, row, call[k].op)
    <3>1. PICK row \in call[k].rows :
             Finish(k, RenderNotes(ClearNoteForm([app[p] EXCEPT !.notes = saved(row)])))
      BY <2>2 DEF NoteSaved
    <3>2. row \in Entry /\ app[p].notes \in SUBSET Entry
      BY <1>0, <1>1 DEF CallState, Good, AppState
    <3>3. saved(row) \in SUBSET Entry
      BY <3>2 DEF WithSaved
    <3>4. Good([app[p] EXCEPT !.notes = saved(row)])
      BY <1>1, <3>3, NotesGood
    <3>5. Good(RenderNotes(ClearNoteForm([app[p] EXCEPT !.notes = saved(row)])))
      BY <3>4, ClearNoteFormGood, RenderNotesGood
    <3> QED
      BY <1>2, <1>3, <1>4, <3>1, <3>5
  <2>3. CASE NoteDeleted(k)
    <3> DEFINE left == {e \in app[p].notes : e.id # call[k].note}
    <3>1. left \in SUBSET Entry
      BY <1>1 DEF Good, AppState
    <3>2. Good(RenderNotes([app[p] EXCEPT !.notes = left]))
      BY <1>1, <3>1, NotesGood, RenderNotesGood
    <3>3. Finish(k, RenderNotes([app[p] EXCEPT !.notes = left]))
      BY <2>3 DEF NoteDeleted
    <3> QED
      BY <1>2, <1>3, <1>4, <3>2, <3>3
  <2>4. CASE AuthChecked(k, call[k].who)
    <3>1. call[k].who \in User \cup {None} /\ "app" \in Hash
      BY <1>0 DEF CallState, Hash
    <3>2. Good(SignedIn(app[p], call[k].who, "app"))
      BY <1>1, <3>1, SignedGood
    <3>3. Good([Leave(app[p], "other") EXCEPT !.user = call[k].who])
      <4>1. Good(Leave(app[p], "other"))
        BY <1>1, LeaveGood
      <4> QED
        BY <3>1, <4>1 DEF Good, AppState, FormInv
    <3> QED
      BY <1>2, <1>3, <1>4, <2>4, <3>2, <3>3 DEF AuthChecked
  <2> QED
    BY <1>4, <2>1, <2>2, <2>3, <2>4
<1>5. CASE (Login(k) \/ Logout(k) \/ ThenCheckAuth(k)) /\ undisturbed' = [q \in Page |-> FALSE]
  <2>0. call[k].user \in User \cup {None} /\ undisturbed' \in [Page -> BOOLEAN]
    BY <1>0, <1>5 DEF CallState
  <2>1. CASE Login(k)
    <3> DEFINE h == IF call[k].op = "register" THEN "home" ELSE "app"
    <3>1. Good(SignedIn(app[p], call[k].user, h))
      BY <1>1, <2>0, SignedGood DEF Hash
    <3> QED
      BY <1>2, <1>3, <2>0, <2>1, <3>1 DEF Login
  <2>2. CASE Logout(k)
    <3>1. Good(SignedOut(app[p]))
      BY <1>1, SignedGood DEF Hash
    <3> QED
      BY <1>2, <1>3, <2>0, <2>2, <3>1 DEF Logout
  <2>3. CASE ThenCheckAuth(k)
    <3> DEFINE op == IF call[k].op = "reset" THEN "resetMe" ELSE "verifyMe"
               r == [NoCall EXCEPT !.page = p, !.who = jar', !.at = "sent", !.op = op]
    <3>1. jar' \in User \cup {None}
      BY <2>0, <2>3 DEF ThenCheckAuth
    <3>2. op \in Op /\ op # "create" /\ op # "update"
      BY DEF Op, Guarded
    <3>3. r \in CallState /\ r.op = op
      <4> HIDE DEF op
      <4> QED
        BY <1>0, <3>1, <3>2, NoCallGood DEF CallState, NoCall
    <3>4. SentInv(r)
      BY <3>2, <3>3 DEF SentInv
    <3>5. call' = [call EXCEPT ![k] = r] /\ app' = app
      BY <2>3 DEF ThenCheckAuth
    <3>6. CallsGood' /\ AppsGood'
      <4> HIDE DEF r
      <4> QED
        BY <3>3, <3>4, <3>5, OneCall DEF AppsGood
    <3> QED
      BY <1>3, <2>0, <3>1, <3>6
  <2> QED
    BY <1>5, <2>1, <2>2, <2>3
<1> QED
  BY <1>4, <1>5 DEF ReceiveAnswer

\* A catch clause keeps the invariant; the page may be gone.
LEMMA ErrorStep ==
    ASSUME IInv, NEW k \in Call, ReceiveError(k)
    PROVE  IInv'
<1> USE DEF IInv
<1>1. AppsGood'
  <2> SUFFICES ASSUME NEW p \in Page PROVE Good(app'[p])
    BY DEF ReceiveError, AppsGood, Good
  <2>1. Good(app[p])
    BY DEF Good, AppsGood
  <2>2. Good(Catch(app[p], call[k].op))
    BY <2>1, CatchGood
  <2> QED
    BY <2>1, <2>2 DEF ReceiveError
<1>2. CallsGood'
  BY NoCallGood, OneCall DEF ReceiveError
<1>3. undisturbed' \in [Page -> BOOLEAN]
  BY DEF ReceiveError
<1> QED
  BY <1>1, <1>2, <1>3 DEF ReceiveError, TableGood

\* Every step keeps the invariant.
LEMMA NextIInv == IInv /\ [Next]_vars => IInv'
<1> SUFFICES ASSUME IInv, [Next]_vars PROVE IInv'
  OBVIOUS
<1>1. CASE UNCHANGED vars
  BY <1>1 DEF vars, IInv, AppsGood, CallsGood, TableGood
<1>2. ASSUME NEW p \in Page, Act(p) PROVE IInv'
  BY <1>2, FormStep, SubmitStep, ReloadStep, RouteStep, RenderStep DEF Act
<1>3. ASSUME NEW k \in Call, Serve(k) \/ ReceiveAnswer(k) \/ ReceiveError(k) PROVE IInv'
  BY <1>3, ServeStep, AnswerStep, ErrorStep
<1> QED
  BY <1>1, <1>2, <1>3 DEF Next

\* The invariant holds in every reachable state.
LEMMA IInvHolds == Spec => []IInv
BY InitIInv, NextIInv, PTL DEF Spec

-----------------------------------------------------------------------------
(***************************************************************************)
(* Every variable of the pages, the calls and the table keeps its type.    *)
(***************************************************************************)
THEOREM NotesTypeCorrect == Spec => []TypeOK
<1>1. IInv => TypeOK
  BY DEF IInv, AppsGood, CallsGood, TableGood, TypeOK
<1> QED
  BY <1>1, IInvHolds, PTL

(***************************************************************************)
(* However the answers of saveNote, loadNotes and checkAuth, the routes    *)
(* and the clicks follow on each other, a text typed for one note is never *)
(* written to another, for any number of pages, calls, users and notes.    *)
(***************************************************************************)
THEOREM TextTheorem == Spec => []TextWhereTyped
<1>1. IInv => TextWhereTyped
  BY DEF IInv, TableGood, TextWhereTyped
<1> QED
  BY <1>1, IInvHolds, PTL

(***************************************************************************)
(* The button of the note form offers to save changes exactly if saveNote  *)
(* will update a note.                                                     *)
(***************************************************************************)
THEOREM LabelTheorem == Spec => []LabelTellsTruth
<1>1. IInv => LabelTellsTruth
  BY DEF IInv, AppsGood, FormInv, LabelTellsTruth
<1> QED
  BY <1>1, IInvHolds, PTL

-----------------------------------------------------------------------------
\* What a page shows of the notes on the server, see ListAgrees

\* Call k is one that page p waits for.
Waits(k, p) == ~Idle(k) /\ call[k].page = p

\* The list page p would show after the answer to call r.
After(notes, r) ==
    IF r.op = "list" THEN {r.rows}
    ELSE IF r.op = "delete" THEN {{e \in notes : e.id # r.note}}
    ELSE {WithSaved(notes, row, r.op) : row \in r.rows}

\* The page lists what App.notes has.
Lists(a) == a.view = "notes" => a.shown = a.notes

(***************************************************************************)
(* The one call an undisturbed page may wait for is of the session the     *)
(* cookie names.  Before it is served, App.notes are the rows of the table *)
(* unless it asks for them; afterwards they are what the rest of the       *)
(* method will make of App.notes.                                          *)
(***************************************************************************)
CallAgrees(p, r) ==
    /\ r.op \notin {"resetMe", "verifyMe"}
    /\ r.at # "lost" => r.who = jar
    /\ r.op # "list" => Lists(app[p])
    /\ r.at = "sent" /\ r.op # "list" => app[p].notes = RowsOf(jar)
    /\ r.at = "ok" => \A notes \in After(app[p].notes, r) : notes = RowsOf(jar)

PageAgrees(p) ==
    undisturbed[p] =>
        /\ \A k, l \in Call : Waits(k, p) /\ Waits(l, p) => k = l
        /\ \A k \in Call : Waits(k, p) => CallAgrees(p, call[k])
        /\ (\A k \in Call : ~Waits(k, p)) => Lists(app[p]) /\ app[p].notes = RowsOf(jar)

\* The identifier of a row is one in use, so that a new note gets another.
IdsInUse == \A n \in Note : table[n].owner # None => n \in created

ListInv == IInv /\ IdsInUse /\ \A p \in Page : PageAgrees(p)

\* A request is sent under the cookie.
LEMMA RequestIs ==
    ASSUME NEW p, NEW op
    PROVE  /\ Request(p, op).page = p /\ Request(p, op).op = op
           /\ Request(p, op).who = jar /\ Request(p, op).at = "sent"
BY DEF Request, NoCall

\* Nobody waits for an idle call.
LEMMA NoCallIdle == NoCall.at = "idle"
BY DEF NoCall

\* Two states of a page with the same notes, the same list or none.
SameNotes(a, b) ==
    /\ b.notes = a.notes
    /\ b.view = "notes" => a.view = "notes" /\ b.shown = a.shown

\* A step that touches neither the table, nor the cookie, nor the notes of page
\* q, nor the calls it waits for.
LEMMA FrameAgrees ==
    ASSUME NEW q \in Page, PageAgrees(q), undisturbed'[q] => undisturbed[q],
           jar' = jar, table' = table, SameNotes(app[q], app'[q]),
           \A k \in Call : call'[k] = call[k] \/ (~Waits(k, q) /\ ~Waits(k, q)')
    PROVE  PageAgrees(q)'
<1> SUFFICES ASSUME undisturbed'[q]
             PROVE  /\ \A k, l \in Call : Waits(k, q)' /\ Waits(l, q)' => k = l
                    /\ \A k \in Call : Waits(k, q)' => CallAgrees(q, call[k])'
                    /\ (\A k \in Call : ~Waits(k, q)') => (Lists(app[q]) /\ app[q].notes = RowsOf(jar))'
  BY DEF PageAgrees
<1>1. \A k \in Call : Waits(k, q)' <=> Waits(k, q)
  BY DEF Waits, Idle
<1>2. \A k \in Call : Waits(k, q) => call'[k] = call[k]
  OBVIOUS
<1>3. RowsOf(jar)' = RowsOf(jar)
  BY DEF RowsOf
<1>4. app'[q].notes = app[q].notes /\ (Lists(app[q]) => Lists(app'[q]))
  BY DEF SameNotes, Lists
<1>5. /\ \A k, l \in Call : Waits(k, q) /\ Waits(l, q) => k = l
      /\ \A k \in Call : Waits(k, q) => CallAgrees(q, call[k])
      /\ (\A k \in Call : ~Waits(k, q)) => Lists(app[q]) /\ app[q].notes = RowsOf(jar)
  BY DEF PageAgrees
<1>6. ASSUME NEW k \in Call, Waits(k, q)' PROVE CallAgrees(q, call[k])'
  BY <1>1, <1>2, <1>3, <1>4, <1>5, <1>6 DEF CallAgrees, After
<1> QED BY <1>1, <1>3, <1>4, <1>5, <1>6

\* Busy is that some call is waited for.
LEMMA BusyWaits == \A p \in Page : Busy(p) <=> \E k \in Call : Waits(k, p)
BY DEF Busy, Waits

\* The calls a page sends: the first one of an undisturbed page finds its notes
\* as they are, and any other disturbs it.
LEMMA SendAgrees ==
    ASSUME ListInv, NEW p \in Page, NEW k \in Call, NEW r, Send(k, p, r),
           r.page = p /\ r.who = jar /\ r.at = "sent" /\ r.op \notin {"resetMe", "verifyMe"},
           jar' = jar, table' = table, \A q \in Page : SameNotes(app[q], app'[q])
    PROVE  \A q \in Page : PageAgrees(q)'
<1> USE DEF ListInv
<1>1. /\ call \in [Call -> CallState] /\ undisturbed \in [Page -> BOOLEAN]
      /\ Idle(k) /\ call' = [call EXCEPT ![k] = r]
      /\ undisturbed' = [undisturbed EXCEPT ![p] = @ /\ ~Busy(p)]
  BY DEF IInv, CallsGood, Send
<1>2. call'[k] = r /\ \A l \in Call \ {k} : call'[l] = call[l]
  BY <1>1
<1>3. ASSUME NEW q \in Page, q # p PROVE PageAgrees(q)'
  <2>1. undisturbed'[q] => undisturbed[q]
    BY <1>1, <1>3
  <2>2. \A l \in Call : call'[l] = call[l] \/ (~Waits(l, q) /\ ~Waits(l, q)')
    BY <1>1, <1>2, <1>3 DEF Waits
  <2> QED BY <2>1, <2>2, FrameAgrees
<1>4. PageAgrees(p)'
  <2> SUFFICES ASSUME undisturbed'[p]
               PROVE  /\ \A l, m \in Call : Waits(l, p)' /\ Waits(m, p)' => l = m
                      /\ \A l \in Call : Waits(l, p)' => CallAgrees(p, call[l])'
                      /\ (\A l \in Call : ~Waits(l, p)') =>
                             (Lists(app[p]) /\ app[p].notes = RowsOf(jar))'
    BY DEF PageAgrees
  <2>1. undisturbed[p] /\ \A l \in Call : ~Waits(l, p)
    BY <1>1, BusyWaits
  <2>2. Lists(app[p]) /\ app[p].notes = RowsOf(jar)
    BY <2>1 DEF PageAgrees
  <2>3. RowsOf(jar)' = RowsOf(jar)
    BY DEF RowsOf
  <2>4. Lists(app'[p]) /\ app'[p].notes = RowsOf(jar)
    BY <2>2 DEF SameNotes, Lists
  <2>5. \A l \in Call : Waits(l, p)' <=> l = k
    BY <1>2, <2>1 DEF Waits, Idle
  <2>6. CallAgrees(p, call[k])'
    BY <1>2, <2>3, <2>4 DEF CallAgrees
  <2> QED BY <2>5, <2>6
<1> QED BY <1>3, <1>4

\* What the user does to the form and the address leaves the notes alone.
LEMMA FormAgrees ==
    ASSUME ListInv, NEW p \in Page,
           \/ \E h \in Hash : Visit(p, h)
           \/ ClickClear(p) \/ Type(p) \/ Redirect(p) \/ ShowPage(p)
           \/ \E n \in Note : StartEditingNote(p, n)
    PROVE  IdsInUse' /\ \A q \in Page : PageAgrees(q)'
<1> USE DEF ListInv
<1>1. app \in [Page -> AppState]
  BY DEF IInv, AppsGood
<1>2. /\ table' = table /\ created' = created /\ jar' = jar /\ call' = call
      /\ undisturbed' = undisturbed
  BY DEF Visit, ClickClear, Type, Redirect, ShowPage, StartEditingNote
<1>3. \A q \in Page : SameNotes(app[q], app'[q])
  <2>1. ASSUME NEW h \in Hash, Visit(p, h) PROVE \A q \in Page : SameNotes(app[q], app'[q])
    BY <1>1, <2>1 DEF Visit, GoTo, SameNotes, AppState
  <2>2. CASE ClickClear(p)
    BY <1>1, <2>2 DEF ClickClear, ClearNoteForm, SameNotes, AppState
  <2>3. CASE Type(p)
    BY <1>1, <2>3 DEF Type, SameNotes, AppState
  <2>4. CASE Redirect(p)
    BY <1>1, <2>4 DEF Redirect, SameNotes, AppState
  <2>5. CASE ShowPage(p)
    BY <1>1, <2>5 DEF ShowPage, Leave, SameNotes, AppState
  <2>6. ASSUME NEW n \in Note, StartEditingNote(p, n)
        PROVE  \A q \in Page : SameNotes(app[q], app'[q])
    <3> DEFINE a == [app[p] EXCEPT !.editing = n, !.text = n, !.label = "save"]
    <3>1. app' = [app EXCEPT ![p] = a]
      BY <2>6 DEF StartEditingNote
    <3>2. SameNotes(app[p], a)
      BY <1>1 DEF SameNotes, AppState
    <3> HIDE DEF a
    <3> QED BY <1>1, <3>1, <3>2 DEF SameNotes
  <2> QED BY <2>1, <2>2, <2>3, <2>4, <2>5, <2>6
<1>4. \A q \in Page : PageAgrees(q)'
  BY <1>2, <1>3, FrameAgrees
<1> QED BY <1>2, <1>4 DEF IdsInUse

\* The calls of forms and buttons.
LEMMA SubmitAgrees ==
    ASSUME ListInv, NEW p \in Page, NEW k \in Call,
           \/ \E op \in {"magic", "verify"}, u \in User : FollowLink(p, k, op, u)
           \/ \E op \in {"login", "register", "reset"}, u \in User : SubmitCredentials(p, k, op, u)
           \/ ClickLogout(p, k) \/ SaveNote(p, k)
           \/ \E n \in Note : DeleteNote(p, k, n)
    PROVE  IdsInUse' /\ \A q \in Page : PageAgrees(q)'
<1> USE DEF ListInv
<1>1. app \in [Page -> AppState] /\ jar \in User \cup {None}
  BY DEF IInv, AppsGood
<1>2. table' = table /\ created' = created /\ jar' = jar
  BY DEF FollowLink, SubmitCredentials, ClickLogout, SaveNote, DeleteNote
<1>3. \A q \in Page : SameNotes(app[q], app'[q])
  <2>1. ASSUME NEW op, NEW u, FollowLink(p, k, op, u)
        PROVE  \A q \in Page : SameNotes(app[q], app'[q])
    BY <1>1, <2>1 DEF FollowLink, Leave, SameNotes, AppState
  <2>2. app' = app => \A q \in Page : SameNotes(app[q], app'[q])
    BY DEF SameNotes
  <2> QED BY <2>1, <2>2 DEF SubmitCredentials, ClickLogout, SaveNote, DeleteNote
<1>4. ASSUME NEW op \in {"magic", "verify", "login", "register", "reset"}, NEW u \in User,
             Send(k, p, [Request(p, op) EXCEPT !.user = u])
      PROVE  \A q \in Page : PageAgrees(q)'
  <2> DEFINE r == [Request(p, op) EXCEPT !.user = u]
  <2>1. r.page = p /\ r.who = jar /\ r.at = "sent" /\ r.op \notin {"resetMe", "verifyMe"}
    BY DEF Request, NoCall
  <2> HIDE DEF r
  <2>2. Send(k, p, r)
    BY <1>4 DEF r
  <2> QED BY <1>2, <1>3, <2>1, <2>2, SendAgrees
<1>5. ASSUME ClickLogout(p, k) PROVE \A q \in Page : PageAgrees(q)'
  <2> DEFINE r == Request(p, "logout")
  <2>1. r.page = p /\ r.who = jar /\ r.at = "sent" /\ r.op \notin {"resetMe", "verifyMe"}
    BY RequestIs
  <2> HIDE DEF r
  <2>2. Send(k, p, r)
    BY <1>5 DEF ClickLogout, r
  <2> QED BY <1>2, <1>3, <2>1, <2>2, SendAgrees
<1>6. ASSUME SaveNote(p, k) PROVE \A q \in Page : PageAgrees(q)'
  <2> DEFINE r == SaveRequest(p)
  <2>1. r.page = p /\ r.who = jar /\ r.at = "sent" /\ r.op \notin {"resetMe", "verifyMe"}
    BY DEF SaveRequest, Request, NoCall
  <2> HIDE DEF r
  <2>2. Send(k, p, r)
    BY <1>6 DEF SaveNote, r
  <2> QED BY <1>2, <1>3, <2>1, <2>2, SendAgrees
<1>7. ASSUME NEW n \in Note, DeleteNote(p, k, n) PROVE \A q \in Page : PageAgrees(q)'
  <2> DEFINE r == [Request(p, "delete") EXCEPT !.note = n]
  <2>1. r.page = p /\ r.who = jar /\ r.at = "sent" /\ r.op \notin {"resetMe", "verifyMe"}
    BY DEF Request, NoCall
  <2> HIDE DEF r
  <2>2. Send(k, p, r)
    BY <1>7 DEF DeleteNote, r
  <2> QED BY <1>2, <1>3, <2>1, <2>2, SendAgrees
<1>8. \A q \in Page : PageAgrees(q)'
  BY <1>4, <1>5, <1>6, <1>7 DEF FollowLink, SubmitCredentials
<1> QED BY <1>2, <1>8 DEF IdsInUse

\* renderNotesApp asks for the list: a page that waits for nothing else is
\* undisturbed from then on.
LEMMA RenderAgrees ==
    ASSUME ListInv, NEW p \in Page, NEW k \in Call, RenderNotesApp(p, k)
    PROVE  IdsInUse' /\ \A q \in Page : PageAgrees(q)'
<1> USE DEF ListInv
<1> DEFINE r == Request(p, "list")
<1>1. /\ app \in [Page -> AppState] /\ call \in [Call -> CallState]
      /\ undisturbed \in [Page -> BOOLEAN]
  BY DEF IInv, AppsGood, CallsGood
<1>2. /\ table' = table /\ created' = created /\ jar' = jar
      /\ Idle(k) /\ call' = [call EXCEPT ![k] = r]
      /\ undisturbed' = [undisturbed EXCEPT ![p] = ~Busy(p)]
  BY DEF RenderNotesApp
<1>3. r.page = p /\ r.op = "list" /\ r.who = jar /\ r.at = "sent"
  BY RequestIs
<1> HIDE DEF r
<1>4. call'[k] = r /\ \A l \in Call \ {k} : call'[l] = call[l]
  BY <1>1, <1>2
<1>5. ASSUME NEW q \in Page, q # p PROVE PageAgrees(q)'
  <2>1. SameNotes(app[q], app'[q])
    BY <1>5 DEF RenderNotesApp, SameNotes
  <2>2. undisturbed'[q] => undisturbed[q]
    BY <1>1, <1>2, <1>5
  <2>3. \A l \in Call : call'[l] = call[l] \/ (~Waits(l, q) /\ ~Waits(l, q)')
    BY <1>2, <1>3, <1>4, <1>5 DEF Waits
  <2> QED BY <1>2, <2>1, <2>2, <2>3, FrameAgrees
<1>6. PageAgrees(p)'
  <2> SUFFICES ASSUME undisturbed'[p]
               PROVE  /\ \A l, m \in Call : Waits(l, p)' /\ Waits(m, p)' => l = m
                      /\ \A l \in Call : Waits(l, p)' => CallAgrees(p, call[l])'
                      /\ (\A l \in Call : ~Waits(l, p)') =>
                             (Lists(app[p]) /\ app[p].notes = RowsOf(jar))'
    BY DEF PageAgrees
  <2>1. \A l \in Call : ~Waits(l, p)
    BY <1>1, <1>2, BusyWaits
  <2>2. \A l \in Call : Waits(l, p)' <=> l = k
    BY <1>3, <1>4, <2>1 DEF Waits, Idle
  <2>3. CallAgrees(p, call[k])'
    BY <1>2, <1>3, <1>4 DEF CallAgrees
  <2> QED BY <2>2, <2>3
<1> QED BY <1>2, <1>5, <1>6 DEF IdsInUse

\* A page loaded again is disturbed, the others are not touched.
LEMMA ReloadAgrees ==
    ASSUME ListInv, NEW p \in Page, Reload(p)
    PROVE  IdsInUse' /\ \A q \in Page : PageAgrees(q)'
<1> USE DEF ListInv
<1>1. /\ call \in [Call -> CallState] /\ undisturbed \in [Page -> BOOLEAN]
      /\ app \in [Page -> AppState]
  BY DEF IInv, CallsGood, AppsGood
<1>2. /\ table' = table /\ created' = created /\ jar' = jar
      /\ undisturbed' = [undisturbed EXCEPT ![p] = FALSE]
  BY DEF Reload
<1>3. ASSUME NEW q \in Page, q # p PROVE PageAgrees(q)'
  <2>1. app'[q] = app[q]
    BY <1>1, <1>3 DEF Reload
  <2>2. undisturbed'[q] => undisturbed[q]
    BY <1>1, <1>2, <1>3
  <2>3. ASSUME NEW k \in Call PROVE call'[k] = call[k] \/ (~Waits(k, q) /\ ~Waits(k, q)')
    <3>1. CASE call[k].page # p
      BY <3>1 DEF Reload
    <3>2. CASE call[k].page = p
      <4>1. call'[k] = [call[k] EXCEPT !.page = None] \/ call'[k] = NoCall
        BY <3>2 DEF Reload
      <4>2. call'[k].page # q \/ call'[k].at = "idle"
        BY <1>1, <4>1, NoCallIdle, NoneAssumption DEF CallState
      <4> QED BY <1>3, <3>2, <4>2 DEF Waits, Idle
    <3> QED BY <3>1, <3>2
  <2> QED BY <1>2, <2>1, <2>2, <2>3, FrameAgrees DEF SameNotes
<1>4. PageAgrees(p)'
  BY <1>1, <1>2 DEF PageAgrees
<1> QED BY <1>2, <1>3, <1>4 DEF IdsInUse

-----------------------------------------------------------------------------
\* What the handlers of the notes make of a user's rows

RowsIn(tab, u) == {[id |-> n, text |-> tab[n].text] : n \in {m \in Note : tab[m].owner = u}}

\* What is in a user's rows.
LEMMA InRows ==
    ASSUME NEW tab, NEW u, NEW e
    PROVE  e \in RowsIn(tab, u) <=>
               \E n \in Note : tab[n].owner = u /\ e = [id |-> n, text |-> tab[n].text]
BY DEF RowsIn

\* INSERT of an identifier that is not in use adds a row.
LEMMA RowsCreated ==
    ASSUME NEW tab, NEW new, NEW n \in Note, NEW u, NEW t,
           tab[n].owner # u, new[n] = [owner |-> u, text |-> t],
           \A m \in Note \ {n} : new[m] = tab[m]
    PROVE  RowsIn(new, u) = RowsIn(tab, u) \cup {[id |-> n, text |-> t]}
<1>1. ASSUME NEW e
      PROVE  e \in RowsIn(new, u) <=> e \in RowsIn(tab, u) \/ e = [id |-> n, text |-> t]
  <2>1. e \in RowsIn(new, u) => e \in RowsIn(tab, u) \/ e = [id |-> n, text |-> t]
    BY InRows
  <2>2. e \in RowsIn(tab, u) => e \in RowsIn(new, u)
    BY InRows
  <2>3. e = [id |-> n, text |-> t] => e \in RowsIn(new, u)
    BY InRows
  <2> QED BY <2>1, <2>2, <2>3
<1> QED BY <1>1

\* UPDATE replaces the row of a note.
LEMMA RowsUpdated ==
    ASSUME NEW tab, NEW new, NEW n \in Note, NEW u, NEW t,
           tab[n].owner = u, new[n].owner = u, new[n].text = t,
           \A m \in Note \ {n} : new[m] = tab[m]
    PROVE  RowsIn(new, u) = WithSaved(RowsIn(tab, u), [id |-> n, text |-> t], "update")
<1> DEFINE row == [id |-> n, text |-> t]
           saved == WithSaved(RowsIn(tab, u), row, "update")
<1>1. saved = {IF e.id = n THEN row ELSE e : e \in RowsIn(tab, u)}
  BY DEF WithSaved
<1> HIDE DEF saved
<1>2. ASSUME NEW e \in RowsIn(new, u) PROVE e \in saved
  <2>1. PICK m \in Note : new[m].owner = u /\ e = [id |-> m, text |-> new[m].text]
    BY <1>2, InRows
  <2> DEFINE old == [id |-> m, text |-> tab[m].text]
  <2>2. tab[m].owner = u
    BY <2>1
  <2>3. old \in RowsIn(tab, u) /\ old.id = m
    BY <2>2, InRows
  <2>4. e = IF old.id = n THEN row ELSE old
    BY <2>1
  <2> HIDE DEF old
  <2> QED BY <1>1, <2>3, <2>4
<1>3. ASSUME NEW e \in saved PROVE e \in RowsIn(new, u)
  <2>1. PICK old \in RowsIn(tab, u) : e = IF old.id = n THEN row ELSE old
    BY <1>1, <1>3
  <2>2. PICK m \in Note : tab[m].owner = u /\ old = [id |-> m, text |-> tab[m].text]
    BY <2>1, InRows
  <2>3. e = [id |-> m, text |-> new[m].text] /\ new[m].owner = u
    BY <2>1, <2>2
  <2> QED BY <2>3, InRows
<1> QED BY <1>2, <1>3 DEF saved

\* DELETE takes it away.
LEMMA RowsErased ==
    ASSUME NEW tab, NEW new, NEW n, NEW u,
           n \in Note => new[n].owner # u, \A m \in Note \ {n} : new[m] = tab[m]
    PROVE  RowsIn(new, u) = {e \in RowsIn(tab, u) : e.id # n}
<1>1. ASSUME NEW e PROVE e \in RowsIn(new, u) <=> e \in RowsIn(tab, u) /\ e.id # n
  <2>1. e \in RowsIn(new, u) => e \in RowsIn(tab, u) /\ e.id # n
    BY InRows
  <2>2. e \in RowsIn(tab, u) /\ e.id # n => e \in RowsIn(new, u)
    <3> SUFFICES ASSUME e \in RowsIn(tab, u), e.id # n PROVE e \in RowsIn(new, u)
      OBVIOUS
    <3>1. PICK m \in Note : tab[m].owner = u /\ e = [id |-> m, text |-> tab[m].text]
      BY InRows
    <3>2. m # n /\ new[m] = tab[m]
      BY <3>1
    <3> QED BY <3>1, <3>2, InRows
  <2> QED BY <2>1, <2>2
<1> QED BY <1>1

-----------------------------------------------------------------------------
\* The server and the answers

\* What Answered does to the calls.
LEMMA AnsweredIs ==
    ASSUME CallsGood, NEW k \in Call, NEW rows, Answered(k, rows)
    PROVE  /\ \A l \in Call \ {k} : call'[l] = call[l]
           /\ call[k].page = None => call'[k] = NoCall
           /\ call[k].page # None =>
                 /\ call'[k].page = call[k].page /\ call'[k].op = call[k].op
                 /\ \/ /\ call'[k].at = "ok" /\ call'[k].who = call[k].who
                       /\ call'[k].note = call[k].note /\ call'[k].rows = rows
                    \/ call'[k].at = "lost"
<1> DEFINE r == [call[k] EXCEPT !.at = "ok", !.text = NewNote, !.rows = rows]
           s == [NoCall EXCEPT !.page = call[k].page, !.op = call[k].op, !.at = "lost"]
<1>1. call \in [Call -> CallState]
  BY DEF CallsGood
<1>2. /\ r.page = call[k].page /\ r.op = call[k].op /\ r.at = "ok" /\ r.who = call[k].who
      /\ r.note = call[k].note /\ r.rows = rows
  BY <1>1 DEF CallState
<1>3. s.page = call[k].page /\ s.op = call[k].op /\ s.at = "lost"
  BY DEF NoCall
<1>4. \/ call' = [call EXCEPT ![k] = NoCall] /\ call[k].page = None
      \/ call' = [call EXCEPT ![k] = r] /\ call[k].page # None
      \/ call' = [call EXCEPT ![k] = s] /\ call[k].page # None
  BY DEF Answered
<1> HIDE DEF r, s
<1> QED BY <1>1, <1>2, <1>3, <1>4

\* A page is as its call leaves it when the answer brings what the rest of the
\* method needs.
LEMMA ServedAgrees ==
    ASSUME ListInv, NEW k \in Call, NEW q \in Page, call[k].page = q, call[k].at = "sent",
           NEW rows, Answered(k, rows), jar' = jar, app' = app,
           undisturbed'[q] => undisturbed[q],
           undisturbed[q] /\ call[k].who = jar /\ call'[k].at = "ok"
               /\ (call[k].op # "list" => app[q].notes = RowsOf(jar)) =>
               \A notes \in After(app[q].notes, call'[k]) : notes = RowsOf(jar)'
    PROVE  PageAgrees(q)'
<1> USE DEF ListInv
<1> SUFFICES ASSUME undisturbed'[q]
             PROVE  /\ \A l, m \in Call : Waits(l, q)' /\ Waits(m, q)' => l = m
                    /\ \A l \in Call : Waits(l, q)' => CallAgrees(q, call[l])'
                    /\ (\A l \in Call : ~Waits(l, q)') =>
                           (Lists(app[q]) /\ app[q].notes = RowsOf(jar))'
  BY DEF PageAgrees
<1>1. /\ \A l \in Call \ {k} : call'[l] = call[l]
      /\ call'[k].page = q /\ call'[k].op = call[k].op
      /\ \/ call'[k].at = "ok" /\ call'[k].who = call[k].who
         \/ call'[k].at = "lost"
  BY AnsweredIs, NoneAssumption DEF IInv
<1>2. Waits(k, q)
  BY DEF Waits, Idle
<1>3. /\ \A l \in Call : Waits(l, q) => l = k
      /\ CallAgrees(q, call[k])
  BY <1>2 DEF PageAgrees
<1>4. \A l \in Call : Waits(l, q)' <=> l = k
  BY <1>1, <1>3 DEF Waits, Idle
<1>5. /\ call[k].who = jar /\ (call[k].op # "list" => app[q].notes = RowsOf(jar))
      /\ call[k].op # "list" => Lists(app[q])
      /\ call[k].op \notin {"resetMe", "verifyMe"}
  BY <1>3 DEF CallAgrees
<1>6. CallAgrees(q, call[k])'
  BY <1>1, <1>5 DEF CallAgrees
<1> QED BY <1>4, <1>6

\* The handlers of the notes: pages without the call are disturbed if a row
\* changes.
LEMMA ServeAgrees ==
    ASSUME ListInv, NEW k \in Call, Serve(k)
    PROVE  IdsInUse' /\ \A q \in Page : PageAgrees(q)'
<1> USE DEF ListInv
<1>1. /\ table \in [Note -> Row \cup {NoRow}] /\ call \in [Call -> CallState]
      /\ undisturbed \in [Page -> BOOLEAN] /\ SentInv(call[k]) /\ CallsGood
  BY DEF IInv, TableGood, CallsGood
<1>2. call[k].at = "sent" /\ Permitted(k)
  BY DEF Serve, ListNotes, CreateNote, UpdateNote, EraseNote, Served
<1>3. call[k].op \in {"list", "create", "update", "delete"}
  BY DEF Serve, ListNotes, CreateNote, UpdateNote, EraseNote, Served
<1>4. call[k].who \in User
  BY <1>1, <1>2, <1>3 DEF Permitted, Guarded, NoteOp, CallState
<1>5. jar' = jar /\ app' = app
  BY DEF Serve, ListNotes, CreateNote, UpdateNote, EraseNote
<1>6. \A u : RowsOf(u) = RowsIn(table, u)
  BY DEF RowsOf, RowsIn
<1>7. RowsOf(jar)' = RowsIn(table', jar)
  BY <1>5 DEF RowsOf, RowsIn
<1>8. CASE ListNotes(k)
  <2>1. /\ table' = table /\ created' = created /\ undisturbed' = undisturbed
        /\ Answered(k, RowsOf(call[k].who)) /\ call[k].op = "list"
    BY <1>8 DEF ListNotes, Served
  <2>2. ASSUME NEW q \in Page, q # call[k].page PROVE PageAgrees(q)'
    <3>1. \A l \in Call : call'[l] = call[l] \/ (~Waits(l, q) /\ ~Waits(l, q)')
      BY <1>1, <2>1, <2>2, AnsweredIs, NoCallIdle DEF Waits, Idle
    <3> QED BY <1>5, <2>1, <3>1, FrameAgrees DEF SameNotes
  <2>3. ASSUME NEW q \in Page, q = call[k].page PROVE PageAgrees(q)'
    <3>1. call'[k].at = "ok" => call'[k].op = "list" /\ call'[k].rows = RowsOf(call[k].who)
      BY <1>1, <2>1, <2>3, AnsweredIs, NoneAssumption
    <3>2. RowsOf(jar)' = RowsOf(jar)
      BY <1>6, <1>7, <2>1
    <3>3. call[k].who = jar /\ call'[k].at = "ok" =>
              \A notes \in After(app[q].notes, call'[k]) : notes = RowsOf(jar)'
      BY <3>1, <3>2 DEF After
    <3> QED BY <1>2, <1>5, <2>1, <2>3, <3>3, ServedAgrees
  <2> QED BY <2>1, <2>2, <2>3 DEF IdsInUse
<1>9. ASSUME NEW q \in Page, q # call[k].page, Changed(k) PROVE PageAgrees(q)'
  BY <1>9 DEF Changed, PageAgrees
<1>10. ASSUME Changed(k) PROVE \A q \in Page : undisturbed'[q] => undisturbed[q]
  BY <1>10 DEF Changed
<1>11. CASE CreateNote(k)
  <2>1. PICK n \in Note \ created :
           /\ table' = [table EXCEPT ![n] = [owner |-> call[k].who, text |-> call[k].text]]
           /\ created' = created \cup {n}
           /\ Answered(k, {[id |-> n, text |-> call[k].text]})
    BY <1>11 DEF CreateNote
  <2>2. Changed(k) /\ call[k].op = "create"
    BY <1>11 DEF CreateNote, Served
  <2>3. table[n].owner = None
    BY <2>1 DEF IdsInUse
  <2>4. RowsIn(table', call[k].who)
            = RowsIn(table, call[k].who) \cup {[id |-> n, text |-> call[k].text]}
    <3>1. table[n].owner # call[k].who
      BY <1>4, <2>3, NoneAssumption
    <3>2. /\ table'[n] = [owner |-> call[k].who, text |-> call[k].text]
          /\ \A m \in Note \ {n} : table'[m] = table[m]
      BY <1>1, <2>1
    <3> QED BY <3>1, <3>2, RowsCreated
  <2>5. ASSUME NEW q \in Page, q = call[k].page PROVE PageAgrees(q)'
    <3>1. call'[k].at = "ok" => /\ call'[k].op = "create"
                                /\ call'[k].rows = {[id |-> n, text |-> call[k].text]}
      BY <1>1, <2>1, <2>2, <2>5, AnsweredIs, NoneAssumption
    <3>2. /\ undisturbed[q] /\ call[k].who = jar /\ call'[k].at = "ok"
          /\ call[k].op # "list" => app[q].notes = RowsOf(jar)
          => \A notes \in After(app[q].notes, call'[k]) : notes = RowsOf(jar)'
      BY <1>6, <1>7, <2>2, <2>4, <3>1 DEF After, WithSaved
    <3> QED BY <1>2, <1>5, <1>10, <2>1, <2>2, <2>5, <3>2, ServedAgrees
  <2>6. IdsInUse'
    BY <1>1, <2>1 DEF IdsInUse
  <2> QED BY <1>9, <2>2, <2>5, <2>6
<1>12. CASE UpdateNote(k)
  <2>1. /\ table' = [table EXCEPT ![call[k].note].text = call[k].text] /\ created' = created
        /\ Answered(k, {[id |-> call[k].note, text |-> call[k].text]})
        /\ Changed(k) /\ call[k].op = "update"
    BY <1>12 DEF UpdateNote, Served
  <2>2. call[k].note \in Note /\ table[call[k].note].owner = call[k].who
    BY <1>1, <1>2, <2>1 DEF SentInv, Permitted
  <2> DEFINE row == [id |-> call[k].note, text |-> call[k].text]
  <2>3. RowsIn(table', call[k].who) = WithSaved(RowsIn(table, call[k].who), row, "update")
    <3>1. /\ table'[call[k].note].owner = call[k].who
          /\ table'[call[k].note].text = call[k].text
          /\ \A m \in Note \ {call[k].note} : table'[m] = table[m]
      BY <1>1, <2>1, <2>2 DEF Row, NoRow
    <3> DEFINE n == call[k].note
               t == call[k].text
               u == call[k].who
    <3>2. /\ n \in Note /\ table[n].owner = u /\ table'[n].owner = u /\ table'[n].text = t
          /\ \A m \in Note \ {n} : table'[m] = table[m]
      BY <2>2, <3>1
    <3> HIDE DEF n, t, u
    <3>3. RowsIn(table', u) = WithSaved(RowsIn(table, u), [id |-> n, text |-> t], "update")
      BY <3>2, RowsUpdated
    <3> QED BY <3>3 DEF n, t, u
  <2> HIDE DEF row
  <2>4. ASSUME NEW q \in Page, q = call[k].page PROVE PageAgrees(q)'
    <3>1. call'[k].at = "ok" => call'[k].op = "update" /\ call'[k].rows = {row}
      BY <1>1, <2>1, <2>4, AnsweredIs, NoneAssumption DEF row
    <3>2. /\ undisturbed[q] /\ call[k].who = jar /\ call'[k].at = "ok"
          /\ call[k].op # "list" => app[q].notes = RowsOf(jar)
          => \A notes \in After(app[q].notes, call'[k]) : notes = RowsOf(jar)'
      BY <1>6, <1>7, <2>1, <2>3, <3>1 DEF After
    <3> QED BY <1>2, <1>5, <1>10, <2>1, <2>4, <3>2, ServedAgrees
  <2>5. IdsInUse'
    <3>1. \A n \in Note : table'[n].owner = table[n].owner
      BY <1>1, <2>1, <2>2 DEF Row, NoRow
    <3> QED BY <2>1, <3>1 DEF IdsInUse
  <2> QED BY <1>9, <2>1, <2>4, <2>5
<1>13. CASE EraseNote(k)
  <2>1. /\ table' = [table EXCEPT ![call[k].note] = NoRow] /\ created' = created
        /\ Answered(k, {}) /\ Changed(k) /\ call[k].op = "delete"
    BY <1>13 DEF EraseNote, Served
  <2>2. RowsIn(table', call[k].who) = {e \in RowsIn(table, call[k].who) : e.id # call[k].note}
    <3>1. /\ call[k].note \in Note => table'[call[k].note].owner # call[k].who
          /\ \A m \in Note \ {call[k].note} : table'[m] = table[m]
      BY <1>1, <1>4, <2>1, NoneAssumption DEF NoRow
    <3> QED BY <3>1, RowsErased
  <2>3. ASSUME NEW q \in Page, q = call[k].page PROVE PageAgrees(q)'
    <3>1. call'[k].at = "ok" => call'[k].op = "delete" /\ call'[k].note = call[k].note
      BY <1>1, <2>1, <2>3, AnsweredIs, NoneAssumption
    <3>2. /\ undisturbed[q] /\ call[k].who = jar /\ call'[k].at = "ok"
          /\ call[k].op # "list" => app[q].notes = RowsOf(jar)
          => \A notes \in After(app[q].notes, call'[k]) : notes = RowsOf(jar)'
      BY <1>6, <1>7, <2>1, <2>2, <3>1 DEF After
    <3> QED BY <1>2, <1>5, <1>10, <2>1, <2>3, <3>2, ServedAgrees
  <2>4. IdsInUse'
    BY <1>1, <2>1 DEF IdsInUse, NoRow
  <2> QED BY <1>9, <2>1, <2>3, <2>4
<1> QED BY <1>8, <1>11, <1>12, <1>13 DEF Serve

\* renderNotes lists App.notes, also after clearNoteForm.
LEMMA RenderLists ==
    ASSUME NEW a \in AppState, NEW s
    PROVE  /\ LET b == RenderNotes([a EXCEPT !.notes = s]) IN b.notes = s /\ Lists(b)
           /\ LET b == RenderNotes(ClearNoteForm([a EXCEPT !.notes = s])) IN
                  b.notes = s /\ Lists(b)
<1> DEFINE c == [a EXCEPT !.notes = s]
           d == [c EXCEPT !.editing = NewNote, !.text = None, !.label = "add"]
<1>1. c.notes = s /\ d.notes = s
  BY DEF AppState
<1>2. /\ [c EXCEPT !.shown = c.notes].shown = s /\ [c EXCEPT !.shown = c.notes].notes = s
      /\ [d EXCEPT !.shown = d.notes].shown = s /\ [d EXCEPT !.shown = d.notes].notes = s
  BY DEF AppState
<1>3. d = ClearNoteForm(c)
  BY DEF ClearNoteForm
<1> HIDE DEF c, d
<1>4. RenderNotes(c).notes = s /\ Lists(RenderNotes(c))
  BY <1>1, <1>2 DEF RenderNotes, Lists
<1>5. RenderNotes(d).notes = s /\ Lists(RenderNotes(d))
  BY <1>1, <1>2 DEF RenderNotes, Lists
<1> QED BY <1>3, <1>4, <1>5 DEF c

\* The rest of a method after a successful call.
LEMMA AnswerAgrees ==
    ASSUME ListInv, NEW k \in Call, ReceiveAnswer(k)
    PROVE  IdsInUse' /\ \A q \in Page : PageAgrees(q)'
<1> USE DEF ListInv
<1>1. /\ app \in [Page -> AppState] /\ call \in [Call -> CallState]
      /\ table' = table /\ created' = created
  BY DEF IInv, AppsGood, CallsGood, ReceiveAnswer, server
<1>2. IdsInUse'
  BY <1>1 DEF IdsInUse
<1>3. PICK p \in Page : p = call[k].page
  BY <1>1 DEF CallState, ReceiveAnswer, Received
<1>4. /\ call[k].op \in NoteOp => call[k].at = "ok"
      /\ call[k].at \in {"sent", "ok"}
  BY DEF ReceiveAnswer, Received
<1>5. app[p] \in AppState
  BY <1>1
<1>6. undisturbed[p] => CallAgrees(p, call[k]) /\ \A l \in Call : Waits(l, p) => l = k
  BY <1>3, <1>4 DEF PageAgrees, Waits, Idle
<1>7. ASSUME NEW a, Finish(k, a), jar' = jar, undisturbed' = undisturbed,
             undisturbed[p] => a.notes = RowsOf(jar) /\ Lists(a)
      PROVE  \A q \in Page : PageAgrees(q)'
  <2>1. /\ call'[k] = NoCall /\ \A l \in Call \ {k} : call'[l] = call[l]
        /\ app'[p] = a /\ \A q \in Page \ {p} : app'[q] = app[q]
    BY <1>1, <1>3, <1>7 DEF Finish
  <2>2. ASSUME NEW q \in Page, q # p PROVE PageAgrees(q)'
    <3>1. \A l \in Call : call'[l] = call[l] \/ (~Waits(l, q) /\ ~Waits(l, q)')
      BY <1>3, <2>1, <2>2, NoCallIdle DEF Waits, Idle
    <3> QED BY <1>1, <1>7, <2>1, <2>2, <3>1, FrameAgrees DEF SameNotes
  <2>3. PageAgrees(p)'
    <3>1. undisturbed'[p] => \A l \in Call : ~Waits(l, p)'
      BY <1>6, <1>7, <2>1, NoCallIdle DEF Waits, Idle
    <3>2. RowsOf(jar)' = RowsOf(jar)
      BY <1>1, <1>7 DEF RowsOf
    <3>3. undisturbed'[p] => app'[p].notes = RowsOf(jar) /\ Lists(app'[p])
      BY <1>7, <2>1
    <3> QED BY <3>1, <3>2, <3>3 DEF PageAgrees
  <2> QED BY <2>2, <2>3
<1>8. CASE (Login(k) \/ Logout(k) \/ ThenCheckAuth(k)) /\ undisturbed' = [q \in Page |-> FALSE]
  BY <1>2, <1>8 DEF PageAgrees
<1>9. CASE (ShowList(k) \/ NoteSaved(k) \/ NoteDeleted(k) \/ AuthChecked(k, call[k].who))
           /\ UNCHANGED <<jar, undisturbed>>
  <2>0. jar' = jar /\ undisturbed' = undisturbed
    BY <1>9
  <2>1. CASE ShowList(k)
    <3> DEFINE a == RenderNotes([app[p] EXCEPT !.notes = call[k].rows])
    <3>1. call[k].op = "list" /\ Finish(k, a)
      BY <1>3, <2>1 DEF ShowList
    <3>2. a.notes = call[k].rows /\ Lists(a)
      BY <1>5, RenderLists
    <3>3. undisturbed[p] => call[k].rows = RowsOf(jar)
      BY <1>4, <1>6, <3>1 DEF CallAgrees, After, NoteOp
    <3> HIDE DEF a
    <3> QED BY <1>2, <1>7, <2>0, <3>1, <3>2, <3>3
  <2>2. CASE NoteSaved(k)
    <3>1. PICK row \in call[k].rows :
              Finish(k, RenderNotes(ClearNoteForm(
                  [app[p] EXCEPT !.notes = WithSaved(app[p].notes, row, call[k].op)])))
      BY <1>3, <2>2 DEF NoteSaved
    <3> DEFINE s == WithSaved(app[p].notes, row, call[k].op)
               a == RenderNotes(ClearNoteForm([app[p] EXCEPT !.notes = s]))
    <3>2. call[k].op \in {"create", "update"} /\ Finish(k, a)
      BY <2>2, <3>1 DEF NoteSaved
    <3>3. a.notes = s /\ Lists(a)
      <4> HIDE DEF s
      <4> QED BY <1>5, RenderLists
    <3>4. undisturbed[p] => s = RowsOf(jar)
      BY <1>4, <1>6, <3>2 DEF CallAgrees, After, NoteOp
    <3> HIDE DEF a, s
    <3> QED BY <1>2, <1>7, <2>0, <3>2, <3>3, <3>4
  <2>3. CASE NoteDeleted(k)
    <3> DEFINE s == {e \in app[p].notes : e.id # call[k].note}
               a == RenderNotes([app[p] EXCEPT !.notes = s])
    <3>1. call[k].op = "delete" /\ Finish(k, a)
      BY <1>3, <2>3 DEF NoteDeleted
    <3>2. a.notes = s /\ Lists(a)
      <4> HIDE DEF s
      <4> QED BY <1>5, RenderLists
    <3>3. undisturbed[p] => s = RowsOf(jar)
      BY <1>4, <1>6, <3>1 DEF CallAgrees, After, NoteOp
    <3> HIDE DEF a, s
    <3> QED BY <1>2, <1>7, <2>0, <3>1, <3>2, <3>3
  <2>4. CASE AuthChecked(k, call[k].who)
    <3>1. ~undisturbed[p]
      BY <1>6, <2>4 DEF AuthChecked, CallAgrees
    <3>2. PICK a : Finish(k, a)
      BY <2>4 DEF AuthChecked
    <3> QED BY <1>2, <1>7, <2>0, <3>1, <3>2
  <2> QED BY <1>2, <1>9, <2>1, <2>2, <2>3, <2>4
<1> QED BY <1>8, <1>9 DEF ReceiveAnswer

\* A page whose call fails is disturbed, and no other page is touched.
LEMMA ErrorAgrees ==
    ASSUME ListInv, NEW k \in Call, ReceiveError(k)
    PROVE  IdsInUse' /\ \A q \in Page : PageAgrees(q)'
<1> USE DEF ListInv
<1>1. /\ table' = table /\ created' = created /\ jar' = jar
      /\ call \in [Call -> CallState] /\ call' = [call EXCEPT ![k] = NoCall]
      /\ undisturbed' = [p \in Page |-> undisturbed[p] /\ p # call[k].page]
  BY DEF IInv, CallsGood, ReceiveError
<1>2. ASSUME NEW q \in Page, q # call[k].page PROVE PageAgrees(q)'
  <2>1. app'[q] = app[q] /\ (undisturbed'[q] => undisturbed[q])
    BY <1>1, <1>2 DEF ReceiveError
  <2>2. \A l \in Call : call'[l] = call[l] \/ (~Waits(l, q) /\ ~Waits(l, q)')
    BY <1>1, <1>2, NoCallIdle DEF Waits, Idle
  <2> QED BY <1>1, <2>1, <2>2, FrameAgrees DEF SameNotes
<1>3. ASSUME NEW q \in Page, q = call[k].page PROVE PageAgrees(q)'
  <2>1. ~undisturbed'[q]
    BY <1>1, <1>3
  <2> QED BY <2>1 DEF PageAgrees
<1> QED BY <1>1, <1>2, <1>3 DEF IdsInUse

\* Every step keeps what pages show of the server's notes.
LEMMA ListStep == ListInv /\ [Next]_vars => ListInv'
<1> SUFFICES ASSUME ListInv, [Next]_vars PROVE IdsInUse' /\ \A q \in Page : PageAgrees(q)'
  BY NextIInv DEF ListInv
<1>1. CASE UNCHANGED vars
  <2>1. \A q \in Page : PageAgrees(q)'
    BY <1>1, FrameAgrees DEF vars, ListInv, SameNotes
  <2> QED BY <1>1, <2>1 DEF vars, ListInv, IdsInUse
<1>2. ASSUME NEW p \in Page, Act(p) PROVE IdsInUse' /\ \A q \in Page : PageAgrees(q)'
  BY <1>2, FormAgrees, SubmitAgrees, ReloadAgrees, RenderAgrees DEF Act
<1>3. ASSUME NEW k \in Call, Serve(k) \/ ReceiveAnswer(k) \/ ReceiveError(k)
      PROVE  IdsInUse' /\ \A q \in Page : PageAgrees(q)'
  BY <1>3, ServeAgrees, AnswerAgrees, ErrorAgrees
<1> QED BY <1>1, <1>2, <1>3 DEF Next

\* At the start no page is undisturbed and no note in use.
LEMMA ListInit == Init => ListInv
BY InitIInv DEF ListInv, Init, IdsInUse, PageAgrees, NoRow

(***************************************************************************)
(* A page whose calls came one by one since it loaded the list, all of     *)
(* them answered with success, with no other page or session between,      *)
(* shows the notes of the server: loadNotes, saveNote and deleteNote keep  *)
(* App.notes what the table has, whichever note they are about.            *)
(***************************************************************************)
THEOREM ListTheorem == Spec => []ListAgrees
<1>1. ListInv => ListAgrees
  <2> SUFFICES ASSUME ListInv, NEW p \in Page, app[p].view = "notes", undisturbed[p], ~Busy(p)
               PROVE  app[p].shown = RowsOf(jar)
    BY DEF ListAgrees
  <2>1. Lists(app[p]) /\ app[p].notes = RowsOf(jar)
    BY BusyWaits DEF ListInv, PageAgrees
  <2> QED BY <2>1 DEF Lists
<1> QED BY <1>1, ListInit, ListStep, PTL DEF Spec
=============================================================================
