------------------------------ MODULE Accounts ------------------------------
(***************************************************************************)
(* Registration: Register of handlers/auth.go, Create of services/user.go, *)
(* and the goroutine that mails the verification link, in the process of   *)
(* ServerRun, which is stopped and started again.  Sessions are those of   *)
(* SessionRegistry, which SessionStore implements.                         *)
(*                                                                         *)
(* Table users is indexed by e-mail address (UNIQUE; Register puts it in   *)
(* lower case).  Usernames keep their spelling: Fold gives the lower case  *)
(* of one.  Requests carry data that passed the validation of Register.    *)
(***************************************************************************)
CONSTANTS Call,        \* connections, each with one request at a time
          Email,       \* addresses in lower case
          Name,        \* usernames as spelled
          Fold(_),     \* lower case of a username
          Password,
          Token,
          None,
          PgOutcomes,  \* how a Postgres command may end
          MailOutcomes \* how provider.Send may end

Outcome == {"ok", "refused", "lost"}

ASSUME OutcomesAssumption == PgOutcomes \cup MailOutcomes \subseteq Outcome
ASSUME NoneAssumption == None \notin Email \cup Name \cup Password \cup Token

VARIABLES
    users,   \* users[e]: the row with that address
    status,  \* the stages of sessions
    owner,   \* and the address of the account they are for
    req,     \* req[p]: request p
    posting, \* posting[e]: the goroutines that mail the account a link
    inbox,   \* addresses a verification link has reached
    conns, main, stopper, done, pools \* the process, see ServerRun

Run == INSTANCE ServerRun WITH Conn <- Call

Sessions == INSTANCE SessionRegistry WITH User <- Email

runVars == <<conns, main, stopper, done, pools>>
vars == <<users, status, owner, req, posting, inbox, runVars>>

NoRow == [name |-> None, hash |-> None]
Row == [name : Name, hash : Password]

Stage == {"idle", "email", "name", "insert", "session", "opening", "done"}
Answer == {"none", "created", "conflict", "error"}
Request == [at : Stage, email : Email \cup {None}, name : Name \cup {None},
            hash : Password \cup {None}, tok : Token \cup {None}, answer : Answer]
Quiet == [at |-> "idle", email |-> None, name |-> None, hash |-> None, tok |-> None,
          answer |-> "none"]

Applied(o) == o \in {"ok", "lost"}
Reported(o) == o = "ok"

Registered(e) == users[e] # NoRow

\* How a Postgres command may end now.
Endings == IF pools = "closed" THEN {"refused"} ELSE PgOutcomes

Go(p, stage) == req' = [req EXCEPT ![p].at = stage]
Reply(p, answer) == req' = [req EXCEPT ![p].at = "done", ![p].answer = answer]

Init ==
    /\ users = [e \in Email |-> NoRow]
    /\ Sessions!Init
    /\ req = [p \in Call |-> Quiet]
    /\ posting = [e \in Email |-> "none"]
    /\ inbox = {}
    /\ Run!RunInit

-----------------------------------------------------------------------------
\* Register and Create

\* The request is read from a connection, which may have been accepted before
\* Shutdown began.
Arrive(p) ==
    /\ req[p].at = "idle" /\ p \in conns
    /\ \E e \in Email, n \in Name, h \in Password :
          req' = [req EXCEPT ![p] = [Quiet EXCEPT !.at = "email", !.email = e, !.name = n,
                                                  !.hash = h]]
    /\ UNCHANGED <<users, status, owner, posting, inbox, runVars>>

CheckEmail(p) ==
    /\ req[p].at = "email"
    /\ \E o \in Endings :
          IF ~Reported(o) THEN Reply(p, "error")
          ELSE IF Registered(req[p].email) THEN Reply(p, "conflict")
          ELSE Go(p, "name")
    /\ UNCHANGED <<users, status, owner, posting, inbox, runVars>>

\* WHERE LOWER(username) = LOWER($1)
Taken(n) == \E e \in Email : Registered(e) /\ Fold(users[e].name) = Fold(n)

CheckName(p) ==
    /\ req[p].at = "name"
    /\ \E o \in Endings :
          IF ~Reported(o) THEN Reply(p, "error")
          ELSE IF Taken(req[p].name) THEN Reply(p, "conflict")
          ELSE Go(p, "insert")
    /\ UNCHANGED <<users, status, owner, posting, inbox, runVars>>

\* Mutant: the address is not UNIQUE, the later row takes the earlier's place.
MayReplace(p) == \A e \in Email \ {req[p].email} : users[e].name # req[p].name

\* The UNIQUE constraints on email and on username as spelled.
MayInsert(p) == ~Registered(req[p].email) /\ \A e \in Email : users[e].name # req[p].name

\* Mutant: the column password_hash is not written.
AskedWithoutHash(p) == [name |-> req[p].name, hash |-> None]

Asked(p) == [name |-> req[p].name, hash |-> req[p].hash]

\* A violated constraint is an error like any other.
InsertUser(p) ==
    /\ req[p].at = "insert"
    /\ \E o \in Endings :
          /\ users' = IF Applied(o) /\ MayInsert(p)
                      THEN [users EXCEPT ![req[p].email] = Asked(p)] ELSE users
          /\ IF Reported(o) /\ MayInsert(p) THEN Go(p, "session") ELSE Reply(p, "error")
    /\ UNCHANGED <<status, owner, posting, inbox, runVars>>

OpenSession(p) ==
    /\ req[p].at = "session"
    /\ \E t \in Token :
          /\ Sessions!Open(t, req[p].email)
          /\ req' = [req EXCEPT ![p].at = "opening", ![p].tok = t]
    /\ UNCHANGED <<users, posting, inbox, runVars>>

\* CreateSession ends; it may report an error and have stored the session.  One
\* pool is enough for it.
\* The mail is sent in the background, its failure is not the request's.
SessionOpened(p) ==
    /\ req[p].at = "opening"
    /\ \E stage \in {"live", "dead"}, ok \in BOOLEAN :
          /\ ok => stage = "live" /\ pools # "closed"
          /\ status' = [status EXCEPT ![req[p].tok] = stage]
          /\ Reply(p, IF ok THEN "created" ELSE "error")
          /\ posting' = IF ok THEN [posting EXCEPT ![req[p].email] = "mint"] ELSE posting
    /\ UNCHANGED <<users, owner, inbox, runVars>>

\* The response has been written.
Finish(p) ==
    /\ req[p].at = "done"
    /\ req' = [req EXCEPT ![p] = Quiet]
    /\ Run!Respond(p)
    /\ UNCHANGED <<users, status, owner, posting, inbox>>

-----------------------------------------------------------------------------
\* The goroutine that runs SendVerificationEmail, and the environment

MintLink(e) ==
    /\ posting[e] = "mint"
    /\ \E o \in Endings :
          posting' = [posting EXCEPT ![e] = IF Reported(o) THEN "send" ELSE "over"]
    /\ UNCHANGED <<users, status, owner, req, inbox, runVars>>

SendLink(e) ==
    /\ posting[e] = "send"
    /\ \E o \in MailOutcomes : inbox' = IF Applied(o) THEN inbox \cup {e} ELSE inbox
    /\ posting' = [posting EXCEPT ![e] = "over"]
    /\ UNCHANGED <<users, status, owner, req, runVars>>

\* A session expires, is deleted or lost.
SessionEnds(t) ==
    /\ status[t] = "live"
    /\ status' = [status EXCEPT ![t] = "dead"]
    /\ UNCHANGED <<users, owner, req, posting, inbox, runVars>>

\* The process ends with what it is doing, a CreateSession as well, and is started
\* again.
ProcessEnds ==
    /\ req' = [p \in Call |-> Quiet]
    /\ posting' = [e \in Email |-> IF posting[e] = "none" THEN "none" ELSE "over"]
    /\ \E alive \in SUBSET Token :
          status' = [t \in Token |-> IF status[t] # "opening" THEN status[t]
                                     ELSE IF t \in alive THEN "live" ELSE "dead"]
    /\ Run!Restart
    /\ UNCHANGED <<users, owner, inbox>>

ServerCrash ==
    /\ \/ \E p \in Call : req[p].at # "idle"
       \/ \E e \in Email : posting[e] \in {"mint", "send"}
    /\ ProcessEnds

-----------------------------------------------------------------------------
\* The process

Connect(p) == Run!Accept(p) /\ UNCHANGED <<users, status, owner, req, posting, inbox>>

Hangup(p) ==
    /\ req[p].at = "idle"
    /\ Run!Disconnect(p)
    /\ UNCHANGED <<users, status, owner, req, posting, inbox>>

RunGoesOn == Run!RunStep /\ UNCHANGED <<users, status, owner, req, posting, inbox>>

\* run() has returned.
Exit == pools = "closed" /\ ProcessEnds

Serve(p) == \/ Arrive(p) \/ CheckEmail(p) \/ CheckName(p) \/ InsertUser(p)
            \/ OpenSession(p) \/ SessionOpened(p) \/ Finish(p)

Next == \/ \E p \in Call : Serve(p)
        \/ \E e \in Email : MintLink(e) \/ SendLink(e)
        \/ \E t \in Token : SessionEnds(t)
        \/ ServerCrash
        \/ \E p \in Call : Connect(p) \/ Hangup(p)
        \/ RunGoesOn
        \/ Exit

Spec == Init /\ [][Next]_vars

-----------------------------------------------------------------------------
\* Properties

TypeOK ==
    /\ users \in [Email -> Row \cup {NoRow}]
    /\ status \in [Token -> Sessions!Stage]
    /\ owner \in [Token -> Email \cup {None}]
    /\ req \in [Call -> Request]
    /\ posting \in [Email -> {"none", "mint", "send", "over"}]
    /\ inbox \subseteq Email
    /\ Run!RunTypeOK

\* Two registrations for one address: the account is the one its founder asked
\* for, and no other request is given a session for it.  Create checks before
\* it inserts, so this rests on the UNIQUE constraint and on Register giving up
\* when INSERT fails.
FounderOnly ==
    /\ \A p \in Call : req[p].answer = "created" \/ req[p].at \in {"session", "opening"} =>
          users[req[p].email] = [name |-> req[p].name, hash |-> req[p].hash]
    /\ \A s, t \in Token : owner[s] # None /\ owner[s] = owner[t] => s = t

\* Unless Shutdown gives up after its 30 seconds, run closes a pool at the end of a
\* stop under no request: those on connections accepted before have been answered,
\* none will be read, and no session is being opened.  ListenAndServe returns long
\* before that, so this rests on done; nobody waits for the goroutines that mail.
OrderlyStop ==
    main = "closing" /\ stopper # "overdue" =>
        /\ conns = {} /\ \A p \in Call : req[p].at = "idle"
        /\ \A t \in Token : status[t] # "opening"

\* services/user.go:39 "Check if username already exists (case-insensitive)":
\* no two accounts have usernames that differ in case only.
NamesDifferBeyondCase ==
    \A d, e \in Email : Registered(d) /\ Registered(e) /\ d # e =>
        Fold(users[d].name) # Fold(users[e].name)
=============================================================================
