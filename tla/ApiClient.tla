----------------------------- MODULE ApiClient ------------------------------
(***************************************************************************)
(* API.request and API.fetchCSRFToken of api.js against Protect and        *)
(* GetToken of middleware/csrf.go: pages of one browser that share its     *)
(* cookie csrf_token, each with a copy of the token of its own.            *)
(*                                                                         *)
(* What a route does is only that its handler ran.  Answers arrive in any  *)
(* order; a call may be given up by its timeout or by the network at any   *)
(* time, before or after the handler ran.                                  *)
(***************************************************************************)
EXTENDS Naturals

CONSTANTS Page,      \* pages open in the browser
          Call,      \* concurrent calls, of any page
          CsrfToken, \* values of the cookie
          None

ASSUME NoneAssumption == None \notin CsrfToken \cup Page

VARIABLES
    jar,     \* the cookie
    open,    \* open[p]: the page has finished API.init
    token,   \* token[p]: API.csrfToken
    tried,   \* tried[p]: retryCount is 1
    call,    \* call[k]: a call, or the fetch of the token when a page starts
    crossed  \* history: crossed[k], see RefusedTwiceMeansCrossed

vars == <<jar, open, token, tried, call, crossed>>

\* The first request of a call is sent and answered; a refused one fetches a
\* token (fetch, token, body: sent, answered, being read; pause: to be repeated).
Stage == {"idle", "sent", "answered", "fetch", "token", "body", "pause", "done"}
Request == [page : Page \cup {None}, method : {"init", "get", "change"}, at : Stage,
            header : CsrfToken \cup {None}, cookie : CsrfToken \cup {None},
            set : CsrfToken \cup {None}, answer : {"none", "ok", "csrf", "error"},
            retried : BOOLEAN, runs : 0..2]
Quiet == [page |-> None, method |-> "get", at |-> "idle", header |-> None, cookie |-> None,
          set |-> None, answer |-> "none", retried |-> FALSE, runs |-> 0]

Active(k) == call[k].at \notin {"idle", "done"}
Busy(p) == \E k \in Call : Active(k) /\ call[k].page = p
Cookie(t) == IF t = None THEN jar ELSE t

\* generateCSRFToken: 32 random bytes are none of those still around.
InUse == {jar} \cup {token[p] : p \in Page}
            \cup UNION {{call[k].header, call[k].cookie, call[k].set} : k \in Call}
Fresh == CHOOSE t \in CsrfToken : t \notin InUse

Init ==
    /\ jar = None
    /\ open = [p \in Page |-> FALSE]
    /\ token = [p \in Page |-> None]
    /\ tried = [p \in Page |-> FALSE]
    /\ call = [k \in Call |-> Quiet]
    /\ crossed = [k \in Call |-> FALSE]

-----------------------------------------------------------------------------
\* The page

Send(r, t) == [r EXCEPT !.at = "sent", !.cookie = jar, !.header = IF r.method = "change" THEN t ELSE None]
Fetch(r, c) == [r EXCEPT !.at = "fetch", !.cookie = c, !.header = None, !.set = None]
End(r, answer) == [Quiet EXCEPT !.method = r.method, !.at = "done", !.answer = answer,
                                !.runs = r.runs]

\* API.init of a page opened or loaded again.
Open(p, k) ==
    /\ ~Active(k) /\ ~Busy(p)
    /\ open' = [open EXCEPT ![p] = FALSE]
    /\ token' = [token EXCEPT ![p] = None]
    /\ tried' = [tried EXCEPT ![p] = FALSE]
    /\ call' = [call EXCEPT ![k] = Fetch([Quiet EXCEPT !.page = p, !.method = "init"], jar)]
    /\ crossed' = [crossed EXCEPT ![k] = FALSE]
    /\ UNCHANGED jar

Begin(p, k, method) ==
    /\ ~Active(k) /\ open[p]
    /\ call' = [call EXCEPT ![k] = Send([Quiet EXCEPT !.page = p, !.method = method], token[p])]
    /\ crossed' = [crossed EXCEPT ![k] = FALSE]
    /\ UNCHANGED <<jar, open, token, tried>>

\* Mutant: options.retried is not passed on.
RepeatsAgain(r) == r.answer = "csrf"
\* Mutant: answers of a handler that has run are repeated, too.
RepeatsError(r) == r.answer \in {"csrf", "error"} /\ ~r.retried
\* Mutant: both.
RepeatsAny(r) == r.answer \in {"csrf", "error"}

Repeats(r) == r.answer = "csrf" /\ ~r.retried

\* The browser stores the cookie of an answer; the call ends or fetches a token.
Receive(k) ==
    /\ call[k].at = "answered"
    /\ jar' = Cookie(call[k].set)
    /\ call' = [call EXCEPT ![k] = IF Repeats(@) THEN Fetch(@, jar') ELSE End(@, @.answer)]
    /\ crossed' = [j \in Call |-> IF j = k THEN crossed[j] /\ ~Repeats(call[k])
                                  ELSE crossed[j] \/ jar' # jar]
    /\ UNCHANGED <<open, token, tried>>

\* Aborted after 30 s, or the connection failed.
GiveUp(k) ==
    /\ call[k].at \in {"sent", "answered"}
    /\ call' = [call EXCEPT ![k] = End(@, "error")]
    /\ UNCHANGED <<jar, open, token, tried, crossed>>

\* fetchCSRFToken: the cookie is stored before the body is read.
ReceiveToken(k) ==
    /\ call[k].at = "token"
    /\ jar' = Cookie(call[k].set)
    /\ call' = [call EXCEPT ![k].at = "body"]
    /\ crossed' = [j \in Call |-> crossed[j] \/ (j # k /\ jar' # jar)]
    /\ UNCHANGED <<open, token, tried>>

\* What waits for fetchCSRFToken goes on, with a new token or not.
Continue(k, t) ==
    IF call[k].method = "init"
    THEN /\ call' = [call EXCEPT ![k] = End(@, "ok")]
         /\ open' = [open EXCEPT ![call[k].page] = TRUE]
    ELSE /\ call' = [call EXCEPT ![k] =
                        Send([@ EXCEPT !.retried = TRUE, !.answer = "none", !.set = None], t)]
         /\ UNCHANGED open

\* The token read is in header; the frame has no request in flight then.
ReadToken(k) ==
    /\ call[k].at = "body"
    /\ token' = [token EXCEPT ![call[k].page] = call[k].header]
    /\ Continue(k, call[k].header)
    /\ crossed' = [j \in Call |-> crossed[j]
                      \/ (j # k /\ call[j].page = call[k].page /\ token' # token)]
    /\ UNCHANGED <<jar, tried>>

\* The catch clause: one more try for the life of the page, a second later.
FetchFails(k) ==
    /\ call[k].at \in {"fetch", "token", "body"}
    /\ IF tried[call[k].page]
       THEN Continue(k, token[call[k].page]) /\ UNCHANGED tried
       ELSE /\ call' = [call EXCEPT ![k] = [@ EXCEPT !.at = "pause", !.header = None,
                                                     !.cookie = None, !.set = None]]
            /\ tried' = [tried EXCEPT ![call[k].page] = TRUE]
            /\ UNCHANGED open
    /\ crossed' = [crossed EXCEPT ![k] = TRUE]
    /\ UNCHANGED <<jar, token>>

FetchAgain(k) ==
    /\ call[k].at = "pause"
    /\ call' = [call EXCEPT ![k] = Fetch(@, jar)]
    /\ UNCHANGED <<jar, open, token, tried, crossed>>

\* After twelve hours, or deleted by the user.
CookieExpires ==
    /\ jar # None
    /\ jar' = None
    /\ crossed' = [k \in Call |-> TRUE]
    /\ UNCHANGED <<open, token, tried, call>>

-----------------------------------------------------------------------------
\* The server

Matches(r) == r.cookie # None /\ r.header = r.cookie

\* ensureToken and the handler.
ServeGet(k) ==
    /\ call[k].at = "sent" /\ call[k].method = "get"
    /\ LET r == [call[k] EXCEPT !.at = "answered", !.runs = @ + 1, !.cookie = None,
                                !.set = IF call[k].cookie = None THEN Fresh ELSE None]
       IN  \E answer \in {"ok", "error"} : call' = [call EXCEPT ![k] = [r EXCEPT !.answer = answer]]
    /\ UNCHANGED <<jar, open, token, tried, crossed>>

\* Protect refuses, or the handler runs.
ServeChange(k) ==
    /\ call[k].at = "sent" /\ call[k].method = "change"
    /\ LET r == [call[k] EXCEPT !.at = "answered", !.header = None, !.cookie = None]
           ran == [r EXCEPT !.runs = @ + 1]
       IN  \/ /\ ~Matches(call[k])
              /\ call' = [call EXCEPT ![k] = [r EXCEPT !.answer = "csrf"]]
           \/ /\ Matches(call[k])
              /\ \E answer \in {"ok", "error"} :
                    call' = [call EXCEPT ![k] = [ran EXCEPT !.answer = answer]]
    /\ UNCHANGED <<jar, open, token, tried, crossed>>

\* Mutant: the body has the token that ensureToken made for the same request.
TokenOfEnsure(r) ==
    LET t == IF r.cookie = None THEN Fresh ELSE r.cookie
    IN  [r EXCEPT !.at = "token", !.header = t, !.cookie = None,
                  !.set = IF r.cookie = None THEN CHOOSE u \in CsrfToken \ {t} : u \notin InUse
                          ELSE None]

\* Of two Set-Cookie lines, of ensureToken and of GetToken, the later counts.
TokenAnswer(r) ==
    LET t == IF r.cookie = None THEN Fresh ELSE r.cookie
    IN  [r EXCEPT !.at = "token", !.header = t, !.cookie = None,
                  !.set = IF r.cookie = None THEN t ELSE None]

GetToken(k) ==
    /\ call[k].at = "fetch"
    /\ call' = [call EXCEPT ![k] = TokenAnswer(@)]
    /\ UNCHANGED <<jar, open, token, tried, crossed>>

-----------------------------------------------------------------------------
Step(k) ==
    \/ Receive(k) \/ GiveUp(k) \/ ReceiveToken(k) \/ ReadToken(k) \/ FetchFails(k) \/ FetchAgain(k)
    \/ ServeGet(k) \/ ServeChange(k) \/ GetToken(k)

Next ==
    \/ \E p \in Page, k \in Call :
          Open(p, k) \/ \E method \in {"get", "change"} : Begin(p, k, method)
    \/ \E k \in Call : Step(k)
    \/ CookieExpires

\* Every request is answered or fails: the timeout of a call, the network's of a fetch.
Spec == Init /\ [][Next]_vars /\ \A k \in Call : WF_vars(Step(k))

-----------------------------------------------------------------------------
TypeOK ==
    /\ jar \in CsrfToken \cup {None}
    /\ open \in [Page -> BOOLEAN]
    /\ token \in [Page -> CsrfToken \cup {None}]
    /\ tried \in [Page -> BOOLEAN]
    /\ call \in [Call -> Request]
    /\ crossed \in [Call -> BOOLEAN]

(***************************************************************************)
(* Repeating a call never repeats its effect: the handler runs at most     *)
(* once, it has run if the call succeeded, and it has not if the call was  *)
(* refused for its token.                                                  *)
(***************************************************************************)
RunsOnce ==
    \A k \in Call :
        /\ call[k].runs <= 1
        /\ call[k].at = "done" /\ call[k].method # "init" =>
              /\ call[k].answer = "ok" => call[k].runs = 1
              /\ call[k].answer = "csrf" => call[k].runs = 0

(***************************************************************************)
(* One repetition is enough unless calls cross: a call is refused for good *)
(* only if, after it asked for a token, that failed, the cookie expired,   *)
(* or another call changed the cookie or the token of the page.            *)
(***************************************************************************)
RefusedTwiceMeansCrossed ==
    \A k \in Call : call[k].at = "done" /\ call[k].answer = "csrf" => crossed[k]

(***************************************************************************)
(* Every call ends, although a refused one fetches a token and is sent     *)
(* again, also if the cookie is lost again and again.                      *)
(***************************************************************************)
CallsEnd == \A k \in Call : Active(k) ~> ~Active(k)
=============================================================================
