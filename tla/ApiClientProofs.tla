-------------------------- MODULE ApiClientProofs ---------------------------
(***************************************************************************)
(* Proofs about ApiClient, for any pages, any calls and any tokens, as     *)
(* long as a new token is always to be had.                                *)
(***************************************************************************)
EXTENDS ApiClient, TLAPS

\* The server can still generate a value that nobody has.
CanMint == \E t \in CsrfToken : t \notin InUse

Maybe == CsrfToken \cup {None}

\* How often the handler of a call has run.
RunsInv(r) ==
    /\ r.at \notin {"answered", "done"} => r.runs = 0
    /\ r.at = "answered" => /\ r.answer = "csrf" => r.runs = 0
                            /\ r.answer # "csrf" => r.runs = 1
    /\ r.at = "done" => /\ r.runs <= 1
                        /\ r.method # "init" => /\ r.answer = "ok" => r.runs = 1
                                                /\ r.answer = "csrf" => r.runs = 0

(***************************************************************************)
(* What holds of a call nothing has crossed (j is the cookie): the token   *)
(* it fetches is the one the browser has or will have, so that the         *)
(* repetition is not refused.  Only calls that change something repeat.    *)
(***************************************************************************)
TokenInv(r, crossing, j) ==
    /\ r.at \notin {"idle", "done"} => r.page \in Page
    /\ r.answer = "csrf" => r.method = "change"
    /\ r.retried => r.method = "change"
    /\ r.at \in {"fetch", "token", "body", "pause"} => r.method # "get"
    /\ r.at = "pause" => crossing
    /\ ~crossing =>
          /\ r.at = "fetch" => r.cookie = j
          /\ r.at = "token" => r.header # None /\ r.header = IF r.set = None THEN j ELSE r.set
          /\ r.at = "body" => r.header # None /\ r.header = j
          /\ r.at = "sent" /\ r.retried => r.cookie # None /\ r.header = r.cookie
          /\ r.at = "answered" /\ r.retried => r.answer # "csrf"
          /\ r.at = "done" => r.answer # "csrf"

CallInv(r, crossing, j) == r \in Request /\ RunsInv(r) /\ TokenInv(r, crossing, j)

IInv ==
    /\ jar \in Maybe
    /\ open \in [Page -> BOOLEAN]
    /\ token \in [Page -> Maybe]
    /\ tried \in [Page -> BOOLEAN]
    /\ crossed \in [Call -> BOOLEAN]
    /\ call \in [Call -> Request]
    /\ \A k \in Call : CallInv(call[k], crossed[k], jar)

-----------------------------------------------------------------------------
\* A step of one call: the others are as before, or something crossed them.
LEMMA OneCall ==
    ASSUME IInv, NEW k \in Call, NEW r, call' = [call EXCEPT ![k] = r],
           crossed' \in [Call -> BOOLEAN], CallInv(r, crossed'[k], jar'),
           \A i \in Call \ {k} : crossed'[i] \/ (crossed'[i] = crossed[i] /\ jar' = jar),
           jar' \in Maybe, open' \in [Page -> BOOLEAN], token' \in [Page -> Maybe],
           tried' \in [Page -> BOOLEAN]
    PROVE  IInv'
<1>1. r \in Request
  BY DEF CallInv
<1>2. call' \in [Call -> Request]
  BY <1>1 DEF IInv
<1>3. ASSUME NEW i \in Call PROVE CallInv(call'[i], crossed'[i], jar')
  <2>1. CASE i = k
    BY <2>1 DEF IInv
  <2>2. CASE i # k
    <3>1. call'[i] = call[i] /\ CallInv(call[i], crossed[i], jar)
      BY <2>2 DEF IInv
    <3>2. CASE crossed'[i]
      BY <3>1, <3>2 DEF CallInv, TokenInv
    <3>3. CASE crossed'[i] = crossed[i] /\ jar' = jar
      BY <3>1, <3>3
    <3> QED
      BY <2>2, <3>2, <3>3
  <2> QED
    BY <2>1, <2>2
<1> QED
  BY <1>2, <1>3 DEF IInv, Maybe

\* A new token is a token.
LEMMA FreshToken == CanMint => Fresh \in CsrfToken
BY DEF CanMint, Fresh

-----------------------------------------------------------------------------
\* The records of calls, field by field.

\* A quiet call.
LEMMA QuietFields ==
    /\ Quiet \in Request
    /\ Quiet.at = "idle" /\ Quiet.answer = "none" /\ ~Quiet.retried /\ Quiet.runs = 0
BY DEF Quiet, Request, Stage

\* A call is sent, with a token if it changes something.
LEMMA SendFields ==
    ASSUME NEW r \in Request, NEW t \in Maybe, jar \in Maybe
    PROVE  /\ Send(r, t) \in Request
           /\ \A f \in {"page", "method", "set", "answer", "retried", "runs"} : Send(r, t)[f] = r[f]
           /\ Send(r, t).retried <=> r.retried
           /\ Send(r, t).at = "sent" /\ Send(r, t).cookie = jar
           /\ r.method = "change" => Send(r, t).header = t
BY DEF Send, Request, Stage, Maybe

\* A token is fetched.
LEMMA FetchFields ==
    ASSUME NEW r \in Request, NEW c \in Maybe
    PROVE  /\ Fetch(r, c) \in Request
           /\ \A f \in {"page", "method", "answer", "retried", "runs"} : Fetch(r, c)[f] = r[f]
           /\ Fetch(r, c).retried <=> r.retried
           /\ Fetch(r, c).at = "fetch" /\ Fetch(r, c).cookie = c
BY DEF Fetch, Request, Stage, Maybe

\* A call ends.
LEMMA EndFields ==
    ASSUME NEW r \in Request, NEW answer \in {"none", "ok", "csrf", "error"}
    PROVE  /\ End(r, answer) \in Request
           /\ End(r, answer).method = r.method /\ End(r, answer).runs = r.runs
           /\ End(r, answer).at = "done" /\ End(r, answer).answer = answer
           /\ ~End(r, answer).retried
BY DEF End, Quiet, Request, Stage

-----------------------------------------------------------------------------
\* Initially all is quiet.
LEMMA InitIInv == Init => IInv
<1>1. \A c \in BOOLEAN : CallInv(Quiet, c, None)
  BY QuietFields DEF CallInv, Quiet, RunsInv, TokenInv
<1> QED
  BY <1>1, QuietFields DEF Init, IInv, Maybe

\* A call of a page, before anything is sent.
Asked(p, m) == [Quiet EXCEPT !.page = p, !.method = m]

\* It has sent and received nothing.
LEMMA NewCall ==
    ASSUME NEW p \in Page, NEW m \in {"init", "get", "change"}
    PROVE  /\ Asked(p, m) \in Request /\ Asked(p, m).page = p /\ Asked(p, m).method = m
           /\ Asked(p, m).answer = "none" /\ ~Asked(p, m).retried /\ Asked(p, m).runs = 0
BY QuietFields DEF Request, Asked

\* A page opens.
LEMMA OpenStep ==
    ASSUME IInv, NEW p \in Page, NEW k \in Call, Open(p, k)
    PROVE  IInv'
<1> USE DEF IInv
<1> DEFINE r == Fetch(Asked(p, "init"), jar)
<1>1. /\ call' = [call EXCEPT ![k] = r] /\ jar' = jar
      /\ crossed' = [crossed EXCEPT ![k] = FALSE]
      /\ open' \in [Page -> BOOLEAN] /\ token' \in [Page -> Maybe] /\ tried' \in [Page -> BOOLEAN]
  BY DEF Open, Maybe, Asked
<1>2. CallInv(r, FALSE, jar)
  <2>1. r \in Request /\ r.at = "fetch" /\ r.cookie = jar
        /\ r.page = p /\ r.method = "init" /\ r.answer = "none" /\ ~r.retried /\ r.runs = 0
    <3>1. /\ Asked(p, "init") \in Request /\ Asked(p, "init").page = p
          /\ Asked(p, "init").method = "init" /\ Asked(p, "init").answer = "none"
          /\ ~Asked(p, "init").retried /\ Asked(p, "init").runs = 0
      BY NewCall
    <3> QED
      BY <3>1, FetchFields
  <2> HIDE DEF r
  <2> QED
    BY <2>1 DEF CallInv, RunsInv, TokenInv
<1> HIDE DEF r
<1> QED
  BY <1>1, <1>2, OneCall

\* A call begins.
LEMMA BeginStep ==
    ASSUME IInv, NEW p \in Page, NEW k \in Call, NEW m \in {"get", "change"}, Begin(p, k, m)
    PROVE  IInv'
<1> USE DEF IInv
<1> DEFINE r == Send(Asked(p, m), token[p])
<1>1. /\ call' = [call EXCEPT ![k] = r] /\ jar' = jar
      /\ crossed' = [crossed EXCEPT ![k] = FALSE]
      /\ open' \in [Page -> BOOLEAN] /\ token' \in [Page -> Maybe] /\ tried' \in [Page -> BOOLEAN]
  BY DEF Begin, Asked
<1>2. CallInv(r, FALSE, jar)
  <2>1. r \in Request /\ r.at = "sent"
        /\ r.page = p /\ r.answer = "none" /\ ~r.retried /\ r.runs = 0
    <3>1. /\ Asked(p, m) \in Request /\ Asked(p, m).page = p /\ Asked(p, m).answer = "none"
          /\ ~Asked(p, m).retried /\ Asked(p, m).runs = 0
      BY NewCall
    <3> QED
      BY <3>1, SendFields
  <2> HIDE DEF r
  <2> QED
    BY <2>1 DEF CallInv, RunsInv, TokenInv
<1> HIDE DEF r
<1> QED
  BY <1>1, <1>2, OneCall

\* An answer ends the call, or a refused one asks for a token.
LEMMA ReceiveStep ==
    ASSUME IInv, NEW k \in Call, Receive(k)
    PROVE  IInv'
<1> USE DEF IInv
<1>1. /\ call[k] \in Request /\ call[k].at = "answered"
      /\ RunsInv(call[k]) /\ TokenInv(call[k], crossed[k], jar)
  BY DEF CallInv, Receive
<1>2. jar' \in Maybe
  BY <1>1 DEF Receive, Cookie, Request, Maybe
<1>3. /\ crossed' \in [Call -> BOOLEAN]
      /\ crossed'[k] = (crossed[k] /\ ~Repeats(call[k]))
      /\ \A i \in Call \ {k} : crossed'[i] = (crossed[i] \/ jar' # jar)
  BY DEF Receive
<1>4. open' \in [Page -> BOOLEAN] /\ token' \in [Page -> Maybe] /\ tried' \in [Page -> BOOLEAN]
  BY DEF Receive
<1>5. CASE Repeats(call[k])
  <2> DEFINE r == Fetch(call[k], jar')
  <2>1. r \in Request /\ r.at = "fetch" /\ r.cookie = jar' /\ r.page = call[k].page
        /\ r.method = call[k].method /\ r.answer = call[k].answer
        /\ r.retried = call[k].retried /\ r.runs = call[k].runs
    BY <1>1, <1>2, FetchFields
  <2>2. call' = [call EXCEPT ![k] = r]
    BY <1>5 DEF Receive
  <2> HIDE DEF r
  <2>3. CallInv(r, crossed'[k], jar')
    BY <1>1, <1>5, <2>1 DEF CallInv, RunsInv, TokenInv, Repeats
  <2> QED
    BY <1>2, <1>3, <1>4, <2>2, <2>3, OneCall
<1>6. CASE ~Repeats(call[k])
  <2> DEFINE r == End(call[k], call[k].answer)
  <2>1. r \in Request /\ r.method = call[k].method /\ r.runs = call[k].runs
        /\ r.at = "done" /\ r.answer = call[k].answer /\ ~r.retried
    <3>1. call[k].answer \in {"none", "ok", "csrf", "error"}
      BY <1>1 DEF Request
    <3> QED
      BY <1>1, <3>1, EndFields
  <2>2. call' = [call EXCEPT ![k] = r]
    BY <1>6 DEF Receive
  <2> HIDE DEF r
  <2>3. CallInv(r, crossed'[k], jar')
    BY <1>1, <1>3, <1>6, <2>1 DEF CallInv, RunsInv, TokenInv, Repeats
  <2> QED
    BY <1>2, <1>3, <1>4, <2>2, <2>3, OneCall
<1> QED
  BY <1>5, <1>6

\* A call is given up.
LEMMA GiveUpStep ==
    ASSUME IInv, NEW k \in Call, GiveUp(k)
    PROVE  IInv'
<1> USE DEF IInv
<1> DEFINE r == End(call[k], "error")
<1>1. /\ call[k] \in Request /\ call[k].at \in {"sent", "answered"}
      /\ RunsInv(call[k]) /\ TokenInv(call[k], crossed[k], jar)
  BY DEF CallInv, GiveUp
<1>2. r \in Request /\ r.method = call[k].method /\ r.runs = call[k].runs
      /\ r.at = "done" /\ r.answer = "error" /\ ~r.retried
  BY <1>1, EndFields
<1>3. call' = [call EXCEPT ![k] = r] /\ UNCHANGED <<jar, open, token, tried, crossed>>
  BY DEF GiveUp
<1> HIDE DEF r
<1>4. CallInv(r, crossed[k], jar)
  BY <1>1, <1>2 DEF CallInv, RunsInv, TokenInv
<1> QED
  BY <1>3, <1>4, OneCall

\* The cookie that comes with a token is stored.
LEMMA ReceiveTokenStep ==
    ASSUME IInv, NEW k \in Call, ReceiveToken(k)
    PROVE  IInv'
<1> USE DEF IInv
<1> DEFINE r == [call[k] EXCEPT !.at = "body"]
<1>1. /\ call[k] \in Request /\ call[k].at = "token"
      /\ RunsInv(call[k]) /\ TokenInv(call[k], crossed[k], jar)
  BY DEF CallInv, ReceiveToken
<1>2. jar' = Cookie(call[k].set) /\ jar' \in Maybe
  BY <1>1 DEF ReceiveToken, Cookie, Request, Maybe
<1>3. r \in Request /\ r.at = "body" /\ r.header = call[k].header /\ r.page = call[k].page
      /\ r.method = call[k].method /\ r.answer = call[k].answer
      /\ r.retried = call[k].retried /\ r.runs = call[k].runs
  BY <1>1 DEF Request, Stage
<1>4. /\ call' = [call EXCEPT ![k] = r] /\ UNCHANGED <<open, token, tried>>
      /\ crossed' \in [Call -> BOOLEAN] /\ crossed'[k] = crossed[k]
      /\ \A i \in Call \ {k} : crossed'[i] = (crossed[i] \/ jar' # jar)
  BY DEF ReceiveToken
<1> HIDE DEF r
<1>5. CallInv(r, crossed'[k], jar')
  BY <1>1, <1>2, <1>3, <1>4 DEF CallInv, RunsInv, TokenInv, Cookie
<1> QED
  BY <1>2, <1>4, <1>5, OneCall

(***************************************************************************)
(* What waits for fetchCSRFToken goes on: the call is sent with the token  *)
(* of the cookie, or was crossed.                                          *)
(***************************************************************************)
LEMMA ContinueStep ==
    ASSUME IInv, NEW k \in Call, NEW t \in Maybe, Continue(k, t),
           call[k].at \in {"fetch", "token", "body"},
           crossed' \in [Call -> BOOLEAN], crossed'[k] \/ (t # None /\ t = jar), jar' = jar,
           \A i \in Call \ {k} : crossed'[i] \/ crossed'[i] = crossed[i],
           token' \in [Page -> Maybe], tried' \in [Page -> BOOLEAN]
    PROVE  IInv'
<1> USE DEF IInv
<1>1. /\ call[k] \in Request /\ RunsInv(call[k]) /\ TokenInv(call[k], crossed[k], jar)
  BY DEF CallInv
<1>2. CASE call[k].method = "init"
  <2> DEFINE r == End(call[k], "ok")
  <2>1. r \in Request /\ r.method = call[k].method /\ r.runs = call[k].runs
        /\ r.at = "done" /\ r.answer = "ok" /\ ~r.retried
    BY <1>1, EndFields
  <2>2. call' = [call EXCEPT ![k] = r] /\ open' \in [Page -> BOOLEAN]
    BY <1>2 DEF Continue
  <2> HIDE DEF r
  <2>3. CallInv(r, crossed'[k], jar')
    BY <1>1, <1>2, <2>1 DEF CallInv, RunsInv, TokenInv
  <2> QED
    BY <2>2, <2>3, OneCall
<1>3. CASE call[k].method # "init"
  <2> DEFINE q == [call[k] EXCEPT !.retried = TRUE, !.answer = "none", !.set = None]
             r == Send(q, t)
  <2>1. call[k].method = "change"
    BY <1>1, <1>3 DEF TokenInv, Request
  <2>2. q \in Request /\ q.page = call[k].page /\ q.method = "change" /\ q.answer = "none"
        /\ q.runs = call[k].runs
    BY <1>1, <2>1 DEF Request
  <2>3. call' = [call EXCEPT ![k] = r] /\ open' \in [Page -> BOOLEAN]
    BY <1>3 DEF Continue
  <2>4. r \in Request /\ r.at = "sent" /\ r.page = call[k].page /\ r.method = "change"
        /\ r.answer = "none" /\ r.runs = call[k].runs /\ r.cookie = jar /\ r.header = t
    <3> HIDE DEF q
    <3> QED
      BY <2>2, SendFields
  <2> HIDE DEF r
  <2>5. CallInv(r, crossed'[k], jar')
    BY <1>1, <2>4 DEF CallInv, RunsInv, TokenInv
  <2> QED
    BY <2>3, <2>5, OneCall
<1> QED
  BY <1>2, <1>3

\* The token is read.
LEMMA ReadTokenStep ==
    ASSUME IInv, NEW k \in Call, ReadToken(k)
    PROVE  IInv'
<1> USE DEF IInv
<1>1. /\ call[k] \in Request /\ call[k].at = "body" /\ TokenInv(call[k], crossed[k], jar)
  BY DEF CallInv, ReadToken
<1>2. call[k].header \in Maybe
  BY <1>1 DEF Request, Maybe
<1>3. /\ crossed' \in [Call -> BOOLEAN] /\ crossed'[k] = crossed[k]
      /\ \A i \in Call \ {k} : crossed'[i] \/ crossed'[i] = crossed[i]
  BY DEF ReadToken
<1>4. crossed[k] \/ (call[k].header # None /\ call[k].header = jar)
  BY <1>1 DEF TokenInv
<1>5. Continue(k, call[k].header) /\ jar' = jar /\ token' \in [Page -> Maybe] /\ tried' = tried
  BY <1>2 DEF ReadToken
<1> QED
  BY <1>1, <1>2, <1>3, <1>4, <1>5, ContinueStep

\* fetchCSRFToken fails.
LEMMA FetchFailsStep ==
    ASSUME IInv, NEW k \in Call, FetchFails(k)
    PROVE  IInv'
<1> USE DEF IInv
<1>1. /\ call[k] \in Request /\ call[k].at \in {"fetch", "token", "body"}
      /\ RunsInv(call[k]) /\ TokenInv(call[k], crossed[k], jar)
  BY DEF CallInv, FetchFails
<1>2. call[k].page \in Page
  BY <1>1 DEF TokenInv
<1>3. /\ crossed' \in [Call -> BOOLEAN] /\ crossed'[k]
      /\ \A i \in Call \ {k} : crossed'[i] = crossed[i]
      /\ jar' = jar /\ token' = token
  BY DEF FetchFails
<1>4. CASE tried[call[k].page]
  <2>1. Continue(k, token[call[k].page]) /\ tried' = tried
    BY <1>4 DEF FetchFails
  <2>2. token[call[k].page] \in Maybe
    BY <1>2
  <2> QED
    BY <1>1, <1>3, <2>1, <2>2, ContinueStep
<1>5. CASE ~tried[call[k].page]
  <2> DEFINE r == [call[k] EXCEPT !.at = "pause", !.header = None, !.cookie = None, !.set = None]
  <2>1. r \in Request /\ r.at = "pause" /\ r.page = call[k].page /\ r.method = call[k].method
        /\ r.answer = call[k].answer /\ r.retried = call[k].retried /\ r.runs = call[k].runs
    BY <1>1 DEF Request, Stage
  <2>2. call' = [call EXCEPT ![k] = r] /\ open' = open /\ tried' \in [Page -> BOOLEAN]
    BY <1>5 DEF FetchFails
  <2> HIDE DEF r
  <2>3. CallInv(r, crossed'[k], jar')
    BY <1>1, <1>3, <2>1 DEF CallInv, RunsInv, TokenInv
  <2> QED
    BY <1>3, <2>2, <2>3, OneCall
<1> QED
  BY <1>4, <1>5

\* fetchCSRFToken tries again.
LEMMA FetchAgainStep ==
    ASSUME IInv, NEW k \in Call, FetchAgain(k)
    PROVE  IInv'
<1> USE DEF IInv
<1> DEFINE r == Fetch(call[k], jar)
<1>1. /\ call[k] \in Request /\ call[k].at = "pause"
      /\ RunsInv(call[k]) /\ TokenInv(call[k], crossed[k], jar)
  BY DEF CallInv, FetchAgain
<1>2. r \in Request /\ r.at = "fetch" /\ r.cookie = jar /\ r.page = call[k].page
      /\ r.method = call[k].method /\ r.answer = call[k].answer
      /\ r.retried = call[k].retried /\ r.runs = call[k].runs
  BY <1>1, FetchFields
<1>3. call' = [call EXCEPT ![k] = r] /\ UNCHANGED <<jar, open, token, tried, crossed>>
  BY DEF FetchAgain
<1> HIDE DEF r
<1>4. CallInv(r, crossed[k], jar)
  BY <1>1, <1>2 DEF CallInv, RunsInv, TokenInv
<1> QED
  BY <1>3, <1>4, OneCall

\* The cookie expires: that crosses every call.
LEMMA ExpiryStep ==
    ASSUME IInv, CookieExpires
    PROVE  IInv'
<1> USE DEF IInv
<1>1. \A k \in Call : CallInv(call[k], TRUE, None)
  BY DEF CallInv, TokenInv
<1> QED
  BY <1>1 DEF CookieExpires, Maybe

-----------------------------------------------------------------------------
\* A page is served.
LEMMA ServeGetStep ==
    ASSUME IInv, CanMint, NEW k \in Call, ServeGet(k)
    PROVE  IInv'
<1> USE DEF IInv
<1>1. /\ call[k] \in Request /\ call[k].at = "sent" /\ call[k].method = "get"
      /\ RunsInv(call[k]) /\ TokenInv(call[k], crossed[k], jar)
  BY DEF CallInv, ServeGet
<1> DEFINE set == IF call[k].cookie = None THEN Fresh ELSE None
           ran == [call[k] EXCEPT !.at = "answered", !.runs = @ + 1, !.cookie = None, !.set = set]
           r(answer) == [ran EXCEPT !.answer = answer]
<1>2. call[k].runs + 1 = 1 /\ 1 \in 0..2
  BY <1>1 DEF RunsInv
<1>3. set \in CsrfToken \cup {None}
  BY FreshToken
<1>4. PICK answer \in {"ok", "error"} : call' = [call EXCEPT ![k] = r(answer)]
  BY DEF ServeGet
<1>5. r(answer) \in Request /\ r(answer).at = "answered" /\ r(answer).answer = answer
      /\ r(answer).page = call[k].page /\ r(answer).method = "get"
      /\ r(answer).retried = call[k].retried /\ r(answer).runs = 1
  <2> HIDE DEF set
  <2>1. ran \in Request /\ ran.at = "answered" /\ ran.page = call[k].page /\ ran.method = "get"
        /\ ran.retried = call[k].retried /\ ran.runs = 1
    BY <1>1, <1>2, <1>3 DEF Request, Stage
  <2> HIDE DEF ran
  <2> QED
    BY <2>1 DEF Request
<1>6. UNCHANGED <<jar, open, token, tried, crossed>>
  BY DEF ServeGet
<1> HIDE DEF r
<1>7. CallInv(r(answer), crossed[k], jar)
  BY <1>1, <1>5 DEF CallInv, RunsInv, TokenInv
<1> QED
  BY <1>4, <1>6, <1>7, OneCall

\* Protect refuses, or the handler runs.
LEMMA ServeChangeStep ==
    ASSUME IInv, NEW k \in Call, ServeChange(k)
    PROVE  IInv'
<1> USE DEF IInv
<1>1. /\ call[k] \in Request /\ call[k].at = "sent" /\ call[k].method = "change"
      /\ RunsInv(call[k]) /\ TokenInv(call[k], crossed[k], jar) /\ call[k].runs = 0
  BY DEF CallInv, ServeChange, RunsInv
<1> DEFINE q == [call[k] EXCEPT !.at = "answered", !.header = None, !.cookie = None]
           refused == [q EXCEPT !.answer = "csrf"]
           more == [q EXCEPT !.runs = @ + 1]
           ran(answer) == [more EXCEPT !.answer = answer]
<1>2. UNCHANGED <<jar, open, token, tried, crossed>>
  BY DEF ServeChange
<1>3. q \in Request /\ q.at = "answered" /\ q.page = call[k].page /\ q.method = "change"
      /\ q.retried = call[k].retried /\ q.runs = 0
  BY <1>1 DEF Request, Stage
<1>4. CASE ~Matches(call[k]) /\ call' = [call EXCEPT ![k] = refused]
  <2>1. CallInv(refused, crossed[k], jar)
    <3> HIDE DEF q
    <3>1. refused \in Request /\ refused.at = "answered" /\ refused.page = q.page
          /\ refused.method = q.method /\ refused.answer = "csrf"
          /\ refused.retried = q.retried /\ refused.runs = q.runs
      BY <1>3 DEF Request
    <3> HIDE DEF refused
    <3> QED
      BY <1>1, <1>3, <1>4, <3>1 DEF CallInv, RunsInv, TokenInv, Matches
  <2> HIDE DEF refused
  <2> QED
    BY <1>2, <1>4, <2>1, OneCall
<1>5. ASSUME NEW answer \in {"ok", "error"}, call' = [call EXCEPT ![k] = ran(answer)] PROVE IInv'
  <2>1. CallInv(ran(answer), crossed[k], jar)
    <3> HIDE DEF q
    <3>1. ran(answer) \in Request /\ ran(answer).at = "answered" /\ ran(answer).page = q.page
          /\ ran(answer).method = q.method /\ ran(answer).answer = answer
          /\ ran(answer).retried = q.retried /\ ran(answer).runs = 1
      <4>1. more \in Request /\ more.at = "answered" /\ more.page = q.page
            /\ more.method = q.method /\ more.retried = q.retried /\ more.runs = 1
        BY <1>3 DEF Request
      <4> HIDE DEF more
      <4> QED
        BY <4>1 DEF Request
    <3> HIDE DEF ran
    <3> QED
      BY <1>1, <1>3, <3>1 DEF CallInv, RunsInv, TokenInv
  <2> HIDE DEF ran
  <2> QED
    BY <1>2, <1>5, <2>1, OneCall
<1> QED
  BY <1>4, <1>5 DEF ServeChange

\* The body has the token of the cookie the browser has or is sent.
LEMMA GetTokenStep ==
    ASSUME IInv, CanMint, NEW k \in Call, GetToken(k)
    PROVE  IInv'
<1> USE DEF IInv
<1>1. /\ call[k] \in Request /\ call[k].at = "fetch"
      /\ RunsInv(call[k]) /\ TokenInv(call[k], crossed[k], jar)
  BY DEF CallInv, GetToken
<1> DEFINE t == IF call[k].cookie = None THEN Fresh ELSE call[k].cookie
           set == IF call[k].cookie = None THEN t ELSE None
           r == [call[k] EXCEPT !.at = "token", !.header = t, !.cookie = None, !.set = set]
<1>2. t \in CsrfToken /\ t # None /\ set \in CsrfToken \cup {None}
  BY <1>1, FreshToken, NoneAssumption DEF Request
<1>3. t = (IF set = None THEN call[k].cookie ELSE set)
  BY <1>2
<1>4. call' = [call EXCEPT ![k] = r] /\ UNCHANGED <<jar, open, token, tried, crossed>>
  BY DEF GetToken, TokenAnswer
<1>5. r \in Request /\ r.at = "token" /\ r.header = t /\ r.set = set /\ r.page = call[k].page
      /\ r.method = call[k].method /\ r.answer = call[k].answer
      /\ r.retried = call[k].retried /\ r.runs = call[k].runs
  <2> HIDE DEF t, set
  <2> QED
    BY <1>1, <1>2 DEF Request, Stage
<1> HIDE DEF t, set, r
<1>6. CallInv(r, crossed[k], jar)
  BY <1>1, <1>2, <1>3, <1>5 DEF CallInv, RunsInv, TokenInv
<1> QED
  BY <1>4, <1>6, OneCall

-----------------------------------------------------------------------------
\* Every step keeps the invariant.
LEMMA NextIInv == IInv /\ CanMint /\ [Next]_vars => IInv'
<1> SUFFICES ASSUME IInv, CanMint, [Next]_vars PROVE IInv'
  OBVIOUS
<1>1. CASE UNCHANGED vars
  BY <1>1 DEF vars, IInv, Maybe
<1>2. ASSUME NEW p \in Page, NEW k \in Call,
             Open(p, k) \/ \E method \in {"get", "change"} : Begin(p, k, method)
      PROVE  IInv'
  BY <1>2, OpenStep, BeginStep
<1>3. ASSUME NEW k \in Call, Step(k) PROVE IInv'
  BY <1>3, ReceiveStep, GiveUpStep, ReceiveTokenStep, ReadTokenStep, FetchFailsStep,
     FetchAgainStep, ServeGetStep, ServeChangeStep, GetTokenStep DEF Step
<1> QED
  BY <1>1, <1>2, <1>3, ExpiryStep DEF Next

\* The invariant holds as long as tokens can be had.
LEMMA IInvHolds == Spec /\ []CanMint => []IInv
BY InitIInv, NextIInv, PTL DEF Spec

(***************************************************************************)
(* Types of the pages, the calls and the cookie.                           *)
(***************************************************************************)
THEOREM ClientTypeCorrect == Spec /\ []CanMint => []TypeOK
<1>1. IInv => TypeOK
  BY DEF IInv, TypeOK, Maybe
<1> QED
  BY <1>1, IInvHolds, PTL

(***************************************************************************)
(* API.request never repeats the effect of a call, whatever other calls    *)
(* and pages do.                                                           *)
(***************************************************************************)
THEOREM RunsOnceTheorem == Spec /\ []CanMint => []RunsOnce
<1>1. IInv => RunsOnce
  <2> SUFFICES ASSUME IInv, NEW k \in Call
               PROVE  /\ call[k].runs <= 1
                      /\ call[k].at = "done" /\ call[k].method # "init" =>
                            /\ call[k].answer = "ok" => call[k].runs = 1
                            /\ call[k].answer = "csrf" => call[k].runs = 0
    BY DEF RunsOnce
  <2>1. call[k] \in Request /\ RunsInv(call[k])
    BY DEF IInv, CallInv
  <2> QED
    BY <2>1 DEF RunsInv, Request, Stage
<1> QED
  BY <1>1, IInvHolds, PTL

(***************************************************************************)
(* One repetition of a refused call is enough, unless its token's fetch    *)
(* failed, the cookie expired, or another call of any page crossed it.     *)
(***************************************************************************)
THEOREM RefusedTwiceTheorem == Spec /\ []CanMint => []RefusedTwiceMeansCrossed
<1>1. IInv => RefusedTwiceMeansCrossed
  BY DEF IInv, CallInv, TokenInv, RefusedTwiceMeansCrossed
<1> QED
  BY <1>1, IInvHolds, PTL
=============================================================================
