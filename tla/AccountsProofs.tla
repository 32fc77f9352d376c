--------------------------- MODULE AccountsProofs ---------------------------
(***************************************************************************)
(* Proofs about Accounts, for any connections, addresses, names, passwords *)
(* and tokens, and any way the commands may end.                           *)
(***************************************************************************)
EXTENDS Accounts, TLAPS

\* A request carries what its handler has read by then.
Carries(r) ==
    /\ r.at # "idle" => r.email \in Email /\ r.name \in Name /\ r.hash \in Password
    /\ r.at = "opening" => r.tok \in Token
    /\ r.at # "done" => r.answer = "none"

\* The row is the one the request has asked for.
Founded(r) == users[r.email] = [name |-> r.name, hash |-> r.hash]

\* Sessions are opened for accounts, one for each: until its founder opens it
\* there is none, and no other request is about to.
OneFounder ==
    /\ \A p \in Call : req[p].answer = "created" \/ req[p].at \in {"session", "opening"} =>
          Founded(req[p])
    /\ \A t \in Token : owner[t] # None => Registered(owner[t])
    /\ \A p \in Call, t \in Token : req[p].at = "session" => owner[t] # req[p].email
    /\ \A p, q \in Call : req[p].at = "session" /\ req[q].at = "session" /\ p # q =>
          req[p].email # req[q].email
    /\ \A s, t \in Token : owner[s] # None /\ owner[s] = owner[t] => s = t

\* A session being opened has a request that opens it, and a request a
\* connection.
Attended ==
    /\ \A t \in Token : status[t] = "opening" =>
          \E p \in Call : req[p].at = "opening" /\ req[p].tok = t
    /\ \A p \in Call : req[p].at # "idle" => p \in conns

\* What one goroutine of run knows of the other: done says that Shutdown has
\* returned, and once it has done so in time nothing is or will be accepted.
StopOrder ==
    /\ main = "closing" => done
    /\ done => stopper \in {"drained", "overdue"}
    /\ stopper = "drained" => conns = {} /\ main # "serving"

IInv == TypeOK /\ (\A p \in Call : Carries(req[p])) /\ OneFounder /\ Attended /\ StopOrder

-----------------------------------------------------------------------------
\* A row is none of the missing ones: names are not None.
LEMMA RowIsNoNoRow == NoRow \notin Row
  BY NoneAssumption DEF NoRow, Row

\* The invariant holds before the first request.
LEMMA InitInv == Init => IInv
<1> SUFFICES ASSUME Init PROVE IInv
  OBVIOUS
<1>1. TypeOK
  BY DEF Init, TypeOK, Sessions!Init, Sessions!Stage, Quiet, Request, Stage, Answer,
         Run!RunInit, Run!RunTypeOK, Run!Main, Run!Stopper, Run!Pools
<1>2. (\A p \in Call : Carries(req[p])) /\ OneFounder
  BY DEF Init, Carries, OneFounder, Quiet, Sessions!Init
<1>3. Attended /\ StopOrder
  BY DEF Init, Attended, StopOrder, Quiet, Sessions!Init, Run!RunInit
<1> QED BY <1>1, <1>2, <1>3 DEF IInv

\* A request goes on or is answered without a store being touched.
LEMMA RequestMoves ==
    ASSUME IInv, NEW p \in Call, req[p].at # "idle", req[p].at # "opening",
           UNCHANGED <<users, status, owner, posting, inbox, runVars>>,
           \/ req[p].at # "done" /\ \E s \in {"name", "insert"} : Go(p, s)
           \/ \E a \in {"conflict", "error"} : Reply(p, a)
    PROVE  IInv'
<1> USE DEF IInv
<1>0. /\ req' \in [Call -> Request] /\ \A q \in Call \ {p} : req'[q] = req[q]
      /\ req'[p].email = req[p].email /\ req'[p].name = req[p].name
      /\ req'[p].hash = req[p].hash
      /\ \/ req'[p].at \in {"name", "insert"} /\ req'[p].answer = "none"
         \/ req'[p].at = "done" /\ req'[p].answer \in {"conflict", "error"}
  BY DEF TypeOK, Request, Stage, Answer, Carries, Go, Reply
<1>1. TypeOK'
  <2>1. Run!RunTypeOK'
    BY DEF TypeOK, Run!RunTypeOK, runVars
  <2> QED BY <1>0, <2>1 DEF TypeOK
<1>2. \A q \in Call : Carries(req[q])'
  BY <1>0 DEF Carries
<1>3. OneFounder'
  BY <1>0 DEF OneFounder, Founded, Registered
<1>4. Attended' /\ StopOrder'
  BY <1>0 DEF Attended, StopOrder, runVars
<1> QED BY <1>1, <1>2, <1>3, <1>4

\* The response has been written; the connection may end with it.
LEMMA FinishStep == ASSUME IInv, NEW p \in Call, Finish(p) PROVE IInv'
<1> USE DEF IInv
<1>1. /\ req[p].at = "done" /\ req' = [req EXCEPT ![p] = Quiet]
      /\ UNCHANGED <<users, status, owner, posting, inbox>>
  BY DEF Finish
<1>2. /\ UNCHANGED <<main, stopper, done, pools>>
      /\ conns' \subseteq conns /\ conns \ {p} \subseteq conns'
  BY DEF Finish, Run!Respond
<1>3. TypeOK'
  BY <1>1, <1>2 DEF TypeOK, Request, Stage, Answer, Quiet, Run!RunTypeOK
<1>4. \A q \in Call : Carries(req[q])'
  BY <1>1 DEF TypeOK, Carries, Quiet
<1>5. OneFounder'
  BY <1>1 DEF TypeOK, OneFounder, Founded, Registered, Quiet
<1>6. Attended' /\ StopOrder'
  BY <1>1, <1>2 DEF TypeOK, Attended, StopOrder, Quiet
<1> QED BY <1>3, <1>4, <1>5, <1>6

\* A request with valid data for Register.
LEMMA ArriveStep == ASSUME IInv, NEW p \in Call, Arrive(p) PROVE IInv'
<1> USE DEF IInv
<1>0. Quiet \in Request /\ Quiet.answer = "none"
  BY DEF Quiet, Request, Stage, Answer
<1>a. /\ req' \in [Call -> Request] /\ \A q \in Call \ {p} : req'[q] = req[q]
      /\ req'[p].email \in Email /\ req'[p].name \in Name /\ req'[p].hash \in Password
      /\ req'[p].at = "email" /\ req'[p].answer = "none"
  <2>1. PICK e \in Email, n \in Name, h \in Password :
          req' = [req EXCEPT ![p] = [Quiet EXCEPT !.at = "email", !.email = e, !.name = n,
                                                  !.hash = h]]
    BY DEF Arrive
  <2> QED BY <1>0, <2>1 DEF TypeOK, Request, Stage
<1>b. p \in conns /\ UNCHANGED <<users, status, owner, posting, inbox, runVars>>
  BY DEF Arrive
<1>1. TypeOK'
  BY <1>a, <1>b DEF TypeOK, Run!RunTypeOK, runVars
<1>2. \A q \in Call : Carries(req[q])'
  BY <1>a DEF TypeOK, Carries
<1>3. OneFounder'
  BY <1>a, <1>b DEF TypeOK, OneFounder, Founded, Registered
<1>4. Attended' /\ StopOrder'
  BY <1>a, <1>b, Arrive(p) DEF TypeOK, Attended, StopOrder, Arrive, runVars
<1> QED BY <1>1, <1>2, <1>3, <1>4

\* INSERT touches no row there is, so no founder loses his.
LEMMA InsertStep == ASSUME IInv, NEW p \in Call, InsertUser(p) PROVE IInv'
<1> DEFINE e == req[p].email
<1> USE DEF IInv
<1>1. /\ req[p] \in Request /\ req[p].at = "insert" /\ e \in Email
      /\ Asked(p) \in Row /\ Asked(p) # NoRow
      /\ users \in [Email -> Row \cup {NoRow}]
  BY RowIsNoNoRow DEF InsertUser, TypeOK, Carries, Asked, Row
<1>2. PICK o \in Endings :
        /\ users' = IF Applied(o) /\ MayInsert(p) THEN [users EXCEPT ![e] = Asked(p)] ELSE users
        /\ IF Reported(o) /\ MayInsert(p) THEN Go(p, "session") ELSE Reply(p, "error")
  BY DEF InsertUser
<1>3. UNCHANGED <<status, owner, posting, inbox, runVars>>
  BY DEF InsertUser
<1>4. \A d \in Email : Registered(d) => users'[d] = users[d]
  BY <1>1, <1>2 DEF MayInsert
<1>5. /\ req' \in [Call -> Request]
      /\ \A q \in Call \ {p} : req'[q] = req[q]
      /\ req'[p].email = e /\ req'[p].name = req[p].name /\ req'[p].hash = req[p].hash
      /\ req'[p].at \in {"session", "done"}
      /\ req'[p].at = "session" => req'[p].answer = req[p].answer
      /\ req'[p].at = "done" => req'[p].answer = "error"
  BY <1>1, <1>2 DEF TypeOK, Go, Reply, Request, Stage, Answer
<1>6. req'[p].at = "session" => ~Registered(e) /\ users'[e] = Asked(p)
  BY <1>1, <1>2 DEF Go, Reply, TypeOK, Request, MayInsert, Reported, Applied
<1>7. TypeOK'
  BY <1>1, <1>2, <1>3, <1>5 DEF TypeOK, Run!RunTypeOK, runVars
<1>8. \A q \in Call : Carries(req[q])'
  BY <1>1, <1>5 DEF Carries
<1>9. OneFounder'
  <2>1. ASSUME NEW q \in Call,
               req'[q].answer = "created" \/ req'[q].at \in {"session", "opening"}
        PROVE  Founded(req[q])'
    <3>1. CASE q = p
      BY <1>5, <1>6, <2>1, <3>1 DEF Founded, Asked
    <3>2. CASE q # p
      <4>1. Founded(req[q]) /\ req'[q] = req[q]
        BY <1>5, <2>1, <3>2 DEF OneFounder
      <4>2. req[q].email \in Email /\ Registered(req[q].email)
        BY <4>1, <2>1, <1>1, RowIsNoNoRow DEF Founded, Registered, Carries, Row
      <4> QED BY <1>4, <4>1, <4>2 DEF Founded
    <3> QED BY <3>1, <3>2
  <2>2. \A t \in Token : owner'[t] # None => Registered(owner[t])'
    BY <1>3, <1>4 DEF OneFounder, Registered, TypeOK
  <2>3. \A q \in Call, t \in Token : req'[q].at = "session" => owner'[t] # req'[q].email
    BY <1>1, <1>3, <1>5, <1>6, NoneAssumption DEF OneFounder
  <2>4. \A q, r \in Call : req'[q].at = "session" /\ req'[r].at = "session" /\ q # r =>
            req'[q].email # req'[r].email
    <3>1. ASSUME NEW q \in Call, req[q].at = "session" PROVE Registered(req[q].email)
      <4>1. Founded(req[q]) /\ req[q].name \in Name /\ req[q].hash \in Password
        BY <3>1 DEF OneFounder, Carries
      <4>2. [name |-> req[q].name, hash |-> req[q].hash] \in Row
        BY <4>1 DEF Row
      <4> QED BY <4>1, <4>2, RowIsNoNoRow DEF Founded, Registered
    <3> QED BY <1>1, <1>5, <1>6, <3>1 DEF OneFounder
  <2> QED BY <1>3, <2>1, <2>2, <2>3, <2>4 DEF OneFounder
<1>10. Attended' /\ StopOrder'
  BY <1>1, <1>3, <1>5 DEF Attended, StopOrder, runVars
<1> QED BY <1>7, <1>8, <1>9, <1>10

\* CreateSession makes a session for an account that has none.
LEMMA OpenStep == ASSUME IInv, NEW p \in Call, OpenSession(p) PROVE IInv'
<1> DEFINE e == req[p].email
<1> USE DEF IInv
<1>1. PICK t \in Token :
        /\ status[t] = "fresh" /\ status' = [status EXCEPT ![t] = "opening"]
        /\ owner' = [owner EXCEPT ![t] = e]
        /\ req' = [req EXCEPT ![p].at = "opening", ![p].tok = t]
  BY DEF OpenSession, Sessions!Open
<1>2. req[p].at = "session" /\ UNCHANGED <<users, posting, inbox, runVars>>
  BY DEF OpenSession
<1>3. e \in Email /\ e # None /\ Founded(req[p])
  BY <1>2, NoneAssumption DEF Carries, OneFounder
<1>4. Registered(e)
  <2>1. users[e] \in Row
    BY <1>2, <1>3 DEF Founded, Carries, Row
  <2> QED BY <2>1, RowIsNoNoRow DEF Registered
<1>5. /\ \A q \in Call \ {p} : req'[q] = req[q]
      /\ req' \in [Call -> Request]
      /\ req'[p].at = "opening" /\ req'[p].tok = t /\ req'[p].answer = req[p].answer
      /\ req'[p].email = e /\ req'[p].name = req[p].name /\ req'[p].hash = req[p].hash
  BY <1>1 DEF TypeOK, Request, Stage
<1>6. TypeOK'
  BY <1>1, <1>2, <1>3, <1>5 DEF TypeOK, Sessions!Stage, Run!RunTypeOK, runVars
<1>7. \A q \in Call : Carries(req[q])'
  BY <1>2, <1>5 DEF Carries
<1>8. OneFounder'
  <2>1. \A q \in Call : req'[q].answer = "created" \/ req'[q].at \in {"session", "opening"} =>
            Founded(req[q])'
    BY <1>2, <1>3, <1>5 DEF OneFounder, Founded
  <2>2. \A s \in Token : owner'[s] # None => Registered(owner[s])'
    BY <1>1, <1>2, <1>4 DEF OneFounder, Registered, TypeOK
  <2>3. \A q \in Call, s \in Token : req'[q].at = "session" => owner'[s] # req'[q].email
    BY <1>1, <1>2, <1>5 DEF OneFounder, TypeOK
  <2>4. \A q, r \in Call : req'[q].at = "session" /\ req'[r].at = "session" /\ q # r =>
            req'[q].email # req'[r].email
    BY <1>5 DEF OneFounder
  <2>5. \A s \in Token : owner[s] # e
    BY <1>2 DEF OneFounder
  <2>6. \A r, s \in Token : owner'[r] # None /\ owner'[r] = owner'[s] => r = s
    BY <1>1, <2>5 DEF OneFounder, TypeOK
  <2> QED BY <2>1, <2>2, <2>3, <2>4, <2>6 DEF OneFounder
<1>9. Attended' /\ StopOrder'
  BY <1>1, <1>2, <1>5 DEF Attended, StopOrder, TypeOK, runVars
<1> QED BY <1>6, <1>7, <1>8, <1>9

\* CreateSession has ended, its request is answered.
LEMMA OpenedStep == ASSUME IInv, NEW p \in Call, SessionOpened(p) PROVE IInv'
<1> USE DEF IInv
<1>1. PICK stage \in {"live", "dead"}, ok \in BOOLEAN :
        /\ status' = [status EXCEPT ![req[p].tok] = stage]
        /\ Reply(p, IF ok THEN "created" ELSE "error")
        /\ posting' = IF ok THEN [posting EXCEPT ![req[p].email] = "mint"] ELSE posting
  BY DEF SessionOpened
<1>2. req[p].at = "opening" /\ UNCHANGED <<users, owner, inbox, runVars>>
  BY DEF SessionOpened
<1>3. PICK a \in {"created", "error"} : req' = [req EXCEPT ![p].at = "done", ![p].answer = a]
  BY <1>1 DEF Reply
<1>4. req[p].tok \in Token /\ req[p].email \in Email /\ Founded(req[p])
  BY <1>2 DEF Carries, OneFounder
<1>5. /\ \A q \in Call \ {p} : req'[q] = req[q]
      /\ req'[p] \in Request /\ req' \in [Call -> Request]
      /\ req'[p].at = "done"
      /\ req'[p].email = req[p].email /\ req'[p].name = req[p].name
      /\ req'[p].hash = req[p].hash
  BY <1>3 DEF TypeOK, Request, Stage, Answer
<1>6. TypeOK'
  BY <1>1, <1>2, <1>4, <1>5 DEF TypeOK, Sessions!Stage, Run!RunTypeOK, runVars
<1>7. \A q \in Call : Carries(req[q])'
  BY <1>2, <1>5 DEF Carries
<1>8. OneFounder'
  BY <1>2, <1>4, <1>5 DEF OneFounder, Founded, Registered
<1>9. Attended' /\ StopOrder'
  BY <1>1, <1>2, <1>4, <1>5 DEF Attended, StopOrder, TypeOK, runVars
<1> QED BY <1>6, <1>7, <1>8, <1>9

\* Steps that leave requests and accounts alone, and open no session.
LEMMA AsideStep ==
    ASSUME IInv, TypeOK', UNCHANGED <<users, owner, req>>,
           \A t \in Token : status'[t] = "opening" => status[t] = "opening",
           \A p \in conns \ conns' : req[p].at = "idle", StopOrder'
    PROVE  IInv'
  BY DEF IInv, Carries, OneFounder, Founded, Registered, Attended

\* The process ends and is started again.
LEMMA EndStep == ASSUME IInv, ProcessEnds PROVE IInv'
<1> USE DEF IInv
<1>1. /\ req' = [p \in Call |-> Quiet] /\ Run!Restart
      /\ posting' = [e \in Email |-> IF posting[e] = "none" THEN "none" ELSE "over"]
      /\ UNCHANGED <<users, owner, inbox>>
  BY DEF ProcessEnds
<1>2. PICK alive \in SUBSET Token :
        status' = [t \in Token |-> IF status[t] # "opening" THEN status[t]
                                  ELSE IF t \in alive THEN "live" ELSE "dead"]
  BY DEF ProcessEnds
<1>3. TypeOK'
  BY <1>1, <1>2 DEF TypeOK, Request, Stage, Answer, Quiet, Sessions!Stage, Run!Restart,
                    Run!RunTypeOK, Run!Main, Run!Stopper, Run!Pools
<1>4. \A q \in Call : Carries(req[q])'
  BY <1>1 DEF Carries, Quiet
<1>5. OneFounder'
  BY <1>1 DEF OneFounder, Quiet, Registered
<1>6. Attended' /\ StopOrder'
  BY <1>1, <1>2 DEF Attended, StopOrder, TypeOK, Quiet, Run!Restart
<1> QED BY <1>3, <1>4, <1>5, <1>6

\* A step of run or of its connections, in the order the channel brings about.
LEMMA ProcessStep ==
    ASSUME IInv, RunGoesOn \/ \E p \in Call : Connect(p) \/ Hangup(p)
    PROVE  IInv'
<1> USE DEF IInv
<1>1. UNCHANGED <<users, status, owner, req, posting, inbox>>
  BY DEF RunGoesOn, Connect, Hangup
<1>2. Run!RunTypeOK /\ StopOrder
  BY DEF TypeOK
<1>3. CASE RunGoesOn
  <2>1. Run!RunTypeOK'
    BY <1>2, <1>3 DEF RunGoesOn, Run!RunStep, Run!RunTypeOK, Run!Main, Run!Stopper, Run!Pools,
       Run!Signal, Run!Drain, Run!Overrun, Run!CloseDone, Run!Listen, Run!ServerClosed,
       Run!ListenFails, Run!ReceiveDone, Run!CloseRedis, Run!ClosePostgres
  <2>2. conns' = conns
    BY <1>3 DEF RunGoesOn, Run!RunStep,
       Run!Signal, Run!Drain, Run!Overrun, Run!CloseDone, Run!Listen, Run!ServerClosed,
       Run!ListenFails, Run!ReceiveDone, Run!CloseRedis, Run!ClosePostgres
  <2>3. StopOrder'
    <3>1. CASE Run!Signal \/ Run!Drain \/ Run!Overrun \/ Run!CloseDone
      BY <1>2, <3>1 DEF StopOrder, Run!Signal, Run!Drain, Run!Overrun, Run!CloseDone
    <3>2. CASE Run!Listen \/ Run!ServerClosed \/ Run!ListenFails \/ Run!ReceiveDone
      BY <1>2, <3>2 DEF StopOrder, Run!Listen, Run!ServerClosed, Run!ListenFails,
         Run!ReceiveDone
    <3>3. CASE Run!CloseRedis \/ Run!ClosePostgres
      BY <1>2, <3>3 DEF StopOrder, Run!CloseRedis, Run!ClosePostgres
    <3> QED BY <1>3, <3>1, <3>2, <3>3 DEF RunGoesOn, Run!RunStep
  <2>4. TypeOK'
    BY <1>1, <2>1 DEF TypeOK
  <2> QED BY <1>1, <2>2, <2>3, <2>4, AsideStep
<1>4. ASSUME NEW p \in Call, Connect(p) PROVE IInv'
  <2>1. TypeOK' /\ StopOrder' /\ conns \subseteq conns'
    BY <1>1, <1>2, <1>4 DEF TypeOK, StopOrder, Connect, Run!Accept, Run!RunTypeOK
  <2> QED BY <1>1, <2>1, AsideStep
<1>5. ASSUME NEW p \in Call, Hangup(p) PROVE IInv'
  <2>1. TypeOK' /\ StopOrder' /\ \A q \in conns \ conns' : req[q].at = "idle"
    BY <1>1, <1>2, <1>5 DEF TypeOK, StopOrder, Hangup, Run!Disconnect, Run!RunTypeOK
  <2> QED BY <1>1, <2>1, AsideStep
<1> QED BY <1>3, <1>4, <1>5

-----------------------------------------------------------------------------
\* Every step keeps the invariant.
LEMMA NextInv == IInv /\ [Next]_vars => IInv'
<1> SUFFICES ASSUME IInv, [Next]_vars PROVE IInv'
  OBVIOUS
<1>1. ASSUME NEW p \in Call, Serve(p) PROVE IInv'
  <2>1. CASE Arrive(p)
    BY <2>1, ArriveStep
  <2>2. CASE CheckEmail(p)
    BY <2>2, RequestMoves DEF CheckEmail, Reply, Go
  <2>3. CASE CheckName(p)
    BY <2>3, RequestMoves DEF CheckName, Reply, Go
  <2>4. CASE InsertUser(p)
    BY <2>4, InsertStep
  <2>5. CASE OpenSession(p)
    BY <2>5, OpenStep
  <2>6. CASE SessionOpened(p)
    BY <2>6, OpenedStep
  <2>7. CASE Finish(p)
    BY <2>7, FinishStep
  <2> QED BY <1>1, <2>1, <2>2, <2>3, <2>4, <2>5, <2>6, <2>7 DEF Serve
<1>2. ASSUME NEW e \in Email, MintLink(e) PROVE IInv'
  <2>1. TypeOK' /\ StopOrder'
    BY <1>2 DEF IInv, TypeOK, StopOrder, MintLink, Run!RunTypeOK, runVars
  <2> QED BY <1>2, <2>1, AsideStep DEF MintLink, runVars
<1>3. ASSUME NEW e \in Email, SendLink(e) PROVE IInv'
  <2>1. TypeOK' /\ StopOrder'
    BY <1>3 DEF IInv, TypeOK, StopOrder, SendLink, Run!RunTypeOK, runVars
  <2> QED BY <1>3, <2>1, AsideStep DEF SendLink, runVars
<1>4. ASSUME NEW t \in Token, SessionEnds(t) PROVE IInv'
  <2>1. TypeOK' /\ StopOrder'
    BY <1>4 DEF IInv, TypeOK, StopOrder, SessionEnds, Sessions!Stage, Run!RunTypeOK, runVars
  <2> QED BY <1>4, <2>1, AsideStep DEF SessionEnds, IInv, TypeOK, runVars
<1>5. CASE ServerCrash \/ Exit
  BY <1>5, EndStep DEF ServerCrash, Exit
<1>6. CASE RunGoesOn \/ \E p \in Call : Connect(p) \/ Hangup(p)
  BY <1>6, ProcessStep
<1>7. CASE UNCHANGED vars
  <2>1. TypeOK' /\ StopOrder'
    BY <1>7 DEF IInv, TypeOK, StopOrder, Run!RunTypeOK, vars, runVars
  <2> QED BY <1>7, <2>1, AsideStep DEF vars, runVars
<1> QED BY <1>1, <1>2, <1>3, <1>4, <1>5, <1>6, <1>7 DEF Next

\* The inductive invariant behind the theorems that follow.
THEOREM AccountsInvariant == Spec => []IInv
  BY InitInv, NextInv, PTL DEF Spec

\* Types and ranges of the accounts, sessions and requests.
THEOREM AccountsTypeCorrect == Spec => []TypeOK
  BY AccountsInvariant, PTL DEF IInv

\* Register and Create: of any number of registrations for one address, the
\* account is its founder's, and no other is given a session for it.
THEOREM FounderTheorem == Spec => []FounderOnly
<1>1. IInv => FounderOnly
  BY DEF IInv, OneFounder, Founded, FounderOnly
<1> QED BY <1>1, AccountsInvariant, PTL

\* The two goroutines of run: unless Shutdown gives up, the pools are closed when
\* every connection is, no request is left and no session is being opened.
THEOREM StopTheorem == Spec => []OrderlyStop
<1>1. IInv => OrderlyStop
  BY DEF IInv, Attended, StopOrder, OrderlyStop
<1> QED BY <1>1, AccountsInvariant, PTL
=============================================================================
