------------------------- MODULE SessionStoreProofs -------------------------
(***************************************************************************)
(* Proofs about SessionStore, for any number of calls, users and tokens,   *)
(* any session duration and every outcome of every command.                *)
(***************************************************************************)
EXTENDS SessionStore, TLAPS

\* A call working on a token it has generated and not yet handed out.
Owning == Creating \cup {"created"}

\* What the stores hold belongs to the user the token was issued to.
StoredAreIssued ==
    \A t \in Token : /\ InRedis(t) => redis[t].user = issued[t]
                     /\ InPg(t) => pg[t].user = issued[t]

\* A client only has tokens that were generated, and lists only name such.
KnownAreIssued ==
    /\ \A t \in delivered : issued[t] # None
    /\ \A c \in Call : \A t \in call[c].rows : issued[t] # None

\* A token being created is known to one call and to nobody else.
CreateInv ==
    \A c \in Call : call[c].at \in Owning =>
        /\ call[c].tok \in Token
        /\ call[c].user \in User
        /\ issued[call[c].tok] = call[c].user
        /\ call[c].tok \notin delivered
        /\ \A d \in Call \ {c} : call[d].at \in Owning => call[d].tok # call[c].tok

\* ... and until its INSERT it has no row anybody could have listed.
PendingInv ==
    \A c \in Call : call[c].at \in Creating =>
        /\ ~InPg(call[c].tok)
        /\ \A d \in Call : call[c].tok \notin call[d].rows

ValidateFacts(c) ==
    /\ call[c].at \in Validating \cup {"valid"} => call[c].tok \in delivered
    /\ call[c].at \in {"get", "select"} =>
          (Live(call[c].tok) => call[c].tok \in call[c].before)
    /\ call[c].at = "check" =>
          /\ call[c].user = issued[call[c].tok]
          /\ call[c].left > 0 => call[c].tok \in call[c].before
    /\ call[c].at \in {"extend", "lookup", "valid"} =>
          /\ call[c].user = issued[call[c].tok]
          /\ call[c].tok \in call[c].before

ValidateInv == \A c \in Call : ValidateFacts(c)

DeleteFacts(c) ==
    /\ call[c].at \in Deleting \cup {"deleted"} => call[c].tok \in delivered
    /\ call[c].at = "erase" /\ call[c].missed = {} => ~InRedis(call[c].tok)
    /\ call[c].at = "deleted" /\ call[c].missed = {} => ~Live(call[c].tok)

DeleteInv == \A c \in Call : DeleteFacts(c)

RevokeFacts(c) ==
    /\ call[c].at \in Revoking \cup {"revoked"} =>
          /\ call[c].user \in User
          /\ call[c].before \subseteq delivered
          /\ \A t \in call[c].before \cup call[c].rows : issued[t] = call[c].user
    /\ call[c].at = "sweep" =>
          \A t \in call[c].rows \ (call[c].todo \cup call[c].missed) : ~InRedis(t)
    /\ call[c].at = "revoked" =>
          /\ \A t \in call[c].before : ~InPg(t)
          /\ \A t \in call[c].rows \ call[c].missed : ~Live(t)

RevokeInv == \A c \in Call : RevokeFacts(c)

IInv == /\ TypeOK
        /\ StoredAreIssued
        /\ KnownAreIssued
        /\ CreateInv
        /\ PendingInv
        /\ ValidateInv
        /\ DeleteInv
        /\ RevokeInv

-----------------------------------------------------------------------------
\* Type correctness

\* The steps a call can be at are those named in the actions.
LEMMA StepNames ==
    /\ {"idle", "set", "insert", "get", "extend", "select", "check", "lookup",
        "unset", "erase", "list", "sweep"} \subseteq Step
    /\ {"created", "valid", "rejected", "deleted", "revoked", "failed"} \subseteq Step
  BY DEF Step, Creating, Validating, Deleting, Revoking, Result

\* An absent entry is well typed, and ageing stays within the duration.
LEMMA EntryFacts ==
    /\ Absent \in Entry
    /\ \A u \in User, n \in 0..SessionDuration : [user |-> u, left |-> n] \in Entry
    /\ 0 \in 0..SessionDuration /\ SessionDuration \in 0..SessionDuration
    /\ \A n \in 0..SessionDuration : Aged(n) \in 0..SessionDuration
  BY DurationAssumption DEF Absent, Entry, Aged

\* The calls that read or write the stores at a token do have one.
LEMMA TokenOfCall ==
    ASSUME IInv, NEW c \in Call, call[c].at \in Owning \cup Validating \cup Deleting
    PROVE  call[c].tok \in Token
  BY DEF IInv, TypeOK, CreateInv, ValidateInv, ValidateFacts, DeleteInv,
     DeleteFacts, Owning, Creating, Validating, Deleting

\* Writing an entry keeps a store well typed.
LEMMA WriteTyped ==
    ASSUME TypeOK, NEW t, NEW e \in Entry
    PROVE  /\ [redis EXCEPT ![t] = e] \in [Token -> Entry]
           /\ [pg EXCEPT ![t] = e] \in [Token -> Entry]
  BY DEF TypeOK

\* Moving call c on keeps the calls well typed.
LEMMA MoveTyped ==
    ASSUME TypeOK, NEW c \in Call, NEW step \in Step
    PROVE  [call EXCEPT ![c].at = step] \in [Call -> Frame]
  BY DEF TypeOK, Frame

\* Replacing the frame of call c keeps the calls well typed.
LEMMA BeginTyped ==
    ASSUME TypeOK, NEW c \in Call, NEW f \in Frame
    PROVE  [call EXCEPT ![c] = f] \in [Call -> Frame]
  BY DEF TypeOK

\* One round of the loop over tokenHashes keeps the frame well typed.
LEMMA SweepTyped ==
    ASSUME NEW f \in Frame, NEW t \in Token, NEW o
    PROVE  [f EXCEPT !.todo = @ \ {t},
                     !.missed = IF Applied(o) THEN @ ELSE @ \cup {t}] \in Frame
  BY DEF Frame

\* Every step keeps the variables well typed.
LEMMA TypeStep ==
    ASSUME IInv, [StoreNext]_storeVars
    PROVE  TypeOK'
<1> USE DEF IInv
<1>1. CASE UNCHANGED storeVars
  BY <1>1 DEF storeVars, TypeOK
<1>2. ASSUME NEW c \in Call, NEW u \in User, BeginCreate(c, u)
      PROVE  TypeOK'
  <2>1. PICK t \in Token :
           /\ issued' = [issued EXCEPT ![t] = u]
           /\ call' = [call EXCEPT ![c] = [Idle EXCEPT !.at = "set", !.tok = t, !.user = u,
                                                       !.left = SessionDuration]]
    BY <1>2 DEF BeginCreate
  <2>2. [Idle EXCEPT !.at = "set", !.tok = t, !.user = u, !.left = SessionDuration] \in Frame
    BY StepNames, EntryFacts DEF Idle, Frame
  <2>3. call' \in [Call -> Frame]
    BY <2>1, <2>2, BeginTyped
  <2> QED
    BY <1>2, <2>1, <2>3 DEF BeginCreate, TypeOK
<1>3. ASSUME NEW c \in Call, NEW u \in User, BeginDeleteAll(c, u)
      PROVE  TypeOK'
  <2>0. {t \in Usable : issued[t] = u} \in SUBSET Token
    BY DEF Usable, TypeOK
  <2>1. [Idle EXCEPT !.at = "list", !.user = u,
                     !.before = {t \in Usable : issued[t] = u}] \in Frame
    BY <2>0, StepNames, EntryFacts DEF Idle, Frame
  <2>2. call' \in [Call -> Frame]
    BY <1>3, <2>1, BeginTyped DEF BeginDeleteAll
  <2> QED
    BY <1>3, <2>2 DEF BeginDeleteAll, TypeOK
<1>4. ASSUME NEW c \in Call, NEW t \in Token, BeginValidate(c, t)
      PROVE  TypeOK'
  <2>0. Usable \cap {t} \in SUBSET Token
    BY DEF Usable, TypeOK
  <2>1. [Idle EXCEPT !.at = "get", !.tok = t, !.before = Usable \cap {t}] \in Frame
    BY <2>0, StepNames, EntryFacts DEF Idle, Frame
  <2>2. call' \in [Call -> Frame]
    BY <1>4, <2>1, BeginTyped DEF BeginValidate
  <2> QED
    BY <1>4, <2>2 DEF BeginValidate, TypeOK
<1>5. ASSUME NEW c \in Call, NEW t \in Token, BeginDelete(c, t)
      PROVE  TypeOK'
  <2>1. [Idle EXCEPT !.at = "unset", !.tok = t] \in Frame
    BY StepNames, EntryFacts DEF Idle, Frame
  <2>2. call' \in [Call -> Frame]
    BY <1>5, <2>1, BeginTyped DEF BeginDelete
  <2> QED
    BY <1>5, <2>2 DEF BeginDelete, TypeOK
<1>6. ASSUME NEW c \in Call, RedisSet(c)
      PROVE  TypeOK'
  <2>1. call[c].user \in User
    BY <1>6 DEF RedisSet, CreateInv, Owning, Creating
  <2>2. call' \in [Call -> Frame]
    BY <1>6, StepNames, MoveTyped DEF RedisSet
  <2>3. redis' \in [Token -> Entry]
    <3>1. [user |-> call[c].user, left |-> SessionDuration] \in Entry
      BY <2>1, EntryFacts
    <3> QED
      BY <1>6, <3>1, WriteTyped DEF RedisSet, TypeOK
  <2> QED
    BY <1>6, <2>2, <2>3 DEF RedisSet, TypeOK
<1>7. ASSUME NEW c \in Call, InsertSession(c)
      PROVE  TypeOK'
  <2>1. call[c].user \in User /\ call[c].left \in 0..SessionDuration
    BY <1>7 DEF InsertSession, CreateInv, Owning, Creating, TypeOK, Frame
  <2>2. call' \in [Call -> Frame]
    BY <1>7, StepNames, MoveTyped DEF InsertSession
  <2>3. pg' \in [Token -> Entry]
    <3>1. [user |-> call[c].user, left |-> call[c].left] \in Entry
      BY <2>1, EntryFacts
    <3> QED
      BY <1>7, <3>1, WriteTyped DEF InsertSession, TypeOK
  <2> QED
    BY <1>7, <2>2, <2>3 DEF InsertSession, TypeOK
<1>8. ASSUME NEW c \in Call, RedisGet(c)
      PROVE  TypeOK'
  <2>1. call[c].tok \in Token
    BY <1>8, TokenOfCall DEF RedisGet, Validating
  <2>2. [call[c] EXCEPT !.at = "extend", !.user = redis[call[c].tok].user] \in Frame
    BY <2>1, StepNames DEF TypeOK, Frame, Entry
  <2>3. [call EXCEPT ![c].at = "select"] \in [Call -> Frame]
    BY StepNames, MoveTyped
  <2>4. call' \in [Call -> Frame]
    BY <1>8, <2>2, <2>3, BeginTyped DEF RedisGet
  <2> QED
    BY <1>8, <2>4 DEF RedisGet, TypeOK
<1>9. ASSUME NEW c \in Call, RedisExpire(c)
      PROVE  TypeOK'
  <2>1. redis' \in [Token -> Entry]
    <3>1. call[c].tok \in Token
      BY <1>9, TokenOfCall DEF RedisExpire, Validating
    <3>2. [redis[call[c].tok] EXCEPT !.left = SessionDuration] \in Entry
      <4>1. redis[call[c].tok] \in Entry
        BY <3>1 DEF TypeOK
      <4> QED
        BY <4>1, EntryFacts DEF Entry
    <3>3. [redis EXCEPT ![call[c].tok].left = SessionDuration] \in [Token -> Entry]
      BY <3>2 DEF TypeOK
    <3> QED
      BY <1>9, <3>3 DEF RedisExpire, TypeOK
  <2>2. call' \in [Call -> Frame]
    BY <1>9, StepNames, MoveTyped DEF RedisExpire
  <2> QED
    BY <1>9, <2>1, <2>2 DEF RedisExpire, TypeOK
<1>10. ASSUME NEW c \in Call, SelectSession(c)
       PROVE  TypeOK'
  <2>1. call[c].tok \in Token
    BY <1>10, TokenOfCall DEF SelectSession, Validating
  <2>2. pg[call[c].tok].user \in User \cup {None} /\ pg[call[c].tok].left \in 0..SessionDuration
    BY <2>1 DEF TypeOK, Entry
  <2>3. [call[c] EXCEPT !.at = "check", !.user = pg[call[c].tok].user,
                         !.left = pg[call[c].tok].left] \in Frame
    BY <2>2, StepNames DEF TypeOK, Frame
  <2>4. call' \in [Call -> Frame]
    BY <1>10, <2>3, StepNames, MoveTyped, BeginTyped DEF SelectSession
  <2> QED
    BY <1>10, <2>4 DEF SelectSession, TypeOK
<1>11. ASSUME NEW c \in Call, CheckExpiry(c)
       PROVE  TypeOK'
  <2>1. pg' \in [Token -> Entry]
    <3>1. [pg EXCEPT ![call[c].tok] = Absent] \in [Token -> Entry]
      BY EntryFacts, WriteTyped
    <3> QED
      BY <1>11, <3>1 DEF CheckExpiry, TypeOK
  <2>2. call' \in [Call -> Frame]
    <3>1. [call EXCEPT ![c].at = "lookup"] \in [Call -> Frame]
      BY StepNames, MoveTyped
    <3>2. [call EXCEPT ![c].at = "rejected"] \in [Call -> Frame]
      BY StepNames, MoveTyped
    <3> QED
      BY <1>11, <3>1, <3>2 DEF CheckExpiry
  <2> QED
    BY <1>11, <2>1, <2>2 DEF CheckExpiry, TypeOK
<1>12. ASSUME NEW c \in Call, LookupUser(c)
       PROVE  TypeOK'
  <2>1. call' \in [Call -> Frame]
    BY <1>12, StepNames, MoveTyped DEF LookupUser
  <2> QED
    BY <1>12, <2>1 DEF LookupUser, TypeOK
<1>13. ASSUME NEW c \in Call, RedisDel(c)
       PROVE  TypeOK'
  <2>1. PICK o \in RedisOutcomes :
           /\ redis' = IF Applied(o) THEN [redis EXCEPT ![call[c].tok] = Absent] ELSE redis
           /\ call' = [call EXCEPT ![c] = [@ EXCEPT !.at = "erase",
                                      !.missed = IF Applied(o) THEN {} ELSE {call[c].tok}]]
    BY <1>13 DEF RedisDel
  <2>2. [call[c] EXCEPT !.at = "erase", !.missed = IF Applied(o) THEN {} ELSE {call[c].tok}] \in Frame
    <3>1. call[c].tok \in Token /\ call[c] \in Frame
      BY <1>13, TokenOfCall DEF RedisDel, Deleting, TypeOK
    <3> QED
      BY <3>1, StepNames DEF Frame
  <2>3. call' \in [Call -> Frame]
    BY <2>1, <2>2, BeginTyped
  <2>4. redis' \in [Token -> Entry]
    BY <2>1, EntryFacts DEF TypeOK
  <2> QED
    BY <1>13, <2>3, <2>4 DEF RedisDel, TypeOK
<1>14. ASSUME NEW c \in Call, EraseSession(c)
       PROVE  TypeOK'
  <2>1. pg' \in [Token -> Entry]
    BY <1>14, EntryFacts DEF EraseSession, TypeOK
  <2>2. call' \in [Call -> Frame]
    BY <1>14, StepNames, MoveTyped DEF EraseSession
  <2> QED
    BY <1>14, <2>1, <2>2 DEF EraseSession, TypeOK
<1>15. ASSUME NEW c \in Call, ListSessions(c)
       PROVE  TypeOK'
  <2>1. CASE call' = [call EXCEPT ![c].at = "failed"]
    BY <1>15, <2>1, StepNames, MoveTyped DEF ListSessions, TypeOK
  <2>2. ASSUME NEW got \in SUBSET RowsOf(call[c].user),
               call' = [call EXCEPT ![c] =
                          [@ EXCEPT !.at = "sweep", !.rows = got, !.todo = got]]
        PROVE  TypeOK'
    <3>1. got \subseteq Token
      BY DEF RowsOf
    <3>2. [call[c] EXCEPT !.at = "sweep", !.rows = got, !.todo = got] \in Frame
      BY <3>1, StepNames DEF TypeOK, Frame
    <3>3. call' \in [Call -> Frame]
      BY <2>2, <3>2, BeginTyped
    <3> QED
      BY <1>15, <3>3 DEF ListSessions, TypeOK
  <2> QED
    BY <1>15, <2>1, <2>2 DEF ListSessions
<1>16. ASSUME NEW c \in Call, SweepRedis(c)
       PROVE  TypeOK'
  <2>1. PICK t \in call[c].todo, o \in RedisOutcomes :
           /\ redis' = IF Applied(o) THEN [redis EXCEPT ![t] = Absent] ELSE redis
           /\ call' = [call EXCEPT ![c] = [call[c] EXCEPT
                      !.todo = @ \ {t}, !.missed = IF Applied(o) THEN @ ELSE @ \cup {t}]]
    BY <1>16 DEF SweepRedis
  <2>2. redis' \in [Token -> Entry]
    BY <2>1, EntryFacts DEF TypeOK
  <2>3. [call[c] EXCEPT
                      !.todo = @ \ {t}, !.missed = IF Applied(o) THEN @ ELSE @ \cup {t}] \in Frame
    <3>1. t \in Token /\ call[c] \in Frame
      BY DEF TypeOK, Frame
    <3> QED
      BY <3>1, SweepTyped
  <2>4. call' \in [Call -> Frame]
    BY <2>1, <2>3, BeginTyped
  <2> QED
    BY <1>16, <2>2, <2>4 DEF SweepRedis, TypeOK
<1>17. ASSUME NEW c \in Call, EraseUserSessions(c)
       PROVE  TypeOK'
  <2>1. pg' \in [Token -> Entry]
    BY <1>17, EntryFacts DEF EraseUserSessions, TypeOK
  <2>2. call' \in [Call -> Frame]
    BY <1>17, StepNames, MoveTyped DEF EraseUserSessions
  <2> QED
    BY <1>17, <2>1, <2>2 DEF EraseUserSessions, TypeOK
<1>18. ASSUME NEW c \in Call, Return(c)
       PROVE  TypeOK'
  <2>1. Idle \in Frame
    BY StepNames, EntryFacts DEF Idle, Frame
  <2>2. delivered' \subseteq Token
    BY <1>18, TokenOfCall DEF Return, TypeOK, Owning
  <2> QED
    BY <1>18, <2>1, <2>2, BeginTyped DEF Return, TypeOK
<1>19. ASSUME NEW t \in Token, RedisLoss(t)
       PROVE  TypeOK'
  <2>1. redis' \in [Token -> Entry]
    BY <1>19, EntryFacts, WriteTyped DEF RedisLoss
  <2> QED
    BY <1>19, <2>1 DEF RedisLoss, TypeOK
<1>20. CASE Tick
  <2>1. redis' \in [Token -> Entry] /\ pg' \in [Token -> Entry]
    <3>1. \A t \in Token : /\ [redis[t] EXCEPT !.left = Aged(@)] \in Entry
                           /\ [pg[t] EXCEPT !.left = Aged(@)] \in Entry
      BY EntryFacts DEF TypeOK, Entry
    <3> QED
      BY <1>20, <3>1, EntryFacts DEF Tick
  <2>2. call' \in [Call -> Frame]
    <3>1. ASSUME NEW f \in Frame
          PROVE  [f EXCEPT !.left = Aged(@)] \in Frame
      BY <3>1, EntryFacts DEF Frame
    <3> QED
      BY <1>20, <3>1 DEF Tick, TypeOK
  <2> QED
    BY <1>20, <2>1, <2>2 DEF Tick, TypeOK
<1>21. CASE Crash
  <2>1. Idle \in Frame
    BY StepNames, EntryFacts DEF Idle, Frame
  <2> QED
    BY <1>21, <2>1 DEF Crash, TypeOK
<1> QED
  BY <1>1, <1>2, <1>3, <1>4, <1>5, <1>6, <1>7, <1>8, <1>9, <1>10, <1>11, <1>12, <1>13,
     <1>14, <1>15, <1>16, <1>17, <1>18, <1>19, <1>20, <1>21
  DEF StoreNext, Begin, Command, Create, Validate, Delete, DeleteAll

-----------------------------------------------------------------------------
\* What the steps that touch several tokens or calls, or branch, can change

\* Time removes entries and never adds one; it changes no frame but its left.
LEMMA TickEffect ==
    ASSUME TypeOK, Tick
    PROVE  /\ UNCHANGED <<issued, delivered>>
           /\ \A d \in Call :
                 /\ call'[d].at = call[d].at /\ call'[d].tok = call[d].tok
                 /\ call'[d].user = call[d].user /\ call'[d].rows = call[d].rows
                 /\ call'[d].todo = call[d].todo /\ call'[d].before = call[d].before
                 /\ call'[d].missed = call[d].missed
                 /\ call'[d].left > 0 => call[d].left > 0
           /\ \A t \in Token :
                 /\ redis'[t].user \in {redis[t].user, None}
                 /\ pg'[t].user = pg[t].user
                 /\ pg'[t].left > 0 => pg[t].left > 0
<1>1. ASSUME NEW n \in 0..SessionDuration
      PROVE  Aged(n) > 0 => n > 0
  BY <1>1, DurationAssumption DEF Aged
<1>2. UNCHANGED <<issued, delivered>>
  BY DEF Tick
<1>3. ASSUME NEW d \in Call
      PROVE  /\ call'[d].at = call[d].at /\ call'[d].tok = call[d].tok
             /\ call'[d].user = call[d].user /\ call'[d].rows = call[d].rows
             /\ call'[d].todo = call[d].todo /\ call'[d].before = call[d].before
             /\ call'[d].missed = call[d].missed
             /\ call'[d].left > 0 => call[d].left > 0
  <2>1. call'[d] = [call[d] EXCEPT !.left = Aged(@)]
    BY <1>3 DEF Tick
  <2> QED
    BY <1>1, <1>3, <2>1 DEF TypeOK, Frame
<1>4. ASSUME NEW t \in Token
      PROVE  /\ redis'[t].user \in {redis[t].user, None}
             /\ pg'[t].user = pg[t].user
             /\ pg'[t].left > 0 => pg[t].left > 0
  <2>1. pg'[t] = [pg[t] EXCEPT !.left = Aged(@)]
    BY <1>4 DEF Tick
  <2>2. redis'[t] = Absent \/ redis'[t] = [redis[t] EXCEPT !.left = Aged(@)]
    BY <1>4 DEF Tick
  <2> QED
    BY <1>1, <1>4, <2>1, <2>2 DEF TypeOK, Entry, Absent
<1> QED
  BY <1>2, <1>3, <1>4

\* CheckExpiry adds no row and moves its call to "lookup" or "rejected".
LEMMA CheckEffect ==
    ASSUME TypeOK, NEW c \in Call, CheckExpiry(c)
    PROVE  /\ UNCHANGED <<redis, issued, delivered>>
           /\ call[c].at = "check"
           /\ call'[c].at = "rejected" \/ (call'[c].at = "lookup" /\ call[c].left > 0)
           /\ \A d \in Call \ {c} : call'[d] = call[d]
           /\ \A d \in Call :
                 /\ call'[d].tok = call[d].tok /\ call'[d].user = call[d].user
                 /\ call'[d].rows = call[d].rows /\ call'[d].todo = call[d].todo
                 /\ call'[d].before = call[d].before /\ call'[d].missed = call[d].missed
           /\ \A t \in Token : pg'[t] \in {pg[t], Absent}
<1>1. CASE call[c].left > 0 /\ call' = [call EXCEPT ![c].at = "lookup"] /\ UNCHANGED pg
  BY <1>1 DEF CheckExpiry, TypeOK, Frame
<1>2. CASE /\ call' = [call EXCEPT ![c].at = "rejected"]
           /\ \E o \in PgOutcomes :
                 pg' = IF Applied(o) THEN [pg EXCEPT ![call[c].tok] = Absent] ELSE pg
  BY <1>2 DEF CheckExpiry, TypeOK, Frame
<1> QED
  BY <1>1, <1>2 DEF CheckExpiry

\* ListSessions writes nothing; it moves its call to "failed" or "sweep".
LEMMA ListEffect ==
    ASSUME TypeOK, NEW c \in Call, ListSessions(c)
    PROVE  /\ UNCHANGED <<redis, pg, issued, delivered>>
           /\ call[c].at = "list"
           /\ \A d \in Call \ {c} : call'[d] = call[d]
           /\ \A d \in Call : /\ call'[d].tok = call[d].tok
                              /\ call'[d].user = call[d].user
                              /\ call'[d].before = call[d].before
           /\ \/ call'[c].at = "failed" /\ call'[c].rows = call[c].rows
              \/ /\ call'[c].at = "sweep"
                 /\ call'[c].rows \subseteq RowsOf(call[c].user)
                 /\ call'[c].todo = call'[c].rows
<1>1. ASSUME call' = [call EXCEPT ![c].at = "failed"]
      PROVE  /\ \A d \in Call \ {c} : call'[d] = call[d]
             /\ \A d \in Call : /\ call'[d].tok = call[d].tok
                                /\ call'[d].user = call[d].user
                                /\ call'[d].before = call[d].before
             /\ call'[c].at = "failed" /\ call'[c].rows = call[c].rows
  BY <1>1 DEF TypeOK, Frame
<1>2. ASSUME NEW got \in SUBSET RowsOf(call[c].user),
             call' = [call EXCEPT ![c] =
                        [@ EXCEPT !.at = "sweep", !.rows = got, !.todo = got]]
      PROVE  /\ \A d \in Call \ {c} : call'[d] = call[d]
             /\ \A d \in Call : /\ call'[d].tok = call[d].tok
                                /\ call'[d].user = call[d].user
                                /\ call'[d].before = call[d].before
             /\ call'[c].at = "sweep"
             /\ call'[c].rows \subseteq RowsOf(call[c].user)
             /\ call'[c].todo = call'[c].rows
  BY <1>2 DEF TypeOK, Frame
<1> QED
  BY <1>1, <1>2 DEF ListSessions

\* A listed session has been issued, and its row is in the table.
LEMMA ListedRows ==
    ASSUME IInv, NEW c \in Call, call[c].at \in Revoking, NEW t \in RowsOf(call[c].user)
    PROVE  /\ t \in Token
           /\ InPg(t)
           /\ issued[t] = call[c].user
           /\ issued[t] # None
  BY NoneAssumption DEF IInv, RowsOf, RevokeInv, RevokeFacts, StoredAreIssued, InPg

\* Every step keeps StoredAreIssued: stores only hold issued tokens, for their user.
LEMMA StoredStep ==
    ASSUME IInv, TypeOK', [StoreNext]_storeVars
    PROVE  StoredAreIssued'
<1> USE DEF IInv
<1>1. CASE UNCHANGED storeVars
  BY <1>1 DEF storeVars, StoredAreIssued, InRedis, InPg
<1>2. ASSUME NEW c \in Call, NEW u \in User, BeginCreate(c, u)
      PROVE  StoredAreIssued'
  BY <1>2 DEF BeginCreate, StoredAreIssued, InRedis, InPg
<1>3. ASSUME NEW c \in Call, NEW u \in User, BeginDeleteAll(c, u)
      PROVE  StoredAreIssued'
  BY <1>3 DEF BeginDeleteAll, StoredAreIssued, InRedis, InPg
<1>4. ASSUME NEW c \in Call, NEW t \in Token, BeginValidate(c, t)
      PROVE  StoredAreIssued'
  BY <1>4 DEF BeginValidate, StoredAreIssued, InRedis, InPg
<1>5. ASSUME NEW c \in Call, NEW t \in Token, BeginDelete(c, t)
      PROVE  StoredAreIssued'
  BY <1>5 DEF BeginDelete, StoredAreIssued, InRedis, InPg
<1>6. ASSUME NEW c \in Call, RedisSet(c)
      PROVE  StoredAreIssued'
  BY <1>6 DEF RedisSet, StoredAreIssued, CreateInv, Owning, Creating, InRedis, InPg
<1>7. ASSUME NEW c \in Call, InsertSession(c)
      PROVE  StoredAreIssued'
  BY <1>7 DEF InsertSession, StoredAreIssued, CreateInv, Owning, Creating, InRedis, InPg
<1>8. ASSUME NEW c \in Call, RedisGet(c)
      PROVE  StoredAreIssued'
  BY <1>8 DEF RedisGet, StoredAreIssued, InRedis, InPg
<1>9. ASSUME NEW c \in Call, RedisExpire(c)
      PROVE  StoredAreIssued'
  BY <1>9 DEF RedisExpire, StoredAreIssued, InRedis, InPg
<1>10. ASSUME NEW c \in Call, SelectSession(c)
       PROVE  StoredAreIssued'
  BY <1>10 DEF SelectSession, StoredAreIssued, InRedis, InPg
<1>11. ASSUME NEW c \in Call, CheckExpiry(c)
       PROVE  StoredAreIssued'
  BY <1>11, CheckEffect DEF StoredAreIssued, Absent, InRedis, InPg
<1>12. ASSUME NEW c \in Call, LookupUser(c)
       PROVE  StoredAreIssued'
  BY <1>12 DEF LookupUser, StoredAreIssued, InRedis, InPg
<1>13. ASSUME NEW c \in Call, RedisDel(c)
       PROVE  StoredAreIssued'
  BY <1>13 DEF RedisDel, StoredAreIssued, Absent, InRedis, InPg
<1>14. ASSUME NEW c \in Call, EraseSession(c)
       PROVE  StoredAreIssued'
  BY <1>14 DEF EraseSession, StoredAreIssued, Absent, InRedis, InPg
<1>15. ASSUME NEW c \in Call, ListSessions(c)
       PROVE  StoredAreIssued'
  BY <1>15, ListEffect DEF StoredAreIssued, InRedis, InPg
<1>16. ASSUME NEW c \in Call, SweepRedis(c)
       PROVE  StoredAreIssued'
  BY <1>16 DEF SweepRedis, StoredAreIssued, Absent, InRedis, InPg
<1>17. ASSUME NEW c \in Call, EraseUserSessions(c)
       PROVE  StoredAreIssued'
  BY <1>17 DEF EraseUserSessions, StoredAreIssued, Absent, InRedis, InPg
<1>18. ASSUME NEW c \in Call, Return(c)
       PROVE  StoredAreIssued'
  BY <1>18 DEF Return, StoredAreIssued, InRedis, InPg
<1>19. ASSUME NEW t \in Token, RedisLoss(t)
       PROVE  StoredAreIssued'
  BY <1>19 DEF RedisLoss, StoredAreIssued, Absent, InRedis, InPg
<1>20. CASE Tick
  BY <1>20, TickEffect DEF StoredAreIssued, InRedis, InPg
<1>21. CASE Crash
  BY <1>21 DEF Crash, StoredAreIssued, InRedis, InPg
<1> QED
  BY <1>1, <1>2, <1>3, <1>4, <1>5, <1>6, <1>7, <1>8, <1>9, <1>10, <1>11, <1>12, <1>13,
     <1>14, <1>15, <1>16, <1>17, <1>18, <1>19, <1>20, <1>21
  DEF StoreNext, Begin, Command, Create, Validate, Delete, DeleteAll

\* Every step keeps KnownAreIssued: a token is delivered, or in a call, after it is issued.
LEMMA KnownStep ==
    ASSUME IInv, TypeOK', [StoreNext]_storeVars
    PROVE  KnownAreIssued'
<1> USE DEF IInv
<1>1. CASE UNCHANGED storeVars
  BY <1>1 DEF storeVars, KnownAreIssued
<1>2. ASSUME NEW c \in Call, NEW u \in User, BeginCreate(c, u)
      PROVE  KnownAreIssued'
  BY <1>2 DEF BeginCreate, KnownAreIssued, Idle
<1>3. ASSUME NEW c \in Call, NEW u \in User, BeginDeleteAll(c, u)
      PROVE  KnownAreIssued'
  BY <1>3 DEF BeginDeleteAll, KnownAreIssued, Idle
<1>4. ASSUME NEW c \in Call, NEW t \in Token, BeginValidate(c, t)
      PROVE  KnownAreIssued'
  BY <1>4 DEF BeginValidate, KnownAreIssued, Idle
<1>5. ASSUME NEW c \in Call, NEW t \in Token, BeginDelete(c, t)
      PROVE  KnownAreIssued'
  BY <1>5 DEF BeginDelete, KnownAreIssued, Idle
<1>6. ASSUME NEW c \in Call, RedisSet(c)
      PROVE  KnownAreIssued'
  BY <1>6 DEF RedisSet, KnownAreIssued
<1>7. ASSUME NEW c \in Call, InsertSession(c)
      PROVE  KnownAreIssued'
  BY <1>7 DEF InsertSession, KnownAreIssued
<1>8. ASSUME NEW c \in Call, RedisGet(c)
      PROVE  KnownAreIssued'
  BY <1>8 DEF RedisGet, KnownAreIssued
<1>9. ASSUME NEW c \in Call, RedisExpire(c)
      PROVE  KnownAreIssued'
  BY <1>9 DEF RedisExpire, KnownAreIssued
<1>10. ASSUME NEW c \in Call, SelectSession(c)
       PROVE  KnownAreIssued'
  BY <1>10 DEF SelectSession, KnownAreIssued
<1>11. ASSUME NEW c \in Call, CheckExpiry(c)
       PROVE  KnownAreIssued'
  BY <1>11, CheckEffect DEF KnownAreIssued
<1>12. ASSUME NEW c \in Call, LookupUser(c)
       PROVE  KnownAreIssued'
  BY <1>12 DEF LookupUser, KnownAreIssued
<1>13. ASSUME NEW c \in Call, RedisDel(c)
       PROVE  KnownAreIssued'
  BY <1>13 DEF RedisDel, KnownAreIssued
<1>14. ASSUME NEW c \in Call, EraseSession(c)
       PROVE  KnownAreIssued'
  BY <1>14 DEF EraseSession, KnownAreIssued
<1>15. ASSUME NEW c \in Call, ListSessions(c)
       PROVE  KnownAreIssued'
  BY <1>15, ListEffect, ListedRows DEF Revoking, KnownAreIssued
<1>16. ASSUME NEW c \in Call, SweepRedis(c)
       PROVE  KnownAreIssued'
  BY <1>16 DEF SweepRedis, KnownAreIssued
<1>17. ASSUME NEW c \in Call, EraseUserSessions(c)
       PROVE  KnownAreIssued'
  BY <1>17 DEF EraseUserSessions, KnownAreIssued
<1>18. ASSUME NEW c \in Call, Return(c)
       PROVE  KnownAreIssued'
  BY <1>18, NoneAssumption DEF Return, KnownAreIssued, CreateInv, Owning, Idle
<1>19. ASSUME NEW t \in Token, RedisLoss(t)
       PROVE  KnownAreIssued'
  BY <1>19 DEF RedisLoss, KnownAreIssued
<1>20. CASE Tick
  BY <1>20, TickEffect DEF KnownAreIssued
<1>21. CASE Crash
  BY <1>21 DEF Crash, KnownAreIssued, Idle
<1> QED
  BY <1>1, <1>2, <1>3, <1>4, <1>5, <1>6, <1>7, <1>8, <1>9, <1>10, <1>11, <1>12, <1>13,
     <1>14, <1>15, <1>16, <1>17, <1>18, <1>19, <1>20, <1>21
  DEF StoreNext, Begin, Command, Create, Validate, Delete, DeleteAll

\* Every step keeps CreateInv: a token is made by one CreateSession, for its user.
LEMMA CreateStep ==
    ASSUME IInv, TypeOK', [StoreNext]_storeVars
    PROVE  CreateInv'
<1> USE DEF IInv
<1>1. CASE UNCHANGED storeVars
  BY <1>1 DEF storeVars, CreateInv
<1>2. ASSUME NEW c \in Call, NEW u \in User, BeginCreate(c, u)
      PROVE  CreateInv'
  BY <1>2, NoneAssumption DEF BeginCreate, CreateInv, KnownAreIssued, TypeOK
<1>3. ASSUME NEW c \in Call, NEW u \in User, BeginDeleteAll(c, u)
      PROVE  CreateInv'
  BY <1>3 DEF BeginDeleteAll, CreateInv, Owning, Creating
<1>4. ASSUME NEW c \in Call, NEW t \in Token, BeginValidate(c, t)
      PROVE  CreateInv'
  BY <1>4 DEF BeginValidate, CreateInv, Owning, Creating
<1>5. ASSUME NEW c \in Call, NEW t \in Token, BeginDelete(c, t)
      PROVE  CreateInv'
  BY <1>5 DEF BeginDelete, CreateInv, Owning, Creating
<1>6. ASSUME NEW c \in Call, RedisSet(c)
      PROVE  CreateInv'
  BY <1>6 DEF RedisSet, CreateInv, Owning, Creating
<1>7. ASSUME NEW c \in Call, InsertSession(c)
      PROVE  CreateInv'
  BY <1>7 DEF InsertSession, CreateInv, Owning, Creating
<1>8. ASSUME NEW c \in Call, RedisGet(c)
      PROVE  CreateInv'
  BY <1>8 DEF RedisGet, CreateInv, Owning, Creating
<1>9. ASSUME NEW c \in Call, RedisExpire(c)
      PROVE  CreateInv'
  BY <1>9 DEF RedisExpire, CreateInv, Owning, Creating
<1>10. ASSUME NEW c \in Call, SelectSession(c)
       PROVE  CreateInv'
  BY <1>10 DEF SelectSession, CreateInv, Owning, Creating
<1>11. ASSUME NEW c \in Call, CheckExpiry(c)
       PROVE  CreateInv'
  BY <1>11, CheckEffect DEF CreateInv, Owning, Creating
<1>12. ASSUME NEW c \in Call, LookupUser(c)
       PROVE  CreateInv'
  BY <1>12 DEF LookupUser, CreateInv, Owning, Creating
<1>13. ASSUME NEW c \in Call, RedisDel(c)
       PROVE  CreateInv'
  BY <1>13 DEF RedisDel, CreateInv, Owning, Creating
<1>14. ASSUME NEW c \in Call, EraseSession(c)
       PROVE  CreateInv'
  BY <1>14 DEF EraseSession, CreateInv, Owning, Creating
<1>15. ASSUME NEW c \in Call, ListSessions(c)
       PROVE  CreateInv'
  <2>1. \A d \in Call : call'[d].at \in Owning => call'[d] = call[d]
    BY <1>15, ListEffect DEF Owning, Creating
  <2> QED
    BY <1>15, ListEffect, <2>1 DEF CreateInv
<1>16. ASSUME NEW c \in Call, SweepRedis(c)
       PROVE  CreateInv'
  BY <1>16 DEF SweepRedis, CreateInv
<1>17. ASSUME NEW c \in Call, EraseUserSessions(c)
       PROVE  CreateInv'
  BY <1>17 DEF EraseUserSessions, CreateInv, Owning, Creating
<1>18. ASSUME NEW c \in Call, Return(c)
       PROVE  CreateInv'
  BY <1>18 DEF Return, CreateInv, Owning, Creating, TypeOK, Idle
<1>19. ASSUME NEW t \in Token, RedisLoss(t)
       PROVE  CreateInv'
  BY <1>19 DEF RedisLoss, CreateInv
<1>20. CASE Tick
  BY <1>20, TickEffect DEF CreateInv
<1>21. CASE Crash
  BY <1>21 DEF Crash, CreateInv, Owning, Creating, Idle
<1> QED
  BY <1>1, <1>2, <1>3, <1>4, <1>5, <1>6, <1>7, <1>8, <1>9, <1>10, <1>11, <1>12, <1>13,
     <1>14, <1>15, <1>16, <1>17, <1>18, <1>19, <1>20, <1>21
  DEF StoreNext, Begin, Command, Create, Validate, Delete, DeleteAll

\* No step brings a token back that is issued, not pending and in neither store.
LEMMA NoRevival ==
    ASSUME IInv, [StoreNext]_storeVars, NEW t \in Token, issued[t] # None, ~Pending(t)
    PROVE  /\ InRedis(t)' => InRedis(t)
           /\ InPg(t)' => InPg(t)
           /\ Live(t)' => Live(t)
           /\ issued'[t] = issued[t]
           /\ ~Pending(t)'
<1> DEFINE NotRevived == /\ InRedis(t)' => InRedis(t)
                         /\ InPg(t)' => InPg(t)
                         /\ Live(t)' => Live(t)
                         /\ issued'[t] = issued[t]
                         /\ ~Pending(t)'
<1> USE DEF IInv
<1>1. CASE UNCHANGED storeVars
  BY <1>1
  DEF storeVars, TypeOK, Entry, Absent, NotRevived, InRedis, InPg, Live, Pending,
     Creating
<1>2. ASSUME NEW c \in Call, NEW u \in User, BeginCreate(c, u)
      PROVE  NotRevived
  BY <1>2
  DEF BeginCreate, TypeOK, Entry, Absent, NotRevived, InRedis, InPg, Live, Pending,
     Creating
<1>3. ASSUME NEW c \in Call, NEW u \in User, BeginDeleteAll(c, u)
      PROVE  NotRevived
  BY <1>3 DEF BeginDeleteAll, InRedis, InPg, Live, Pending, Creating
<1>4. ASSUME NEW c \in Call, NEW s \in Token, BeginValidate(c, s)
      PROVE  NotRevived
  BY <1>4 DEF BeginValidate, InRedis, InPg, Live, Pending, Creating
<1>5. ASSUME NEW c \in Call, NEW s \in Token, BeginDelete(c, s)
      PROVE  NotRevived
  BY <1>5
  DEF BeginDelete, TypeOK, Entry, Absent, NotRevived, InRedis, InPg, Live, Pending,
     Creating
<1>6. ASSUME NEW c \in Call, RedisSet(c)
      PROVE  NotRevived
  BY <1>6
  DEF RedisSet, TypeOK, Entry, Absent, NotRevived, InRedis, InPg, Live, Pending,
     Creating
<1>7. ASSUME NEW c \in Call, InsertSession(c)
      PROVE  NotRevived
  BY <1>7 DEF InsertSession, InRedis, InPg, Live, Pending, Creating
<1>8. ASSUME NEW c \in Call, RedisGet(c)
      PROVE  NotRevived
  BY <1>8
  DEF RedisGet, TypeOK, Entry, Absent, NotRevived, InRedis, InPg, Live, Pending,
     Creating
<1>9. ASSUME NEW c \in Call, RedisExpire(c)
      PROVE  NotRevived
  BY <1>9 DEF RedisExpire, InRedis, InPg, Live, Pending, Creating
<1>10. ASSUME NEW c \in Call, SelectSession(c)
       PROVE  NotRevived
  BY <1>10 DEF SelectSession, InRedis, InPg, Live, Pending, Creating
<1>11. ASSUME NEW c \in Call, CheckExpiry(c)
       PROVE  NotRevived
  BY <1>11, CheckEffect DEF Absent, InRedis, InPg, Live, Pending, Creating
<1>12. ASSUME NEW c \in Call, LookupUser(c)
       PROVE  NotRevived
  BY <1>12
  DEF LookupUser, TypeOK, Entry, Absent, NotRevived, InRedis, InPg, Live, Pending,
     Creating
<1>13. ASSUME NEW c \in Call, RedisDel(c)
       PROVE  NotRevived
  BY <1>13
  DEF RedisDel, TypeOK, Entry, Absent, NotRevived, InRedis, InPg, Live, Pending,
     Creating
<1>14. ASSUME NEW c \in Call, EraseSession(c)
       PROVE  NotRevived
  BY <1>14 DEF EraseSession, Absent, InRedis, InPg, Live, Pending, Creating
<1>15. ASSUME NEW c \in Call, ListSessions(c)
       PROVE  NotRevived
  BY <1>15, ListEffect
  DEF TypeOK, Entry, Absent, NotRevived, InRedis, InPg, Live, Pending, Creating
<1>16. ASSUME NEW c \in Call, SweepRedis(c)
       PROVE  NotRevived
  BY <1>16
  DEF SweepRedis, TypeOK, Entry, Absent, NotRevived, InRedis, InPg, Live, Pending,
     Creating
<1>17. ASSUME NEW c \in Call, EraseUserSessions(c)
       PROVE  NotRevived
  BY <1>17 DEF EraseUserSessions, Absent, InRedis, InPg, Live, Pending, Creating
<1>18. ASSUME NEW c \in Call, Return(c)
       PROVE  NotRevived
  BY <1>18 DEF Return, Idle, InRedis, InPg, Live, Pending, Creating
<1>19. ASSUME NEW s \in Token, RedisLoss(s)
       PROVE  NotRevived
  BY <1>19
  DEF RedisLoss, TypeOK, Entry, Absent, NotRevived, InRedis, InPg, Live, Pending,
     Creating
<1>20. CASE Tick
  BY <1>20, TickEffect
  DEF TypeOK, Entry, Absent, NotRevived, InRedis, InPg, Live, Pending, Creating
<1>21. CASE Crash
  BY <1>21 DEF Crash, Idle, InRedis, InPg, Live, Pending, Creating
<1> QED
  BY <1>1, <1>2, <1>3, <1>4, <1>5, <1>6, <1>7, <1>8, <1>9, <1>10, <1>11, <1>12, <1>13,
     <1>14, <1>15, <1>16, <1>17, <1>18, <1>19, <1>20, <1>21
  DEF StoreNext, Begin, Command, Create, Validate, Delete, DeleteAll

\* Every step keeps PendingInv: a token CreateSession is working on is not delivered.
LEMMA PendingStep ==
    ASSUME IInv, TypeOK', [StoreNext]_storeVars
    PROVE  PendingInv'
<1> USE DEF IInv
<1>1. CASE UNCHANGED storeVars
  BY <1>1 DEF storeVars, PendingInv, InPg
<1>2. ASSUME NEW c \in Call, NEW u \in User, BeginCreate(c, u)
      PROVE  PendingInv'
  BY <1>2 DEF BeginCreate, PendingInv, StoredAreIssued, KnownAreIssued, Idle, InPg
<1>3. ASSUME NEW c \in Call, NEW u \in User, BeginDeleteAll(c, u)
      PROVE  PendingInv'
  BY <1>3 DEF BeginDeleteAll, PendingInv, Creating, Idle, InPg
<1>4. ASSUME NEW c \in Call, NEW t \in Token, BeginValidate(c, t)
      PROVE  PendingInv'
  BY <1>4 DEF BeginValidate, PendingInv, Creating, Idle, InPg
<1>5. ASSUME NEW c \in Call, NEW t \in Token, BeginDelete(c, t)
      PROVE  PendingInv'
  BY <1>5 DEF BeginDelete, PendingInv, Creating, Idle, InPg
<1>6. ASSUME NEW c \in Call, RedisSet(c)
      PROVE  PendingInv'
  BY <1>6 DEF RedisSet, PendingInv, Creating, InPg
<1>7. ASSUME NEW c \in Call, InsertSession(c)
      PROVE  PendingInv'
  BY <1>7 DEF InsertSession, PendingInv, CreateInv, Owning, Creating, TypeOK, InPg
<1>8. ASSUME NEW c \in Call, RedisGet(c)
      PROVE  PendingInv'
  BY <1>8 DEF RedisGet, PendingInv, Creating, InPg
<1>9. ASSUME NEW c \in Call, RedisExpire(c)
      PROVE  PendingInv'
  BY <1>9 DEF RedisExpire, PendingInv, Creating, InPg
<1>10. ASSUME NEW c \in Call, SelectSession(c)
       PROVE  PendingInv'
  BY <1>10 DEF SelectSession, PendingInv, Creating, InPg
<1>11. ASSUME NEW c \in Call, CheckExpiry(c)
       PROVE  PendingInv'
  BY <1>11, CheckEffect DEF PendingInv, CreateInv, Owning, Creating, Absent, InPg
<1>12. ASSUME NEW c \in Call, LookupUser(c)
       PROVE  PendingInv'
  BY <1>12 DEF LookupUser, PendingInv, Creating, InPg
<1>13. ASSUME NEW c \in Call, RedisDel(c)
       PROVE  PendingInv'
  BY <1>13 DEF RedisDel, PendingInv, Creating, InPg
<1>14. ASSUME NEW c \in Call, EraseSession(c)
       PROVE  PendingInv'
  BY <1>14 DEF EraseSession, PendingInv, Creating, Absent, InPg
<1>15. ASSUME NEW c \in Call, ListSessions(c)
       PROVE  PendingInv'
  <2>1. \A t \in Token : InPg(t)' = InPg(t)
    BY <1>15, ListEffect DEF InPg
  <2>2. \A d \in Call : call'[d].at \in Creating => call[d].at \in Creating /\ d # c
    BY <1>15, ListEffect DEF Creating
  <2>3. \A d \in Call : call[d].at \in Creating => call[d].tok \in Token
    BY DEF CreateInv, Owning
  <2>4. \A t \in call'[c].rows : t \in call[c].rows \/ InPg(t)
    BY <1>15, ListEffect, ListedRows DEF Revoking
  <2> QED
    BY <1>15, ListEffect, <2>1, <2>2, <2>3, <2>4 DEF PendingInv
<1>16. ASSUME NEW c \in Call, SweepRedis(c)
       PROVE  PendingInv'
  BY <1>16 DEF SweepRedis, PendingInv, InPg
<1>17. ASSUME NEW c \in Call, EraseUserSessions(c)
       PROVE  PendingInv'
  BY <1>17 DEF EraseUserSessions, PendingInv, CreateInv, Owning, Creating, Absent, InPg
<1>18. ASSUME NEW c \in Call, Return(c)
       PROVE  PendingInv'
  BY <1>18 DEF Return, PendingInv, Creating, Idle, InPg
<1>19. ASSUME NEW t \in Token, RedisLoss(t)
       PROVE  PendingInv'
  BY <1>19 DEF RedisLoss, PendingInv, InPg
<1>20. CASE Tick
  BY <1>20, TickEffect DEF PendingInv, CreateInv, Owning, InPg
<1>21. CASE Crash
  BY <1>21 DEF Crash, PendingInv, Creating, Idle
<1> QED
  BY <1>1, <1>2, <1>3, <1>4, <1>5, <1>6, <1>7, <1>8, <1>9, <1>10, <1>11, <1>12, <1>13,
     <1>14, <1>15, <1>16, <1>17, <1>18, <1>19, <1>20, <1>21
  DEF StoreNext, Begin, Command, Create, Validate, Delete, DeleteAll

-----------------------------------------------------------------------------
\* What a step means for one call

\* Nothing about call d changes, but that its session may have come closer to
\* its end.
SameFrame(d) ==
    /\ call'[d].at = call[d].at /\ call'[d].tok = call[d].tok
    /\ call'[d].user = call[d].user /\ call'[d].rows = call[d].rows
    /\ call'[d].todo = call[d].todo /\ call'[d].before = call[d].before
    /\ call'[d].missed = call[d].missed
    /\ call'[d].left > 0 => call[d].left > 0

\* A call only changes by its own steps, and by Tick and Crash.
LEMMA Locality ==
    ASSUME TypeOK, [StoreNext]_storeVars, NEW d \in Call
    PROVE  SameFrame(d) \/ call'[d].at = "idle" \/ Begin(d) \/ Command(d)
<1>1. CASE UNCHANGED storeVars
  BY <1>1 DEF storeVars, SameFrame
<1>2. CASE Tick
  BY <1>2, TickEffect DEF SameFrame
<1>3. CASE Crash
  BY <1>3 DEF Crash, Idle
<1>4. ASSUME NEW t \in Token, RedisLoss(t)
      PROVE  SameFrame(d)
  BY <1>4 DEF RedisLoss, SameFrame
<1>5. ASSUME NEW c \in Call, c # d, Begin(c) \/ Command(c) \/ Return(c)
      PROVE  call'[d] = call[d]
  <2>1. CASE Begin(c)
    BY <1>5, <2>1 DEF Begin, BeginCreate, BeginDeleteAll, BeginValidate, BeginDelete, TypeOK
  <2>2. CASE Create(c) \/ Delete(c)
    BY <1>5, <2>2 DEF Create, RedisSet, InsertSession, Delete, RedisDel, EraseSession, TypeOK
  <2>3. CASE Validate(c)
    BY <1>5, <2>3, CheckEffect
    DEF Validate, RedisGet, RedisExpire, SelectSession, LookupUser, TypeOK
  <2>4. CASE DeleteAll(c)
    BY <1>5, <2>4, ListEffect DEF DeleteAll, SweepRedis, EraseUserSessions, TypeOK
  <2>5. CASE Return(c)
    BY <1>5, <2>5 DEF Return, TypeOK
  <2> QED
    BY <1>5, <2>1, <2>2, <2>3, <2>4, <2>5 DEF Command
<1>6. CASE Return(d)
  BY <1>6 DEF Return, Idle, TypeOK
<1> QED
  BY <1>1, <1>2, <1>3, <1>4, <1>5, <1>6 DEF StoreNext, SameFrame

\* Each call goes through the steps of its own operation.
LEMMA CreateMoves ==
    ASSUME TypeOK, NEW c \in Call, Create(c)
    PROVE  call'[c].at \in {"created", "insert", "failed"}
  BY DEF Create, RedisSet, InsertSession, TypeOK, Frame

\* The same of ValidateSession.
LEMMA ValidateMoves ==
    ASSUME TypeOK, NEW c \in Call, Validate(c)
    PROVE  call'[c].at \in Validating \cup {"valid", "rejected", "failed"}
<1>1. CASE CheckExpiry(c)
  BY <1>1, CheckEffect DEF Validating
<1>2. CASE RedisGet(c)
  <2>1. call'[c].at \in {"extend", "select"}
    BY <1>2 DEF RedisGet, TypeOK, Frame
  <2> QED
    BY <2>1 DEF Validating
<1>3. CASE SelectSession(c)
  <2>1. call'[c].at \in {"failed", "rejected", "check"}
    BY <1>3 DEF SelectSession, TypeOK, Frame
  <2> QED
    BY <2>1 DEF Validating
<1>4. CASE RedisExpire(c) \/ LookupUser(c)
  BY <1>4 DEF RedisExpire, LookupUser, TypeOK, Frame, Validating
<1> QED
  BY <1>1, <1>2, <1>3, <1>4 DEF Validate

\* The same of DeleteSession.
LEMMA DeleteMoves ==
    ASSUME TypeOK, NEW c \in Call, Delete(c)
    PROVE  call'[c].at \in {"erase", "deleted", "failed"}
<1>1. CASE RedisDel(c)
  BY <1>1 DEF RedisDel, TypeOK, Frame
<1>2. CASE EraseSession(c)
  BY <1>2 DEF EraseSession, TypeOK, Frame
<1> QED
  BY <1>1, <1>2 DEF Delete

\* The same of DeleteAllUserSessions.
LEMMA DeleteAllMoves ==
    ASSUME TypeOK, NEW c \in Call, DeleteAll(c)
    PROVE  call'[c].at \in {"sweep", "revoked", "failed"}
<1>1. CASE ListSessions(c)
  BY <1>1, ListEffect
<1>2. CASE SweepRedis(c)
  BY <1>2 DEF SweepRedis, TypeOK, Frame
<1>3. CASE EraseUserSessions(c)
  BY <1>3 DEF EraseUserSessions, TypeOK, Frame
<1> QED
  BY <1>1, <1>2, <1>3 DEF DeleteAll

\* A call begins at the first step of one operation.
LEMMA BeginMoves ==
    ASSUME TypeOK, NEW c \in Call
    PROVE  /\ \A u \in User : BeginCreate(c, u) => call'[c].at = "set"
           /\ \A u \in User : BeginDeleteAll(c, u) => call'[c].at = "list"
           /\ \A t \in Token : BeginValidate(c, t) => call'[c].at = "get"
           /\ \A t \in Token : BeginDelete(c, t) => call'[c].at = "unset"
<1>1. \A u \in User : BeginCreate(c, u) => call'[c].at = "set"
  BY DEF BeginCreate, TypeOK, Idle
<1>2. \A u \in User : BeginDeleteAll(c, u) => call'[c].at = "list"
  BY DEF BeginDeleteAll, TypeOK, Idle
<1>3. \A t \in Token : BeginValidate(c, t) => call'[c].at = "get"
  BY DEF BeginValidate, TypeOK, Idle
<1>4. \A t \in Token : BeginDelete(c, t) => call'[c].at = "unset"
  BY DEF BeginDelete, TypeOK, Idle
<1> QED
  BY <1>1, <1>2, <1>3, <1>4

\* Tokens handed to clients and tokens in a list are out of CreateSession.
LEMMA SettledTokens ==
    ASSUME IInv
    PROVE  /\ \A t \in delivered : t \in Token /\ issued[t] # None /\ ~Pending(t)
           /\ \A c \in Call : \A t \in call[c].rows :
                 t \in Token /\ issued[t] # None /\ ~Pending(t)
<1>1. ASSUME NEW t \in delivered
      PROVE  t \in Token /\ issued[t] # None /\ ~Pending(t)
  BY <1>1 DEF IInv, TypeOK, KnownAreIssued, CreateInv, Owning, Pending
<1>2. ASSUME NEW c \in Call, NEW t \in call[c].rows
      PROVE  t \in Token /\ issued[t] # None /\ ~Pending(t)
  BY <1>2 DEF IInv, TypeOK, Frame, KnownAreIssued, PendingInv, Pending
<1> QED
  BY <1>1, <1>2

\* A token once handed to a client stays so.
LEMMA DeliveredGrows ==
    ASSUME [StoreNext]_storeVars
    PROVE  delivered \subseteq delivered'
  BY DEF StoreNext, storeVars, Begin, Command, Create, Validate, Delete, DeleteAll,
         BeginCreate, BeginDeleteAll, BeginValidate, BeginDelete, RedisSet, InsertSession,
         RedisGet, RedisExpire, SelectSession, CheckExpiry, LookupUser, RedisDel, EraseSession,
         ListSessions, SweepRedis, EraseUserSessions, Return, RedisLoss, Tick, Crash

\* Every step keeps ValidateInv, which is about ValidateSession.
LEMMA ValidateStep ==
    ASSUME IInv, [StoreNext]_storeVars
    PROVE  ValidateInv'
<1> SUFFICES ASSUME NEW d \in Call
             PROVE  ValidateFacts(d)'
  BY DEF ValidateInv
<1> TypeOK /\ ValidateFacts(d)
  BY DEF IInv, ValidateInv
<1>1. \A t \in delivered : /\ t \in Token /\ t \in delivered'
                           /\ Live(t)' => Live(t)
                           /\ issued'[t] = issued[t]
  BY SettledTokens, NoRevival, DeliveredGrows
<1>2. CASE SameFrame(d)
  BY <1>1, <1>2 DEF SameFrame, ValidateFacts, Validating
<1>3. CASE call'[d].at \notin Validating \cup {"valid"}
  BY <1>3 DEF ValidateFacts, Validating
<1>4. ASSUME NEW t \in Token, BeginValidate(d, t)
      PROVE  ValidateFacts(d)'
  <2>1. call'[d].at = "get" /\ call'[d].tok = t /\ call'[d].before = Usable \cap {t}
    BY <1>4 DEF BeginValidate, TypeOK, Idle
  <2>2. t \in delivered /\ (Live(t)' => Live(t)) /\ t \in delivered'
    BY <1>1, <1>4 DEF BeginValidate
  <2> QED
    BY <2>1, <2>2 DEF ValidateFacts, Usable
<1>5. CASE RedisGet(d)
  <2>1. call[d].at = "get" /\ call[d].tok \in delivered /\ call'[d].tok = call[d].tok
        /\ call'[d].before = call[d].before
    BY <1>5 DEF RedisGet, ValidateFacts, Validating, TypeOK, Frame
  <2>2. \/ call'[d].at = "select"
        \/ /\ call'[d].at = "extend" /\ InRedis(call[d].tok)
           /\ call'[d].user = redis[call[d].tok].user
    BY <1>5 DEF RedisGet, TypeOK, Frame
  <2>3. InRedis(call[d].tok) => redis[call[d].tok].user = issued[call[d].tok]
    BY <1>1, <2>1 DEF IInv, StoredAreIssued
  <2> QED
    BY <1>1, <2>1, <2>2, <2>3 DEF ValidateFacts, Live, Validating
<1>6. CASE RedisExpire(d) \/ LookupUser(d)
  <2>1. /\ call[d].at \in {"extend", "lookup"} /\ call'[d].at \in {"lookup", "valid", "failed"}
        /\ call'[d].tok = call[d].tok /\ call'[d].user = call[d].user
        /\ call'[d].before = call[d].before
    BY <1>6 DEF RedisExpire, LookupUser, TypeOK, Frame
  <2> QED
    BY <1>1, <2>1 DEF ValidateFacts, Validating
<1>7. CASE SelectSession(d)
  <2>1. call[d].at = "select" /\ call[d].tok \in delivered /\ call'[d].tok = call[d].tok
        /\ call'[d].before = call[d].before
    BY <1>7 DEF SelectSession, ValidateFacts, Validating, TypeOK, Frame
  <2>2. \/ call'[d].at \in {"failed", "rejected"}
        \/ /\ call'[d].at = "check" /\ InPg(call[d].tok)
           /\ call'[d].user = pg[call[d].tok].user /\ call'[d].left = pg[call[d].tok].left
    BY <1>7 DEF SelectSession, TypeOK, Frame
  <2>3. InPg(call[d].tok) => pg[call[d].tok].user = issued[call[d].tok]
    BY <1>1, <2>1 DEF IInv, StoredAreIssued
  <2> QED
    BY <1>1, <2>1, <2>2, <2>3 DEF ValidateFacts, Live, Validating
<1>8. CASE CheckExpiry(d)
  BY <1>1, <1>8, CheckEffect DEF ValidateFacts, Validating
<1>9. CASE Begin(d)
  <2>1. CASE \E t \in Token : BeginValidate(d, t)
    BY <1>4, <2>1
  <2>2. CASE \E u \in User : BeginCreate(d, u) \/ BeginDeleteAll(d, u)
    BY <1>3, <2>2, BeginMoves DEF Validating
  <2>3. CASE \E t \in Token : BeginDelete(d, t)
    BY <1>3, <2>3, BeginMoves DEF Validating
  <2> QED
    BY <1>9, <2>1, <2>2, <2>3 DEF Begin
<1>10. CASE Command(d)
  <2>1. CASE Create(d) \/ Delete(d) \/ DeleteAll(d)
    BY <1>3, <2>1, CreateMoves, DeleteMoves, DeleteAllMoves DEF Validating
  <2> QED
    BY <1>5, <1>6, <1>7, <1>8, <1>10, <2>1 DEF Command, Validate
<1> QED
  BY <1>2, <1>3, <1>9, <1>10, Locality DEF Validating

\* Every step keeps DeleteInv, which is about DeleteSession.
LEMMA DeleteStep ==
    ASSUME IInv, [StoreNext]_storeVars
    PROVE  DeleteInv'
<1> SUFFICES ASSUME NEW d \in Call
             PROVE  DeleteFacts(d)'
  BY DEF DeleteInv
<1> TypeOK /\ DeleteFacts(d)
  BY DEF IInv, DeleteInv
<1>1. \A t \in delivered : /\ t \in Token /\ t \in delivered'
                           /\ InRedis(t)' => InRedis(t)
                           /\ Live(t)' => Live(t)
  BY SettledTokens, NoRevival, DeliveredGrows
<1>2. CASE SameFrame(d)
  BY <1>1, <1>2 DEF SameFrame, DeleteFacts, Deleting
<1>3. CASE call'[d].at \notin Deleting \cup {"deleted"}
  BY <1>3 DEF DeleteFacts, Deleting
<1>4. ASSUME NEW t \in Token, BeginDelete(d, t)
      PROVE  DeleteFacts(d)'
  <2>1. call'[d].at = "unset" /\ call'[d].tok = t /\ t \in delivered
    BY <1>4 DEF BeginDelete, TypeOK, Idle
  <2> QED
    BY <1>1, <2>1 DEF DeleteFacts
<1>5. CASE RedisDel(d)
  <2>1. PICK o \in RedisOutcomes :
           /\ redis' = IF Applied(o) THEN [redis EXCEPT ![call[d].tok] = Absent] ELSE redis
           /\ call' = [call EXCEPT ![d] = [@ EXCEPT !.at = "erase",
                                      !.missed = IF Applied(o) THEN {} ELSE {call[d].tok}]]
    BY <1>5 DEF RedisDel
  <2>2. call'[d].at = "erase" /\ call'[d].tok = call[d].tok /\ (~Applied(o) => call'[d].missed # {})
    BY <2>1 DEF TypeOK, Frame
  <2>3. call[d].tok \in delivered
    BY <1>5 DEF RedisDel, DeleteFacts, Deleting
  <2>4. Applied(o) => ~InRedis(call[d].tok)'
    BY <1>1, <2>1, <2>2, <2>3 DEF InRedis, Absent, TypeOK
  <2> QED
    BY <1>1, <2>2, <2>3, <2>4 DEF DeleteFacts, InRedis
<1>6. CASE EraseSession(d)
  <2>1. PICK o \in PgOutcomes :
           /\ pg' = IF Applied(o) THEN [pg EXCEPT ![call[d].tok] = Absent] ELSE pg
           /\ call' = [call EXCEPT ![d].at = IF Reported(o) THEN "deleted" ELSE "failed"]
    BY <1>6 DEF EraseSession
  <2>2. /\ call[d].at = "erase" /\ call'[d].tok = call[d].tok
        /\ call'[d].missed = call[d].missed
        /\ call'[d].at = IF Reported(o) THEN "deleted" ELSE "failed"
    BY <1>6, <2>1 DEF EraseSession, TypeOK, Frame
  <2>3. call[d].tok \in delivered
    BY <2>2 DEF DeleteFacts, Deleting
  <2>4. Reported(o) => ~InPg(call[d].tok)'
    BY <1>1, <2>1, <2>2, <2>3 DEF InPg, Absent, TypeOK, Reported, Applied
  <2>5. call[d].missed = {} => ~InRedis(call[d].tok)'
    BY <1>1, <2>2, <2>3 DEF DeleteFacts
  <2> QED
    BY <1>1, <2>2, <2>3, <2>4, <2>5 DEF DeleteFacts, Live, InPg, InRedis, Deleting
<1>7. CASE Begin(d)
  <2>1. CASE \E t \in Token : BeginDelete(d, t)
    BY <1>4, <2>1
  <2>2. CASE \E u \in User : BeginCreate(d, u) \/ BeginDeleteAll(d, u)
    BY <1>3, <2>2, BeginMoves DEF Deleting
  <2>3. CASE \E t \in Token : BeginValidate(d, t)
    BY <1>3, <2>3, BeginMoves DEF Deleting
  <2> QED
    BY <1>7, <2>1, <2>2, <2>3 DEF Begin
<1>8. CASE Command(d)
  <2>1. CASE Create(d) \/ Validate(d) \/ DeleteAll(d)
    BY <1>3, <2>1, CreateMoves, ValidateMoves, DeleteAllMoves DEF Deleting, Validating
  <2> QED
    BY <1>5, <1>6, <1>8, <2>1 DEF Command, Delete
<1> QED
  BY <1>2, <1>3, <1>7, <1>8, Locality DEF Deleting

\* Every step keeps RevokeInv, which is about DeleteAllUserSessions.
LEMMA RevokeStep ==
    ASSUME IInv, [StoreNext]_storeVars
    PROVE  RevokeInv'
<1> SUFFICES ASSUME NEW d \in Call
             PROVE  RevokeFacts(d)'
  BY DEF RevokeInv
<1> TypeOK /\ RevokeFacts(d)
  BY DEF IInv, RevokeInv
<1>1. \A t \in delivered \cup call[d].rows :
         /\ t \in Token
         /\ InRedis(t)' => InRedis(t)
         /\ InPg(t)' => InPg(t)
         /\ Live(t)' => Live(t)
         /\ issued'[t] = issued[t]
  BY SettledTokens, NoRevival
<1>2. delivered \subseteq delivered'
  BY DeliveredGrows
<1>3. CASE SameFrame(d)
  BY <1>1, <1>2, <1>3 DEF SameFrame, RevokeFacts, Revoking
<1>4. CASE call'[d].at \notin Revoking \cup {"revoked"}
  BY <1>4 DEF RevokeFacts, Revoking
<1>5. ASSUME NEW u \in User, BeginDeleteAll(d, u)
      PROVE  RevokeFacts(d)'
  <2>1. /\ call'[d].at = "list" /\ call'[d].user = u /\ call'[d].rows = {}
        /\ call'[d].before = {t \in Usable : issued[t] = u}
        /\ UNCHANGED <<issued, delivered>>
    BY <1>5 DEF BeginDeleteAll, TypeOK, Idle
  <2> QED
    BY <1>5, <2>1 DEF RevokeFacts, Usable
<1>6. CASE ListSessions(d)
  <2>1. call[d].at = "list" /\ call[d].user \in User
    BY <1>6, ListEffect DEF RevokeFacts, Revoking
  <2>2. CASE call'[d].at = "failed"
    BY <1>4, <2>2 DEF Revoking
  <2>3. CASE call'[d].at = "sweep" /\ call'[d].rows \subseteq RowsOf(call[d].user)
             /\ call'[d].todo = call'[d].rows
    <3>1. \A t \in call'[d].rows : issued[t] = call[d].user
      BY <2>1, <2>3, ListedRows DEF Revoking
    <3> QED
      BY <1>2, <1>6, <2>1, <2>3, <3>1, ListEffect DEF RevokeFacts, Revoking
  <2> QED
    BY <1>6, <2>2, <2>3, ListEffect
<1>7. CASE SweepRedis(d)
  <2>1. PICK t \in call[d].todo, o \in RedisOutcomes :
           /\ redis' = IF Applied(o) THEN [redis EXCEPT ![t] = Absent] ELSE redis
           /\ call' = [call EXCEPT ![d] = [call[d] EXCEPT
                 !.todo = @ \ {t}, !.missed = IF Applied(o) THEN @ ELSE @ \cup {t}]]
    BY <1>7 DEF SweepRedis
  <2>2. /\ call[d].at = "sweep" /\ call'[d].at = "sweep" /\ call'[d].user = call[d].user
        /\ call'[d].rows = call[d].rows /\ call'[d].before = call[d].before
        /\ call'[d].todo = call[d].todo \ {t}
        /\ call'[d].missed = IF Applied(o) THEN call[d].missed ELSE call[d].missed \cup {t}
    <3>1. call[d] \in Frame /\ call[d].at = "sweep"
      BY <1>7 DEF SweepRedis, TypeOK
    <3>2. call'[d] = [call[d] EXCEPT !.todo = @ \ {t},
                                     !.missed = IF Applied(o) THEN @ ELSE @ \cup {t}]
      BY <2>1 DEF TypeOK
    <3> QED
      BY <3>1, <3>2 DEF Frame
  <2>3. t \in Token
    BY DEF TypeOK, Frame
  <2>4. Applied(o) => ~InRedis(t)'
    BY <2>1, <2>3 DEF InRedis, Absent, TypeOK
  <2>5. \A s \in call'[d].rows \ (call'[d].todo \cup call'[d].missed) : ~InRedis(s)'
    BY <1>1, <2>2, <2>4 DEF RevokeFacts
  <2>6. \A s \in call'[d].before \cup call'[d].rows : issued'[s] = call'[d].user
    BY <1>1, <2>2 DEF RevokeFacts, Revoking
  <2> QED
    BY <1>2, <2>2, <2>5, <2>6 DEF RevokeFacts, Revoking, InRedis
<1>8. CASE EraseUserSessions(d)
  <2>1. PICK o \in PgOutcomes :
           /\ pg' = IF Applied(o)
                    THEN [t \in Token |-> IF pg[t].user = call[d].user THEN Absent ELSE pg[t]]
                    ELSE pg
           /\ call' = [call EXCEPT ![d].at = IF Reported(o) THEN "revoked" ELSE "failed"]
    BY <1>8 DEF EraseUserSessions
  <2>2. /\ call[d].at = "sweep" /\ call[d].todo = {} /\ call'[d].user = call[d].user
        /\ call'[d].rows = call[d].rows /\ call'[d].before = call[d].before
        /\ call'[d].missed = call[d].missed
        /\ call'[d].at = IF Reported(o) THEN "revoked" ELSE "failed"
    BY <1>8, <2>1 DEF EraseUserSessions, TypeOK, Frame
  <2>3. \A s \in call[d].before \cup call[d].rows :
           s \in Token /\ issued[s] = call[d].user /\ issued'[s] = issued[s]
    BY <1>1, <2>2 DEF RevokeFacts, Revoking
  <2>4. ASSUME Reported(o), NEW s \in call[d].before \cup call[d].rows
        PROVE  ~InPg(s)'
    <3>1. InPg(s) => pg[s].user = call[d].user
      BY <2>3 DEF IInv, StoredAreIssued
    <3>2. pg'[s] = IF pg[s].user = call[d].user THEN Absent ELSE pg[s]
      BY <2>1, <2>3, <2>4 DEF Reported, Applied
    <3> QED
      BY <3>1, <3>2 DEF InPg, Absent
  <2>5. \A s \in call[d].rows \ call[d].missed : ~InRedis(s)'
    BY <1>1, <2>2 DEF RevokeFacts
  <2>6. CASE Reported(o)
    <3>1. call'[d].at = "revoked" /\ call'[d].before \subseteq delivered' /\ call'[d].user \in User
      BY <1>2, <2>2, <2>6 DEF RevokeFacts, Revoking
    <3>2. \A s \in call[d].rows \ call[d].missed : ~Live(s)'
      BY <2>4, <2>5, <2>6 DEF Live, InPg, InRedis
    <3>3. \A s \in call[d].before : ~InPg(s)'
      BY <2>4, <2>6
    <3> QED
      BY <2>2, <2>3, <3>1, <3>2, <3>3 DEF RevokeFacts, Live, InPg, InRedis
  <2>7. CASE ~Reported(o)
    BY <1>4, <2>2, <2>7 DEF Revoking
  <2> QED
    BY <2>6, <2>7
<1>9. CASE Begin(d)
  <2>1. CASE \E u \in User : BeginDeleteAll(d, u)
    BY <1>5, <2>1
  <2>2. CASE \E u \in User : BeginCreate(d, u)
    BY <1>4, <2>2, BeginMoves DEF Revoking
  <2>3. CASE \E t \in Token : BeginValidate(d, t) \/ BeginDelete(d, t)
    BY <1>4, <2>3, BeginMoves DEF Revoking
  <2> QED
    BY <1>9, <2>1, <2>2, <2>3 DEF Begin
<1>10. CASE Command(d)
  <2>1. CASE Create(d) \/ Validate(d) \/ Delete(d)
    BY <1>4, <2>1, CreateMoves, ValidateMoves, DeleteMoves DEF Revoking, Validating
  <2> QED
    BY <1>6, <1>7, <1>8, <1>10, <2>1 DEF Command, DeleteAll
<1> QED
  BY <1>3, <1>4, <1>9, <1>10, Locality DEF Revoking

-----------------------------------------------------------------------------
\* Theorems

\* The invariant holds at the start.
LEMMA InvInit == StoreInit => IInv
<1> SUFFICES ASSUME StoreInit
             PROVE  IInv
  OBVIOUS
<1>1. Idle \in Frame /\ Absent \in Entry
  BY StepNames, EntryFacts DEF Idle, Frame
<1>2. \A c \in Call : call[c].at = "idle" /\ call[c].rows = {}
  BY DEF StoreInit, Idle
<1>3. TypeOK
  BY <1>1 DEF StoreInit, TypeOK
<1>4. StoredAreIssued /\ KnownAreIssued
  BY <1>2 DEF StoreInit, StoredAreIssued, KnownAreIssued, InRedis, InPg, Absent
<1>5. CreateInv /\ PendingInv
  BY <1>2 DEF CreateInv, PendingInv, Owning, Creating
<1>6. ValidateInv /\ DeleteInv /\ RevokeInv
  BY <1>2 DEF ValidateInv, ValidateFacts, Validating, DeleteInv, DeleteFacts, Deleting,
              RevokeInv, RevokeFacts, Revoking
<1> QED
  BY <1>3, <1>4, <1>5, <1>6 DEF IInv

\* The invariant is inductive.
LEMMA InvStep == IInv /\ [StoreNext]_storeVars => IInv'
  BY TypeStep, StoredStep, KnownStep, CreateStep, PendingStep, ValidateStep, DeleteStep,
     RevokeStep DEF IInv

\* The invariant the other theorems rest on holds in every reachable state.
THEOREM StoreInvariant == StoreSpec => []IInv
  BY InvInit, InvStep, PTL DEF StoreSpec

\* The variables keep their types: in particular a store never holds an entry
\* with a TTL above the session duration or one that counts below zero.
THEOREM StoreTypeCorrect == StoreSpec => []TypeOK
<1>1. IInv => TypeOK
  BY DEF IInv
<1> QED
  BY <1>1, StoreInvariant, PTL

\* Whatever other calls do and whichever commands fail, ValidateSession only
\* accepts a session that was usable when it was asked, for its own user.
THEOREM ValidSessionTheorem == StoreSpec => []ValidSession
<1>1. IInv => ValidSession
  BY DEF IInv, ValidateInv, ValidateFacts, ValidSession
<1> QED
  BY <1>1, StoreInvariant, PTL

\* A logout that returns without error and whose DEL was carried out leaves the
\* session in neither store.
THEOREM LogoutTheorem == StoreSpec => []LoggedOutIsDead
<1>1. IInv => LoggedOutIsDead
  BY DEF IInv, DeleteInv, DeleteFacts, LoggedOutIsDead
<1> QED
  BY <1>1, StoreInvariant, PTL

\* DeleteAllUserSessions ends exactly the sessions it finds in Postgres.
THEOREM RevocationTheorem == StoreSpec => []FallbackRevoked
<1>1. IInv => FallbackRevoked
  BY DEF IInv, RevokeInv, RevokeFacts, FallbackRevoked
<1> QED
  BY <1>1, StoreInvariant, PTL

-----------------------------------------------------------------------------
\* Refinement of SessionRegistry

\* A token is issued once.
LEMMA IssuedStep ==
    ASSUME [StoreNext]_storeVars
    PROVE  (\E c \in Call, u \in User : BeginCreate(c, u)) \/ UNCHANGED issued
  BY DEF StoreNext, storeVars, Begin, Command, Create, Validate, Delete, DeleteAll,
         BeginDeleteAll, BeginValidate, BeginDelete, RedisSet, InsertSession, RedisGet,
         RedisExpire, SelectSession, CheckExpiry, LookupUser, RedisDel, EraseSession,
         ListSessions, SweepRedis, EraseUserSessions, Return, RedisLoss, Tick, Crash

\* BeginCreate opens one token and leaves the others where they are.
LEMMA OpenStep ==
    ASSUME IInv, NEW c \in Call, NEW u \in User, BeginCreate(c, u)
    PROVE  \E t \in Token : Registry!Open(t, u)
<1>1. PICK t \in Token :
         /\ issued[t] = None
         /\ issued' = [issued EXCEPT ![t] = u]
         /\ call' = [call EXCEPT ![c] = [Idle EXCEPT !.at = "set", !.tok = t, !.user = u,
                                                     !.left = SessionDuration]]
  BY DEF BeginCreate
<1>2. call[c].at = "idle" /\ UNCHANGED <<redis, pg>>
  BY DEF BeginCreate
<1>3. call'[c].at = "set" /\ call'[c].tok = t /\ \A d \in Call \ {c} : call'[d] = call[d]
  BY <1>1 DEF IInv, TypeOK, Idle
<1>4. issued'[t] = u /\ u # None /\ \A s \in Token \ {t} : issued'[s] = issued[s]
  BY <1>1, NoneAssumption DEF IInv, TypeOK
<1>5. Pending(t)'
  BY <1>3 DEF Pending, Creating
<1>6. \A s \in Token \ {t} : (Pending(s)' <=> Pending(s)) /\ (Live(s)' <=> Live(s))
  BY <1>2, <1>3 DEF Pending, Creating, Live, InRedis, InPg
<1>7. status'[t] = "opening"
  BY <1>4, <1>5 DEF status
<1>8. \A s \in Token \ {t} : status'[s] = status[s]
  BY <1>4, <1>6 DEF status
<1>9. status[t] = "fresh"
  BY <1>1 DEF status
<1>10. status' = [status EXCEPT ![t] = "opening"]
  BY <1>7, <1>8 DEF status
<1> QED
  BY <1>1, <1>9, <1>10 DEF Registry!Open

\* Any other step only moves tokens on.
LEMMA SettleStep ==
    ASSUME IInv, [StoreNext]_storeVars, UNCHANGED issued
    PROVE  Registry!Settle
<1>1. status' \in [Token -> Registry!Stage]
  BY DEF status, Registry!Stage
<1>2. ASSUME NEW t \in Token
      PROVE  status'[t] \in Registry!After(status[t])
  <2>1. CASE issued[t] = None
    <3>1. status[t] = "fresh" /\ status'[t] = "fresh"
      BY <2>1 DEF status
    <3> QED
      BY <3>1 DEF Registry!After
  <2>2. CASE issued[t] # None /\ Pending(t)
    <3>1. status[t] = "opening" /\ status'[t] \in {"opening", "live", "dead"}
      BY <2>2 DEF status
    <3> QED
      BY <3>1 DEF Registry!After
  <2>3. CASE issued[t] # None /\ ~Pending(t)
    <3>1. ~Pending(t)' /\ (Live(t)' => Live(t))
      BY <2>3, NoRevival
    <3>2. /\ status[t] \in {"live", "dead"}
          /\ status[t] = "dead" => status'[t] = "dead"
          /\ status'[t] \in {"live", "dead"}
      BY <2>3, <3>1 DEF status
    <3> QED
      BY <3>2 DEF Registry!After
  <2> QED
    BY <2>1, <2>2, <2>3
<1> QED
  BY <1>1, <1>2 DEF Registry!Settle

\* The Redis keys and the Postgres rows together implement one registry: no
\* interleaving, failed command, lost reply, eviction or crash makes a token
\* change its user or come back to life.
THEOREM StoreRefinesRegistry == StoreSpec => RegistrySpec
<1>1. StoreInit => Registry!Init
  <2> SUFFICES ASSUME StoreInit
               PROVE  Registry!Init
    OBVIOUS
  <2>1. status = [t \in Token |-> "fresh"]
    BY DEF StoreInit, status
  <2> QED
    BY <2>1 DEF StoreInit, Registry!Init
<1>2. IInv /\ [StoreNext]_storeVars => [Registry!Next]_(Registry!vars)
  BY IssuedStep, OpenStep, SettleStep DEF Registry!Next
<1> QED
  BY <1>1, <1>2, StoreInvariant, PTL DEF StoreSpec, RegistrySpec, Registry!Spec
=============================================================================
