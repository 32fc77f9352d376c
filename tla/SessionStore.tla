---------------------------- MODULE SessionStore ----------------------------
(***************************************************************************)
(* The sessions of internal/services/auth.go: a token is looked up first   *)
(* in Redis, then in the Postgres table sessions, which is only written    *)
(* when Redis reports an error.  Every command sent to one of the stores   *)
(* is a step, so calls made for concurrent requests interleave between     *)
(* commands, and every command may fail: "refused" (no effect, an error)   *)
(* or "lost" (it took effect and its reply did not arrive, an error too).  *)
(*                                                                         *)
(* Keys are token hashes in the code; a hash stands for its token here.    *)
(***************************************************************************)
EXTENDS Integers

CONSTANTS Call,             \* concurrent calls of AuthService
          User,             \* rows of table users, never deleted by the code
          Token,            \* values GenerateSessionToken can return
          None,             \* no user, no token
          SessionDuration,  \* sessionDuration, in ticks
          RedisOutcomes,    \* how a Redis command may end
          PgOutcomes,       \* how a Postgres command may end
          RedisForgets      \* TRUE: Redis may lose keys (eviction, restart)

Outcome == {"ok", "refused", "lost"}

ASSUME NoneAssumption == None \notin User \cup Token
ASSUME DurationAssumption == SessionDuration \in Nat \ {0}
ASSUME OutcomeAssumption == RedisOutcomes \subseteq Outcome /\ PgOutcomes \subseteq Outcome
ASSUME ForgetsAssumption == RedisForgets \in BOOLEAN

VARIABLES
    redis,      \* redis[t]: the key session:<t>, its user and remaining TTL; a key
                \* with a user and 0 left would be one without a TTL
    pg,         \* pg[t]: the row of table sessions, left = 0 when expired
    issued,     \* issued[t]: the user t was generated for, None if not yet
    delivered,  \* the tokens handed to a client
    call        \* call[c]: the progress of call c and its local variables

storeVars == <<redis, pg, issued, delivered, call>>

-----------------------------------------------------------------------------
\* Stores and calls

Absent == [user |-> None, left |-> 0]
Entry == [user : User \cup {None}, left : 0..SessionDuration]

Creating == {"set", "insert"}
Validating == {"get", "extend", "select", "check", "lookup"}
Deleting == {"unset", "erase"}
Revoking == {"list", "sweep"}
Result == {"created", "valid", "rejected", "deleted", "revoked", "failed"}
Step == {"idle"} \cup Creating \cup Validating \cup Deleting \cup Revoking \cup Result

\* tok, user, left: token, userID and the time to expiresAt; rows, todo:
\* tokenHashes and its part not yet swept.  Two fields the code does not have
\* record what happened: before, those of the sessions the call is about that
\* clients could use when it began; missed, those whose DEL did not happen.
Frame == [at : Step, tok : Token \cup {None}, user : User \cup {None},
          left : 0..SessionDuration, rows : SUBSET Token, todo : SUBSET Token,
          before : SUBSET Token, missed : SUBSET Token]

Idle == [at |-> "idle", tok |-> None, user |-> None, left |-> 0,
         rows |-> {}, todo |-> {}, before |-> {}, missed |-> {}]

\* The command took effect; the caller is told so.
Applied(o) == o \in {"ok", "lost"}
Reported(o) == o = "ok"

InRedis(t) == redis[t].user # None
InPg(t) == pg[t].user # None
Live(t) == InRedis(t) \/ (InPg(t) /\ pg[t].left > 0)
Pending(t) == \E c \in Call : call[c].at \in Creating /\ call[c].tok = t
Usable == {t \in delivered : Live(t)}

StoreInit ==
    /\ redis = [t \in Token |-> Absent]
    /\ pg = [t \in Token |-> Absent]
    /\ issued = [t \in Token |-> None]
    /\ delivered = {}
    /\ call = [c \in Call |-> Idle]

-----------------------------------------------------------------------------
\* CreateSession

BeginCreate(c, u) ==
    /\ call[c].at = "idle"
    /\ \E t \in Token :
          /\ issued[t] = None
          /\ issued' = [issued EXCEPT ![t] = u]
          /\ call' = [call EXCEPT ![c] = [Idle EXCEPT !.at = "set", !.tok = t, !.user = u,
                                                      !.left = SessionDuration]]
    /\ UNCHANGED <<redis, pg, delivered>>

\* Mutant: SET is sent without an expiration.
RedisSetForever(c) ==
    /\ call[c].at = "set"
    /\ \E o \in RedisOutcomes :
          /\ redis' = IF Applied(o)
                      THEN [redis EXCEPT ![call[c].tok] = [user |-> call[c].user, left |-> 0]]
                      ELSE redis
          /\ call' = [call EXCEPT ![c].at = IF Reported(o) THEN "created" ELSE "insert"]
    /\ UNCHANGED <<pg, issued, delivered>>

RedisSet(c) ==
    /\ call[c].at = "set"
    /\ \E o \in RedisOutcomes :
          /\ redis' = IF Applied(o)
                      THEN [redis EXCEPT ![call[c].tok] = [user |-> call[c].user,
                                                           left |-> SessionDuration]]
                      ELSE redis
          /\ call' = [call EXCEPT ![c].at = IF Reported(o) THEN "created" ELSE "insert"]
    /\ UNCHANGED <<pg, issued, delivered>>

InsertSession(c) ==
    /\ call[c].at = "insert"
    /\ \E o \in PgOutcomes :
          /\ pg' = IF Applied(o)
                   THEN [pg EXCEPT ![call[c].tok] = [user |-> call[c].user,
                                                     left |-> call[c].left]]
                   ELSE pg
          /\ call' = [call EXCEPT ![c].at = IF Reported(o) THEN "created" ELSE "failed"]
    /\ UNCHANGED <<redis, issued, delivered>>

-----------------------------------------------------------------------------
\* ValidateSession

BeginValidate(c, t) ==
    /\ call[c].at = "idle"
    /\ t \in delivered
    /\ call' = [call EXCEPT ![c] = [Idle EXCEPT !.at = "get", !.tok = t,
                                                !.before = Usable \cap {t}]]
    /\ UNCHANGED <<redis, pg, issued, delivered>>

\* Any error of GET, a missing key included, leads to the Postgres lookup.
RedisGet(c) ==
    /\ call[c].at = "get"
    /\ \E o \in RedisOutcomes :
          call' = IF Reported(o) /\ InRedis(call[c].tok)
                  THEN [call EXCEPT ![c] = [@ EXCEPT !.at = "extend",
                                                     !.user = redis[call[c].tok].user]]
                  ELSE [call EXCEPT ![c].at = "select"]
    /\ UNCHANGED <<redis, pg, issued, delivered>>

\* Mutant: the session is extended by writing the key again.
RedisExpireBySet(c) ==
    /\ call[c].at = "extend"
    /\ redis' = [redis EXCEPT ![call[c].tok] = [user |-> call[c].user,
                                                left |-> SessionDuration]]
    /\ call' = [call EXCEPT ![c].at = "lookup"]
    /\ UNCHANGED <<pg, issued, delivered>>

\* Mutant: the duration is added to what is left of the session.
RedisExpireAdds(c) ==
    /\ call[c].at = "extend"
    /\ redis' = IF InRedis(call[c].tok)
                THEN [redis EXCEPT ![call[c].tok].left = @ + SessionDuration]
                ELSE redis
    /\ call' = [call EXCEPT ![c].at = "lookup"]
    /\ UNCHANGED <<pg, issued, delivered>>

\* EXPIRE does nothing to a key that is gone; its error is ignored.
RedisExpire(c) ==
    /\ call[c].at = "extend"
    /\ \E o \in RedisOutcomes :
          redis' = IF Applied(o) /\ InRedis(call[c].tok)
                   THEN [redis EXCEPT ![call[c].tok].left = SessionDuration]
                   ELSE redis
    /\ call' = [call EXCEPT ![c].at = "lookup"]
    /\ UNCHANGED <<pg, issued, delivered>>

SelectSession(c) ==
    /\ call[c].at = "select"
    /\ \E o \in PgOutcomes :
          call' = IF ~Reported(o) THEN [call EXCEPT ![c].at = "failed"]
                  ELSE IF ~InPg(call[c].tok) THEN [call EXCEPT ![c].at = "rejected"]
                  ELSE [call EXCEPT ![c] = [@ EXCEPT !.at = "check",
                                                     !.user = pg[call[c].tok].user,
                                                     !.left = pg[call[c].tok].left]]
    /\ UNCHANGED <<redis, pg, issued, delivered>>

\* Mutant: the row is used without looking at expires_at.
CheckNothing(c) ==
    /\ call[c].at = "check"
    /\ call' = [call EXCEPT ![c].at = "lookup"]
    /\ UNCHANGED <<redis, pg, issued, delivered>>

\* An expired row is deleted on the way; the error of DELETE is ignored.
CheckExpiry(c) ==
    /\ call[c].at = "check"
    /\ \/ /\ call[c].left > 0
          /\ call' = [call EXCEPT ![c].at = "lookup"]
          /\ UNCHANGED pg
       \/ /\ call[c].left = 0
          /\ \E o \in PgOutcomes :
                pg' = IF Applied(o) THEN [pg EXCEPT ![call[c].tok] = Absent] ELSE pg
          /\ call' = [call EXCEPT ![c].at = "rejected"]
    /\ UNCHANGED <<redis, issued, delivered>>

LookupUser(c) ==
    /\ call[c].at = "lookup"
    /\ \E o \in PgOutcomes :
          call' = [call EXCEPT ![c].at = IF Reported(o) THEN "valid" ELSE "failed"]
    /\ UNCHANGED <<redis, pg, issued, delivered>>

-----------------------------------------------------------------------------
\* DeleteSession

BeginDelete(c, t) ==
    /\ call[c].at = "idle"
    /\ t \in delivered
    /\ call' = [call EXCEPT ![c] = [Idle EXCEPT !.at = "unset", !.tok = t]]
    /\ UNCHANGED <<redis, pg, issued, delivered>>

\* Mutant: Postgres is only asked when Redis reports an error.
RedisDelAlone(c) ==
    /\ call[c].at = "unset"
    /\ \E o \in RedisOutcomes :
          /\ redis' = IF Applied(o) THEN [redis EXCEPT ![call[c].tok] = Absent] ELSE redis
          /\ call' = [call EXCEPT ![c].at = IF Reported(o) THEN "deleted" ELSE "erase",
                                  ![c].missed = IF Applied(o) THEN {} ELSE {call[c].tok}]
    /\ UNCHANGED <<pg, issued, delivered>>

\* The error of DEL is ignored.
RedisDel(c) ==
    /\ call[c].at = "unset"
    /\ \E o \in RedisOutcomes :
          /\ redis' = IF Applied(o) THEN [redis EXCEPT ![call[c].tok] = Absent] ELSE redis
          /\ call' = [call EXCEPT ![c] = [@ EXCEPT !.at = "erase",
                                   !.missed = IF Applied(o) THEN {} ELSE {call[c].tok}]]
    /\ UNCHANGED <<pg, issued, delivered>>

EraseSession(c) ==
    /\ call[c].at = "erase"
    /\ \E o \in PgOutcomes :
          /\ pg' = IF Applied(o) THEN [pg EXCEPT ![call[c].tok] = Absent] ELSE pg
          /\ call' = [call EXCEPT ![c].at = IF Reported(o) THEN "deleted" ELSE "failed"]
    /\ UNCHANGED <<redis, issued, delivered>>

-----------------------------------------------------------------------------
\* DeleteAllUserSessions

RowsOf(u) == {t \in Token : pg[t].user = u}

BeginDeleteAll(c, u) ==
    /\ call[c].at = "idle"
    /\ call' = [call EXCEPT ![c] = [Idle EXCEPT !.at = "list", !.user = u,
                                                !.before = {t \in Usable : issued[t] = u}]]
    /\ UNCHANGED <<redis, pg, issued, delivered>>

\* rows.Err() is not read: a result set cut short by an error counts as whole.
ListSessions(c) ==
    /\ call[c].at = "list"
    /\ \E o \in PgOutcomes :
          \/ /\ ~Reported(o)
             /\ call' = [call EXCEPT ![c].at = "failed"]
          \/ \E got \in SUBSET RowsOf(call[c].user) :
                /\ Reported(o) => got = RowsOf(call[c].user)
                /\ call' = [call EXCEPT ![c] =
                              [@ EXCEPT !.at = "sweep", !.rows = got, !.todo = got]]
    /\ UNCHANGED <<redis, pg, issued, delivered>>

\* One round of the loop over tokenHashes; the error of DEL is ignored.
SweepRedis(c) ==
    /\ call[c].at = "sweep"
    /\ \E t \in call[c].todo, o \in RedisOutcomes :
          /\ redis' = IF Applied(o) THEN [redis EXCEPT ![t] = Absent] ELSE redis
          /\ call' = [call EXCEPT ![c] = [call[c] EXCEPT
                      !.todo = @ \ {t},
                      !.missed = IF Applied(o) THEN @ ELSE @ \cup {t}]]
    /\ UNCHANGED <<pg, issued, delivered>>

\* Mutant: only the rows that were listed are deleted.
EraseListedSessions(c) ==
    /\ call[c].at = "sweep"
    /\ call[c].todo = {}
    /\ pg' = [t \in Token |-> IF t \in call[c].rows THEN Absent ELSE pg[t]]
    /\ call' = [call EXCEPT ![c].at = "revoked"]
    /\ UNCHANGED <<redis, issued, delivered>>

EraseUserSessions(c) ==
    /\ call[c].at = "sweep"
    /\ call[c].todo = {}
    /\ \E o \in PgOutcomes :
          /\ pg' = IF Applied(o)
                   THEN [t \in Token |-> IF pg[t].user = call[c].user THEN Absent ELSE pg[t]]
                   ELSE pg
          /\ call' = [call EXCEPT ![c].at = IF Reported(o) THEN "revoked" ELSE "failed"]
    /\ UNCHANGED <<redis, issued, delivered>>

-----------------------------------------------------------------------------
\* Callers and environment

\* The call returns; a token it made reaches the client with the response.
Return(c) ==
    /\ call[c].at \in Result
    /\ call' = [call EXCEPT ![c] = Idle]
    /\ delivered' = IF call[c].at = "created" THEN delivered \cup {call[c].tok} ELSE delivered
    /\ UNCHANGED <<redis, pg, issued>>

Aged(n) == IF n = 0 THEN 0 ELSE n - 1

\* Time passes: TTLs run down, rows and remembered expiry times come closer.
Tick ==
    /\ \E t \in Token : redis[t].left > 0 \/ pg[t].left > 0
    /\ redis' = [t \in Token |-> IF redis[t].left = 1 THEN Absent
                                 ELSE [redis[t] EXCEPT !.left = Aged(@)]]
    /\ pg' = [t \in Token |-> [pg[t] EXCEPT !.left = Aged(@)]]
    /\ call' = [c \in Call |-> [call[c] EXCEPT !.left = Aged(@)]]
    /\ UNCHANGED <<issued, delivered>>

\* Redis evicts a key or restarts without one.
RedisLoss(t) ==
    /\ RedisForgets
    /\ InRedis(t)
    /\ redis' = [redis EXCEPT ![t] = Absent]
    /\ UNCHANGED <<pg, issued, delivered, call>>

\* The server process dies and is started again: calls are forgotten.
Crash ==
    /\ \E c \in Call : call[c].at # "idle"
    /\ call' = [c \in Call |-> Idle]
    /\ UNCHANGED <<redis, pg, issued, delivered>>

Create(c) == RedisSet(c) \/ InsertSession(c)
Validate(c) == \/ RedisGet(c) \/ RedisExpire(c) \/ SelectSession(c) \/ CheckExpiry(c)
               \/ LookupUser(c)
Delete(c) == RedisDel(c) \/ EraseSession(c)
DeleteAll(c) == ListSessions(c) \/ SweepRedis(c) \/ EraseUserSessions(c)
Command(c) == Create(c) \/ Validate(c) \/ Delete(c) \/ DeleteAll(c)

Begin(c) == \/ \E u \in User : BeginCreate(c, u) \/ BeginDeleteAll(c, u)
            \/ \E t \in Token : BeginValidate(c, t) \/ BeginDelete(c, t)

StoreNext == \/ \E c \in Call : Begin(c) \/ Command(c) \/ Return(c)
             \/ \E t \in Token : RedisLoss(t)
             \/ Tick
             \/ Crash

StoreSpec == StoreInit /\ [][StoreNext]_storeVars

\* Time does not stop.
TimedSpec == StoreSpec /\ WF_storeVars(Tick)

-----------------------------------------------------------------------------
\* Properties

TypeOK ==
    /\ redis \in [Token -> Entry]
    /\ pg \in [Token -> Entry]
    /\ issued \in [Token -> User \cup {None}]
    /\ delivered \subseteq Token
    /\ call \in [Call -> Frame]

\* ValidateSession accepts a token only if it named a usable session when the
\* call began, and answers with the user it was issued to: neither a session
\* deleted, expired or lost earlier nor one never handed out lets anybody in,
\* whatever other calls do between GET and EXPIRE or SELECT and the check.
ValidSession ==
    \A c \in Call : call[c].at = "valid" =>
        call[c].tok \in call[c].before /\ call[c].user = issued[call[c].tok]

\* When DeleteSession returns nil and its DEL took effect the session is in
\* neither store, though other calls were validating and extending it.
LoggedOutIsDead ==
    \A c \in Call : call[c].at = "deleted" /\ call[c].missed = {} => ~Live(call[c].tok)

\* What DeleteAllUserSessions does achieve when it returns nil: no session the
\* user had before still has its row, and the listed ones are in neither store
\* unless a DEL failed or the list was cut short.
FallbackRevoked ==
    \A c \in Call : call[c].at = "revoked" =>
        /\ \A t \in call[c].before : ~InPg(t)
        /\ \A t \in call[c].rows \ call[c].missed : ~Live(t)

\* handlers/auth.go:460 says of this call "Invalidate all sessions".
AllRevoked ==
    \A c \in Call : call[c].at = "revoked" => \A t \in call[c].before : ~Live(t)

\* The abstract registry: fresh until generated, opening until its
\* CreateSession is over, then live or dead.
status == [t \in Token |-> IF issued[t] = None THEN "fresh"
                           ELSE IF Pending(t) THEN "opening"
                           ELSE IF Live(t) THEN "live" ELSE "dead"]

Registry == INSTANCE SessionRegistry WITH owner <- issued

\* The two stores together behave as one registry in which no token is ever
\* reused, changes its user or comes back after it died.
RegistrySpec == Registry!Spec

\* A session nobody presents any more expires for good: Redis keys and rows
\* have no other life than the 30 days they were given.
InUse(t) == \E c \in Call : call[c].tok = t
SessionsExpire ==
    \A t \in Token : <>[](~InUse(t)) => <>[](~Live(t))
=============================================================================
