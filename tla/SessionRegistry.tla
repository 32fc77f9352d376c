-------------------------- MODULE SessionRegistry --------------------------
(***************************************************************************)
(* What the session part of services/auth.go promises, with no storage in  *)
(* it.  A token is generated once, for one user; while CreateSession runs  *)
(* it is "opening"; after that it is either live or dead, and a dead token *)
(* stays dead, whatever expires, is deleted, is lost or crashes.           *)
(***************************************************************************)

CONSTANTS Token,  \* what GenerateSessionToken can return
          User,   \* the rows of table users
          None    \* no user

VARIABLES status, \* status[t]: the stage of token t
          owner   \* owner[t]: the user t was generated for

vars == <<status, owner>>

Stage == {"fresh", "opening", "live", "dead"}

\* Stages a token may have after a step, given the one it has before.
After(stage) == CASE stage = "fresh"   -> {"fresh"}
                  [] stage = "opening" -> {"opening", "live", "dead"}
                  [] stage = "live"    -> {"live", "dead"}
                  [] stage = "dead"    -> {"dead"}

Init == /\ status = [t \in Token |-> "fresh"]
        /\ owner = [t \in Token |-> None]

\* CreateSession has generated t for user u.
Open(t, u) ==
    /\ status[t] = "fresh"
    /\ status' = [status EXCEPT ![t] = "opening"]
    /\ owner' = [owner EXCEPT ![t] = u]

\* Any number of tokens move on: a create ends, sessions expire or are
\* deleted, a store loses them, the server crashes.
Settle ==
    /\ status' \in [Token -> Stage]
    /\ \A t \in Token : status'[t] \in After(status[t])
    /\ UNCHANGED owner

Next == Settle \/ \E t \in Token, u \in User : Open(t, u)

Spec == Init /\ [][Next]_vars
=============================================================================
