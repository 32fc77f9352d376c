--------------------------- MODULE MCSessionStore ---------------------------
(***************************************************************************)
(* Instances of SessionStore for TLC.                                      *)
(***************************************************************************)
EXTENDS SessionStore, TLC

CONSTANTS c1, c2, u1, u2, t1, t2

MCCall == {c1, c2}
OneCall == {c1}
MCUser == {u1, u2}
OneUser == {u1}
MCToken == {t1, t2}
OneToken == {t1}

AlwaysOk == {"ok"}
AnyOutcome == {"ok", "refused", "lost"}
OkOrRefused == {"ok", "refused"}

\* No property of the safety runs names a call, a user or a token.
Symmetry == Permutations(MCCall) \cup Permutations(MCUser) \cup Permutations(MCToken)
=============================================================================
