----------------------------- MODULE MCAccounts -----------------------------
(***************************************************************************)
(* Instances of Accounts for TLC: the names are two spellings of one       *)
(* username.                                                               *)
(***************************************************************************)
EXTENDS Accounts, TLC

CONSTANTS p1, p2, e1, e2, ann, Ann, w1, t1, t2

TwoRequests == {p1, p2}
MCEmail == {e1, e2}
MCName == {ann, Ann}
MCFold(n) == IF n = Ann THEN ann ELSE n
MCPassword == {w1}
MCToken == {t1, t2}

AlwaysOk == {"ok"}
AnyOutcome == {"ok", "refused", "lost"}

\* The spellings of a name are not alike; the other sets are symmetric.
Symmetry == Permutations(Call) \cup Permutations(Email) \cup Permutations(Token)
=============================================================================
