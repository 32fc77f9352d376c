---------------------------- MODULE MCAuthFlows ----------------------------
(***************************************************************************)
(* Instances of AuthFlows for TLC.                                         *)
(***************************************************************************)
EXTENDS AuthFlows, TLC

CONSTANTS p1, p2, u1, u2, t1, t2, t3, w1, w2, w3, m1, m2

TwoRequests == {p1, p2}
OneUser == {u1}
TwoUsers == {u1, u2}
TwoTokens == {t1, t2}
ThreeTokens == {t1, t2, t3}
TwoPasswords == {w1, w2}
ThreePasswords == {w1, w2, w3}
OnePassword == {w1}
OneMail == {m1}

SessionRoutes == {"login", "logout", "me", "change"}
SignedIn == {"logout", "me", "change"}
ResendOnly == {"resend"}
NoRoutes == {}
MailRoutes == {"login", "resend", "verify", "magic", "magicVerify", "forgot", "reset"}
MagicRoutes == {"magic", "magicVerify"}
OnlyChange == {"change"}
ChangeRoutes == {"login", "change"}

AlwaysOk == {"ok"}
OkOrRefused == {"ok", "refused"}
OkOrLost == {"ok", "lost"}

\* No property of the safety runs names a member of these sets.
Symmetry == Permutations(Call) \cup Permutations(User) \cup Permutations(Token)
                \cup Permutations(Password) \cup Permutations(Mail)
=============================================================================
