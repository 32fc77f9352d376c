---------------------------- MODULE MCApiClient -----------------------------
(***************************************************************************)
(* An instance of ApiClient for TLC.                                       *)
(***************************************************************************)
EXTENDS ApiClient, TLC

CONSTANTS p1, k1, k2, t1, t2, t3, t4

OnePage == {p1}
TwoCalls == {k1, k2}
\* TLC fails to evaluate Fresh if these can all be in use.
FourTokens == {t1, t2, t3, t4}
=============================================================================
