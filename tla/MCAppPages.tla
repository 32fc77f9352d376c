----------------------------- MODULE MCAppPages -----------------------------
(***************************************************************************)
(* An instance of AppPages for TLC.                                        *)
(***************************************************************************)
EXTENDS AppPages

CONSTANTS u1, u2, k1, k2

TwoUsers == {u1, u2}
OneUser == {u1}
OtherUser == {u2}
TwoCalls == {k1, k2}

\* The links of one user each; an address of #check-email is only come to by
\* the calls that lead there.  #forgot-password asks for a mail as #login does.
MCAddresses == {To(r) : r \in {"login", "register", "app", "reset-password"}}
                  \cup {Link("verify-email", u1), Link("magic-link", u2), Link("reset-password", u1)}
=============================================================================
