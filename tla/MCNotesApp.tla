----------------------------- MODULE MCNotesApp -----------------------------
(***************************************************************************)
(* An instance of NotesApp for TLC.                                        *)
(***************************************************************************)
EXTENDS NotesApp, TLC

CONSTANTS p1, k1, k2, u1, n1, n2

OnePage == {p1}
TwoCalls == {k1, k2}
OneUser == {u1}
TwoNotes == {n1, n2}

\* One way with a session at once, one with a second call.
MagicOrReset == {"magic", "reset"}
AnyOutcome == {"ok", "refused", "lost"}

Symmetry == Permutations(Call) \cup Permutations(Note)
=============================================================================
