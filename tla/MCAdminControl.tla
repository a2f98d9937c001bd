--------------------------- MODULE MCAdminControl ---------------------------
(* Model-checking instance of AdminControl: see the .cfg file.             *)
EXTENDS AdminControl, TLC

CONSTANTS b1, b2

MCTwoBrowsers == {b1, b2}
MCTwoPasswords == {"old", "new"}

\* Browsers are interchangeable.
MCSymmetry == Permutations(MCTwoBrowsers)
=============================================================================
