----------------------------- MODULE MCMilTree -----------------------------
EXTENDS MilTree

\* Two reserved identifiers and non-reserved ones around the boundaries of
\* the four-digit field.
MCIdents == {0, 1, RES, RES + 1, RES + 100, RES + 1000, RES + 9999}

\* The same, and the first identifier past the field.
MCIdentsWide == MCIdents \cup {RES + 10000}
====
