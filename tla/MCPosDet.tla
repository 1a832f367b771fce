------------------------------ MODULE MCPosDet ------------------------------
EXTENDS PosDet

\* The first and last years of the two digits, both sides of 1970 and of the century,
\* leap years and others.
MCYears == {1957, 1970, 1999, 2000, 2001, 2025, 2056}
=============================================================================
