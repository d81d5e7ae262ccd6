------------------------------ MODULE MCWebGui ------------------------------
\* Model values for WebGui; symmetry over files and column names.
EXTENDS WebGui, TLC

Symmetric == Permutations(Files) \union Permutations(ColumnNames)
=============================================================================
