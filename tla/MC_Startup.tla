------------------------------ MODULE MC_Startup ------------------------------
\* Every talk of two messages.
EXTENDS Startup

MCTalks == [1..2 -> [list : List, rel : BOOLEAN]]
================================================================================
