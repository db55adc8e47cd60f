---------------------------- MODULE MCPromptBudget ----------------------------
EXTENDS PromptBudget

\* What costs nothing fits, what costs anything does not.
NothingMore == [r \in Region \cup {"total"} |-> 0]
===============================================================================
