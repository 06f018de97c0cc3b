--------------------------- MODULE MCTimeoutBudget ---------------------------
(* The timeouts of a small instance of TimeoutBudget; a .cfg has no place for  *)
(* a negative number.                                                          *)
EXTENDS TimeoutBudget

MCTimes == {-3, 0, 1, 2, 3}
=============================================================================
