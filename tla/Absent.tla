-------------------------------- MODULE Absent --------------------------------
(***************************************************************************)
(* What stands for a row, a value or a reading that is not there: None of  *)
(* Python and NULL of SQL.  Components that are proved about together      *)
(* share it.                                                               *)
(***************************************************************************)
CONSTANT None
=============================================================================
