------------------------ MODULE MCOperatorPrograms ------------------------
(* The instance of OperatorPrograms for TLC. *)
EXTENDS OperatorPrograms
===========================================================================
