---------------------------- MODULE MCFileLogger ----------------------------
(* A small instance of FileLogger, with both policies. *)
EXTENDS FileLogger

MCPolices == <<"time", "size">>
=============================================================================
