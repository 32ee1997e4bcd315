-------------------------- MODULE MCBaudAlignment --------------------------
(***************************************************************************)
(* TLC instance of BaudAlignment: three rates that are candidates at some  *)
(* time and one that need not be.                                          *)
(***************************************************************************)
EXTENDS BaudAlignment
=============================================================================
