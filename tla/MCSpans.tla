------------------------------- MODULE MCSpans -------------------------------
(***************************************************************************)
(* Instance of Spans for TLC: two requests, one of which is made twice.      *)
(***************************************************************************)
EXTENDS Spans

=============================================================================
