------------------------- MODULE MCIntentEnvelopes -------------------------
(***************************************************************************)
(* An instance of IntentEnvelopes for TLC.                                  *)
(***************************************************************************)
EXTENDS IntentEnvelopes

=============================================================================
