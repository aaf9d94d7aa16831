--------------------------- MODULE MCMctpTransport ---------------------------
(* Constant values for model checking MctpTransport. *)
EXTENDS MctpTransport

TwoStrangers == {"e2", "e3"}

=============================================================================
