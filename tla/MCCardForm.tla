----------------------------- MODULE MCCardForm -----------------------------
(* Model checking of CardForm.                                              *)
EXTENDS CardForm

=============================================================================
