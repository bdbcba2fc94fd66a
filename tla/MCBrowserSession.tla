-------------------------- MODULE MCBrowserSession --------------------------
(* Model checking of BrowserSession.                                       *)
EXTENDS BrowserSession

=============================================================================
