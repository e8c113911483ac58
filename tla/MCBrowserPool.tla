---------------------------- MODULE MCBrowserPool ----------------------------
(* Instances of BrowserPool for TLC.                                         *)
EXTENDS BrowserPool

AllFaults == FaultKind
OnlyCancel == {"cancel"}            \* a healthy Chrome, impatient clients
=============================================================================
