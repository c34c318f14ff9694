--------------------------- MODULE MCAppLifecycle ---------------------------
(* TLC instance of AppLifecycle.                                           *)
EXTENDS AppLifecycle, TLC
=============================================================================
