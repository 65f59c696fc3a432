----------------------------- MODULE MCService -----------------------------
(***************************************************************************)
(* Small instances of a service manager connection for TLC.                *)
(***************************************************************************)
EXTENDS Service
============================================================================
