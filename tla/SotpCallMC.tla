----------------------------- MODULE SotpCallMC -----------------------------
(***************************************************************************)
(* SotpCall for TLC.  One unit of time is three seconds, the resend        *)
(* interval of the code, so that Window = 4 is its twelve seconds.         *)
(***************************************************************************)
EXTENDS SotpCall
=============================================================================
