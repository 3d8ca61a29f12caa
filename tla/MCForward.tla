------------------------------ MODULE MCForward -------------------------------
(***************************************************************************)
(* Instances of ForwardRunner: an account of 1000 and results that stay    *)
(* near the warning level, that lock the day, that open a breaker set      *)
(* below the lockout, and that open the default one.                       *)
(***************************************************************************)
EXTENDS ForwardRunner

Small  == {-26, 2}
Medium == {-60, 20}
Mixed  == {-26, 20, -160}
Severe == {-160, 20}
==============================================================================
