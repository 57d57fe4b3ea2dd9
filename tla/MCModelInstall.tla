---------------------------- MODULE MCModelInstall ----------------------------
(* The small instances of ModelInstall that TLC checks. *)
EXTENDS ModelInstall
===============================================================================
