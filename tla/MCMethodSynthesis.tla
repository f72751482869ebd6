-------------------------- MODULE MCMethodSynthesis --------------------------
(***************************************************************************)
(* MethodSynthesis for classes of two and three methods.                    *)
(***************************************************************************)
EXTENDS MethodSynthesis

CONSTANTS init, process, main

TwoMethods == <<process, main>>
ThreeMethods == <<init, process, main>>
=============================================================================
