----------------------------- MODULE MCSusCache ------------------------------
(***************************************************************************)
(* SusCache for three processes that want the same model, of which one is  *)
(* offline and one opens twice.  A server brings anything, or only the     *)
(* model that is wanted.                                                   *)
(***************************************************************************)
EXTENDS SusCache

CONSTANTS p1, p2, p3, good, other, partial, any

Agreed == [p \in Processes |-> good]

Opens == [p \in Processes |-> IF p = p1 THEN 2 ELSE 1]
==============================================================================
