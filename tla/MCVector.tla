-------------------------------- MODULE MCVector --------------------------------
(***************************************************************************)
(* Instance of Vector: enough memory for two doublings of a small vector,  *)
(* indices before, inside, at and far behind its end.                      *)
(***************************************************************************)
EXTENDS Vector

MCIndices == {-1, 0, 1, 3, 5}
===============================================================================
