-------------------------------- MODULE MCDict --------------------------------
(* Small dictionaries: one more key than there are slots, so that the table
   fills up and refuses, and room for two holes. *)
EXTENDS Dict, TLC

KeySymmetry == Permutations(Keys) \cup Permutations(Values)

===============================================================================
