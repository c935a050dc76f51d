-------------------------------- MODULE MCFs --------------------------------
(* Model-checking instances of Fs: works and heaps are model values. *)
EXTENDS Fs, TLC

WorkSymmetry == Permutations(Works)
=============================================================================
