-------------------------------- MODULE MCImage --------------------------------
(****************************************************************************)
(* The instance of Image that is model-checked.  The goroutines that        *)
(* evaluate are interchangeable, and so are the browsers: no definition     *)
(* chooses one of them.                                                     *)
(****************************************************************************)
EXTENDS Image, TLC

Symmetry == Permutations(Thread) \cup Permutations(Client)
================================================================================
