-------------------------------- MODULE MCGc --------------------------------
(* Instances of Gc for TLC.  The roots are alike. *)
EXTENDS Gc, TLC

Symmetry == Permutations(Root)

(* One use at a time, and weak arrays with finalised values.                *)
Alone == {{"weak"}, {"final"}, {"gen"}}
WeakAndFinal == {{"weak", "final"}}
=============================================================================
