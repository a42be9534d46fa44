----------------------------- MODULE MCReconcile -----------------------------
(***************************************************************************)
(* Instances of Reconcile for TLC. Bodies: 1 and 3 share a display name    *)
(* (stem 10), 3 is 1 with a key removed, so that sending 3 over a live 1   *)
(* leaves 1 (DeepMerge never removes a live key); 2 has a name of its own. *)
(***************************************************************************)
EXTENDS Reconcile

MCContents == {1, 2, 3}
MCSlugOf == [c \in MCContents |-> IF c = 2 THEN 20 ELSE 10]
MCOverlay == [pair \in MCContents \X MCContents |-> IF pair = <<1, 3>> THEN 1 ELSE pair[2]]

\* Suffixed names are the numbers after their slug: 10 gives 11 and 12.
MCStems == {10, 11, 12, 20, 21, 22}
MCSuffixed == [pair \in MCStems \X {1, 2} |-> IF pair[1] = 20 THEN 20 + pair[2] ELSE 10 + pair[2]]

\* A third object whose own name is the suffixed one of a namesake.
MCAlikeStems == {10, 11, 12, 20}
MCSuffixedAlike ==
  [pair \in MCAlikeStems \X {1, 2, 3} |-> CASE pair[2] = 1 -> 20 [] pair[2] = 2 -> 11 [] OTHER -> 12]
=============================================================================
