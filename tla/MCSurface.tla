------------------------------- MODULE MCSurface -------------------------------
(***************************************************************************)
(* Instances of JsonSurface: two names; the secrets k1 and k2; a file as   *)
(* pulled, one with a masked array, one that lacks the secrets and one     *)
(* with another name and new secrets.                                      *)
(***************************************************************************)
EXTENDS JsonSurface

Make(n, t, l) == [name |-> n, token |-> t, list |-> l]

MCLocals == {Make("a", Mask, Missing), Make("a", "k1", Mask),
             Make("a", Missing, Missing), Make("b", "k2", "k1")}
MCUiBodies == {Make("a", "k1", Missing), Make("b", "k1", "k2")}
MCKinds == {[getOne |-> g, keyed |-> k, idless |-> n] :
              <<g, k, n>> \in {<<TRUE, TRUE, FALSE>>, <<FALSE, FALSE, FALSE>>, <<FALSE, FALSE, TRUE>>}}
=============================================================================
