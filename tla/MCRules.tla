-------------------------------- MODULE MCRules --------------------------------
(* Instances of RulesLifecycle: texts "a" and "a2" are two texts of one rule *)
(* name, "b" has another name, "bad" does not validate.                      *)
EXTENDS RulesLifecycle

MCSlugOf == [t \in Texts |-> IF t = "b" THEN 2 ELSE 1]

Off     == [ZeroDep EXCEPT !.freq = "LIVE"]
Running == [Off EXCEPT !.enabled = TRUE]
Loud    == [Running EXCEPT !.alerting = TRUE]
Shelved == [Off EXCEPT !.archived = TRUE]

CreateLoud == {Loud}
TwoDeps == {Off, Loud}
ThreeDeps == {Off, Running, Loud}
FourDeps == {Off, Running, Loud, Shelved}
=============================================================================
