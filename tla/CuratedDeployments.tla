-------------------------- MODULE CuratedDeployments --------------------------
(***************************************************************************)
(* curated/deployments.yaml, pulled and pushed (PullCurated,               *)
(* PushCuratedDeployments). The deployments of Google's rule sets are      *)
(* switched on and off and never made or removed by the tool: one file     *)
(* holds all of them, and a push sends the ones that differ in one batch   *)
(* that the platform applies as a whole or not at all.                     *)
(*                                                                         *)
(* A deployment is numbered by its place in the file, which is sorted.     *)
(***************************************************************************)
EXTENDS Naturals

CONSTANTS
  Switches,           \* deployments: numbers of a category, rule set and precision
  MaxCuratedCommands, \* bound on commands
  MaxCuratedChanges,  \* bound on edits of the file and on changes by others
  NoDeployment, NoCurated, Garbled

ASSUME CuratedAssumption ==
  /\ Switches \subseteq Nat
  /\ NoDeployment \notin [enabled : BOOLEAN, alerting : BOOLEAN]
  /\ {NoCurated, Garbled} \cap [Switches -> [enabled : BOOLEAN, alerting : BOOLEAN]
                                            \cup {NoDeployment}] = {}
  /\ NoCurated # Garbled

VARIABLES
  deployed,    \* the deployments of the instance
  curatedFile, \* the file: deployments, NoCurated, or Garbled when it cannot be parsed
  curatedPc,   \* "idle", "batch" or "write"
  curatedWant, \* the file as the push loaded it
  curatedHave, \* the deployments as the push listed them
  curatedCommands, curatedChanges,
  (* History, read by properties only. *)
  touched,     \* edited, changed by others or cut off in the file since the last whole pull
  curatedCalm  \* the last command is a push that succeeded, undisturbed

curatedLocals == <<curatedWant, curatedHave>>
curatedVars == <<deployed, curatedFile, curatedPc, curatedLocals, curatedCommands,
                 curatedChanges, touched, curatedCalm>>

Deployment == [enabled : BOOLEAN, alerting : BOOLEAN]
Deployments == [Switches -> Deployment \cup {NoDeployment}]
Off == [enabled |-> FALSE, alerting |-> FALSE]

CuratedMay ==
  /\ curatedPc = "idle"
  /\ curatedCommands < MaxCuratedCommands /\ curatedCommands' = curatedCommands + 1

-----------------------------------------------------------------------------
(* Pull *)

\* Mutant: a deployment that could not be listed is written as switched off.
SnapshotZeroes(unlisted) == [p \in Switches |-> IF p \in unlisted THEN Off ELSE deployed[p]]

\* The deployments of the rule sets that were listed. A listing that fails, of one category's
\* rule sets or of the deployments from some page on, is a warning.
Snapshot(unlisted) == [p \in Switches |-> IF p \in unlisted THEN NoDeployment ELSE deployed[p]]

\* What a write that breaks off at place n leaves of the content f: the deployments before
\* n; that at n may have lost its fields, or the second of them, which then read as false.
Cut(f, n) ==
  {[p \in Switches |-> IF p < n THEN f[p] ELSE IF p = n THEN d ELSE NoDeployment] :
     d \in {NoDeployment} \cup
           (IF f[n] = NoDeployment THEN {} ELSE {Off, [f[n] EXCEPT !.alerting = FALSE]})}

Differing(f, g) == {p \in Switches : f[p] # g[p]}

\* The file is written in place, or the write breaks off.
WriteCurated(f) ==
  \/ curatedFile' = f /\ touched' = {}
  \/ \E n \in Switches : \E torn \in Cut(f, n) :
       curatedFile' = torn /\ touched' = Differing(torn, f)
  \/ curatedFile' = Garbled /\ touched' = {}

PullCurated ==
  /\ CuratedMay
  /\ \/ \E unlisted \in SUBSET Switches : WriteCurated(Snapshot(unlisted))
     \/ UNCHANGED <<curatedFile, touched>>   \* the categories could not be listed
  /\ curatedCalm' = FALSE
  /\ UNCHANGED <<deployed, curatedPc, curatedLocals, curatedChanges>>

-----------------------------------------------------------------------------
(* Push *)

\* The push ends with an error, or is killed.
CuratedFails == curatedPc' = "idle" /\ curatedCalm' = FALSE

Stated(f) == {p \in Switches : f[p] # NoDeployment}

\* curatedDeploymentChanges
Candidates == {p \in Stated(curatedWant) : curatedWant[p] # curatedHave[p]}

\* The file, the listing and the plan: an error if there is no file, it cannot be parsed,
\* the listing fails, or a deployment of the file is not live.
PushCurated ==
  /\ CuratedMay
  /\ \/ CuratedFails /\ UNCHANGED curatedLocals
     \/ /\ curatedFile \in Deployments
        /\ Stated(curatedFile) \subseteq Stated(deployed)
        /\ curatedWant' = curatedFile /\ curatedHave' = deployed
        /\ curatedPc' = IF Candidates' = {} THEN "idle" ELSE "batch"
        /\ curatedCalm' = TRUE
  /\ UNCHANGED <<deployed, curatedFile, curatedChanges, touched>>

\* BatchUpdateCuratedRuleSetDeployments: both fields of each candidate.
Batched == [p \in Switches |-> IF p \in Candidates THEN curatedWant[p] ELSE deployed[p]]

BatchCurated ==
  /\ curatedPc = "batch"
  /\ \/ CuratedFails /\ UNCHANGED deployed
     \/ /\ Candidates \subseteq Stated(deployed)
        /\ deployed' = Batched
        /\ \/ CuratedFails
           \/ curatedPc' = "write" /\ UNCHANGED curatedCalm
  /\ UNCHANGED <<curatedFile, curatedLocals, curatedCommands, curatedChanges, touched>>

\* The file as loaded is written again; a failure to write it is only a warning.
WriteBack ==
  /\ curatedPc = "write" /\ curatedPc' = "idle"
  /\ \/ curatedFile' = curatedWant /\ UNCHANGED <<touched, curatedCalm>>
     \/ /\ \E n \in Switches : \E torn \in Cut(curatedWant, n) :
             /\ curatedFile' = torn
             /\ touched' = touched \cup Differing(torn, curatedWant)
        /\ curatedCalm' = FALSE
     \/ /\ curatedFile' \in {curatedFile, Garbled}
        /\ curatedCalm' = FALSE /\ UNCHANGED touched
  /\ UNCHANGED <<deployed, curatedLocals, curatedCommands, curatedChanges>>

-----------------------------------------------------------------------------
(* Everybody else *)

\* Others switch a deployment (the console, `curated set`); Google adds or withdraws one.
CuratedUi ==
  /\ curatedChanges < MaxCuratedChanges /\ curatedChanges' = curatedChanges + 1
  /\ \E p \in Switches, d \in Deployment \cup {NoDeployment} :
       /\ deployed[p] # d
       /\ deployed' = [deployed EXCEPT ![p] = d]
       /\ touched' = touched \cup {p}
  /\ curatedCalm' = FALSE
  /\ UNCHANGED <<curatedFile, curatedPc, curatedLocals, curatedCommands>>

\* The operator edits the file, at any time.
CuratedEdit ==
  /\ curatedFile \in Deployments
  /\ curatedChanges < MaxCuratedChanges /\ curatedChanges' = curatedChanges + 1
  /\ \E p \in Switches, d \in Deployment \cup {NoDeployment} :
       /\ curatedFile[p] # d
       /\ curatedFile' = [curatedFile EXCEPT ![p] = d]
       /\ touched' = touched \cup {p}
  /\ curatedCalm' = FALSE
  /\ UNCHANGED <<deployed, curatedPc, curatedLocals, curatedCommands>>

-----------------------------------------------------------------------------
(* Specification *)

CuratedInit ==
  /\ deployed \in Deployments
  /\ curatedFile = NoCurated
  /\ curatedPc = "idle"
  /\ curatedWant = Snapshot(Switches) /\ curatedHave = Snapshot(Switches)
  /\ curatedCommands = 0 /\ curatedChanges = 0
  /\ touched = {} /\ curatedCalm = FALSE

CuratedNext ==
  \/ PullCurated \/ PushCurated \/ BatchCurated \/ WriteBack
  \/ CuratedUi \/ CuratedEdit

CuratedSpec == CuratedInit /\ [][CuratedNext]_curatedVars

-----------------------------------------------------------------------------
(* Properties *)

\* Every variable has its type.
CuratedTypeOK ==
  /\ deployed \in Deployments
  /\ curatedFile \in Deployments \cup {NoCurated, Garbled}
  /\ curatedPc \in {"idle", "batch", "write"}
  /\ curatedWant \in Deployments /\ curatedHave \in Deployments
  /\ curatedCommands \in Nat /\ curatedChanges \in Nat
  /\ touched \subseteq Switches /\ curatedCalm \in BOOLEAN

\* A push switches only deployments that the operator edited or others changed since the
\* file was pulled (or that a write of the file cut off): nothing that a pull could not read
\* is ever switched, as pull_curated.go:99-125 leaves it out of the file.
NoBlindSwitch ==
  [][BatchCurated => \A p \in Switches : deployed'[p] # deployed[p] => p \in touched]_curatedVars

\* After a push that succeeds undisturbed, every deployment of the file is live as the file
\* has it, so that the next plan is empty (push_curated.go:37-40).
CuratedSettles ==
  curatedPc = "idle" /\ curatedCalm =>
    /\ curatedFile \in Deployments
    /\ \A p \in Stated(curatedFile) : deployed[p] = curatedFile[p]
=============================================================================
