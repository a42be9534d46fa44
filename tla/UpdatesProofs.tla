------------------------------ MODULE UpdatesProofs ------------------------------
(***************************************************************************)
(* Proofs about the surfaces whose push is many calls: curated             *)
(* deployments, featured rules, data taps, data tables and dashboards.     *)
(***************************************************************************)
EXTENDS CuratedDeployments, FeaturedRules, DataTaps, DataTables, DashboardPush,
        FiniteSetTheorems, TLAPS

-----------------------------------------------------------------------------
(* Curated deployments *)

\* What stands in the file is live unless it was touched, a push sends only what was
\* touched, and what a push found equal stays equal until it is touched.
CuratedInv ==
  /\ curatedFile \in Deployments =>
       \A p \in Stated(curatedFile) \ touched : deployed[p] = curatedFile[p]
  /\ curatedPc = "batch" => Candidates \subseteq touched
  /\ curatedPc \in {"batch", "write"} =>
       \A p \in Stated(curatedWant) \ touched : deployed[p] = curatedWant[p]

\* One deployment changed, and a piece of a file.
LEMMA SwitchType ==
  ASSUME NEW f \in Deployments, NEW p \in Switches, NEW d \in Deployment \cup {NoDeployment}
  PROVE  [f EXCEPT ![p] = d] \in Deployments
BY DEF Deployments

LEMMA CutType ==
  ASSUME NEW f \in Deployments, NEW n \in Switches, NEW torn \in Cut(f, n)
  PROVE  torn \in Deployments
<1>1. PICK d \in {NoDeployment} \cup
                 (IF f[n] = NoDeployment THEN {} ELSE {Off, [f[n] EXCEPT !.alerting = FALSE]}) :
        torn = [p \in Switches |-> IF p < n THEN f[p] ELSE IF p = n THEN d ELSE NoDeployment]
  BY DEF Cut
<1>2. Off \in Deployment
  BY DEF Off, Deployment
<1>3. ASSUME f[n] # NoDeployment PROVE [f[n] EXCEPT !.alerting = FALSE] \in Deployment
  <2>1. f[n] \in Deployment
    BY <1>3 DEF Deployments
  <2> QED BY <2>1 DEF Deployment
<1>4. d \in Deployment \cup {NoDeployment}
  BY <1>1, <1>2, <1>3
<1> QED BY <1>1, <1>4 DEF Deployments

LEMMA BatchedType ==
  ASSUME deployed \in Deployments, curatedWant \in Deployments
  PROVE  Batched \in Deployments
BY DEF Batched, Deployments

LEMMA SnapshotType ==
  ASSUME deployed \in Deployments, NEW unlisted \in SUBSET Switches
  PROVE  Snapshot(unlisted) \in Deployments
BY DEF Snapshot, Deployments

LEMMA WriteType ==
  ASSUME NEW f \in Deployments, WriteCurated(f)
  PROVE  curatedFile' \in Deployments \cup {NoCurated, Garbled} /\ touched' \subseteq Switches
BY CutType DEF WriteCurated, Differing

LEMMA CuratedStepType ==
  ASSUME CuratedTypeOK, [CuratedNext]_curatedVars
  PROVE  CuratedTypeOK'
<1>1. curatedCommands' \in Nat /\ curatedChanges' \in Nat
  BY DEF CuratedNext, CuratedTypeOK, PullCurated, PushCurated, BatchCurated, WriteBack, CuratedUi,
         CuratedEdit, CuratedMay, curatedVars
<1>2. curatedPc' \in {"idle", "batch", "write"}
  BY DEF CuratedNext, CuratedTypeOK, PullCurated, PushCurated, BatchCurated, WriteBack, CuratedUi,
         CuratedEdit, CuratedMay, CuratedFails, curatedVars
<1>3. curatedCalm' \in BOOLEAN
  BY Zenon DEF CuratedNext, CuratedTypeOK, PullCurated, PushCurated, BatchCurated, WriteBack,
         CuratedUi, CuratedEdit, CuratedFails, curatedVars
<1>4. curatedWant' \in Deployments /\ curatedHave' \in Deployments
  BY DEF CuratedNext, CuratedTypeOK, PullCurated, PushCurated, BatchCurated, WriteBack, CuratedUi,
         CuratedEdit, curatedVars, curatedLocals
<1>5. deployed' \in Deployments
  <2>1. CASE BatchCurated
    BY <2>1, BatchedType DEF BatchCurated, CuratedTypeOK
  <2>2. CASE CuratedUi
    <3>1. PICK p \in Switches, d \in Deployment \cup {NoDeployment} :
                 deployed' = [deployed EXCEPT ![p] = d]
      BY <2>2 DEF CuratedUi
    <3> QED BY <3>1, SwitchType DEF CuratedTypeOK
  <2>3. CASE PullCurated \/ PushCurated \/ WriteBack \/ CuratedEdit \/ UNCHANGED curatedVars
    BY <2>3 DEF CuratedTypeOK, PullCurated, PushCurated, WriteBack, CuratedEdit, curatedVars
  <2> QED BY <2>1, <2>2, <2>3 DEF CuratedNext
<1>6. curatedFile' \in Deployments \cup {NoCurated, Garbled} /\ touched' \subseteq Switches
  <2>0. deployed \in Deployments /\ curatedWant \in Deployments /\ touched \subseteq Switches
        /\ curatedFile \in Deployments \cup {NoCurated, Garbled}
    BY DEF CuratedTypeOK
  <2>1. CASE PullCurated
    <3>1. ASSUME NEW unlisted \in SUBSET Switches, WriteCurated(Snapshot(unlisted))
          PROVE  curatedFile' \in Deployments \cup {NoCurated, Garbled} /\ touched' \subseteq Switches
      BY <3>1, <2>0, SnapshotType, WriteType
    <3> QED BY <2>0, <2>1, <3>1 DEF PullCurated
  <2>2. CASE WriteBack
    <3>1. ASSUME NEW n \in Switches, NEW torn \in Cut(curatedWant, n)
          PROVE  torn \in Deployments /\ Differing(torn, curatedWant) \subseteq Switches
      BY <2>0, CutType DEF Differing
    <3> QED BY <2>0, <2>2, <3>1 DEF WriteBack
  <2>3. CASE CuratedUi
    BY <2>0, <2>3 DEF CuratedUi
  <2>4. CASE CuratedEdit
    <3>1. PICK p \in Switches, d \in Deployment \cup {NoDeployment} :
                 curatedFile' = [curatedFile EXCEPT ![p] = d] /\ touched' = touched \cup {p}
      BY <2>4 DEF CuratedEdit
    <3>2. curatedFile \in Deployments
      BY <2>4 DEF CuratedEdit
    <3> QED BY <2>0, <3>1, <3>2, SwitchType
  <2>5. CASE PushCurated \/ BatchCurated \/ UNCHANGED curatedVars
    BY <2>5 DEF PushCurated, BatchCurated, curatedVars, CuratedTypeOK
  <2> QED BY <2>1, <2>2, <2>3, <2>4, <2>5 DEF CuratedNext
<1> QED BY <1>1, <1>2, <1>3, <1>4, <1>5, <1>6 DEF CuratedTypeOK

\* The step of the inductive invariant.
LEMMA CuratedStepInv ==
  ASSUME CuratedTypeOK, CuratedInv, [CuratedNext]_curatedVars
  PROVE  CuratedInv'
<1>1. CASE PullCurated
  <2>1. ASSUME NEW unlisted \in SUBSET Switches, WriteCurated(Snapshot(unlisted)) PROVE CuratedInv'
    <3> DEFINE f == Snapshot(unlisted)
    <3>0. f \in Deployments /\ f \notin {NoCurated, Garbled}
      BY SnapshotType, CuratedAssumption DEF CuratedTypeOK, Deployments, Deployment
    <3>1. \A p \in Stated(f) : f[p] = deployed[p]
      BY DEF Stated, Snapshot
    <3>2. deployed' = deployed /\ curatedPc' = "idle"
      BY <1>1 DEF PullCurated, CuratedMay
    <3>3. CASE curatedFile' = f /\ touched' = {}
      BY <3>1, <3>2, <3>3 DEF CuratedInv, Stated
    <3>4. CASE \E n \in Switches : \E torn \in Cut(f, n) :
                 curatedFile' = torn /\ touched' = Differing(torn, f)
      BY <3>1, <3>2, <3>4 DEF CuratedInv, Stated, Differing
    <3>5. CASE curatedFile' = Garbled /\ touched' = {}
      BY <3>2, <3>5, CuratedAssumption DEF CuratedInv, Deployments, Deployment
    <3> QED BY <2>1, <3>3, <3>4, <3>5 DEF WriteCurated
  <2>2. CASE UNCHANGED <<curatedFile, touched>>
    BY <1>1, <2>2 DEF PullCurated, CuratedMay, CuratedInv, Candidates, Stated, curatedLocals
  <2> QED BY <1>1, <2>1, <2>2 DEF PullCurated
<1>2. CASE PushCurated
  <2>1. CASE curatedPc' = "idle"
    BY <1>2, <2>1 DEF PushCurated, CuratedInv
  <2>2. CASE curatedPc' # "idle"
    <3>1. curatedFile \in Deployments /\ curatedWant' = curatedFile /\ curatedHave' = deployed
      BY <1>2, <2>2 DEF PushCurated, CuratedFails
    <3> QED BY <1>2, <3>1 DEF PushCurated, CuratedInv, Candidates, Stated
  <2> QED BY <2>1, <2>2
<1>3. CASE BatchCurated
  <2>1. \A p \in Switches \ touched : deployed'[p] = deployed[p]
    BY <1>3 DEF BatchCurated, CuratedInv, Batched, CuratedTypeOK, Deployments
  <2>2. curatedPc' # "batch"
    BY <1>3 DEF BatchCurated, CuratedFails
  <2> QED BY <1>3, <2>1, <2>2 DEF BatchCurated, CuratedInv, Stated, curatedLocals
<1>4. CASE WriteBack
  BY <1>4, CuratedAssumption DEF WriteBack, CuratedInv, Stated, Differing, Deployments, Deployment
<1>5. CASE CuratedUi
  BY <1>5 DEF CuratedUi, CuratedInv, CuratedTypeOK, Deployments, Candidates, Stated, curatedLocals
<1>6. CASE CuratedEdit
  BY <1>6 DEF CuratedEdit, CuratedInv, CuratedTypeOK, Deployments, Candidates, Stated, curatedLocals
<1>7. CASE UNCHANGED curatedVars
  BY <1>7 DEF curatedVars, curatedLocals, CuratedInv, Candidates, Stated
<1> QED BY <1>1, <1>2, <1>3, <1>4, <1>5, <1>6, <1>7 DEF CuratedNext

LEMMA CuratedStart == CuratedInit => CuratedTypeOK /\ CuratedInv
<1> SUFFICES ASSUME CuratedInit PROVE CuratedTypeOK /\ CuratedInv
  OBVIOUS
<1>1. Snapshot(Switches) \in Deployments
  BY SnapshotType DEF CuratedInit
<1>2. NoCurated \notin Deployments
  BY CuratedAssumption DEF Deployments, Deployment
<1> QED BY <1>1, <1>2 DEF CuratedInit, CuratedTypeOK, CuratedInv

\* The file, the listing and the plan are typed, in every run.
THEOREM CuratedTypeCorrect == CuratedSpec => []CuratedTypeOK
BY CuratedStart, CuratedStepType, PTL DEF CuratedSpec

LEMMA CuratedInductive == CuratedSpec => [](CuratedTypeOK /\ CuratedInv)
<1>1. CuratedTypeOK /\ CuratedInv /\ [CuratedNext]_curatedVars => (CuratedTypeOK /\ CuratedInv)'
  BY CuratedStepType, CuratedStepInv
<1> QED BY CuratedStart, <1>1, PTL DEF CuratedSpec

\* A push switches only what was edited in the file, changed by others or cut off in the
\* file since the file was pulled, whatever the pull failed to list.
THEOREM CuratedSwitchesSeen == CuratedSpec => NoBlindSwitch
<1>1. CuratedTypeOK /\ CuratedInv /\ [CuratedNext]_curatedVars
        => [BatchCurated => \A p \in Switches : deployed'[p] # deployed[p] => p \in touched]_curatedVars
  <2> SUFFICES ASSUME CuratedTypeOK, CuratedInv, BatchCurated,
                      NEW p \in Switches, deployed'[p] # deployed[p]
               PROVE  p \in touched
    OBVIOUS
  <2> QED BY DEF BatchCurated, CuratedInv, Batched, CuratedTypeOK, Deployments
<1> QED BY CuratedInductive, <1>1, PTL DEF CuratedSpec, NoBlindSwitch

\* What a calm push knows: between its plan and its end nothing but it has written.
CalmPush ==
  /\ curatedPc = "idle" /\ curatedCalm =>
       curatedFile \in Deployments /\ \A p \in Stated(curatedFile) : deployed[p] = curatedFile[p]
  /\ curatedPc = "batch" /\ curatedCalm => curatedHave = deployed
  /\ curatedPc = "write" /\ curatedCalm =>
       \A p \in Stated(curatedWant) : deployed[p] = curatedWant[p]

LEMMA CalmStep ==
  ASSUME CuratedTypeOK, CalmPush, [CuratedNext]_curatedVars
  PROVE  CalmPush'
<1>1. CASE PullCurated \/ CuratedUi \/ CuratedEdit
  BY <1>1 DEF PullCurated, CuratedUi, CuratedEdit, CalmPush
<1>2. CASE PushCurated
  <2>1. CASE CuratedFails
    BY <2>1 DEF CuratedFails, CalmPush
  <2>2. CASE ~CuratedFails
    <3>1. /\ curatedFile \in Deployments /\ curatedWant' = curatedFile /\ curatedHave' = deployed
          /\ deployed' = deployed /\ curatedFile' = curatedFile
          /\ curatedPc' = IF Candidates' = {} THEN "idle" ELSE "batch"
      BY <1>2, <2>2 DEF PushCurated
    <3>2. CASE Candidates' = {}
      BY <3>1, <3>2 DEF CalmPush, Candidates, Stated
    <3>3. CASE Candidates' # {}
      BY <3>1, <3>3 DEF CalmPush
    <3> QED BY <3>2, <3>3
  <2> QED BY <2>1, <2>2
<1>3. CASE BatchCurated
  <2>1. CASE CuratedFails
    BY <2>1 DEF CuratedFails, CalmPush
  <2>2. CASE ~CuratedFails
    <3>1. deployed' = Batched /\ curatedPc' = "write" /\ curatedCalm' = curatedCalm
          /\ curatedWant' = curatedWant
      BY <1>3, <2>2 DEF BatchCurated, curatedLocals
    <3>2. ASSUME curatedCalm, NEW p \in Stated(curatedWant) PROVE Batched[p] = curatedWant[p]
      BY <1>3, <3>2 DEF BatchCurated, CalmPush, Batched, Candidates, Stated
    <3> QED BY <3>1, <3>2 DEF CalmPush, Stated
  <2> QED BY <2>1, <2>2
<1>4. CASE WriteBack
  BY <1>4 DEF WriteBack, CalmPush, CuratedTypeOK, Stated
<1>5. CASE UNCHANGED curatedVars
  BY <1>5 DEF curatedVars, curatedLocals, CalmPush, Stated
<1> QED BY <1>1, <1>2, <1>3, <1>4, <1>5 DEF CuratedNext

\* After a push that succeeds undisturbed, every deployment of the file is live as the file
\* has it.
THEOREM CuratedPushSettles == CuratedSpec => []CuratedSettles
<1>1. CuratedInit => CuratedTypeOK /\ CalmPush
  BY CuratedStart DEF CuratedInit, CalmPush
<1>2. CuratedTypeOK /\ CalmPush /\ [CuratedNext]_curatedVars => (CuratedTypeOK /\ CalmPush)'
  BY CuratedStepType, CalmStep
<1>3. CalmPush => CuratedSettles
  BY DEF CalmPush, CuratedSettles
<1> QED BY <1>1, <1>2, <1>3, PTL DEF CuratedSpec

-----------------------------------------------------------------------------
(* Featured rules *)

\* A listed rule, and the name its file gets.
LEMMA ListedRule ==
  ASSUME FeaturedTypeOK, NEW r \in There(listed)
  PROVE  /\ r \in Rules /\ listed[r] \in Rule
         /\ listed[r].slug \in Slugs /\ listed[r].text \in Texts
         /\ <<listed[r].slug, Plain>> \in Names /\ <<listed[r].slug, Short[r]>> \in Names
         /\ FileName(r) \in {<<listed[r].slug, Plain>>, <<listed[r].slug, Short[r]>>}
<1>1. r \in Rules /\ listed[r] \in Rule
  BY DEF FeaturedTypeOK, There
<1>2. listed[r].slug \in Slugs /\ listed[r].text \in Texts
  BY <1>1 DEF Rule
<1>3. <<listed[r].slug, Plain>> \in Names /\ <<listed[r].slug, Short[r]>> \in Names
  BY <1>1, <1>2 DEF Names
<1> QED BY <1>1, <1>2, <1>3 DEF FileName

LEMMA FeaturedStepType ==
  ASSUME FeaturedTypeOK, [FeaturedNext]_featuredVars
  PROVE  FeaturedTypeOK'
<1>1. CASE StartPull
  <2>1. pulling' \in BOOLEAN /\ pulledWhole' \in BOOLEAN
    BY <1>1 DEF StartPull
  <2> QED BY <1>1, <2>1 DEF StartPull, FeaturedTypeOK, There
<1>2. CASE WriteRule
  <2>1. PICK r \in left :
          /\ \/ sources' = [sources EXCEPT ![FileName(r)] = listed[r].text]
             \/ \E torn \in {NoText, listed[r].text} :
                  sources' = [sources EXCEPT ![FileName(r)] = torn]
          /\ records' = [records EXCEPT ![FileName(r)] = r] \/ records' = records
          /\ left' = left \ {r} \/ left' = {}
          /\ written' = written + 1 \/ written' = 0
          /\ pulling' = pulling \/ pulling' = FALSE
          /\ listed' = listed
    BY <1>2 DEF WriteRule, StopPull
  <2>2. r \in There(listed)
    BY DEF FeaturedTypeOK
  <2>3. FileName(r) \in Names /\ r \in Rules /\ listed[r].text \in Texts
    BY <2>2, ListedRule
  <2>4. sources' \in [Names -> Texts \cup {NoText, NoFile}]
    BY <2>1, <2>3 DEF FeaturedTypeOK
  <2>5. records' \in [Names -> Rules \cup {NoRule}]
    BY <2>1, <2>3 DEF FeaturedTypeOK
  <2>6. pulling' \in BOOLEAN /\ pulledWhole' \in BOOLEAN
    BY <1>2, <2>1 DEF WriteRule, FeaturedTypeOK
  <2>7. left' \subseteq There(listed)' /\ listed' \in [Rules -> Rule \cup {NoRule}]
    BY <2>1 DEF FeaturedTypeOK, There
  <2>8. written' \in Nat
    BY <2>1 DEF FeaturedTypeOK
  <2>9. UNCHANGED <<featured, index, pulls, vendorMoves>>
    BY <1>2 DEF WriteRule
  <2> QED BY <2>4, <2>5, <2>6, <2>7, <2>8, <2>9 DEF FeaturedTypeOK
<1>3. CASE WriteIndex
  <2>1. pulling' \in BOOLEAN /\ pulledWhole' \in BOOLEAN
    BY <1>3 DEF WriteIndex, StopPull, FeaturedTypeOK
  <2>2. index' \in Nat /\ written' \in Nat /\ left' = {}
    BY <1>3 DEF WriteIndex, StopPull, FeaturedTypeOK
  <2> QED BY <1>3, <2>1, <2>2 DEF WriteIndex, StopPull, FeaturedTypeOK, There
<1>4. CASE VendorMove
  <2>1. PICK r \in Rules, now \in Rule \cup {NoRule} : featured' = [featured EXCEPT ![r] = now]
    BY <1>4 DEF VendorMove
  <2>2. featured' \in [Rules -> Rule \cup {NoRule}]
    BY <2>1 DEF FeaturedTypeOK
  <2>3. vendorMoves' \in Nat
    BY <1>4 DEF VendorMove, FeaturedTypeOK
  <2>5. pulledWhole' \in BOOLEAN
    BY <1>4 DEF VendorMove
  <2>4. UNCHANGED <<sources, records, index, pulling, listed, left, written, pulls>>
    BY <1>4 DEF VendorMove, featuredLocals
  <2> QED BY <2>2, <2>3, <2>4, <2>5 DEF FeaturedTypeOK, There
<1>5. CASE UNCHANGED featuredVars
  BY <1>5 DEF featuredVars, featuredLocals, FeaturedTypeOK, There
<1> QED BY <1>1, <1>2, <1>3, <1>4, <1>5 DEF FeaturedNext

\* No two listed rules of one slug share a short id.
ListedDiffer ==
  \A r, s \in There(listed) : r # s /\ listed[r].slug = listed[s].slug => Short[r] # Short[s]

\* The file of rule r is at one of its two names.
Filed(r) ==
  \E n \in {<<listed[r].slug, Plain>>, <<listed[r].slug, Short[r]>>} :
    sources[n] = listed[r].text /\ records[n] = r

\* While a pull runs, what it has written stands and is counted.
PullInv ==
  /\ pulledWhole => ~pulling
  /\ pulling => written = Cardinality(There(listed) \ left)
  /\ pulling /\ ListedDiffer => \A r \in There(listed) \ left : Filed(r)

\* The write of one rule leaves the files of the others alone.
LEMMA OthersKept ==
  ASSUME FeaturedTypeOK, ListedDiffer, NEW r \in There(listed), NEW s \in There(listed), r # s,
         Filed(s),
         sources' = [sources EXCEPT ![FileName(r)] = listed[r].text],
         records' = [records EXCEPT ![FileName(r)] = r], listed' = listed
  PROVE  Filed(s)'
<1>1. PICK n \in {<<listed[s].slug, Plain>>, <<listed[s].slug, Short[s]>>} :
        sources[n] = listed[s].text /\ records[n] = s
  BY DEF Filed
<1>2. n \in Names /\ sources[n] # NoFile
  BY <1>1, ListedRule, FeaturedAssumption
<1>3. FileName(r) # n
  <2>1. CASE FileName(r) = <<listed[r].slug, Plain>>
    <3>1. Short[r] # Plain /\ Short[s] # Plain
      BY FeaturedAssumption, ListedRule
    <3>2. sources[<<listed[r].slug, Plain>>] = NoFile
      BY <2>1, <3>1 DEF FileName
    <3> QED BY <1>1, <1>2, <2>1, <3>2
  <2>2. CASE FileName(r) = <<listed[r].slug, Short[r]>>
    <3>1. Short[r] # Plain
      BY FeaturedAssumption, ListedRule
    <3>2. listed[r].slug = listed[s].slug => Short[r] # Short[s]
      BY DEF ListedDiffer
    <3> QED BY <1>1, <2>2, <3>1, <3>2
  <2> QED BY <2>1, <2>2, ListedRule
<1>4. sources'[n] = sources[n] /\ records'[n] = records[n]
  BY <1>2, <1>3 DEF FeaturedTypeOK
<1> QED BY <1>1, <1>4 DEF Filed

LEMMA WrittenFiled ==
  ASSUME FeaturedTypeOK, NEW r \in There(listed),
         sources' = [sources EXCEPT ![FileName(r)] = listed[r].text],
         records' = [records EXCEPT ![FileName(r)] = r], listed' = listed
  PROVE  Filed(r)'
<1>1. FileName(r) \in Names /\ FileName(r) \in {<<listed[r].slug, Plain>>, <<listed[r].slug, Short[r]>>}
  BY ListedRule
<1>2. sources'[FileName(r)] = listed[r].text /\ records'[FileName(r)] = r
  BY <1>1 DEF FeaturedTypeOK
<1> QED BY <1>1, <1>2 DEF Filed

LEMMA PullStep ==
  ASSUME FeaturedTypeOK, PullInv, [FeaturedNext]_featuredVars
  PROVE  PullInv'
<1>1. CASE StartPull
  <2>1. There(listed)' \ left' = {}
    BY <1>1 DEF StartPull, There
  <2>2. written' = Cardinality(There(listed)' \ left')
    BY <1>1, <2>1, FS_EmptySet DEF StartPull
  <2> QED BY <1>1, <2>1, <2>2 DEF StartPull, PullInv
<1>2. CASE WriteRule
  <2>0. pulling /\ ~pulledWhole'
    BY <1>2 DEF WriteRule, PullInv
  <2>1. CASE pulling' = FALSE
    BY <2>0, <2>1 DEF PullInv
  <2>2. CASE pulling' # FALSE
    <3>1. PICK r \in left :
            /\ sources' = [sources EXCEPT ![FileName(r)] = listed[r].text]
            /\ records' = [records EXCEPT ![FileName(r)] = r]
            /\ left' = left \ {r} /\ written' = written + 1
            /\ pulling' = pulling /\ listed' = listed
      BY <1>2, <2>2 DEF WriteRule, StopPull
    <3>2. r \in There(listed)
      BY DEF FeaturedTypeOK
    <3>3. There(listed)' \ left' = (There(listed) \ left) \cup {r}
      BY <3>1, <3>2 DEF There
    <3>4. written' = Cardinality(There(listed)' \ left')
      <4>1. IsFiniteSet(There(listed) \ left)
        BY FeaturedAssumption, FS_Subset DEF There
      <4>2. Cardinality((There(listed) \ left) \cup {r}) = Cardinality(There(listed) \ left) + 1
        BY <4>1, FS_AddElement
      <4> QED BY <2>0, <3>1, <3>3, <4>2 DEF PullInv
    <3>5. ASSUME ListedDiffer', NEW s \in There(listed)' \ left' PROVE Filed(s)'
      <4>1. ListedDiffer
        BY <3>1, <3>5 DEF ListedDiffer, There
      <4>2. CASE s = r
        BY <3>1, <3>2, <4>2, WrittenFiled
      <4>3. CASE s # r
        <5>1. s \in There(listed) /\ Filed(s)
          BY <2>0, <3>3, <3>5, <4>1, <4>3 DEF PullInv
        <5> QED BY <3>1, <3>2, <4>1, <4>3, <5>1, OthersKept
      <4> QED BY <4>2, <4>3
    <3> QED BY <2>0, <3>4, <3>5 DEF PullInv
  <2> QED BY <2>1, <2>2
<1>3. CASE WriteIndex
  BY <1>3 DEF WriteIndex, StopPull, PullInv
<1>4. CASE VendorMove
  BY <1>4 DEF VendorMove, featuredLocals, PullInv, ListedDiffer, Filed, There
<1>5. CASE UNCHANGED featuredVars
  BY <1>5 DEF featuredVars, featuredLocals, PullInv, ListedDiffer, Filed, There
<1> QED BY <1>1, <1>2, <1>3, <1>4, <1>5 DEF FeaturedNext

LEMMA FiledStep ==
  ASSUME FeaturedTypeOK, PullInv, EveryRuleFiled, [FeaturedNext]_featuredVars
  PROVE  EveryRuleFiled'
<1>1. CASE StartPull \/ VendorMove
  BY <1>1 DEF StartPull, VendorMove, EveryRuleFiled
<1>2. CASE WriteRule
  BY <1>2 DEF WriteRule, PullInv, EveryRuleFiled
<1>3. CASE WriteIndex
  <2>1. pulling /\ left = {} /\ ~pulledWhole
    BY <1>3 DEF WriteIndex, PullInv
  <2>2. SUFFICES ASSUME pulledWhole', ShortsDiffer'
                 PROVE  /\ index' = Cardinality(There(featured)')
                        /\ \A r \in There(featured)' : \E n \in Names :
                             sources'[n] = featured'[r].text /\ records'[n] = r
    BY DEF EveryRuleFiled
  <2>3. /\ index' = written /\ listed = featured
        /\ featured' = featured /\ sources' = sources /\ records' = records
    BY <1>3, <2>1, <2>2 DEF WriteIndex
  <2>4. There(featured)' = There(listed)
    BY <2>3 DEF There
  <2>5. ListedDiffer
    BY <2>2, <2>3 DEF ShortsDiffer, ListedDiffer, There
  <2>6. ASSUME NEW r \in There(listed)
        PROVE  \E n \in Names : sources'[n] = featured'[r].text /\ records'[n] = r
    <3>1. Filed(r)
      BY <2>1, <2>5 DEF PullInv
    <3> QED BY <2>3, <3>1, ListedRule DEF Filed
  <2>7. written = Cardinality(There(listed))
    BY <2>1 DEF PullInv
  <2> QED BY <2>3, <2>4, <2>6, <2>7
<1>4. CASE UNCHANGED featuredVars
  BY <1>4 DEF featuredVars, EveryRuleFiled, ShortsDiffer, There
<1> QED BY <1>1, <1>2, <1>3, <1>4 DEF FeaturedNext

LEMMA FeaturedStart == FeaturedInit => FeaturedTypeOK /\ PullInv /\ EveryRuleFiled
<1> SUFFICES ASSUME FeaturedInit PROVE FeaturedTypeOK /\ PullInv /\ EveryRuleFiled
  OBVIOUS
<1>1. pulling \in BOOLEAN /\ pulledWhole \in BOOLEAN
  BY DEF FeaturedInit
<1>2. FeaturedTypeOK
  BY <1>1 DEF FeaturedInit, FeaturedTypeOK
<1>3. PullInv
  BY DEF FeaturedInit, PullInv
<1>4. EveryRuleFiled
  BY DEF FeaturedInit, EveryRuleFiled
<1> QED BY <1>2, <1>3, <1>4

\* The files, the listing and the counts are typed, in every run.
THEOREM FeaturedTypeCorrect == FeaturedSpec => []FeaturedTypeOK
BY FeaturedStart, FeaturedStepType, PTL DEF FeaturedSpec

\* After a pull that succeeds, whatever earlier ones left behind, every rule has a file with
\* its text and a record about it, and the index counts the rules.
THEOREM FeaturedAllFiled == FeaturedSpec => []EveryRuleFiled
<1>1. FeaturedTypeOK /\ PullInv /\ EveryRuleFiled /\ [FeaturedNext]_featuredVars
        => (FeaturedTypeOK /\ PullInv /\ EveryRuleFiled)'
  BY FeaturedStepType, PullStep, FiledStep
<1> QED BY FeaturedStart, <1>1, PTL DEF FeaturedSpec

-----------------------------------------------------------------------------
(* Data taps *)

TapStates == TapSpecs \cup {TapGone, TapUnborn}
TapPlans == [create : SUBSET TapNames, update : SUBSET TapNames, delete : SUBSET Taps]

\* Live taps have names of their own.
LEMMA NamesApart ==
  /\ \A t \in LiveTaps : NameOf(t) \in TapNames
  /\ \A t, u \in LiveTaps : NameOf(t) = NameOf(u) => t = u
BY TapAssumption DEF NameOf, TapNames, LiveTaps

\* The files a pull writes, and those it leaves.
LEMMA PullFiles ==
  ASSUME NEW read \in SUBSET LiveTaps, NEW cut
  PROVE  /\ \A t \in read : AfterPull(read, cut)[NameOf(t)] = [id |-> t, spec |-> taps[t]]
         /\ \A n \in TapNames : \/ n \in cut /\ AfterPull(read, cut)[n] = NoTapFile
                                \/ n \notin cut /\ AfterPull(read, cut)[n] = tapFiles[n]
                                \/ \E t \in read : n = NameOf(t)
<1>1. ASSUME NEW t \in read PROVE AfterPull(read, cut)[NameOf(t)] = [id |-> t, spec |-> taps[t]]
  <2>1. NameOf(t) \in TapNames /\ NameOf(t) \in WrittenNames(read)
    BY <1>1, NamesApart DEF WrittenNames
  <2>2. (CHOOSE u \in read : NameOf(u) = NameOf(t)) = t
    BY <1>1, NamesApart
  <2> QED BY <2>1, <2>2 DEF AfterPull
<1>2. ASSUME NEW n \in TapNames
      PROVE  \/ n \in cut /\ AfterPull(read, cut)[n] = NoTapFile
             \/ n \notin cut /\ AfterPull(read, cut)[n] = tapFiles[n]
             \/ \E t \in read : n = NameOf(t)
  BY <1>2 DEF AfterPull, WrittenNames
<1> QED BY <1>1, <1>2

\* What a pull does to the directory.
PullDoes(read, cut) ==
  /\ read = LiveTaps \/ cut = {}
  /\ \A t \in read : tapFiles'[NameOf(t)] = [id |-> t, spec |-> taps[t]]
  /\ \A n \in TapNames : \/ n \in cut /\ tapFiles'[n] = NoTapFile
                         \/ n \notin cut /\ tapFiles'[n] = tapFiles[n]
                         \/ \E t \in read : n = NameOf(t)

LEMMA PullSays ==
  ASSUME TapPull
  PROVE  \E read \in SUBSET LiveTaps, cut \in SUBSET TapFiled : PullDoes(read, cut)
<1>1. PICK read \in SUBSET LiveTaps : \E cut \in SUBSET (TapFiled \ WrittenNames(read)) :
        tapFiles' = AfterPull(read, cut) /\ (cut = {} \/ read = LiveTaps)
  BY DEF TapPull
<1>2. PICK cut \in SUBSET (TapFiled \ WrittenNames(read)) :
        tapFiles' = AfterPull(read, cut) /\ (cut = {} \/ read = LiveTaps)
  BY <1>1
<1>3. \A t \in read : AfterPull(read, cut)[NameOf(t)] = [id |-> t, spec |-> taps[t]]
  BY PullFiles
<1>4. \A n \in TapNames : \/ n \in cut /\ AfterPull(read, cut)[n] = NoTapFile
                          \/ n \notin cut /\ AfterPull(read, cut)[n] = tapFiles[n]
                          \/ \E t \in read : n = NameOf(t)
  BY PullFiles
<1>5. cut \in SUBSET TapFiled
  BY <1>2
<1>6. tapFiles' = AfterPull(read, cut) /\ (read = LiveTaps \/ cut = {})
  BY <1>2
<1>7. PullDoes(read, cut)
  <2> HIDE DEF AfterPull
  <2> QED BY <1>3, <1>4, <1>6 DEF PullDoes
<1> QED BY <1>5, <1>7

LEMMA WithoutType ==
  ASSUME TapTypeOK, NEW item
  PROVE  Without(item) \in TapPlans
BY DEF Without, TapPlans, TapTypeOK

\* Which taps the files, the push and its plan know: none of them is yet to be born, a file
\* named for a live tap is that tap's, and what the push has to create or has deleted the tap
\* of is not live.
BornTaps ==
  /\ \A n \in TapFiled : tapFiles[n].id \in Taps => taps[tapFiles[n].id] # TapUnborn
  /\ \A t \in tapPlan.delete : taps[t] # TapUnborn
  /\ tapNew # NoTap => tapPc = "write" /\ tapNew \notin FiledTaps /\ taps[tapNew] # TapUnborn
NamedTaps ==
  \A t \in Taps : tapFiles[t] # NoTapFile =>
    taps[t] # TapUnborn /\ (t \in LiveTaps => tapFiles[t].id = t)
PlannedTaps ==
  /\ tapPc = "idle" => tapPlan = TapRest
  /\ tapPlan.delete \cap (FiledTaps \cup {tapNew}) = {}
  /\ tapPlan.update \subseteq TapFiled
  /\ \A n \in tapPlan.create \cup (IF tapPc \in {"create", "write"} THEN {tapAt} ELSE {}) :
       n \in TapFiled /\ tapFiles[n].id \notin LiveTaps
  /\ tapPc \in {"create", "write"} => tapAt \notin tapPlan.create \cup tapPlan.update
KnownTaps == BornTaps /\ NamedTaps /\ PlannedTaps

LEMMA TapStepType ==
  ASSUME TapTypeOK, KnownTaps, [TapNext]_tapVars
  PROVE  TapTypeOK'
<1>0. /\ taps \in [Taps -> TapStates] /\ tapFiles \in [TapNames -> TapFileType \cup {NoTapFile}]
      /\ tapNew \in Taps \cup {NoTap} /\ tapAt \in TapNames /\ tapPlan \in TapPlans
      /\ TapFiled \subseteq TapNames /\ \A n \in TapFiled : tapFiles[n] \in TapFileType
  BY DEF TapTypeOK, TapStates, TapPlans, TapFiled
<1>1. tapCommands' \in Nat /\ tapEdits' \in Nat /\ tapChanges' \in Nat
  BY DEF TapTypeOK, TapNext, tapVars, TapMay, TapPull, TapPush, DeleteOld, CreateNew, WriteTap,
         PruneTap, TapGiveUp, TapUi, TapEdit
<1>2. tapSlips' \in Nat /\ tapOthers' \in Nat
  BY DEF TapTypeOK, TapNext, tapVars, TapPull, TapPush, DeleteOld, CreateNew, WriteTap,
         PruneTap, TapGiveUp, TapUi, TapEdit, TapFails
<1>3. tapPc' \in {"idle", "apply", "create", "write"}
  BY DEF TapTypeOK, TapNext, tapVars, TapPull, TapPush, DeleteOld, CreateNew, WriteTap,
         PruneTap, TapGiveUp, TapUi, TapEdit, TapFails
<1>4. tapCalm' \in BOOLEAN
  BY Zenon DEF TapTypeOK, TapNext, tapVars, TapPull, TapPush, DeleteOld, CreateNew, WriteTap,
         PruneTap, TapGiveUp, TapUi, TapEdit, TapFails, FilesAgree
<1>5. tapPrune' \in BOOLEAN
  BY Zenon DEF TapTypeOK, TapNext, tapVars, TapPull, TapPush, DeleteOld, CreateNew, WriteTap,
         PruneTap, TapGiveUp, TapUi, TapEdit
<1>6. tapPulled' \in BOOLEAN
  BY Zenon DEF TapTypeOK, TapNext, tapVars, TapPull, TapPush, DeleteOld, CreateNew, WriteTap,
         PruneTap, TapGiveUp, TapUi, TapEdit
<1>7. taps' \in [Taps -> TapStates]
  <2>1. CASE UNCHANGED taps
    BY <1>0, <2>1
  <2>2. CASE \E t \in Taps, state \in TapStates : taps' = [taps EXCEPT ![t] = state]
    BY <1>0, <2>2
  <2>3. UNCHANGED taps \/ \E t \in Taps, state \in TapStates : taps' = [taps EXCEPT ![t] = state]
    <3>1. CASE DeleteOld
      BY <1>0, <3>1 DEF DeleteOld, LiveTaps, TapStates
    <3>2. CASE CreateNew
      <4>1. PICK n \in TapFiled, t \in Taps : taps' = [taps EXCEPT ![t] = tapFiles[n].spec]
        BY <3>2 DEF CreateNew
      <4>2. tapFiles[n].spec \in TapStates
        BY <1>0, <4>1 DEF TapFileType, TapStates
      <4> QED BY <4>1, <4>2
    <3>3. CASE PruneTap
      BY <1>0, <3>3 DEF PruneTap, LiveTaps, TapStates
    <3>4. CASE TapUi
      BY <1>0, <3>4 DEF TapUi, LiveTaps, TapStates
    <3> QED BY <3>1, <3>2, <3>3, <3>4
            DEF TapNext, tapVars, TapPull, TapPush, WriteTap, TapGiveUp, TapEdit
  <2> QED BY <2>1, <2>2, <2>3
<1>8. tapFiles' \in [TapNames -> TapFileType \cup {NoTapFile}]
  <2>1. CASE TapPull
    <3>0. \A t \in LiveTaps : [id |-> t, spec |-> taps[t]] \in TapFileType
      BY DEF LiveTaps, TapFileType
    <3>1. tapFiles' = [n \in TapNames |-> tapFiles'[n]]
      BY <2>1 DEF TapPull, AfterPull
    <3>2. ASSUME NEW n \in TapNames PROVE tapFiles'[n] \in TapFileType \cup {NoTapFile}
      <4>1. PICK read \in SUBSET LiveTaps, cut \in SUBSET TapFiled : PullDoes(read, cut)
        BY <2>1, PullSays
      <4>2. CASE \E t \in read : n = NameOf(t)
        BY <3>0, <4>1, <4>2 DEF PullDoes
      <4>3. CASE tapFiles'[n] \in {NoTapFile, tapFiles[n]}
        BY <1>0, <4>3
      <4> QED BY <3>2, <4>1, <4>2, <4>3 DEF PullDoes
    <3> QED BY <3>1, <3>2
  <2>2. CASE WriteTap
    <3>1. tapPc = "write" /\ tapFiles' = [tapFiles EXCEPT ![tapAt] =
                                           [id |-> tapNew, spec |-> tapFiles[tapAt].spec]]
      BY <2>2 DEF WriteTap
    <3>2. tapAt \in TapFiled
      BY <3>1 DEF KnownTaps, PlannedTaps
    <3>3. [id |-> tapNew, spec |-> tapFiles[tapAt].spec] \in TapFileType
      BY <1>0, <3>2 DEF TapFileType
    <3> QED BY <1>0, <3>1, <3>3
  <2>3. CASE TapEdit
    <3>1. Bare \in TapNames
      BY DEF TapNames
    <3>2. PICK n \in TapNames, other \in TapFileType \cup {NoTapFile} :
            tapFiles' = [tapFiles EXCEPT ![n] = other]
      BY <1>0, <2>3, <3>1 DEF TapEdit, TapFileType
    <3> QED BY <1>0, <3>2
  <2> QED BY <1>0, <2>1, <2>2, <2>3
          DEF TapNext, tapVars, TapPush, DeleteOld, CreateNew, PruneTap, TapGiveUp, TapUi
<1>9. tapNew' \in Taps \cup {NoTap} /\ tapAt' \in TapNames
  <2>1. Bare \in TapNames
    BY DEF TapNames
  <2>2. ToUpdate \subseteq TapNames
    BY <1>0 DEF ToUpdate, TapPlans
  <2> QED BY <1>0, <2>1, <2>2
       DEF TapNext, tapVars, TapPull, TapPush, DeleteOld, CreateNew, WriteTap,
         PruneTap, TapGiveUp, TapUi, TapEdit, TapFails
<1>10. tapPlan' \in TapPlans
  <2>1. CASE \E prune \in BOOLEAN : TapPush(prune)
    BY <1>0, <2>1 DEF TapPush, TapPlans, LiveTaps
  <2>2. CASE DeleteOld \/ CreateNew
    BY <2>2, WithoutType DEF DeleteOld, CreateNew
  <2>3. \A t : [tapPlan EXCEPT !.delete = tapPlan.delete \ {t}] \in TapPlans
    BY <1>0 DEF TapPlans
  <2>4. CASE TapGiveUp \/ PruneTap
    BY <1>0, <2>3, <2>4, WithoutType DEF TapGiveUp, PruneTap, TapRest, TapPlans
  <2> QED BY <1>0, <2>1, <2>2, <2>4 DEF TapNext, tapVars, TapPull, WriteTap, TapUi, TapEdit
<1> QED BY <1>1, <1>2, <1>3, <1>4, <1>5, <1>6, <1>7, <1>8, <1>9, <1>10
        DEF TapTypeOK, TapStates, TapPlans

LEMMA FiledType ==
  ASSUME TapTypeOK
  PROVE  /\ TapFiled \subseteq TapNames /\ Taps \subseteq TapNames /\ Bare \in TapNames
         /\ \A n \in TapFiled : /\ tapFiles[n] \in TapFileType /\ tapFiles[n].spec \in TapSpecs
                                /\ tapFiles[n].id \in Taps \cup {NoTap}
                                /\ tapFiles[n].id \in FiledTaps
         /\ NoTapFile \notin TapFileType
BY TapAssumption DEF TapTypeOK, TapFiled, FiledTaps, TapNames, TapFileType

LEMMA KnownPull ==
  ASSUME TapTypeOK, KnownTaps, TapPull
  PROVE  KnownTaps'
<1>1. PICK read \in SUBSET LiveTaps, cut \in SUBSET TapFiled : PullDoes(read, cut)
  BY PullSays
<1>2. /\ UNCHANGED <<taps, tapPc, tapAt, tapNew, tapPlan>> /\ tapPc = "idle" /\ tapNew = NoTap
      /\ tapPlan = TapRest /\ LiveTaps' = LiveTaps
  BY DEF TapPull, TapMay, KnownTaps, BornTaps, PlannedTaps, LiveTaps
<1>3. ASSUME NEW n \in TapFiled'
      PROVE  \/ n \in TapFiled /\ tapFiles'[n] = tapFiles[n]
             \/ \E t \in LiveTaps : n = NameOf(t) /\ tapFiles'[n] = [id |-> t, spec |-> taps[t]]
  <2>1. n \in TapNames /\ tapFiles'[n] # NoTapFile
    BY DEF TapFiled
  <2>2. CASE \E t \in read : n = NameOf(t)
    BY <1>1, <2>2 DEF PullDoes
  <2>3. CASE n \notin cut /\ tapFiles'[n] = tapFiles[n]
    BY <2>1, <2>3 DEF TapFiled
  <2> QED BY <1>1, <2>1, <2>2, <2>3 DEF PullDoes
<1>4. BornTaps'
  <2>1. ASSUME NEW n \in TapFiled', tapFiles'[n].id \in Taps PROVE taps[tapFiles'[n].id] # TapUnborn
    <3>1. CASE n \in TapFiled /\ tapFiles'[n] = tapFiles[n]
      BY <2>1, <3>1 DEF KnownTaps, BornTaps
    <3>2. ASSUME NEW t \in LiveTaps, tapFiles'[n] = [id |-> t, spec |-> taps[t]]
          PROVE  taps[tapFiles'[n].id] # TapUnborn
      BY <3>2, TapAssumption DEF LiveTaps
    <3> QED BY <1>3, <2>1, <3>1, <3>2
  <2> QED BY <1>2, <2>1 DEF BornTaps, TapRest
<1>5. NamedTaps'
  <2>1. ASSUME NEW t \in Taps, tapFiles'[t] # NoTapFile
        PROVE  taps[t] # TapUnborn /\ (t \in LiveTaps => tapFiles'[t].id = t)
    <3>1. t \in TapFiled'
      BY <2>1 DEF TapFiled, TapNames
    <3>2. CASE t \in TapFiled /\ tapFiles'[t] = tapFiles[t]
      BY <2>1, <3>2 DEF KnownTaps, NamedTaps, TapFiled
    <3>3. ASSUME NEW u \in LiveTaps, t = NameOf(u), tapFiles'[t] = [id |-> u, spec |-> taps[u]]
          PROVE  taps[t] # TapUnborn /\ tapFiles'[t].id = t
      BY <2>1, <3>3, TapAssumption DEF NameOf, LiveTaps
    <3> QED BY <1>3, <3>1, <3>2, <3>3
  <2> QED BY <1>2, <2>1 DEF NamedTaps
<1>6. PlannedTaps'
  BY <1>2 DEF PlannedTaps, TapRest
<1> QED BY <1>4, <1>5, <1>6 DEF KnownTaps

LEMMA KnownPush ==
  ASSUME TapTypeOK, KnownTaps, NEW prune \in BOOLEAN, TapPush(prune)
  PROVE  KnownTaps'
<1>1. UNCHANGED <<taps, tapFiles, tapNew>> /\ tapPc' = "apply" /\ tapNew = NoTap
  BY DEF TapPush, TapMay, KnownTaps, BornTaps
<1>2. TapFiled' = TapFiled /\ LiveTaps' = LiveTaps /\ FiledTaps' = FiledTaps
  BY <1>1 DEF TapFiled, LiveTaps, FiledTaps
<1>3. /\ tapPlan'.create = {n \in TapFiled : tapFiles[n].id \notin LiveTaps}
      /\ tapPlan'.update \subseteq TapFiled
      /\ tapPlan'.delete \subseteq LiveTaps \ FiledTaps
  BY DEF TapPush
<1>4. NoTap \notin LiveTaps /\ \A t \in LiveTaps : taps[t] # TapUnborn
  BY TapAssumption DEF LiveTaps
<1>5. BornTaps'
  BY <1>1, <1>2, <1>3, <1>4 DEF KnownTaps, BornTaps
<1>6. NamedTaps'
  BY <1>1, <1>2 DEF KnownTaps, NamedTaps
<1>7. PlannedTaps'
  BY <1>1, <1>2, <1>3, <1>4 DEF PlannedTaps
<1> QED BY <1>5, <1>6, <1>7 DEF KnownTaps

\* Steps that leave the files alone and give birth to no tap, and whose plan is part of the old.
LEMMA KnownLess ==
  ASSUME TapTypeOK, KnownTaps, UNCHANGED tapFiles, LiveTaps' \subseteq LiveTaps,
         \A t \in Taps : taps[t] # TapUnborn => taps'[t] # TapUnborn,
         tapPlan'.create \subseteq tapPlan.create, tapPlan'.update \subseteq tapPlan.update,
         tapPlan'.delete \subseteq tapPlan.delete,
         tapNew' = NoTap \/ (tapNew' = tapNew /\ tapPc' = tapPc),
         tapPc' = "idle" => tapPlan' = TapRest,
         tapPc' \in {"create", "write"} =>
           /\ tapAt' \in TapFiled /\ tapFiles[tapAt'].id \notin LiveTaps'
           /\ tapAt' \notin tapPlan'.create \cup tapPlan'.update
  PROVE  KnownTaps'
<1>1. TapFiled' = TapFiled /\ FiledTaps' = FiledTaps
  BY DEF TapFiled, FiledTaps
<1>2. tapPlan.delete \subseteq Taps /\ tapNew \in Taps \cup {NoTap}
  BY DEF TapTypeOK
<1>3. NoTap \notin tapPlan.delete
  BY <1>2, TapAssumption
<1>4. BornTaps'
  <2>1. \A n \in TapFiled : tapFiles[n].id \in Taps => taps'[tapFiles[n].id] # TapUnborn
    BY DEF KnownTaps, BornTaps
  <2>2. \A t \in tapPlan'.delete : taps'[t] # TapUnborn
    BY <1>2 DEF KnownTaps, BornTaps
  <2>3. tapNew' # NoTap =>
          tapPc' = "write" /\ tapNew' \notin FiledTaps /\ taps'[tapNew'] # TapUnborn
    BY <1>2 DEF KnownTaps, BornTaps
  <2> QED BY <1>1, <2>1, <2>2, <2>3 DEF BornTaps
<1>5. NamedTaps'
  BY DEF KnownTaps, NamedTaps
<1>6. PlannedTaps'
  <2>1. tapPlan'.delete \cap (FiledTaps \cup {tapNew'}) = {}
    BY <1>3 DEF KnownTaps, PlannedTaps
  <2>2. tapPlan'.update \subseteq TapFiled
    BY DEF KnownTaps, PlannedTaps
  <2>3. \A n \in tapPlan'.create : n \in TapFiled /\ tapFiles[n].id \notin LiveTaps'
    BY DEF KnownTaps, PlannedTaps
  <2> QED BY <1>1, <2>1, <2>2, <2>3 DEF PlannedTaps
<1> QED BY <1>4, <1>5, <1>6 DEF KnownTaps

\* Taps only die.
LEMMA TapDies ==
  ASSUME TapTypeOK, NEW t \in LiveTaps, taps' = [taps EXCEPT ![t] = TapGone]
  PROVE  /\ LiveTaps' = LiveTaps \ {t}
         /\ \A u \in Taps : taps[u] # TapUnborn => taps'[u] # TapUnborn
         /\ \A u \in LiveTaps' : taps'[u] = taps[u]
BY TapAssumption DEF TapTypeOK, LiveTaps

LEMMA TapBorn ==
  ASSUME TapTypeOK, NEW t \in Taps, taps[t] = TapUnborn, NEW spec \in TapSpecs,
         taps' = [taps EXCEPT ![t] = spec]
  PROVE  /\ LiveTaps' = LiveTaps \cup {t} /\ t \notin LiveTaps /\ taps'[t] = spec
         /\ \A u \in Taps : taps[u] # TapUnborn => taps'[u] # TapUnborn
         /\ \A u \in LiveTaps : taps'[u] = taps[u]
BY TapAssumption DEF TapTypeOK, LiveTaps

\* Steps that leave the files alone and give birth to a tap.
LEMMA KnownBirth ==
  ASSUME TapTypeOK, KnownTaps, UNCHANGED tapFiles, NEW t \in Taps, taps[t] = TapUnborn,
         NEW spec \in TapSpecs, taps' = [taps EXCEPT ![t] = spec],
         tapPlan'.create \subseteq tapPlan.create, tapPlan'.update \subseteq tapPlan.update,
         tapPlan'.delete \subseteq tapPlan.delete,
         \/ tapNew' = NoTap \/ (tapNew' = tapNew /\ tapPc' = tapPc)
         \/ (tapNew' = t /\ tapPc' = "write"),
         tapPc' = "idle" => tapPlan' = TapRest,
         tapPc' \in {"create", "write"} =>
           /\ tapAt' \in TapFiled /\ tapFiles[tapAt'].id \notin LiveTaps
           /\ tapAt' \notin tapPlan'.create \cup tapPlan'.update
  PROVE  KnownTaps'
<1>1. TapFiled' = TapFiled /\ FiledTaps' = FiledTaps
  BY DEF TapFiled, FiledTaps
<1>2. tapPlan.delete \subseteq Taps /\ tapNew \in Taps \cup {NoTap}
  BY DEF TapTypeOK
<1>3. NoTap \notin tapPlan.delete /\ t \notin tapPlan.delete
  BY <1>2, TapAssumption DEF KnownTaps, BornTaps
<1>4. t \notin FiledTaps
  BY DEF KnownTaps, BornTaps, FiledTaps
<1>5. /\ LiveTaps' = LiveTaps \cup {t} /\ taps'[t] # TapUnborn
      /\ \A u \in Taps : taps[u] # TapUnborn => taps'[u] # TapUnborn
  BY TapBorn, TapAssumption
<1>6. BornTaps'
  <2>1. \A n \in TapFiled : tapFiles[n].id \in Taps => taps'[tapFiles[n].id] # TapUnborn
    BY <1>5 DEF KnownTaps, BornTaps
  <2>2. \A u \in tapPlan'.delete : taps'[u] # TapUnborn
    BY <1>2, <1>5 DEF KnownTaps, BornTaps
  <2>3. tapNew' # NoTap =>
          tapPc' = "write" /\ tapNew' \notin FiledTaps /\ taps'[tapNew'] # TapUnborn
    BY <1>2, <1>4, <1>5 DEF KnownTaps, BornTaps
  <2> QED BY <1>1, <2>1, <2>2, <2>3 DEF BornTaps
<1>7. NamedTaps'
  <2>1. tapFiles[t] = NoTapFile
    BY DEF KnownTaps, NamedTaps
  <2> QED BY <1>5, <2>1 DEF KnownTaps, NamedTaps
<1>8. PlannedTaps'
  <2>1. tapPlan'.delete \cap (FiledTaps \cup {tapNew'}) = {}
    BY <1>3 DEF KnownTaps, PlannedTaps
  <2>2. tapPlan'.update \subseteq TapFiled
    BY DEF KnownTaps, PlannedTaps
  <2>3. \A n \in TapFiled : tapFiles[n].id # t
    BY <1>4 DEF FiledTaps
  <2>4. \A n \in tapPlan'.create : n \in TapFiled /\ tapFiles[n].id \notin LiveTaps'
    BY <1>5, <2>3 DEF KnownTaps, PlannedTaps
  <2>5. tapPc' \in {"create", "write"} =>
          tapAt' \in TapFiled /\ tapFiles[tapAt'].id \notin LiveTaps'
    BY <1>5, <2>3
  <2> QED BY <1>1, <2>1, <2>2, <2>4, <2>5 DEF PlannedTaps
<1> QED BY <1>6, <1>7, <1>8 DEF KnownTaps

LEMMA PlanLess ==
  ASSUME TapTypeOK, NEW item
  PROVE  /\ Without(item).create \subseteq tapPlan.create
         /\ Without(item).update \subseteq tapPlan.update
         /\ Without(item).delete = tapPlan.delete
         /\ [tapPlan EXCEPT !.delete = @ \ {item}].create = tapPlan.create
         /\ [tapPlan EXCEPT !.delete = @ \ {item}].update = tapPlan.update
         /\ [tapPlan EXCEPT !.delete = @ \ {item}].delete = tapPlan.delete \ {item}
         /\ TapRest.create = {} /\ TapRest.update = {} /\ TapRest.delete = {}
BY DEF TapTypeOK, Without, TapRest

LEMMA KnownStep ==
  ASSUME TapTypeOK, KnownTaps, [TapNext]_tapVars
  PROVE  KnownTaps'
<1>0. /\ \A n \in TapFiled : tapFiles[n].id \in FiledTaps /\ tapFiles[n].spec \in TapSpecs
      /\ tapPlan.update \subseteq TapFiled /\ ToUpdate \subseteq tapPlan.update
      /\ ToCreate = tapPlan.create /\ ToDelete \subseteq tapPlan.delete
  BY FiledType DEF KnownTaps, PlannedTaps, ToUpdate, ToCreate, ToDelete
<1>1. CASE TapPull
  BY <1>1, KnownPull
<1>2. ASSUME NEW prune \in BOOLEAN, TapPush(prune) PROVE KnownTaps'
  BY <1>2, KnownPush
<1>3. CASE DeleteOld
  <2>1. PICK n \in ToUpdate :
          /\ tapFiles[n].id \in LiveTaps
          /\ taps' = [taps EXCEPT ![tapFiles[n].id] = TapGone] /\ tapPlan' = Without(n)
          /\ \/ tapPc' = "apply" /\ tapNew' = NoTap
             \/ tapPc' = "create" /\ tapAt' = n /\ tapNew' = tapNew
    BY <1>3 DEF DeleteOld, TapFails
  <2>2. tapNew = NoTap /\ tapFiles' = tapFiles
    BY <1>3 DEF DeleteOld, KnownTaps, BornTaps
  <2>3. /\ LiveTaps' = LiveTaps \ {tapFiles[n].id}
        /\ \A t \in Taps : taps[t] # TapUnborn => taps'[t] # TapUnborn
    BY <2>1, TapDies
  <2>4. tapPc' \in {"create", "write"} =>
          /\ tapAt' \in TapFiled /\ tapFiles[tapAt'].id \notin LiveTaps'
          /\ tapAt' \notin tapPlan'.create \cup tapPlan'.update
    BY <1>0, <2>1, <2>3 DEF Without
  <2>5. tapPc' # "idle" /\ tapNew' = NoTap
    BY <2>1, <2>2
  <2> QED BY <2>1, <2>2, <2>3, <2>4, <2>5, PlanLess, KnownLess
<1>4. CASE CreateNew
  <2>1. PICK n \in TapFiled, t \in Taps :
          /\ taps[t] = TapUnborn
          /\ (tapPc = "apply" /\ n \in ToCreate) \/ (tapPc = "create" /\ n = tapAt)
          /\ taps' = [taps EXCEPT ![t] = tapFiles[n].spec] /\ tapPlan' = Without(n)
          /\ \/ tapPc' = "apply" /\ tapNew' = NoTap
             \/ tapPc' = "write" /\ tapAt' = n /\ tapNew' = t
    BY <1>4 DEF CreateNew, TapFails
  <2>2. tapFiles' = tapFiles
    BY <1>4 DEF CreateNew
  <2>3. tapPc' \in {"create", "write"} =>
          /\ tapAt' \in TapFiled /\ tapFiles[tapAt'].id \notin LiveTaps
          /\ tapAt' \notin tapPlan'.create \cup tapPlan'.update
    BY <1>0, <2>1 DEF KnownTaps, PlannedTaps, Without
  <2>4. tapPc' # "idle" /\ tapFiles[n].spec \in TapSpecs
    BY <1>0, <2>1
  <2>5. tapNew' = NoTap \/ (tapNew' = t /\ tapPc' = "write")
    BY <2>1
  <2> QED BY <2>1, <2>2, <2>3, <2>4, <2>5, PlanLess, KnownBirth
<1>5. CASE WriteTap
  <2>1. /\ tapPc' = "apply" /\ tapNew' = NoTap /\ UNCHANGED <<taps, tapPlan>>
        /\ tapFiles' = [tapFiles EXCEPT ![tapAt] = [id |-> tapNew, spec |-> tapFiles[tapAt].spec]]
        /\ tapAt \in TapFiled /\ tapPc = "write"
    BY <1>5 DEF WriteTap, KnownTaps, PlannedTaps
  <2>2. /\ tapFiles'[tapAt].id = tapNew /\ tapFiles'[tapAt] # NoTapFile
        /\ \A n \in TapNames \ {tapAt} : tapFiles'[n] = tapFiles[n]
    BY <2>1, FiledType, TapAssumption DEF TapTypeOK, TapFileType
  <2>3. TapFiled' = TapFiled /\ LiveTaps' = LiveTaps
    BY <2>1, <2>2 DEF TapFiled, LiveTaps
  <2>4. FiledTaps' \subseteq FiledTaps \cup {tapNew}
    BY <2>2, <2>3, FiledType DEF FiledTaps
  <2>5. BornTaps'
    <3>1. \A n \in TapFiled : tapFiles'[n].id \in Taps => taps[tapFiles'[n].id] # TapUnborn
      BY <2>2, FiledType, TapAssumption DEF KnownTaps, BornTaps
    <3> QED BY <2>1, <2>3, <3>1 DEF KnownTaps, BornTaps
  <2>6. NamedTaps'
    <3>1. ASSUME NEW t \in Taps, tapFiles'[t] # NoTapFile
          PROVE  taps[t] # TapUnborn /\ (t \in LiveTaps => tapFiles'[t].id = t)
      <4>1. CASE t = tapAt
        <5>1. taps[t] # TapUnborn /\ (t \in LiveTaps => tapFiles[t].id = t)
          BY <2>1, <4>1 DEF KnownTaps, NamedTaps, TapFiled
        <5>2. tapFiles[t].id \notin LiveTaps
          BY <2>1, <4>1 DEF KnownTaps, PlannedTaps
        <5> QED BY <5>1, <5>2
      <4>2. CASE t # tapAt
        BY <2>2, <3>1, <4>2, FiledType DEF KnownTaps, NamedTaps
      <4> QED BY <4>1, <4>2
    <3> QED BY <2>1, <2>3, <3>1 DEF NamedTaps
  <2>7. PlannedTaps'
    <3>1. tapPlan.delete \cap (FiledTaps' \cup {NoTap}) = {}
      BY <2>4, TapAssumption DEF KnownTaps, PlannedTaps, TapTypeOK
    <3>2. \A n \in tapPlan.create : n \in TapFiled /\ tapFiles'[n].id \notin LiveTaps
      <4>1. SUFFICES ASSUME NEW n \in tapPlan.create PROVE n \in TapFiled /\ tapFiles'[n].id \notin LiveTaps
        OBVIOUS
      <4>2. n \in TapFiled /\ tapFiles[n].id \notin LiveTaps
        BY <4>1 DEF KnownTaps, PlannedTaps
      <4>3. n # tapAt
        BY <4>1, <2>1 DEF KnownTaps, PlannedTaps
      <4> QED BY <2>2, <4>2, <4>3, FiledType
    <3> QED BY <2>1, <2>3, <3>1, <3>2 DEF KnownTaps, PlannedTaps
  <2> QED BY <2>5, <2>6, <2>7 DEF KnownTaps
<1>6. CASE PruneTap
  <2>1. UNCHANGED <<tapFiles, tapAt, tapNew>> /\ tapPc = "apply"
    BY <1>6 DEF PruneTap
  <2>2. tapNew = NoTap
    BY <2>1 DEF KnownTaps, BornTaps
  <2>3. CASE tapPlan = TapRest /\ tapPc' = "idle" /\ UNCHANGED <<taps, tapPlan>>
    <3>1. LiveTaps' = LiveTaps
      BY <2>3 DEF LiveTaps
    <3> QED BY <2>1, <2>2, <2>3, <3>1, KnownLess
  <2>4. ASSUME NEW t \in LiveTaps, taps' = [taps EXCEPT ![t] = TapGone], tapPc' = tapPc,
               tapPlan' = [tapPlan EXCEPT !.delete = @ \ {t}]
        PROVE  KnownTaps'
    <3>1. LiveTaps' \subseteq LiveTaps /\ \A u \in Taps : taps[u] # TapUnborn => taps'[u] # TapUnborn
      BY <2>4, TapDies
    <3>2. /\ tapPlan'.create \subseteq tapPlan.create /\ tapPlan'.update \subseteq tapPlan.update
          /\ tapPlan'.delete \subseteq tapPlan.delete
      BY <2>4, PlanLess
    <3>3. tapNew' = NoTap /\ tapPc' = "apply"
      BY <2>1, <2>2, <2>4
    <3> QED BY <2>1, <3>1, <3>2, <3>3, KnownLess
  <2> QED BY <1>6, <2>3, <2>4 DEF PruneTap
<1>7. CASE TapGiveUp
  <2>1. UNCHANGED <<taps, tapFiles>> /\ tapNew' = NoTap /\ tapPc' \in {"apply", "idle"}
        /\ (tapPc' = "idle" => tapPlan' = TapRest)
    BY <1>7 DEF TapGiveUp, TapFails
  <2>2. /\ tapPlan'.create \subseteq tapPlan.create /\ tapPlan'.update \subseteq tapPlan.update
        /\ tapPlan'.delete \subseteq tapPlan.delete
    <3>1. \/ \E n : tapPlan' = Without(n)
          \/ \E t : tapPlan' = [tapPlan EXCEPT !.delete = @ \ {t}]
          \/ tapPlan' = tapPlan \/ tapPlan' = TapRest
      BY <1>7 DEF TapGiveUp
    <3>2. CASE \E n : tapPlan' = Without(n)
      BY <3>2, PlanLess
    <3>3. CASE \E t : tapPlan' = [tapPlan EXCEPT !.delete = @ \ {t}]
      BY <3>3, PlanLess
    <3>4. CASE tapPlan' = TapRest
      BY <3>4 DEF TapRest
    <3> QED BY <3>1, <3>2, <3>3, <3>4
  <2>3. LiveTaps' = LiveTaps
    BY <2>1 DEF LiveTaps
  <2> QED BY <2>1, <2>2, <2>3, KnownLess
<1>8. CASE TapUi
  <2>1. UNCHANGED <<tapFiles, tapPc, tapAt, tapNew, tapPlan>>
    BY <1>8 DEF TapUi
  <2>2. /\ tapPc' = "idle" => tapPlan' = TapRest
        /\ tapPc' \in {"create", "write"} =>
             /\ tapAt' \in TapFiled /\ tapFiles[tapAt'].id \notin LiveTaps
             /\ tapAt' \notin tapPlan'.create \cup tapPlan'.update
    BY <2>1 DEF KnownTaps, PlannedTaps
  <2>3. ASSUME NEW t \in LiveTaps, taps' = [taps EXCEPT ![t] = TapGone] PROVE KnownTaps'
    <3>1. LiveTaps' = LiveTaps \ {t} /\ \A u \in Taps : taps[u] # TapUnborn => taps'[u] # TapUnborn
      BY <2>3, TapDies
    <3>2. tapPc' \in {"create", "write"} =>
             /\ tapAt' \in TapFiled /\ tapFiles[tapAt'].id \notin LiveTaps'
             /\ tapAt' \notin tapPlan'.create \cup tapPlan'.update
      BY <2>2, <3>1
    <3> QED BY <2>1, <2>2, <3>1, <3>2, KnownLess
  <2>4. ASSUME NEW t \in Taps, taps[t] = TapUnborn, NEW spec \in TapSpecs,
               taps' = [taps EXCEPT ![t] = spec]
        PROVE  KnownTaps'
    BY <2>1, <2>2, <2>4, KnownBirth
  <2> QED BY <1>8, <2>3, <2>4 DEF TapUi
<1>9. CASE TapEdit
  <2>1. /\ tapPc = "idle" /\ UNCHANGED <<taps, tapPc, tapAt, tapNew, tapPlan>>
        /\ tapPlan = TapRest /\ tapNew = NoTap /\ LiveTaps' = LiveTaps
    BY <1>9 DEF TapEdit, KnownTaps, BornTaps, PlannedTaps, LiveTaps
  <2>2. PICK n \in TapNames :
          /\ \A m \in TapNames \ {n} : tapFiles'[m] = tapFiles[m]
          /\ \/ tapFiles'[n] = NoTapFile
             \/ n \in TapFiled /\ tapFiles'[n].id = tapFiles[n].id
             \/ n = Bare /\ tapFiles'[n].id = NoTap
    BY <1>9, FiledType DEF TapEdit, TapTypeOK
  <2>3. BornTaps'
    BY <2>1, <2>2, TapAssumption DEF KnownTaps, BornTaps, TapFiled, TapRest
  <2>4. NamedTaps'
    BY <2>1, <2>2, TapAssumption, FiledType DEF KnownTaps, NamedTaps, TapFiled
  <2>5. PlannedTaps'
    BY <2>1 DEF PlannedTaps, TapRest
  <2> QED BY <2>3, <2>4, <2>5 DEF KnownTaps
<1>10. CASE UNCHANGED tapVars
  <2>1. UNCHANGED <<taps, tapFiles, tapPc, tapAt, tapNew, tapPlan>>
    BY <1>10 DEF tapVars
  <2> QED BY <2>1 DEF KnownTaps, BornTaps, NamedTaps, PlannedTaps, TapFiled, FiledTaps, LiveTaps
<1> QED BY <1>1, <1>2, <1>3, <1>4, <1>5, <1>6, <1>7, <1>8, <1>9, <1>10 DEF TapNext

Strays == LiveTaps \ (FiledTaps \cup {tapNew})

LEMMA StraysFinite ==
  /\ IsFiniteSet(LiveTaps) /\ IsFiniteSet(Strays)
  /\ Cardinality(LiveTaps) \in Nat /\ Cardinality(Strays) \in Nat
BY TapAssumption, FS_Subset, FS_CardinalityType DEF LiveTaps, Strays

\* Arithmetic on primed variables goes through a statement without them.
LEMMA SumKept == \A c, d, f, g, h, k \in Nat : c <= d /\ d <= f + g /\ f + g <= h + k => c <= h + k
OBVIOUS
LEMMA SumGrown ==
  \A c, d, f, g, h, k \in Nat : c <= d + 1 /\ d <= f + g /\ f + g + 1 <= h + k => c <= h + k
OBVIOUS
LEMMA SumOfTwo == \A f, g, h, k \in Nat : f <= h /\ g <= k => f + g <= h + k
OBVIOUS

LEMMA NoMoreStrays ==
  ASSUME TapTypeOK, StraysCounted, Strays' \subseteq Strays, tapSlips' \in Nat, tapOthers' \in Nat,
         tapSlips <= tapSlips', tapOthers <= tapOthers'
  PROVE  StraysCounted'
<1>1. Cardinality(Strays') <= Cardinality(Strays) /\ Cardinality(Strays') \in Nat
  BY StraysFinite, FS_Subset, FS_CardinalityType
<1>2. tapSlips \in Nat /\ tapOthers \in Nat
  BY DEF TapTypeOK
<1>3. Cardinality(Strays) \in Nat
  BY StraysFinite
<1>4. Cardinality(Strays) <= tapSlips + tapOthers
  BY DEF StraysCounted, Strays
<1>5. Cardinality(Strays') <= tapSlips' + tapOthers'
  <2>1. Cardinality(Strays') <= Cardinality(Strays) /\ Cardinality(Strays') \in Nat
    BY <1>1
  <2>2. tapSlips + tapOthers <= tapSlips' + tapOthers'
    BY <1>2, SumOfTwo
  <2> HIDE DEF Strays
  <2> QED BY <2>1, <2>2, <1>2, <1>3, <1>4, SumKept
<1> QED BY <1>5 DEF StraysCounted, Strays

LEMMA OneMoreStray ==
  ASSUME TapTypeOK, StraysCounted, NEW t, Strays' \subseteq Strays \cup {t},
         tapSlips' \in Nat, tapOthers' \in Nat,
         tapSlips + tapOthers + 1 <= tapSlips' + tapOthers'
  PROVE  StraysCounted'
<1>1. IsFiniteSet(Strays \cup {t}) /\ Cardinality(Strays \cup {t}) <= Cardinality(Strays) + 1
      /\ Cardinality(Strays \cup {t}) \in Nat
  <2> HIDE DEF Strays
  <2>1. IsFiniteSet(Strays) /\ Cardinality(Strays) \in Nat
    BY StraysFinite
  <2>2. /\ IsFiniteSet(Strays \cup {t})
        /\ Cardinality(Strays \cup {t}) = IF t \in Strays THEN Cardinality(Strays)
                                          ELSE Cardinality(Strays) + 1
    BY <2>1, FS_AddElement
  <2> QED BY <2>1, <2>2
<1>2. Cardinality(Strays') <= Cardinality(Strays \cup {t}) /\ Cardinality(Strays') \in Nat
  BY <1>1, FS_Subset, FS_CardinalityType
<1>3. tapSlips \in Nat /\ tapOthers \in Nat
  BY DEF TapTypeOK
<1>4. Cardinality(Strays) \in Nat
  BY StraysFinite
<1>5. Cardinality(Strays) <= tapSlips + tapOthers
  BY DEF StraysCounted, Strays
<1>6. Cardinality(Strays') <= Cardinality(Strays) + 1
  BY <1>1, <1>2, <1>4
<1>7. Cardinality(Strays') <= tapSlips' + tapOthers'
  BY <1>2, <1>3, <1>4, <1>5, <1>6, SumGrown
<1> QED BY <1>7 DEF StraysCounted, Strays

LEMMA StraysStep ==
  ASSUME TapTypeOK, KnownTaps, StraysCounted, [TapNext]_tapVars
  PROVE  StraysCounted'
<1>0. tapSlips \in Nat /\ tapOthers \in Nat /\ tapSlips' \in Nat /\ tapOthers' \in Nat
  BY TapStepType DEF TapTypeOK
<1>a. UNCHANGED tapFiles => FiledTaps' = FiledTaps /\ TapFiled' = TapFiled
  BY DEF FiledTaps, TapFiled
<1>b. tapPc # "write" => tapNew = NoTap
  BY DEF KnownTaps, BornTaps
<1>c. NoTap \notin LiveTaps /\ (UNCHANGED taps => LiveTaps' = LiveTaps)
  BY TapAssumption DEF LiveTaps
<1>1. CASE TapPull
  <2>1. PICK read \in SUBSET LiveTaps, cut \in SUBSET TapFiled : PullDoes(read, cut)
    BY <1>1, PullSays
  <2>2. tapNew = NoTap /\ UNCHANGED <<taps, tapNew, tapSlips, tapOthers>> /\ LiveTaps' = LiveTaps
    BY <1>1, <1>b, <1>c DEF TapPull, TapMay
  <2>3. ASSUME NEW t \in read PROVE t \in FiledTaps'
    <3>1. NameOf(t) \in TapNames /\ tapFiles'[NameOf(t)] = [id |-> t, spec |-> taps[t]]
      BY <2>1, <2>3, NamesApart DEF PullDoes
    <3>2. [id |-> t, spec |-> taps[t]] # NoTapFile
      BY <2>3, FiledType DEF LiveTaps, TapFileType
    <3> QED BY <3>1, <3>2 DEF FiledTaps, TapFiled
  <2>4. ASSUME NEW t \in LiveTaps, t \in FiledTaps PROVE t \in FiledTaps'
    <3>1. CASE read = LiveTaps
      BY <2>3, <3>1
    <3>2. CASE cut = {}
      <4>1. PICK n \in TapFiled : tapFiles[n].id = t
        BY <2>4 DEF FiledTaps
      <4>2. CASE tapFiles'[n] = tapFiles[n]
        BY <4>1, <4>2 DEF FiledTaps, TapFiled
      <4>3. ASSUME NEW u \in read, n = NameOf(u) PROVE t \in read
        <5>1. CASE LiveTaps = {u}
          BY <4>3, <5>1
        <5>2. CASE LiveTaps # {u}
          <6>1. n = u /\ u \in Taps /\ tapFiles[u] # NoTapFile
            BY <4>1, <4>3, <5>2 DEF NameOf, LiveTaps, TapFiled
          <6> QED BY <4>1, <4>3, <6>1 DEF KnownTaps, NamedTaps
        <5> QED BY <5>1, <5>2
      <4>4. n \in TapNames
        BY DEF TapFiled
      <4> QED BY <2>1, <2>3, <3>2, <4>2, <4>3, <4>4 DEF PullDoes
    <3> QED BY <2>1, <3>1, <3>2 DEF PullDoes
  <2>5. Strays' \subseteq Strays
    BY <2>2, <2>4 DEF Strays
  <2> QED BY <1>0, <2>2, <2>5, NoMoreStrays
<1>2. ASSUME NEW prune \in BOOLEAN, TapPush(prune) PROVE StraysCounted'
  <2>1. UNCHANGED <<taps, tapFiles, tapNew, tapSlips, tapOthers>>
    BY <1>2 DEF TapPush
  <2> QED BY <2>1, <1>a, <1>c DEF StraysCounted
<1>3. CASE DeleteOld
  <2>1. tapNew = NoTap /\ tapNew' = NoTap /\ UNCHANGED <<tapFiles, tapSlips, tapOthers>>
    BY <1>3, <1>b DEF DeleteOld, TapFails
  <2>2. LiveTaps' \subseteq LiveTaps
    BY <1>3, TapDies DEF DeleteOld
  <2>3. Strays' \subseteq Strays
    BY <1>a, <2>1, <2>2 DEF Strays
  <2> QED BY <1>0, <2>1, <2>3, NoMoreStrays
<1>4. CASE CreateNew
  <2>1. PICK n \in TapFiled, t \in Taps :
          /\ taps[t] = TapUnborn /\ taps' = [taps EXCEPT ![t] = tapFiles[n].spec]
          /\ tapPc \in {"apply", "create"}
          /\ \/ tapNew' = NoTap /\ tapSlips' = tapSlips + 1
             \/ tapNew' = t /\ UNCHANGED tapSlips
    BY <1>4 DEF CreateNew, TapFails
  <2>2. tapNew = NoTap /\ UNCHANGED <<tapFiles, tapOthers>>
    BY <1>4, <1>b, <2>1 DEF CreateNew
  <2>3. LiveTaps' \subseteq LiveTaps \cup {t}
    BY <2>1, TapBorn, FiledType
  <2>4. CASE tapNew' = t /\ UNCHANGED tapSlips
    <3>1. Strays' \subseteq Strays
      BY <1>a, <1>c, <2>2, <2>3, <2>4 DEF Strays
    <3> QED BY <1>0, <2>2, <2>4, <3>1, NoMoreStrays
  <2>5. CASE tapNew' = NoTap /\ tapSlips' = tapSlips + 1
    <3>1. Strays' \subseteq Strays \cup {t}
      BY <1>a, <2>2, <2>3, <2>5 DEF Strays
    <3> QED BY <1>0, <2>2, <2>5, <3>1, OneMoreStray
  <2> QED BY <2>1, <2>4, <2>5
<1>5. CASE WriteTap
  <2>1. /\ tapNew' = NoTap /\ UNCHANGED <<taps, tapSlips, tapOthers>>
        /\ tapFiles' = [tapFiles EXCEPT ![tapAt] = [id |-> tapNew, spec |-> tapFiles[tapAt].spec]]
        /\ tapAt \in TapFiled /\ tapFiles[tapAt].id \notin LiveTaps
    BY <1>5 DEF WriteTap, KnownTaps, PlannedTaps
  <2>2. /\ tapFiles'[tapAt].id = tapNew /\ tapFiles'[tapAt] # NoTapFile /\ tapAt \in TapNames
        /\ \A n \in TapNames \ {tapAt} : tapFiles'[n] = tapFiles[n]
    BY <2>1, FiledType, TapAssumption DEF TapTypeOK, TapFileType
  <2>3. ASSUME NEW t \in LiveTaps, t \in FiledTaps \cup {tapNew} PROVE t \in FiledTaps'
    <3>1. CASE t = tapNew
      BY <2>2, <3>1 DEF FiledTaps, TapFiled
    <3>2. CASE t \in FiledTaps
      <4>1. PICK n \in TapFiled : tapFiles[n].id = t
        BY <3>2 DEF FiledTaps
      <4>2. n # tapAt
        BY <2>1, <2>3, <4>1
      <4> QED BY <2>2, <4>1, <4>2 DEF FiledTaps, TapFiled
    <3> QED BY <2>3, <3>1, <3>2
  <2>4. Strays' \subseteq Strays
    BY <1>c, <2>1, <2>3 DEF Strays
  <2> QED BY <1>0, <2>1, <2>4, NoMoreStrays
<1>6. CASE PruneTap
  <2>1. UNCHANGED <<tapFiles, tapNew, tapSlips, tapOthers>>
    BY <1>6 DEF PruneTap
  <2>2. LiveTaps' \subseteq LiveTaps
    BY <1>6, <1>c, TapDies DEF PruneTap
  <2>3. Strays' \subseteq Strays
    BY <1>a, <2>1, <2>2 DEF Strays
  <2> QED BY <1>0, <2>1, <2>3, NoMoreStrays
<1>7. CASE TapGiveUp
  <2>1. UNCHANGED <<taps, tapFiles, tapOthers>> /\ tapNew' = NoTap
    BY <1>7 DEF TapGiveUp, TapFails
  <2>2. CASE tapPc = "write"
    <3>1. tapSlips' = tapSlips + 1
      BY <1>7, <2>2 DEF TapGiveUp
    <3>2. Strays' \subseteq Strays \cup {tapNew}
      BY <1>a, <1>c, <2>1 DEF Strays
    <3> QED BY <1>0, <2>1, <3>1, <3>2, OneMoreStray
  <2>3. CASE tapPc # "write"
    <3>1. Strays' \subseteq Strays
      BY <1>a, <1>b, <1>c, <2>1, <2>3 DEF Strays
    <3>2. tapSlips' = tapSlips
      BY <1>7, <2>3 DEF TapGiveUp
    <3> QED BY <1>0, <2>1, <3>1, <3>2, NoMoreStrays
  <2> QED BY <2>2, <2>3
<1>8. CASE TapUi
  <2>1. UNCHANGED <<tapFiles, tapNew, tapSlips>>
    BY <1>8 DEF TapUi
  <2>2. CASE \E t \in LiveTaps : taps' = [taps EXCEPT ![t] = TapGone] /\ UNCHANGED tapOthers
    <3>1. LiveTaps' \subseteq LiveTaps
      BY <2>2, TapDies
    <3>2. Strays' \subseteq Strays
      BY <1>a, <2>1, <3>1 DEF Strays
    <3> QED BY <1>0, <2>1, <2>2, <3>2, NoMoreStrays
  <2>3. ASSUME NEW t \in Taps, taps[t] = TapUnborn, NEW spec \in TapSpecs,
               taps' = [taps EXCEPT ![t] = spec], tapOthers' = tapOthers + 1
        PROVE  StraysCounted'
    <3>1. LiveTaps' \subseteq LiveTaps \cup {t}
      BY <2>3, TapBorn
    <3>2. Strays' \subseteq Strays \cup {t}
      BY <1>a, <2>1, <3>1 DEF Strays
    <3> QED BY <1>0, <2>1, <2>3, <3>2, OneMoreStray
  <2> QED BY <1>8, <2>2, <2>3 DEF TapUi
<1>9. CASE TapEdit
  <2>1. UNCHANGED <<taps, tapNew, tapSlips>> /\ tapPc = "idle" /\ LiveTaps' = LiveTaps
    BY <1>9, <1>c DEF TapEdit
  <2>2. CASE \E n \in TapFiled, spec \in TapSpecs :
               tapFiles' = [tapFiles EXCEPT ![n] = [id |-> tapFiles[n].id, spec |-> spec]]
               /\ UNCHANGED tapOthers
    <3>1. FiledTaps \subseteq FiledTaps'
      <4>1. PICK n \in TapFiled, spec \in TapSpecs :
              tapFiles' = [tapFiles EXCEPT ![n] = [id |-> tapFiles[n].id, spec |-> spec]]
        BY <2>2
      <4>2. \A m \in TapFiled : tapFiles'[m] # NoTapFile /\ tapFiles'[m].id = tapFiles[m].id
        BY <4>1, FiledType DEF TapTypeOK, TapFileType, TapFiled
      <4> QED BY <4>2 DEF FiledTaps, TapFiled
    <3>2. Strays' \subseteq Strays
      BY <2>1, <3>1 DEF Strays
    <3> QED BY <1>0, <2>1, <2>2, <3>2, NoMoreStrays
  <2>3. ASSUME NEW n \in TapFiled, tapFiles' = [tapFiles EXCEPT ![n] = NoTapFile],
               tapOthers' = tapOthers + 1
        PROVE  StraysCounted'
    <3>1. \A m \in TapFiled \ {n} : tapFiles'[m] = tapFiles[m]
      BY <2>3 DEF TapTypeOK, TapFiled
    <3>2. FiledTaps \subseteq FiledTaps' \cup {tapFiles[n].id}
      BY <3>1 DEF FiledTaps, TapFiled
    <3>3. Strays' \subseteq Strays \cup {tapFiles[n].id}
      BY <2>1, <3>2 DEF Strays
    <3> QED BY <1>0, <2>1, <2>3, <3>3, OneMoreStray
  <2>4. ASSUME NEW spec \in TapSpecs, Bare \notin TapFiled, UNCHANGED tapOthers,
               tapFiles' = [tapFiles EXCEPT ![Bare] = [id |-> NoTap, spec |-> spec]]
        PROVE  StraysCounted'
    <3>1. \A m \in TapFiled : tapFiles'[m] = tapFiles[m]
      BY <2>4 DEF TapTypeOK, TapFiled
    <3>2. FiledTaps \subseteq FiledTaps'
      BY <3>1 DEF FiledTaps, TapFiled
    <3>3. Strays' \subseteq Strays
      BY <2>1, <3>2 DEF Strays
    <3> QED BY <1>0, <2>1, <2>4, <3>3, NoMoreStrays
  <2> QED BY <1>9, <2>2, <2>3, <2>4 DEF TapEdit
<1>10. CASE UNCHANGED tapVars
  <2>1. UNCHANGED <<taps, tapFiles, tapNew, tapSlips, tapOthers>>
    BY <1>10 DEF tapVars
  <2> QED BY <2>1, <1>a, <1>c DEF StraysCounted
<1> QED BY <1>1, <1>2, <1>3, <1>4, <1>5, <1>6, <1>7, <1>8, <1>9, <1>10 DEF TapNext

\* What a push knows that nobody disturbed: the files it is done with tell what is live, none
\* of them is about the tap of one it still has to update, and the live taps without a file
\* are those it has to write or to delete.
DoneWith == {n \in TapFiled \ (tapPlan.create \cup tapPlan.update) :
               tapPc \in {"create", "write"} => n # tapAt}
FilesDone ==
  \A n \in DoneWith : tapFiles[n].id \in LiveTaps /\ taps[tapFiles[n].id] = tapFiles[n].spec
OthersLeft ==
  \A n \in DoneWith : \A m \in tapPlan.update : tapFiles[m].id # tapFiles[n].id
TapsKept == tapPrune => LiveTaps \subseteq FiledTaps \cup {tapNew} \cup tapPlan.delete
NewWritten ==
  tapPc = "write" => tapNew \in LiveTaps /\ tapAt \in TapFiled /\ taps[tapNew] = tapFiles[tapAt].spec
CalmTaps == tapCalm => FilesDone /\ OthersLeft /\ TapsKept /\ NewWritten

LEMMA CalmTapPush ==
  ASSUME TapTypeOK, KnownTaps, NEW prune \in BOOLEAN, TapPush(prune)
  PROVE  CalmTaps'
<1>1. UNCHANGED <<taps, tapFiles>> /\ tapPc' = "apply" /\ (tapCalm' => FilesAgree)
      /\ (tapPrune' => prune /\ tapPulled)
  BY DEF TapPush
<1>2. TapFiled' = TapFiled /\ LiveTaps' = LiveTaps /\ FiledTaps' = FiledTaps
  BY <1>1 DEF TapFiled, LiveTaps, FiledTaps
<1>3. /\ tapPlan'.create = {n \in TapFiled : tapFiles[n].id \notin LiveTaps}
      /\ tapPlan'.update = {n \in TapFiled : /\ tapFiles[n].id \in LiveTaps
                                            /\ taps[tapFiles[n].id] # tapFiles[n].spec}
      /\ (tapPrune' => tapPlan'.delete = LiveTaps \ FiledTaps)
  BY DEF TapPush
<1>4. \A n \in DoneWith' :
        n \in TapFiled /\ tapFiles[n].id \in LiveTaps /\ taps[tapFiles[n].id] = tapFiles[n].spec
  BY <1>2, <1>3 DEF DoneWith
<1>5. FilesDone'
  BY <1>1, <1>2, <1>4 DEF FilesDone
<1>6. tapCalm' => OthersLeft'
  BY <1>1, <1>3, <1>4 DEF OthersLeft, FilesAgree
<1>7. TapsKept'
  BY <1>2, <1>3 DEF TapsKept
<1>8. NewWritten'
  BY <1>1 DEF NewWritten
<1> QED BY <1>5, <1>6, <1>7, <1>8 DEF CalmTaps

LEMMA CalmTapsStep ==
  ASSUME TapTypeOK, KnownTaps, CalmTaps, [TapNext]_tapVars
  PROVE  CalmTaps'
<1>a. UNCHANGED tapFiles => FiledTaps' = FiledTaps /\ TapFiled' = TapFiled
  BY DEF FiledTaps, TapFiled
<1>c. NoTap \notin LiveTaps /\ (UNCHANGED taps => LiveTaps' = LiveTaps)
  BY TapAssumption DEF LiveTaps
<1>1. CASE TapPull \/ TapUi \/ TapEdit \/ TapGiveUp
  BY <1>1 DEF TapPull, TapUi, TapEdit, TapGiveUp, TapFails, CalmTaps
<1>2. ASSUME NEW prune \in BOOLEAN, TapPush(prune) PROVE CalmTaps'
  BY <1>2, CalmTapPush
<1>3. CASE DeleteOld
  <2>0. SUFFICES ASSUME tapCalm' PROVE FilesDone' /\ OthersLeft' /\ TapsKept' /\ NewWritten'
    BY DEF CalmTaps
  <2>1. PICK n \in ToUpdate :
          /\ tapFiles[n].id \in LiveTaps
          /\ taps' = [taps EXCEPT ![tapFiles[n].id] = TapGone] /\ tapPlan' = Without(n)
          /\ tapPc' = "create" /\ tapAt' = n /\ tapNew' = tapNew /\ tapCalm
    BY <1>3, <2>0 DEF DeleteOld, TapFails
  <2>2. UNCHANGED <<tapFiles, tapPrune>> /\ tapPc = "apply" /\ n \in tapPlan.update
    BY <1>3, <2>1 DEF DeleteOld, ToUpdate
  <2>3. FilesDone /\ OthersLeft /\ TapsKept
    BY <2>1 DEF CalmTaps
  <2>4. DoneWith' \subseteq DoneWith
    BY <1>a, <2>1, <2>2 DEF DoneWith, Without
  <2>5. LiveTaps' = LiveTaps \ {tapFiles[n].id} /\ \A u \in LiveTaps' : taps'[u] = taps[u]
    BY <2>1, TapDies
  <2>6. FilesDone'
    BY <2>2, <2>3, <2>4, <2>5 DEF FilesDone, OthersLeft
  <2>7. OthersLeft'
    BY <2>1, <2>2, <2>3, <2>4, PlanLess DEF OthersLeft
  <2>8. TapsKept'
    BY <1>a, <2>1, <2>2, <2>3, <2>5, PlanLess DEF TapsKept
  <2> QED BY <2>1, <2>6, <2>7, <2>8 DEF NewWritten
<1>4. CASE CreateNew
  <2>0. SUFFICES ASSUME tapCalm' PROVE FilesDone' /\ OthersLeft' /\ TapsKept' /\ NewWritten'
    BY DEF CalmTaps
  <2>1. PICK n \in TapFiled, t \in Taps :
          /\ taps[t] = TapUnborn
          /\ (tapPc = "apply" /\ n \in ToCreate) \/ (tapPc = "create" /\ n = tapAt)
          /\ taps' = [taps EXCEPT ![t] = tapFiles[n].spec] /\ tapPlan' = Without(n)
          /\ tapPc' = "write" /\ tapAt' = n /\ tapNew' = t /\ tapCalm
    BY <1>4, <2>0 DEF CreateNew, TapFails
  <2>2. UNCHANGED <<tapFiles, tapPrune>> /\ tapNew = NoTap
    BY <1>4, <2>1 DEF CreateNew, KnownTaps, BornTaps
  <2>3. FilesDone /\ OthersLeft /\ TapsKept
    BY <2>1 DEF CalmTaps
  <2>4. tapPc = "create" => tapAt \notin tapPlan.create \cup tapPlan.update
    BY DEF KnownTaps, PlannedTaps
  <2>5. DoneWith' \subseteq DoneWith
    BY <1>a, <2>1, <2>2, <2>4 DEF DoneWith, Without
  <2>6. /\ LiveTaps' = LiveTaps \cup {t} /\ taps'[t] = tapFiles[n].spec
        /\ \A u \in LiveTaps : taps'[u] = taps[u]
    BY <2>1, TapBorn, FiledType
  <2>7. FilesDone'
    BY <2>2, <2>3, <2>5, <2>6 DEF FilesDone
  <2>8. OthersLeft'
    BY <2>1, <2>2, <2>3, <2>5, PlanLess DEF OthersLeft
  <2>9. TapsKept'
    BY <1>a, <1>c, <2>1, <2>2, <2>3, <2>6, PlanLess DEF TapsKept
  <2>10. NewWritten'
    BY <1>a, <2>1, <2>2, <2>6 DEF NewWritten
  <2> QED BY <2>7, <2>8, <2>9, <2>10
<1>5. CASE WriteTap
  <2>0. SUFFICES ASSUME tapCalm' PROVE FilesDone' /\ OthersLeft' /\ TapsKept' /\ NewWritten'
    BY DEF CalmTaps
  <2>1. /\ tapPc = "write" /\ tapPc' = "apply" /\ tapNew' = NoTap
        /\ UNCHANGED <<taps, tapPlan, tapPrune>> /\ tapCalm
        /\ tapFiles' = [tapFiles EXCEPT ![tapAt] = [id |-> tapNew, spec |-> tapFiles[tapAt].spec]]
    BY <1>5, <2>0 DEF WriteTap
  <2>2. FilesDone /\ OthersLeft /\ TapsKept /\ NewWritten
    BY <2>1 DEF CalmTaps
  <2>3. /\ tapAt \in TapFiled /\ tapFiles[tapAt].id \notin LiveTaps /\ tapNew \in LiveTaps
        /\ taps[tapNew] = tapFiles[tapAt].spec /\ tapNew \notin FiledTaps
        /\ tapAt \notin tapPlan.create \cup tapPlan.update /\ tapPlan.update \subseteq TapFiled
    BY <1>c, <2>1, <2>2 DEF KnownTaps, BornTaps, PlannedTaps, NewWritten
  <2>4. /\ tapFiles'[tapAt].id = tapNew /\ tapFiles'[tapAt].spec = tapFiles[tapAt].spec
        /\ tapFiles'[tapAt] # NoTapFile /\ tapAt \in TapNames
        /\ \A n \in TapNames \ {tapAt} : tapFiles'[n] = tapFiles[n]
    BY <2>1, <2>3, FiledType, TapAssumption DEF TapTypeOK, TapFileType
  <2>5. TapFiled' = TapFiled /\ LiveTaps' = LiveTaps
    BY <1>c, <2>1, <2>3, <2>4 DEF TapFiled
  <2>6. DoneWith' \subseteq DoneWith \cup {tapAt}
    BY <2>1, <2>5 DEF DoneWith
  <2>7. DoneWith \subseteq TapNames /\ TapFiled \subseteq TapNames /\ tapAt \notin DoneWith
    BY <2>1, FiledType DEF DoneWith
  <2>8. FilesDone'
    BY <2>1, <2>2, <2>3, <2>4, <2>5, <2>6, <2>7 DEF FilesDone
  <2>9. OthersLeft'
    <3>1. SUFFICES ASSUME NEW n \in DoneWith', NEW m \in tapPlan.update
                   PROVE  tapFiles'[m].id # tapFiles'[n].id
      BY <2>1 DEF OthersLeft
    <3>2. m \in TapFiled /\ m # tapAt /\ tapFiles'[m] = tapFiles[m] /\ tapFiles[m].id \in FiledTaps
      BY <2>3, <2>4, <2>7, <3>1, FiledType
    <3>3. CASE n = tapAt
      BY <2>3, <2>4, <3>2, <3>3
    <3>4. CASE n \in DoneWith /\ n # tapAt
      BY <2>2, <2>4, <2>7, <3>1, <3>2, <3>4 DEF OthersLeft
    <3> QED BY <2>6, <3>1, <3>3, <3>4
  <2>10. TapsKept'
    <3>1. ASSUME NEW t \in LiveTaps, t \in FiledTaps \cup {tapNew} PROVE t \in FiledTaps'
      <4>1. CASE t = tapNew
        BY <2>4, <4>1 DEF FiledTaps, TapFiled
      <4>2. CASE t \in FiledTaps
        <5>1. PICK n \in TapFiled : tapFiles[n].id = t
          BY <4>2 DEF FiledTaps
        <5>2. n # tapAt
          BY <2>3, <3>1, <5>1
        <5> QED BY <2>4, <5>1, <5>2 DEF FiledTaps, TapFiled
      <4> QED BY <3>1, <4>1, <4>2
    <3> QED BY <2>1, <2>2, <2>5, <3>1 DEF TapsKept
  <2> QED BY <2>1, <2>8, <2>9, <2>10 DEF NewWritten
<1>6. CASE PruneTap
  <2>0. SUFFICES ASSUME tapCalm' PROVE FilesDone' /\ OthersLeft' /\ TapsKept' /\ NewWritten'
    BY DEF CalmTaps
  <2>1. UNCHANGED <<tapFiles, tapPrune, tapNew, tapAt>> /\ tapPc = "apply" /\ tapCalm
    BY <1>6, <2>0 DEF PruneTap
  <2>2. FilesDone /\ OthersLeft /\ TapsKept
    BY <2>1 DEF CalmTaps
  <2>3. CASE tapPlan = TapRest /\ tapPc' = "idle" /\ UNCHANGED <<taps, tapPlan>>
    <3>1. DoneWith' = DoneWith /\ LiveTaps' = LiveTaps
      BY <1>a, <1>c, <2>1, <2>3 DEF DoneWith
    <3>2. FilesDone' /\ OthersLeft' /\ TapsKept'
      BY <1>a, <2>1, <2>2, <2>3, <3>1 DEF FilesDone, OthersLeft, TapsKept
    <3> QED BY <2>3, <3>2 DEF NewWritten
  <2>4. ASSUME NEW t \in ToDelete \cap LiveTaps, taps' = [taps EXCEPT ![t] = TapGone], tapPc' = tapPc,
               tapPlan' = [tapPlan EXCEPT !.delete = @ \ {t}]
        PROVE  FilesDone' /\ OthersLeft' /\ TapsKept' /\ NewWritten'
    <3>1. /\ LiveTaps' = LiveTaps \ {t} /\ \A u \in LiveTaps' : taps'[u] = taps[u]
      BY <2>4, TapDies
    <3>2. /\ tapPlan'.create = tapPlan.create /\ tapPlan'.update = tapPlan.update
          /\ tapPlan'.delete = tapPlan.delete \ {t}
      BY <2>4, PlanLess
    <3>3. DoneWith' = DoneWith
      BY <1>a, <2>1, <2>4, <3>2 DEF DoneWith
    <3>4. t \notin FiledTaps
      BY <2>4 DEF ToDelete, KnownTaps, PlannedTaps
    <3>5. \A n \in DoneWith : tapFiles[n].id # t
      BY <3>4, FiledType DEF DoneWith
    <3>6. FilesDone'
      BY <2>1, <2>2, <3>1, <3>3, <3>5 DEF FilesDone
    <3>7. OthersLeft'
      BY <2>1, <2>2, <3>2, <3>3 DEF OthersLeft
    <3>8. TapsKept'
      BY <1>a, <2>1, <2>2, <3>1, <3>2 DEF TapsKept
    <3> QED BY <2>1, <2>4, <3>6, <3>7, <3>8 DEF NewWritten
  <2> QED BY <1>6, <2>3, <2>4 DEF PruneTap
<1>7. CASE UNCHANGED tapVars
  <2>1. UNCHANGED <<taps, tapFiles, tapPc, tapAt, tapNew, tapPlan, tapPrune, tapCalm>>
    BY <1>7 DEF tapVars
  <2>2. DoneWith' = DoneWith /\ LiveTaps' = LiveTaps
    BY <1>a, <1>c, <2>1 DEF DoneWith
  <2> QED BY <1>a, <2>1, <2>2 DEF CalmTaps, FilesDone, OthersLeft, TapsKept, NewWritten
<1> QED BY <1>1, <1>2, <1>3, <1>4, <1>5, <1>6, <1>7 DEF TapNext

LEMMA CalmHeals ==
  ASSUME TapTypeOK, KnownTaps, CalmTaps
  PROVE  TapHealed
<1> SUFFICES ASSUME tapPc = "idle", tapCalm
             PROVE  /\ \A n \in TapFiled : /\ tapFiles[n].id \in LiveTaps
                                           /\ taps[tapFiles[n].id] = tapFiles[n].spec
                    /\ tapPrune => LiveTaps \subseteq FiledTaps
  BY DEF TapHealed
<1>1. tapPlan = TapRest /\ tapNew = NoTap
  BY DEF KnownTaps, PlannedTaps, BornTaps
<1>2. tapPlan.create = {} /\ tapPlan.update = {} /\ tapPlan.delete = {}
  BY <1>1, PlanLess
<1>3. DoneWith = TapFiled
  BY <1>2 DEF DoneWith
<1>4. NoTap \notin LiveTaps
  BY TapAssumption DEF LiveTaps
<1> QED BY <1>1, <1>2, <1>3, <1>4 DEF CalmTaps, FilesDone, TapsKept

TapInv == TapTypeOK /\ KnownTaps /\ StraysCounted /\ CalmTaps

LEMMA TapStart == TapInit => TapInv
<1> SUFFICES ASSUME TapInit PROVE TapInv
  OBVIOUS
<1>1. PICK other \in {NoTapFile} \cup [id : {NoTap}, spec : TapSpecs] :
        tapFiles = [n \in TapNames |-> IF n = Bare THEN other ELSE NoTapFile]
  BY DEF TapInit
<1>2. \A n \in TapNames : tapFiles[n] = NoTapFile
        \/ (n = Bare /\ tapFiles[n].id = NoTap /\ tapFiles[n] \in TapFileType)
  BY <1>1 DEF TapFileType
<1>3. tapFiles \in [TapNames -> TapFileType \cup {NoTapFile}]
  BY <1>1, <1>2
<1>4. FiledTaps \subseteq {NoTap} /\ \A n \in TapFiled : tapFiles[n].id = NoTap
  BY <1>2 DEF FiledTaps, TapFiled
<1>5. /\ taps \in [Taps -> TapSpecs \cup {TapUnborn}] /\ tapPulled = FALSE /\ tapPc = "idle"
      /\ tapAt = Bare /\ tapNew = NoTap /\ tapPrune = FALSE /\ tapPlan = TapRest
      /\ tapSlips = 0 /\ tapOthers = Cardinality(LiveTaps) /\ tapCalm = FALSE
      /\ tapCommands = 0 /\ tapEdits = 0 /\ tapChanges = 0
  BY DEF TapInit
<1>6. NoTap \notin LiveTaps /\ IsFiniteSet(LiveTaps) /\ Cardinality(LiveTaps) \in Nat
  BY TapAssumption, StraysFinite DEF LiveTaps
<1>7. TapTypeOK
  <2>1. tapPulled \in BOOLEAN /\ tapPrune \in BOOLEAN /\ tapCalm \in BOOLEAN
    BY <1>5
  <2>2. tapPlan \in [create : SUBSET TapNames, update : SUBSET TapNames, delete : SUBSET Taps]
    BY <1>5 DEF TapRest
  <2>3. taps \in [Taps -> TapSpecs \cup {TapGone, TapUnborn}] /\ tapAt \in TapNames
    BY <1>5 DEF TapNames
  <2> QED BY <1>3, <1>5, <1>6, <2>1, <2>2, <2>3 DEF TapTypeOK
<1>8. KnownTaps
  <2>1. BornTaps
    BY <1>4, <1>5, TapAssumption DEF BornTaps, TapRest
  <2>2. NamedTaps
    BY <1>2, TapAssumption DEF NamedTaps, TapNames
  <2>3. PlannedTaps
    BY <1>5 DEF PlannedTaps, TapRest
  <2> QED BY <2>1, <2>2, <2>3 DEF KnownTaps
<1>9. StraysCounted
  <2>1. LiveTaps \ (FiledTaps \cup {tapNew}) = LiveTaps
    BY <1>4, <1>5, <1>6
  <2>2. ASSUME NEW c \in Nat PROVE c <= 0 + c
    OBVIOUS
  <2>3. Cardinality(LiveTaps) <= tapSlips + tapOthers
    BY <1>5, <1>6, <2>2
  <2> QED BY <2>1, <2>3 DEF StraysCounted
<1>10. CalmTaps
  BY <1>5 DEF CalmTaps
<1> QED BY <1>7, <1>8, <1>9, <1>10 DEF TapInv

LEMMA TapInductive == TapSpec => []TapInv
<1>1. TapInv /\ [TapNext]_tapVars => TapInv'
  BY TapStepType, KnownStep, StraysStep, CalmTapsStep DEF TapInv
<1> QED BY TapStart, <1>1, PTL DEF TapSpec

\* The taps, the directory and the plan are typed, in every run.
THEOREM TapTypeCorrect == TapSpec => []TapTypeOK
BY TapInductive, PTL DEF TapInv

\* There are no more live taps without a file than taps whose id never reached the file, taps
\* that others made and files that were removed.
THEOREM TapStraysCounted == TapSpec => []StraysCounted
BY TapInductive, PTL DEF TapInv

\* A push of files that agree, undisturbed and successful, mends whatever earlier ones left;
\* of the taps without a file, if it prunes and a whole pull is on record.
THEOREM TapsHeal == TapSpec => []TapHealed
<1>1. TapInv => TapHealed
  BY CalmHeals DEF TapInv
<1> QED BY TapInductive, <1>1, PTL

-----------------------------------------------------------------------------
(* Data tables *)

TableFiles == [named : BOOLEAN, description : Descriptions, columns : Columns, rows : Seq(Rows)]

LEMMA ListsType == Lists \subseteq Seq(Rows)
BY TableAssumption DEF Lists, BoundedSeq, SeqOf

LEMMA TableFileType ==
  ASSUME NEW t \in Table, NEW named \in BOOLEAN
  PROVE  TableFile(named, t) \in TableFiles
BY DEF TableFile, TableFiles, Table

\* A row moved from the rows to be sent to the table.
LEMMA RowMoved ==
  ASSUME NEW rows \in Seq(Rows), NEW rest \in Seq(Rows), rest # <<>>
  PROVE  /\ Head(rest) \in Rows /\ Tail(rest) \in Seq(Rows)
         /\ Append(rows, Head(rest)) \in Seq(Rows) /\ <<Head(rest)>> \in Seq(Rows)
         /\ Append(rows, Head(rest)) \o Tail(rest) = rows \o rest
         /\ <<Head(rest)>> \o Tail(rest) = rest
<1>1. Len(rest) \in Nat \ {0}
  OBVIOUS
<1>2. Head(rest) \in Rows /\ Tail(rest) \in Seq(Rows) /\ Append(rows, Head(rest)) \in Seq(Rows)
      /\ <<Head(rest)>> \in Seq(Rows)
  BY <1>1
<1>3. <<Head(rest)>> \o Tail(rest) = rest
  BY <1>1
<1>4. Append(rows, Head(rest)) \o Tail(rest) = rows \o rest
  BY <1>1, <1>2
<1> QED BY <1>2, <1>3, <1>4

LEMMA PrefixOfJoin ==
  ASSUME NEW rows \in Seq(Rows), NEW rest \in Seq(Rows)
  PROVE  IsPrefix(rows, rows \o rest)
BY DEF IsPrefix

LEMMA TableStepType ==
  ASSUME TableTypeOK, [TableNext]_tableVars
  PROVE  TableTypeOK'
<1>0. /\ table \in Table \cup {NoTable} /\ tableHave \in Table \cup {NoTable}
      /\ tableFile \in TableFiles /\ tableWant \in TableFiles
      /\ tableLeft \in Seq(Rows) /\ tableBase \in Seq(Rows)
      /\ tablePc \in {"idle", "create", "patch", "replace", "append", "write"}
  BY DEF TableTypeOK, TableFiles
<1>1. tableCommands' \in Nat /\ tableEdits' \in Nat /\ tableChanges' \in Nat
  <2>1. tableCommands \in Nat /\ tableEdits \in Nat /\ tableChanges \in Nat
    BY DEF TableTypeOK
  <2>2. CASE TablePull \/ \E hidden \in BOOLEAN : TablePush(hidden)
    <3>1. tableCommands' = tableCommands + 1 /\ UNCHANGED <<tableEdits, tableChanges>>
      BY <2>2 DEF TablePull, TablePush, TableMay
    <3> QED BY <2>1, <3>1
  <2>3. CASE TableUi
    <3>1. tableChanges' = tableChanges + 1 /\ UNCHANGED <<tableEdits, tableCommands>>
      BY <2>3 DEF TableUi
    <3> QED BY <2>1, <3>1
  <2>4. CASE TableEdit
    <3>1. tableEdits' = tableEdits + 1 /\ UNCHANGED <<tableChanges, tableCommands>>
      BY <2>4 DEF TableEdit
    <3> QED BY <2>1, <3>1
  <2>5. UNCHANGED <<tableCommands, tableEdits, tableChanges>> \/ TablePull
        \/ (\E hidden \in BOOLEAN : TablePush(hidden)) \/ TableUi \/ TableEdit
    BY DEF TableNext, tableVars, CreateTable, PatchTable, ReplaceRows, AppendRows, WriteTable,
           TableGiveUp, TableCall
  <2> QED BY <2>1, <2>2, <2>3, <2>4, <2>5
<1>2. tablePc' \in {"idle", "create", "patch", "replace", "append", "write"}
  BY <1>0 DEF TableNext, tableVars, TablePull, TablePush, CreateTable, PatchTable, ReplaceRows,
         AppendRows, WriteTable, TableGiveUp, TableCall, TableFails, TableUi, TableEdit
<1>3. tableCalm' \in BOOLEAN
  <2>1. tableCalm \in BOOLEAN
    BY DEF TableTypeOK
  <2>2. CASE \E hidden \in BOOLEAN : TablePush(hidden)
    BY <2>2, Zenon DEF TablePush
  <2>3. CASE CreateTable \/ PatchTable \/ ReplaceRows \/ AppendRows
    BY <2>1, <2>3, Zenon DEF CreateTable, PatchTable, ReplaceRows, AppendRows, TableCall, TableFails
  <2>4. CASE WriteTable \/ TableGiveUp \/ TablePull \/ TableUi \/ TableEdit \/ UNCHANGED tableVars
    BY <2>1, <2>4, Zenon DEF WriteTable, TableGiveUp, TablePull, TableUi, TableEdit, TableFails, tableVars
  <2> QED BY <2>2, <2>3, <2>4 DEF TableNext
<1>4. table' \in Table \cup {NoTable}
  <2>1. ASSUME IsTable PROVE table \in Table /\ table.rows \in Seq(Rows)
    BY <1>0, <2>1 DEF IsTable, Table
  <2>2. ASSUME IsTable, NEW rows \in Seq(Rows) PROVE [table EXCEPT !.rows = rows] \in Table
    BY <2>1, <2>2 DEF Table
  <2>3. ASSUME IsTable, NEW d \in Descriptions PROVE [table EXCEPT !.description = d] \in Table
    BY <2>1, <2>3 DEF Table
  <2>4. tableWant.description \in Descriptions /\ tableWant.columns \in Columns
    BY <1>0 DEF TableFiles
  <2>5. CASE CreateTable
    BY <2>4, <2>5 DEF CreateTable, Table
  <2>6. CASE PatchTable
    <3>1. PICK d \in Descriptions : table' = [table EXCEPT !.description = d]
      <4>1. table.description \in Descriptions
        BY <2>1, <2>6 DEF PatchTable, Table
      <4> QED BY <2>4, <2>6, <4>1 DEF PatchTable
    <3> QED BY <2>3, <2>6, <3>1 DEF PatchTable
  <2>7. CASE ReplaceRows
    BY <1>0, <2>1, <2>2, <2>7, RowMoved DEF ReplaceRows
  <2>8. CASE AppendRows
    BY <1>0, <2>1, <2>2, <2>8, RowMoved DEF AppendRows
  <2>9. CASE TableUi
    <3>1. ASSUME IsTable, NEW r \in Rows PROVE Append(table.rows, r) \in Seq(Rows)
      BY <2>1, <3>1
    <3> QED BY <2>2, <2>3, <2>9, <3>1 DEF TableUi
  <2> QED BY <1>0, <2>5, <2>6, <2>7, <2>8, <2>9
          DEF TableNext, tableVars, TablePull, TablePush, WriteTable, TableGiveUp, TableEdit
<1>5. tableHave' \in Table \cup {NoTable}
  BY <1>0 DEF TableNext, tableVars, tableLocals, TablePull, TablePush, CreateTable, PatchTable,
         ReplaceRows, AppendRows, WriteTable, TableGiveUp, TableCall, TableFails, TableUi, TableEdit
<1>6. tableFile' \in TableFiles
  <2>1. CASE TablePull
    BY <1>0, <2>1, TableFileType DEF TablePull, IsTable
  <2>2. CASE WriteTable
    <3>1. table \in Table /\ table.rows \in Seq(Rows)
      BY <1>0, <2>2 DEF WriteTable, IsTable, Table
    <3>2. [tableFile EXCEPT !.rows = table.rows] \in TableFiles
      BY <1>0, <3>1 DEF TableFiles
    <3> QED BY <2>2, <3>1, <3>2, TableFileType DEF WriteTable
  <2>3. CASE TableEdit
    BY <1>0, <2>3, ListsType DEF TableEdit, TableFiles
  <2> QED BY <1>0, <2>1, <2>2, <2>3
          DEF TableNext, tableVars, TablePush, CreateTable, PatchTable, ReplaceRows, AppendRows,
              TableGiveUp, TableCall, TableUi
<1>7. tableWant' \in TableFiles
  BY <1>0 DEF TableNext, tableVars, TablePull, TablePush, CreateTable, PatchTable, ReplaceRows,
         AppendRows, WriteTable, TableGiveUp, TableCall, TableUi, TableEdit
<1>8. tableLeft' \in Seq(Rows)
  <2>1. CASE \E hidden \in BOOLEAN : TablePush(hidden)
    <3>1. tableLeft' = tableFile.rows
      BY <2>1 DEF TablePush
    <3> QED BY <1>0, <3>1 DEF TableFiles
  <2>2. tableLeft' \in {tableLeft, tableFile.rows, <<>>} \/ (tableLeft # <<>> /\ tableLeft' = Tail(tableLeft))
    <3>1. CASE ReplaceRows
      BY <3>1 DEF ReplaceRows, TableCall, TableFails
    <3>2. CASE AppendRows
      BY <3>2 DEF AppendRows, TableCall, TableFails
    <3>3. CASE CreateTable \/ PatchTable \/ WriteTable \/ TableGiveUp
      BY <3>3 DEF CreateTable, PatchTable, WriteTable, TableGiveUp, TableCall, TableFails
    <3>4. CASE TablePull \/ TableUi \/ TableEdit \/ UNCHANGED tableVars
      BY <3>4 DEF TablePull, TableUi, TableEdit, tableVars, tableLocals
    <3> QED BY <2>1, <3>1, <3>2, <3>3, <3>4 DEF TableNext, TablePush
  <2>3. <<>> \in Seq(Rows) /\ tableFile.rows \in Seq(Rows)
    BY <1>0 DEF TableFiles
  <2>4. tableLeft # <<>> => Tail(tableLeft) \in Seq(Rows)
    BY <1>0
  <2> QED BY <1>0, <2>2, <2>3, <2>4
<1>9. tableBase' \in Seq(Rows)
  <2>1. CASE \E hidden \in BOOLEAN : TablePush(hidden)
    BY <1>0, <2>1 DEF TablePush, IsTable, Table
  <2> QED BY <1>0, <2>1
          DEF TableNext, tableVars, TablePull, CreateTable, PatchTable, ReplaceRows, AppendRows,
              WriteTable, TableGiveUp, TableCall, TableUi, TableEdit
<1> QED BY <1>1, <1>2, <1>3, <1>4, <1>5, <1>6, <1>7, <1>8, <1>9 DEF TableTypeOK, TableFiles

\* Where a push's writing stands, as long as nobody else has written.
RowsInv ==
  tableChanges = 0 =>
    /\ tablePc \in {"create", "patch", "replace"} =>
         tableLeft = tableWant.rows /\ (IsTable => table.rows = tableBase)
    /\ tablePc = "append" /\ IsTable =>
         \/ table.rows \o tableLeft = tableWant.rows
         \/ table.rows = tableBase /\ tableLeft = <<>>
    /\ tablePc = "write" /\ IsTable =>
         table.rows = tableBase \/ table.rows = tableWant.rows

LEMMA RowsStep ==
  ASSUME TableTypeOK, RowsInv, [TableNext]_tableVars
  PROVE  RowsInv'
<1>0. /\ tableLeft \in Seq(Rows) /\ tableWant.rows \in Seq(Rows) /\ tableChanges \in Nat
      /\ (IsTable => table \in Table /\ table.rows \in Seq(Rows))
  BY DEF TableTypeOK, IsTable, Table
<1>1. CASE TablePull
  BY <1>1 DEF TablePull, TableMay, RowsInv
<1>2. ASSUME NEW hidden \in BOOLEAN, TablePush(hidden) PROVE RowsInv'
  <2>1. /\ tablePc' \in {"idle", "create", "patch"} /\ tableLeft' = tableWant'.rows
        /\ table' = table /\ (IsTable => tableBase' = table.rows)
    BY <1>2 DEF TablePush
  <2> QED BY <2>1 DEF RowsInv, IsTable
<1>3. CASE TableGiveUp
  BY <1>3 DEF TableGiveUp, TableFails, RowsInv
<1>4. CASE CreateTable
  <2>1. tablePc' = "idle" \/ (tablePc' = "append" /\ tableLeft' = tableLeft)
    BY <1>4 DEF CreateTable, TableCall, TableFails
  <2>2. table'.rows = <<>> /\ UNCHANGED <<tableWant, tableChanges>>
    BY <1>4 DEF CreateTable, TableCall
  <2>3. <<>> \o tableLeft = tableLeft
    BY <1>0
  <2>4. tableChanges = 0 => tableLeft = tableWant.rows
    BY <1>4 DEF CreateTable, RowsInv
  <2> QED BY <2>1, <2>2, <2>3, <2>4 DEF RowsInv
<1>5. CASE PatchTable
  <2>1. /\ tablePc' = "idle" \/ (tablePc' \in {"replace", "write"} /\ tableLeft' = tableLeft)
        /\ UNCHANGED <<tableWant, tableChanges, tableBase>> /\ IsTable /\ tablePc = "patch"
    BY <1>5 DEF PatchTable, TableCall, TableFails
  <2>2. table'.rows = table.rows
    BY <1>0, <1>5 DEF PatchTable, Table
  <2> QED BY <2>1, <2>2 DEF RowsInv, IsTable
<1>6. CASE ReplaceRows
  <2>1. IsTable /\ tablePc = "replace" /\ UNCHANGED <<tableWant, tableChanges, tableBase>>
    BY <1>6 DEF ReplaceRows, TableCall
  <2>2. CASE tableLeft = <<>>
    <3>1. table' = table /\ (tablePc' = "idle" \/ (tablePc' = "append" /\ tableLeft' = <<>>))
      BY <1>6, <2>2 DEF ReplaceRows, TableCall, TableFails
    <3> QED BY <2>1, <3>1 DEF RowsInv, IsTable
  <2>3. CASE tableLeft # <<>>
    <3>1. /\ table' = [table EXCEPT !.rows = <<Head(tableLeft)>>]
          /\ tablePc' = "idle" \/ (tablePc' = "append" /\ tableLeft' = Tail(tableLeft))
      BY <1>6, <2>3 DEF ReplaceRows, TableCall, TableFails
    <3>2. table'.rows = <<Head(tableLeft)>>
      BY <1>0, <2>1, <3>1 DEF Table
    <3>3. <<Head(tableLeft)>> \o Tail(tableLeft) = tableLeft
      BY <1>0, <2>3, RowMoved
    <3> QED BY <2>1, <3>1, <3>2, <3>3 DEF RowsInv
  <2> QED BY <2>2, <2>3
<1>7. CASE AppendRows
  <2>1. IsTable /\ tablePc = "append" /\ UNCHANGED <<tableWant, tableChanges, tableBase>>
    BY <1>7 DEF AppendRows, TableCall
  <2>2. CASE tableLeft = <<>>
    <3>1. table' = table /\ tablePc' \in {"idle", "write"}
      BY <1>7, <2>2 DEF AppendRows, TableCall, TableFails
    <3>2. table.rows \o tableLeft = table.rows
      BY <1>0, <2>1, <2>2
    <3> QED BY <2>1, <3>1, <3>2 DEF RowsInv, IsTable
  <2>3. CASE tableLeft # <<>>
    <3>1. /\ table' = [table EXCEPT !.rows = Append(@, Head(tableLeft))]
          /\ tablePc' = "idle" \/ (tablePc' = "append" /\ tableLeft' = Tail(tableLeft))
      BY <1>7, <2>3 DEF AppendRows, TableCall, TableFails
    <3>2. table'.rows = Append(table.rows, Head(tableLeft))
      BY <1>0, <2>1, <3>1 DEF Table
    <3>3. Append(table.rows, Head(tableLeft)) \o Tail(tableLeft) = table.rows \o tableLeft
      BY <1>0, <2>1, <2>3, RowMoved
    <3> QED BY <2>1, <2>3, <3>1, <3>2, <3>3 DEF RowsInv
  <2> QED BY <2>2, <2>3
<1>8. CASE WriteTable
  BY <1>8 DEF WriteTable, RowsInv
<1>9. CASE TableUi
  <2>1. tableChanges' # 0
    BY <1>0, <1>9 DEF TableUi
  <2> QED BY <2>1 DEF RowsInv
<1>10. CASE TableEdit
  BY <1>10 DEF TableEdit, RowsInv, tableLocals, IsTable
<1>11. CASE UNCHANGED tableVars
  BY <1>11 DEF tableVars, tableLocals, RowsInv, IsTable
<1> QED BY <1>1, <1>2, <1>3, <1>4, <1>5, <1>6, <1>7, <1>8, <1>9, <1>10, <1>11 DEF TableNext

LEMMA RowsInvSuffices == TableTypeOK /\ RowsInv => RowsNeverMixed
<1> SUFFICES ASSUME TableTypeOK, RowsInv, tableChanges = 0, IsTable, tablePc # "idle"
             PROVE  table.rows = tableBase \/ IsPrefix(table.rows, tableWant.rows)
  BY DEF RowsNeverMixed
<1>1. table.rows \in Seq(Rows) /\ tableLeft \in Seq(Rows) /\ tableWant.rows \in Seq(Rows)
  BY DEF TableTypeOK, IsTable, Table
<1>2. CASE tablePc \in {"create", "patch", "replace"}
  BY <1>2 DEF RowsInv
<1>3. CASE tablePc = "append"
  BY <1>1, <1>3, PrefixOfJoin DEF RowsInv
<1>4. CASE tablePc = "write"
  <2>1. IsPrefix(table.rows, table.rows)
    BY <1>1 DEF IsPrefix
  <2> QED BY <1>4, <2>1 DEF RowsInv
<1> QED BY <1>2, <1>3, <1>4 DEF TableTypeOK

\* The table's description and columns are the file's.
FieldsWritten ==
  /\ IsTable
  /\ table.description = tableWant.description /\ table.columns = tableWant.columns

\* What a push knows that nobody disturbed. Without rows to write it leaves those there are.
CalmTable ==
  tableCalm =>
    /\ tablePc \in {"create", "patch", "replace"} => tableLeft = tableWant.rows
    /\ tablePc = "patch" =>
         IsTable /\ tableHave = table /\ table.columns = tableWant.columns
    /\ tablePc = "replace" => FieldsWritten
    /\ tablePc = "append" =>
         FieldsWritten /\ (tableWant.rows # <<>> => table.rows \o tableLeft = tableWant.rows)
    /\ tablePc = "write" =>
         FieldsWritten /\ (tableWant.rows # <<>> => table.rows = tableWant.rows)
    /\ TableSettles

LEMMA CalmTableStep ==
  ASSUME TableTypeOK, CalmTable, [TableNext]_tableVars
  PROVE  CalmTable'
<1>0. /\ tableLeft \in Seq(Rows) /\ tableWant \in TableFiles /\ tableWant.rows \in Seq(Rows)
      /\ tableFile \in TableFiles
      /\ (IsTable => table \in Table /\ table.rows \in Seq(Rows))
  BY DEF TableTypeOK, IsTable, Table, TableFiles
<1>1. CASE TablePull \/ TableGiveUp \/ TableUi \/ TableEdit
  BY <1>1 DEF TablePull, TableGiveUp, TableFails, TableUi, TableEdit, CalmTable
<1>2. ASSUME NEW hidden \in BOOLEAN, TablePush(hidden) PROVE CalmTable'
  <2>1. SUFFICES ASSUME tableCalm' PROVE CalmTable'
    BY DEF CalmTable
  <2>2. /\ tableLeft' = tableWant'.rows /\ tableWant' = tableFile
        /\ table' = table /\ tableFile' = tableFile
    BY <1>2 DEF TablePush
  <2>3. CASE tablePc' = "create"
    BY <2>2, <2>3 DEF CalmTable, TableSettles
  <2>4. CASE tablePc' = "idle"
    <3>1. tableFile.named /\ IsTable /\ SameAs(tableFile, table)
      BY <1>2, <2>1, <2>4 DEF TablePush
    <3>2. tableFile.named = TRUE
      BY <1>0, <3>1 DEF TableFiles
    <3> QED BY <2>2, <2>4, <3>1, <3>2 DEF CalmTable, TableSettles, SameAs, IsTable
  <2>5. CASE tablePc' = "patch"
    <3>1. IsTable /\ tableFile.columns = table.columns /\ tableHave' = table
      BY <1>2, <2>5 DEF TablePush
    <3> QED BY <2>2, <2>5, <3>1 DEF CalmTable, TableSettles, IsTable
  <2> QED BY <1>2, <2>3, <2>4, <2>5 DEF TablePush
<1>3. CASE CreateTable
  <2>1. SUFFICES ASSUME tableCalm' PROVE CalmTable'
    BY DEF CalmTable
  <2>2. /\ tableCalm /\ tablePc' = "append" /\ tableLeft' = tableLeft /\ tableWant' = tableWant
        /\ table' = [description |-> tableWant.description, columns |-> tableWant.columns,
                     rows |-> <<>>]
        /\ tablePc = "create"
    BY <1>3, <2>1 DEF CreateTable, TableCall, TableFails
  <2>3. table' \in Table
    BY <1>0, <2>2 DEF TableFiles, Table
  <2>4. IsTable'
    BY <2>3, TableAssumption DEF IsTable, Table
  <2>5. <<>> \o tableLeft = tableLeft /\ tableLeft = tableWant.rows
    BY <1>0, <2>2 DEF CalmTable
  <2> QED BY <2>2, <2>4, <2>5 DEF CalmTable, FieldsWritten, TableSettles
<1>4. CASE PatchTable
  <2>1. SUFFICES ASSUME tableCalm' PROVE CalmTable'
    BY DEF CalmTable
  <2>2. /\ tableCalm /\ tableLeft' = tableLeft /\ tableWant' = tableWant /\ tablePc = "patch"
        /\ tablePc' = IF tableWant.rows # tableHave.rows THEN "replace" ELSE "write"
        /\ IsTable
    BY <1>4, <2>1 DEF PatchTable, TableCall, TableFails
  <2>3. tableHave = table /\ table.columns = tableWant.columns /\ tableLeft = tableWant.rows
    BY <2>2 DEF CalmTable
  <2>4. /\ table' = [table EXCEPT !.description = tableWant.description]
    BY <1>0, <1>4, <2>2, <2>3 DEF PatchTable, Table
  <2>5. /\ table' \in Table /\ table'.description = tableWant.description
        /\ table'.columns = table.columns /\ table'.rows = table.rows
    BY <1>0, <2>2, <2>4 DEF Table, TableFiles
  <2>6. IsTable'
    BY <2>5, TableAssumption DEF IsTable, Table
  <2> QED BY <2>2, <2>3, <2>5, <2>6 DEF CalmTable, FieldsWritten, TableSettles
<1>5. CASE ReplaceRows
  <2>1. SUFFICES ASSUME tableCalm' PROVE CalmTable'
    BY DEF CalmTable
  <2>2. /\ tableCalm /\ tablePc' = "append" /\ tableWant' = tableWant /\ tablePc = "replace"
        /\ IsTable
    BY <1>5, <2>1 DEF ReplaceRows, TableCall, TableFails
  <2>3. FieldsWritten /\ tableLeft = tableWant.rows
    BY <2>2 DEF CalmTable
  <2>4. CASE tableLeft = <<>>
    <3>1. table' = table
      BY <1>5, <2>4 DEF ReplaceRows
    <3> QED BY <2>2, <2>3, <2>4, <3>1 DEF CalmTable, FieldsWritten, TableSettles, IsTable
  <2>5. CASE tableLeft # <<>>
    <3>1. table' = [table EXCEPT !.rows = <<Head(tableLeft)>>] /\ tableLeft' = Tail(tableLeft)
      BY <1>5, <2>2, <2>5 DEF ReplaceRows, TableCall, TableFails
    <3>2. <<Head(tableLeft)>> \o Tail(tableLeft) = tableLeft /\ <<Head(tableLeft)>> \in Seq(Rows)
      BY <1>0, <2>5, RowMoved
    <3>3. /\ table' \in Table /\ table'.rows = <<Head(tableLeft)>>
          /\ table'.description = table.description /\ table'.columns = table.columns
      BY <1>0, <2>2, <3>1, <3>2 DEF Table
    <3>4. IsTable'
      BY <3>3, TableAssumption DEF IsTable, Table
    <3> QED BY <2>2, <2>3, <3>1, <3>2, <3>3, <3>4 DEF CalmTable, FieldsWritten, TableSettles
  <2> QED BY <2>4, <2>5
<1>6. CASE AppendRows
  <2>1. SUFFICES ASSUME tableCalm' PROVE CalmTable'
    BY DEF CalmTable
  <2>2. tableCalm /\ tableWant' = tableWant /\ tablePc = "append" /\ IsTable
    BY <1>6, <2>1 DEF AppendRows, TableCall, TableFails
  <2>3. FieldsWritten /\ (tableWant.rows # <<>> => table.rows \o tableLeft = tableWant.rows)
    BY <2>2 DEF CalmTable
  <2>4. CASE tableLeft = <<>>
    <3>1. table' = table /\ tablePc' = "write"
      BY <1>6, <2>1, <2>4 DEF AppendRows, TableCall, TableFails
    <3>2. table.rows \o <<>> = table.rows
      BY <1>0, <2>2
    <3> QED BY <2>2, <2>3, <2>4, <3>1, <3>2 DEF CalmTable, FieldsWritten, TableSettles, IsTable
  <2>5. CASE tableLeft # <<>>
    <3>1. /\ table' = [table EXCEPT !.rows = Append(@, Head(tableLeft))]
          /\ tableLeft' = Tail(tableLeft) /\ tablePc' = "append"
      BY <1>6, <2>1, <2>5 DEF AppendRows, TableCall, TableFails
    <3>2. /\ Append(table.rows, Head(tableLeft)) \o Tail(tableLeft) = table.rows \o tableLeft
          /\ Append(table.rows, Head(tableLeft)) \in Seq(Rows)
      BY <1>0, <2>2, <2>5, RowMoved
    <3>3. /\ table' \in Table /\ table'.rows = Append(table.rows, Head(tableLeft))
          /\ table'.description = table.description /\ table'.columns = table.columns
      BY <1>0, <2>2, <3>1, <3>2 DEF Table
    <3>4. IsTable'
      BY <3>3, TableAssumption DEF IsTable, Table
    <3> QED BY <2>2, <2>3, <3>1, <3>2, <3>3, <3>4 DEF CalmTable, FieldsWritten, TableSettles
  <2> QED BY <2>4, <2>5
<1>7. CASE WriteTable
  <2>1. SUFFICES ASSUME tableCalm' PROVE CalmTable'
    BY DEF CalmTable
  <2>2. /\ tableCalm /\ tableFile' = TableFile(TRUE, table) /\ tablePc = "write" /\ tablePc' = "idle"
        /\ table' = table /\ tableWant' = tableWant
    BY <1>7, <2>1 DEF WriteTable
  <2>3. FieldsWritten /\ (tableWant.rows # <<>> => table.rows = tableWant.rows)
    BY <2>2 DEF CalmTable
  <2>4. tableWant = [named |-> tableWant.named, description |-> tableWant.description,
                     columns |-> tableWant.columns, rows |-> tableWant.rows]
    BY <1>0 DEF TableFiles
  <2>5. tableWant.rows # <<>> => SameAs(tableWant, table)
    BY <2>3, <2>4 DEF SameAs, TableFile, FieldsWritten
  <2> QED BY <2>2, <2>3, <2>5 DEF CalmTable, FieldsWritten, TableSettles, IsTable
<1>8. CASE UNCHANGED tableVars
  BY <1>8 DEF tableVars, tableLocals, CalmTable, FieldsWritten, TableSettles, IsTable
<1> QED BY <1>1, <1>2, <1>3, <1>4, <1>5, <1>6, <1>7, <1>8 DEF TableNext

LEMMA TableStart == TableInit => TableTypeOK /\ RowsInv /\ CalmTable
<1> SUFFICES ASSUME TableInit PROVE TableTypeOK /\ RowsInv /\ CalmTable
  OBVIOUS
<1>1. table \in Table \cup {NoTable}
  BY ListsType DEF TableInit, Table
<1>2. tableFile \in TableFiles
  <2>1. CASE IsTable
    BY <1>1, <2>1, TableFileType DEF TableInit, IsTable
  <2>2. CASE ~IsTable
    BY <2>2, ListsType DEF TableInit, TableFiles
  <2> QED BY <2>1, <2>2
<1>3. tableCalm = FALSE /\ tablePc = "idle"
  BY DEF TableInit
<1>4. <<>> \in Seq(Rows)
  OBVIOUS
<1>5. TableTypeOK
  <2>1. tableCalm \in BOOLEAN
    BY <1>3
  <2>2. {tableFile, tableWant} \subseteq TableFiles
    BY <1>2 DEF TableInit
  <2>3. {tableCommands, tableEdits, tableChanges} \subseteq Nat
    BY DEF TableInit
  <2>4. /\ tableHave \in Table \cup {NoTable} /\ tableLeft \in Seq(Rows) /\ tableBase \in Seq(Rows)
        /\ tablePc \in {"idle", "create", "patch", "replace", "append", "write"}
    BY <1>4 DEF TableInit
  <2> QED BY <1>1, <2>1, <2>2, <2>3, <2>4 DEF TableTypeOK, TableFiles
<1> QED BY <1>3, <1>5 DEF RowsInv, CalmTable

LEMMA TableInductive == TableSpec => [](TableTypeOK /\ RowsInv /\ CalmTable)
<1>1. TableTypeOK /\ RowsInv /\ CalmTable /\ [TableNext]_tableVars
        => (TableTypeOK /\ RowsInv /\ CalmTable)'
  BY TableStepType, RowsStep, CalmTableStep
<1> QED BY TableStart, <1>1, PTL DEF TableSpec

\* The table, the file and the rows under way are typed, in every run.
THEOREM TableTypeCorrect == TableSpec => []TableTypeOK
BY TableInductive, PTL

\* However the batches of a push fail, a table that nobody else writes holds the rows it had
\* or the first rows of the file.
THEOREM TableRowsNeverMixed == TableSpec => []RowsNeverMixed
BY TableInductive, RowsInvSuffices, PTL

\* After a push that succeeds undisturbed, the file equals the table, and the table is what
\* the file was, unless that had no rows.
THEOREM TablePushSettles == TableSpec => []TableSettles
<1>1. CalmTable => TableSettles
  BY DEF CalmTable, TableSettles
<1> QED BY TableInductive, <1>1, PTL

-----------------------------------------------------------------------------
(* Dashboards *)

LEMMA TileType ==
  ASSUME NEW c \in Charts, NEW d \in Boards, NEW deep \in BOOLEAN, NEW unread, NEW unasked,
         boards[d] \in Board, boards[d].place[c] # Absent
  PROVE  TileOf(c, d, deep, unread, unasked) \in Tile
<1>1. boards[d].place[c] \in Places
  BY DEF Board
<1>2. CASE ~deep \/ bodies[c] \notin Body \/ c \in unread
  BY <1>1, <1>2 DEF TileOf, Tile
<1>3. CASE ~(~deep \/ bodies[c] \notin Body \/ c \in unread)
  BY <1>1, <1>3 DEF TileOf, Tile, Body
<1> QED BY <1>2, <1>3

LEMMA ReadingType ==
  ASSUME NEW d \in Boards, NEW deep \in BOOLEAN, NEW unread, NEW unasked, boards[d] \in Board
  PROVE  Reading(d, deep, unread, unasked) \in Desired
<1>1. \A c \in ChartsOf(d) : TileOf(c, d, deep, unread, unasked) \in Tile
  BY TileType DEF ChartsOf
<1>2. boards[d].about \in Abouts /\ boards[d].access \in Accesses
  BY DEF Board
<1> QED BY <1>1, <1>2 DEF Reading, Desired

LEMMA WantsInlineType == \A x : WantsInline(x) \in BOOLEAN
BY DEF WantsInline

\* A push works on the file as it loaded it.
PushLoaded ==
  /\ dashPc # "idle" => want \in Desired /\ todo \subseteq want.tiles
  /\ dashPc \in {"charts", "fields", "refresh"} => target \in Boards

DashInv == DashTypeOK /\ PushLoaded

LEMMA ForgetInv ==
  ASSUME Forget
  PROVE  /\ PushLoaded' /\ want' = Absent /\ have' = Absent /\ dashPc' = "idle" /\ target' = None
         /\ todo' = {} /\ addedNew' = FALSE /\ allMatched' = TRUE /\ pushed' = FALSE /\ calm' = FALSE
BY DEF Forget, PushLoaded

\* The type of what a command or a push keeps for itself.
LocalsType ==
  /\ want \in Desired \cup {Absent} /\ have \in Desired \cup {Absent}
  /\ dashPc \in {"idle", "create", "charts", "fields", "refresh"}
  /\ target \in Boards \cup {None} /\ todo \subseteq Tile

FlagsType ==
  /\ addedNew \in BOOLEAN /\ allMatched \in BOOLEAN /\ pushed \in BOOLEAN /\ calm \in BOOLEAN

LEMMA ForgetType == Forget => LocalsType' /\ FlagsType'
BY DEF Forget, LocalsType, FlagsType

\* The actions of a push that leave the counters alone.
LEMMA DashCounters ==
  ASSUME {commands, edits, changes} \subseteq Nat, [DashNext]_dashVars
  PROVE  {commands, edits, changes}' \subseteq Nat
<1>1. CASE DashPull \/ PushBoard
  <2>1. commands' = commands + 1 /\ UNCHANGED <<edits, changes>>
    BY <1>1 DEF DashPull, PullBoard, PushBoard, PlanPush
  <2> QED BY <2>1
<1>2. CASE DashUi
  <2>1. changes' = changes + 1 /\ UNCHANGED <<edits, commands>>
    BY <1>2 DEF DashUi, UiEdit, UiLayout, UiAdd, UiRemove, UiMay
  <2> QED BY <2>1
<1>3. CASE EditFile
  <2>1. edits' = edits + 1 /\ UNCHANGED <<changes, commands>>
    BY <1>3 DEF EditFile
  <2> QED BY <2>1
<1>4. CASE DashStep
  BY <1>4 DEF DashStep, CreateBoard, AddChart, EditChart, SkipChart, ChartsDone, PatchFields,
              RefreshFile, GiveUp
<1>5. CASE UNCHANGED dashVars
  BY <1>5 DEF dashVars
<1> QED BY <1>1, <1>2, <1>3, <1>4, <1>5 DEF DashNext

LEMMA DashFlags ==
  ASSUME FlagsType, [DashNext]_dashVars
  PROVE  FlagsType'
<1>1. CASE DashPull
  BY <1>1, ForgetType DEF DashPull, PullBoard
<1>2. CASE PushBoard
  <2>1. ASSUME NEW found, NEW whole, whole \in BOOLEAN, PlanPush(found, whole) PROVE FlagsType'
    <3>1. CASE Forget
      BY <3>1, ForgetType
    <3>2. CASE ~Forget
      BY <2>1, <3>2, Zenon DEF PlanPush, FlagsType
    <3> QED BY <3>1, <3>2
  <2>2. \A gap : (gap = Whole) \in BOOLEAN
    OBVIOUS
  <2>3. (~IsLive(file.id)) \in BOOLEAN
    OBVIOUS
  <2> QED BY <1>2, <2>1, <2>2, <2>3 DEF PushBoard
<1>3. CASE DashStep
  <2>1. CASE Forget
    BY <2>1, ForgetType
  <2>2. CASE ~Forget
    <3>1. CASE CreateBoard \/ ChartsDone \/ PatchFields \/ GiveUp
      BY <2>2, <3>1, Zenon DEF CreateBoard, ChartsDone, PatchFields, GiveUp, Lost, FlagsType, locals
    <3>2. ASSUME NEW t \in todo, AddChart(t) \/ EditChart(t) \/ SkipChart(t) PROVE FlagsType'
      BY <2>2, <3>2, Zenon DEF AddChart, EditChart, SkipChart, Lost, FlagsType
    <3>3. CASE RefreshFile
      BY <3>3, Zenon DEF RefreshFile, FlagsType, locals
    <3> QED BY <1>3, <3>1, <3>2, <3>3 DEF DashStep
  <2> QED BY <2>1, <2>2
<1>4. CASE DashUi
  BY <1>4, Zenon DEF DashUi, UiEdit, UiLayout, UiAdd, UiRemove, UiMay, FlagsType, locals
<1>5. CASE EditFile
  BY <1>5, Zenon DEF EditFile, FlagsType, locals
<1>6. CASE UNCHANGED dashVars
  BY <1>6, Zenon DEF dashVars, FlagsType, locals
<1> QED BY <1>1, <1>2, <1>3, <1>4, <1>5, <1>6 DEF DashNext

BoardStates == Board \cup {Unborn, Absent}
BodyStates == Body \cup {Unborn, Absent}

\* A body edited in one field, and a chart placed.
LEMMA BodyEdited ==
  ASSUME NEW b \in Body, NEW title \in Titles \cup {Blank}, NEW look \in Looks \cup {Blank},
         NEW query \in Queries \cup {Blank}, NEW asked \in BOOLEAN
  PROVE  [title |-> title, look |-> look, query |-> query, asked |-> asked] \in Body
BY DEF Body

LEMMA BoardType ==
  ASSUME NEW about \in Abouts, NEW access \in Accesses, NEW place \in [Charts -> Places \cup {Absent}]
  PROVE  [about |-> about, access |-> access, place |-> place] \in Board
BY DEF Board

LEMMA BoardParts ==
  ASSUME NEW b \in Board
  PROVE  /\ b.about \in Abouts /\ b.access \in Accesses /\ b.place \in [Charts -> Places \cup {Absent}]
         /\ \A about \in Abouts : [b EXCEPT !.about = about] \in Board
         /\ \A place \in [Charts -> Places \cup {Absent}] : [b EXCEPT !.place = place] \in Board
         /\ \A c \in Charts, p \in Places \cup {Absent} : [b EXCEPT !.place[c] = p] \in Board
BY DEF Board

LEMMA EditedType ==
  ASSUME NEW t \in Tile, NEW h, NEW b \in Body
  PROVE  Edited(t, h, b) \in Body
BY DEF Edited, Tile, Body

LEMMA FreshOne ==
  ASSUME NEW resources, NEW states, NEW r \in Fresh(resources, states)
  PROVE  r \in resources /\ states[r] = Unborn
BY DEF Fresh

\* What the state between commands is made of.
StateType ==
  /\ boards \in [Boards -> BoardStates] /\ bodies \in [Charts -> BodyStates]
  /\ file \in Desired \cup {Absent}

LEMMA TypeParts ==
  DashTypeOK <=> /\ StateType /\ LocalsType /\ FlagsType /\ {commands, edits, changes} \subseteq Nat
BY DEF DashTypeOK, StateType, LocalsType, FlagsType, BoardStates, BodyStates

LEMMA BoardsStep ==
  ASSUME StateType, LocalsType, PushLoaded, [DashNext]_dashVars
  PROVE  boards' \in [Boards -> BoardStates]
<1>0. boards \in [Boards -> BoardStates]
  BY DEF StateType
<1>1. CASE CreateBoard
  <2>1. PICK d \in Boards :
          boards' = [boards EXCEPT ![d] = [about |-> want.about, access |-> want.access,
                                           place |-> [c \in Charts |-> Absent]]]
    BY <1>1, FreshOne DEF CreateBoard
  <2>2. want.about \in Abouts /\ want.access \in Accesses
    BY <1>1 DEF CreateBoard, PushLoaded, Desired
  <2>3. [about |-> want.about, access |-> want.access, place |-> [c \in Charts |-> Absent]] \in Board
    BY <2>2, BoardType
  <2> QED BY <1>0, <2>1, <2>3 DEF BoardStates
<1>2. ASSUME NEW t \in todo, AddChart(t) PROVE boards' \in [Boards -> BoardStates]
  <2>1. PICK c \in Charts : boards' = [boards EXCEPT ![target].place[c] = t.place]
    BY <1>2, FreshOne DEF AddChart
  <2>2. target \in Boards /\ boards[target] \in Board /\ t.place \in Places
    BY <1>2 DEF AddChart, IsLive, LocalsType, Tile
  <2>3. boards' = [boards EXCEPT ![target] = [boards[target] EXCEPT !.place[c] = t.place]]
    BY <1>0, <2>1, <2>2
  <2>4. [boards[target] EXCEPT !.place[c] = t.place] \in Board
    BY <2>2, BoardParts
  <2> QED BY <1>0, <2>2, <2>3, <2>4 DEF BoardStates
<1>3. CASE PatchFields
  <2>1. CASE boards' = boards
    BY <1>0, <2>1
  <2>2. CASE IsLive(target) /\ boards' = [boards EXCEPT ![target] = Patched(@)]
    <3>1. target \in Boards /\ boards[target] \in Board
      BY <2>2 DEF IsLive
    <3>2. want.about \in Abouts
      BY <1>3 DEF PatchFields, PushLoaded, Desired
    <3>3. \A c \in IdsIn(want) : (CHOOSE t \in want.tiles : t.chart = c).place \in Places
      <4>1. want.tiles \subseteq Tile
        BY <1>3 DEF PatchFields, PushLoaded, Desired
      <4>2. ASSUME NEW c \in IdsIn(want) PROVE (CHOOSE t \in want.tiles : t.chart = c) \in want.tiles
        BY DEF IdsIn
      <4> QED BY <4>1, <4>2 DEF Tile
    <3>4. WantedPlaces \in [Charts -> Places \cup {Absent}]
      BY <3>3 DEF WantedPlaces
    <3>5. PICK about \in Abouts, place \in [Charts -> Places \cup {Absent}] :
            Patched(boards[target]) = [[boards[target] EXCEPT !.about = about] EXCEPT !.place = place]
      BY <3>1, <3>2, <3>4, BoardParts DEF Patched
    <3>6. Patched(boards[target]) \in Board
      <4>1. [boards[target] EXCEPT !.about = about] \in Board
        BY <3>1, BoardParts
      <4>2. [[boards[target] EXCEPT !.about = about] EXCEPT !.place = place] \in Board
        BY <4>1 DEF Board
      <4> QED BY <3>5, <4>2
    <3> QED BY <1>0, <2>2, <3>1, <3>6 DEF BoardStates
  <2> QED BY <1>3, <2>1, <2>2 DEF PatchFields
<1>4. CASE UiLayout
  <2>1. PICK d \in Boards :
          /\ boards[d] \in Board
          /\ \/ \E about \in Abouts : boards' = [boards EXCEPT ![d].about = about]
             \/ \E c \in ChartsOf(d), place \in Places : boards' = [boards EXCEPT ![d].place[c] = place]
    BY <1>4 DEF UiLayout
  <2>2. PICK b \in Board : boards' = [boards EXCEPT ![d] = b]
    <3>1. CASE \E about \in Abouts : boards' = [boards EXCEPT ![d].about = about]
      <4>1. PICK about \in Abouts : boards' = [boards EXCEPT ![d] = [boards[d] EXCEPT !.about = about]]
        BY <1>0, <3>1
      <4> QED BY <2>1, <4>1, BoardParts
    <3>2. CASE \E c \in ChartsOf(d), place \in Places : boards' = [boards EXCEPT ![d].place[c] = place]
      <4>1. PICK c \in Charts, place \in Places :
              boards' = [boards EXCEPT ![d] = [boards[d] EXCEPT !.place[c] = place]]
        BY <1>0, <3>2 DEF ChartsOf
      <4> QED BY <2>1, <4>1, BoardParts
    <3> QED BY <2>1, <3>1, <3>2
  <2> QED BY <1>0, <2>2 DEF BoardStates
<1>5. CASE UiAdd
  <2>1. PICK d \in Boards, c \in Charts, place \in Places :
          boards[d] \in Board /\ boards' = [boards EXCEPT ![d].place[c] = place]
    BY <1>5, FreshOne DEF UiAdd
  <2>2. boards' = [boards EXCEPT ![d] = [boards[d] EXCEPT !.place[c] = place]]
    BY <1>0, <2>1
  <2>3. [boards[d] EXCEPT !.place[c] = place] \in Board
    BY <2>1, BoardParts
  <2> QED BY <1>0, <2>2, <2>3 DEF BoardStates
<1>6. CASE UiRemove
  <2>1. PICK d \in Boards :
          /\ boards[d] \in Board
          /\ \/ \E c \in Charts : boards' = [boards EXCEPT ![d].place[c] = Absent]
             \/ boards' = [boards EXCEPT ![d] = Absent]
    BY <1>6 DEF UiRemove, ChartsOf
  <2>2. CASE boards' = [boards EXCEPT ![d] = Absent]
    BY <1>0, <2>2 DEF BoardStates
  <2>3. CASE \E c \in Charts : boards' = [boards EXCEPT ![d].place[c] = Absent]
    <3>1. PICK c \in Charts : boards' = [boards EXCEPT ![d] = [boards[d] EXCEPT !.place[c] = Absent]]
      BY <1>0, <2>3
    <3>2. [boards[d] EXCEPT !.place[c] = Absent] \in Board
      BY <2>1, BoardParts
    <3> QED BY <1>0, <3>1, <3>2 DEF BoardStates
  <2> QED BY <2>1, <2>2, <2>3
<1>7. \/ boards' = boards \/ CreateBoard \/ (\E t \in todo : AddChart(t)) \/ PatchFields
      \/ UiLayout \/ UiAdd \/ UiRemove
  BY DEF DashNext, DashPull, PullBoard, PushBoard, PlanPush, DashStep, EditChart, SkipChart,
         ChartsDone, RefreshFile, GiveUp, DashUi, UiEdit, EditFile, dashVars
<1> QED BY <1>0, <1>1, <1>2, <1>3, <1>4, <1>5, <1>6, <1>7

LEMMA BodiesStep ==
  ASSUME StateType, LocalsType, [DashNext]_dashVars
  PROVE  bodies' \in [Charts -> BodyStates]
<1>0. bodies \in [Charts -> BodyStates]
  BY DEF StateType
<1>1. ASSUME NEW t \in todo, AddChart(t) PROVE bodies' \in [Charts -> BodyStates]
  <2>1. PICK c \in Charts :
          bodies' = [bodies EXCEPT ![c] = [title |-> t.title, look |-> t.look, query |-> t.query,
                                           asked |-> t.query # Blank]]
    BY <1>1, FreshOne DEF AddChart
  <2>2. t \in Tile
    BY DEF LocalsType
  <2>3. [title |-> t.title, look |-> t.look, query |-> t.query, asked |-> t.query # Blank] \in Body
    BY <2>2 DEF Tile, Body
  <2> QED BY <1>0, <2>1, <2>3 DEF BodyStates
<1>2. ASSUME NEW t \in todo, EditChart(t) PROVE bodies' \in [Charts -> BodyStates]
  <2>1. PICK h : \/ bodies' = bodies
                 \/ bodies[t.chart] \in Body /\ bodies' = [bodies EXCEPT ![t.chart] = Edited(t, h, @)]
    BY <1>2 DEF EditChart
  <2>2. CASE bodies' = bodies
    BY <1>0, <2>2
  <2>3. CASE bodies[t.chart] \in Body /\ bodies' = [bodies EXCEPT ![t.chart] = Edited(t, h, @)]
    <3>1. t \in Tile
      BY DEF LocalsType
    <3>2. Edited(t, h, bodies[t.chart]) \in Body
      BY <2>3, <3>1, EditedType
    <3> QED BY <1>0, <2>3, <3>2 DEF BodyStates
  <2> QED BY <2>1, <2>2, <2>3
<1>3. CASE UiEdit
  <2>1. PICK c \in Charts :
          /\ bodies[c] \in Body
          /\ \/ \E title \in Titles : bodies' = [bodies EXCEPT ![c].title = title]
             \/ \E query \in Queries : bodies' = [bodies EXCEPT ![c].query = query, ![c].asked = TRUE]
    BY <1>3 DEF UiEdit
  <2>2. PICK b \in Body : bodies' = [bodies EXCEPT ![c] = b]
    <3>1. CASE \E title \in Titles : bodies' = [bodies EXCEPT ![c].title = title]
      <4>1. PICK title \in Titles : bodies' = [bodies EXCEPT ![c] = [bodies[c] EXCEPT !.title = title]]
        BY <1>0, <3>1
      <4>2. [bodies[c] EXCEPT !.title = title] \in Body
        BY <2>1 DEF Body
      <4> QED BY <4>1, <4>2
    <3>2. CASE \E query \in Queries : bodies' = [bodies EXCEPT ![c].query = query, ![c].asked = TRUE]
      <4>1. PICK query \in Queries :
              bodies' = [bodies EXCEPT ![c] = [bodies[c] EXCEPT !.query = query, !.asked = TRUE]]
        BY <1>0, <3>2
      <4>2. [bodies[c] EXCEPT !.query = query, !.asked = TRUE] \in Body
        BY <2>1 DEF Body
      <4> QED BY <4>1, <4>2
    <3> QED BY <2>1, <3>1, <3>2
  <2> QED BY <1>0, <2>2 DEF BodyStates
<1>4. CASE UiAdd
  <2>1. PICK c \in Charts, title \in Titles :
          bodies' = [bodies EXCEPT ![c] = [title |-> title, look |-> Blank, query |-> Blank, asked |-> FALSE]]
    BY <1>4, FreshOne DEF UiAdd
  <2>2. [title |-> title, look |-> Blank, query |-> Blank, asked |-> FALSE] \in Body
    BY DEF Body
  <2> QED BY <1>0, <2>1, <2>2 DEF BodyStates
<1>5. CASE UiRemove
  <2>1. \/ \E c : bodies' = [bodies EXCEPT ![c] = Absent]
        \/ \E d : bodies' = [c \in Charts |-> IF c \in ChartsOf(d) THEN Absent ELSE bodies[c]]
    BY <1>5 DEF UiRemove
  <2> QED BY <1>0, <2>1 DEF BodyStates
<1>6. \/ bodies' = bodies \/ (\E t \in todo : AddChart(t) \/ EditChart(t))
      \/ UiEdit \/ UiAdd \/ UiRemove
  BY DEF DashNext, DashPull, PullBoard, PushBoard, PlanPush, DashStep, CreateBoard, SkipChart,
         ChartsDone, PatchFields, RefreshFile, GiveUp, DashUi, UiLayout, EditFile, dashVars
<1> QED BY <1>0, <1>1, <1>2, <1>3, <1>4, <1>5, <1>6

LEMMA FileStep ==
  ASSUME StateType, LocalsType, PushLoaded, [DashNext]_dashVars
  PROVE  file' \in Desired \cup {Absent}
<1>0. file \in Desired \cup {Absent}
  BY DEF StateType
<1>1. CASE DashPull
  <2>1. PICK d \in Boards, deep \in BOOLEAN :
          boards[d] \in Board /\ \E gap \in Gaps(d) : file' = Reading(d, deep, gap[1], gap[2])
    BY <1>1 DEF DashPull, PullBoard
  <2> QED BY <2>1, ReadingType
<1>2. CASE RefreshFile
  <2>1. PICK gap \in Gaps(target) : file' = Reading(target, WantsInline(want), gap[1], gap[2])
    BY <1>2 DEF RefreshFile, Refreshed
  <2>2. target \in Boards /\ boards[target] \in Board
    BY <1>2 DEF RefreshFile, IsLive
  <2> QED BY <2>1, <2>2, ReadingType, WantsInlineType
<1>3. CASE EditFile
  <2>1. file \in Desired
    BY <1>0, <1>3 DEF EditFile
  <2>2. /\ file.id \in Boards \cup {None} /\ file.about \in Abouts /\ file.access \in Accesses
        /\ file.tiles \subseteq Tile
    BY <2>1 DEF Desired
  <2>3. ASSUME NEW tiles \in SUBSET Tile PROVE [file EXCEPT !.tiles = tiles] \in Desired
    BY <2>1 DEF Desired
  <2>4. CASE \E about \in Abouts : file' = [file EXCEPT !.about = about]
    BY <2>1, <2>4 DEF Desired
  <2>5. CASE \E access \in Accesses : file' = [file EXCEPT !.access = access]
    BY <2>1, <2>5 DEF Desired
  <2>6. CASE \E t \in file.tiles, s \in UNION {Rewritten(x) : x \in file.tiles} :
               s \in Rewritten(t) /\ file' = [file EXCEPT !.tiles = (@ \ {t}) \cup {s}]
    <3>1. PICK t \in file.tiles, s \in UNION {Rewritten(x) : x \in file.tiles} :
            s \in Rewritten(t) /\ file' = [file EXCEPT !.tiles = (file.tiles \ {t}) \cup {s}]
      BY <2>1, <2>6 DEF Desired
    <3>2. s \in Tile
      BY <2>2, <3>1 DEF Rewritten, Tile
    <3> QED BY <2>2, <2>3, <3>1, <3>2
  <2>7. CASE \E t \in file.tiles : file' = [file EXCEPT !.tiles = @ \ {t}]
    <3>1. PICK t \in file.tiles : file' = [file EXCEPT !.tiles = file.tiles \ {t}]
      BY <2>1, <2>7 DEF Desired
    <3> QED BY <2>2, <2>3, <3>1
  <2>8. CASE \E title \in Titles, query \in Queries, place \in Places :
               file' = [file EXCEPT !.tiles = @ \cup
                          {[chart |-> None, title |-> title, look |-> Blank, query |-> query,
                            asked |-> FALSE, place |-> place]}]
    <3>1. PICK title \in Titles, query \in Queries, place \in Places :
            file' = [file EXCEPT !.tiles = file.tiles \cup
                       {[chart |-> None, title |-> title, look |-> Blank, query |-> query,
                         asked |-> FALSE, place |-> place]}]
      BY <2>1, <2>8 DEF Desired
    <3>2. [chart |-> None, title |-> title, look |-> Blank, query |-> query,
           asked |-> FALSE, place |-> place] \in Tile
      BY DEF Tile
    <3> QED BY <2>2, <2>3, <3>1, <3>2
  <2> QED BY <1>3, <2>4, <2>5, <2>6, <2>7, <2>8 DEF EditFile
<1>4. file' = file \/ DashPull \/ RefreshFile \/ EditFile
  BY DEF DashNext, PushBoard, PlanPush, DashStep, CreateBoard, AddChart, EditChart, SkipChart,
         ChartsDone, PatchFields, GiveUp, DashUi, UiEdit, UiLayout, UiAdd, UiRemove, UiMay, dashVars
<1> QED BY <1>0, <1>1, <1>2, <1>3, <1>4

LEMMA LocalsStep ==
  ASSUME StateType, LocalsType, PushLoaded, [DashNext]_dashVars
  PROVE  LocalsType' /\ PushLoaded'
<1>1. CASE Forget
  BY <1>1, ForgetType, ForgetInv
<1>2. CASE ~Forget
  <2>1. CASE PushBoard
    <3>1. ASSUME NEW found, NEW whole, PlanPush(found, whole), file # Absent,
                 found \in Desired \cup {Absent}, found # Absent => file.id \in Boards
          PROVE  LocalsType' /\ PushLoaded'
      <4>1. file \in Desired /\ file.tiles \subseteq Tile
        BY <3>1 DEF StateType, Desired
      <4>2. /\ want' = file /\ have' = found /\ todo' = file.tiles
            /\ target' = IF found = Absent THEN None ELSE file.id
            /\ dashPc' = IF found = Absent THEN "create" ELSE "charts"
        BY <1>2, <3>1 DEF PlanPush
      <4> QED BY <3>1, <4>1, <4>2 DEF LocalsType, PushLoaded
    <3>2. ASSUME NEW gap, IsLive(file.id) PROVE Reading(file.id, WantsInline(file), gap[1], gap[2]) \in Desired
      BY <3>2, ReadingType, WantsInlineType DEF IsLive
    <3> QED BY <2>1, <3>1, <3>2 DEF PushBoard, IsLive
  <2>2. CASE CreateBoard
    <3>1. PICK d \in Boards : dashPc' = "charts" /\ target' = d /\ UNCHANGED <<want, have, todo>>
      BY <1>2, <2>2, FreshOne DEF CreateBoard, Lost
    <3> QED BY <2>2, <3>1 DEF CreateBoard, LocalsType, PushLoaded
  <2>3. ASSUME NEW t \in todo, AddChart(t) \/ EditChart(t) \/ SkipChart(t)
        PROVE  LocalsType' /\ PushLoaded'
    <3>1. UNCHANGED <<dashPc, want, have, target>> /\ todo' = todo \ {t}
      BY <1>2, <2>3 DEF AddChart, EditChart, SkipChart, Lost
    <3> QED BY <3>1 DEF LocalsType, PushLoaded
  <2>4. CASE ChartsDone
    BY <2>4 DEF ChartsDone, LocalsType, PushLoaded, locals
  <2>5. CASE PatchFields
    <3>1. dashPc' = "refresh" /\ UNCHANGED <<want, have, target, todo>> /\ dashPc = "fields"
      BY <1>2, <2>5 DEF PatchFields, locals, Lost
    <3> QED BY <3>1 DEF LocalsType, PushLoaded
  <2>6. CASE RefreshFile
    BY <2>6 DEF RefreshFile, LocalsType, PushLoaded, locals
  <2>7. CASE DashUi
    BY <2>7 DEF DashUi, UiEdit, UiLayout, UiAdd, UiRemove, UiMay, LocalsType, PushLoaded, locals
  <2>8. CASE EditFile
    BY <2>8 DEF EditFile, LocalsType, PushLoaded, locals
  <2>9. CASE UNCHANGED dashVars
    BY <2>9 DEF dashVars, LocalsType, PushLoaded, locals
  <2>10. ~DashPull /\ ~GiveUp
    BY <1>2 DEF DashPull, PullBoard, GiveUp
  <2> QED BY <2>1, <2>2, <2>3, <2>4, <2>5, <2>6, <2>7, <2>8, <2>9, <2>10 DEF DashNext, DashStep
<1> QED BY <1>1, <1>2

LEMMA DashStart == DashInit => DashInv
<1> SUFFICES ASSUME DashInit PROVE DashInv
  OBVIOUS
<1>1. boards \in [Boards -> BoardStates] /\ bodies \in [Charts -> BodyStates]
  BY DEF DashInit, BoardStates, BodyStates
<1>2. file \in Desired \cup {Absent}
  <2>1. CASE file = Absent
    BY <2>1
  <2>2. CASE file # Absent
    <3>1. PICK d \in Boards, deep \in BOOLEAN :
            IsLive(d) /\ \E gap \in Gaps(d) : file = Reading(d, deep, gap[1], gap[2])
      BY <2>2 DEF DashInit
    <3> QED BY <3>1, ReadingType DEF IsLive
  <2> QED BY <2>1, <2>2
<1>3. FlagsType
  BY DEF DashInit, FlagsType
<1>4. LocalsType /\ PushLoaded
  BY DEF DashInit, LocalsType, PushLoaded
<1>5. {commands, edits, changes} \subseteq Nat
  BY DEF DashInit
<1> QED BY <1>1, <1>2, <1>3, <1>4, <1>5, TypeParts DEF DashInv, StateType

LEMMA DashInductive == DashSpec => []DashInv
<1>1. DashInv /\ [DashNext]_dashVars => DashInv'
  <2> SUFFICES ASSUME DashInv, [DashNext]_dashVars PROVE DashInv'
    OBVIOUS
  <2>1. StateType /\ LocalsType /\ FlagsType /\ {commands, edits, changes} \subseteq Nat /\ PushLoaded
    BY TypeParts DEF DashInv
  <2>2. StateType' /\ LocalsType' /\ FlagsType' /\ PushLoaded'
    BY <2>1, BoardsStep, BodiesStep, FileStep, LocalsStep, DashFlags DEF StateType
  <2>3. {commands, edits, changes}' \subseteq Nat
    BY <2>1, DashCounters
  <2>4. DashTypeOK'
    BY <2>2, <2>3 DEF DashTypeOK, StateType, LocalsType, FlagsType, BoardStates, BodyStates
  <2> QED BY <2>2, <2>4 DEF DashInv
<1> QED BY DashStart, <1>1, PTL DEF DashSpec

\* The dashboards, their charts, the file and the push's own state are typed, in every run.
THEOREM DashTypeCorrect == DashSpec => []DashTypeOK
BY DashInductive, PTL DEF DashInv

\* Nobody but a push moves without counting a change, and a push has few ways to.
LEMMA PushMoves ==
  ASSUME DashTypeOK, [DashNext]_dashVars, changes' = changes
  PROVE  /\ bodies' = bodies \/ \E t \in todo : AddChart(t) \/ EditChart(t)
         /\ boards' = boards \/ CreateBoard \/ (\E t \in todo : AddChart(t)) \/ PatchFields
<1>1. ~DashUi
  <2>1. changes \in Nat
    BY DEF DashTypeOK
  <2>2. DashUi => changes' = changes + 1
    BY DEF DashUi, UiEdit, UiLayout, UiAdd, UiRemove, UiMay
  <2> QED BY <2>1, <2>2
<1> QED BY <1>1 DEF DashNext, DashPull, PullBoard, PushBoard, PlanPush, DashStep, CreateBoard,
              EditChart, SkipChart, ChartsDone, PatchFields, RefreshFile, GiveUp, EditFile, dashVars

\* No step of a push takes a chart the plan saw off its dashboard.
THEOREM DashNoChartDropped == DashSpec => NoChartDropped
<1>1. DashInv /\ [DashNext]_dashVars
        => [changes' = changes /\ have # Absent =>
              \A d \in Boards, c \in IdsIn(have) :
                boards[d] \in Board /\ boards[d].place[c] # Absent =>
                  boards'[d] \in Board /\ boards'[d].place[c] # Absent]_dashVars
  <2> SUFFICES ASSUME DashInv, [DashNext]_dashVars, changes' = changes, have # Absent,
                      NEW d \in Boards, NEW c \in IdsIn(have),
                      boards[d] \in Board, boards[d].place[c] # Absent
               PROVE  boards'[d] \in Board /\ boards'[d].place[c] # Absent
    OBVIOUS
  <2>0. /\ DashTypeOK /\ boards \in [Boards -> BoardStates] /\ boards' \in [Boards -> BoardStates]
        /\ have.tiles \subseteq Tile
    BY TypeParts, BoardsStep DEF DashInv, StateType, LocalsType, Desired
  <2>1. c \in Charts
    BY <2>0 DEF IdsIn, Tile
  <2>2. CASE boards' = boards
    BY <2>2
  <2>3. CASE CreateBoard
    <3>1. PICK e \in Boards : boards[e] = Unborn /\ boards' = [boards EXCEPT ![e] =
                       [about |-> want.about, access |-> want.access,
                        place |-> [x \in Charts |-> Absent]]]
      BY <2>3, FreshOne DEF CreateBoard
    <3>2. e # d
      BY <3>1, NothingAssumption
    <3> QED BY <2>0, <3>1, <3>2
  <2>4. ASSUME NEW t \in todo, AddChart(t) PROVE boards'[d] \in Board /\ boards'[d].place[c] # Absent
    <3>1. PICK x \in Charts : boards' = [boards EXCEPT ![target].place[x] = t.place]
      BY <2>4, FreshOne DEF AddChart
    <3>2. target \in Boards /\ boards[target] \in Board /\ t.place \in Places
      BY <2>0, <2>4 DEF AddChart, IsLive, DashTypeOK, Tile
    <3>3. boards' = [boards EXCEPT ![target] = [boards[target] EXCEPT !.place[x] = t.place]]
      BY <2>0, <3>1, <3>2
    <3>4. CASE d # target
      BY <2>0, <3>3, <3>4
    <3>5. CASE d = target
      <4>1. boards'[d] = [boards[d] EXCEPT !.place[x] = t.place]
        BY <2>0, <3>3, <3>5
      <4>2. boards'[d] \in Board
        BY <3>2, <4>1, BoardParts
      <4>3. boards'[d].place[c] = IF c = x THEN t.place ELSE boards[d].place[c]
        BY <2>1, <4>1 DEF Board
      <4>4. Absent \notin Places
        BY DashAssumption
      <4> QED BY <3>2, <4>2, <4>3, <4>4
    <3> QED BY <3>4, <3>5
  <2>5. CASE PatchFields /\ boards' # boards
    <3>1. IsLive(target) /\ boards' = [boards EXCEPT ![target] = Patched(@)] /\ dashPc = "fields"
      BY <2>5 DEF PatchFields
    <3>2. CASE d # target
      BY <2>0, <3>1, <3>2
    <3>3. CASE d = target
      <4>1. boards'[d] = Patched(boards[d])
        BY <2>0, <3>1, <3>3
      <4>2. boards'[d].place = IF SameMembership /\ PlacesDiffer THEN WantedPlaces ELSE boards[d].place
        BY <4>1 DEF Patched, Board
      <4>3. boards'[d] \in Board
        <5>1. boards'[d] \in BoardStates
          BY <2>0
        <5>2. boards'[d] = [about |-> boards'[d].about, access |-> boards'[d].access, place |-> boards'[d].place]
          BY <4>1 DEF Patched, Board
        <5>3. boards'[d].about \in Abouts /\ boards'[d].access \in Accesses
          <6>1. want.about \in Abouts
            BY <3>1 DEF DashInv, PushLoaded, Desired
          <6> QED BY <4>1, <6>1 DEF Patched, Board
        <5>4. boards'[d].place \in [Charts -> Places \cup {Absent}]
          <6>1. \A x \in IdsIn(want) : (CHOOSE t \in want.tiles : t.chart = x).place \in Places
            <7>1. want.tiles \subseteq Tile
              BY <3>1 DEF DashInv, PushLoaded, Desired
            <7> QED BY <7>1 DEF IdsIn, Tile
          <6>2. WantedPlaces \in [Charts -> Places \cup {Absent}]
            BY <6>1 DEF WantedPlaces
          <6>3. boards[d].place \in [Charts -> Places \cup {Absent}]
            BY BoardParts
          <6> QED BY <4>2, <6>2, <6>3
        <5> QED BY <5>2, <5>3, <5>4, BoardType
      <4>4. CASE SameMembership
        <5>1. c \in IdsIn(want)
          BY <4>4 DEF SameMembership
        <5>2. PICK t : t \in want.tiles /\ t.chart = c /\ t = CHOOSE u \in want.tiles : u.chart = c
          BY <5>1 DEF IdsIn
        <5>3. WantedPlaces[c] = t.place
          BY <2>1, <5>1, <5>2 DEF WantedPlaces
        <5>4. t.place \in Places
          BY <3>1, <5>2 DEF DashInv, PushLoaded, Desired, Tile
        <5>5. WantedPlaces[c] # Absent
          BY <5>3, <5>4, DashAssumption
        <5> QED BY <4>2, <4>3, <5>5
      <4>5. CASE ~SameMembership
        BY <4>2, <4>3, <4>5
      <4> QED BY <4>4, <4>5
    <3> QED BY <3>2, <3>3
  <2> QED BY <2>0, <2>2, <2>3, <2>4, <2>5, PushMoves
<1> QED BY DashInductive, <1>1, PTL DEF DashSpec, NoChartDropped

\* A push changes only what the file and the listing tell apart, and to what the file says.
THEOREM DashOnlyShown == DashSpec => OnlyShownChanges
<1> DEFINE FieldsShown ==
      \A c \in Charts : bodies[c] \in Body /\ bodies'[c] # bodies[c] =>
        \E t \in want.tiles, h \in have.tiles :
          /\ t.chart = c /\ h.chart = c
          /\ \A f \in {"title", "look", "query"} :
               bodies'[c][f] # bodies[c][f] => bodies'[c][f] = t[f] /\ t[f] # h[f]
    AboutShown ==
      \A d \in Boards : boards[d] \in Board /\ boards'[d] # boards[d] =>
        /\ boards'[d].about # boards[d].about =>
             boards'[d].about = want.about /\ want.about # have.about
<1>1. ASSUME DashInv, [DashNext]_dashVars, changes' = changes PROVE FieldsShown
  <2> SUFFICES ASSUME NEW c \in Charts, bodies[c] \in Body, bodies'[c] # bodies[c]
               PROVE  \E t \in want.tiles, h \in have.tiles :
                        /\ t.chart = c /\ h.chart = c
                        /\ \A f \in {"title", "look", "query"} :
                             bodies'[c][f] # bodies[c][f] => bodies'[c][f] = t[f] /\ t[f] # h[f]
    OBVIOUS
  <2>0. DashTypeOK /\ bodies \in [Charts -> BodyStates]
    BY <1>1, TypeParts DEF DashInv, StateType
  <2>1. PICK t \in todo : AddChart(t) \/ EditChart(t)
    BY <1>1, <2>0, PushMoves
  <2>2. ASSUME AddChart(t) PROVE FALSE
    <3>1. PICK x \in Fresh(Charts, bodies) : bodies' = [bodies EXCEPT ![x] =
                       [title |-> t.title, look |-> t.look, query |-> t.query,
                        asked |-> t.query # Blank]]
      BY <2>2 DEF AddChart
    <3>2. x \in Charts /\ bodies[x] = Unborn
      BY FreshOne
    <3>3. x = c
      BY <2>0, <3>1, <3>2
    <3> QED BY <3>2, <3>3, NothingAssumption
  <2>3. PICK h \in have.tiles : h.chart = t.chart /\ bodies' = [bodies EXCEPT ![t.chart] = Edited(t, h, @)]
    BY <2>1, <2>2 DEF EditChart
  <2>4. c = t.chart /\ bodies'[c] = Edited(t, h, bodies[c])
    BY <2>0, <2>3
  <2>5. t \in want.tiles
    BY <1>1, <2>1, <2>2 DEF DashInv, PushLoaded, EditChart
  <2>6. ASSUME NEW f \in {"title", "look", "query"}, bodies'[c][f] # bodies[c][f]
        PROVE  bodies'[c][f] = t[f] /\ t[f] # h[f]
    <3>1. bodies'[c] = [title |-> IF t.title # h.title THEN t.title ELSE bodies[c].title,
                        look |-> IF t.look # Blank /\ t.look # h.look THEN t.look ELSE bodies[c].look,
                        query |-> IF t.query # h.query /\ t.asked THEN t.query ELSE bodies[c].query,
                        asked |-> bodies[c].asked]
      BY <2>4 DEF Edited, Body
    <3>2. CASE f = "title"
      BY <2>6, <3>1, <3>2
    <3>3. CASE f = "look"
      BY <2>6, <3>1, <3>3
    <3>4. CASE f = "query"
      BY <2>6, <3>1, <3>4
    <3> QED BY <2>6, <3>2, <3>3, <3>4
  <2> QED BY <2>3, <2>4, <2>5, <2>6
<1>2. ASSUME DashInv, [DashNext]_dashVars, changes' = changes PROVE AboutShown
  <2> SUFFICES ASSUME NEW d \in Boards, boards[d] \in Board, boards'[d].about # boards[d].about
               PROVE  boards'[d].about = want.about /\ want.about # have.about
    OBVIOUS
  <2>0. DashTypeOK /\ boards \in [Boards -> BoardStates]
    BY <1>2, TypeParts DEF DashInv, StateType
  <2>1. ASSUME CreateBoard PROVE FALSE
    <3>1. PICK e \in Fresh(Boards, boards) : boards' = [boards EXCEPT ![e] =
                       [about |-> want.about, access |-> want.access,
                        place |-> [x \in Charts |-> Absent]]]
      BY <2>1 DEF CreateBoard
    <3>2. e \in Boards /\ boards[e] = Unborn
      BY FreshOne
    <3>3. e # d
      BY <3>2, NothingAssumption
    <3> QED BY <2>0, <3>1, <3>2, <3>3
  <2>2. ASSUME NEW t \in todo, AddChart(t) PROVE FALSE
    <3>1. PICK x \in Charts : boards' = [boards EXCEPT ![target].place[x] = t.place]
      BY <2>2, FreshOne DEF AddChart
    <3>2. boards'[d].about = boards[d].about
      BY <2>0, <3>1 DEF Board
    <3> QED BY <3>2
  <2>3. PatchFields /\ boards' = [boards EXCEPT ![target] = Patched(@)]
    BY <1>2, <2>0, <2>1, <2>2, PushMoves DEF PatchFields
  <2>4. boards'[d] = Patched(boards[d])
    BY <2>0, <2>3
  <2> QED BY <2>4 DEF Patched, Board
<1>3. DashInv /\ [DashNext]_dashVars => [changes' = changes => FieldsShown /\ AboutShown]_dashVars
  BY <1>1, <1>2
<1> QED BY DashInductive, <1>3, PTL DEF DashSpec, OnlyShownChanges

-----------------------------------------------------------------------------
(* Dashboards: a push that nobody disturbs *)

\* What a reading of a dashboard shows.
LEMMA ReadingParts ==
  ASSUME NEW d \in Boards, NEW deep \in BOOLEAN, NEW unread, NEW unasked, boards[d] \in Board,
         NEW r, r = Reading(d, deep, unread, unasked)
  PROVE  /\ r \in Desired /\ r # Absent /\ r.id = d /\ r.about = boards[d].about
         /\ IdsIn(r) = ChartsOf(d)
         /\ \A t \in r.tiles : /\ t.chart \in ChartsOf(d) /\ t.chart \in Charts
                               /\ t = TileOf(t.chart, d, deep, unread, unasked)
                               /\ t.place = boards[d].place[t.chart]
         /\ \A s, t \in r.tiles : s.chart = t.chart => s = t
<1>1. r \in Desired /\ r # Absent
  BY ReadingType, NothingAssumption
<1>2. /\ r.id = d /\ r.about = boards[d].about
      /\ r.tiles = {TileOf(c, d, deep, unread, unasked) : c \in ChartsOf(d)}
  BY DEF Reading
<1>3. \A c \in ChartsOf(d) : /\ TileOf(c, d, deep, unread, unasked).chart = c
                             /\ TileOf(c, d, deep, unread, unasked).place = boards[d].place[c]
  BY DEF TileOf
<1>4. None \notin ChartsOf(d) /\ ChartsOf(d) \subseteq Charts
  BY DashAssumption DEF ChartsOf
<1>5. \A t \in r.tiles : /\ t.chart \in ChartsOf(d) /\ t.chart \in Charts
                         /\ t = TileOf(t.chart, d, deep, unread, unasked)
                         /\ t.place = boards[d].place[t.chart]
  BY <1>2, <1>3, <1>4
<1>6. \A s, t \in r.tiles : s.chart = t.chart => s = t
  BY <1>5
<1>7. IdsIn(r) = ChartsOf(d)
  <2>1. \A c \in ChartsOf(d) : TileOf(c, d, deep, unread, unasked) \in r.tiles
    BY <1>2
  <2>2. \A c \in IdsIn(r) : \E t \in r.tiles : c = t.chart
    BY DEF IdsIn
  <2>3. \A t \in r.tiles : t.chart # None => t.chart \in IdsIn(r)
    BY DEF IdsIn
  <2>4. IdsIn(r) \subseteq ChartsOf(d)
    BY <1>5, <2>2
  <2>5. \A c \in ChartsOf(d) : c # None
    BY <1>4
  <2>6. ChartsOf(d) \subseteq IdsIn(r)
    BY <1>3, <2>1, <2>3, <2>5
  <2> QED BY <2>4, <2>6
<1> QED BY <1>1, <1>2, <1>5, <1>6, <1>7

LEMMA IdsType ==
  ASSUME NEW x \in Desired
  PROVE  /\ IdsIn(x) \subseteq Charts /\ None \notin IdsIn(x) /\ x.tiles \subseteq Tile
         /\ \A t \in x.tiles : t.chart # None => t.chart \in IdsIn(x)
BY DEF Desired, IdsIn, Tile

\* A chart that was made stays made, live or deleted.
LEMMA BornStays ==
  ASSUME StateType, LocalsType, [DashNext]_dashVars
  PROVE  \A c \in Charts : bodies[c] # Unborn => bodies'[c] # Unborn
<1>0. bodies \in [Charts -> BodyStates] /\ bodies' \in [Charts -> BodyStates]
  BY BodiesStep DEF StateType
<1> SUFFICES ASSUME NEW c \in Charts, bodies[c] # Unborn, bodies'[c] # bodies[c]
             PROVE  bodies'[c] # Unborn
  OBVIOUS
<1>1. ASSUME NEW t \in todo, AddChart(t) PROVE bodies'[c] # Unborn
  <2>1. PICK x \in Charts : bodies[x] = Unborn /\
          bodies' = [bodies EXCEPT ![x] = [title |-> t.title, look |-> t.look, query |-> t.query,
                                           asked |-> t.query # Blank]]
    BY <1>1, FreshOne DEF AddChart
  <2> QED BY <1>0, <2>1
<1>2. ASSUME NEW t \in todo, EditChart(t) PROVE bodies'[c] # Unborn
  <2>1. PICK h : bodies[t.chart] \in Body /\ bodies' = [bodies EXCEPT ![t.chart] = Edited(t, h, @)]
    BY <1>2 DEF EditChart
  <2>2. Edited(t, h, bodies[t.chart]) \in Body
    BY <2>1, EditedType DEF LocalsType
  <2> QED BY <1>0, <2>1, <2>2, NothingAssumption
<1>3. CASE UiEdit
  <2>1. PICK x \in Charts :
          /\ bodies[x] \in Body
          /\ \/ \E title \in Titles : bodies' = [bodies EXCEPT ![x].title = title]
             \/ \E query \in Queries : bodies' = [bodies EXCEPT ![x].query = query, ![x].asked = TRUE]
    BY <1>3 DEF UiEdit
  <2>2. bodies'[x] \in Body
    <3>1. CASE \E title \in Titles : bodies' = [bodies EXCEPT ![x].title = title]
      BY <1>0, <2>1, <3>1 DEF Body
    <3>2. CASE \E query \in Queries : bodies' = [bodies EXCEPT ![x].query = query, ![x].asked = TRUE]
      <4>1. PICK query \in Queries :
              bodies' = [bodies EXCEPT ![x] = [bodies[x] EXCEPT !.query = query, !.asked = TRUE]]
        BY <1>0, <3>2
      <4>2. [bodies[x] EXCEPT !.query = query, !.asked = TRUE] \in Body
        BY <2>1 DEF Body
      <4> QED BY <1>0, <4>1, <4>2
    <3> QED BY <2>1, <3>1, <3>2
  <2>3. c = x
    BY <1>0, <2>1
  <2> QED BY <2>2, <2>3, NothingAssumption
<1>4. CASE UiAdd
  <2>1. PICK x \in Charts, title \in Titles : bodies[x] = Unborn /\
          bodies' = [bodies EXCEPT ![x] = [title |-> title, look |-> Blank, query |-> Blank, asked |-> FALSE]]
    BY <1>4, FreshOne DEF UiAdd
  <2> QED BY <1>0, <2>1
<1>5. CASE UiRemove
  <2>1. \/ \E x : bodies' = [bodies EXCEPT ![x] = Absent]
        \/ \E d : bodies' = [x \in Charts |-> IF x \in ChartsOf(d) THEN Absent ELSE bodies[x]]
    BY <1>5 DEF UiRemove
  <2>2. bodies'[c] = Absent
    BY <1>0, <2>1
  <2> QED BY <2>2, NothingAssumption
<1>6. \/ bodies' = bodies \/ (\E t \in todo : AddChart(t) \/ EditChart(t))
      \/ UiEdit \/ UiAdd \/ UiRemove
  BY DEF DashNext, DashPull, PullBoard, PushBoard, PlanPush, DashStep, CreateBoard, SkipChart,
         ChartsDone, PatchFields, RefreshFile, GiveUp, DashUi, UiLayout, EditFile, dashVars
<1> QED BY <1>1, <1>2, <1>3, <1>4, <1>5, <1>6

\* A board after one chart of it was placed.
LEMMA PlacedAt ==
  ASSUME StateType, NEW d \in Boards, boards[d] \in Board, NEW x \in Charts, NEW p,
         boards' = [boards EXCEPT ![d].place[x] = p]
  PROVE  /\ \A e \in Boards \ {d} : boards'[e] = boards[e]
         /\ boards'[d].place = [boards[d].place EXCEPT ![x] = p]
         /\ boards'[d].place[x] = p /\ \A c \in Charts \ {x} : boards'[d].place[c] = boards[d].place[c]
         /\ boards'[d].about = boards[d].about /\ boards'[d].access = boards[d].access
         /\ p \in Places \cup {Absent} => boards'[d] \in Board
<1>1. boards' = [boards EXCEPT ![d] = [boards[d] EXCEPT !.place[x] = p]]
  BY DEF StateType
<1>2. boards'[d] = [boards[d] EXCEPT !.place[x] = p] /\ \A e \in Boards \ {d} : boards'[e] = boards[e]
  BY <1>1 DEF StateType
<1>3. p \in Places \cup {Absent} => boards'[d] \in Board
  BY <1>2, BoardParts
<1>4. /\ boards'[d].place = [boards[d].place EXCEPT ![x] = p]
      /\ boards'[d].about = boards[d].about /\ boards'[d].access = boards[d].access
  BY <1>2 DEF Board
<1>5. boards[d].place \in [Charts -> Places \cup {Absent}]
  BY BoardParts
<1> QED BY <1>2, <1>3, <1>4, <1>5

LEMMA UiAdds ==
  ASSUME StateType, UiAdd
  PROVE  \E e \in Boards, x \in Charts, place \in Places :
           /\ boards[e] \in Board /\ boards' = [boards EXCEPT ![e].place[x] = place]
           /\ bodies'[x] \in [title : Titles, look : {Blank}, query : {Blank}, asked : {FALSE}]
<1>1. bodies \in [Charts -> BodyStates]
  BY DEF StateType
<1>2. PICK e \in Boards, x \in Charts, title \in Titles, place \in Places :
        /\ boards[e] \in Board /\ boards' = [boards EXCEPT ![e].place[x] = place]
        /\ bodies' = [bodies EXCEPT ![x] =
                        [title |-> title, look |-> Blank, query |-> Blank, asked |-> FALSE]]
  BY FreshOne DEF UiAdd
<1>3. bodies'[x] \in [title : Titles, look : {Blank}, query : {Blank}, asked : {FALSE}]
  BY <1>1, <1>2
<1> QED BY <1>2, <1>3

LEMMA BoardsBornStep ==
  ASSUME StateType, LocalsType, PushLoaded, Sound(want), BoardsBorn, [DashNext]_dashVars
  PROVE  BoardsBorn'
<1>0. /\ boards \in [Boards -> BoardStates] /\ boards' \in [Boards -> BoardStates]
      /\ bodies \in [Charts -> BodyStates]
      /\ \A c \in Charts : bodies[c] # Unborn => bodies'[c] # Unborn
  BY BoardsStep, BornStays DEF StateType
<1> SUFFICES ASSUME NEW d \in Boards, boards'[d] \in Board, NEW c \in Charts, boards'[d].place[c] # Absent,
                    bodies'[c] = Unborn
             PROVE  FALSE
  BY DEF BoardsBorn, ChartsOf
<1>1. bodies[c] = Unborn
  BY <1>0
<1>2. boards[d] \in Board => boards[d].place[c] = Absent
  BY <1>1 DEF BoardsBorn, ChartsOf
<1>3. CASE boards' = boards
  BY <1>2, <1>3
<1>4. CASE CreateBoard
  <2>1. PICK e \in Boards :
          boards' = [boards EXCEPT ![e] = [about |-> want.about, access |-> want.access,
                                           place |-> [x \in Charts |-> Absent]]]
    BY <1>4, FreshOne DEF CreateBoard
  <2> QED BY <1>0, <1>2, <2>1
<1>5. ASSUME NEW t \in todo, AddChart(t) PROVE FALSE
  <2>1. PICK x \in Charts : /\ boards' = [boards EXCEPT ![target].place[x] = t.place]
                            /\ bodies' = [bodies EXCEPT ![x] =
                                 [title |-> t.title, look |-> t.look, query |-> t.query,
                                  asked |-> t.query # Blank]]
    BY <1>5, FreshOne DEF AddChart
  <2>2. target \in Boards /\ boards[target] \in Board
    BY <1>5 DEF AddChart, IsLive
  <2>3. c # x
    <3>1. t \in Tile
      BY DEF LocalsType
    <3>2. [title |-> t.title, look |-> t.look, query |-> t.query, asked |-> t.query # Blank] \in Body
      BY <3>1 DEF Tile, Body
    <3> QED BY <1>0, <2>1, <3>2, NothingAssumption
  <2>4. d = target => boards'[d].place[c] = boards[d].place[c]
    BY <2>1, <2>2, <2>3, PlacedAt
  <2>5. d # target => boards'[d] = boards[d]
    BY <2>1, <2>2, PlacedAt
  <2> QED BY <1>2, <2>2, <2>4, <2>5
<1>6. CASE PatchFields /\ boards' # boards
  <2>1. IsLive(target) /\ boards' = [boards EXCEPT ![target] = Patched(@)] /\ dashPc = "fields"
    BY <1>6 DEF PatchFields
  <2>2. d # target => boards'[d] = boards[d]
    BY <1>0, <2>1 DEF IsLive
  <2>3. d = target => boards[d] \in Board /\ boards'[d] = Patched(boards[d])
    BY <1>0, <2>1 DEF IsLive
  <2>4. d = target => boards'[d].place = boards[d].place \/ boards'[d].place = WantedPlaces
    BY <2>3 DEF Patched, Board
  <2>5. WantedPlaces[c] = Absent
    <3>1. want # Absent
      BY <2>1, NothingAssumption DEF PushLoaded
    <3>2. c \notin IdsIn(want)
      BY <1>1, <3>1 DEF Sound
    <3> QED BY <3>2 DEF WantedPlaces
  <2> QED BY <1>2, <2>2, <2>3, <2>4, <2>5
<1>7. CASE UiLayout
  <2>1. PICK e \in Boards :
          /\ boards[e] \in Board
          /\ \/ \E about \in Abouts : boards' = [boards EXCEPT ![e].about = about]
             \/ \E x \in ChartsOf(e), place \in Places : boards' = [boards EXCEPT ![e].place[x] = place]
    BY <1>7 DEF UiLayout
  <2>2. CASE \E about \in Abouts : boards' = [boards EXCEPT ![e].about = about]
    <3>1. boards[d] \in Board /\ boards'[d].place = boards[d].place
      BY <1>0, <2>1, <2>2 DEF Board
    <3> QED BY <1>2, <3>1
  <2>3. CASE \E x \in ChartsOf(e), place \in Places : boards' = [boards EXCEPT ![e].place[x] = place]
    <3>1. PICK x \in ChartsOf(e), place \in Places : boards' = [boards EXCEPT ![e].place[x] = place]
      BY <2>3
    <3>2. x \in Charts /\ bodies[x] # Unborn
      BY <2>1 DEF BoardsBorn, ChartsOf
    <3>3. c # x
      BY <1>1, <3>2
    <3>4. d # e => boards'[d] = boards[d]
      BY <2>1, <3>1, <3>2, PlacedAt
    <3>5. d = e => boards'[d].place[c] = boards[d].place[c]
      BY <2>1, <3>1, <3>2, <3>3, PlacedAt
    <3> QED BY <1>2, <2>1, <3>4, <3>5
  <2> QED BY <2>1, <2>2, <2>3
<1>8. CASE UiAdd
  <2>0. [title : Titles, look : {Blank}, query : {Blank}, asked : {FALSE}] \subseteq Body
    BY DEF Body
  <2>1. PICK e \in Boards, x \in Charts, place \in Places :
          /\ boards[e] \in Board /\ boards' = [boards EXCEPT ![e].place[x] = place]
          /\ bodies'[x] \in [title : Titles, look : {Blank}, query : {Blank}, asked : {FALSE}]
    BY <1>8, UiAdds
  <2>2. c # x
    BY <2>0, <2>1, NothingAssumption
  <2>3. d # e => boards'[d] = boards[d]
    BY <2>1, PlacedAt
  <2>4. d = e => boards'[d].place[c] = boards[d].place[c]
    BY <2>1, <2>2, PlacedAt
  <2> QED BY <1>2, <2>1, <2>3, <2>4
<1>9. CASE UiRemove
  <2>1. PICK e \in Boards :
          /\ boards[e] \in Board
          /\ \/ \E x \in Charts : boards' = [boards EXCEPT ![e].place[x] = Absent]
             \/ boards' = [boards EXCEPT ![e] = Absent]
    BY <1>9 DEF UiRemove, ChartsOf
  <2>2. CASE boards' = [boards EXCEPT ![e] = Absent]
    BY <1>0, <1>2, <2>2, NothingAssumption
  <2>3. CASE \E x \in Charts : boards' = [boards EXCEPT ![e].place[x] = Absent]
    <3>1. PICK x \in Charts : boards' = [boards EXCEPT ![e].place[x] = Absent]
      BY <2>3
    <3>2. d # e => boards'[d] = boards[d]
      BY <2>1, <3>1, PlacedAt
    <3>3. d = e => boards'[d].place[c] \in {Absent, boards[d].place[c]}
      BY <2>1, <3>1, PlacedAt
    <3> QED BY <1>2, <2>1, <3>2, <3>3
  <2> QED BY <2>1, <2>2, <2>3
<1>10. \/ boards' = boards \/ CreateBoard \/ (\E t \in todo : AddChart(t)) \/ PatchFields
       \/ UiLayout \/ UiAdd \/ UiRemove
  BY DEF DashNext, DashPull, PullBoard, PushBoard, PlanPush, DashStep, EditChart, SkipChart,
         ChartsDone, RefreshFile, GiveUp, DashUi, UiEdit, EditFile, dashVars
<1> QED BY <1>3, <1>4, <1>5, <1>6, <1>7, <1>8, <1>9, <1>10

\* A reading names the charts of its dashboard, each once.
LEMMA ReadingSound ==
  ASSUME BoardsBorn, NEW d \in Boards, NEW deep \in BOOLEAN, NEW unread, NEW unasked,
         boards[d] \in Board
  PROVE  /\ \A s, t \in Reading(d, deep, unread, unasked).tiles : s.chart = t.chart => s = t
         /\ \A c \in IdsIn(Reading(d, deep, unread, unasked)) : bodies[c] # Unborn /\ c \in Charts
<1>1. PICK r : r = Reading(d, deep, unread, unasked)
  OBVIOUS
<1>2. IdsIn(r) = ChartsOf(d) /\ \A s, t \in r.tiles : s.chart = t.chart => s = t
  BY <1>1, ReadingParts
<1> QED BY <1>1, <1>2 DEF BoardsBorn, ChartsOf

\* What an operator makes of a chart is about the same chart.
LEMMA RewrittenChart ==
  ASSUME NEW t \in Tile, NEW s \in Rewritten(t)
  PROVE  s.chart = t.chart
BY DEF Rewritten, Tile

LEMMA FileSound ==
  ASSUME StateType, LocalsType, PushLoaded, Sound(file), BoardsBorn, [DashNext]_dashVars
  PROVE  Sound(file)'
<1>0. \A c \in Charts : bodies[c] # Unborn => bodies'[c] # Unborn
  BY BornStays
<1>1. CASE file' = file
  <2>1. file # Absent => \A c \in IdsIn(file) : bodies'[c] # Unborn
    BY <1>0, IdsType DEF Sound, StateType
  <2>2. IdsIn(file)' = IdsIn(file)
    BY <1>1 DEF IdsIn
  <2> QED BY <1>1, <2>1, <2>2 DEF Sound
<1>2. ASSUME NEW d \in Boards, NEW deep \in BOOLEAN, NEW unread, NEW unasked, boards[d] \in Board,
             file' = Reading(d, deep, unread, unasked)
      PROVE  Sound(file)'
  <2>1. \A s, t \in file'.tiles : s.chart = t.chart => s = t
    BY <1>2, ReadingSound
  <2>2. \A c \in IdsIn(file') : bodies'[c] # Unborn
    BY <1>0, <1>2, ReadingSound
  <2>3. IdsIn(file)' = IdsIn(file')
    BY DEF IdsIn
  <2> QED BY <2>1, <2>2, <2>3 DEF Sound
<1>3. CASE DashPull
  BY <1>2, <1>3 DEF DashPull, PullBoard
<1>4. CASE RefreshFile
  BY <1>2, <1>4, WantsInlineType DEF RefreshFile, Refreshed, IsLive
<1>5. CASE EditFile
  <2>0. /\ file \in Desired /\ bodies' = bodies /\ file # Absent /\ file.tiles \subseteq Tile
        /\ \A s, t \in file.tiles : s.chart = t.chart /\ s.chart # None => s = t
        /\ \A c \in IdsIn(file) : bodies[c] # Unborn
    BY <1>5, IdsType DEF EditFile, StateType, Sound
  <2>1. ASSUME \A s \in file'.tiles : s.chart = None \/ \E t \in file.tiles : t.chart = s.chart,
               \A s, t \in file'.tiles : s.chart = t.chart /\ s.chart # None => s = t
        PROVE  Sound(file)'
    <3>1. \A c \in IdsIn(file') : c \in IdsIn(file)
      BY <2>1 DEF IdsIn
    <3>2. IdsIn(file)' = IdsIn(file')
      BY DEF IdsIn
    <3> QED BY <2>0, <2>1, <3>1, <3>2 DEF Sound
  <2>2. CASE \/ \E about \in Abouts : file' = [file EXCEPT !.about = about]
             \/ \E access \in Accesses : file' = [file EXCEPT !.access = access]
    <3>1. file'.tiles = file.tiles
      BY <2>0, <2>2 DEF Desired
    <3> QED BY <2>0, <2>1, <3>1
  <2>3. CASE \E t \in file.tiles, s \in UNION {Rewritten(x) : x \in file.tiles} :
               /\ s \in Rewritten(t)
               /\ file' = [file EXCEPT !.tiles = (@ \ {t}) \cup {s}]
    <3>1. PICK t \in file.tiles : \E s \in Rewritten(t) :
            file' = [file EXCEPT !.tiles = (@ \ {t}) \cup {s}]
      BY <2>3
    <3>2. PICK s \in Rewritten(t) : file' = [file EXCEPT !.tiles = (@ \ {t}) \cup {s}]
      BY <3>1
    <3>3. s.chart = t.chart
      BY <2>0, RewrittenChart
    <3>4. file'.tiles = (file.tiles \ {t}) \cup {s}
      BY <2>0, <3>2 DEF Desired
    <3> QED BY <2>0, <2>1, <3>3, <3>4
  <2>4. CASE \E t \in file.tiles : file' = [file EXCEPT !.tiles = @ \ {t}]
    <3>1. PICK t \in file.tiles : file'.tiles = file.tiles \ {t}
      BY <2>0, <2>4 DEF Desired
    <3> QED BY <2>0, <2>1, <3>1
  <2>5. CASE \E title \in Titles, query \in Queries, place \in Places :
               file' = [file EXCEPT !.tiles = @ \cup
                          {[chart |-> None, title |-> title, look |-> Blank, query |-> query,
                            asked |-> FALSE, place |-> place]}]
    <3>1. PICK s : s.chart = None /\ file'.tiles = file.tiles \cup {s}
      BY <2>0, <2>5 DEF Desired
    <3> QED BY <2>0, <2>1, <3>1
  <2> QED BY <1>5, <2>2, <2>3, <2>4, <2>5 DEF EditFile
<1>6. file' = file \/ DashPull \/ RefreshFile \/ EditFile
  BY DEF DashNext, PushBoard, PlanPush, DashStep, CreateBoard, AddChart, EditChart, SkipChart,
         ChartsDone, PatchFields, GiveUp, DashUi, UiEdit, UiLayout, UiAdd, UiRemove, UiMay, dashVars
<1> QED BY <1>1, <1>3, <1>4, <1>5, <1>6

\* What a push keeps to itself is the file it loaded and the listing it read.
LEMMA LocalsSound ==
  ASSUME StateType, LocalsType, KnownInv, [DashNext]_dashVars
  PROVE  /\ Sound(want)' /\ Sound(have)'
         /\ have' # Absent => \A h \in have'.tiles : h.chart # None
<1>0. \A c \in Charts : bodies[c] # Unborn => bodies'[c] # Unborn
  BY BornStays
<1>1. CASE UNCHANGED <<want, have>>
  <2>1. want # Absent => \A c \in IdsIn(want) : bodies'[c] # Unborn
    BY <1>0, IdsType DEF Sound, LocalsType, KnownInv
  <2>2. have # Absent => \A c \in IdsIn(have) : bodies'[c] # Unborn
    BY <1>0, IdsType DEF Sound, LocalsType, KnownInv
  <2>3. IdsIn(want)' = IdsIn(want) /\ IdsIn(have)' = IdsIn(have)
    BY <1>1 DEF IdsIn
  <2> QED BY <1>1, <2>1, <2>2, <2>3 DEF Sound, KnownInv
<1>2. CASE Forget
  BY <1>2 DEF Forget, Sound
<1>3. CASE PushBoard /\ ~Forget
  <2>1. want' = file /\ bodies' = bodies
    BY <1>3 DEF PushBoard, PlanPush
  <2>2. \/ have' = Absent
        \/ IsLive(file.id) /\ \E gap \in Gaps(file.id) :
             have' = Reading(file.id, WantsInline(file), gap[1], gap[2])
    BY <1>3 DEF PushBoard, PlanPush
  <2>3. Sound(want)'
    <3>1. IdsIn(want)' = IdsIn(file)
      BY <2>1 DEF IdsIn
    <3> QED BY <2>1, <3>1 DEF Sound, KnownInv
  <2>4. /\ Sound(have)'
        /\ have' # Absent => \A h \in have'.tiles : h.chart # None
    <3>1. CASE have' = Absent
      BY <3>1 DEF Sound
    <3>2. ASSUME IsLive(file.id), NEW gap, have' = Reading(file.id, WantsInline(file), gap[1], gap[2])
          PROVE  Sound(have)' /\ \A h \in have'.tiles : h.chart # None
      <4>1. /\ \A s, t \in have'.tiles : s.chart = t.chart => s = t
            /\ \A c \in IdsIn(have') : bodies[c] # Unborn
        BY <3>2, ReadingSound, WantsInlineType DEF IsLive, KnownInv
      <4>2. IdsIn(have)' = IdsIn(have')
        BY DEF IdsIn
      <4>3. \A h \in have'.tiles : h.chart \in Charts
        BY <3>2, ReadingParts, WantsInlineType DEF IsLive
      <4> QED BY <2>1, <4>1, <4>2, <4>3, DashAssumption DEF Sound
    <3> QED BY <2>2, <3>1, <3>2
  <2> QED BY <2>3, <2>4
<1>4. UNCHANGED <<want, have>> \/ Forget \/ PushBoard
  <2>1. ASSUME NEW t \in todo, AddChart(t) \/ EditChart(t) \/ SkipChart(t)
        PROVE  UNCHANGED <<want, have>> \/ Forget
    BY <2>1 DEF AddChart, EditChart, SkipChart, Lost
  <2>2. CASE DashPull \/ GiveUp
    BY <2>2 DEF DashPull, PullBoard, GiveUp
  <2>3. CASE CreateBoard \/ ChartsDone \/ PatchFields \/ RefreshFile
    BY <2>3 DEF CreateBoard, ChartsDone, PatchFields, RefreshFile, Lost, locals
  <2>4. CASE DashUi \/ EditFile \/ UNCHANGED dashVars
    BY <2>4 DEF DashUi, UiEdit, UiLayout, UiAdd, UiRemove, UiMay, EditFile, dashVars, locals
  <2> QED BY <2>1, <2>2, <2>3, <2>4 DEF DashNext, DashStep
<1> QED BY <1>1, <1>2, <1>3, <1>4

LEMMA FilesKnownStep ==
  ASSUME DashInv, KnownInv, [DashNext]_dashVars
  PROVE  KnownInv'
<1>1. StateType /\ LocalsType /\ PushLoaded
  BY TypeParts DEF DashInv
<1>2. BoardsBorn /\ Sound(file) /\ Sound(want)
  BY DEF KnownInv
<1>3. /\ BoardsBorn' /\ Sound(file)' /\ Sound(want)' /\ Sound(have)'
      /\ have' # Absent => \A h \in have'.tiles : h.chart # None
  BY <1>1, <1>2, BoardsBornStep, FileSound, LocalsSound
<1>4. KnownInv'
  BY <1>3 DEF KnownInv
<1> QED BY <1>4

LEMMA ShapeStep ==
  ASSUME PushShape, dashPc \in {"idle", "create", "charts", "fields", "refresh"}, [DashNext]_dashVars
  PROVE  PushShape'
<1>1. CASE Forget
  BY <1>1 DEF Forget, PushShape
<1>2. CASE PushBoard /\ ~Forget
  BY <1>2 DEF PushBoard, PlanPush, PushShape
<1>3. CASE CreateBoard /\ ~Forget
  BY <1>3 DEF CreateBoard, Lost, PushShape
<1>4. ASSUME NEW t \in todo, AddChart(t) \/ EditChart(t) \/ SkipChart(t), ~Forget PROVE PushShape'
  <2>1. UNCHANGED <<dashPc, pushed>> /\ dashPc = "charts"
    BY <1>4 DEF AddChart, EditChart, SkipChart, Lost
  <2> QED BY <2>1 DEF PushShape
<1>5. CASE ChartsDone
  BY <1>5 DEF ChartsDone, Creating, PushShape, locals
<1>6. CASE PatchFields /\ ~Forget
  <2>1. UNCHANGED <<pushed, todo>> /\ dashPc = "fields" /\ dashPc' = "refresh"
    BY <1>6 DEF PatchFields, Lost, locals
  <2> QED BY <2>1 DEF PushShape
<1>7. CASE RefreshFile
  BY <1>7 DEF RefreshFile, PushShape
<1>8. CASE UNCHANGED <<dashPc, locals, pushed>>
  BY <1>8 DEF PushShape, locals
<1>9. \/ Forget \/ PushBoard \/ CreateBoard
      \/ (\E t \in todo : AddChart(t) \/ EditChart(t) \/ SkipChart(t))
      \/ ChartsDone \/ PatchFields \/ RefreshFile \/ UNCHANGED <<dashPc, locals, pushed>>
  BY DEF DashNext, DashPull, PullBoard, DashStep, GiveUp, DashUi, UiEdit, UiLayout, UiAdd,
         UiRemove, UiMay, EditFile, dashVars
<1> QED BY <1>1, <1>2, <1>3, <1>4, <1>5, <1>6, <1>7, <1>8, <1>9

\* A plan made from a whole reading: nothing is added yet and every chart is as listed.
LEMMA ListedPlan ==
  ASSUME StateType, file # Absent, IsLive(file.id), UNCHANGED <<boards, bodies>>,
         want' = file, have' = Reading(file.id, WantsInline(file), {}, {}),
         target' = file.id, todo' = file.tiles, dashPc' = "charts"
  PROVE  ChartsInStep' /\ FieldsInStep'
<1>0. PICK r : r = Reading(file.id, WantsInline(file), {}, {})
  OBVIOUS
<1>1. PICK d \in Boards : d = file.id /\ boards[d] \in Board /\ r = Reading(d, WantsInline(file), {}, {})
  BY <1>0 DEF IsLive
<1>2. /\ r # Absent /\ r.about = boards[d].about /\ IdsIn(r) = ChartsOf(d)
      /\ \A h \in r.tiles : /\ h.chart \in ChartsOf(d)
                            /\ h = TileOf(h.chart, d, WantsInline(file), {}, {})
                            /\ h.place = boards[d].place[h.chart]
  BY <1>1, ReadingParts, WantsInlineType
<1>3. have' = r /\ target' = d /\ IdsIn(have)' = IdsIn(r) /\ ChartsOf(target)' = ChartsOf(d)
  BY <1>1 DEF IdsIn, ChartsOf
<1>4. AddedOn(target)' = {}
  BY <1>2, <1>3 DEF AddedOn
<1>5. (NewTiles \ todo)' = {} /\ (NewTiles \subseteq todo)'
  BY DEF NewTiles
<1>6. ASSUME NEW h \in r.tiles PROVE AsListed(h)'
  <2>1. WantsInline(want)' = WantsInline(file)
    BY DEF WantsInline
  <2>2. WantsInline(file) /\ bodies[h.chart] \in Body =>
          h.title = bodies[h.chart].title /\ h.query = bodies[h.chart].query /\ h.look = bodies[h.chart].look
    BY <1>2, <1>6 DEF TileOf
  <2> QED BY <2>1, <2>2 DEF AsListed
<1>7. ChartsInStep'
  BY <1>2, <1>3, <1>4, <1>5, <1>6, FS_EmptySet DEF ChartsInStep
<1>8. FieldsInStep'
  BY <1>1, <1>2, <1>3 DEF FieldsInStep
<1> QED BY <1>7, <1>8

\* A dashboard just created has no charts and the fields of the file.
LEMMA CreatedBoard ==
  ASSUME StateType, LocalsType, PushLoaded, PushShape, CreateBoard, ~Forget
  PROVE  ChartsInStep' /\ FieldsInStep'
<1>1. PICK d \in Boards :
        /\ boards' = [boards EXCEPT ![d] = [about |-> want.about, access |-> want.access,
                                            place |-> [c \in Charts |-> Absent]]]
        /\ target' = d /\ dashPc' = "charts" /\ UNCHANGED <<want, have, todo, addedNew>>
  BY FreshOne DEF CreateBoard, Lost
<1>2. have = Absent /\ todo = want.tiles /\ want \in Desired
  BY DEF CreateBoard, PushShape, PushLoaded
<1>3. boards'[d] = [about |-> want.about, access |-> want.access, place |-> [c \in Charts |-> Absent]]
  BY <1>1 DEF StateType
<1>4. boards'[d] \in Board
  BY <1>2, <1>3 DEF Board, Desired
<1>5. AddedOn(target)' = {}
  BY <1>1, <1>3 DEF AddedOn, ChartsOf
<1>6. (NewTiles \ todo)' = {} /\ (NewTiles \subseteq todo)'
  BY <1>1, <1>2 DEF NewTiles
<1>7. ChartsInStep'
  BY <1>1, <1>2, <1>5, <1>6, FS_EmptySet DEF ChartsInStep
<1>8. FieldsInStep'
  BY <1>1, <1>2, <1>3, <1>4 DEF FieldsInStep
<1> QED BY <1>7, <1>8

LEMMA ChartMade ==
  ASSUME NEW t, AddChart(t)
  PROVE  \E c \in Charts :
           /\ bodies[c] = Unborn
           /\ bodies' = [bodies EXCEPT ![c] = [title |-> t.title, look |-> t.look, query |-> t.query,
                                               asked |-> t.query # Blank]]
           /\ boards' = [boards EXCEPT ![target].place[c] = t.place]
<1>1. PICK c \in Fresh(Charts, bodies) :
        /\ bodies' = [bodies EXCEPT ![c] = [title |-> t.title, look |-> t.look, query |-> t.query,
                                            asked |-> t.query # Blank]]
        /\ boards' = [boards EXCEPT ![target].place[c] = t.place]
  BY Zenon DEF AddChart
<1>2. c \in Charts /\ bodies[c] = Unborn
  BY FreshOne
<1> QED BY <1>1, <1>2, Zenon

LEMMA PlacedOn ==
  ASSUME StateType, NEW d \in Boards, boards[d] \in Board, NEW x \in Charts, NEW p \in Places \cup {Absent},
         boards' = [boards EXCEPT ![d].place[x] = p]
  PROVE  /\ boards'[d] \in Board /\ boards'[d].about = boards[d].about
         /\ boards'[d].place[x] = p
         /\ \A e \in Charts \ {x} : boards'[d].place[e] = boards[d].place[e]
<1>1. boards' = [boards EXCEPT ![d] = [boards[d] EXCEPT !.place[x] = p]]
  BY DEF StateType
<1>2. boards'[d] = [boards[d] EXCEPT !.place[x] = p]
  BY <1>1 DEF StateType
<1>3. boards'[d] \in Board
  BY <1>2, BoardParts
<1>4. boards'[d].place = [boards[d].place EXCEPT ![x] = p] /\ boards'[d].about = boards[d].about
  BY <1>2 DEF Board
<1>5. boards[d].place \in [Charts -> Places \cup {Absent}]
  BY BoardParts
<1> QED BY <1>3, <1>4, <1>5

\* A chart the server makes for a chart of the file.
LEMMA ChartAdded ==
  ASSUME StateType, LocalsType, PushLoaded, KnownInv, NEW t \in todo, AddChart(t), ~Forget
  PROVE  \E c \in Charts :
           /\ c \notin ChartsOf(target) /\ c \notin IdsIn(want)
           /\ have # Absent => c \notin IdsIn(have)
           /\ \A e \in Charts \ {c} : bodies'[e] = bodies[e]
           /\ bodies'[c].title = t.title /\ bodies'[c].look = t.look /\ bodies'[c].query = t.query
           /\ boards'[target] \in Board /\ boards'[target].about = boards[target].about
           /\ boards'[target].place[c] = t.place
           /\ \A e \in Charts \ {c} : boards'[target].place[e] = boards[target].place[e]
           /\ ChartsOf(target)' = ChartsOf(target) \cup {c}
<1>1. PICK c \in Charts :
        /\ bodies[c] = Unborn
        /\ bodies' = [bodies EXCEPT ![c] = [title |-> t.title, look |-> t.look, query |-> t.query,
                                            asked |-> t.query # Blank]]
        /\ boards' = [boards EXCEPT ![target].place[c] = t.place]
  BY ChartMade
<1>11. target' = target
  BY DEF AddChart, Lost
<1>2. target \in Boards /\ boards[target] \in Board /\ t.place \in Places
  BY DEF AddChart, IsLive, LocalsType, Tile
<1>3. want \in Desired /\ want # Absent
  BY NothingAssumption DEF AddChart, PushLoaded
<1>4. /\ c \notin ChartsOf(target) /\ c \notin IdsIn(want)
      /\ have # Absent => c \notin IdsIn(have)
  BY <1>1, <1>2, <1>3 DEF KnownInv, BoardsBorn, Sound
<1>5. /\ \A e \in Charts \ {c} : bodies'[e] = bodies[e]
      /\ bodies'[c].title = t.title /\ bodies'[c].look = t.look /\ bodies'[c].query = t.query
  BY <1>1 DEF StateType
<1>6. /\ boards'[target] \in Board /\ boards'[target].about = boards[target].about
      /\ boards'[target].place[c] = t.place
      /\ \A e \in Charts \ {c} : boards'[target].place[e] = boards[target].place[e]
  <2>1. PICK p : p = t.place /\ p \in Places \cup {Absent}
    BY <1>2
  <2>2. boards' = [boards EXCEPT ![target].place[c] = p]
    BY <1>1, <2>1
  <2>3. /\ boards'[target] \in Board /\ boards'[target].about = boards[target].about
        /\ boards'[target].place[c] = p
        /\ \A e \in Charts \ {c} : boards'[target].place[e] = boards[target].place[e]
    <3>1. PICK d \in Boards : d = target /\ boards[d] \in Board /\ boards' = [boards EXCEPT ![d].place[c] = p]
      BY <1>2, <2>2
    <3>2. /\ boards'[d] \in Board /\ boards'[d].about = boards[d].about /\ boards'[d].place[c] = p
          /\ \A e \in Charts \ {c} : boards'[d].place[e] = boards[d].place[e]
      <4>1. d \in Boards /\ boards[d] \in Board /\ c \in Charts /\ p \in Places \cup {Absent}
        BY <2>1, <3>1
      <4>2. boards' = [boards EXCEPT ![d].place[c] = p]
        BY <3>1
      <4>3. StateType
        OBVIOUS
      <4> QED BY ONLY <4>1, <4>2, <4>3, PlacedOn, Zenon
    <3> QED BY <3>1, <3>2
  <2> QED BY <2>1, <2>3
<1>7. t.place # Absent
  BY <1>2, DashAssumption
<1>8. ChartsOf(target)' = ChartsOf(target) \cup {c}
  BY <1>6, <1>7, <1>11 DEF ChartsOf
<1> QED BY <1>4, <1>5, <1>6, <1>8

LEMMA AddedInStep ==
  ASSUME StateType, LocalsType, PushLoaded, KnownInv, ChartsInStep, FieldsInStep,
         NEW t \in todo, AddChart(t), ~Forget
  PROVE  ChartsInStep' /\ FieldsInStep'
<1>0. /\ UNCHANGED <<dashPc, want, have, target, allMatched>> /\ todo' = todo \ {t} /\ addedNew' = TRUE
      /\ dashPc = "charts" /\ (have = Absent \/ t.chart = None) /\ target \in Boards
      /\ want \in Desired /\ t \in want.tiles
  BY DEF AddChart, Creating, Lost, PushLoaded
<1>1. PICK c \in Charts :
        /\ c \notin ChartsOf(target) /\ c \notin IdsIn(want)
        /\ have # Absent => c \notin IdsIn(have)
        /\ \A e \in Charts \ {c} : bodies'[e] = bodies[e]
        /\ bodies'[c].title = t.title /\ bodies'[c].look = t.look /\ bodies'[c].query = t.query
        /\ boards'[target] \in Board /\ boards'[target].about = boards[target].about
        /\ boards'[target].place[c] = t.place
        /\ \A e \in Charts \ {c} : boards'[target].place[e] = boards[target].place[e]
        /\ ChartsOf(target)' = ChartsOf(target) \cup {c}
  BY ChartAdded
<1>2. PICK A : A = AddedOn(target)
  OBVIOUS
<1>3. PICK N : N = NewTiles \ todo
  OBVIOUS
<1>4. /\ IsFiniteSet(A) /\ IsFiniteSet(N) /\ Cardinality(A) = Cardinality(N)
      /\ \A s \in N : \E e \in A : Carries(e, target, s)
      /\ A \subseteq Charts /\ c \notin A /\ t \notin N
  BY <1>1, <1>2, <1>3 DEF ChartsInStep, AddedOn, ChartsOf
<1>5. AddedOn(target)' = A \cup {c}
  <2>1. IdsIn(have)' = IdsIn(have)
    BY <1>0 DEF IdsIn
  <2> QED BY <1>0, <1>1, <1>2, <2>1 DEF AddedOn
<1>6. (NewTiles \ todo)' = N \cup {t}
  <2>1. NewTiles' = NewTiles /\ t \in NewTiles
    BY <1>0 DEF NewTiles
  <2> QED BY <1>0, <1>3, <2>1
<1>7. /\ IsFiniteSet(A \cup {c}) /\ IsFiniteSet(N \cup {t})
      /\ Cardinality(A \cup {c}) = Cardinality(N \cup {t})
  <2>1. IsFiniteSet(A \cup {c}) /\ Cardinality(A \cup {c}) = Cardinality(A) + 1
    BY <1>4, FS_AddElement
  <2>2. IsFiniteSet(N \cup {t}) /\ Cardinality(N \cup {t}) = Cardinality(N) + 1
    BY <1>4, FS_AddElement
  <2> QED BY <1>4, <2>1, <2>2
<1>8. \A s \in N \cup {t} : \E e \in A \cup {c} : Carries(e, target, s)'
  <2>1. Carries(c, target, t)'
    BY <1>0, <1>1 DEF Carries, Strip
  <2>2. ASSUME NEW e \in A, NEW s, Carries(e, target, s) PROVE Carries(e, target, s)'
    BY <1>0, <1>1, <1>4, <2>2 DEF Carries, Strip
  <2> QED BY <1>4, <2>1, <2>2
<1>9. CASE have = Absent
  <2>1. ChartsInStep'
    BY <1>0, <1>5, <1>6, <1>7, <1>8, <1>9 DEF ChartsInStep
  <2>2. FieldsInStep'
    BY <1>0, <1>1, <1>9 DEF FieldsInStep
  <2> QED BY <2>1, <2>2
<1>10. CASE have # Absent
  <2>0. /\ IdsIn(want)' = IdsIn(want) /\ IdsIn(have)' = IdsIn(have) /\ have \in Desired
        /\ WantsInline(want)' = WantsInline(want)
    BY <1>0, <1>10 DEF IdsIn, LocalsType, WantsInline
  <2>1. A \cap IdsIn(want) = {}
    BY <1>2, <1>10 DEF ChartsInStep
  <2>2. allMatched => \A s \in want.tiles \ (todo \ {t}) : s.chart \in IdsIn(have) \cup {None}
    BY <1>0, <1>10 DEF ChartsInStep
  <2>3. \A h \in have.tiles : h.chart \in Charts /\ h.chart # None /\ h.chart \in IdsIn(have)
    BY <1>10, <2>0, IdsType DEF KnownInv
  <2>4. ASSUME NEW s \in want.tiles, NEW h \in have.tiles, s.chart = h.chart
        PROVE  IF s \in todo \ {t} THEN AsListed(h)' ELSE Agrees(s)'
    <3>1. s # t /\ h.chart # c
      BY <1>0, <1>1, <1>10, <2>3, <2>4
    <3>2. bodies'[h.chart] = bodies[h.chart]
      BY <1>1, <2>3, <3>1
    <3>3. IF s \in todo THEN AsListed(h) ELSE Agrees(s)
      BY <1>10, <2>4 DEF ChartsInStep
    <3>4. AsListed(h)' = AsListed(h)
      BY <2>0, <3>2 DEF AsListed
    <3>5. Agrees(s)' = Agrees(s)
      BY <2>0, <2>4, <3>2 DEF Agrees
    <3> QED BY <3>1, <3>3, <3>4, <3>5
  <2>5. ChartsInStep'
    <3>1. (A \cup {c}) \cap IdsIn(want) = {}
      BY <1>1, <2>1
    <3>2. /\ (AddedOn(target) \cap IdsIn(want))' = {}
          /\ (allMatched => \A s \in want.tiles \ todo : s.chart \in IdsIn(have) \cup {None})'
      BY <1>0, <1>5, <2>0, <2>2, <3>1
    <3>3. (\A s \in want.tiles, h \in have.tiles : s.chart = h.chart =>
             IF s \in todo THEN AsListed(h) ELSE Agrees(s))'
      BY <1>0, <2>4
    <3> QED BY <1>0, <1>5, <1>6, <1>7, <1>8, <3>2, <3>3 DEF ChartsInStep
  <2>6. FieldsInStep'
    <3>1. \A h \in have.tiles : boards'[target].place[h.chart] = h.place
      BY <1>0, <1>1, <1>10, <2>3 DEF FieldsInStep
    <3>2. boards'[target].about = have.about
      BY <1>0, <1>1, <1>10 DEF FieldsInStep
    <3> QED BY <1>0, <1>1, <1>10, <3>1, <3>2 DEF FieldsInStep
  <2> QED BY <2>5, <2>6
<1> QED BY <1>9, <1>10

\* An edit brings the chart from what the listing showed to what the file says.
LEMMA EditAgrees ==
  ASSUME NEW t \in Tile, NEW h, NEW b \in Body,
         b.title = h.title, b.query = h.query, b.look = h.look
  PROVE  /\ Edited(t, h, b).title = t.title
         /\ t.asked => Edited(t, h, b).query = t.query
         /\ t.look # Blank => Edited(t, h, b).look = t.look
BY DEF Edited, Tile, Body

LEMMA ChartEdited ==
  ASSUME StateType, LocalsType, KnownInv, NEW t \in todo, EditChart(t), ~Forget
  PROVE  \E h \in have.tiles :
           /\ h.chart = t.chart
           /\ \A c \in Charts \ {t.chart} : bodies'[c] = bodies[c]
           /\ \/ NothingToEdit(t, h) /\ bodies' = bodies
              \/ bodies[t.chart] \in Body /\ bodies'[t.chart] = Edited(t, h, bodies[t.chart])
<1>1. PICK h \in have.tiles :
        /\ h.chart = t.chart
        /\ \/ NothingToEdit(t, h) /\ bodies' = bodies
           \/ bodies[t.chart] \in Body /\ bodies' = [bodies EXCEPT ![t.chart] = Edited(t, h, @)]
  BY DEF EditChart
<1>2. t.chart \in Charts
  BY <1>1 DEF EditChart, Creating, LocalsType, Tile, KnownInv
<1>3. \A c \in Charts \ {t.chart} : bodies'[c] = bodies[c]
  BY <1>1 DEF StateType
<1>4. bodies' = [bodies EXCEPT ![t.chart] = Edited(t, h, @)] =>
        bodies'[t.chart] = Edited(t, h, bodies[t.chart])
  BY <1>2 DEF StateType
<1> QED BY <1>1, <1>3, <1>4

LEMMA EditedInStep ==
  ASSUME StateType, LocalsType, PushLoaded, KnownInv, ChartsInStep, FieldsInStep,
         NEW t \in todo, EditChart(t), ~Forget
  PROVE  ChartsInStep' /\ FieldsInStep'
<1>0. /\ UNCHANGED <<boards, dashPc, want, have, target, addedNew, allMatched>> /\ todo' = todo \ {t}
      /\ dashPc = "charts" /\ have # Absent /\ target \in Boards
      /\ want \in Desired /\ have \in Desired /\ t \in want.tiles /\ t \in Tile
  BY DEF EditChart, Creating, Lost, PushLoaded, LocalsType
<1>1. PICK h \in have.tiles :
        /\ h.chart = t.chart
        /\ \A c \in Charts \ {t.chart} : bodies'[c] = bodies[c]
        /\ \/ NothingToEdit(t, h) /\ bodies' = bodies
           \/ bodies[t.chart] \in Body /\ bodies'[t.chart] = Edited(t, h, bodies[t.chart])
  BY ChartEdited
<1>2. /\ \A g \in have.tiles : g.chart \in Charts /\ g.chart # None /\ g.chart \in IdsIn(have)
      /\ \A s, g \in have.tiles : s.chart = g.chart => s = g
      /\ \A s \in want.tiles : s.chart = t.chart => s = t
  <2>1. \A g \in have.tiles : g.chart \in Charts /\ g.chart # None /\ g.chart \in IdsIn(have)
    BY <1>0, IdsType DEF KnownInv
  <2>2. t.chart # None /\ want # Absent
    BY <1>0, <1>1, <2>1, NothingAssumption
  <2> QED BY <1>0, <2>1, <2>2 DEF KnownInv, Sound
<1>3. t.chart \in Charts /\ t.chart # None /\ t.chart \in IdsIn(have)
  BY <1>1, <1>2
<1>4. /\ IdsIn(want)' = IdsIn(want) /\ IdsIn(have)' = IdsIn(have) /\ WantsInline(want)' = WantsInline(want)
      /\ AddedOn(target)' = AddedOn(target)
  <2>1. /\ IdsIn(want)' = IdsIn(want) /\ IdsIn(have)' = IdsIn(have) /\ WantsInline(want)' = WantsInline(want)
        /\ ChartsOf(target)' = ChartsOf(target)
    BY <1>0 DEF IdsIn, WantsInline, ChartsOf
  <2> QED BY <1>0, <2>1 DEF AddedOn
<1>5. (NewTiles \ todo)' = NewTiles \ todo /\ (~addedNew => NewTiles \subseteq todo)'
  <2>1. NewTiles' = NewTiles /\ t \notin NewTiles
    BY <1>0, <1>3 DEF NewTiles
  <2> QED BY <1>0, <2>1 DEF ChartsInStep
<1>6. \A s \in NewTiles \ todo : \E c \in AddedOn(target) : Carries(c, target, s)'
  <2>1. \A s \in NewTiles \ todo : \E c \in AddedOn(target) : Carries(c, target, s)
    BY DEF ChartsInStep
  <2>2. \A c \in AddedOn(target) : c \in Charts /\ c \notin IdsIn(have)
    BY <1>0 DEF AddedOn, ChartsOf
  <2>3. ASSUME NEW c \in AddedOn(target), NEW s, Carries(c, target, s) PROVE Carries(c, target, s)'
    <3>1. bodies'[c] = bodies[c]
      BY <1>1, <1>3, <2>2
    <3> QED BY <1>0, <2>3, <3>1 DEF Carries, Strip
  <2> QED BY <2>1, <2>3
<1>7. /\ AddedOn(target) \cap IdsIn(want) = {}
      /\ allMatched => \A s \in want.tiles \ (todo \ {t}) : s.chart \in IdsIn(have) \cup {None}
  BY <1>0, <1>3 DEF ChartsInStep
<1>8. ASSUME NEW s \in want.tiles, NEW g \in have.tiles, s.chart = g.chart
      PROVE  IF s \in todo \ {t} THEN AsListed(g)' ELSE Agrees(s)'
  <2>0. IF s \in todo THEN AsListed(g) ELSE Agrees(s)
    BY <1>0, <1>8 DEF ChartsInStep
  <2>1. CASE s # t
    <3>1. bodies'[g.chart] = bodies[g.chart]
      BY <1>1, <1>2, <1>8, <2>1
    <3>2. AsListed(g)' = AsListed(g)
      BY <1>4, <3>1 DEF AsListed
    <3>3. Agrees(s)' = Agrees(s)
      BY <1>4, <1>8, <3>1 DEF Agrees
    <3> QED BY <2>0, <2>1, <3>2, <3>3
  <2>2. CASE s = t
    <3>1. g = h /\ AsListed(h)
      BY <1>1, <1>2, <1>8, <2>0, <2>2
    <3>2. Agrees(t)'
      <4>1. CASE NothingToEdit(t, h) /\ bodies' = bodies
        BY <1>1, <1>4, <3>1, <4>1 DEF Agrees, AsListed, NothingToEdit
      <4>2. CASE bodies[t.chart] \in Body /\ bodies'[t.chart] = Edited(t, h, bodies[t.chart])
        <5>1. WantsInline(want) => /\ bodies[t.chart].title = h.title
                                   /\ bodies[t.chart].query = h.query
                                   /\ bodies[t.chart].look = h.look
          BY <1>1, <3>1, <4>2 DEF AsListed
        <5>2. WantsInline(want) => /\ bodies'[t.chart].title = t.title
                                   /\ t.asked => bodies'[t.chart].query = t.query
                                   /\ t.look # Blank => bodies'[t.chart].look = t.look
          BY <1>0, <4>2, <5>1, EditAgrees
        <5> QED BY <1>4, <5>2 DEF Agrees
      <4> QED BY <1>1, <4>1, <4>2
    <3> QED BY <2>2, <3>2
  <2> QED BY <2>1, <2>2
<1>9. ChartsInStep'
  <2>1. /\ (AddedOn(target) \cap IdsIn(want))' = {}
        /\ (allMatched => \A s \in want.tiles \ todo : s.chart \in IdsIn(have) \cup {None})'
    BY <1>0, <1>4, <1>7
  <2>2. (\A s \in want.tiles, g \in have.tiles : s.chart = g.chart =>
           IF s \in todo THEN AsListed(g) ELSE Agrees(s))'
    BY <1>0, <1>8
  <2>3. /\ IsFiniteSet(AddedOn(target)) /\ IsFiniteSet(NewTiles \ todo)
        /\ Cardinality(AddedOn(target)) = Cardinality(NewTiles \ todo)
    BY DEF ChartsInStep
  <2> QED BY <1>0, <1>4, <1>5, <1>6, <2>1, <2>2, <2>3 DEF ChartsInStep
<1>10. FieldsInStep'
  BY <1>0 DEF FieldsInStep
<1> QED BY <1>9, <1>10

LEMMA SkippedInStep ==
  ASSUME LocalsType, PushLoaded, ChartsInStep, FieldsInStep, NEW t \in todo, SkipChart(t)
  PROVE  ChartsInStep' /\ FieldsInStep'
<1>0. /\ UNCHANGED <<boards, bodies, dashPc, want, have, target, addedNew>> /\ todo' = todo \ {t}
      /\ allMatched' = FALSE /\ dashPc = "charts" /\ have # Absent /\ have \in Desired
      /\ t.chart # None /\ t.chart \notin IdsIn(have)
  BY DEF SkipChart, Creating, LocalsType
<1>1. /\ IdsIn(want)' = IdsIn(want) /\ IdsIn(have)' = IdsIn(have) /\ WantsInline(want)' = WantsInline(want)
      /\ AddedOn(target)' = AddedOn(target)
  <2>1. /\ IdsIn(want)' = IdsIn(want) /\ IdsIn(have)' = IdsIn(have) /\ WantsInline(want)' = WantsInline(want)
        /\ ChartsOf(target)' = ChartsOf(target)
    BY <1>0 DEF IdsIn, WantsInline, ChartsOf
  <2> QED BY <1>0, <2>1 DEF AddedOn
<1>2. (NewTiles \ todo)' = NewTiles \ todo /\ (~addedNew => NewTiles \subseteq todo)'
  <2>1. NewTiles' = NewTiles /\ t \notin NewTiles
    BY <1>0 DEF NewTiles
  <2> QED BY <1>0, <2>1 DEF ChartsInStep
<1>3. \A s, c : Carries(c, target, s)' = Carries(c, target, s)
  BY <1>0 DEF Carries, Strip
<1>4. \A s : AsListed(s)' = AsListed(s) /\ Agrees(s)' = Agrees(s)
  BY <1>0, <1>1 DEF AsListed, Agrees
<1>5. \A s \in want.tiles, g \in have.tiles : s.chart = g.chart =>
        IF s \in todo \ {t} THEN AsListed(g)' ELSE Agrees(s)'
  <2>1. \A g \in have.tiles : g.chart # None => g.chart \in IdsIn(have)
    BY <1>0, IdsType
  <2>2. \A g \in have.tiles : g.chart # t.chart
    BY <1>0, <2>1
  <2>3. \A s \in want.tiles, g \in have.tiles : s.chart = g.chart =>
          IF s \in todo THEN AsListed(g) ELSE Agrees(s)
    BY <1>0 DEF ChartsInStep
  <2> QED BY <1>4, <2>2, <2>3
<1>6. ChartsInStep'
  <2>1. (AddedOn(target) \cap IdsIn(want))' = {}
    BY <1>0, <1>1 DEF ChartsInStep
  <2>2. (\A s \in want.tiles, g \in have.tiles : s.chart = g.chart =>
           IF s \in todo THEN AsListed(g) ELSE Agrees(s))'
    BY <1>0, <1>5
  <2>3. /\ IsFiniteSet(AddedOn(target)) /\ IsFiniteSet(NewTiles \ todo)
        /\ Cardinality(AddedOn(target)) = Cardinality(NewTiles \ todo)
        /\ \A s \in NewTiles \ todo : \E c \in AddedOn(target) : Carries(c, target, s)
    BY DEF ChartsInStep
  <2> QED BY <1>0, <1>1, <1>2, <1>3, <2>1, <2>2, <2>3 DEF ChartsInStep
<1>7. FieldsInStep'
  BY <1>0 DEF FieldsInStep
<1> QED BY <1>6, <1>7

LEMMA DoneInStep ==
  ASSUME ChartsInStep, FieldsInStep, ChartsDone
  PROVE  ChartsInStep' /\ FieldsInStep'
<1>0. /\ UNCHANGED <<boards, bodies, want, have, target, todo, addedNew, allMatched>>
      /\ dashPc = "charts" /\ dashPc' = IF have = Absent THEN "refresh" ELSE "fields"
  BY DEF ChartsDone, Creating, locals
<1>1. ChartsInStep'
  <2>1. /\ AddedOn(target)' = AddedOn(target) /\ (NewTiles \ todo)' = NewTiles \ todo
        /\ IdsIn(want)' = IdsIn(want) /\ IdsIn(have)' = IdsIn(have)
        /\ WantsInline(want)' = WantsInline(want) /\ NewTiles' = NewTiles
    BY <1>0 DEF AddedOn, ChartsOf, NewTiles, IdsIn, WantsInline
  <2>2. /\ \A s, c : Carries(c, target, s)' = Carries(c, target, s)
        /\ \A s : AsListed(s)' = AsListed(s) /\ Agrees(s)' = Agrees(s)
    BY <1>0, <2>1 DEF Carries, Strip, AsListed, Agrees
  <2> QED BY <1>0, <2>1, <2>2 DEF ChartsInStep
<1>2. FieldsInStep'
  BY <1>0 DEF FieldsInStep
<1> QED BY <1>1, <1>2

\* If the sets of charts agree and nothing was added, a chart of the file is a chart of the listing.
LEMMA SameCharts ==
  ASSUME LocalsType, PushLoaded, ChartsInStep, have # Absent, want \in Desired, todo = {}, SameMembership
  PROVE  /\ IdsIn(want) = IdsIn(have) /\ NewTiles = {}
         /\ \A t \in want.tiles : t.chart \in Charts => \E h \in have.tiles : h.chart = t.chart
<1>1. \A t \in want.tiles : t.chart \in IdsIn(have) \cup {None}
  BY DEF ChartsInStep, SameMembership
<1>2. \A c \in IdsIn(want) : \E t \in want.tiles : t.chart = c /\ c # None
  BY DEF IdsIn
<1>3. \A c \in IdsIn(have) : \E h \in have.tiles : h.chart = c
  BY DEF IdsIn
<1>4. IdsIn(want) = IdsIn(have)
  BY <1>1, <1>2 DEF SameMembership
<1>5. NewTiles = {}
  BY DEF ChartsInStep, SameMembership
<1> QED BY <1>1, <1>3, <1>4, <1>5, DashAssumption

\* A layout that was not sent was the file's already.
LEMMA PlacesAgree ==
  ASSUME LocalsType, PushLoaded, ChartsInStep, have # Absent, want \in Desired, todo = {},
         SameMembership, ~PlacesDiffer, \A h \in have.tiles : boards[target].place[h.chart] = h.place,
         NEW t \in want.tiles, t.chart \in Charts
  PROVE  boards[target].place[t.chart] = t.place
<1>1. PICK h \in have.tiles : h.chart = t.chart
  BY SameCharts
<1>2. t.place = h.place
  BY <1>1 DEF PlacesDiffer
<1> QED BY <1>1, <1>2

\* The layout as the file has it.
LEMMA WantedPlace ==
  ASSUME want \in Desired, want # Absent, Sound(want)
  PROVE  /\ WantedPlaces \in [Charts -> Places \cup {Absent}]
         /\ \A t \in want.tiles : t.chart \in Charts => WantedPlaces[t.chart] = t.place
         /\ \A c \in Charts : WantedPlaces[c] # Absent <=> c \in IdsIn(want)
<1>1. \A t \in want.tiles : t \in Tile /\ t.place \in Places /\ t.place # Absent
  BY IdsType, DashAssumption DEF Tile
<1>2. ASSUME NEW c \in Charts, c \in IdsIn(want)
      PROVE  \E t \in want.tiles : /\ t.chart = c /\ (CHOOSE s \in want.tiles : s.chart = c) = t
                                   /\ \A s \in want.tiles : s.chart = c => s = t
  <2>1. PICK t \in want.tiles : t.chart = c /\ c # None
    BY <1>2 DEF IdsIn
  <2>2. \A s \in want.tiles : s.chart = c => s = t
    BY <2>1 DEF Sound
  <2> QED BY <2>1, <2>2
<1>3. \A c \in Charts : WantedPlaces[c] = IF c \in IdsIn(want)
                                          THEN (CHOOSE s \in want.tiles : s.chart = c).place ELSE Absent
  BY DEF WantedPlaces
<1>4. \A c \in Charts : WantedPlaces[c] # Absent <=> c \in IdsIn(want)
  BY <1>1, <1>2, <1>3
<1>5. \A c \in Charts : WantedPlaces[c] \in Places \cup {Absent}
  BY <1>1, <1>2, <1>3
<1>6. ASSUME NEW t \in want.tiles, t.chart \in Charts PROVE WantedPlaces[t.chart] = t.place
  <2>1. t.chart \in IdsIn(want)
    BY <1>6, DashAssumption DEF IdsIn
  <2> QED BY <1>2, <1>3, <1>6, <2>1
<1>7. WantedPlaces \in [Charts -> Places \cup {Absent}]
  BY <1>5 DEF WantedPlaces
<1> QED BY <1>4, <1>6, <1>7

\* The dashboard a PATCH leaves.
LEMMA BoardPatched ==
  ASSUME NEW b \in Board, want \in Desired, want # Absent, Sound(want)
  PROVE  /\ Patched(b) \in Board
         /\ Patched(b).about = IF want.about # have.about THEN want.about ELSE b.about
         /\ Patched(b).place = IF SameMembership /\ PlacesDiffer THEN WantedPlaces ELSE b.place
<1>1. PICK p : p = (IF SameMembership /\ PlacesDiffer THEN WantedPlaces ELSE b.place)
  OBVIOUS
<1>2. PICK a : a = (IF want.about # have.about THEN want.about ELSE b.about)
  OBVIOUS
<1>3. p \in [Charts -> Places \cup {Absent}] /\ a \in Abouts
  BY <1>1, <1>2, WantedPlace, BoardParts DEF Desired
<1>4. Patched(b) = [b EXCEPT !.about = a, !.place = p]
  BY <1>1, <1>2 DEF Patched
<1>5. [b EXCEPT !.about = a, !.place = p] \in Board
  BY <1>3 DEF Board
<1>6. /\ [b EXCEPT !.about = a, !.place = p].about = a
      /\ [b EXCEPT !.about = a, !.place = p].place = p
  BY DEF Board
<1> QED BY <1>1, <1>2, <1>4, <1>5, <1>6

LEMMA PatchedInStep ==
  ASSUME StateType, LocalsType, PushLoaded, PushShape, KnownInv, ChartsInStep, FieldsInStep,
         PatchFields, ~Forget
  PROVE  ChartsInStep' /\ FieldsInStep'
<1>0. /\ UNCHANGED <<bodies, want, have, target, todo, addedNew, allMatched>>
      /\ dashPc = "fields" /\ dashPc' = "refresh" /\ have # Absent /\ todo = {} /\ target \in Boards
      /\ want \in Desired /\ want # Absent /\ have \in Desired /\ Sound(want)
  <2>1. /\ UNCHANGED <<bodies, want, have, target, todo, addedNew, allMatched>>
        /\ dashPc = "fields" /\ dashPc' = "refresh"
    BY DEF PatchFields, Lost, locals
  <2>2. have # Absent /\ todo = {} /\ target \in Boards /\ want \in Desired
    BY <2>1 DEF PushShape, PushLoaded
  <2> QED BY <2>1, <2>2, NothingAssumption DEF LocalsType, KnownInv
<1>1. /\ boards[target] \in Board /\ boards[target].about = have.about
      /\ \A h \in have.tiles : boards[target].place[h.chart] = h.place
  BY <1>0 DEF FieldsInStep
<1>2. /\ IdsIn(want)' = IdsIn(want) /\ IdsIn(have)' = IdsIn(have) /\ WantsInline(want)' = WantsInline(want)
      /\ NewTiles' = NewTiles /\ (NewTiles \ todo)' = NewTiles \ todo
      /\ SameMembership' = SameMembership /\ PlacesDiffer' = PlacesDiffer
  BY <1>0 DEF IdsIn, WantsInline, NewTiles, SameMembership, PlacesDiffer
<1>3. \A s : AsListed(s)' = AsListed(s) /\ Agrees(s)' = Agrees(s)
  BY <1>0, <1>2 DEF AsListed, Agrees
<1>4. boards'[target] \in Board /\ boards'[target].about = want.about
  <2>1. CASE boards' = boards /\ want.about = have.about
    BY <1>1, <2>1
  <2>2. CASE boards' = [boards EXCEPT ![target] = Patched(@)]
    <3>1. boards'[target] = Patched(boards[target])
      BY <1>0, <2>2 DEF StateType
    <3> QED BY <1>0, <1>1, <3>1, BoardPatched
  <2> QED BY <2>1, <2>2 DEF PatchFields
<1>5. boards'[target].place = IF SameMembership /\ PlacesDiffer THEN WantedPlaces ELSE boards[target].place
  <2>1. CASE boards' = boards /\ ~(SameMembership /\ PlacesDiffer)
    BY <2>1
  <2>2. CASE boards' = [boards EXCEPT ![target] = Patched(@)]
    <3>1. boards'[target] = Patched(boards[target])
      BY <1>0, <2>2 DEF StateType
    <3> QED BY <1>0, <1>1, <3>1, BoardPatched
  <2> QED BY <2>1, <2>2 DEF PatchFields
<1>6. CASE ~(SameMembership /\ PlacesDiffer)
  <2>1. boards'[target].place = boards[target].place
    BY <1>5, <1>6
  <2>2. AddedOn(target)' = AddedOn(target)
    BY <1>0, <1>2, <2>1 DEF AddedOn, ChartsOf
  <2>3. \A s, c : Carries(c, target, s)' = Carries(c, target, s)
    BY <1>0, <2>1 DEF Carries, Strip
  <2>4. ChartsInStep'
    BY <1>0, <1>2, <1>3, <2>2, <2>3 DEF ChartsInStep
  <2>5. SameMembership => \A t \in want.tiles : t.chart \in Charts => boards'[target].place[t.chart] = t.place
    BY <1>0, <1>1, <1>6, <2>1, PlacesAgree
  <2>6. ChartsOf(target)' \subseteq Charts
    BY DEF ChartsOf
  <2>7. FieldsInStep'
    BY <1>0, <1>2, <1>4, <2>5, <2>6 DEF FieldsInStep
  <2> QED BY <2>4, <2>7
<1>7. CASE SameMembership /\ PlacesDiffer
  <2>1. boards'[target].place = WantedPlaces
    BY <1>5, <1>7
  <2>2. IdsIn(want) = IdsIn(have) /\ NewTiles = {}
    BY <1>0, <1>7, SameCharts
  <2>3. ChartsOf(target)' = IdsIn(want)
    <3>1. IdsIn(want) \subseteq Charts
      BY <1>0, IdsType
    <3> QED BY <1>0, <2>1, <3>1, WantedPlace DEF ChartsOf
  <2>4. AddedOn(target)' = {}
    BY <1>0, <1>2, <2>2, <2>3 DEF AddedOn
  <2>5. ChartsInStep'
    <3>1. /\ (AddedOn(target) \cap IdsIn(want))' = {} /\ (NewTiles \ todo)' = {}
          /\ (~addedNew => NewTiles \subseteq todo)'
      BY <1>2, <2>2, <2>4
    <3>2. (allMatched => \A t \in want.tiles \ todo : t.chart \in IdsIn(have) \cup {None})'
      BY <1>0, <1>2 DEF ChartsInStep
    <3>3. (\A t \in want.tiles, h \in have.tiles : t.chart = h.chart =>
             IF t \in todo THEN AsListed(h) ELSE Agrees(t))'
      BY <1>0, <1>3 DEF ChartsInStep
    <3> QED BY <2>4, <3>1, <3>2, <3>3, FS_EmptySet DEF ChartsInStep
  <2>6. \A t \in want.tiles : t.chart \in ChartsOf(target)' => boards'[target].place[t.chart] = t.place
    <3>1. ChartsOf(target)' \subseteq Charts
      BY DEF ChartsOf
    <3> QED BY <1>0, <2>1, <3>1, WantedPlace
  <2>7. FieldsInStep'
    BY <1>0, <1>4, <2>6 DEF FieldsInStep
  <2> QED BY <2>5, <2>7
<1> QED BY <1>6, <1>7

LEMMA UndisturbedStep ==
  ASSUME StateType, LocalsType, PushLoaded, PushShape, KnownInv, UndisturbedPush, [DashNext]_dashVars
  PROVE  UndisturbedPush'
<1> SUFFICES ASSUME calm', dashPc' \in {"charts", "fields", "refresh"}
             PROVE  ChartsInStep' /\ FieldsInStep'
  BY DEF UndisturbedPush
<1>0. ~Forget
  BY DEF Forget
<1>1. CASE PushBoard
  <2>1. PICK gap, found, whole :
          /\ file # Absent /\ PlanPush(found, whole)
          /\ \/ IsLive(file.id) /\ found = Reading(file.id, WantsInline(file), gap[1], gap[2])
                /\ whole = (gap = Whole)
             \/ found = Absent
    BY <1>1 DEF PushBoard
  <2>2. /\ want' = file /\ have' = found /\ todo' = file.tiles /\ calm' = whole
        /\ target' = IF found = Absent THEN None ELSE file.id
        /\ dashPc' = IF found = Absent THEN "create" ELSE "charts"
        /\ UNCHANGED <<boards, bodies>>
    BY <1>0, <2>1 DEF PlanPush
  <2>3. found # Absent
    BY <2>2
  <2>4. IsLive(file.id) /\ found = Reading(file.id, WantsInline(file), {}, {})
    <3>1. /\ IsLive(file.id) /\ found = Reading(file.id, WantsInline(file), gap[1], gap[2])
          /\ whole = (gap = Whole)
      BY <2>1, <2>3, Zenon
    <3>2. whole
      BY <2>2, Zenon
    <3>3. gap = Whole
      BY <3>1, <3>2, Zenon
    <3>4. gap[1] = {} /\ gap[2] = {}
      BY <3>3 DEF Whole
    <3> QED BY <3>1, <3>4, Zenon
  <2> QED BY <2>1, <2>2, <2>3, <2>4, ListedPlan
<1>2. CASE CreateBoard
  BY <1>0, <1>2, CreatedBoard
<1>3. ASSUME NEW t \in todo, AddChart(t) \/ EditChart(t) \/ SkipChart(t)
      PROVE  ChartsInStep' /\ FieldsInStep'
  <2>1. dashPc = "charts" /\ calm
    BY <1>0, <1>3 DEF AddChart, EditChart, SkipChart, Lost
  <2>2. ChartsInStep /\ FieldsInStep
    BY <2>1 DEF UndisturbedPush
  <2> QED BY <1>0, <1>3, <2>2, AddedInStep, EditedInStep, SkippedInStep
<1>4. CASE ChartsDone
  BY <1>4, DoneInStep DEF ChartsDone, UndisturbedPush
<1>5. CASE PatchFields
  <2>1. dashPc = "fields" /\ calm
    BY <1>0, <1>5 DEF PatchFields, Lost
  <2> QED BY <1>0, <1>5, <2>1, PatchedInStep DEF UndisturbedPush
<1>6. CASE UNCHANGED dashVars
  <2>1. /\ UNCHANGED <<boards, bodies, dashPc, calm, want, have, target, todo, addedNew, allMatched>>
    BY <1>6 DEF dashVars, locals
  <2>2. ChartsInStep /\ FieldsInStep
    BY <2>1 DEF UndisturbedPush
  <2>3. /\ AddedOn(target)' = AddedOn(target) /\ (NewTiles \ todo)' = NewTiles \ todo
        /\ IdsIn(want)' = IdsIn(want) /\ IdsIn(have)' = IdsIn(have)
        /\ WantsInline(want)' = WantsInline(want) /\ NewTiles' = NewTiles
    BY <2>1 DEF AddedOn, ChartsOf, NewTiles, IdsIn, WantsInline
  <2>4. /\ \A s, c : Carries(c, target, s)' = Carries(c, target, s)
        /\ \A s : AsListed(s)' = AsListed(s) /\ Agrees(s)' = Agrees(s)
    BY <2>1, <2>3 DEF Carries, Strip, AsListed, Agrees
  <2>5. ChartsInStep'
    BY <2>1, <2>2, <2>3, <2>4 DEF ChartsInStep
  <2>6. SameMembership' = SameMembership /\ ChartsOf(target)' = ChartsOf(target)
    BY <2>1 DEF SameMembership, IdsIn, ChartsOf
  <2>7. FieldsInStep'
    BY <2>1, <2>2, <2>6 DEF FieldsInStep
  <2> QED BY <2>5, <2>7
<1>7. ~DashPull /\ ~RefreshFile /\ ~GiveUp /\ ~DashUi /\ ~EditFile
  BY <1>0 DEF DashPull, PullBoard, RefreshFile, GiveUp, DashUi, UiEdit, UiLayout, UiAdd,
              UiRemove, UiMay, EditFile
<1> QED BY <1>1, <1>2, <1>3, <1>4, <1>5, <1>6, <1>7 DEF DashNext, DashStep

\* What the last reading of a push writes is what PushSettles says.
LEMMA RefreshSettles ==
  ASSUME StateType, LocalsType, PushLoaded, PushShape, KnownInv, UndisturbedPush, RefreshFile, calm'
  PROVE  PushSettles'
<1>0. /\ UNCHANGED <<boards, bodies, want, have, target, todo, addedNew, allMatched>>
      /\ dashPc = "refresh" /\ todo = {} /\ calm /\ target \in Boards /\ boards[target] \in Board
      /\ want \in Desired
  <2>1. calm /\ dashPc = "refresh"
    BY Zenon DEF RefreshFile
  <2> QED BY <2>1 DEF RefreshFile, locals, PushShape, PushLoaded, IsLive
<1>1. file' = Reading(target, WantsInline(want), {}, {})
  <2>1. PICK gap : file' = Refreshed(gap[1], gap[2]) /\ calm' = (calm /\ gap = Whole)
    BY DEF RefreshFile
  <2>2. gap = Whole
    BY <2>1, Zenon
  <2>3. gap[1] = {} /\ gap[2] = {}
    BY <2>2 DEF Whole
  <2> QED BY <2>1, <2>3 DEF Refreshed
<1>2. ChartsInStep /\ FieldsInStep
  BY <1>0 DEF UndisturbedPush
<1>3. file'.id = target
  BY <1>1 DEF Reading
<1>4. /\ WantsInline(want)' = WantsInline(want) /\ AddedOn(target)' = AddedOn(target) /\ NewTiles' = NewTiles
      /\ SameMembership' = SameMembership /\ ChartsOf(target)' = ChartsOf(target)
  BY <1>0 DEF WantsInline, AddedOn, NewTiles, SameMembership, ChartsOf, IdsIn
<1>6. boards[target].about = want.about
  BY <1>0, <1>2 DEF FieldsInStep
<1>7. ASSUME NEW t \in want.tiles, have # Absent, t.chart # None, t.chart \in ChartsOf(target)
      PROVE  /\ SameMembership => boards[target].place[t.chart] = t.place
             /\ Agrees(t)
  <2>1. t.chart \in IdsIn(want)
    BY <1>0, <1>7, IdsType
  <2>2. t.chart \in IdsIn(have)
    BY <1>2, <1>7, <2>1 DEF ChartsInStep, AddedOn
  <2>3. PICK h \in have.tiles : h.chart = t.chart
    BY <2>2 DEF IdsIn
  <2>4. Agrees(t)
    BY <1>0, <1>2, <1>7, <2>3 DEF ChartsInStep
  <2>5. SameMembership => boards[target].place[t.chart] = t.place
    BY <1>0, <1>2, <1>7 DEF FieldsInStep
  <2> QED BY <2>4, <2>5
<1>8. /\ Cardinality(AddedOn(target)) = Cardinality(NewTiles)
      /\ \A t \in NewTiles : \E c \in AddedOn(target) : Carries(c, target, t)
  <2>1. NewTiles \ todo = NewTiles
    BY <1>0
  <2> QED BY <1>2, <2>1 DEF ChartsInStep
<1>9. \A t \in want.tiles \ NewTiles : t.chart \in ChartsOf(target) =>
        /\ SameMembership => boards[target].place[t.chart] = t.place
        /\ Agrees(t)
  BY <1>7 DEF NewTiles
<1>5. (WantsInline(want) = WantsInline(file) =>
         Canonical(file) = Canonical(Reading(file.id, WantsInline(file), {}, {})))'
  <2>1. ASSUME WantsInline(want)' = WantsInline(file)'
        PROVE  Reading(file.id, WantsInline(file), {}, {})' = file'
    <3>1. WantsInline(file)' = WantsInline(want)
      BY <1>4, <2>1
    <3>2. Reading(file.id, WantsInline(file), {}, {})' = Reading(target, WantsInline(want), {}, {})
      BY <1>0, <1>3, <3>1 DEF Reading, TileOf, ChartsOf
    <3> QED BY <1>1, <3>2
  <2> QED BY <2>1 DEF Canonical
<1>10. AddedOn(file.id)' = AddedOn(target) /\ ChartsOf(file.id)' = ChartsOf(target)
  BY <1>0, <1>3 DEF AddedOn, ChartsOf, IdsIn
<1>11. (boards[file.id] \in Board /\ boards[file.id].about = want.about)'
  BY <1>0, <1>3, <1>6
<1>12. (\A t \in want.tiles \ NewTiles : t.chart \in ChartsOf(file.id) =>
          /\ SameMembership => boards[file.id].place[t.chart] = t.place
          /\ bodies[t.chart] \in Body /\ WantsInline(want) =>
               /\ bodies[t.chart].title = t.title
               /\ t.asked => bodies[t.chart].query = t.query
               /\ t.look # Blank => bodies[t.chart].look = t.look)'
  BY <1>0, <1>3, <1>4, <1>9, <1>10 DEF Agrees
<1>13. (Cardinality(AddedOn(file.id)) = Cardinality(NewTiles))'
  BY <1>4, <1>8, <1>10
<1>14. (\A t \in NewTiles : \E c \in AddedOn(file.id) :
          Strip(t) = [title |-> bodies[c].title, look |-> bodies[c].look,
                      query |-> bodies[c].query, place |-> boards[file.id].place[c]])'
  BY <1>0, <1>3, <1>4, <1>8, <1>10 DEF Carries, Strip
<1> QED BY <1>5, <1>11, <1>12, <1>13, <1>14 DEF PushSettles, NewTiles

LEMMA SettlesStep ==
  ASSUME StateType, LocalsType, PushLoaded, PushShape, KnownInv, UndisturbedPush, PushSettles, [DashNext]_dashVars
  PROVE  PushSettles'
<1>1. CASE ~(pushed' /\ calm')
  BY <1>1 DEF PushSettles
<1>2. CASE pushed' /\ calm' /\ RefreshFile
  BY <1>2, RefreshSettles
<1>3. CASE pushed' /\ calm' /\ UNCHANGED dashVars
  <2>1. pushed /\ calm /\ UNCHANGED <<boards, bodies, file, want, have, addedNew, allMatched>>
    BY <1>3 DEF dashVars, locals
  <2>2. /\ WantsInline(want)' = WantsInline(want) /\ WantsInline(file)' = WantsInline(file)
        /\ SameMembership' = SameMembership
        /\ ChartsOf(file.id)' = ChartsOf(file.id) /\ AddedOn(file.id)' = AddedOn(file.id)
    BY <2>1 DEF WantsInline, SameMembership, ChartsOf, AddedOn, IdsIn
  <2>3. Reading(file.id, WantsInline(file), {}, {})' = Reading(file.id, WantsInline(file), {}, {})
    BY <2>1, <2>2 DEF Reading, TileOf
  <2>4. Canonical(file)' = Canonical(file)
    BY <2>1 DEF Canonical, Strip
  <2>5. Canonical(Reading(file.id, WantsInline(file), {}, {}))'
          = Canonical(Reading(file.id, WantsInline(file), {}, {}))
    BY <2>3 DEF Canonical, Strip
  <2>6. PushSettles'
    BY <2>1, <2>2, <2>4, <2>5 DEF PushSettles, Strip
  <2> QED BY <2>6
<1>4. pushed' /\ calm' => RefreshFile \/ UNCHANGED dashVars
  <2>1. Forget => ~pushed'
    BY DEF Forget
  <2>2. DashPull \/ PushBoard \/ GiveUp => ~pushed'
    BY <2>1 DEF DashPull, PullBoard, PushBoard, PlanPush, GiveUp
  <2>3. CreateBoard \/ ChartsDone \/ PatchFields => ~pushed'
    BY <2>1 DEF CreateBoard, ChartsDone, PatchFields, Lost, locals, PushShape
  <2>4. ASSUME NEW t \in todo, AddChart(t) \/ EditChart(t) \/ SkipChart(t) PROVE ~pushed'
    BY <2>1, <2>4 DEF AddChart, EditChart, SkipChart, Lost, PushShape
  <2>5. DashUi \/ EditFile => ~calm'
    BY DEF DashUi, UiEdit, UiLayout, UiAdd, UiRemove, UiMay, EditFile
  <2> QED BY <2>2, <2>3, <2>4, <2>5 DEF DashNext, DashStep
<1> QED BY <1>1, <1>2, <1>3, <1>4

LEMMA KnownStart == DashInit => KnownInv /\ CalmInv /\ PushSettles
<1> SUFFICES ASSUME DashInit PROVE KnownInv /\ CalmInv /\ PushSettles
  OBVIOUS
<1>1. BoardsBorn
  BY NothingAssumption DEF DashInit, BoardsBorn, ChartsOf
<1>2. Sound(file)
  <2>1. CASE file = Absent
    BY <2>1 DEF Sound
  <2>2. CASE file # Absent
    <3>1. PICK d \in Boards, deep \in BOOLEAN :
            IsLive(d) /\ \E gap \in Gaps(d) : file = Reading(d, deep, gap[1], gap[2])
      BY <2>2 DEF DashInit
    <3>2. PICK unread, unasked : file = Reading(d, deep, unread, unasked)
      BY <3>1
    <3> QED BY <1>1, <3>1, <3>2, ReadingSound DEF Sound, IsLive
  <2> QED BY <2>1, <2>2
<1>3. KnownInv
  BY <1>1, <1>2 DEF DashInit, KnownInv, Sound
<1>4. CalmInv /\ PushSettles
  BY DEF DashInit, CalmInv, PushShape, UndisturbedPush, PushSettles
<1> QED BY <1>3, <1>4

\* After a push that reports success and that nobody disturbed, the file, the dashboard and
\* its charts are what PushSettles says (Push and Update of the dashboards surface).
THEOREM DashPushSettles == DashSpec => []PushSettles
<1>1. DashInv /\ KnownInv /\ CalmInv /\ PushSettles /\ [DashNext]_dashVars
        => KnownInv' /\ CalmInv' /\ PushSettles'
  <2> SUFFICES ASSUME DashInv, KnownInv, CalmInv, PushSettles, [DashNext]_dashVars
               PROVE  KnownInv' /\ CalmInv' /\ PushSettles'
    OBVIOUS
  <2>1. StateType /\ LocalsType /\ PushLoaded /\ PushShape /\ UndisturbedPush
    BY TypeParts DEF DashInv, CalmInv
  <2>2. dashPc \in {"idle", "create", "charts", "fields", "refresh"}
    BY <2>1 DEF LocalsType
  <2>3. PushShape' /\ UndisturbedPush'
    BY <2>1, <2>2, ShapeStep, UndisturbedStep
  <2>4. CalmInv'
    BY <2>3 DEF CalmInv
  <2> QED BY <2>1, <2>4, FilesKnownStep, SettlesStep
<1> QED BY DashInductive, KnownStart, <1>1, PTL DEF DashSpec

================================================================================
