------------------------------ MODULE RulesProofs ------------------------------
(***************************************************************************)
(* Proofs about RulesLifecycle for every instance, directory, set of       *)
(* faults and bound: types; rules-update overwrites no edit made since its *)
(* file was written; rules-deploy sends what its plan shows; a pull        *)
(* mirrors the instance; a deployment command leaves what was wanted.      *)
(***************************************************************************)
EXTENDS RulesLifecycle, TLAPS

\* The deployments a patch may lead to are deployments.
LEMMA PatchedType ==
  ASSUME NEW dep \in Dep, NEW mask, NEW want \in Dep
  PROVE  Patched(dep, mask, want) \subseteq Dep
<1>1. [field \in DOMAIN dep |-> IF field \in mask THEN want[field] ELSE dep[field]] \in Dep
  BY DEF Dep, Freqs
<1>2. \A full \in Dep : [full EXCEPT !.enabled = FALSE] \in Dep
  BY DEF Dep, Freqs
<1> QED BY <1>1, <1>2 DEF Patched

LEMMA ZeroDepType == ZeroDep \in Dep
BY DEF ZeroDep, Dep, Freqs

LEMMA ResetType ==
  /\ NoSnap \in [Ids -> Listed \cup {Absent}]
  /\ NoComps \in [Stems -> Companion \cup {NoFile}]
  /\ ListedIn(NoSnap) = {}
  /\ \A f \in Stems : NoComps[f] = NoFile
BY DEF NoSnap, NoComps, ListedIn

LEMMA SlugType == \A text \in Texts : Slug(text) \in Stems
BY RulesAssumption DEF Slug

LEMMA LiveType ==
  ASSUME TypeOK, NEW i \in Ids, IsLive(i)
  PROVE  live[i] \in Rule
BY DEF TypeOK, IsLive

LEMMA TrackedType ==
  ASSUME TypeOK
  PROVE  /\ Tracked \subseteq Stems
         /\ \A f \in Tracked : meta[f] \in Companion /\ IsComp(meta[f]) /\ meta[f] # NoFile
BY DEF TypeOK, Tracked, IsComp

\* A listing holds what is live, no more.
LEMMA SnapshotType ==
  ASSUME TypeOK, NEW blank, NEW bare
  PROVE  /\ SnapshotOf(blank, bare) \in [Ids -> Listed \cup {Absent}]
         /\ \A i \in ListedIn(SnapshotOf(blank, bare)) :
              /\ IsLive(i) /\ SnapshotOf(blank, bare)[i].etag = live[i].etag
              /\ SnapshotOf(blank, bare)[i].bare => i \in bare
<1>1. ASSUME NEW i \in Ids, IsLive(i)
      PROVE  [slug |-> Slug(live[i].text),
              text |-> IF i \in blank THEN Blank ELSE live[i].text,
              etag |-> live[i].etag, bare |-> i \in bare, dep |-> live[i].dep] \in Listed
  <2>1. live[i] \in Rule /\ Slug(live[i].text) \in Stems
    BY <1>1, LiveType, SlugType DEF Rule
  <2>2. (i \in bare) \in BOOLEAN
    OBVIOUS
  <2> QED BY <2>1, <2>2 DEF Rule, Listed
<1> QED BY <1>1 DEF SnapshotOf, ListedIn

\* Only the faults leave something out of a listing.
LEMMA LeftOutType ==
  ASSUME NEW fault, NEW left \in LeftOut(fault), NEW i \in left
  PROVE  fault \in Faults
BY DEF LeftOut

LEMMA DeploymentsType ==
  ASSUME TypeOK, NEW i \in Ids, NEW mask, NEW want \in Dep
  PROVE  /\ Deployments(i, mask, want) \subseteq Dep
         /\ Deployments(i, mask, want) # {} => IsLive(i)
BY PatchedType, LiveType DEF Deployments, Rule

LEMMA LiveDepType ==
  ASSUME TypeOK, NEW i \in Ids, IsLive(i), NEW d \in Dep
  PROVE  [live EXCEPT ![i].dep = d] \in [Ids -> Rule \cup {Unborn, Gone}]
BY LiveType DEF TypeOK, Rule

-----------------------------------------------------------------------------
(* Type correctness *)

LEMMA InitShape == Init => ShapeInv
<1> SUFFICES ASSUME Init PROVE ShapeInv
  OBVIOUS
<1>1. live \in [Ids -> Rule \cup {Unborn, Gone}]
  BY RulesAssumption DEF Init, Rule
<1>2. yaral \in [Stems -> Texts \cup {Blank, NoFile}] /\ meta \in [Stems -> Companion \cup {NoFile, Torn}]
  BY DEF Init, NoComps
<1>3. \A f \in Stems : ~IsComp(meta[f])
  BY DEF Init, NoComps, IsComp
<1>4. cmds \in 0..MaxCommands /\ edits \in 0..MaxEdits
  BY RulesAssumption DEF Init
<1>5. TypeOK
  BY <1>1, <1>2, <1>3, <1>4, ResetType, ZeroDepType DEF Init, TypeOK
<1> QED BY <1>5 DEF Init, ShapeInv, PullPcs, PendPcs

\* What a process leaves behind is typed when the files are.
LEMMA ExitShape ==
  ASSUME ShapeInv, Exit,
         live' \in [Ids -> Rule \cup {Unborn, Gone}],
         yaral' \in [Stems -> Texts \cup {Blank, NoFile}],
         meta' \in [Stems -> Companion \cup {NoFile, Torn}],
         base' \in [Stems -> (Ids \X Nat) \cup {Nothing}]
  PROVE  ShapeInv'
<1>1. TypeOK'
  BY ResetType, ZeroDepType DEF ShapeInv, TypeOK, Exit, IsComp
<1> QED BY <1>1 DEF ShapeInv, Exit, PullPcs, PendPcs

\* A companion that broke off keeps the id, and the etag or none.
LEMMA CutType ==
  ASSUME NEW comp \in Companion, NEW c \in Cut(comp)
  PROVE  c \in Companion /\ c.id = comp.id /\ c.etag \in {0, comp.etag}
<1>1. comp.dep \in Dep
  BY DEF Companion
<1>2. CutDeps(comp.dep) \subseteq Dep
  <2>1. [ZeroDep EXCEPT !.enabled = comp.dep.enabled] \in Dep
    BY <1>1, ZeroDepType DEF Dep
  <2>2. [comp.dep EXCEPT !.archived = FALSE, !.freq = ""] \in Dep
    BY <1>1 DEF Dep, Freqs
  <2>3. [comp.dep EXCEPT !.freq = ""] \in Dep
    BY <1>1 DEF Dep, Freqs
  <2> QED BY <2>1, <2>2, <2>3, ZeroDepType DEF CutDeps
<1>3. CASE c = [comp EXCEPT !.etag = 0, !.dep = ZeroDep]
  BY <1>3, ZeroDepType DEF Companion
<1>4. ASSUME NEW d \in CutDeps(comp.dep), c = [comp EXCEPT !.dep = d]
      PROVE  c \in Companion /\ c.id = comp.id /\ c.etag \in {0, comp.etag}
  BY <1>2, <1>4 DEF Companion
<1> QED BY <1>3, <1>4 DEF Cut

LEMMA TornMetaType ==
  ASSUME ShapeInv, pend # Nothing, NEW m \in TornMeta
  PROVE  /\ m \in [Stems -> Companion \cup {NoFile, Torn}]
         /\ \A f \in Stems : IsComp(m[f]) =>
              \/ m[f] = meta[f] /\ IsComp(meta[f])
              \/ f = pend.stem /\ m[f].id = pend.comp.id /\ m[f].etag \in {0, pend.comp.etag}
<1>1. pend.stem \in Stems /\ pend.comp \in Companion
  BY DEF ShapeInv, TypeOK, Pending
<1>2. meta \in [Stems -> Companion \cup {NoFile, Torn}]
  BY DEF ShapeInv, TypeOK
<1>3. CASE m = meta \/ m = [meta EXCEPT ![pend.stem] = Torn]
  BY <1>1, <1>2, <1>3 DEF IsComp
<1>4. ASSUME NEW c \in Cut(pend.comp), m = [meta EXCEPT ![pend.stem] = c]
      PROVE  /\ m \in [Stems -> Companion \cup {NoFile, Torn}]
             /\ \A f \in Stems : IsComp(m[f]) =>
                  \/ m[f] = meta[f] /\ IsComp(meta[f])
                  \/ f = pend.stem /\ m[f].id = pend.comp.id /\ m[f].etag \in {0, pend.comp.etag}
  <2>1. c \in Companion /\ c.id = pend.comp.id /\ c.etag \in {0, pend.comp.etag}
    BY <1>1, <1>4, CutType
  <2>2. \A f \in Stems : IF f = pend.stem THEN m[f] = c ELSE m[f] = meta[f]
    BY <1>1, <1>2, <1>4
  <2>3. m \in [Stems -> Companion \cup {NoFile, Torn}]
    BY <1>1, <1>2, <1>4, <2>1
  <2> QED BY <2>1, <2>2, <2>3
<1> QED BY <1>3, <1>4 DEF TornMeta

\* A push that has read what it works from.
LEMMA PlanShape ==
  ASSUME ShapeInv,
         NEW name \in {"create", "update", "deploy", "disable"}, StartCommand(name, "apply"),
         work' \subseteq Stems,
         snap' \in [Ids -> Listed \cup {Absent}],
         comps' \in [Stems -> Companion \cup {NoFile}],
         texts' \in [Stems -> Texts \cup {Blank, NoFile}],
         opts' \in Dep,
         mishaps' = mishaps,
         name \in {"create", "update"} => \A f \in work' : texts'[f] \in ValidTexts,
         name # "create" => \A f \in work' : comps'[f] # NoFile
  PROVE  ShapeInv'
<1> USE DEF ShapeInv, StartCommand, disk, PullPcs, PendPcs
<1>1. cmds' \in 0..MaxCommands
  BY RulesAssumption DEF TypeOK
<1>2. work' \in (SUBSET Ids) \cup (SUBSET Stems)
  OBVIOUS
<1>3. live' = live /\ yaral' = yaral /\ meta' = meta /\ pend' = pend /\ base' = base
      /\ failed' = failed /\ edits' = edits
  OBVIOUS
<1>4. TypeOK'
  BY <1>1, <1>2, <1>3 DEF TypeOK, IsComp
<1> QED BY <1>3, <1>4

LEMMA StartShape ==
  ASSUME ShapeInv, Start
  PROVE  ShapeInv'
<1> USE RulesAssumption DEF ShapeInv, StartCommand, disk, PullPcs, PendPcs
<1>1. CASE PullList
  <2>1. PICK blank, bare : snap' = SnapshotOf(blank, bare) /\ work' = ListedIn(snap')
    BY <1>1 DEF PullList
  <2>2. snap' \in [Ids -> Listed \cup {Absent}] /\ work' \subseteq Ids /\ work' = ListedIn(snap)'
    BY <2>1, SnapshotType DEF ListedIn
  <2>3. TypeOK'
    BY <1>1, <2>2 DEF PullList, TypeOK, IsComp
  <2> QED BY <1>1, <2>2, <2>3 DEF PullList
<1>2. ASSUME NEW d \in CreateDeps, CreatePlan(d) PROVE ShapeInv'
  <2>1. PICK scope \in {New} \cup {{f} : f \in New} :
          /\ \A f \in scope : yaral[f] \in ValidTexts
          /\ work' = scope
          /\ texts' = [f \in Stems |-> IF f \in scope THEN yaral[f] ELSE NoFile]
    BY <1>2 DEF CreatePlan
  <2>2. scope \subseteq Stems
    BY <2>1 DEF New
  <2>3. texts' \in [Stems -> Texts \cup {Blank, NoFile}] /\ \A f \in work' : texts'[f] \in ValidTexts
    BY <2>1, <2>2
  <2>4. opts' \in Dep
    BY <1>2 DEF CreatePlan
  <2> QED BY <1>2, <2>1, <2>2, <2>3, <2>4, PlanShape DEF CreatePlan, TypeOK
<1>3. CASE UpdatePlan
  <2>1. PICK blank \in LeftOut("text") :
       LET l == SnapshotOf(blank, {})
           cands == UpdateWork(l)
       IN  /\ cands # {}
           /\ \A f \in cands : yaral[f] \in ValidTexts
           /\ snap' = l
           /\ work' = cands
           /\ comps' = [f \in Stems |-> IF f \in cands THEN meta[f] ELSE NoFile]
           /\ texts' = [f \in Stems |-> IF f \in cands THEN yaral[f] ELSE NoFile]
    BY <1>3 DEF UpdatePlan
  <2>2. snap' \in [Ids -> Listed \cup {Absent}]
    BY <2>1, SnapshotType
  <2>3. work' \subseteq Tracked
    BY <2>1 DEF UpdateWork
  <2>4. /\ comps' = [f \in Stems |-> IF f \in work' THEN meta[f] ELSE NoFile]
        /\ texts' = [f \in Stems |-> IF f \in work' THEN yaral[f] ELSE NoFile]
        /\ \A f \in work' : yaral[f] \in ValidTexts
    BY <2>1
  <2>5. comps' \in [Stems -> Companion \cup {NoFile}] /\ \A f \in work' : comps'[f] # NoFile
    BY <2>3, <2>4, TrackedType
  <2>6. texts' \in [Stems -> Texts \cup {Blank, NoFile}] /\ \A f \in work' : texts'[f] \in ValidTexts
    BY <2>3, <2>4, TrackedType
  <2> QED BY <1>3, <2>2, <2>3, <2>5, <2>6, PlanShape, TrackedType DEF UpdatePlan, TypeOK
<1>4. CASE DeployPlan
  <2>1. PICK scope \in {Tracked} \cup {{f} : f \in Tracked} :
          /\ snap' = SnapshotOf({}, {})
          /\ work' = DeployWork(scope, SnapshotOf({}, {}))
          /\ comps' = [f \in Stems |-> IF f \in scope THEN meta[f] ELSE NoFile]
    BY <1>4 DEF DeployPlan
  <2>2. snap' \in [Ids -> Listed \cup {Absent}]
    BY <2>1, SnapshotType
  <2>3. work' \subseteq scope /\ scope \subseteq Tracked
    BY <2>1 DEF DeployWork
  <2>4. comps' = [f \in Stems |-> IF f \in scope THEN meta[f] ELSE NoFile]
    BY <2>1
  <2>5. comps' \in [Stems -> Companion \cup {NoFile}] /\ \A f \in work' : comps'[f] # NoFile
    BY <2>3, <2>4, TrackedType
  <2> QED BY <1>4, <2>2, <2>3, <2>5, PlanShape, TrackedType DEF DeployPlan, TypeOK
<1>5. CASE DisablePlan
  <2>1. /\ work' = {f \in Tracked : meta[f].dep.enabled}
        /\ comps' = [f \in Stems |-> IF f \in work' THEN meta[f] ELSE NoFile]
    BY <1>5 DEF DisablePlan
  <2>2. work' \subseteq Stems
    BY <2>1, TrackedType
  <2>3. comps' \in [Stems -> Companion \cup {NoFile}] /\ \A f \in work' : comps'[f] # NoFile
    BY <2>1, TrackedType
  <2> QED BY <1>5, <2>2, <2>3, PlanShape DEF DisablePlan, TypeOK
<1>6. CASE EndEarly
  BY <1>6 DEF EndEarly, TypeOK, run, IsComp
<1> QED BY <1>1, <1>2, <1>3, <1>4, <1>5, <1>6 DEF Start

\* The companion and the text a pull writes for a listed rule.
LEMMA PullItemType ==
  ASSUME TypeOK, NEW i \in ListedIn(snap), NEW got \in Fallback(i)
  PROVE  /\ i \in Ids /\ snap[i] \in Listed
         /\ got.text \in Texts \cup {Blank} /\ got.version \in Nat /\ got.etag \in Nat
         /\ CompanionOf(i, got.etag) \in Companion
         /\ CompanionOf(i, got.etag).id = i /\ CompanionOf(i, got.etag).etag = got.etag
         /\ \/ got.version = snap[i].etag /\ got.etag \in {snap[i].etag, 0}
            \/ IsLive(i) /\ got.version = live[i].etag /\ got.etag \in {snap[i].etag, live[i].etag, 0}
         /\ got.etag \in {0, live[i].etag} \ {snap[i].etag} => snap[i].bare
<1>1. i \in Ids /\ snap[i] \in Listed /\ snap[i].etag \in Nat /\ snap[i].bare \in BOOLEAN
  BY DEF TypeOK, ListedIn, Listed
<1>2. CASE got = [text |-> snap[i].text, version |-> snap[i].etag,
                  etag |-> IF snap[i].bare THEN 0 ELSE snap[i].etag]
  <2>1. got.text = snap[i].text /\ got.version = snap[i].etag
        /\ got.etag = IF snap[i].bare THEN 0 ELSE snap[i].etag
    BY <1>2
  <2>2. snap[i].text \in Texts \cup {Blank}
    BY <1>1 DEF Listed
  <2>3. got.etag \in Nat
    BY <1>1, <2>1
  <2>4. CompanionOf(i, got.etag) \in Companion
        /\ CompanionOf(i, got.etag).id = i /\ CompanionOf(i, got.etag).etag = got.etag
    BY <1>1, <2>3 DEF CompanionOf, Companion, Listed
  <2> QED BY <1>1, <2>1, <2>2, <2>3, <2>4
<1>3. ASSUME IsLive(i), NEW e \in (IF snap[i].bare THEN {0, live[i].etag} ELSE {snap[i].etag}),
             got = [text |-> live[i].text, version |-> live[i].etag, etag |-> e]
      PROVE  /\ got.text \in Texts \cup {Blank} /\ got.version \in Nat /\ got.etag \in Nat
             /\ CompanionOf(i, got.etag) \in Companion
             /\ CompanionOf(i, got.etag).id = i /\ CompanionOf(i, got.etag).etag = got.etag
             /\ got.version = live[i].etag /\ got.etag \in {snap[i].etag, live[i].etag, 0}
             /\ got.etag \in {0, live[i].etag} \ {snap[i].etag} => snap[i].bare
  <2>1. live[i].text \in Texts /\ live[i].etag \in Nat
    BY <1>1, <1>3, LiveType DEF Rule
  <2>2. got.text = live[i].text /\ got.version = live[i].etag /\ got.etag = e
    BY <1>3
  <2>3. e \in Nat
    BY <1>1, <2>1
  <2>4. CompanionOf(i, e) \in Companion /\ CompanionOf(i, e).id = i /\ CompanionOf(i, e).etag = e
    BY <1>1, <2>3 DEF CompanionOf, Companion, Listed
  <2> QED BY <1>3, <2>1, <2>2, <2>3, <2>4
<1>4. \/ got = [text |-> snap[i].text, version |-> snap[i].etag,
                etag |-> IF snap[i].bare THEN 0 ELSE snap[i].etag]
      \/ /\ IsLive(i)
         /\ \E e \in (IF snap[i].bare THEN {0, live[i].etag} ELSE {snap[i].etag}) :
              got = [text |-> live[i].text, version |-> live[i].etag, etag |-> e]
  BY DEF Fallback
<1> QED BY <1>1, <1>2, <1>3, <1>4

LEMMA PullStepShape ==
  ASSUME ShapeInv, PullStep
  PROVE  ShapeInv'
<1> USE DEF ShapeInv, disk, PullPcs, PendPcs
<1>1. ASSUME pc = "deps", pc' = "text", mishaps' \subseteq Mishaps,
             NEW got \in [Ids -> Dep],
             snap' = [i \in Ids |-> IF snap[i] = Absent THEN Absent
                                    ELSE [snap[i] EXCEPT !.dep = got[i]]],
             UNCHANGED <<live, disk, cmd, comps, texts, opts, work, pend, failed, cmds, edits, base>>
      PROVE  ShapeInv'
  <2>1. \A i \in Ids : snap[i] # Absent => [snap[i] EXCEPT !.dep = got[i]] \in Listed
    BY DEF TypeOK, Listed
  <2>2. snap' \in [Ids -> Listed \cup {Absent}] /\ ListedIn(snap)' = ListedIn(snap)
    BY <1>1, <2>1, PlaceholdersAssumption DEF ListedIn
  <2>3. TypeOK'
    BY <1>1, <2>2 DEF TypeOK, IsComp
  <2> QED BY <1>1, <2>2, <2>3
<1>2. CASE PullDeps
  <2> DEFINE got == [i \in Ids |-> IF IsLive(i) THEN live[i].dep ELSE ZeroDep]
  <2>1. got \in [Ids -> Dep]
    BY LiveType, ZeroDepType DEF Rule
  <2>2. snap' = [i \in Ids |-> IF snap[i] = Absent THEN Absent
                               ELSE [snap[i] EXCEPT !.dep = got[i]]]
    BY <1>2 DEF PullDeps
  <2>3. mishaps' \subseteq Mishaps
    BY <1>2 DEF PullDeps, TypeOK
  <2> HIDE DEF got
  <2> QED BY <1>1, <1>2, <2>1, <2>2, <2>3 DEF PullDeps
<1>3. CASE PullDepsFails
  <2> DEFINE got == [i \in Ids |-> ZeroDep]
  <2>1. got \in [Ids -> Dep]
    BY ZeroDepType
  <2>2. snap' = [i \in Ids |-> IF snap[i] = Absent THEN Absent
                               ELSE [snap[i] EXCEPT !.dep = got[i]]]
    BY <1>3 DEF PullDepsFails
  <2>3. mishaps' \subseteq Mishaps
    BY <1>3 DEF PullDepsFails, TypeOK, Mishaps
  <2> HIDE DEF got
  <2> QED BY <1>1, <1>3, <2>1, <2>2, <2>3 DEF PullDepsFails
<1>4. ASSUME NEW i \in Ids, PullText(i) PROVE ShapeInv'
  <2>1. i \in ListedIn(snap)
    BY <1>4 DEF PullText
  <2>2. PICK got \in Fallback(i) :
          /\ yaral' = [yaral EXCEPT ![snap[i].slug] = got.text]
          /\ base' = [base EXCEPT ![snap[i].slug] = <<i, got.version>>]
          /\ mishaps' = IF got.text = Blank THEN mishaps \cup {"text"} ELSE mishaps
          /\ pend' = [stem |-> snap[i].slug, comp |-> CompanionOf(i, got.etag)]
    BY <1>4 DEF PullText
  <2>3. pend' \in Pending /\ snap[i].slug \in Stems
    BY <2>1, <2>2, PullItemType DEF Pending, Listed
  <2>4. /\ yaral' \in [Stems -> Texts \cup {Blank, NoFile}]
        /\ base' \in [Stems -> (Ids \X Nat) \cup {Nothing}]
        /\ mishaps' \subseteq Mishaps
    BY <2>1, <2>2, <2>3, PullItemType DEF TypeOK, Mishaps
  <2>5. TypeOK'
    BY <1>4, <2>3, <2>4 DEF PullText, TypeOK, IsComp
  <2>6. pend' # Nothing
    BY <2>3, PlaceholdersAssumption
  <2>7. ListedIn(snap)' = ListedIn(snap)
    BY <1>4 DEF PullText, ListedIn
  <2> QED BY <1>4, <2>5, <2>6, <2>7 DEF PullText
<1>5. ASSUME NEW i \in Ids, PullTextFails(i) PROVE ShapeInv'
  <2>1. i \in ListedIn(snap) /\ snap[i].slug \in Stems /\ snap[i].etag \in Nat
    BY <1>5 DEF PullTextFails, TypeOK, Listed, ListedIn
  <2>2. /\ yaral' \in [Stems -> Texts \cup {Blank, NoFile}]
        /\ base' \in [Stems -> (Ids \X Nat) \cup {Nothing}]
    <3>1. yaral' = yaral \/ yaral' = [yaral EXCEPT ![snap[i].slug] = Blank]
      BY <1>5 DEF PullTextFails
    <3>2. base' = base \/ base' = [base EXCEPT ![snap[i].slug] = <<i, snap[i].etag>>]
      BY <1>5 DEF PullTextFails
    <3>3. yaral' \in [Stems -> Texts \cup {Blank, NoFile}]
      BY <2>1, <3>1 DEF TypeOK
    <3>4. base' \in [Stems -> (Ids \X Nat) \cup {Nothing}]
      BY <2>1, <3>2 DEF TypeOK
    <3> QED BY <3>3, <3>4
  <2> QED BY <1>5, <2>2, ExitShape DEF PullTextFails, TypeOK
<1>6. CASE PullMeta
  <2>1. pend \in Pending /\ pend # Nothing
    BY <1>6 DEF PullMeta, TypeOK
  <2>2. meta' \in [Stems -> Companion \cup {NoFile, Torn}]
    BY <1>6, <2>1 DEF PullMeta, TypeOK, Pending
  <2>3. TypeOK'
    BY <1>6, <2>2 DEF PullMeta, TypeOK, IsComp
  <2>4. ListedIn(snap)' = ListedIn(snap)
    BY <1>6 DEF PullMeta, ListedIn
  <2> QED BY <1>6, <2>3, <2>4 DEF PullMeta
<1>7. CASE PullMetaFails
  <2>1. pend # Nothing
    BY <1>7 DEF PullMetaFails
  <2> QED BY <1>7, <2>1, TornMetaType, ExitShape DEF PullMetaFails, TypeOK
<1>8. CASE PullDone
  BY <1>8, ExitShape DEF PullDone, TypeOK
<1> QED BY <1>2, <1>3, <1>4, <1>5, <1>6, <1>7, <1>8 DEF PullStep

-----------------------------------------------------------------------------
(* What the calls may leave live and record *)

RuleOrNone == Rule \cup {Unborn, Gone}

\* At an item of a push, its working variables are there.
LEMMA TurnType ==
  ASSUME ShapeInv, NEW f \in Stems, Turn(f)
  PROVE  /\ cmd \in {"create", "update", "deploy", "disable"}
         /\ cmd \in {"create", "update"} => texts[f] \in Texts
         /\ cmd \in {"update", "deploy", "disable"} =>
              comps[f] \in Companion /\ comps[f] # NoFile
BY RulesAssumption DEF ShapeInv, TypeOK, Turn, PullPcs

LEMMA CreateResultsType ==
  ASSUME ShapeInv, NEW f \in Stems, Turn(f), cmd = "create", NEW r \in CreateResults(f)
  PROVE  /\ r.live \in [Ids -> RuleOrNone]
         /\ r.comp \in Companion /\ r.comp.etag = 1
         /\ live[r.comp.id] = Unborn
         /\ r.live = [live EXCEPT ![r.comp.id] = NewRule(texts[f])]
         /\ NewRule(texts[f]) \in Rule
<1>1. PICK i \in Ids : /\ live[i] = Unborn
                       /\ r = [live |-> [live EXCEPT ![i] = NewRule(texts[f])],
                               comp |-> [id |-> i, etag |-> 1, dep |-> opts]]
  BY DEF CreateResults
<1>2. NewRule(texts[f]) \in Rule
  BY TurnType, ZeroDepType DEF NewRule, Rule
<1>3. [id |-> i, etag |-> 1, dep |-> opts] \in Companion
  BY DEF Companion, ShapeInv, TypeOK
<1>4. [live EXCEPT ![i] = NewRule(texts[f])] \in [Ids -> RuleOrNone]
  BY <1>2 DEF ShapeInv, TypeOK, RuleOrNone
<1> QED BY <1>1, <1>2, <1>3, <1>4

LEMMA NewVersion ==
  ASSUME NEW rule \in Rule, NEW text \in Texts
  PROVE  LET new == [rule EXCEPT !.text = text, !.etag = @ + 1]
         IN  new \in Rule /\ new.etag = rule.etag + 1
<1> DEFINE one == [rule EXCEPT !.text = text]
           new == [one EXCEPT !.etag = one.etag + 1]
<1>1. one \in Rule /\ one.etag = rule.etag
  BY DEF Rule
<1> HIDE DEF one
<1>2. new \in Rule /\ new.etag = one.etag + 1
  BY <1>1 DEF Rule
<1>3. [rule EXCEPT !.text = text, !.etag = @ + 1] = [one EXCEPT !.etag = one.etag + 1]
  BY DEF one
<1> QED BY <1>1, <1>2, <1>3

LEMMA UpdateResultsType ==
  ASSUME ShapeInv, NEW f \in Stems, Turn(f), cmd = "update", NEW r \in UpdateResults(f)
  PROVE  /\ r.live \in [Ids -> RuleOrNone]
         /\ comps[f].id \in Ids /\ IsLive(comps[f].id)
         /\ comps[f].etag \in {0, live[comps[f].id].etag}
         /\ r.comp = [comps[f] EXCEPT !.etag = live[comps[f].id].etag + 1]
         /\ r.live = [live EXCEPT ![comps[f].id].text = texts[f],
                                  ![comps[f].id].etag = @ + 1]
         /\ r.live[comps[f].id] \in Rule
         /\ r.live[comps[f].id].etag = live[comps[f].id].etag + 1
         /\ r.comp \in Companion
<1> DEFINE i == comps[f].id
           new == [live EXCEPT ![i].text = texts[f], ![i].etag = @ + 1]
<1>1. /\ IsLive(i) /\ EtagSent(f) \in {0, live[i].etag}
      /\ r = [live |-> new, comp |-> [comps[f] EXCEPT !.etag = EtagAfter(i)]]
  BY DEF UpdateResults
<1>2. comps[f] \in Companion /\ i \in Ids /\ texts[f] \in Texts
  BY TurnType DEF Companion
<1>3. live[i] \in Rule
  BY <1>1, <1>2, LiveType DEF ShapeInv
<1>4. new[i] = [live[i] EXCEPT !.text = texts[f], !.etag = @ + 1]
  BY <1>2, <1>3 DEF ShapeInv, TypeOK, Rule
<1>5. new[i] \in Rule /\ new[i].etag = live[i].etag + 1
  <2> HIDE DEF new
  <2> QED BY <1>2, <1>3, <1>4, NewVersion
<1>6. new \in [Ids -> RuleOrNone]
  BY <1>2, <1>4, <1>5 DEF ShapeInv, TypeOK, RuleOrNone
<1>7. comps[f].etag \in {0, live[i].etag}
  BY <1>1, <1>2 DEF EtagSent, Companion
<1>8. r.comp = [comps[f] EXCEPT !.etag = live[i].etag + 1] /\ r.comp \in Companion
  BY <1>1, <1>2, <1>3 DEF EtagAfter, Companion, Rule
<1> HIDE DEF new
<1>9. r.live = new
  BY <1>1
<1> QED BY <1>1, <1>2, <1>5, <1>6, <1>7, <1>8, <1>9 DEF new

\* A deployment call leaves texts and versions alone, live and recorded.
LEMMA DeployTouches ==
  ASSUME TypeOK, NEW i \in Ids, IsLive(i), NEW d \in Dep
  PROVE  LET new == [live EXCEPT ![i].dep = d] IN
         /\ new \in [Ids -> RuleOrNone]
         /\ new[i] \in Rule
         /\ \A j \in Ids : /\ new[j] \in Rule <=> live[j] \in Rule
                           /\ live[j] \notin Rule => new[j] = live[j]
                           /\ live[j] \in Rule => new[j].etag = live[j].etag
<1>1. live[i] \in Rule
  BY LiveType
<1> QED BY <1>1 DEF TypeOK, Rule, RuleOrNone

LEMMA DeployResultsType ==
  ASSUME ShapeInv, NEW f \in Stems, Turn(f), cmd \in {"deploy", "disable"},
         NEW r \in Results(f)
  PROVE  \E d \in Dep :
         /\ comps[f].id \in Ids /\ IsLive(comps[f].id)
         /\ r.live = [live EXCEPT ![comps[f].id].dep = d]
         /\ r.comp \in Companion
         /\ r.comp.id = comps[f].id /\ r.comp.etag = comps[f].etag
<1>0. comps[f] \in Companion /\ comps[f].id \in Ids /\ comps[f].dep \in Dep
  BY TurnType DEF Companion
<1>1. CASE cmd = "deploy"
  <2>1. PICK d \in Deployments(comps[f].id, DeployMask(f), comps[f].dep) :
          r = [live |-> [live EXCEPT ![comps[f].id].dep = d], comp |-> [comps[f] EXCEPT !.dep = d]]
    BY <1>1 DEF Results, DeployResults
  <2>2. d \in Dep /\ IsLive(comps[f].id)
    BY <1>0, DeploymentsType DEF ShapeInv
  <2>3. [comps[f] EXCEPT !.dep = d] \in Companion
    BY <1>0, <2>2 DEF Companion
  <2>4. r.comp.id = comps[f].id /\ r.comp.etag = comps[f].etag
    BY <1>0, <2>1 DEF Companion
  <2> QED BY <1>0, <2>1, <2>2, <2>3, <2>4
<1>2. CASE cmd = "disable"
  <2>1. PICK d \in Deployments(comps[f].id, {"enabled"}, ZeroDep) :
          r = [live |-> [live EXCEPT ![comps[f].id].dep = d], comp |-> DisableEcho(comps[f], d)]
    BY <1>2 DEF Results, DisableResults
  <2>2. d \in Dep /\ IsLive(comps[f].id)
    BY <1>0, ZeroDepType, DeploymentsType DEF ShapeInv
  <2>3. [d EXCEPT !.freq = IF @ # "" THEN @ ELSE comps[f].dep.freq] \in Dep
    BY <1>0, <2>2 DEF Dep
  <2>4. DisableEcho(comps[f], d) \in Companion
        /\ DisableEcho(comps[f], d).id = comps[f].id /\ DisableEcho(comps[f], d).etag = comps[f].etag
    BY <1>0, <2>3 DEF DisableEcho, Companion
  <2> QED BY <1>0, <2>1, <2>2, <2>4
<1> QED BY <1>1, <1>2
-----------------------------------------------------------------------------
(* Type correctness of a push *)

LEMMA ResultsType ==
  ASSUME ShapeInv, NEW f \in Stems, Turn(f), NEW r \in Results(f)
  PROVE  r.live \in [Ids -> RuleOrNone] /\ r.comp \in Companion
<1>1. CASE cmd = "create"
  BY <1>1, CreateResultsType DEF Results
<1>2. CASE cmd = "update"
  BY <1>2, TurnType, UpdateResultsType DEF Results
<1>3. CASE cmd \in {"deploy", "disable"}
  <2>1. PICK d \in Dep : /\ comps[f].id \in Ids /\ IsLive(comps[f].id)
                         /\ r.live = [live EXCEPT ![comps[f].id].dep = d]
                         /\ r.comp \in Companion
                         /\ r.comp.id = comps[f].id /\ r.comp.etag = comps[f].etag
    BY <1>3, DeployResultsType
  <2> QED BY <2>1, LiveDepType DEF ShapeInv, RuleOrNone
<1> QED BY <1>1, <1>2, <1>3, TurnType

\* An item that leaves a companion to write.
LEMMA AppliedShape ==
  ASSUME ShapeInv, NEW f \in Stems, Turn(f), NEW r, NEW at \in {"firstDeploy", "record"},
         Applied(f, r, at),
         r.live \in [Ids -> RuleOrNone], r.comp \in Companion,
         at = "firstDeploy" => cmd = "create",
         base' \in [Stems -> (Ids \X Nat) \cup {Nothing}]
  PROVE  ShapeInv'
<1> USE DEF ShapeInv, disk, PullPcs, PendPcs
<1>1. pend' \in Pending /\ pend' # Nothing
  BY PlaceholdersAssumption DEF Applied, Pending
<1>2. cmd \in {"create", "update", "deploy", "disable"} /\ work \subseteq Stems
      /\ work' \subseteq work
  BY TurnType DEF Applied, Rest
<1>3. TypeOK'
  BY <1>1, <1>2 DEF Applied, TypeOK, IsComp, RuleOrNone
<1> QED BY <1>1, <1>2, <1>3 DEF Applied

\* An item that leaves none.
LEMMA SettledShape ==
  ASSUME ShapeInv, NEW f \in Stems, Turn(f),
         live' \in [Ids -> RuleOrNone],
         work' = Rest(f), failed' \in BOOLEAN, mishaps' \subseteq Mishaps,
         UNCHANGED <<disk, cmd, pc, snap, comps, texts, opts, pend, cmds, edits, base>>
  PROVE  ShapeInv'
<1> USE DEF ShapeInv, disk, PullPcs, PendPcs
<1>1. cmd \in {"create", "update", "deploy", "disable"} /\ work \subseteq Stems
      /\ work' \subseteq work
  BY TurnType DEF Rest
<1>2. TypeOK'
  BY <1>1 DEF TypeOK, IsComp, RuleOrNone
<1> QED BY <1>1, <1>2 DEF Turn

\* The steps between the creation of a rule and its companion.
LEMMA FirstShape ==
  ASSUME ShapeInv, pc \in {"firstDeploy", "redeploy"}, pc' \in {"redeploy", "record"},
         live' \in [Ids -> RuleOrNone], pend' \in Pending, mishaps' \subseteq Mishaps,
         UNCHANGED <<disk, cmd, snap, comps, texts, opts, work, failed, cmds, edits, base>>
  PROVE  ShapeInv'
<1> USE DEF ShapeInv, disk, PullPcs, PendPcs
<1>1. pend' # Nothing /\ cmd = "create"
  BY PlaceholdersAssumption
<1>2. TypeOK'
  BY DEF TypeOK, IsComp, RuleOrNone
<1> QED BY <1>1, <1>2

\* What the first deployments may leave live and pending.
LEMMA FirstType ==
  ASSUME ShapeInv, pc \in {"firstDeploy", "redeploy"}, NEW want \in Dep,
         NEW d \in Deployments(pend.comp.id, Fields, want)
  PROVE  /\ d \in Dep /\ pend \in Pending /\ pend.comp.id \in Ids /\ IsLive(pend.comp.id)
         /\ [live EXCEPT ![pend.comp.id].dep = d] \in [Ids -> RuleOrNone]
         /\ [pend EXCEPT !.comp.dep = d] \in Pending
         /\ [pend EXCEPT !.comp.dep = d].stem = pend.stem
         /\ [pend EXCEPT !.comp.dep = d].comp.id = pend.comp.id
         /\ [pend EXCEPT !.comp.dep = d].comp.etag = pend.comp.etag
<1>1. pend \in Pending /\ pend.comp.id \in Ids
  BY DEF ShapeInv, TypeOK, PendPcs, Pending, Companion
<1>2. d \in Dep /\ IsLive(pend.comp.id)
  BY <1>1, DeploymentsType DEF ShapeInv
<1>3. [live EXCEPT ![pend.comp.id].dep = d] \in [Ids -> RuleOrNone]
  BY <1>1, <1>2, LiveDepType DEF ShapeInv, RuleOrNone
<1>4. [pend.comp EXCEPT !.dep = d] \in Companion
      /\ [pend.comp EXCEPT !.dep = d].id = pend.comp.id
      /\ [pend.comp EXCEPT !.dep = d].etag = pend.comp.etag
  BY <1>1, <1>2 DEF Pending, Companion
<1>5. [pend EXCEPT !.comp.dep = d] = [pend EXCEPT !.comp = [pend.comp EXCEPT !.dep = d]]
  BY <1>1 DEF Pending
<1> QED BY <1>1, <1>2, <1>3, <1>4, <1>5 DEF Pending

LEMMA RedeployWant ==
  ASSUME ShapeInv, pc = "redeploy"
  PROVE  [opts EXCEPT !.freq = RunnableFreq(pend.comp.dep)] \in Dep
<1>1. pend.comp.dep \in Dep /\ opts \in Dep
  BY DEF ShapeInv, TypeOK, PendPcs, Pending, Companion
<1> QED BY <1>1 DEF RunnableFreq, Dep, Freqs

LEMMA PushStepShape ==
  ASSUME ShapeInv, PushStep
  PROVE  ShapeInv'
<1>1. ASSUME NEW f \in Stems, CreateCall(f) PROVE ShapeInv'
  <2>1. PICK r \in CreateResults(f) :
          /\ Applied(f, r, "firstDeploy")
          /\ base' = [base EXCEPT ![f] = <<r.comp.id, r.comp.etag>>]
    BY <1>1 DEF CreateCall
  <2>2. r.live \in [Ids -> RuleOrNone] /\ r.comp \in Companion
    BY <1>1, CreateResultsType DEF CreateCall
  <2>3. base' \in [Stems -> (Ids \X Nat) \cup {Nothing}]
    BY <2>1, <2>2 DEF ShapeInv, TypeOK, Companion
  <2> QED BY <1>1, <2>1, <2>2, <2>3, AppliedShape DEF CreateCall
<1>2. ASSUME NEW f \in Stems, UpdateCall(f) PROVE ShapeInv'
  <2>1. PICK r \in UpdateResults(f) :
          /\ Applied(f, r, "record")
          /\ base' = [base EXCEPT ![f] = <<r.comp.id, r.comp.etag>>]
    BY <1>2 DEF UpdateCall
  <2>2. r.live \in [Ids -> RuleOrNone] /\ r.comp \in Companion
    BY <1>2, ResultsType DEF UpdateCall, Results
  <2>3. base' \in [Stems -> (Ids \X Nat) \cup {Nothing}]
    BY <2>1, <2>2 DEF ShapeInv, TypeOK, Companion
  <2> QED BY <1>2, <2>1, <2>2, <2>3, AppliedShape DEF UpdateCall
<1>3. ASSUME NEW f \in Stems, DeployCall(f) PROVE ShapeInv'
  <2>1. PICK r \in DeployResults(f) : Applied(f, r, "record")
    BY <1>3 DEF DeployCall
  <2>2. r.live \in [Ids -> RuleOrNone] /\ r.comp \in Companion
    BY <1>3, ResultsType DEF DeployCall, Results
  <2> QED BY <1>3, <2>1, <2>2, AppliedShape DEF DeployCall, ShapeInv, TypeOK
<1>4. ASSUME NEW f \in Stems, DisableCall(f) PROVE ShapeInv'
  <2>1. PICK r \in DisableResults(f) : Applied(f, r, "record")
    BY <1>4 DEF DisableCall
  <2>2. r.live \in [Ids -> RuleOrNone] /\ r.comp \in Companion
    BY <1>4, ResultsType DEF DisableCall, Results
  <2> QED BY <1>4, <2>1, <2>2, AppliedShape DEF DisableCall, ShapeInv, TypeOK
<1>5. ASSUME NEW f \in Stems, DeployAlready(f) PROVE ShapeInv'
  <2> DEFINE r == [live |-> live, comp |-> [comps[f] EXCEPT !.dep = live[comps[f].id].dep]]
  <2>1. comps[f] \in Companion /\ comps[f].id \in Ids /\ IsLive(comps[f].id)
    BY <1>5, TurnType DEF DeployAlready, AlreadyThere, Companion
  <2>2. live[comps[f].id].dep \in Dep
    BY <2>1, LiveType DEF ShapeInv, Rule
  <2>3. r.live \in [Ids -> RuleOrNone] /\ r.comp \in Companion
    BY <2>1, <2>2 DEF ShapeInv, TypeOK, RuleOrNone, Companion
  <2>4. Applied(f, r, "record") /\ Turn(f) /\ base' = base
    BY <1>5 DEF DeployAlready
  <2> HIDE DEF r
  <2> QED BY <2>3, <2>4, AppliedShape DEF ShapeInv, TypeOK
<1>6. ASSUME NEW f \in Stems, DeployAlreadyUnread(f) PROVE ShapeInv'
  BY <1>6, SettledShape DEF DeployAlreadyUnread, ShapeInv, TypeOK, RuleOrNone, Mishaps
<1>7. ASSUME NEW f \in Stems, CallFails(f) PROVE ShapeInv'
  BY <1>7, SettledShape DEF CallFails, Fail, ShapeInv, TypeOK, RuleOrNone
<1>8. ASSUME NEW f \in Stems, CallLost(f) PROVE ShapeInv'
  <2>1. live' \in [Ids -> RuleOrNone]
    BY <1>8, ResultsType DEF CallLost
  <2> QED BY <1>8, <2>1, SettledShape DEF CallLost, Fail, ShapeInv, TypeOK
<1>9. CASE FirstDeploy
  <2>1. PICK d \in Deployments(pend.comp.id, Fields, opts) :
          /\ live' = [live EXCEPT ![pend.comp.id].dep = d]
          /\ pend' = [pend EXCEPT !.comp.dep = d]
    BY <1>9 DEF FirstDeploy
  <2>2. live' \in [Ids -> RuleOrNone] /\ pend' \in Pending
    BY <1>9, <2>1, FirstType DEF FirstDeploy, ShapeInv, TypeOK
  <2> QED BY <1>9, <2>2, FirstShape DEF FirstDeploy, ShapeInv, TypeOK
<1>10. CASE FirstDeployFails
  <2>1. live' \in [Ids -> RuleOrNone]
    <3>1. \A d \in Deployments(pend.comp.id, Fields, opts) :
            [live EXCEPT ![pend.comp.id].dep = d] \in [Ids -> RuleOrNone]
      BY <1>10, FirstType DEF FirstDeployFails, ShapeInv, TypeOK
    <3>2. live \in [Ids -> RuleOrNone]
      BY DEF ShapeInv, TypeOK, RuleOrNone
    <3> QED BY <1>10, <3>1, <3>2 DEF FirstDeployFails
  <2>2. pend' \in Pending
    BY <1>10 DEF FirstDeployFails, ShapeInv, TypeOK, PendPcs
  <2> QED BY <1>10, <2>1, <2>2, FirstShape DEF FirstDeployFails, ShapeInv, TypeOK, Mishaps
<1>11. CASE Redeploy
  <2>1. PICK d \in Redeployments : /\ live' = [live EXCEPT ![pend.comp.id].dep = d]
                                   /\ pend' = [pend EXCEPT !.comp.dep = d]
    BY <1>11 DEF Redeploy
  <2>2. live' \in [Ids -> RuleOrNone] /\ pend' \in Pending
    BY <1>11, <2>1, FirstType, RedeployWant DEF Redeploy, Redeployments
  <2> QED BY <1>11, <2>2, FirstShape DEF Redeploy, ShapeInv, TypeOK
<1>12. CASE RedeployFails
  <2>1. live' \in [Ids -> RuleOrNone]
    <3>1. \A d \in Redeployments :
            [live EXCEPT ![pend.comp.id].dep = d] \in [Ids -> RuleOrNone]
      BY <1>12, FirstType, RedeployWant DEF RedeployFails, Redeployments
    <3>2. live \in [Ids -> RuleOrNone]
      BY DEF ShapeInv, TypeOK, RuleOrNone
    <3> QED BY <1>12, <3>1, <3>2 DEF RedeployFails
  <2>2. pend' \in Pending
    BY <1>12 DEF RedeployFails, ShapeInv, TypeOK, PendPcs
  <2> QED BY <1>12, <2>1, <2>2, FirstShape DEF RedeployFails, ShapeInv, TypeOK, Mishaps
<1>13. CASE Record \/ RecordFails
  <2> USE DEF ShapeInv, PullPcs, PendPcs
  <2>1. pend \in Pending /\ pend # Nothing
    BY <1>13 DEF Record, RecordFails, TypeOK
  <2>2. meta' \in [Stems -> Companion \cup {NoFile, Torn}]
    <3>1. CASE Record
      BY <3>1, <2>1 DEF Record, TypeOK, Pending
    <3>2. CASE RecordFails
      BY <3>2, <2>1, TornMetaType DEF RecordFails, TypeOK
    <3> QED BY <1>13, <3>1, <3>2
  <2>3. mishaps' \subseteq Mishaps
    BY <1>13 DEF Record, RecordFails, TypeOK, Mishaps
  <2>4. TypeOK'
    BY <1>13, <2>2, <2>3 DEF Record, RecordFails, TypeOK, IsComp
  <2>5. cmd \in {"create", "update", "deploy", "disable"}
    BY <1>13 DEF Record, RecordFails, TypeOK
  <2> QED BY <1>13, <2>4, <2>5 DEF Record, RecordFails
<1>14. CASE PushDone
  BY <1>14, ExitShape DEF PushDone, disk, ShapeInv, TypeOK
<1> QED BY <1>1, <1>2, <1>3, <1>4, <1>5, <1>6, <1>7, <1>8, <1>9, <1>10, <1>11, <1>12, <1>13,
           <1>14 DEF PushStep

LEMMA CrashShape ==
  ASSUME ShapeInv, Crash
  PROVE  ShapeInv'
<1>1. meta' \in [Stems -> Companion \cup {NoFile, Torn}]
  <2>1. CASE pc \in {"meta", "record"}
    BY <2>1, TornMetaType DEF Crash, ShapeInv, TypeOK, PendPcs
  <2>2. CASE pc \notin {"meta", "record"}
    BY <2>2 DEF Crash, ShapeInv, TypeOK
  <2> QED BY <2>1, <2>2
<1>2. /\ yaral' \in [Stems -> Texts \cup {Blank, NoFile}]
      /\ base' \in [Stems -> (Ids \X Nat) \cup {Nothing}]
  <2>1. CASE UNCHANGED <<yaral, base>>
    BY <2>1 DEF ShapeInv, TypeOK
  <2>2. ASSUME NEW i \in work, pc = "text",
               yaral' = [yaral EXCEPT ![snap[i].slug] = Blank],
               base' = [base EXCEPT ![snap[i].slug] = <<i, snap[i].etag>>]
        PROVE  /\ yaral' \in [Stems -> Texts \cup {Blank, NoFile}]
               /\ base' \in [Stems -> (Ids \X Nat) \cup {Nothing}]
    <3>1. i \in Ids /\ snap[i] \in Listed
      BY <2>2 DEF ShapeInv, TypeOK, PullPcs, ListedIn
    <3> QED BY <2>2, <3>1 DEF ShapeInv, TypeOK, Listed
  <2> QED BY <2>1, <2>2 DEF Crash
<1> QED BY <1>1, <1>2, ExitShape DEF Crash, ShapeInv, TypeOK

LEMMA EnvironmentShape ==
  ASSUME ShapeInv, Environment
  PROVE  ShapeInv'
<1>1. ASSUME NEW race, Outside(race),
             live' \in [Ids -> Rule \cup {Unborn, Gone}],
             yaral' \in [Stems -> Texts \cup {Blank, NoFile}],
             meta' \in [Stems -> Companion \cup {NoFile, Torn}]
      PROVE  ShapeInv'
  <2>0. edits' \in 0..MaxEdits
    BY <1>1, RulesAssumption DEF Outside, ShapeInv, TypeOK
  <2>1. edits' \in 0..MaxEdits /\ mishaps' \subseteq Mishaps
    BY <1>1, <2>0 DEF Outside, ShapeInv, TypeOK, Mishaps
  <2>2. TypeOK'
    BY <1>1, <2>1 DEF Outside, run, ShapeInv, TypeOK, IsComp
  <2> QED BY <1>1, <2>2 DEF Outside, run, ShapeInv, PullPcs, PendPcs, ListedIn
<1>2. ASSUME NEW i \in Ids, UiText(i) PROVE ShapeInv'
  <2>1. PICK t \in ValidTexts :
          \/ \E d \in UiDeps : live' = [live EXCEPT ![i] = [text |-> t, etag |-> 1, dep |-> d]]
          \/ /\ IsLive(i)
             /\ live' = [live EXCEPT ![i].text = t, ![i].etag = @ + 1]
    BY <1>2 DEF UiText
  <2>2. t \in Texts /\ \A d \in UiDeps : [text |-> t, etag |-> 1, dep |-> d] \in Rule
    BY RulesAssumption DEF Rule
  <2>3. IsLive(i) => [live[i] EXCEPT !.text = t, !.etag = @ + 1] \in Rule
    BY <2>2, NewVersion, LiveType DEF ShapeInv
  <2>4. [live EXCEPT ![i].text = t, ![i].etag = @ + 1]
          = [live EXCEPT ![i] = [live[i] EXCEPT !.text = t, !.etag = @ + 1]]
    BY DEF ShapeInv, TypeOK
  <2>5. live' \in [Ids -> Rule \cup {Unborn, Gone}]
    BY <2>1, <2>2, <2>3, <2>4 DEF ShapeInv, TypeOK
  <2> QED BY <1>1, <1>2, <2>5 DEF UiText, disk, ShapeInv, TypeOK
<1>3. ASSUME NEW i \in Ids, UiDep(i) PROVE ShapeInv'
  <2>1. live' \in [Ids -> Rule \cup {Unborn, Gone}]
    BY <1>3, LiveDepType, RulesAssumption DEF UiDep, ShapeInv
  <2> QED BY <1>1, <1>3, <2>1 DEF UiDep, disk, ShapeInv, TypeOK
<1>4. ASSUME NEW i \in Ids, UiDelete(i) PROVE ShapeInv'
  BY <1>1, <1>4 DEF UiDelete, disk, ShapeInv, TypeOK
<1>5. ASSUME NEW f \in Stems, EditText(f) PROVE ShapeInv'
  BY <1>1, <1>5 DEF EditText, ShapeInv, TypeOK
<1>6. ASSUME NEW f \in Stems, EditWant(f) PROVE ShapeInv'
  <2>1. PICK d \in UiDeps : meta' = [meta EXCEPT ![f].dep = d]
    BY <1>6 DEF EditWant
  <2>2. meta[f] \in Companion /\ d \in Dep /\ IsComp(meta[f])
    BY <1>6, RulesAssumption DEF EditWant, ShapeInv, TypeOK, IsComp
  <2>3. [meta[f] EXCEPT !.dep = d] \in Companion
    BY <2>2 DEF Companion
  <2>4. meta' \in [Stems -> Companion \cup {NoFile, Torn}]
    BY <2>1, <2>2, <2>3 DEF ShapeInv, TypeOK
  <2> QED BY <1>1, <1>6, <2>4 DEF EditWant, ShapeInv, TypeOK
<1> QED BY <1>2, <1>3, <1>4, <1>5, <1>6 DEF Environment
-----------------------------------------------------------------------------
(* Versions only grow, and what is held of them trails *)

\* A step never takes a rule back: deleted ids stay deleted, versions grow.
Grown ==
  \A i \in Ids : /\ live[i] # Unborn => live'[i] # Unborn
                 /\ live[i] = Gone => live'[i] = Gone
                 /\ live'[i] \notin {Unborn, Gone} => live'[i].etag > 0
                 /\ IsLive(i) /\ live'[i] \notin {Unborn, Gone} => live[i].etag <= live'[i].etag
                 /\ live'[i] \notin {Unborn, Gone} => live'[i].etag \in Nat

LEMMA StillGrown ==
  ASSUME TypeOK, VersionInv, live' = live
  PROVE  Grown
BY LiveType DEF Grown, VersionInv, Rule, IsLive

LEMMA KnownStays ==
  ASSUME TypeOK, Grown, NEW i \in Ids, NEW v \in Nat, Known(i, v)
  PROVE  v > 0 /\ live'[i] # Unborn /\ (live'[i] \notin {Unborn, Gone} => v <= live'[i].etag)
<1>1. CASE IsLive(i)
  <2>1. live[i].etag \in Nat
    BY <1>1, LiveType DEF Rule
  <2> QED BY <1>1, <2>1 DEF Known, Grown
<1>2. CASE ~IsLive(i)
  BY <1>2 DEF Known, Grown, IsLive
<1> QED BY <1>1, <1>2

\* The versions held are numbers.
LEMMA HeldType ==
  ASSUME TypeOK
  PROVE  /\ \A f \in Stems : IsComp(meta[f]) => meta[f].etag \in Nat /\ meta[f].id \in Ids
         /\ \A f \in Stems : comps[f] # NoFile => comps[f].etag \in Nat /\ comps[f].id \in Ids
         /\ pend # Nothing => pend.stem \in Stems /\ pend.comp.etag \in Nat /\ pend.comp.id \in Ids
         /\ \A f \in Stems : base[f] # Nothing => base[f][1] \in Ids /\ base[f][2] \in Nat
         /\ \A i \in ListedIn(snap) : i \in Ids /\ snap[i].etag \in Nat
         /\ \A i \in Ids : IsLive(i) => live[i].etag \in Nat
<1>1. \A i \in Ids : IsLive(i) => live[i].etag \in Nat
  BY LiveType DEF Rule
<1>2. \A i \in ListedIn(snap) : i \in Ids /\ snap[i].etag \in Nat
  BY DEF TypeOK, ListedIn, Listed
<1>3. \A f \in Stems : base[f] # Nothing => base[f][1] \in Ids /\ base[f][2] \in Nat
  BY DEF TypeOK
<1>4. pend # Nothing => pend.stem \in Stems /\ pend.comp.etag \in Nat /\ pend.comp.id \in Ids
  BY DEF TypeOK, Pending, Companion
<1>5. \A f \in Stems : comps[f] # NoFile => comps[f].etag \in Nat /\ comps[f].id \in Ids
  BY DEF TypeOK, Companion
<1>6. \A f \in Stems : IsComp(meta[f]) => meta[f].etag \in Nat /\ meta[f].id \in Ids
  BY DEF TypeOK, Companion, IsComp
<1> QED BY <1>1, <1>2, <1>3, <1>4, <1>5, <1>6

\* Where a companion can have lost its etag, or never got one.
EtagLost == Faults \cap {"etag", "write", "crash"} # {}

\* A file that holds companion old, or what is left of it.
Holds(c, old) == c.id = old.id /\ (c.etag = old.etag \/ (c.etag = 0 /\ EtagLost))

LEMMA FitsStays ==
  ASSUME TypeOK, Grown, base' = base, NEW f \in Stems, NEW old,
         old.id \in Ids, old.etag \in Nat, Fits(old, f), NEW c, Holds(c, old)
  PROVE  /\ c.etag = 0 => EtagLost
         /\ c.etag # 0 => /\ c.etag > 0 /\ live'[c.id] # Unborn
                          /\ live'[c.id] \notin {Unborn, Gone} => c.etag <= live'[c.id].etag
                          /\ base'[f] # Nothing /\ base'[f][1] = c.id => c.etag <= base'[f][2]
<1>1. CASE c.etag = 0
  BY <1>1 DEF Holds, Fits, EtagLost
<1>2. CASE c.etag # 0
  <2>1. c.id = old.id /\ c.etag = old.etag
    BY <1>2 DEF Holds
  <2>2. Known(old.id, old.etag) /\ (WrittenFor(f, old.id) => old.etag <= base[f][2])
    BY <1>2, <2>1 DEF Fits
  <2> QED BY <1>2, <2>1, <2>2, KnownStays DEF WrittenFor
<1> QED BY <1>1, <1>2

\* A step that writes no text to a file and pulls nothing new: every version it
\* holds or records is one that was held, or a live one.
LEMMA VersionFrame ==
  ASSUME ShapeInv, VersionInv, Grown, base' = base,
         \A f \in Stems : IsComp(meta[f])' =>
           \/ IsComp(meta[f]) /\ Holds(meta'[f], meta[f])
           \/ pend # Nothing /\ f = pend.stem /\ Holds(meta'[f], pend.comp),
         \A f \in Stems : comps'[f] # NoFile =>
           comps'[f] = comps[f] \/ (IsComp(meta[f]) /\ comps'[f] = meta[f]),
         pend' # Nothing =>
           \/ /\ pend # Nothing /\ pend'.stem = pend.stem
              /\ pend'.comp.id = pend.comp.id /\ pend'.comp.etag = pend.comp.etag
           \/ \E f \in Stems : /\ comps[f] # NoFile /\ pend'.stem = f
                               /\ pend'.comp.id = comps[f].id /\ pend'.comp.etag = comps[f].etag,
         \A i \in ListedIn(snap)' :
           \/ i \in ListedIn(snap) /\ snap'[i].etag = snap[i].etag /\ snap'[i].bare = snap[i].bare
           \/ i \in Ids /\ IsLive(i) /\ snap'[i].etag = live[i].etag /\ ~snap'[i].bare,
         cmd' = "pull" =>
           /\ cmd = "pull" /\ work' = work
           /\ \A i \in ListedIn(snap) : snap'[i].etag = snap[i].etag
           /\ pend' # Nothing => pend # Nothing /\ pend'.comp = pend.comp
  PROVE  VersionInv'
<1> USE HeldType
<1>0. TypeOK
  BY DEF ShapeInv
<1>1. \A f \in Stems : base'[f] # Nothing => Known(base[f][1], base[f][2])'
  BY <1>0, KnownStays DEF VersionInv, Known, IsLive
<1>2. \A i \in ListedIn(snap)' : Known(i, snap[i].etag)' /\ (snap'[i].bare => "etag" \in Faults)
  <2> SUFFICES ASSUME NEW i \in ListedIn(snap)'
               PROVE  Known(i, snap[i].etag)' /\ (snap'[i].bare => "etag" \in Faults)
    OBVIOUS
  <2>1. CASE i \in ListedIn(snap) /\ snap'[i].etag = snap[i].etag /\ snap'[i].bare = snap[i].bare
    BY <1>0, <2>1, KnownStays DEF VersionInv, Known, IsLive
  <2>2. CASE i \in Ids /\ IsLive(i) /\ snap'[i].etag = live[i].etag /\ ~snap'[i].bare
    BY <1>0, <2>2 DEF VersionInv, Known, IsLive, Grown
  <2> QED BY <2>1, <2>2
<1>a. \A f \in Stems : \A c : IsComp(meta[f]) /\ Holds(c, meta[f]) =>
         /\ c.etag = 0 => EtagLost
         /\ c.etag # 0 => /\ c.etag > 0 /\ live'[c.id] # Unborn
                          /\ live'[c.id] \notin {Unborn, Gone} => c.etag <= live'[c.id].etag
                          /\ base'[f] # Nothing /\ base'[f][1] = c.id => c.etag <= base'[f][2]
  BY <1>0, FitsStays DEF VersionInv
<1>b. \A c : pend # Nothing /\ Holds(c, pend.comp) =>
         /\ c.etag = 0 => EtagLost
         /\ c.etag # 0 => /\ c.etag > 0 /\ live'[c.id] # Unborn
                          /\ live'[c.id] \notin {Unborn, Gone} => c.etag <= live'[c.id].etag
                          /\ base'[pend.stem] # Nothing /\ base'[pend.stem][1] = c.id
                               => c.etag <= base'[pend.stem][2]
  BY <1>0, FitsStays DEF VersionInv
<1>c. \A f \in Stems : \A c : comps[f] # NoFile /\ Holds(c, comps[f]) =>
         /\ c.etag = 0 => EtagLost
         /\ c.etag # 0 => /\ c.etag > 0 /\ live'[c.id] # Unborn
                          /\ live'[c.id] \notin {Unborn, Gone} => c.etag <= live'[c.id].etag
                          /\ base'[f] # Nothing /\ base'[f][1] = c.id => c.etag <= base'[f][2]
  BY <1>0, FitsStays DEF VersionInv
<1>3. \A f \in Stems : IsComp(meta[f])' => Fits(meta[f], f)'
  <2> SUFFICES ASSUME NEW f \in Stems, IsComp(meta[f])'
               PROVE  Fits(meta[f], f)'
    OBVIOUS
  <2>1. CASE IsComp(meta[f]) /\ Holds(meta'[f], meta[f])
    BY <1>a, <2>1 DEF Fits, WrittenFor, Known, IsLive, EtagLost
  <2>2. CASE pend # Nothing /\ f = pend.stem /\ Holds(meta'[f], pend.comp)
    BY <1>b, <2>2 DEF Fits, WrittenFor, Known, IsLive, EtagLost
  <2> QED BY <2>1, <2>2
<1>4. \A f \in Stems : comps'[f] # NoFile => Fits(comps[f], f)'
  <2> SUFFICES ASSUME NEW f \in Stems, comps'[f] # NoFile
               PROVE  Fits(comps[f], f)'
    OBVIOUS
  <2>1. CASE comps'[f] = comps[f]
    BY <1>c, <2>1 DEF Holds, Fits, WrittenFor, Known, IsLive, EtagLost
  <2>2. CASE IsComp(meta[f]) /\ comps'[f] = meta[f]
    BY <1>a, <2>2 DEF Holds, Fits, WrittenFor, Known, IsLive, EtagLost
  <2> QED BY <2>1, <2>2
<1>5. pend' # Nothing => Fits(pend.comp, pend.stem)'
  <2> SUFFICES ASSUME pend' # Nothing
               PROVE  Fits(pend.comp, pend.stem)'
    OBVIOUS
  <2>1. CASE /\ pend # Nothing /\ pend'.stem = pend.stem
             /\ pend'.comp.id = pend.comp.id /\ pend'.comp.etag = pend.comp.etag
    BY <1>b, <2>1 DEF Holds, Fits, WrittenFor, Known, IsLive, EtagLost
  <2>2. ASSUME NEW f \in Stems, comps[f] # NoFile, pend'.stem = f,
               pend'.comp.id = comps[f].id, pend'.comp.etag = comps[f].etag
        PROVE  Fits(pend.comp, pend.stem)'
    BY <1>c, <2>2 DEF Holds, Fits, WrittenFor, Known, IsLive, EtagLost
  <2> QED BY <2>1, <2>2
<1>6. ASSUME cmd' = "pull"
      PROVE  /\ \A f \in Stems : IsComp(meta[f])' /\ meta'[f].id \in work'
                                 => meta'[f].etag <= snap'[meta'[f].id].etag
             /\ pend' # Nothing => pend'.comp.id \notin work'
  <2>1. /\ cmd = "pull" /\ work' = work /\ work \subseteq ListedIn(snap)
        /\ \A i \in ListedIn(snap) : snap'[i].etag = snap[i].etag
        /\ pend' # Nothing => pend # Nothing /\ pend'.comp = pend.comp
    BY <1>6 DEF ShapeInv
  <2>2. pend' # Nothing => pend'.comp.id \notin work'
    BY <2>1 DEF VersionInv
  <2>3. ASSUME NEW f \in Stems, IsComp(meta[f])', meta'[f].id \in work'
        PROVE  meta'[f].etag <= snap'[meta'[f].id].etag
    <3>1. IsComp(meta[f]) /\ Holds(meta'[f], meta[f])
      BY <2>1, <2>3 DEF VersionInv, Holds
    <3>2. meta[f].id \in work /\ meta[f].etag <= snap[meta[f].id].etag
      BY <2>1, <2>3, <3>1 DEF VersionInv, Holds
    <3>3. meta'[f].etag \in {0, meta[f].etag} /\ meta'[f].id = meta[f].id
      BY <3>1 DEF Holds
    <3>4. snap[meta[f].id].etag \in Nat /\ snap'[meta[f].id].etag = snap[meta[f].id].etag
      BY <1>0, <2>1, <3>2
    <3> QED BY <3>2, <3>3, <3>4
  <2> QED BY <2>2, <2>3
<1>7. \A i \in Ids : IsLive(i)' => live'[i].etag > 0
  BY DEF Grown, IsLive
<1> QED BY <1>1, <1>2, <1>3, <1>4, <1>5, <1>6, <1>7 DEF VersionInv

\* The end of a process leaves the files and what they were written for.
LEMMA ExitVersion ==
  ASSUME ShapeInv, VersionInv, Exit, live' = live,
         \A f \in Stems : IsComp(meta[f])' =>
           \/ IsComp(meta[f]) /\ meta'[f] = meta[f]
           \/ pend # Nothing /\ f = pend.stem /\ Holds(meta'[f], pend.comp),
         \/ base' = base
         \/ /\ cmd = "pull" /\ meta' = meta
            /\ \E i \in work : base' = [base EXCEPT ![snap[i].slug] = <<i, snap[i].etag>>]
  PROVE  VersionInv'
<1>0. TypeOK
  BY DEF ShapeInv
<1>1. cmd' # "pull" /\ pend' = Nothing /\ ListedIn(snap)' = {} /\ \A f \in Stems : comps'[f] = NoFile
  BY ResetType DEF Exit, ListedIn
<1>2. Grown
  BY <1>0, StillGrown
<1>3. CASE base' = base
  BY <1>1, <1>2, <1>3, VersionFrame DEF Holds
<1>4. ASSUME NEW i \in work, cmd = "pull", meta' = meta,
             base' = [base EXCEPT ![snap[i].slug] = <<i, snap[i].etag>>]
      PROVE  VersionInv'
  <2>0. i \in ListedIn(snap)
    BY <1>4 DEF ShapeInv
  <2>1. i \in Ids /\ snap[i].etag \in Nat /\ Known(i, snap[i].etag)
    BY <1>0, <2>0, HeldType DEF VersionInv
  <2>2. \A f \in Stems : base'[f] = base[f] \/ base'[f] = <<i, snap[i].etag>>
    BY <1>0, <1>4 DEF TypeOK
  <2>3. \A f \in Stems : base'[f] # Nothing => Known(base[f][1], base[f][2])'
    BY <2>1, <2>2 DEF VersionInv, Known, IsLive
  <2>4. \A f \in Stems : IsComp(meta[f]) /\ meta[f].id = i => meta[f].etag <= snap[i].etag
    BY <1>4 DEF VersionInv
  <2>5. \A f \in Stems : IsComp(meta[f])' => Fits(meta[f], f)'
    BY <1>4, <2>2, <2>4 DEF VersionInv, Fits, WrittenFor, Known, IsLive, IsComp
  <2>6. \A j \in Ids : IsLive(j)' => live'[j].etag > 0
    BY DEF VersionInv, IsLive
  <2> QED BY <1>1, <2>3, <2>5, <2>6 DEF VersionInv
<1> QED BY <1>3, <1>4

\* A step that writes version v of rule i to file f and holds its companion.
LEMMA WriteVersion ==
  ASSUME ShapeInv, VersionInv, Grown,
         NEW f \in Stems, NEW i \in Ids, NEW v \in Nat, v > 0,
         live'[i] # Unborn, live'[i] \notin {Unborn, Gone} => v <= live'[i].etag,
         base' = [base EXCEPT ![f] = <<i, v>>],
         IsComp(meta[f]) /\ meta[f].id = i => meta[f].etag <= v,
         comps[f] # NoFile /\ comps[f].id = i => comps[f].etag <= v,
         pend'.stem = f, pend'.comp.id = i, pend'.comp.etag \in Nat,
         pend'.comp.etag = 0 => EtagLost, pend'.comp.etag <= v,
         UNCHANGED <<meta, comps, snap, cmd>>,
         cmd = "pull" => work' = work \ {i}
  PROVE  VersionInv'
<1> USE HeldType
<1>0. TypeOK
  BY DEF ShapeInv
<1>1. \A g \in Stems : IF g = f THEN base'[g] = <<i, v>> ELSE base'[g] = base[g]
  BY <1>0 DEF TypeOK
<1>2. \A g \in Stems : base'[g] # Nothing => Known(base[g][1], base[g][2])'
  BY <1>0, <1>1, KnownStays DEF VersionInv, Known, IsLive
<1>3. /\ ListedIn(snap)' = ListedIn(snap)
      /\ \A j \in ListedIn(snap) : Known(j, snap[j].etag)' /\ (snap'[j].bare => "etag" \in Faults)
  BY <1>0, KnownStays DEF VersionInv, ListedIn, Known, IsLive
<1>4. \A g \in Stems : IsComp(meta[g])' => Fits(meta[g], g)'
  BY <1>0, <1>1, KnownStays DEF VersionInv, Fits, WrittenFor, Known, IsLive, IsComp
<1>5. \A g \in Stems : comps'[g] # NoFile => Fits(comps[g], g)'
  BY <1>0, <1>1, KnownStays DEF VersionInv, Fits, WrittenFor, Known, IsLive
<1>6. Fits(pend.comp, pend.stem)'
  <2>1. pend'.comp.etag # 0 => pend'.comp.etag > 0
    OBVIOUS
  <2>2. live'[i] \notin {Unborn, Gone} => pend'.comp.etag <= live'[i].etag
    BY DEF Grown
  <2>3. base'[f] = <<i, v>>
    BY <1>1
  <2> QED BY <2>1, <2>2, <2>3 DEF Fits, WrittenFor, Known, IsLive, EtagLost
<1>7. \A j \in Ids : IsLive(j)' => live'[j].etag > 0
  BY DEF Grown, IsLive
<1>8. ASSUME cmd' = "pull"
      PROVE  /\ \A g \in Stems : IsComp(meta[g])' /\ meta'[g].id \in work'
                                 => meta'[g].etag <= snap'[meta'[g].id].etag
             /\ pend'.comp.id \notin work'
  <2>1. cmd = "pull" /\ work' = work \ {i}
    BY <1>8
  <2> QED BY <2>1 DEF VersionInv, IsComp
<1> QED BY <1>2, <1>3, <1>4, <1>5, <1>6, <1>7, <1>8 DEF VersionInv

LEMMA GrownAt ==
  ASSUME TypeOK, VersionInv, NEW i \in Ids, live[i] # Gone,
         live'[i] \in Rule, live'[i].etag > 0, IsLive(i) => live[i].etag <= live'[i].etag,
         \A j \in Ids \ {i} : live'[j] = live[j]
  PROVE  Grown
<1>1. \A j \in Ids : IsLive(j) => live[j].etag \in Nat /\ live[j].etag > 0
  BY HeldType DEF VersionInv
<1>2. live'[i] # Unborn /\ live'[i] # Gone /\ live'[i].etag \in Nat
  BY PlaceholdersAssumption DEF Rule
<1> QED BY <1>1, <1>2 DEF Grown, IsLive

LEMMA DepGrown ==
  ASSUME TypeOK, VersionInv, NEW i \in Ids, IsLive(i), NEW d \in Dep,
         live' = [live EXCEPT ![i].dep = d]
  PROVE  Grown
<1>1. live[i] \in Rule /\ live[i].etag \in Nat /\ live[i].etag > 0 /\ live[i] # Gone
  BY LiveType, HeldType DEF VersionInv, IsLive
<1>2. [live[i] EXCEPT !.dep = d] \in Rule /\ [live[i] EXCEPT !.dep = d].etag = live[i].etag
  BY <1>1 DEF Rule
<1>3. /\ live'[i] \in Rule /\ live'[i].etag = live[i].etag
      /\ \A j \in Ids \ {i} : live'[j] = live[j]
  BY <1>2 DEF TypeOK
<1> QED BY <1>1, <1>3, GrownAt

LEMMA CreateGrown ==
  ASSUME TypeOK, VersionInv, NEW i \in Ids, live[i] = Unborn, NEW rule \in Rule, rule.etag = 1,
         live' = [live EXCEPT ![i] = rule]
  PROVE  Grown
<1>1. live'[i] = rule /\ \A j \in Ids \ {i} : live'[j] = live[j]
  BY DEF TypeOK
<1> QED BY <1>1, PlaceholdersAssumption, GrownAt DEF IsLive

LEMMA UpdateGrown ==
  ASSUME TypeOK, VersionInv, NEW i \in Ids, IsLive(i), NEW text \in Texts,
         live' = [live EXCEPT ![i].text = text, ![i].etag = @ + 1]
  PROVE  Grown
<1>1. live[i] \in Rule /\ live[i].etag \in Nat /\ live[i].etag > 0 /\ live[i] # Gone
  BY LiveType, HeldType DEF VersionInv, IsLive
<1>2. live' = [live EXCEPT ![i] = [live[i] EXCEPT !.text = text, !.etag = @ + 1]]
  BY DEF TypeOK
<1>3. PICK rule : rule = [live[i] EXCEPT !.text = text, !.etag = @ + 1]
  OBVIOUS
<1>4. rule \in Rule /\ rule.etag = live[i].etag + 1
  BY <1>1, <1>3, NewVersion
<1>5. live'[i] = rule /\ \A j \in Ids \ {i} : live'[j] = live[j]
  BY <1>2, <1>3 DEF TypeOK
<1>6. live'[i] \in Rule /\ live'[i].etag > 0 /\ live[i].etag <= live'[i].etag
  BY <1>1, <1>4, <1>5
<1> QED BY <1>1, <1>5, <1>6, GrownAt

LEMMA ResultsGrown ==
  ASSUME ShapeInv, VersionInv, NEW f \in Stems, Turn(f), NEW r \in Results(f), live' = r.live
  PROVE  Grown
<1>1. CASE cmd = "create"
  <2>1. /\ r.comp \in Companion /\ live[r.comp.id] = Unborn /\ NewRule(texts[f]) \in Rule
        /\ live' = [live EXCEPT ![r.comp.id] = NewRule(texts[f])]
    BY <1>1, CreateResultsType DEF Results
  <2>2. r.comp.id \in Ids /\ NewRule(texts[f]).etag = 1
    BY <2>1 DEF Companion, NewRule
  <2> QED BY <2>1, <2>2, CreateGrown DEF ShapeInv
<1>2. CASE cmd = "update"
  <2>1. /\ comps[f].id \in Ids /\ IsLive(comps[f].id)
        /\ live' = [live EXCEPT ![comps[f].id].text = texts[f], ![comps[f].id].etag = @ + 1]
    BY <1>2, TurnType, UpdateResultsType DEF Results
  <2> QED BY <1>2, <2>1, TurnType, UpdateGrown DEF ShapeInv
<1>3. CASE cmd \in {"deploy", "disable"}
  <2>1. PICK d \in Dep : /\ comps[f].id \in Ids /\ IsLive(comps[f].id)
                         /\ r.live = [live EXCEPT ![comps[f].id].dep = d]
                         /\ r.comp \in Companion
                         /\ r.comp.id = comps[f].id /\ r.comp.etag = comps[f].etag
    BY <1>3, DeployResultsType
  <2> QED BY <2>1, DepGrown DEF ShapeInv
<1> QED BY <1>1, <1>2, <1>3, TurnType
LEMMA StartVersion ==
  ASSUME ShapeInv, VersionInv, Start
  PROVE  VersionInv'
<1> USE HeldType DEF disk
<1>0. TypeOK /\ (pc = "idle" => cmd # "pull" /\ pend = Nothing /\ \A f \in Stems : comps[f] = NoFile)
  BY ResetType DEF ShapeInv, PullPcs, PendPcs
<1>1. CASE PullList
  <2>1. PICK blank \in LeftOut("text"), bare \in LeftOut("etag") : snap' = SnapshotOf(blank, bare)
    BY <1>1 DEF PullList
  <2>2. \A i \in ListedIn(snap)' : /\ i \in Ids /\ IsLive(i) /\ snap'[i].etag = live[i].etag
                                   /\ snap'[i].bare => "etag" \in Faults
    BY <1>0, <2>1, SnapshotType, LeftOutType DEF ListedIn
  <2>3. /\ UNCHANGED <<live, meta, base, comps, pend>> /\ pend' = Nothing
        /\ \A f \in Stems : comps'[f] = NoFile
    BY <1>0, <1>1 DEF PullList, StartCommand
  <2>4. \A i \in ListedIn(snap)' : Known(i, snap[i].etag)' /\ (snap'[i].bare => "etag" \in Faults)
    BY <1>0, <2>2, <2>3 DEF VersionInv, Known, IsLive
  <2>5. \A f \in Stems : IsComp(meta[f])' /\ meta'[f].id \in work'
                         => meta'[f].etag <= snap'[meta'[f].id].etag
    <3>1. work' = ListedIn(snap)'
      BY <1>1 DEF PullList, ListedIn
    <3>2. ASSUME NEW f \in Stems, IsComp(meta[f]), meta[f].id \in ListedIn(snap)'
          PROVE  meta[f].etag <= snap'[meta[f].id].etag
      <4>1. /\ IsLive(meta[f].id) /\ snap'[meta[f].id].etag = live[meta[f].id].etag
            /\ live[meta[f].id].etag \in Nat
        BY <1>0, <2>2, <3>2
      <4>2. CASE meta[f].etag = 0
        BY <4>1, <4>2
      <4>3. CASE meta[f].etag # 0
        BY <3>2, <4>1, <4>3 DEF VersionInv, Fits, Known
      <4> QED BY <4>2, <4>3
    <3> QED BY <2>3, <3>1, <3>2 DEF IsComp
  <2>6. \A f \in Stems : IsComp(meta[f])' => Fits(meta[f], f)'
    BY <2>3 DEF VersionInv, Fits, WrittenFor, Known, IsLive, IsComp
  <2>7. \A f \in Stems : base'[f] # Nothing => Known(base[f][1], base[f][2])'
    BY <2>3 DEF VersionInv, Known, IsLive
  <2>8. \A i \in Ids : IsLive(i)' => live'[i].etag > 0
    BY <2>3 DEF VersionInv, IsLive
  <2> QED BY <2>3, <2>4, <2>5, <2>6, <2>7, <2>8 DEF VersionInv
<1>2. ASSUME NEW name \in {"create", "update", "deploy", "disable"}, StartCommand(name, "apply"),
             snap' = snap \/ \E blank : snap' = SnapshotOf(blank, {}),
             \A f \in Stems : comps'[f] # NoFile =>
               comps'[f] = comps[f] \/ (f \in Tracked /\ comps'[f] = meta[f])
      PROVE  VersionInv'
  <2>1. \A i \in ListedIn(snap)' :
          \/ i \in ListedIn(snap) /\ snap'[i].etag = snap[i].etag /\ snap'[i].bare = snap[i].bare
          \/ i \in Ids /\ IsLive(i) /\ snap'[i].etag = live[i].etag /\ ~snap'[i].bare
    BY <1>0, <1>2, SnapshotType DEF ListedIn
  <2>2. /\ UNCHANGED <<live, meta, base, pend>> /\ cmd' # "pull" /\ pend' = Nothing
    BY <1>0, <1>2 DEF StartCommand
  <2>3. \A f \in Stems : comps'[f] # NoFile =>
          comps'[f] = comps[f] \/ (IsComp(meta[f]) /\ comps'[f] = meta[f])
    BY <1>2 DEF Tracked
  <2>4. \A f \in Stems : IsComp(meta[f])' =>
          IsComp(meta[f]) /\ Holds(meta'[f], meta[f])
    BY <2>2 DEF IsComp, Holds
  <2>5. Grown
    BY <1>0, <2>2, StillGrown
  <2> QED BY <1>0, <2>1, <2>2, <2>3, <2>4, <2>5, VersionFrame
<1>3. ASSUME NEW d \in CreateDeps, CreatePlan(d) PROVE VersionInv'
  BY <1>2, <1>3 DEF CreatePlan
<1>4. CASE UpdatePlan
  <2>1. \E blank : snap' = SnapshotOf(blank, {})
    BY <1>4 DEF UpdatePlan
  <2>2. \A f \in Stems : comps'[f] # NoFile => f \in Tracked /\ comps'[f] = meta[f]
    BY <1>4 DEF UpdatePlan, UpdateWork
  <2> QED BY <1>2, <1>4, <2>1, <2>2 DEF UpdatePlan
<1>5. CASE DeployPlan
  <2>1. \E blank : snap' = SnapshotOf(blank, {})
    BY <1>5 DEF DeployPlan
  <2>2. \A f \in Stems : comps'[f] # NoFile => f \in Tracked /\ comps'[f] = meta[f]
    BY <1>5 DEF DeployPlan, DeployWork
  <2> QED BY <1>2, <1>5, <2>1, <2>2 DEF DeployPlan
<1>6. CASE DisablePlan
  <2>1. \A f \in Stems : comps'[f] # NoFile => f \in Tracked /\ comps'[f] = meta[f]
    BY <1>6 DEF DisablePlan
  <2> QED BY <1>2, <1>6, <2>1 DEF DisablePlan
<1>7. CASE EndEarly
  BY <1>7 DEF EndEarly, run, VersionInv, Fits, WrittenFor, Known, IsLive, IsComp, ListedIn
<1> QED BY <1>1, <1>3, <1>4, <1>5, <1>6, <1>7 DEF Start

\* A companion whose write breaks off is what it was, or what is left of the one being written.
LEMMA TornHolds ==
  ASSUME ShapeInv, pend # Nothing, meta' \in TornMeta, "write" \in Faults \/ "crash" \in Faults
  PROVE  \A f \in Stems : IsComp(meta[f])' =>
           \/ IsComp(meta[f]) /\ meta'[f] = meta[f]
           \/ pend # Nothing /\ f = pend.stem /\ Holds(meta'[f], pend.comp)
<1>1. EtagLost
  BY DEF EtagLost
<1> QED BY <1>1, TornMetaType DEF Holds, IsComp

LEMMA PullStepVersion ==
  ASSUME ShapeInv, VersionInv, PullStep
  PROVE  VersionInv'
<1> USE HeldType DEF disk
<1>0. TypeOK
  BY DEF ShapeInv
<1>1. ASSUME NEW got \in [Ids -> Dep], pc = "deps",
             snap' = [i \in Ids |-> IF snap[i] = Absent THEN Absent
                                    ELSE [snap[i] EXCEPT !.dep = got[i]]],
             UNCHANGED <<live, disk, cmd, comps, work, pend, base>>
      PROVE  VersionInv'
  <2>1. \A i \in Ids : snap[i] # Absent =>
          /\ [snap[i] EXCEPT !.dep = got[i]] \in Listed
          /\ [snap[i] EXCEPT !.dep = got[i]].etag = snap[i].etag
          /\ [snap[i] EXCEPT !.dep = got[i]].bare = snap[i].bare
    BY <1>0 DEF TypeOK, Listed
  <2>2. /\ ListedIn(snap)' = ListedIn(snap)
        /\ \A i \in ListedIn(snap) : snap'[i].etag = snap[i].etag /\ snap'[i].bare = snap[i].bare
    BY <1>1, <2>1, PlaceholdersAssumption DEF ListedIn
  <2>3. Grown
    BY <1>0, <1>1, StillGrown
  <2> QED BY <1>0, <1>1, <2>2, <2>3, VersionFrame DEF IsComp, Holds
<1>2. CASE PullDeps
  <2> DEFINE got == [i \in Ids |-> IF IsLive(i) THEN live[i].dep ELSE ZeroDep]
  <2>1. got \in [Ids -> Dep]
    BY <1>0, LiveType, ZeroDepType DEF Rule
  <2>2. snap' = [i \in Ids |-> IF snap[i] = Absent THEN Absent
                               ELSE [snap[i] EXCEPT !.dep = got[i]]]
    BY <1>2 DEF PullDeps
  <2> HIDE DEF got
  <2> QED BY <1>1, <1>2, <2>1, <2>2 DEF PullDeps
<1>3. CASE PullDepsFails
  <2> DEFINE got == [i \in Ids |-> ZeroDep]
  <2>1. got \in [Ids -> Dep]
    BY ZeroDepType
  <2>2. snap' = [i \in Ids |-> IF snap[i] = Absent THEN Absent
                               ELSE [snap[i] EXCEPT !.dep = got[i]]]
    BY <1>3 DEF PullDepsFails
  <2> HIDE DEF got
  <2> QED BY <1>1, <1>3, <2>1, <2>2 DEF PullDepsFails
<1>4. ASSUME NEW i \in Ids, PullText(i) PROVE VersionInv'
  <2>1. /\ i \in ListedIn(snap) /\ i \in work /\ cmd = "pull" /\ snap[i].etag > 0
        /\ \A f \in Stems : comps[f] = NoFile
    BY <1>4, ResetType DEF PullText, ShapeInv, PullPcs, VersionInv, Known
  <2>2. PICK got \in Fallback(i) :
          /\ base' = [base EXCEPT ![snap[i].slug] = <<i, got.version>>]
          /\ pend' = [stem |-> snap[i].slug, comp |-> CompanionOf(i, got.etag)]
    BY <1>4 DEF PullText
  <2>3. /\ i \in Ids /\ snap[i] \in Listed /\ snap[i].slug \in Stems /\ snap[i].etag \in Nat
        /\ got.version \in Nat /\ got.etag \in Nat
        /\ CompanionOf(i, got.etag).id = i /\ CompanionOf(i, got.etag).etag = got.etag
        /\ \/ got.version = snap[i].etag /\ got.etag \in {snap[i].etag, 0}
           \/ IsLive(i) /\ got.version = live[i].etag /\ got.etag \in {snap[i].etag, live[i].etag, 0}
        /\ got.etag \in {0, live[i].etag} \ {snap[i].etag} => snap[i].bare
    BY <1>0, <2>1, <2>2, PullItemType DEF Listed
  <2>4. /\ live[i] # Unborn
        /\ IsLive(i) => snap[i].etag <= live[i].etag /\ live[i].etag \in Nat /\ live[i].etag > 0
    BY <1>0, <2>1 DEF VersionInv, Known
  <2>5. /\ got.version > 0 /\ snap[i].etag <= got.version /\ got.etag <= got.version
        /\ IsLive(i) => got.version <= live[i].etag
    BY <2>1, <2>3, <2>4
  <2>6. got.etag = 0 => EtagLost
    BY <2>1, <2>3 DEF VersionInv, EtagLost
  <2>7. IsComp(meta[snap[i].slug]) /\ meta[snap[i].slug].id = i => meta[snap[i].slug].etag <= got.version
    <3>1. IsComp(meta[snap[i].slug]) /\ meta[snap[i].slug].id = i
            => meta[snap[i].slug].etag <= snap[i].etag /\ meta[snap[i].slug].etag \in Nat
      BY <1>0, <2>1, <2>3 DEF VersionInv
    <3> QED BY <2>3, <2>5, <3>1
  <2>8. UNCHANGED <<live, meta, comps, snap, cmd>> /\ work' = work \ {i}
    BY <1>4 DEF PullText
  <2>9. Grown
    BY <1>0, <2>8, StillGrown
  <2>10. pend'.stem = snap[i].slug /\ pend'.comp.id = i /\ pend'.comp.etag = got.etag
    BY <2>2, <2>3
  <2>11. live'[i] # Unborn /\ (live'[i] \notin {Unborn, Gone} => got.version <= live'[i].etag)
    BY <2>4, <2>5, <2>8 DEF IsLive
  <2>12. comps[snap[i].slug] = NoFile
    BY <2>1, <2>3
  <2> QED BY <2>2, <2>3, <2>5, <2>6, <2>7, <2>8, <2>9, <2>10, <2>11, <2>12, WriteVersion
<1>5. ASSUME NEW i \in Ids, PullTextFails(i) PROVE VersionInv'
  <2>1. i \in work /\ cmd = "pull" /\ meta' = meta /\ live' = live /\ Exit
    BY <1>5 DEF PullTextFails, ShapeInv, PullPcs
  <2>2. base' = base \/ base' = [base EXCEPT ![snap[i].slug] = <<i, snap[i].etag>>]
    BY <1>5 DEF PullTextFails
  <2> QED BY <2>1, <2>2, ExitVersion DEF IsComp
<1>6. CASE PullMeta
  <2>1. pend # Nothing /\ pend.stem \in Stems /\ cmd = "pull" /\ pend' = Nothing
    BY <1>0, <1>6 DEF PullMeta, ShapeInv, PullPcs, PendPcs
  <2>2. \A f \in Stems : IsComp(meta[f])' =>
           \/ IsComp(meta[f]) /\ Holds(meta'[f], meta[f])
           \/ pend # Nothing /\ f = pend.stem /\ Holds(meta'[f], pend.comp)
    BY <1>0, <1>6, <2>1 DEF PullMeta, TypeOK, IsComp, Holds
  <2>3. Grown
    BY <1>0, <1>6, StillGrown DEF PullMeta
  <2>4. UNCHANGED <<base, comps, snap, cmd, work>>
    BY <1>6 DEF PullMeta
  <2> QED BY <1>0, <2>1, <2>2, <2>3, <2>4, VersionFrame DEF ListedIn
<1>7. CASE PullMetaFails
  <2>1. pend # Nothing
    BY <1>7 DEF PullMetaFails, ShapeInv, PendPcs
  <2>2. \A f \in Stems : IsComp(meta[f])' =>
           \/ IsComp(meta[f]) /\ meta'[f] = meta[f]
           \/ pend # Nothing /\ f = pend.stem /\ Holds(meta'[f], pend.comp)
    BY <1>7, <2>1, TornHolds DEF PullMetaFails
  <2> QED BY <1>0, <1>7, <2>2, ExitVersion DEF PullMetaFails
<1>8. CASE PullDone
  BY <1>0, <1>8, ExitVersion DEF PullDone, IsComp
<1> QED BY <1>2, <1>3, <1>4, <1>5, <1>6, <1>7, <1>8 DEF PullStep
LEMMA PushStepVersion ==
  ASSUME ShapeInv, VersionInv, PushStep
  PROVE  VersionInv'
<1> USE HeldType DEF disk
<1>0. TypeOK
  BY DEF ShapeInv
\* An item whose base stays: the companion to write, if any, is one of those read.
<1>1. ASSUME NEW f \in Stems, Turn(f), NEW r \in Results(f), cmd \in {"deploy", "disable"},
             Applied(f, r, "record"), base' = base
      PROVE  VersionInv'
  <2>1. Grown
    BY <1>1, ResultsGrown DEF Applied
  <2>2. /\ comps[f] # NoFile /\ r.comp.id = comps[f].id /\ r.comp.etag = comps[f].etag
    BY <1>1, DeployResultsType, TurnType
  <2>3. pend'.stem = f /\ pend'.comp = r.comp
    BY <1>1 DEF Applied
  <2>4. UNCHANGED <<meta, comps, snap, cmd, base>> /\ cmd' # "pull"
    BY <1>1 DEF Applied
  <2> QED BY <1>0, <2>1, <2>2, <2>3, <2>4, VersionFrame DEF IsComp, ListedIn, Holds
<1>2. ASSUME Grown, UNCHANGED <<meta, comps, snap, cmd, base>>, cmd # "pull",
             \/ pend' = pend \/ pend' = Nothing
             \/ /\ pend # Nothing /\ pend'.stem = pend.stem
                /\ pend'.comp.id = pend.comp.id /\ pend'.comp.etag = pend.comp.etag
      PROVE  VersionInv'
  BY <1>0, <1>2, VersionFrame DEF IsComp, ListedIn, Holds
<1>3. ASSUME NEW f \in Stems, CreateCall(f) PROVE VersionInv'
  <2>1. PICK r \in CreateResults(f) :
          /\ Applied(f, r, "firstDeploy")
          /\ base' = [base EXCEPT ![f] = <<r.comp.id, r.comp.etag>>]
    BY <1>3 DEF CreateCall
  <2>2. /\ r.comp.id \in Ids /\ r.comp.etag = 1 /\ live[r.comp.id] = Unborn
        /\ r.live = [live EXCEPT ![r.comp.id] = NewRule(texts[f])] /\ NewRule(texts[f]) \in Rule
    BY <1>3, CreateResultsType DEF CreateCall, Companion
  <2>3. Grown
    BY <1>3, <2>1, ResultsGrown DEF CreateCall, Results, Applied
  <2>4. live'[r.comp.id] \in Rule /\ live'[r.comp.id].etag = 1
    BY <1>0, <2>1, <2>2 DEF Applied, NewRule, TypeOK
  <2>5. /\ IsComp(meta[f]) /\ meta[f].id = r.comp.id => meta[f].etag <= 1
        /\ comps[f] # NoFile /\ comps[f].id = r.comp.id => comps[f].etag <= 1
    BY <2>2 DEF VersionInv, Fits, Known
  <2>6. pend'.stem = f /\ pend'.comp = r.comp /\ UNCHANGED <<meta, comps, snap, cmd>> /\ cmd # "pull"
    BY <1>3, <2>1 DEF CreateCall, Applied
  <2>7. live'[r.comp.id] # Unborn
    BY <2>4, PlaceholdersAssumption
  <2>8. PICK i \in Ids : i = r.comp.id
    BY <2>2
  <2>9. /\ base' = [base EXCEPT ![f] = <<i, 1>>] /\ 1 \in Nat /\ 1 > 0 /\ 1 <= 1
        /\ live'[i] # Unborn /\ live'[i].etag = 1
        /\ pend'.comp.id = i /\ pend'.comp.etag = 1
        /\ IsComp(meta[f]) /\ meta[f].id = i => meta[f].etag <= 1
        /\ comps[f] # NoFile /\ comps[f].id = i => comps[f].etag <= 1
    BY <2>1, <2>2, <2>4, <2>5, <2>6, <2>7, <2>8
  <2>10. /\ pend'.comp.etag \in Nat /\ pend'.comp.etag <= 1
         /\ pend'.comp.etag = 0 => EtagLost
         /\ live'[i] \notin {Unborn, Gone} => 1 <= live'[i].etag
         /\ cmd = "pull" => work' = work \ {i}
    BY <2>6, <2>9
  <2> QED BY <2>3, <2>6, <2>9, <2>10, WriteVersion, Zenon
<1>4. ASSUME NEW f \in Stems, UpdateCall(f) PROVE VersionInv'
  <2>0. PICK i : i = comps[f].id
    OBVIOUS
  <2>1. PICK r \in UpdateResults(f) :
          /\ Applied(f, r, "record")
          /\ base' = [base EXCEPT ![f] = <<r.comp.id, r.comp.etag>>]
    BY <1>4 DEF UpdateCall
  <2>2. comps[f] \in Companion /\ comps[f] # NoFile /\ Turn(f) /\ cmd = "update"
    BY <1>4, TurnType DEF UpdateCall
  <2>3. /\ i \in Ids /\ IsLive(i) /\ comps[f].etag \in {0, live[i].etag}
        /\ r.comp = [comps[f] EXCEPT !.etag = live[i].etag + 1]
        /\ r.live[i] \in Rule /\ r.live[i].etag = live[i].etag + 1
    BY <1>0, <2>0, <2>2, UpdateResultsType
  <2>4. PICK v \in Nat : v = live[i].etag + 1 /\ v > 0 /\ live[i].etag <= v
    <3>1. live[i].etag \in Nat
      BY <1>0, <2>3
    <3>2. live[i].etag + 1 \in Nat /\ live[i].etag + 1 > 0 /\ live[i].etag <= live[i].etag + 1
      BY <3>1
    <3> QED BY <3>2
  <2>5. r.comp.id = i /\ r.comp.etag = v
    BY <2>0, <2>2, <2>3, <2>4 DEF Companion
  <2>6. Grown
    BY <2>1, <2>2, ResultsGrown DEF Results, Applied
  <2>7. live'[i] # Unborn /\ live'[i].etag = v
    BY <2>1, <2>3, <2>4, PlaceholdersAssumption DEF Applied
  <2>8. IsComp(meta[f]) /\ meta[f].id = i => meta[f].etag <= v
    BY <1>0, <2>3, <2>4 DEF VersionInv, Fits, Known
  <2>9. comps[f] # NoFile /\ comps[f].id = i => comps[f].etag <= v
    BY <2>3, <2>4
  <2>10. /\ base' = [base EXCEPT ![f] = <<i, v>>]
         /\ pend'.stem = f /\ pend'.comp.id = i /\ pend'.comp.etag = v
         /\ UNCHANGED <<meta, comps, snap, cmd>> /\ cmd # "pull"
    BY <2>1, <2>2, <2>5 DEF Applied
  <2>11. live[i].etag <= v /\ v <= v /\ v > 0 /\ i \in Ids
    BY <2>3, <2>4
  <2>12. live'[i] \notin {Unborn, Gone} => v <= live'[i].etag
    BY <2>7, <2>11
  <2>13. /\ pend'.comp.etag \in Nat /\ pend'.comp.etag <= v
         /\ pend'.comp.etag = 0 => EtagLost
         /\ cmd = "pull" => work' = work \ {i}
    BY <2>10, <2>11
  <2> QED BY <2>6, <2>7, <2>8, <2>9, <2>10, <2>11, <2>12, <2>13, WriteVersion, Zenon
<1>5. ASSUME NEW f \in Stems, DeployCall(f) PROVE VersionInv'
  BY <1>1, <1>5 DEF DeployCall, Results
<1>6. ASSUME NEW f \in Stems, DisableCall(f) PROVE VersionInv'
  BY <1>1, <1>6 DEF DisableCall, Results
<1>7. ASSUME NEW f \in Stems, DeployAlready(f) PROVE VersionInv'
  <2>1. comps[f] \in Companion /\ comps[f] # NoFile /\ cmd = "deploy"
    BY <1>7, TurnType DEF DeployAlready, AlreadyThere
  <2>2. /\ pend'.stem = f
        /\ pend'.comp = [comps[f] EXCEPT !.dep = live[comps[f].id].dep]
        /\ UNCHANGED <<live, meta, comps, snap, cmd, base>>
    BY <1>7 DEF DeployAlready, Applied
  <2>3. pend'.comp.id = comps[f].id /\ pend'.comp.etag = comps[f].etag
    BY <2>1, <2>2 DEF Companion
  <2>4. Grown
    BY <1>0, <2>2, StillGrown
  <2> QED BY <1>0, <2>1, <2>2, <2>3, <2>4, VersionFrame DEF IsComp, ListedIn, Holds
<1>8. ASSUME NEW f \in Stems, DeployAlreadyUnread(f) \/ CallFails(f) PROVE VersionInv'
  <2>1. UNCHANGED <<live, meta, comps, snap, cmd, base, pend>> /\ cmd # "pull"
    BY <1>8, TurnType DEF DeployAlreadyUnread, CallFails, Fail
  <2> QED BY <1>0, <1>2, <2>1, StillGrown
<1>9. ASSUME NEW f \in Stems, CallLost(f) PROVE VersionInv'
  <2>1. Grown
    BY <1>9, ResultsGrown DEF CallLost
  <2>2. UNCHANGED <<meta, comps, snap, cmd, base, pend>> /\ cmd # "pull"
    BY <1>9, TurnType DEF CallLost, Fail
  <2> QED BY <1>2, <2>1, <2>2
<1>10. ASSUME NEW want \in Dep, pc \in {"firstDeploy", "redeploy"},
              NEW d \in Deployments(pend.comp.id, Fields, want),
              live' = [live EXCEPT ![pend.comp.id].dep = d],
              pend' = pend \/ pend' = [pend EXCEPT !.comp.dep = d],
              UNCHANGED <<meta, comps, snap, cmd, base>>
       PROVE  VersionInv'
  <2>1. Grown
    BY <1>0, <1>10, FirstType, DepGrown
  <2>2. cmd # "pull" /\ pend # Nothing
    BY <1>10 DEF ShapeInv, PendPcs
  <2>3. \/ pend' = pend
        \/ /\ pend # Nothing /\ pend'.stem = pend.stem
           /\ pend'.comp.id = pend.comp.id /\ pend'.comp.etag = pend.comp.etag
    BY <1>10, <2>2, FirstType
  <2> QED BY <1>2, <1>10, <2>1, <2>2, <2>3
<1>11. CASE FirstDeploy
  BY <1>0, <1>10, <1>11 DEF FirstDeploy, TypeOK
<1>12. CASE Redeploy
  BY <1>10, <1>12, RedeployWant DEF Redeploy, Redeployments
<1>13. CASE FirstDeployFails \/ RedeployFails
  <2>1. UNCHANGED <<meta, comps, snap, cmd, base, pend>> /\ cmd # "pull"
    BY <1>13 DEF FirstDeployFails, RedeployFails, ShapeInv, PullPcs
  <2>2. CASE live' = live
    BY <1>0, <1>2, <2>1, <2>2, StillGrown
  <2>3. CASE FirstDeployFails /\ live' # live
    BY <1>0, <1>10, <2>1, <2>3 DEF FirstDeployFails, TypeOK
  <2>4. CASE RedeployFails /\ live' # live
    BY <1>10, <2>1, <2>4, RedeployWant DEF RedeployFails, Redeployments
  <2> QED BY <1>13, <2>2, <2>3, <2>4
<1>14. CASE Record \/ RecordFails
  <2>1. pend # Nothing /\ pend \in Pending /\ cmd # "pull"
    BY <1>0, <1>14 DEF Record, RecordFails, ShapeInv, TypeOK, PendPcs, PullPcs
  <2>2. \A f \in Stems : IsComp(meta[f])' =>
           \/ IsComp(meta[f]) /\ Holds(meta'[f], meta[f])
           \/ pend # Nothing /\ f = pend.stem /\ Holds(meta'[f], pend.comp)
    <3>1. CASE Record
      BY <1>0, <2>1, <3>1 DEF Record, TypeOK, IsComp, Holds
    <3>2. CASE RecordFails
      BY <2>1, <3>2, TornHolds DEF RecordFails, Holds
    <3> QED BY <1>14, <3>1, <3>2
  <2>3. UNCHANGED <<live, base, comps, snap, cmd>> /\ pend' = Nothing
    BY <1>14 DEF Record, RecordFails
  <2>4. Grown
    BY <1>0, <2>3, StillGrown
  <2> QED BY <1>0, <2>1, <2>2, <2>3, <2>4, VersionFrame DEF ListedIn
<1>15. CASE PushDone
  BY <1>0, <1>15, ExitVersion DEF PushDone, IsComp
<1> QED BY <1>3, <1>4, <1>5, <1>6, <1>7, <1>8, <1>9, <1>11, <1>12, <1>13, <1>14, <1>15 DEF PushStep

LEMMA CrashVersion ==
  ASSUME ShapeInv, VersionInv, Crash
  PROVE  VersionInv'
<1>1. \A f \in Stems : IsComp(meta[f])' =>
        \/ IsComp(meta[f]) /\ meta'[f] = meta[f]
        \/ pend # Nothing /\ f = pend.stem /\ Holds(meta'[f], pend.comp)
  <2>1. CASE pc \in {"meta", "record"}
    BY <2>1, TornHolds DEF Crash, ShapeInv, PendPcs
  <2>2. CASE pc \notin {"meta", "record"}
    BY <2>2 DEF Crash, IsComp
  <2> QED BY <2>1, <2>2
<1>2. \/ base' = base
      \/ /\ cmd = "pull" /\ meta' = meta
         /\ \E i \in work : base' = [base EXCEPT ![snap[i].slug] = <<i, snap[i].etag>>]
  BY DEF Crash, ShapeInv, PullPcs
<1> QED BY <1>1, <1>2, ExitVersion DEF Crash

LEMMA EnvironmentVersion ==
  ASSUME ShapeInv, VersionInv, Environment
  PROVE  VersionInv'
<1> USE HeldType DEF disk
<1>0. TypeOK
  BY DEF ShapeInv
<1>1. ASSUME NEW race, Outside(race), Grown,
             \A f \in Stems : IsComp(meta[f])' =>
               IsComp(meta[f]) /\ meta'[f].id = meta[f].id /\ meta'[f].etag = meta[f].etag
      PROVE  VersionInv'
  <2>1. UNCHANGED <<comps, snap, cmd, work, base, pend>>
    BY <1>1 DEF Outside, run
  <2> QED BY <1>0, <1>1, <2>1, VersionFrame DEF ListedIn, Holds
<1>2. ASSUME NEW i \in Ids, UiText(i) PROVE VersionInv'
  <2>1. PICK t \in ValidTexts :
          \/ /\ live[i] = Unborn
             /\ \E d \in UiDeps : live' = [live EXCEPT ![i] = [text |-> t, etag |-> 1, dep |-> d]]
          \/ /\ IsLive(i)
             /\ live' = [live EXCEPT ![i].text = t, ![i].etag = @ + 1]
    BY <1>2 DEF UiText
  <2>2. t \in Texts /\ \A d \in UiDeps : [text |-> t, etag |-> 1, dep |-> d] \in Rule
    BY RulesAssumption DEF Rule
  <2>3. Grown
    BY <1>0, <2>1, <2>2, CreateGrown, UpdateGrown
  <2> QED BY <1>1, <1>2, <2>3 DEF UiText, IsComp
<1>3. ASSUME NEW i \in Ids, UiDep(i) PROVE VersionInv'
  <2>1. Grown
    BY <1>0, <1>3, DepGrown, RulesAssumption DEF UiDep
  <2> QED BY <1>1, <1>3, <2>1 DEF UiDep, IsComp
<1>4. ASSUME NEW i \in Ids, UiDelete(i) PROVE VersionInv'
  <2>1. /\ live'[i] = Gone /\ IsLive(i)
        /\ \A j \in Ids \ {i} : live'[j] = live[j]
    BY <1>0, <1>4 DEF UiDelete, TypeOK
  <2>2. Grown
    BY <1>0, <2>1, PlaceholdersAssumption DEF Grown, IsLive, VersionInv
  <2> QED BY <1>1, <1>4, <2>2 DEF UiDelete, IsComp
<1>5. ASSUME NEW f \in Stems, EditText(f) PROVE VersionInv'
  BY <1>0, <1>1, <1>5, StillGrown DEF EditText, IsComp
<1>6. ASSUME NEW f \in Stems, EditWant(f) PROVE VersionInv'
  <2>1. PICK d \in UiDeps : meta' = [meta EXCEPT ![f].dep = d]
    BY <1>6 DEF EditWant
  <2>2. meta[f] \in Companion /\ IsComp(meta[f])
    BY <1>0, <1>6 DEF EditWant, TypeOK, IsComp
  <2>3. \A g \in Stems : IsComp(meta[g])' =>
          IsComp(meta[g]) /\ meta'[g].id = meta[g].id /\ meta'[g].etag = meta[g].etag
    BY <1>0, <2>1, <2>2 DEF TypeOK, Companion, IsComp
  <2> QED BY <1>0, <1>1, <1>6, <2>3, StillGrown DEF EditWant
<1> QED BY <1>2, <1>3, <1>4, <1>5, <1>6 DEF Environment
-----------------------------------------------------------------------------
(* The theorems *)

LEMMA InitVersion == Init => VersionInv
<1> SUFFICES ASSUME Init PROVE VersionInv
  OBVIOUS
<1>1. \A i \in Ids : IsLive(i) => live[i].etag > 0
  BY DEF Init, IsLive
<1>2. \A f \in Stems : ~IsComp(meta[f]) /\ comps[f] = NoFile /\ base[f] = Nothing
  BY ResetType DEF Init, IsComp
<1> QED BY <1>1, <1>2, ResetType DEF Init, VersionInv

IInv == ShapeInv /\ VersionInv

LEMMA NextIInv ==
  ASSUME IInv, [Next]_vars
  PROVE  IInv'
<1>1. CASE Start
  BY <1>1, StartShape, StartVersion DEF IInv
<1>2. CASE PullStep
  BY <1>2, PullStepShape, PullStepVersion DEF IInv
<1>3. CASE PushStep
  BY <1>3, PushStepShape, PushStepVersion DEF IInv
<1>4. CASE Crash
  BY <1>4, CrashShape, CrashVersion DEF IInv
<1>5. CASE Environment
  BY <1>5, EnvironmentShape, EnvironmentVersion DEF IInv
<1>6. CASE UNCHANGED vars
  <2> USE <1>6 DEF vars, disk, run
  <2>1. TypeOK'
    BY DEF IInv, ShapeInv, TypeOK, IsComp
  <2>2. ShapeInv'
    BY <2>1 DEF IInv, ShapeInv, PullPcs, PendPcs, ListedIn, NoComps
  <2>3. VersionInv'
    BY DEF IInv, VersionInv, Fits, WrittenFor, Known, IsLive, IsComp, ListedIn
  <2> QED BY <2>2, <2>3 DEF IInv
<1> QED BY <1>1, <1>2, <1>3, <1>4, <1>5, <1>6 DEF Next

LEMMA InvariantHolds == Spec => []IInv
<1>1. Init => IInv
  BY InitShape, InitVersion DEF IInv
<1>2. IInv /\ [Next]_vars => IInv'
  BY NextIInv
<1> QED BY <1>1, <1>2, PTL DEF Spec

\* The variables have their types in every instance, the companions included that a broken
\* write left behind (readRuleCompanion).
THEOREM RulesTypeCorrect == Spec => []TypeOK
<1>1. IInv => TypeOK
  BY DEF IInv, ShapeInv
<1> QED BY <1>1, InvariantHolds, PTL

\* An update that sends an etag overwrites the version its .yaral was last written for.
LEMMA UpdateOfBase ==
  ASSUME IInv, NEW f \in Stems, UpdateCall(f), WrittenFor(f, comps[f].id)
  PROVE  \/ base[f][2] = live[comps[f].id].etag
         \/ comps[f].etag = 0 /\ Faults \cap {"etag", "write", "crash"} # {}
<1>1. TypeOK /\ ShapeInv /\ VersionInv
  BY DEF IInv, ShapeInv
<1>2. comps[f] # NoFile /\ Turn(f) /\ cmd = "update" /\ UpdateResults(f) # {}
  BY <1>1, TurnType DEF UpdateCall
<1>3. PICK i : i = comps[f].id
  OBVIOUS
<1>4. i \in Ids /\ IsLive(i) /\ comps[f].etag \in {0, live[i].etag} /\ Fits(comps[f], f)
  BY <1>1, <1>2, <1>3, UpdateResultsType DEF VersionInv
<1>5. CASE comps[f].etag = 0
  BY <1>4, <1>5 DEF Fits
<1>6. CASE comps[f].etag # 0
  <2>1. comps[f].etag = live[i].etag /\ comps[f].etag <= base[f][2]
    BY <1>3, <1>4, <1>6 DEF Fits
  <2>2. base[f][2] \in Nat /\ live[i].etag \in Nat /\ base[f][2] <= live[i].etag
    BY <1>1, <1>3, <1>4, HeldType DEF VersionInv, Known, WrittenFor
  <2> QED BY <1>3, <2>1, <2>2
<1> QED BY <1>5, <1>6

\* A rules-update call whose companion has an etag overwrites the version its .yaral was last
\* written for, and no later edit of that rule, across half-done pulls, texts newer than their
\* etag, lost replies and deaths between the two files (PushRulesUpdate, UpdateRule); and an
\* empty etag, with which UpdateRule sends no guard, takes a listing without one or a broken
\* write: no other step loses it.
THEOREM NoEditLost == Spec => NoBlindRevert
<1>1. IInv => \A f \in Stems : UpdateCall(f) /\ WrittenFor(f, comps[f].id) =>
        \/ base[f][2] = live[comps[f].id].etag
        \/ comps[f].etag = 0 /\ Faults \cap {"etag", "write", "crash"} # {}
  BY UpdateOfBase
<1> QED BY <1>1, InvariantHolds, PTL DEF NoBlindRevert
-----------------------------------------------------------------------------
(* A deploy changes what its preview showed *)

\* What a patch makes of a deployment, field by field.
LEMMA PatchedFields ==
  ASSUME NEW dep \in Dep, NEW mask, NEW want \in Dep, NEW d \in Patched(dep, mask, want)
  PROVE  /\ d \in Dep
         /\ d.alerting = IF "alerting" \in mask THEN want.alerting ELSE dep.alerting
         /\ d.archived = IF "archived" \in mask THEN want.archived ELSE dep.archived
         /\ d.freq = IF "freq" \in mask THEN want.freq ELSE dep.freq
         /\ \/ d.enabled = IF "enabled" \in mask THEN want.enabled ELSE dep.enabled
            \/ "guard" \in Faults /\ "enabled" \in mask /\ want.enabled /\ ~d.enabled
         /\ d.enabled => IF "enabled" \in mask THEN want.enabled ELSE dep.enabled
<1> DEFINE full == [field \in DOMAIN dep |-> IF field \in mask THEN want[field] ELSE dep[field]]
<1>1. /\ full \in Dep
      /\ full.enabled = IF "enabled" \in mask THEN want.enabled ELSE dep.enabled
      /\ full.alerting = IF "alerting" \in mask THEN want.alerting ELSE dep.alerting
      /\ full.archived = IF "archived" \in mask THEN want.archived ELSE dep.archived
      /\ full.freq = IF "freq" \in mask THEN want.freq ELSE dep.freq
  BY DEF Dep, Freqs
<1>2. \/ d = full
      \/ /\ "guard" \in Faults /\ "enabled" \in mask /\ full.enabled
         /\ d = [full EXCEPT !.enabled = FALSE]
  BY DEF Patched
<1> HIDE DEF full
<1>3. CASE d = full
  BY <1>1, <1>3
<1>4. CASE /\ "guard" \in Faults /\ "enabled" \in mask /\ full.enabled
           /\ d = [full EXCEPT !.enabled = FALSE]
  <2>1. /\ d \in Dep /\ d.alerting = full.alerting /\ d.archived = full.archived
        /\ d.freq = full.freq /\ ~d.enabled
    BY <1>1, <1>4 DEF Dep
  <2> QED BY <1>1, <1>4, <2>1
<1> QED BY <1>2, <1>3, <1>4

\* What a deployment command's call does to the instance and leaves to be recorded.
LEMMA DeployedAs ==
  ASSUME ShapeInv, NEW f \in Stems, DeployCall(f)
  PROVE  LET i == comps[f].id
             want == comps[f].dep
         IN  /\ i \in Ids /\ IsLive(i) /\ live[i].dep \in Dep /\ want \in Dep
             /\ \E d \in Patched(live[i].dep, DeployMask(f), want) :
                  /\ d \in Dep
                  /\ live' = [live EXCEPT ![i].dep = d]
                  /\ live'[i].dep = d /\ live'[i] \notin {Unborn, Gone} /\ \A j \in Ids \ {i} : live'[j] = live[j]
                  /\ pend' = [stem |-> f, comp |-> [comps[f] EXCEPT !.dep = d]]
                  /\ pend'.stem = f /\ pend'.comp.id = i /\ pend'.comp.dep = d
<1> DEFINE i == comps[f].id
           want == comps[f].dep
<1>1. Turn(f) /\ cmd = "deploy"
  BY DEF DeployCall
<1>2. comps[f] \in Companion /\ i \in Ids /\ want \in Dep
  BY <1>1, TurnType DEF Companion
<1>3. PICK d \in Deployments(i, DeployMask(f), want) :
        Applied(f, [live |-> [live EXCEPT ![i].dep = d], comp |-> [comps[f] EXCEPT !.dep = d]],
                "record")
  BY DEF DeployCall, DeployResults
<1>4. IsLive(i) /\ d \in Patched(live[i].dep, DeployMask(f), want) /\ live[i] \in Rule /\ d \in Dep
  BY <1>2, <1>3, LiveType, DeploymentsType DEF ShapeInv, Deployments
<1>5. live' = [live EXCEPT ![i].dep = d] /\ pend' = [stem |-> f, comp |-> [comps[f] EXCEPT !.dep = d]]
  BY <1>3 DEF Applied
<1>6. live'[i] = [live[i] EXCEPT !.dep = d] /\ \A j \in Ids \ {i} : live'[j] = live[j]
  BY <1>2, <1>5 DEF ShapeInv, TypeOK
<1>7. live'[i] \in Rule /\ live'[i].dep = d
  BY <1>4, <1>6 DEF Rule
<1>8. pend'.stem = f /\ pend'.comp.id = i /\ pend'.comp.dep = d
  BY <1>2, <1>5 DEF Companion
<1>9. live[i].dep \in Dep /\ live'[i] \notin {Unborn, Gone}
  <2> HIDE DEF i, want
  <2>1. live[i].dep \in Dep
    BY <1>4 DEF Rule
  <2>2. live'[i] # Unborn /\ live'[i] # Gone
    BY <1>7, PlaceholdersAssumption
  <2> QED BY <2>1, <2>2
<1> HIDE DEF i, want
<1> QED BY <1>2, <1>4, <1>5, <1>6, <1>7, <1>8, <1>9 DEF i, want

LEMMA PatchIsPlanned ==
  ASSUME NEW want \in Dep, NEW have, NEW field \in Patch(want, have)
  PROVE  want[field] # have[field]
BY DEF Patch

\* A rules-deploy call changes no field of a live deployment that its preview did not show
\* as different (ruleDeployDiffUpdate), for any number of rules and whatever others did to
\* the deployment since the listing.
THEOREM DeploySendsPlan == Spec => DeployOnlyPlanned
<1>1. ASSUME ShapeInv, NEW f \in Stems, DeployCall(f), NEW field \in DOMAIN ZeroDep,
             live'[comps[f].id].dep[field] # live[comps[f].id].dep[field]
      PROVE  comps[f].dep[field] # Have(comps[f].id)[field]
  <2> DEFINE i == comps[f].id
             want == comps[f].dep
  <2>1. PICK d \in Patched(live[i].dep, DeployMask(f), want) : live'[i].dep = d
    BY <1>1, DeployedAs
  <2>2. field \in {"enabled", "alerting", "archived", "freq"}
    BY DEF ZeroDep
  <2>3. live[i].dep \in Dep /\ want \in Dep
    BY <1>1, DeployedAs
  <2>4. field \in DeployMask(f)
    BY <1>1, <2>1, <2>2, <2>3, PatchedFields
  <2> QED BY <2>3, <2>4, PatchIsPlanned DEF DeployMask
<1>2. IInv => \A f \in Stems : DeployCall(f) =>
        \A field \in DOMAIN ZeroDep :
          live'[comps[f].id].dep[field] # live[comps[f].id].dep[field]
            => comps[f].dep[field] # Have(comps[f].id)[field]
  BY <1>1 DEF IInv
<1> QED BY <1>2, InvariantHolds, PTL DEF DeployOnlyPlanned
-----------------------------------------------------------------------------
(* A pull mirrors the instance *)

\* A step that gives one rule a name does not give it another's.
LEMMA NamesStep ==
  ASSUME NamesApart, NEW i \in Ids, \A j \in Ids \ {i} : live'[j] = live[j],
         IsLive(i)' => \/ IsLive(i) /\ live'[i].text = live[i].text
                       \/ \A j \in Ids \ {i} : IsLive(j) => Slug(live[j].text) # Slug(live'[i].text)
  PROVE  NamesApart'
<1> SUFFICES ASSUME NEW a \in Ids, NEW b \in Ids, IsLive(a)', IsLive(b)',
                    Slug(live'[a].text) = Slug(live'[b].text)
             PROVE  a = b
  BY DEF NamesApart, Slug
<1>1. \A j \in Ids \ {i} : IsLive(j)' <=> IsLive(j)
  BY DEF IsLive
<1>2. CASE a # i /\ b # i
  BY <1>1, <1>2 DEF NamesApart
<1>3. CASE a = i /\ b # i
  BY <1>1, <1>3 DEF NamesApart
<1>4. CASE a # i /\ b = i
  BY <1>1, <1>4 DEF NamesApart
<1> QED BY <1>2, <1>3, <1>4

LEMMA NamesDep ==
  ASSUME TypeOK, NamesApart, NEW i \in Ids, IsLive(i), NEW d \in Dep,
         live' = [live EXCEPT ![i].dep = d]
  PROVE  NamesApart'
<1>1. /\ \A j \in Ids \ {i} : live'[j] = live[j]
      /\ live'[i].text = live[i].text
  BY LiveType DEF TypeOK, Rule
<1> QED BY <1>1, NamesStep

LEMMA NamesResults ==
  ASSUME ShapeInv, NamesApart, ~Namesakes,
         NEW f \in Stems, Turn(f), NEW r \in Results(f), live' = r.live
  PROVE  NamesApart'
<1>1. CASE cmd = "create"
  <2>1. PICK i \in Ids : /\ NameFree(texts[f], i)
                         /\ live' = [live EXCEPT ![i] = NewRule(texts[f])]
    BY <1>1 DEF Results, CreateResults
  <2>2. live'[i].text = texts[f] /\ \A j \in Ids \ {i} : live'[j] = live[j]
    BY <2>1 DEF ShapeInv, TypeOK, NewRule
  <2> QED BY <2>1, <2>2, NamesStep DEF NameFree
<1>2. CASE cmd = "update"
  <2> DEFINE i == comps[f].id
  <2>1. i \in Ids /\ IsLive(i) /\ NameFree(texts[f], i)
    BY <1>2, TurnType DEF Results, UpdateResults, Companion
  <2>2. live' = [live EXCEPT ![i].text = texts[f], ![i].etag = @ + 1]
    BY <1>2 DEF Results, UpdateResults
  <2>3. live[i] \in Rule
    BY <2>1, LiveType DEF ShapeInv
  <2>4. live'[i].text = texts[f] /\ \A j \in Ids \ {i} : live'[j] = live[j]
    BY <2>1, <2>2, <2>3 DEF ShapeInv, TypeOK, Rule
  <2> QED BY <2>1, <2>4, NamesStep DEF NameFree
<1>3. CASE cmd \in {"deploy", "disable"}
  <2>1. PICK d \in Dep : /\ comps[f].id \in Ids /\ IsLive(comps[f].id)
                         /\ r.live = [live EXCEPT ![comps[f].id].dep = d]
                         /\ r.comp \in Companion
                         /\ r.comp.id = comps[f].id /\ r.comp.etag = comps[f].etag
    BY <1>3, DeployResultsType
  <2> QED BY <2>1, NamesDep DEF ShapeInv
<1> QED BY <1>1, <1>2, <1>3, TurnType

LEMMA NamesPush ==
  ASSUME ShapeInv, NamesApart, ~Namesakes, PushStep
  PROVE  NamesApart'
<1>0. ASSUME live' = live PROVE NamesApart'
  BY <1>0 DEF NamesApart, IsLive
<1>1. ASSUME NEW f \in Stems,
             CreateCall(f) \/ UpdateCall(f) \/ DeployCall(f) \/ DisableCall(f) \/ CallLost(f)
      PROVE  NamesApart'
  <2>1. Turn(f) /\ \E r \in Results(f) : live' = r.live
    BY <1>1 DEF CreateCall, UpdateCall, DeployCall, DisableCall, CallLost, Results, Applied
  <2> QED BY <2>1, NamesResults
<1>2. ASSUME NEW f \in Stems, DeployAlready(f) \/ DeployAlreadyUnread(f) \/ CallFails(f)
      PROVE  live' = live
  BY <1>2 DEF DeployAlready, DeployAlreadyUnread, CallFails, Applied
<1>3. ASSUME pc \in {"firstDeploy", "redeploy"}, NEW want \in Dep,
             NEW d \in Deployments(pend.comp.id, Fields, want),
             live' = [live EXCEPT ![pend.comp.id].dep = d]
      PROVE  NamesApart'
  BY <1>3, FirstType, NamesDep DEF ShapeInv
<1>4. CASE FirstDeploy \/ FirstDeployFails
  BY <1>0, <1>3, <1>4 DEF FirstDeploy, FirstDeployFails, ShapeInv, TypeOK
<1>5. CASE Redeploy \/ RedeployFails
  BY <1>0, <1>3, <1>5, RedeployWant DEF Redeploy, RedeployFails, Redeployments
<1>6. CASE Record \/ RecordFails \/ PushDone
  BY <1>0, <1>6 DEF Record, RecordFails, PushDone
<1> QED BY <1>0, <1>1, <1>2, <1>4, <1>5, <1>6 DEF PushStep

LEMMA NamesEnvironment ==
  ASSUME TypeOK, NamesApart, ~Namesakes, Environment
  PROVE  NamesApart'
<1>1. ASSUME NEW i \in Ids, UiText(i) PROVE NamesApart'
  <2>1. PICK t \in ValidTexts :
          /\ NameFree(t, i)
          /\ \/ \E d \in UiDeps : live' = [live EXCEPT ![i] = [text |-> t, etag |-> 1, dep |-> d]]
             \/ /\ IsLive(i)
                /\ live' = [live EXCEPT ![i].text = t, ![i].etag = @ + 1]
    BY <1>1 DEF UiText
  <2>2. live'[i].text = t /\ \A j \in Ids \ {i} : live'[j] = live[j]
    <3>1. CASE \E d \in UiDeps : live' = [live EXCEPT ![i] = [text |-> t, etag |-> 1, dep |-> d]]
      BY <3>1 DEF TypeOK
    <3>2. CASE IsLive(i) /\ live' = [live EXCEPT ![i].text = t, ![i].etag = @ + 1]
      BY <3>2, LiveType DEF TypeOK, Rule
    <3> QED BY <2>1, <3>1, <3>2
  <2> QED BY <2>1, <2>2, NamesStep DEF NameFree
<1>2. ASSUME NEW i \in Ids, UiDep(i) PROVE NamesApart'
  BY <1>2, NamesDep, RulesAssumption DEF UiDep
<1>3. ASSUME NEW i \in Ids, UiDelete(i) PROVE NamesApart'
  <2>1. ~IsLive(i)' /\ \A j \in Ids \ {i} : live'[j] = live[j]
    BY <1>3 DEF UiDelete, IsLive, TypeOK
  <2> QED BY <2>1, NamesStep
<1>4. ASSUME NEW f \in Stems, EditText(f) \/ EditWant(f) PROVE NamesApart'
  <2>1. live' = live
    BY <1>4 DEF EditText, EditWant
  <2> QED BY <2>1 DEF NamesApart, IsLive
<1> QED BY <1>1, <1>2, <1>3, <1>4 DEF Environment

LEMMA MirrorShape ==
  ASSUME TypeOK, NEW i \in ListedIn(snap), NEW etag \in Nat
  PROVE  /\ i \in Ids /\ snap[i] \in Listed /\ snap[i] # Absent /\ snap[i].slug \in Stems
         /\ CompanionOf(i, etag) \in Companion
         /\ PairOf(i, etag) \in Pending /\ PairOf(i, etag) # Nothing
         /\ PairOf(i, etag).stem = snap[i].slug /\ PairOf(i, etag).comp = CompanionOf(i, etag)
         /\ CompanionOf(i, etag).id = i
<1>1. i \in Ids /\ snap[i] \in Listed /\ snap[i] # Absent
  BY DEF TypeOK, ListedIn
<1>2. CompanionOf(i, etag) \in Companion /\ snap[i].slug \in Stems
  BY <1>1 DEF Listed, Companion, CompanionOf
<1> QED BY <1>1, <1>2, PlaceholdersAssumption DEF PairOf, Pending, CompanionOf

LEMMA EtagsType ==
  ASSUME ShapeInv, Mirroring, NEW i \in ListedIn(snap)
  PROVE  /\ EtagsOf(i) \subseteq Nat /\ live[i].etag \in Nat
         /\ i \in Ids /\ snap[i] \in Listed /\ snap[i].slug \in Stems
<1>1. i \in Ids /\ snap[i] \in Listed
  BY DEF ShapeInv, TypeOK, ListedIn
<1>2. IsLive(i)
  BY <1>1 DEF Mirroring
<1>3. live[i].etag \in Nat
  BY <1>1, <1>2, LiveType DEF ShapeInv, Rule
<1> QED BY <1>1, <1>3 DEF EtagsOf, Listed

LEMMA PullListMirror ==
  ASSUME ShapeInv, MirrorInv, PullList
  PROVE  Mirroring'
<1>1. PICK blank, bare : snap' = SnapshotOf(blank, bare) /\ work' = ListedIn(snap')
  BY DEF PullList
<1>2. live' = live /\ pend' = Nothing /\ pc' = "deps"
  BY DEF PullList, StartCommand, ShapeInv, PendPcs
<1>3. \A i \in Ids : IsLive(i) =>
        /\ snap'[i] = [slug |-> Slug(live[i].text),
                       text |-> IF i \in blank THEN Blank ELSE live[i].text,
                       etag |-> live[i].etag, bare |-> i \in bare, dep |-> live[i].dep]
        /\ snap'[i] \in Listed
  <2> TAKE i \in Ids
  <2> HAVE IsLive(i)
  <2>1. snap'[i] = [slug |-> Slug(live[i].text),
                    text |-> IF i \in blank THEN Blank ELSE live[i].text,
                    etag |-> live[i].etag, bare |-> i \in bare, dep |-> live[i].dep]
    BY <1>1 DEF SnapshotOf
  <2>2. live[i] \in Rule
    BY LiveType DEF ShapeInv
  <2> QED BY <2>1, <2>2, SlugType DEF Rule, Listed
<1>4. \A i \in Ids : IsLive(i) <=> i \in ListedIn(snap')
  BY <1>1, <1>3, PlaceholdersAssumption DEF SnapshotOf, ListedIn
<1>5. ListedIn(snap)' = ListedIn(snap')
  BY DEF ListedIn
<1>6. \A i \in Ids : IsLive(i)' <=> IsLive(i)
  BY <1>2 DEF IsLive
<1>7. ASSUME NEW i \in ListedIn(snap')
      PROVE  /\ snap'[i].slug = Slug(live[i].text) /\ snap'[i].etag = live[i].etag
             /\ snap'[i].text \in {Blank, live[i].text}
  <2>1. i \in Ids /\ IsLive(i)
    BY <1>4, <1>7 DEF ListedIn
  <2>2. snap'[i] = [slug |-> Slug(live[i].text),
                    text |-> IF i \in blank THEN Blank ELSE live[i].text,
                    etag |-> live[i].etag, bare |-> i \in bare, dep |-> live[i].dep]
    BY <1>3, <2>1
  <2> QED BY <2>2
<1> QED BY <1>1, <1>2, <1>4, <1>5, <1>6, <1>7 DEF Mirroring, Slug

LEMMA PullDepsMirror ==
  ASSUME ShapeInv, Mirroring, PullDeps
  PROVE  Mirroring'
<1>1. pc = "deps" /\ pend = Nothing /\ pc' = "text" /\ UNCHANGED <<live, yaral, meta, work, pend>>
  BY DEF PullDeps, ShapeInv, PendPcs, disk
<1>2. \A i \in Ids : snap'[i] = IF snap[i] = Absent THEN Absent
                ELSE [snap[i] EXCEPT !.dep = IF IsLive(i) THEN live[i].dep ELSE ZeroDep]
  BY DEF PullDeps
<1>3. \A i \in ListedIn(snap) : snap[i] \in Listed /\ i \in Ids /\ live[i] \in Rule /\ IsLive(i)
  BY LiveType DEF Mirroring, ShapeInv, TypeOK, ListedIn
<1>4. ASSUME NEW i \in ListedIn(snap)
      PROVE  /\ snap'[i] \in Listed
             /\ snap'[i].slug = snap[i].slug /\ snap'[i].etag = snap[i].etag
             /\ snap'[i].text = snap[i].text /\ snap'[i].dep = live[i].dep
  <2>1. snap'[i] = [snap[i] EXCEPT !.dep = live[i].dep]
    BY <1>2, <1>3, <1>4 DEF ListedIn
  <2> QED BY <1>3, <1>4, <2>1 DEF Listed, Rule
<1>5. ListedIn(snap)' = ListedIn(snap)
  <2>1. \A i \in Ids : snap[i] = Absent => snap'[i] = Absent
    BY <1>2
  <2>2. \A i \in Ids : snap[i] # Absent => snap'[i] # Absent
    BY <1>4, PlaceholdersAssumption DEF ListedIn
  <2> QED BY <2>1, <2>2 DEF ListedIn
<1>6. \A i \in Ids : IsLive(i)' <=> IsLive(i)
  BY <1>1 DEF IsLive
<1> QED BY <1>1, <1>4, <1>5, <1>6 DEF Mirroring, Slug

LEMMA PullTextMirror ==
  ASSUME ShapeInv, MirrorInv, Mirroring, NEW i \in Ids, PullText(i), mishaps' = {}
  PROVE  Mirroring'
<1>1. /\ pc = "text" /\ pend = Nothing /\ pc' = "meta" /\ i \in work /\ work \subseteq ListedIn(snap)
      /\ UNCHANGED <<live, meta, snap>> /\ work' = work \ {i} /\ i \in ListedIn(snap)
  BY DEF PullText, ShapeInv, PendPcs, PullPcs
<1>2. PICK got \in Fallback(i) : /\ yaral' = [yaral EXCEPT ![snap[i].slug] = got.text]
                                 /\ got.text # Blank
                                 /\ pend' = PairOf(i, got.etag)
  BY DEF PullText, PairOf
<1>3. got.text = live[i].text /\ got.etag \in EtagsOf(i)
  <2>1. snap[i].etag = live[i].etag /\ snap[i].text \in {Blank, live[i].text}
    BY <1>1 DEF Mirroring
  <2> QED BY <1>2, <2>1 DEF Fallback, EtagsOf
<1>4. TypeOK /\ snap[i].slug \in Stems
  BY <1>1, EtagsType DEF ShapeInv
<1>5. /\ ListedIn(snap)' = ListedIn(snap)
      /\ \A j : IsLive(j)' <=> IsLive(j)
      /\ \A j : EtagsOf(j)' = EtagsOf(j)
      /\ \A j, e : PairOf(j, e)' = PairOf(j, e) /\ CompanionOf(j, e)' = CompanionOf(j, e)
  BY <1>1 DEF ListedIn, IsLive, PairOf, CompanionOf, EtagsOf
<1>6. ASSUME ~Namesakes, NEW j \in ListedIn(snap) \ work' PROVE Paired(j)'
  <2>1. CASE j = i
    <3>1. yaral'[snap[j].slug] = live[j].text
      BY <1>2, <1>3, <1>4, <2>1 DEF TypeOK
    <3> QED BY <1>1, <1>2, <1>3, <1>5, <2>1, <3>1 DEF Paired
  <2>2. CASE j # i
    <3>1. j \in ListedIn(snap) \ work /\ Paired(j)
      BY <1>1, <1>6, <2>2 DEF Mirroring
    <3>2. PICK e \in EtagsOf(j) : meta[snap[j].slug] = CompanionOf(j, e) \/ pend = PairOf(j, e)
      BY <3>1 DEF Paired
    <3>3. meta[snap[j].slug] = CompanionOf(j, e) /\ snap[j].slug \in Stems
      BY <1>1, <1>4, <3>1, <3>2, EtagsType, MirrorShape
    <3>4. snap[j].slug # snap[i].slug
      BY <1>1, <1>6, <2>2, <3>1 DEF Mirroring, MirrorInv, NamesApart, ListedIn
    <3>5. yaral'[snap[j].slug] = yaral[snap[j].slug]
      BY <1>2, <1>4, <3>3, <3>4 DEF TypeOK
    <3> QED BY <1>1, <1>5, <3>1, <3>2, <3>3, <3>5 DEF Paired
  <2> QED BY <2>1, <2>2
<1>7. /\ pend' # Nothing
      /\ \E k \in ListedIn(snap)' \ work' : \E e \in EtagsOf(k)' : pend' = PairOf(k, e)'
  BY <1>1, <1>2, <1>3, <1>4, <1>5, EtagsType, MirrorShape
<1> QED BY <1>1, <1>5, <1>6, <1>7 DEF Mirroring, Slug

LEMMA PullMetaMirror ==
  ASSUME ShapeInv, MirrorInv, Mirroring, PullMeta
  PROVE  Mirroring'
<1>1. /\ pend # Nothing /\ pend' = Nothing /\ pc = "meta" /\ pc' = "text"
      /\ UNCHANGED <<live, yaral, snap, work>>
      /\ meta' = [meta EXCEPT ![pend.stem] = pend.comp]
  BY DEF PullMeta, ShapeInv, PendPcs
<1>2. PICK i \in ListedIn(snap) \ work : \E e \in EtagsOf(i) : pend = PairOf(i, e)
  BY <1>1 DEF Mirroring
<1>0. PICK etag \in EtagsOf(i) : pend = PairOf(i, etag)
  BY <1>2
<1>3. /\ TypeOK /\ snap[i].slug \in Stems
      /\ pend.stem = snap[i].slug /\ pend.comp = CompanionOf(i, etag)
  BY <1>0, EtagsType, MirrorShape DEF ShapeInv
<1>4. meta'[snap[i].slug] = CompanionOf(i, etag)
      /\ \A f \in Stems \ {snap[i].slug} : meta'[f] = meta[f]
  BY <1>1, <1>3 DEF TypeOK
<1>5. /\ ListedIn(snap)' = ListedIn(snap)
      /\ \A j : IsLive(j)' <=> IsLive(j)
      /\ \A j : EtagsOf(j)' = EtagsOf(j)
      /\ \A j, e : CompanionOf(j, e)' = CompanionOf(j, e)
  BY <1>1 DEF ListedIn, IsLive, CompanionOf, EtagsOf
<1>6. ASSUME ~Namesakes, NEW j \in ListedIn(snap) \ work PROVE Paired(j)'
  <2>1. Paired(j)
    BY <1>6 DEF Mirroring
  <2>2. CASE j = i
    BY <1>0, <1>1, <1>4, <1>5, <2>1, <2>2 DEF Paired
  <2>3. CASE j # i
    <3>1. snap[j].slug # snap[i].slug
      BY <1>2, <1>6, <2>3 DEF Mirroring, MirrorInv, NamesApart, ListedIn
    <3>2. PICK e \in EtagsOf(j) : meta[snap[j].slug] = CompanionOf(j, e) \/ pend = PairOf(j, e)
      BY <2>1 DEF Paired
    <3>3. pend # PairOf(j, e) /\ snap[j].slug \in Stems
      BY <1>3, <3>1, <3>2, EtagsType, MirrorShape
    <3>4. meta'[snap[j].slug] = CompanionOf(j, e)
      BY <1>4, <3>1, <3>2, <3>3
    <3> QED BY <1>1, <1>5, <2>1, <3>2, <3>4 DEF Paired
  <2> QED BY <2>2, <2>3
<1> QED BY <1>1, <1>5, <1>6 DEF Mirroring, Slug

LEMMA MirrorInit == Init => MirrorInv
BY DEF Init, MirrorInv, NamesApart, NameFree

\* What met a command is forgotten with it, and what meets it between two is no mishap of one.
LEMMA CalmBetween ==
  ASSUME ShapeInv, pc = "idle" => mishaps = {}, [Next]_vars
  PROVE  (pc = "idle" => mishaps = {})'
<1>1. CASE UNCHANGED vars
  BY <1>1 DEF vars, run
<1>2. CASE Start
  BY <1>2 DEF Start, PullList, CreatePlan, UpdatePlan, DeployPlan, DisablePlan, EndEarly,
     StartCommand, run
<1>3. CASE PullStep
  BY <1>3 DEF PullStep, PullDeps, PullDepsFails, PullText, PullTextFails, PullMeta,
     PullMetaFails, PullDone, Exit
<1>4. CASE PushStep
  <2>1. ASSUME NEW f \in Stems, \/ CreateCall(f) \/ UpdateCall(f) \/ DeployCall(f)
                                \/ DisableCall(f) \/ DeployAlready(f) \/ DeployAlreadyUnread(f)
                                \/ CallFails(f) \/ CallLost(f)
        PROVE  pc' # "idle"
    BY <2>1 DEF CreateCall, UpdateCall, DeployCall, DisableCall, DeployAlready,
       DeployAlreadyUnread, CallFails, CallLost, Applied, Fail, Turn
  <2>2. CASE FirstDeploy \/ FirstDeployFails \/ Redeploy \/ RedeployFails \/ Record \/ RecordFails
    BY <2>2 DEF FirstDeploy, FirstDeployFails, Redeploy, RedeployFails, Record, RecordFails
  <2>3. CASE PushDone
    BY <2>3 DEF PushDone, Exit
  <2> QED BY <1>4, <2>1, <2>2, <2>3 DEF PushStep
<1>5. CASE Crash
  BY <1>5 DEF Crash, Exit
<1>6. CASE Environment
  BY <1>6 DEF Environment, UiText, UiDep, UiDelete, EditText, EditWant, Outside, run
<1> QED BY <1>1, <1>2, <1>3, <1>4, <1>5, <1>6 DEF Next

LEMMA NextNames ==
  ASSUME ShapeInv, ~Namesakes, NamesApart, [Next]_vars
  PROVE  NamesApart'
<1>1. ASSUME live' = live PROVE NamesApart'
  BY <1>1 DEF NamesApart, IsLive
<1>2. CASE UNCHANGED vars \/ Start \/ PullStep \/ Crash
  <2>1. live' = live
    BY <1>2 DEF vars, Start, PullList, CreatePlan, UpdatePlan, DeployPlan, DisablePlan, EndEarly,
       StartCommand, PullStep, PullDeps, PullDepsFails, PullText, PullTextFails, PullMeta,
       PullMetaFails, PullDone, Crash
  <2> QED BY <1>1, <2>1
<1> QED BY <1>2, NamesPush, NamesEnvironment DEF Next, ShapeInv

LEMMA NextMirror ==
  ASSUME IInv, MirrorInv, [Next]_vars
  PROVE  MirrorInv'
<1>0. ShapeInv
  BY DEF IInv
<1>1. (pc = "idle" => mishaps = {})'
  BY <1>0, CalmBetween DEF MirrorInv
<1>2. (~Namesakes => NamesApart)'
  BY <1>0, NextNames DEF MirrorInv
<1>3. ASSUME cmd' = "pull", mishaps' = {} PROVE Mirroring'
  <2>1. CASE UNCHANGED vars
    <3>1. UNCHANGED <<live, yaral, meta, cmd, pc, snap, work, pend, mishaps>>
      BY <2>1 DEF vars, disk, run
    <3>2. Mirroring
      BY <1>3, <3>1 DEF MirrorInv
    <3>3. /\ ListedIn(snap)' = ListedIn(snap) /\ \A i : IsLive(i)' <=> IsLive(i)
          /\ \A i : EtagsOf(i)' = EtagsOf(i)
          /\ \A i, e : PairOf(i, e)' = PairOf(i, e) /\ CompanionOf(i, e)' = CompanionOf(i, e)
      BY <3>1 DEF PairOf, CompanionOf, EtagsOf, IsLive, ListedIn
    <3>4. \A i : Paired(i) => Paired(i)'
      BY <3>1, <3>3 DEF Paired
    <3> QED BY <3>1, <3>2, <3>3, <3>4 DEF Mirroring, Slug
  <2>2. CASE Start
    <3>1. PullList
      BY <1>0, <1>3, <2>2 DEF Start, PullList, CreatePlan, UpdatePlan, DeployPlan, DisablePlan,
         EndEarly, StartCommand, run, ShapeInv
    <3> QED BY <1>0, <3>1, PullListMirror
  <2>3. CASE PullStep
    <3>1. ~PullDepsFails
      BY <1>3 DEF PullDepsFails
    <3>2. ~Exit
      BY <1>3 DEF Exit
    <3>3. cmd = "pull" /\ mishaps = {}
      BY <1>3, <2>3, <3>1, <3>2 DEF PullStep, PullDeps, PullText, PullTextFails, PullMeta,
         PullMetaFails, PullDone
    <3>4. Mirroring
      BY <3>3 DEF MirrorInv
    <3> QED BY <1>0, <1>3, <2>3, <3>1, <3>2, <3>4, PullDepsMirror, PullTextMirror, PullMetaMirror
         DEF PullStep, PullTextFails, PullMetaFails, PullDone
  <2>4. CASE PushStep
    <3>1. cmd # "pull"
      BY <1>0, <2>4, TurnType DEF PushStep, CreateCall, UpdateCall, DeployCall, DisableCall,
         DeployAlready, DeployAlreadyUnread, CallFails, CallLost, FirstDeploy, FirstDeployFails,
         Redeploy, RedeployFails, Record, RecordFails, PushDone, ShapeInv, PullPcs
    <3>2. cmd' = cmd \/ Exit
      BY <2>4 DEF PushStep, CreateCall, UpdateCall, DeployCall, DisableCall, DeployAlready,
         DeployAlreadyUnread, CallFails, CallLost, Applied, Fail, FirstDeploy, FirstDeployFails,
         Redeploy, RedeployFails, Record, RecordFails, PushDone
    <3> QED BY <1>3, <3>1, <3>2 DEF Exit
  <2>5. CASE Crash
    BY <1>3, <2>5 DEF Crash, Exit
  <2>6. CASE Environment
    <3>1. pc = "idle" /\ cmd' = cmd
      BY <1>3, <2>6 DEF Environment, UiText, UiDep, UiDelete, EditText, EditWant, Outside, run
    <3> QED BY <1>0, <1>3, <3>1 DEF ShapeInv
  <2> QED BY <2>1, <2>2, <2>3, <2>4, <2>5, <2>6 DEF Next
<1> QED BY <1>1, <1>2, <1>3 DEF MirrorInv

LEMMA MirrorAlways == Spec => []MirrorInv
BY MirrorInit, NextMirror, InvariantHolds, PTL DEF Spec

\* What a pull mirrors is not taken up by the next push.
LEMMA MirroredRests ==
  ASSUME ShapeInv, NEW i \in Ids, IsLive(i), Mirrored(i)
  PROVE  Slug(live[i].text) \notin Pushed
<1> DEFINE f == Slug(live[i].text)
           now == SnapshotOf({}, {})
<1>1. live[i] \in Rule /\ f \in Stems
  BY LiveType, SlugType DEF ShapeInv, Rule
<1>2. IsComp(meta[f]) /\ meta[f].id = i /\ yaral[f] = live[i].text /\ ~Differs(meta[f].dep, live[i].dep)
  BY DEF Mirrored
<1>3. now[i] = [slug |-> f, text |-> IF i \in {} THEN Blank ELSE live[i].text,
                etag |-> live[i].etag, bare |-> i \in {}, dep |-> live[i].dep]
  BY DEF SnapshotOf
<1>4. now[i] # Absent /\ now[i].text = live[i].text /\ now[i].dep = live[i].dep
  <2>1. now[i] \in Listed
    <3>1. (i \in {}) \in BOOLEAN
      OBVIOUS
    <3> HIDE DEF f, now
    <3> QED BY <1>1, <1>3, <3>1 DEF Rule, Listed
  <2>2. now[i].text = live[i].text /\ now[i].dep = live[i].dep
    BY <1>3
  <2> HIDE DEF now, f
  <2> QED BY <2>1, <2>2, PlaceholdersAssumption
<1> HIDE DEF now, f
<1>5. f \notin New
  BY <1>2 DEF New, IsComp
<1>6. f \notin UpdateWork(now)
  BY <1>2, <1>4 DEF UpdateWork
<1>7. f \notin DeployWork(Tracked, now)
  BY <1>2, <1>4 DEF DeployWork, HaveIn
<1> QED BY <1>5, <1>6, <1>7 DEF Pushed, now, f

\* A pull that nothing went wrong with leaves every live rule its pair of files, with its
\* text, version and deployment, and none of those files is to be created, updated or deployed
\* (PullRules; push_rules_lifecycle.go), however many rules there are and whatever leftovers of
\* renamed and deleted rules lie beside them, if no two live rules have one name.
THEOREM PullMirrors ==
  ASSUME ~Namesakes
  PROVE  Spec => []PullFaithful
<1>1. ASSUME ShapeInv, MirrorInv, PullEnds, mishaps = {}, NEW i \in Ids, IsLive(i)
      PROVE  Mirrored(i)
  <2>1. cmd = "pull" /\ pend = Nothing /\ work = {} /\ pc # "deps"
    BY <1>1 DEF PullEnds, ShapeInv, PullPcs, PendPcs
  <2>2. i \in ListedIn(snap) /\ Paired(i) /\ Mirroring
    BY <1>1, <2>1 DEF MirrorInv, Mirroring
  <2>3. PICK e \in EtagsOf(i) : meta[snap[i].slug] = CompanionOf(i, e) \/ pend = PairOf(i, e)
    BY <2>2 DEF Paired
  <2>4. e \in Nat
    BY <1>1, <2>2, <2>3, EtagsType
  <2>5. /\ snap[i].slug \in Stems /\ PairOf(i, e) # Nothing /\ CompanionOf(i, e) \in Companion
        /\ snap[i].slug = Slug(live[i].text) /\ snap[i].dep = live[i].dep
    BY <1>1, <2>1, <2>2, <2>4, MirrorShape DEF Mirroring, ShapeInv
  <2>6. yaral[snap[i].slug] = live[i].text /\ meta[snap[i].slug] = CompanionOf(i, e)
    BY <2>1, <2>2, <2>3, <2>5 DEF Paired
  <2>7. /\ CompanionOf(i, e).id = i /\ CompanionOf(i, e).dep = live[i].dep
        /\ CompanionOf(i, e).etag = live[i].etag \/ (snap[i].bare /\ CompanionOf(i, e).etag = 0)
    BY <2>3, <2>5 DEF CompanionOf, EtagsOf
  <2>8. IsComp(CompanionOf(i, e)) /\ ~Differs(live[i].dep, live[i].dep)
    BY <2>5, PlaceholdersAssumption DEF IsComp, Differs
  <2> QED BY <2>5, <2>6, <2>7, <2>8 DEF Mirrored
<1>2. ASSUME ShapeInv, MirrorInv PROVE PullFaithful
  BY <1>1, <1>2, MirroredRests DEF PullFaithful
<1> QED BY <1>2, MirrorAlways, InvariantHolds, PTL DEF IInv

-----------------------------------------------------------------------------
(* A deployment command leaves what its companions wanted *)

\* A patch of what differs leaves nothing that differs, short of a rule left disabled.
LEMMA PatchReaches ==
  ASSUME NEW want \in Dep, NEW have \in Dep, ~Archived(want, have),
         NEW d \in Patched(have, Patch(want, have), want)
  PROVE  \/ ~Differs(want, d)
         \/ "guard" \in Faults /\ ~Differs([want EXCEPT !.enabled = FALSE], d)
<1>1. PICK mask : mask = Patch(want, have)
  OBVIOUS
<1>2. /\ "enabled" \in mask <=> want.enabled # have.enabled
      /\ "alerting" \in mask <=> want.alerting # have.alerting
      /\ "archived" \notin mask
      /\ "freq" \in mask <=> want.freq # "" /\ want.freq # have.freq
  BY <1>1 DEF Patch
<1>3. d \in Patched(have, mask, want)
  BY <1>1
<1>4. /\ d.alerting = IF "alerting" \in mask THEN want.alerting ELSE have.alerting
      /\ d.archived = IF "archived" \in mask THEN want.archived ELSE have.archived
      /\ d.freq = IF "freq" \in mask THEN want.freq ELSE have.freq
      /\ \/ d.enabled = IF "enabled" \in mask THEN want.enabled ELSE have.enabled
         \/ "guard" \in Faults /\ "enabled" \in mask /\ want.enabled /\ ~d.enabled
      /\ d \in Dep
  BY <1>3, PatchedFields, Zenon
<1>5. /\ d.alerting = want.alerting
      /\ want.freq = "" \/ want.freq = d.freq
  BY <1>2, <1>4
<1>6. d.archived = want.archived
  BY <1>2, <1>4 DEF Archived, Dep
<1>7. d.enabled = want.enabled \/ ("guard" \in Faults /\ ~d.enabled)
  BY <1>2, <1>4
<1>8. CASE d.enabled = want.enabled
  BY <1>5, <1>6, <1>8 DEF Differs
<1>9. CASE "guard" \in Faults /\ ~d.enabled
  <2> DEFINE off == [want EXCEPT !.enabled = FALSE]
  <2>1. off.alerting = want.alerting /\ off.archived = want.archived /\ off.freq = want.freq
        /\ off.enabled = FALSE
    BY DEF Dep
  <2>2. d.enabled = FALSE
    BY <1>4, <1>9 DEF Dep
  <2> HIDE DEF off
  <2>3. ~Differs(off, d)
    BY <1>5, <1>6, <2>1, <2>2 DEF Differs
  <2> QED BY <1>9, <2>3 DEF off
<1> QED BY <1>7, <1>8, <1>9

\* A call that leaves rule i with deployment d, and a companion that agrees with it.
LEMMA CallDone ==
  ASSUME ShapeInv, RightFiles, RightDeps, NEW f \in Stems, Turn(f), cmd \in {"deploy", "disable"},
         UNCHANGED <<meta, cmd, snap, comps, failed>>, work' = Rest(f),
         NEW d, \A j \in Ids \ {comps[f].id} : live'[j] = live[j],
         live'[comps[f].id] \notin {Unborn, Gone}, live'[comps[f].id].dep = d,
         pend' # Nothing, pend'.stem = f, pend'.comp.id = comps[f].id,
         Says(pend'.comp.dep, d),
         ~failed /\ DistinctIds => Wanted(f, d)
  PROVE  (RightFiles /\ RightDeps)'
<1>1. pend = Nothing /\ f \in work /\ comps[f] # NoFile /\ comps[f] \in Companion
  BY TurnType DEF Turn, ShapeInv, PendPcs
<1>2. RightFiles'
  BY <1>1 DEF RightFiles, IsComp, Rest
<1>3. ASSUME ~failed, DistinctIds, NEW g \in Stems, comps[g] # NoFile
      PROVE  /\ g \in work' /\ cmd = "deploy" =>
                  Have(comps[g].id)' = Now(comps[g].id)' /\ ~Archived(comps[g].dep, Have(comps[g].id))'
             /\ g \notin work' => Says(CompToBe(g).dep, Now(comps[g].id))'
                                /\ Wanted(g, Now(comps[g].id))'
  <2>1. CASE g = f
    <3>1. Now(comps[g].id)' = d /\ CompToBe(g)' = pend'.comp /\ g \notin work'
      BY <2>1 DEF Now, IsLive, CompToBe, Rest
    <3>2. Wanted(g, Now(comps[g].id))'
      BY <1>3, <2>1, <3>1 DEF Wanted
    <3> QED BY <3>1, <3>2 DEF Says, Differs
  <2>2. CASE g # f
    <3>1. comps[g].id \in Ids /\ comps[g].id # comps[f].id
      BY <1>1, <1>3, <2>2 DEF RightFiles, DistinctIds, ShapeInv, TypeOK, Companion
    <3>2. Now(comps[g].id)' = Now(comps[g].id) /\ Have(comps[g].id)' = Have(comps[g].id)
      BY <3>1 DEF Now, IsLive, Have
    <3>3. CompToBe(g)' = CompToBe(g) /\ (g \in work' <=> g \in work)
      BY <1>1, <2>2 DEF CompToBe, Rest
    <3>4. /\ g \in work /\ cmd = "deploy" =>
                Have(comps[g].id) = Now(comps[g].id) /\ ~Archived(comps[g].dep, Have(comps[g].id))
          /\ g \notin work => Says(CompToBe(g).dep, Now(comps[g].id))
                              /\ Wanted(g, Now(comps[g].id))
      BY <1>3 DEF RightDeps
    <3> QED BY <3>2, <3>3, <3>4 DEF Archived, Says, Differs, Wanted
  <2> QED BY <2>1, <2>2
<1>4. DistinctIds' <=> DistinctIds
  BY DEF DistinctIds, IsComp
<1>5. RightDeps'
  BY <1>3, <1>4 DEF RightDeps
<1> QED BY <1>2, <1>5

LEMMA StartRight ==
  ASSUME ShapeInv, DeployPlan \/ DisablePlan
  PROVE  (RightFiles /\ RightDeps)'
<1>0. /\ UNCHANGED <<live, meta, pend>> /\ pend = Nothing
      /\ Tracked \subseteq Stems
  BY TrackedType DEF DeployPlan, DisablePlan, StartCommand, disk, ShapeInv, PendPcs
<1>1. /\ UNCHANGED <<live, meta, pend>> /\ pend = Nothing /\ work' \subseteq Stems
      /\ \A f \in Stems : comps'[f] # NoFile => f \in Tracked /\ comps'[f] = meta[f]
  <2>1. CASE DeployPlan
    <3>1. PICK scope \in {Tracked} \cup {{f} : f \in Tracked} :
            /\ work' \subseteq scope
            /\ comps' = [f \in Stems |-> IF f \in scope THEN meta[f] ELSE NoFile]
      BY <2>1 DEF DeployPlan, DeployWork
    <3> QED BY <1>0, <3>1
  <2>2. CASE DisablePlan
    BY <1>0, <2>2 DEF DisablePlan
  <2> QED BY <1>0, <2>1, <2>2
<1>2. RightFiles'
  BY <1>1 DEF RightFiles, Tracked, IsComp
<1>3. CASE DeployPlan
  <2>1. PICK scope \in {Tracked} \cup {{f} : f \in Tracked} :
          /\ \A f \in DeployWork(scope, SnapshotOf({}, {})) :
               ~Archived(meta[f].dep, HaveIn(SnapshotOf({}, {}), meta[f].id))
          /\ snap' = SnapshotOf({}, {})
          /\ work' = DeployWork(scope, SnapshotOf({}, {}))
          /\ comps' = [f \in Stems |-> IF f \in scope THEN meta[f] ELSE NoFile]
    BY <1>3 DEF DeployPlan
  <2>2. cmd' = "deploy"
    BY <1>3 DEF DeployPlan, StartCommand
  <2>3. \A i \in Ids : Have(i)' = Now(i)
    <3> TAKE i \in Ids
    <3>1. snap'[i] = IF ~IsLive(i) THEN Absent
                     ELSE [slug |-> Slug(live[i].text),
                           text |-> IF i \in {} THEN Blank ELSE live[i].text,
                           etag |-> live[i].etag, bare |-> i \in {}, dep |-> live[i].dep]
      BY <2>1 DEF SnapshotOf
    <3>2. IsLive(i) => snap'[i] # Absent
      <4>1. ASSUME IsLive(i) PROVE snap'[i] \in Listed
        <5>1. live[i] \in Rule
          BY <4>1, LiveType DEF ShapeInv
        <5> QED BY <3>1, <4>1, <5>1, SlugType DEF Rule, Listed
      <4> QED BY <4>1, PlaceholdersAssumption
    <3> QED BY <3>1, <3>2 DEF Have, HaveIn, Now
  <2>4. ASSUME NEW f \in Stems, comps'[f] # NoFile
        PROVE  /\ f \in work' => ~Archived(comps'[f].dep, Now(comps'[f].id))
               /\ f \notin work' => ~Differs(comps'[f].dep, Now(comps'[f].id))
               /\ comps'[f].id \in Ids
    <3>1. f \in scope /\ comps'[f] = meta[f] /\ meta[f] \in Companion
      BY <1>1, <2>1, <2>4, TrackedType DEF ShapeInv
    <3>2. meta[f].id \in Ids
      BY <3>1 DEF Companion
    <3>3. HaveIn(SnapshotOf({}, {}), meta[f].id) = Now(meta[f].id)
      BY <2>1, <2>3, <3>2 DEF Have, HaveIn
    <3> QED BY <2>1, <3>1, <3>2, <3>3 DEF DeployWork
  <2>5. \A i \in Ids : Now(i)' = Now(i)
    BY <1>1 DEF Now, IsLive
  <2>6. \A f \in Stems : comps'[f] # NoFile => CompToBe(f)' = comps'[f]
    BY <1>1 DEF CompToBe
  <2>7. RightDeps'
    BY <2>2, <2>3, <2>4, <2>5, <2>6 DEF RightDeps, Archived, Says, Differs, Wanted
  <2> QED BY <1>2, <2>7
<1>4. CASE DisablePlan
  <2>1. cmd' = "disable" /\ \A f \in Stems : comps'[f] # NoFile => f \in work'
    BY <1>4 DEF DisablePlan, StartCommand
  <2>2. RightDeps'
    BY <2>1 DEF RightDeps
  <2> QED BY <1>2, <2>2
<1> QED BY <1>3, <1>4
\* A call of rules-deploy leaves a rule, and its companion, as the companion wanted it.
LEMMA DeployRight ==
  ASSUME ShapeInv, RightFiles, RightDeps, NEW f \in Stems, DeployCall(f)
  PROVE  (RightFiles /\ RightDeps)'
<1> DEFINE i == comps[f].id
           want == comps[f].dep
<1>1. /\ i \in Ids /\ IsLive(i) /\ live[i].dep \in Dep /\ want \in Dep
      /\ \E d \in Patched(live[i].dep, DeployMask(f), want) :
           /\ d \in Dep
           /\ live'[i].dep = d /\ live'[i] \notin {Unborn, Gone} /\ \A j \in Ids \ {i} : live'[j] = live[j]
           /\ pend' = [stem |-> f, comp |-> [comps[f] EXCEPT !.dep = d]]
           /\ pend'.stem = f /\ pend'.comp.id = i /\ pend'.comp.dep = d
  BY DeployedAs
<1>2. PICK d \in Patched(live[i].dep, DeployMask(f), want) :
           /\ d \in Dep
           /\ live'[i].dep = d /\ live'[i] \notin {Unborn, Gone} /\ \A j \in Ids \ {i} : live'[j] = live[j]
           /\ pend' = [stem |-> f, comp |-> [comps[f] EXCEPT !.dep = d]]
           /\ pend'.stem = f /\ pend'.comp.id = i /\ pend'.comp.dep = d
  BY <1>1
<1>3. Turn(f) /\ cmd = "deploy" /\ UNCHANGED <<meta, cmd, snap, comps, failed>> /\ work' = Rest(f)
  BY DEF DeployCall, Applied, disk
<1>4. comps[f] # NoFile /\ comps[f] \in Companion /\ f \in work
  BY <1>3, TurnType DEF Turn
<1>5. pend' # Nothing
  BY <1>2, <1>4, PlaceholdersAssumption DEF Pending, Companion
<1>6. ASSUME ~failed, DistinctIds PROVE Wanted(f, d)
  <2>1. Have(i) = Now(i) /\ ~Archived(want, Have(i))
    BY <1>3, <1>4, <1>6 DEF RightDeps
  <2>2. Have(i) = live[i].dep
    BY <1>1, <2>1 DEF Now
  <2>3. DeployMask(f) = Patch(want, live[i].dep)
    BY <2>2 DEF DeployMask
  <2>4. \/ ~Differs(want, d)
        \/ "guard" \in Faults /\ ~Differs([want EXCEPT !.enabled = FALSE], d)
    BY <1>1, <1>2, <2>1, <2>2, <2>3, PatchReaches
  <2> QED BY <1>3, <2>4 DEF Wanted
<1>7. Says(pend'.comp.dep, d)
  BY <1>2 DEF Says, Differs
<1> QED BY <1>2, <1>3, <1>5, <1>6, <1>7, CallDone

LEMMA DisabledAs ==
  ASSUME ShapeInv, NEW f \in Stems, Turn(f), cmd = "disable", NEW r \in DisableResults(f)
  PROVE  LET i == comps[f].id IN
         /\ i \in Ids /\ IsLive(i) /\ live[i].dep.enabled /\ comps[f] \in Companion
         /\ \E d \in Dep :
              /\ r.live = [live EXCEPT ![i].dep = d]
              /\ ~d.enabled /\ d.alerting = live[i].dep.alerting
              /\ d.archived = live[i].dep.archived /\ d.freq = live[i].dep.freq
              /\ r.comp.id = i
              /\ r.comp.dep = [d EXCEPT !.freq = IF @ # "" THEN @ ELSE comps[f].dep.freq]
<1> DEFINE i == comps[f].id
<1>1. comps[f] \in Companion /\ i \in Ids
  BY TurnType DEF Companion
<1>2. PICK d \in Deployments(i, {"enabled"}, ZeroDep) :
        r = [live |-> [live EXCEPT ![i].dep = d], comp |-> DisableEcho(comps[f], d)]
  BY DEF DisableResults
<1>3. /\ IsLive(i) /\ d \in Patched(live[i].dep, {"enabled"}, ZeroDep)
      /\ live[i].dep \in Dep /\ d \in Dep /\ live[i].dep.enabled # FALSE
  BY <1>1, <1>2, ZeroDepType, LiveType, DeploymentsType
     DEF ShapeInv, Deployments, Conflicts, ZeroDep, Rule
<1>4. live[i].dep.enabled
  BY <1>3 DEF Dep
<1>5. ~d.enabled /\ d.alerting = live[i].dep.alerting
      /\ d.archived = live[i].dep.archived /\ d.freq = live[i].dep.freq
  <2>1. /\ d.alerting = IF "alerting" \in {"enabled"} THEN ZeroDep.alerting ELSE live[i].dep.alerting
        /\ d.archived = IF "archived" \in {"enabled"} THEN ZeroDep.archived ELSE live[i].dep.archived
        /\ d.freq = IF "freq" \in {"enabled"} THEN ZeroDep.freq ELSE live[i].dep.freq
        /\ d.enabled => IF "enabled" \in {"enabled"} THEN ZeroDep.enabled ELSE live[i].dep.enabled
    BY <1>3, ZeroDepType, PatchedFields, ZenonT(60)
  <2>2. ~ZeroDep.enabled
    BY DEF ZeroDep
  <2> QED BY <2>1, <2>2
<1>6. r.comp.id = i
      /\ r.comp.dep = [d EXCEPT !.freq = IF @ # "" THEN @ ELSE comps[f].dep.freq]
  BY <1>1, <1>2 DEF DisableEcho, Companion
<1>7. r.live = [live EXCEPT ![i].dep = d]
  BY <1>2
<1> QED BY <1>1, <1>3, <1>4, <1>5, <1>6, <1>7

\* A call of rules-disable leaves a rule disabled, and its companion says so, with the frequency
\* it had where the instance has none.
LEMMA DisableRight ==
  ASSUME ShapeInv, RightFiles, RightDeps, NEW f \in Stems, DisableCall(f)
  PROVE  (RightFiles /\ RightDeps)'
<1> DEFINE i == comps[f].id
<1>1. Turn(f) /\ cmd = "disable" /\ UNCHANGED <<meta, cmd, snap, comps, failed>> /\ work' = Rest(f)
  BY DEF DisableCall, Applied, disk
<1>2. PICK r \in DisableResults(f) : live' = r.live /\ pend' = [stem |-> f, comp |-> r.comp]
  BY DEF DisableCall, Applied
<1>3. /\ i \in Ids /\ IsLive(i) /\ live[i].dep.enabled /\ comps[f] \in Companion
      /\ \E d \in Dep :
           /\ r.live = [live EXCEPT ![i].dep = d]
           /\ ~d.enabled /\ d.alerting = live[i].dep.alerting
           /\ d.archived = live[i].dep.archived /\ d.freq = live[i].dep.freq
           /\ r.comp.id = i
           /\ r.comp.dep = [d EXCEPT !.freq = IF @ # "" THEN @ ELSE comps[f].dep.freq]
  BY <1>1, DisabledAs
<1>4. PICK d \in Dep :
           /\ r.live = [live EXCEPT ![i].dep = d]
           /\ ~d.enabled /\ d.freq = live[i].dep.freq
           /\ r.comp.id = i
           /\ r.comp.dep = [d EXCEPT !.freq = IF @ # "" THEN @ ELSE comps[f].dep.freq]
  BY <1>3
<1>5. Says(r.comp.dep, d)
  <2>1. CASE d.freq # ""
    <3>1. r.comp.dep = d
      BY <1>4, <2>1 DEF Dep
    <3> QED BY <3>1 DEF Says, Differs
  <2>2. CASE d.freq = ""
    <3>1. r.comp.dep = [d EXCEPT !.freq = comps[f].dep.freq]
      BY <1>4, <2>2
    <3>2. [r.comp.dep EXCEPT !.freq = ""] = d
      BY <2>2, <3>1 DEF Dep
    <3>3. ~Differs(d, d)
      BY DEF Differs
    <3> QED BY <1>1, <2>2, <3>2, <3>3 DEF Says
  <2> QED BY <2>1, <2>2
<1>7. live[i] \in Rule
  BY <1>3, LiveType DEF ShapeInv
<1>8. /\ live'[i] = [live[i] EXCEPT !.dep = d] /\ \A j \in Ids \ {i} : live'[j] = live[j]
  BY <1>2, <1>3, <1>4 DEF ShapeInv, TypeOK
<1>9. live'[i] \in Rule /\ live'[i].dep = d
  BY <1>7, <1>8 DEF Rule
<1>10. live'[i] \notin {Unborn, Gone}
  BY <1>9, PlaceholdersAssumption
<1>11. r.comp \in Companion
  <2>1. r \in Results(f)
    BY <1>1, <1>2 DEF Results
  <2> QED BY <1>1, <2>1, DeployResultsType
<1>12. pend' # Nothing /\ pend'.stem = f /\ pend'.comp = r.comp
  BY <1>2, <1>11, PlaceholdersAssumption DEF Pending
<1>13. Says(pend'.comp.dep, d)
  BY <1>5, <1>12
<1>14. ~failed /\ DistinctIds => Wanted(f, d)
  BY <1>1, <1>4 DEF Wanted
<1> QED BY <1>1, <1>4, <1>8, <1>9, <1>10, <1>12, <1>13, <1>14, CallDone

\* A 409 says that the enabled flag was changed by others: it cannot meet a command that
\* nobody interferes with.
LEMMA AlreadyRight ==
  ASSUME ShapeInv, RightFiles, RightDeps, NEW f \in Stems, DeployAlready(f)
  PROVE  (RightFiles /\ RightDeps)'
<1> DEFINE i == comps[f].id
           d == live[i].dep
<1>1. /\ Turn(f) /\ cmd = "deploy" /\ IsLive(i) /\ Conflicts(live[i].dep, DeployMask(f), comps[f].dep)
      /\ UNCHANGED <<meta, cmd, snap, comps, failed>> /\ work' = Rest(f) /\ live' = live
      /\ pend' = [stem |-> f, comp |-> [comps[f] EXCEPT !.dep = d]]
  BY DEF DeployAlready, AlreadyThere, Applied, disk
<1>2. comps[f] # NoFile /\ comps[f] \in Companion /\ f \in work /\ i \in Ids
  BY <1>1, TurnType DEF Turn, Companion
<1>3. d \in Dep /\ live[i] \notin {Unborn, Gone}
  BY <1>1, <1>2, LiveType DEF ShapeInv, Rule, IsLive
<1>4. /\ pend' \in Pending /\ pend'.stem = f /\ pend'.comp.id = i /\ pend'.comp.dep = d
  BY <1>1, <1>2, <1>3 DEF Pending, Companion
<1>5. pend' # Nothing
  BY <1>4, PlaceholdersAssumption
<1>6. ~(~failed /\ DistinctIds)
  <2> SUFFICES ASSUME ~failed, DistinctIds PROVE FALSE
    OBVIOUS
  <2>1. Have(i) = d
    BY <1>1, <1>2 DEF RightDeps, Now
  <2> HIDE DEF d
  <2>2. comps[f].dep.enabled # d.enabled
    BY <1>1, <2>1 DEF Conflicts, DeployMask, Patch
  <2>3. d.enabled = comps[f].dep.enabled
    BY <1>1 DEF Conflicts, d
  <2> QED BY <2>2, <2>3
<1>7. Says(pend'.comp.dep, d)
  BY <1>4 DEF Says, Differs
<1> QED BY <1>1, <1>3, <1>4, <1>5, <1>6, <1>7, CallDone
\* A step that takes up no item and leaves the instance alone, and what the companions are or
\* are about to be with the rules they are about.
LEMMA RightKept ==
  ASSUME ShapeInv, RightFiles, RightDeps,
         UNCHANGED <<live, cmd, snap, comps, work, failed>>,
         RightFiles', DistinctIds' => DistinctIds,
         \A f \in Stems : CompToBe(f)' = CompToBe(f)
  PROVE  (RightFiles /\ RightDeps)'
<1>1. \A i : Now(i)' = Now(i) /\ Have(i)' = Have(i)
  BY DEF Now, IsLive, Have
<1>2. ASSUME ~failed, DistinctIds, NEW f \in Stems, comps[f] # NoFile
      PROVE  LET i == comps[f].id IN
             /\ f \in work /\ cmd = "deploy" => Have(i) = Now(i) /\ ~Archived(comps[f].dep, Have(i))
             /\ f \notin work => Says(CompToBe(f).dep, Now(i)) /\ Wanted(f, Now(i))
  BY <1>2 DEF RightDeps
<1>3. ASSUME ~failed, DistinctIds, NEW f \in Stems, comps[f] # NoFile
      PROVE  /\ Have(comps[f].id)' = Have(comps[f].id) /\ Now(comps[f].id)' = Now(comps[f].id)
             /\ Wanted(f, Now(comps[f].id))' <=> Wanted(f, Now(comps[f].id))
             /\ Says(CompToBe(f).dep, Now(comps[f].id))' <=> Says(CompToBe(f).dep, Now(comps[f].id))
             /\ Archived(comps[f].dep, Have(comps[f].id))' <=> Archived(comps[f].dep, Have(comps[f].id))
  <2>1. /\ Have(comps[f].id)' = Have(comps[f].id) /\ Now(comps[f].id)' = Now(comps[f].id)
        /\ CompToBe(f)' = CompToBe(f) /\ comps'[f] = comps[f]
    BY <1>1, <1>3 DEF Have, Now, IsLive
  <2> QED BY <2>1 DEF Wanted, Says, Differs, Archived
<1>4. RightDeps'
  BY <1>2, <1>3 DEF RightDeps
<1> QED BY <1>4

LEMMA RecordRight ==
  ASSUME ShapeInv, RightFiles, RightDeps, Record
  PROVE  (RightFiles /\ RightDeps)'
<1>1. /\ meta' = [meta EXCEPT ![pend.stem] = pend.comp] /\ pend' = Nothing
      /\ UNCHANGED <<live, cmd, snap, comps, work, failed>>
  BY DEF Record
<1>2. pend \in Pending /\ pend # Nothing
  BY DEF Record, ShapeInv, TypeOK, PendPcs
<1>3. /\ pend.stem \in Stems /\ pend.comp \in Companion /\ IsComp(pend.comp)
      /\ comps[pend.stem] # NoFile /\ pend.comp.id = comps[pend.stem].id
      /\ IsComp(meta[pend.stem]) /\ meta[pend.stem].id = pend.comp.id
  BY <1>2, PlaceholdersAssumption DEF Pending, IsComp, RightFiles
<1>4. /\ meta'[pend.stem] = pend.comp
      /\ \A f \in Stems \ {pend.stem} : meta'[f] = meta[f]
  BY <1>1, <1>3 DEF ShapeInv, TypeOK
<1>5. \A f \in Stems : /\ IsComp(meta[f])' <=> IsComp(meta[f])
                       /\ IsComp(meta[f]) => meta'[f].id = meta[f].id
  BY <1>3, <1>4 DEF IsComp
<1>6. RightFiles'
  BY <1>1, <1>5 DEF RightFiles
<1>7. DistinctIds' => DistinctIds
  BY <1>5 DEF DistinctIds
<1>8. \A f \in Stems : CompToBe(f)' = CompToBe(f)
  BY <1>1, <1>2, <1>4 DEF CompToBe
<1> QED BY <1>1, <1>6, <1>7, <1>8, RightKept

\* An item that failed: what the rest of the command leaves is promised to nobody.
LEMMA FailRight ==
  ASSUME ShapeInv, RightFiles, NEW f \in Stems, Turn(f), Fail(f)
  PROVE  (RightFiles /\ RightDeps)'
<1>1. failed' = TRUE /\ work' = Rest(f) /\ UNCHANGED <<meta, comps, pend>>
  BY DEF Fail, disk
<1>2. RightFiles'
  BY <1>1 DEF RightFiles, Rest
<1>3. RightDeps'
  BY <1>1 DEF RightDeps
<1> QED BY <1>2, <1>3

LEMMA PushStepRight ==
  ASSUME ShapeInv, RightFiles, RightDeps, PushStep, mishaps = {}, mishaps' = {},
         cmd \in {"deploy", "disable"}, cmd' \in {"deploy", "disable"}
  PROVE  (RightFiles /\ RightDeps)'
<1>1. ASSUME NEW f \in Stems, \/ CreateCall(f) \/ UpdateCall(f) \/ DeployCall(f)
                              \/ DisableCall(f) \/ DeployAlready(f) \/ DeployAlreadyUnread(f)
                              \/ CallFails(f) \/ CallLost(f)
      PROVE  (RightFiles /\ RightDeps)'
  <2>1. CASE DeployCall(f)
    BY <2>1, DeployRight
  <2>2. CASE DisableCall(f)
    BY <2>2, DisableRight
  <2>3. CASE DeployAlready(f)
    BY <2>3, AlreadyRight
  <2>4. CASE CallFails(f) \/ CallLost(f)
    BY <2>4, FailRight DEF CallFails, CallLost
  <2>5. ~CreateCall(f) /\ ~UpdateCall(f) /\ ~DeployAlreadyUnread(f)
    BY DEF CreateCall, UpdateCall, DeployAlreadyUnread
  <2> QED BY <1>1, <2>1, <2>2, <2>3, <2>4, <2>5
<1>2. CASE Record
  BY <1>2, RecordRight
<1>3. ~FirstDeploy /\ ~FirstDeployFails /\ ~Redeploy /\ ~RedeployFails
  BY DEF FirstDeploy, FirstDeployFails, Redeploy, RedeployFails, ShapeInv
<1>4. ~RecordFails /\ ~PushDone
  BY DEF RecordFails, PushDone, Exit
<1> QED BY <1>1, <1>2, <1>3, <1>4 DEF PushStep

LEMMA NextRight ==
  ASSUME ShapeInv, DeployInv, [Next]_vars
  PROVE  DeployInv'
<1>1. (pc = "idle" => mishaps = {})'
  BY CalmBetween DEF DeployInv
<1>2. ASSUME cmd' \in {"deploy", "disable"}, mishaps' = {}
      PROVE  (RightFiles /\ RightDeps)'
  <2>0. ~Exit
    BY <1>2 DEF Exit
  <2>1. CASE UNCHANGED vars
    <3>1. /\ RightFiles /\ RightDeps
          /\ UNCHANGED <<live, meta, cmd, snap, comps, work, pend, failed>>
      BY <1>2, <2>1 DEF vars, disk, run, DeployInv
    <3>2. RightFiles'
      BY <3>1 DEF RightFiles, IsComp
    <3>3. DistinctIds' => DistinctIds
      BY <3>1 DEF DistinctIds, IsComp
    <3>4. \A f \in Stems : CompToBe(f)' = CompToBe(f)
      BY <3>1 DEF CompToBe
    <3> QED BY <3>1, <3>2, <3>3, <3>4, RightKept
  <2>2. CASE Start
    <3>1. DeployPlan \/ DisablePlan
      BY <1>2, <2>2 DEF Start, PullList, CreatePlan, UpdatePlan, EndEarly, StartCommand, run,
         ShapeInv
    <3> QED BY <3>1, StartRight
  <2>3. ~PullStep
    BY <1>2, <2>0 DEF PullStep, PullDeps, PullDepsFails, PullText, PullTextFails, PullMeta,
       PullMetaFails, PullDone, ShapeInv, PullPcs
  <2>4. CASE PushStep
    <3>1. cmd \in {"deploy", "disable"} /\ mishaps = {}
      BY <1>2, <2>0, <2>4 DEF PushStep, CreateCall, UpdateCall, DeployCall, DisableCall,
         DeployAlready, DeployAlreadyUnread, CallFails, CallLost, FirstDeploy,
         FirstDeployFails, Redeploy, RedeployFails, Record, RecordFails, PushDone, Applied, Fail
    <3> QED BY <1>2, <2>4, <3>1, PushStepRight DEF DeployInv
  <2>5. ~Crash
    BY <2>0 DEF Crash
  <2>6. ~Environment
    BY <1>2 DEF Environment, UiText, UiDep, UiDelete, EditText, EditWant, Outside, run, ShapeInv
  <2> QED BY <2>1, <2>2, <2>3, <2>4, <2>5, <2>6 DEF Next
<1> QED BY <1>1, <1>2 DEF DeployInv

\* DeployConverges for every set of rules, files, texts and faults, with races of others on
\* the instance and of the operator on the files: a rules-deploy or rules-disable that
\* reports no failure leaves live as its companions wanted it, and companions that say what is
\* live (rules_write.go, push.go).
THEOREM DeploymentsConverge == Spec => []DeployConverges
<1>1. Init => DeployInv
  BY DEF Init, DeployInv
<1>2. IInv /\ DeployInv /\ [Next]_vars => DeployInv'
  BY NextRight DEF IInv
<1>3. IInv /\ DeployInv => DeployConverges
  <2> SUFFICES ASSUME IInv, DeployInv, pc = "apply", cmd \in {"deploy", "disable"}, work = {},
                      ~failed, mishaps = {}, DistinctIds, NEW f \in Stems, IsComp(comps[f])
               PROVE  /\ Says(meta[f].dep, Now(comps[f].id))
                      /\ Wanted(f, Now(comps[f].id))
    BY DEF DeployConverges, Wanted
  <2>1. pend = Nothing /\ CompToBe(f) = meta[f]
    BY DEF IInv, ShapeInv, PendPcs, CompToBe
  <2>2. RightDeps /\ comps[f] # NoFile
    BY DEF DeployInv, IsComp
  <2> QED BY <2>1, <2>2 DEF RightDeps
<1> QED BY <1>1, <1>2, <1>3, InvariantHolds, PTL DEF Spec
=============================================================================
