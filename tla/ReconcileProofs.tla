--------------------------- MODULE ReconcileProofs ---------------------------
(***************************************************************************)
(* Proofs about Reconcile for every set of identities, bodies and stems,   *)
(* every set of faults and every bound.                                    *)
(***************************************************************************)
EXTENDS Reconcile, FiniteSetTheorems, TLAPS

\* What a command keeps to itself starts and ends well-typed.
LEMMA ResetType ==
  /\ NoOpts \in Options
  /\ NoListing \in Listing
  /\ NoFiles \in [Stems -> Object \cup {NoFile, Torn}]
  /\ ZeroSum \in Summary
BY DEF NoOpts, Options, NoListing, Listing, NoFiles, ZeroSum, Summary

LEMMA ListingType ==
  ASSUME TypeOK
  PROVE  /\ Listings \subseteq Listing
         /\ \A l \in Listings : Listed(l.objs) \subseteq Existing
BY DEF TypeOK, Listings, ListOf, Listing, Listed, Existing

LEMMA PlanType ==
  ASSUME NEW dir \in [Stems -> Object \cup {NoFile, Torn}],
         NEW objs \in [Ids -> Contents \cup {Absent}]
  PROVE  /\ Creates(dir, objs) \subseteq Item
         /\ Updates(dir, objs) \subseteq Item
         /\ Deletes(dir, objs) \subseteq Item
BY ConstantsAssumption DEF Creates, Updates, Deletes, Item, IsObject, Object, Listed

LEMMA StemType ==
  ASSUME NEW l \in Listing, NEW i \in Listed(l.objs)
  PROVE  /\ i \in Ids
         /\ l.objs[i] \in Contents
         /\ FileStem(l.objs, i) \in Stems
BY ConstantsAssumption DEF Listing, Listed, FileStem

-----------------------------------------------------------------------------
(* What a create and an update come to: an echo that names the object, or not. *)

MakeLive(it, i) ==
  /\ live[i] = Unborn
  /\ live' = [live EXCEPT ![i] = it.body]
  /\ maker' = [Disown(it.slug, {}) EXCEPT ![i] = it.slug]
CreateNamed(it) ==
  /\ Turn(it, "create")
  /\ "create" \in Ops
  /\ \E i \in Ids : MakeLive(it, i) /\ Echoed(it, i, it.body)
UpdateNamed(it) ==
  /\ Turn(it, "update")
  /\ "update" \in Ops
  /\ live[it.id] \in Contents
  /\ LET sent == Overlay[<<listing.objs[it.id], it.body>>]
     IN  live' = [live EXCEPT ![it.id] = sent] /\ Echoed(it, it.id, sent)
  /\ UNCHANGED maker
Unnamed(it) ==
  /\ pc = "apply"
  /\ it.action \in {"create", "update"}
  /\ live' \in [Ids -> Contents \cup {Unborn, Gone}]
  /\ \A j \in Ids : /\ live'[j] = Unborn => live[j] = Unborn
                    /\ live'[j] \in Contents => live[j] \in Contents \/ live[j] = Unborn
  /\ \/ /\ \E body \in Contents : Echoed(it, NoId, body)
        /\ maker' = Disown(it.slug, {})
     \/ Unechoed(it)

LEMMA CreateCases ==
  ASSUME ShapeInv, NEW it \in todo, ApplyCreate(it)
  PROVE  CreateNamed(it) \/ Unnamed(it)
<1>1. PICK i \in Ids : /\ live[i] = Unborn
                       /\ live' = [live EXCEPT ![i] = it.body]
                       /\ Reported(it, i, it.body, [Disown(it.slug, {}) EXCEPT ![i] = it.slug])
  BY DEF ApplyCreate
<1>2. pc = "apply" /\ it.action = "create" /\ Turn(it, "create") /\ "create" \in Ops
  BY DEF ApplyCreate, Turn
<1>3. it.body \in Contents /\ live \in [Ids -> Contents \cup {Unborn, Gone}]
  BY DEF ShapeInv, TypeOK, Item
<1>4. /\ live' \in [Ids -> Contents \cup {Unborn, Gone}]
      /\ \A j \in Ids : /\ live'[j] = Unborn => live[j] = Unborn
                        /\ live'[j] \in Contents => live[j] \in Contents \/ live[j] = Unborn
  BY <1>1, <1>3, SpecialsAssumption
<1>5. CASE Echoed(it, i, it.body) /\ maker' = [Disown(it.slug, {}) EXCEPT ![i] = it.slug]
  BY <1>1, <1>2, <1>5 DEF CreateNamed, MakeLive
<1>6. CASE Echoed(it, NoId, it.body) /\ maker' = Disown(it.slug, {})
  BY <1>2, <1>3, <1>4, <1>6 DEF Unnamed
<1>7. CASE Unechoed(it)
  BY <1>2, <1>4, <1>7 DEF Unnamed
<1> QED BY <1>1, <1>5, <1>6, <1>7 DEF Reported

LEMMA UpdateCases ==
  ASSUME ShapeInv, NEW it \in todo, ApplyUpdate(it)
  PROVE  UpdateNamed(it) \/ Unnamed(it)
<1> DEFINE sent == Overlay[<<listing.objs[it.id], it.body>>]
<1>1. /\ live' = [live EXCEPT ![it.id] = sent]
      /\ Reported(it, it.id, sent, maker)
      /\ live[it.id] \in Contents
  BY DEF ApplyUpdate
<1>2. pc = "apply" /\ it.action = "update" /\ Turn(it, "update") /\ "update" \in Ops
  BY DEF ApplyUpdate, Turn
<1>3. it.id \in Ids /\ sent \in Contents /\ live \in [Ids -> Contents \cup {Unborn, Gone}]
  <2>1. it.id \in Ids /\ listing.objs[it.id] \in Contents /\ it.body \in Contents
    BY <1>2 DEF ShapeInv, TypeOK, Item, Listing, Listed
  <2> QED BY <2>1, ConstantsAssumption DEF ShapeInv, TypeOK
<1>5. CASE Echoed(it, it.id, sent) /\ maker' = maker
  BY <1>1, <1>2, <1>5 DEF UpdateNamed
<1> HIDE DEF sent
<1>4. /\ live' \in [Ids -> Contents \cup {Unborn, Gone}]
      /\ \A j \in Ids : /\ live'[j] = Unborn => live[j] = Unborn
                        /\ live'[j] \in Contents => live[j] \in Contents \/ live[j] = Unborn
  BY <1>1, <1>3, SpecialsAssumption
<1>6. CASE Echoed(it, NoId, sent) /\ maker' = Disown(it.slug, {})
  BY <1>2, <1>3, <1>4, <1>6 DEF Unnamed
<1>7. CASE Unechoed(it)
  BY <1>2, <1>4, <1>7 DEF Unnamed
<1> QED BY <1>1, <1>5, <1>6, <1>7 DEF Reported

-----------------------------------------------------------------------------
(* Type correctness *)

LEMMA ExitType == ASSUME TypeOK, Exit
                  PROVE  /\ pc' = "idle"
                         /\ opts' \in Options
                         /\ listing' \in Listing
                         /\ work' \in SUBSET Ids /\ written' \in SUBSET Stems
                         /\ stale' \in SUBSET Stems
                         /\ locals' \in [Stems -> Object \cup {NoFile, Torn}]
                         /\ todo' \in SUBSET Item
                         /\ echo' \in Echo \cup {NoEcho}
                         /\ sum' \in Summary
                         /\ undisturbed' \in BOOLEAN
BY ResetType DEF Exit

LEMMA DisownType ==
  ASSUME TypeOK, NEW f \in Stems, NEW keep \in SUBSET Ids
  PROVE  Disown(f, keep) \in [Ids -> Stems \cup {NoFile}]
BY DEF TypeOK, Disown

LEMMA FailedWriteType ==
  ASSUME TypeOK, NEW f \in Stems
  PROVE  FailedWrite(f) \subseteq [Stems -> Object \cup {NoFile, Torn}]
BY DEF TypeOK, FailedWrite

LEMMA InitShape == Init => ShapeInv
<1> SUFFICES ASSUME Init PROVE ShapeInv
  OBVIOUS
<1>1. live \in [Ids -> Contents \cup {Unborn, Gone}] /\ maker \in [Ids -> Stems \cup {NoFile}]
  BY DEF Init
<1>2. cmds \in 0..MaxCommands /\ edits \in 0..MaxEdits
  BY ConstantsAssumption DEF Init
<1>3. TypeOK
  BY <1>1, <1>2, ResetType DEF Init, TypeOK
<1> QED BY <1>3 DEF Init, ShapeInv

LEMMA StartShape ==
  ASSUME ShapeInv, Start
  PROVE  ShapeInv'
<1> USE ConstantsAssumption
    DEF ShapeInv, StartCommand, counters, disk, pullVars, pushVars
<1>1. ASSUME NEW prune \in BOOLEAN, PullList(prune) PROVE ShapeInv'
  <2>1. PICK l \in Listings : listing' = l /\ work' = Listed(l.objs)
    BY <1>1 DEF PullList
  <2>2. l \in Listing /\ Listed(l.objs) \in SUBSET Ids
    BY ListingType DEF Existing
  <2>3. opts' \in Options
    BY <1>1 DEF PullList, NoOpts, Options
  <2>4. TypeOK'
    BY <1>1, <2>1, <2>2, <2>3 DEF TypeOK, PullList
  <2> QED BY <1>1, <2>1, <2>4 DEF PullList, Listed
<1>2. ASSUME NEW o \in Options, PushLoad(o) PROVE ShapeInv'
  BY <1>2 DEF TypeOK, PushLoad
<1>3. CASE ListFails
  BY <1>3 DEF TypeOK, ListFails
<1>4. CASE PushLoadFails
  BY <1>4 DEF TypeOK, PushLoadFails
<1> QED BY <1>1, <1>2, <1>3, <1>4 DEF Start

LEMMA PullStepShape ==
  ASSUME ShapeInv, PullStep
  PROVE  ShapeInv'
<1> USE DEF ShapeInv, counters, disk, pullVars, pushVars
<1>1. ASSUME NEW i \in Ids, PullWrite(i) PROVE ShapeInv'
  <2> DEFINE f == FileStem(listing.objs, i)
  <2>1. f \in Stems /\ listing.objs[i] \in Contents
    BY <1>1, StemType DEF PullWrite, TypeOK
  <2>2. files' \in [Stems -> Object \cup {NoFile, Torn}]
    BY <1>1, <2>1 DEF PullWrite, TypeOK, Object
  <2>3. maker' \in [Ids -> Stems \cup {NoFile}]
    BY <1>1, <2>1, DisownType DEF PullWrite
  <2>4. TypeOK'
    BY <1>1, <2>1, <2>2, <2>3 DEF PullWrite, TypeOK
  <2> QED BY <1>1, <2>4 DEF PullWrite
<1>2. ASSUME NEW i \in Ids, PullWriteFails(i) PROVE ShapeInv'
  <2> DEFINE f == FileStem(listing.objs, i)
  <2>1. f \in Stems
    BY <1>2, StemType DEF PullWriteFails, TypeOK
  <2>2. files' \in [Stems -> Object \cup {NoFile, Torn}] /\ maker' \in [Ids -> Stems \cup {NoFile}]
    BY <1>2, <2>1, DisownType, FailedWriteType DEF PullWriteFails
  <2>3. TypeOK'
    BY <1>2, <2>2, ExitType DEF PullWriteFails, TypeOK
  <2> QED BY <1>2, <2>3 DEF PullWriteFails, Exit
<1>3. CASE PullState
  BY <1>3 DEF PullState, Recorded, Incomplete, TypeOK, Listing
<1>4. CASE PullStateFails
  <2>1. TypeOK'
    BY <1>4, ExitType DEF PullStateFails, TypeOK
  <2> QED BY <1>4, <2>1 DEF PullStateFails, Exit
<1>5. ASSUME NEW f \in Stems, PruneFile(f) PROVE ShapeInv'
  BY <1>5, DisownType DEF PruneFile, TypeOK
<1>6. ASSUME NEW f \in Stems, PruneFileFails(f) PROVE ShapeInv'
  BY <1>6 DEF PruneFileFails, TypeOK
<1>7. CASE PullDone
  <2>1. TypeOK'
    BY <1>7, ExitType DEF PullDone, TypeOK, disk
  <2> QED BY <1>7, <2>1 DEF PullDone, Exit
<1> QED BY <1>1, <1>2, <1>3, <1>4, <1>5, <1>6, <1>7 DEF PullStep

\* The order of the plan: the items whose turn it is are items of the plan.
LEMMA TurnIsPlanned == NextItems(todo) \subseteq todo
BY DEF NextItems

LEMMA FailShape ==
  ASSUME ShapeInv, NEW it \in todo, Fail(it),
         live' \in [Ids -> Contents \cup {Unborn, Gone}], maker' = maker
  PROVE  ShapeInv'
<1> USE DEF ShapeInv, counters, disk, pullVars, pushVars
<1>1. sum' \in Summary
  BY DEF Fail, TypeOK, Summary
<1>2. TypeOK'
  BY <1>1 DEF Fail, TypeOK
<1> QED BY <1>2 DEF Fail

LEMMA EchoedShape ==
  ASSUME ShapeInv, NEW it \in todo, NEW i \in Ids \cup {NoId}, NEW body \in Contents,
         it.action \in {"create", "update"},
         Echoed(it, i, body), pc = "apply",
         live' \in [Ids -> Contents \cup {Unborn, Gone}],
         maker' \in [Ids -> Stems \cup {NoFile}]
  PROVE  ShapeInv'
<1> USE DEF ShapeInv, counters, disk, pullVars, pushVars
<1>1. echo' \in Echo
  BY DEF Echoed, TypeOK, Echo, Item
<1>2. TypeOK'
  BY <1>1 DEF Echoed, TypeOK
<1>3. echo' # NoEcho
  BY <1>1, SpecialsAssumption DEF Echo
<1> QED BY <1>2, <1>3 DEF Echoed

LEMMA ItemShape ==
  ASSUME ShapeInv, NEW it \in todo, it.action # "create"
  PROVE  it.id \in Ids /\ listing.objs[it.id] \in Contents
BY DEF ShapeInv, TypeOK, Listing, Listed

LEMMA ApplyShape ==
  ASSUME ShapeInv, NEW it \in todo,
         \/ SkipItem(it)
         \/ CreateNamed(it) \/ UpdateNamed(it) \/ ApplyDelete(it)
         \/ ApplyFails(it) \/ ApplyLost(it)
  PROVE  ShapeInv'
<1>0. it \in Item /\ it.body \in Contents /\ it.slug \in Stems
  BY DEF ShapeInv, TypeOK, Item
<1>1. CASE SkipItem(it)
  BY <1>1 DEF SkipItem, ShapeInv, TypeOK, disk, pullVars, counters, history
<1>2. CASE CreateNamed(it)
  <2>1. PICK i \in Ids : MakeLive(it, i) /\ Echoed(it, i, it.body)
    BY <1>2 DEF CreateNamed
  <2>2. live' \in [Ids -> Contents \cup {Unborn, Gone}]
    BY <1>0, <2>1 DEF MakeLive, ShapeInv, TypeOK
  <2>3. maker' \in [Ids -> Stems \cup {NoFile}]
    BY <1>0, <2>1, DisownType DEF MakeLive, ShapeInv
  <2> QED BY <1>0, <1>2, <2>1, <2>2, <2>3, EchoedShape DEF CreateNamed, Turn
<1>3. CASE UpdateNamed(it)
  <2> DEFINE sent == Overlay[<<listing.objs[it.id], it.body>>]
  <2>1. it.id \in Ids /\ listing.objs[it.id] \in Contents
    BY <1>3, ItemShape DEF UpdateNamed, Turn
  <2>2. sent \in Contents
    BY <1>0, <2>1, ConstantsAssumption
  <2>3. live' = [live EXCEPT ![it.id] = sent] /\ Echoed(it, it.id, sent) /\ maker' = maker
    BY <1>3 DEF UpdateNamed
  <2>4. live' \in [Ids -> Contents \cup {Unborn, Gone}] /\ maker' \in [Ids -> Stems \cup {NoFile}]
    BY <2>1, <2>2, <2>3 DEF ShapeInv, TypeOK
  <2> HIDE DEF sent
  <2> QED BY <1>3, <2>1, <2>2, <2>3, <2>4, EchoedShape DEF UpdateNamed, Turn
<1>4. CASE ApplyDelete(it)
  <2>1. it.id \in Ids
    BY <1>4, ItemShape DEF ApplyDelete, Turn
  <2>2. sum' \in Summary
    BY <1>4 DEF ApplyDelete, ShapeInv, TypeOK, Summary
  <2>3. TypeOK'
    BY <1>4, <2>1, <2>2 DEF ApplyDelete, ShapeInv, TypeOK, pullVars, counters, history
  <2> QED BY <1>4, <2>3 DEF ApplyDelete, ShapeInv, pullVars, counters, history, Turn
<1>5. CASE ApplyFails(it)
  <2>1. live' \in [Ids -> Contents \cup {Unborn, Gone}] /\ maker' = maker
    BY <1>5 DEF ApplyFails, ShapeInv, TypeOK
  <2> QED BY <1>5, <2>1, FailShape DEF ApplyFails
<1>6. CASE ApplyLost(it)
  <2>1. maker' = maker
    BY <1>6 DEF ApplyLost
  <2>2. live' \in [Ids -> Contents \cup {Unborn, Gone}]
    <3>1. CASE it.action = "create"
      BY <1>0, <1>6, <3>1 DEF ApplyLost, ShapeInv, TypeOK
    <3>2. CASE it.action # "create"
      <4>1. it.id \in Ids /\ Overlay[<<listing.objs[it.id], it.body>>] \in Contents
        BY <1>0, <3>2, ItemShape, ConstantsAssumption
      <4> QED BY <1>6, <3>2, <4>1 DEF ApplyLost, ShapeInv, TypeOK
    <3> QED BY <3>1, <3>2
  <2> QED BY <1>6, <2>1, <2>2, FailShape DEF ApplyLost
<1> QED BY <1>1, <1>2, <1>3, <1>4, <1>5, <1>6

LEMMA UnnamedShape ==
  ASSUME ShapeInv, NEW it \in todo, Unnamed(it)
  PROVE  ShapeInv'
<1>0. it \in Item /\ it.slug \in Stems /\ pc = "apply"
  BY DEF ShapeInv, TypeOK, Item, Unnamed
<1>1. ASSUME NEW body \in Contents, Echoed(it, NoId, body), maker' = Disown(it.slug, {})
      PROVE  ShapeInv'
  <2>1. maker' \in [Ids -> Stems \cup {NoFile}]
    BY <1>0, <1>1, DisownType DEF ShapeInv
  <2> QED BY <1>0, <1>1, <2>1, EchoedShape DEF Unnamed
<1>2. CASE Unechoed(it)
  <2>1. sum' \in Summary
    BY <1>2 DEF Unechoed, Count, ShapeInv, TypeOK, Summary
  <2>2. TypeOK'
    BY <1>2, <2>1 DEF Unechoed, Unnamed, ShapeInv, TypeOK, pullVars, counters
  <2> QED BY <1>2, <2>2 DEF Unechoed, ShapeInv, pullVars, counters
<1> QED BY <1>1, <1>2 DEF Unnamed

LEMMA PlannedType ==
  ASSUME TypeOK, NEW l \in Listing, NEW canPrune \in BOOLEAN
  PROVE  /\ Planned(locals, l.objs, canPrune) \subseteq Item
         /\ \A it \in Planned(locals, l.objs, canPrune) :
              it.action # "create" => it.id \in Listed(l.objs)
<1>1. locals \in [Stems -> Object \cup {NoFile, Torn}] /\ l.objs \in [Ids -> Contents \cup {Absent}]
  BY DEF TypeOK, Listing
<1>2. Planned(locals, l.objs, canPrune) \subseteq Item
  BY <1>1, PlanType DEF Planned
<1> QED BY <1>2 DEF Planned, Creates, Updates, Deletes

LEMMA RefreshShape ==
  ASSUME ShapeInv, Refresh \/ RefreshFails
  PROVE  ShapeInv'
<1> USE DEF counters, disk, pullVars, pushVars, history
<1>1. pc = "refresh" /\ echo \in Echo
  BY DEF Refresh, RefreshFails, ShapeInv, TypeOK
<1>2. echo.action \in {"create", "update"} /\ echo.slug \in Stems /\ RefreshStem(echo) \in Stems
        /\ echo.id \in Ids \cup {NoId} /\ echo.body \in Contents
  BY <1>1 DEF Echo, RefreshStem
<1>3. Count(echo.action) \in Summary
  BY DEF ShapeInv, TypeOK, Summary, Count
<1>4. CASE Refresh
  <2>1. files' \in [Stems -> Object \cup {NoFile, Torn}]
    BY <1>2, <1>4 DEF Refresh, ShapeInv, TypeOK, Object
  <2>2. TypeOK'
    BY <1>3, <1>4, <2>1 DEF Refresh, ShapeInv, TypeOK
  <2> QED BY <1>1, <1>4, <2>2 DEF Refresh, ShapeInv
<1>5. CASE RefreshFails
  <2>1. files' \in [Stems -> Object \cup {NoFile, Torn}] /\ maker' \in [Ids -> Stems \cup {NoFile}]
    BY <1>2, <1>5, FailedWriteType, DisownType DEF RefreshFails, ShapeInv
  <2>2. TypeOK'
    BY <1>3, <1>5, <2>1 DEF RefreshFails, ShapeInv, TypeOK
  <2> QED BY <1>1, <1>5, <2>2 DEF RefreshFails, ShapeInv
<1> QED BY <1>4, <1>5

LEMMA PushStepShape ==
  ASSUME ShapeInv, PushStep
  PROVE  ShapeInv'
<1> USE DEF counters, disk, pullVars, pushVars, history
<1>1. ASSUME PushListFails \/ PushPlanEnds \/ PushDone PROVE ShapeInv'
  <2>1. Exit /\ UNCHANGED <<live, files, pullState, cmds, edits, lastPull, hidden, maker>>
    BY <1>1 DEF PushListFails, PushPlanEnds, PushDone
  <2>2. TypeOK'
    BY <2>1, ExitType DEF ShapeInv, TypeOK
  <2> QED BY <2>1, <2>2 DEF Exit, ShapeInv
<1>2. CASE PushPlan
  <2>1. PICK l \in Listings :
          /\ listing' = l
          /\ todo' = Planned(locals, l.objs, Prunable(opts.prune, Incomplete(l)))
    BY <1>2 DEF PushPlan
  <2>2. l \in Listing /\ Prunable(opts.prune, Incomplete(l)) \in BOOLEAN
    BY ListingType, ConstantsAssumption DEF ShapeInv, TypeOK, Options, Prunable, Incomplete
  <2>3. todo' \in SUBSET Item /\ \A it \in todo' : it.action # "create" => it.id \in Listed(l.objs)
    BY <2>1, <2>2, PlannedType DEF ShapeInv
  <2>4. locals' \in [Stems -> Object \cup {NoFile, Torn}]
    BY <1>2, ResetType DEF PushPlan
  <2>5. TypeOK'
    BY <1>2, <2>1, <2>2, <2>3, <2>4 DEF PushPlan, ShapeInv, TypeOK
  <2> QED BY <1>2, <2>1, <2>3, <2>5 DEF PushPlan, ShapeInv, Listed
<1> QED BY <1>1, <1>2, CreateCases, UpdateCases, ApplyShape, UnnamedShape, RefreshShape DEF PushStep

LEMMA CrashShape ==
  ASSUME ShapeInv, Crash
  PROVE  ShapeInv'
<1> USE DEF ShapeInv, counters, disk, pullVars, pushVars, history
<1>1. Exit /\ UNCHANGED <<live, cmds, edits, lastPull, hidden>> /\ pullState' \in {pullState, "none"}
  BY DEF Crash
<1>2. files' \in [Stems -> Object \cup {NoFile, Torn}] /\ maker' \in [Ids -> Stems \cup {NoFile}]
  <2>1. CASE UNCHANGED <<files, maker>>
    BY <2>1 DEF TypeOK
  <2>2. CASE pc = "refresh" /\ files' \in FailedWrite(RefreshStem(echo))
                            /\ maker' = Disown(RefreshStem(echo), {})
    <3>1. RefreshStem(echo) \in Stems
      BY <2>2 DEF TypeOK, Echo, RefreshStem
    <3> QED BY <2>2, <3>1, FailedWriteType, DisownType
  <2>3. ASSUME NEW i \in work, pc = "pullWrite",
               files' = [files EXCEPT ![FileStem(listing.objs, i)] = Torn],
               maker' = Disown(FileStem(listing.objs, i), {})
        PROVE  files' \in [Stems -> Object \cup {NoFile, Torn}] /\ maker' \in [Ids -> Stems \cup {NoFile}]
    <3>1. FileStem(listing.objs, i) \in Stems
      BY <2>3, StemType DEF TypeOK
    <3> QED BY <2>3, <3>1, DisownType DEF TypeOK
  <2> QED BY <2>1, <2>2, <2>3 DEF Crash
<1>3. TypeOK'
  BY <1>1, <1>2, ExitType DEF TypeOK
<1> QED BY <1>1, <1>3 DEF Exit

LEMMA EnvironmentShape ==
  ASSUME ShapeInv, Environment
  PROVE  ShapeInv'
<1> USE DEF ShapeInv, counters, disk, pullVars, pushVars, Outside
<1>0. edits < MaxEdits => edits + 1 \in 0..MaxEdits
  BY ConstantsAssumption DEF TypeOK
<1>1. ASSUME NEW i \in Ids, UiChange(i) PROVE ShapeInv'
  BY <1>0, <1>1 DEF UiChange, TypeOK
<1>2. ASSUME NEW f \in Stems, EditFile(f) PROVE ShapeInv'
  <2>1. files' \in [Stems -> Object \cup {NoFile, Torn}]
    BY <1>2 DEF EditFile, TypeOK, Object, IsObject
  <2>2. maker' \in [Ids -> Stems \cup {NoFile}]
    BY <1>2, DisownType DEF EditFile, TypeOK
  <2>3. TypeOK'
    BY <1>0, <1>2, <2>1, <2>2 DEF EditFile, TypeOK
  <2> QED BY <1>2, <2>3 DEF EditFile
<1> QED BY <1>1, <1>2 DEF Environment

LEMMA NextShape == ShapeInv /\ [Next]_vars => ShapeInv'
<1>1. ASSUME ShapeInv, UNCHANGED vars PROVE ShapeInv'
  BY <1>1 DEF ShapeInv, TypeOK, vars, disk, pullVars, pushVars, counters, history, Listed
<1> QED BY <1>1, StartShape, PullStepShape, PushStepShape, CrashShape, EnvironmentShape DEF Next

LEMMA ShapeAlways == Spec => []ShapeInv
BY InitShape, NextShape, PTL DEF Spec

\* Every variable of the engine keeps its type, in every run of any commands,
\* faults and interference: the plan holds well-formed items only and an update
\* or a delete always names an object of the listing it was planned from.
THEOREM TypeCorrect == Spec => []TypeOK
<1>1. ShapeInv => TypeOK
  BY DEF ShapeInv
<1> QED BY <1>1, ShapeAlways, PTL

-----------------------------------------------------------------------------
(* Prune safety *)

LEMMA ExitPrune ==
  ASSUME PruneInv, Exit, UNCHANGED hidden, pullState' \in {pullState, "none"}
  PROVE  PruneInv'
BY DEF PruneInv, NeverPrunesTracked, ToDelete, Exit

\* A step that keeps the plan, the identities in files and the unborn ones.
LEMMA QuietPrune ==
  ASSUME PruneInv, UNCHANGED <<todo, pullState, hidden, pc, locals, echo>>,
         \A i \in Ids : live'[i] = Unborn => live[i] = Unborn,
         ToDelete \subseteq Ids,
         Tracked(files)' \subseteq Tracked(files) \cup {NoId}
  PROVE  PruneInv'
BY SpecialsAssumption DEF PruneInv, NeverPrunesTracked, ToDelete

LEMMA ToDeleteIds == ASSUME ShapeInv PROVE ToDelete \subseteq Ids
BY DEF ToDelete, ShapeInv, TypeOK, Listed

LEMMA StartPrune ==
  ASSUME ShapeInv, PruneInv, Start
  PROVE  PruneInv'
<1> USE DEF StartCommand, counters, disk, pullVars, pushVars
<1>0. todo = {} /\ pc = "idle"
  BY DEF Start, PullList, PushLoad, ListFails, PushLoadFails, ShapeInv
<1>1. ASSUME NEW prune \in BOOLEAN, PullList(prune) PROVE PruneInv'
  BY <1>0, <1>1 DEF PullList, PruneInv, NeverPrunesTracked, ToDelete
<1>2. ASSUME NEW o \in Options, PushLoad(o) PROVE PruneInv'
  BY <1>0, <1>2 DEF PushLoad, PruneInv, NeverPrunesTracked, ToDelete, Tracked
<1>3. CASE ListFails \/ PushLoadFails
  BY <1>0, <1>3 DEF ListFails, PushLoadFails, PruneInv, NeverPrunesTracked, ToDelete
<1> QED BY <1>1, <1>2, <1>3 DEF Start

LEMMA PullStepPrune ==
  ASSUME ShapeInv, PruneInv, PullStep
  PROVE  PruneInv'
<1> USE DEF counters, disk, pullVars, pushVars
<1>0. todo = {} /\ pc \in {"pullWrite", "pullPrune"} /\ echo = NoEcho
  BY DEF PullStep, PullWrite, PullWriteFails, PullState, PullStateFails, PruneFile,
         PruneFileFails, PullDone, ShapeInv
<1>1. CASE PullState
  <2>1. pullState' = "complete" => hidden' = {}
    BY <1>1 DEF PullState, Recorded, Incomplete
  <2> QED BY <1>0, <1>1, <2>1 DEF PullState, PruneInv, NeverPrunesTracked, ToDelete
<1>2. ASSUME NEW i \in Ids, PullWriteFails(i) PROVE PruneInv'
  BY <1>2, ExitPrune DEF PullWriteFails
<1>3. CASE PullStateFails \/ PullDone
  BY <1>3, ExitPrune DEF PullStateFails, PullDone
<1>4. ASSUME NEW i \in Ids, PullWrite(i) PROVE PruneInv'
  BY <1>0, <1>4 DEF PullWrite, PruneInv, NeverPrunesTracked, ToDelete
<1>5. ASSUME NEW f \in Stems, PruneFile(f) \/ PruneFileFails(f) PROVE PruneInv'
  BY <1>0, <1>5 DEF PruneFile, PruneFileFails, PruneInv, NeverPrunesTracked, ToDelete
<1> QED BY <1>1, <1>2, <1>3, <1>4, <1>5 DEF PullStep

\* The deletes of a plan name listed objects that no file tracked when the plan
\* was made, and none that the plan updates.
LEMMA PlannedDeletes ==
  ASSUME NEW objs, NEW canPrune \in BOOLEAN,
         NEW d \in Planned(locals, objs, canPrune), d.action = "delete"
  PROVE  /\ canPrune
         /\ d.id \in Listed(objs)
         /\ d.id \notin Tracked(locals)
         /\ \A u \in Planned(locals, objs, canPrune) : u.action = "update" => u.id # d.id
BY DEF Planned, Creates, Updates, Deletes, Tracked

LEMMA PlanPrune ==
  ASSUME ShapeInv, PruneInv, PushPlan
  PROVE  PruneInv'
<1>1. PICK l \in Listings :
        /\ listing' = l
        /\ todo' = Planned(locals, l.objs, Prunable(opts.prune, Incomplete(l)))
  BY DEF PushPlan
<1>2. Prunable(opts.prune, Incomplete(l)) \in BOOLEAN
  BY ConstantsAssumption DEF ShapeInv, TypeOK, Options, Prunable, Incomplete
<1>3. pc = "pushList" /\ echo = NoEcho /\ echo' = NoEcho /\ pc' = "apply"
        /\ UNCHANGED <<live, files, pullState, hidden>>
  BY DEF PushPlan, disk, history, ShapeInv
<1>4. ASSUME NEW i \in ToDelete'
      PROVE  /\ pullState = "complete"
             /\ i \in Existing
             /\ i \notin Tracked(files)
             /\ \A u \in todo' : u.action = "update" => u.id # i
  <2>1. PICK d \in todo' : d.action = "delete" /\ d.id = i
    BY <1>4 DEF ToDelete
  <2>2. /\ Prunable(opts.prune, Incomplete(l))
        /\ i \in Listed(l.objs)
        /\ i \notin Tracked(locals)
        /\ \A u \in todo' : u.action = "update" => u.id # i
    BY <1>1, <1>2, <2>1, PlannedDeletes
  <2>3. i \in Existing
    BY <2>2, ListingType DEF ShapeInv
  <2>4. i \notin Tracked(files)
    BY <1>3, <2>2, <2>3, SpecialsAssumption DEF PruneInv, Existing
  <2> QED BY <2>2, <2>3, <2>4 DEF Prunable
<1>5. \A i \in ToDelete' : live'[i] # Unborn
  BY <1>3, <1>4, SpecialsAssumption DEF Existing
<1>6. ToDelete' # {} => pullState' = "complete"
  BY <1>3, <1>4
<1>7. ToDelete' \cap Tracked(files') = {}
  BY <1>3, <1>4 DEF Tracked
<1>8. \A it \in todo' : it.action = "update" => it.id \notin ToDelete'
  BY <1>4
<1>9. pullState' = "complete" => hidden' = {}
  BY <1>3 DEF PruneInv
<1> QED BY <1>3, <1>5, <1>6, <1>7, <1>8, <1>9 DEF PruneInv, NeverPrunesTracked

\* Taking items off the plan, without touching a file, keeps prune safe as long
\* as no object becomes unborn and the echo names none of those to delete.
LEMMA ShrinkPrune ==
  ASSUME PruneInv, todo' \subseteq todo, UNCHANGED <<files, pullState, hidden>>,
         pc' # "pushList",
         \A i \in ToDelete : live'[i] = Unborn => live[i] = Unborn,
         echo' # NoEcho => echo'.id \notin ToDelete
  PROVE  PruneInv'
BY DEF PruneInv, NeverPrunesTracked, ToDelete, Tracked

LEMMA ApplyPrune ==
  ASSUME ShapeInv, PruneInv, NEW it \in todo,
         \/ SkipItem(it)
         \/ CreateNamed(it) \/ UpdateNamed(it) \/ ApplyDelete(it)
         \/ ApplyFails(it) \/ ApplyLost(it)
  PROVE  PruneInv'
<1> USE DEF counters, disk, pullVars, pushVars, history
<1>0. /\ ToDelete \subseteq Ids /\ pc = "apply" /\ echo = NoEcho
      /\ live \in [Ids -> Contents \cup {Unborn, Gone}] /\ it.body \in Contents
  BY ToDeleteIds DEF SkipItem, CreateNamed, UpdateNamed, ApplyDelete, ApplyFails, ApplyLost,
     Turn, ShapeInv, TypeOK, Item
<1>1. CASE SkipItem(it)
  BY <1>0, <1>1, ShrinkPrune DEF SkipItem
<1>2. CASE CreateNamed(it)
  <2>1. PICK i \in Ids : MakeLive(it, i) /\ Echoed(it, i, it.body)
    BY <1>2 DEF CreateNamed
  <2>2. i \notin ToDelete
    BY <2>1 DEF MakeLive, PruneInv
  <2>3. echo'.id = i /\ todo' \subseteq todo /\ pc' = "refresh"
          /\ UNCHANGED <<files, pullState, hidden>>
    BY <2>1 DEF Echoed
  <2>4. \A j \in ToDelete : live'[j] = live[j]
    BY <1>0, <2>1, <2>2 DEF MakeLive
  <2> QED BY <2>2, <2>3, <2>4, ShrinkPrune
<1>3. CASE UpdateNamed(it)
  <2> DEFINE sent == Overlay[<<listing.objs[it.id], it.body>>]
  <2>1. it.id \in Ids /\ it.action = "update" /\ sent \in Contents
    BY <1>0, <1>3, ItemShape, ConstantsAssumption DEF UpdateNamed, Turn
  <2>2. it.id \notin ToDelete
    BY <2>1 DEF PruneInv
  <2>3. /\ echo'.id = it.id /\ todo' \subseteq todo /\ pc' = "refresh"
        /\ UNCHANGED <<files, pullState, hidden>>
    BY <1>3 DEF UpdateNamed, Echoed
  <2>4. \A j \in ToDelete : live'[j] = live[j]
    BY <1>0, <1>3, <2>1, <2>2 DEF UpdateNamed
  <2> QED BY <2>2, <2>3, <2>4, ShrinkPrune
<1>4. CASE ApplyDelete(it)
  <2>1. \A j \in ToDelete : live'[j] = Unborn => live[j] = Unborn
    BY <1>0, <1>4, SpecialsAssumption DEF ApplyDelete
  <2> QED BY <1>0, <1>4, <2>1, ShrinkPrune DEF ApplyDelete
<1>5. CASE ApplyFails(it)
  BY <1>0, <1>5, ShrinkPrune DEF ApplyFails, Fail
<1>6. CASE ApplyLost(it)
  <2>1. \A j \in ToDelete : live'[j] = Unborn => live[j] = Unborn
    <3>1. CASE it.action = "create"
      BY <1>0, <1>6, <3>1, SpecialsAssumption DEF ApplyLost
    <3>2. CASE it.action # "create"
      <4>1. it.id \in Ids /\ Overlay[<<listing.objs[it.id], it.body>>] \in Contents
        BY <1>0, <3>2, ItemShape, ConstantsAssumption
      <4> QED BY <1>0, <1>6, <3>2, <4>1, SpecialsAssumption DEF ApplyLost
    <3> QED BY <3>1, <3>2
  <2> QED BY <1>0, <1>6, <2>1, ShrinkPrune DEF ApplyLost, Fail
<1> QED BY <1>1, <1>2, <1>3, <1>4, <1>5, <1>6

LEMMA UnnamedPrune ==
  ASSUME ShapeInv, PruneInv, NEW it \in todo, Unnamed(it)
  PROVE  PruneInv'
<1>1. ToDelete \subseteq Ids /\ NoId \notin ToDelete
  BY ToDeleteIds, SpecialsAssumption
<1>2. todo' \subseteq todo /\ UNCHANGED <<files, pullState, hidden>> /\ pc' # "pushList"
  BY DEF Unnamed, Echoed, Unechoed, disk, history
<1>3. echo' # NoEcho => echo'.id \notin ToDelete
  <2>1. CASE \E body \in Contents : Echoed(it, NoId, body)
    BY <1>1, <2>1 DEF Echoed
  <2>2. CASE Unechoed(it)
    BY <2>2 DEF Unechoed, PruneInv
  <2> QED BY <2>1, <2>2 DEF Unnamed
<1> QED BY <1>1, <1>2, <1>3, ShrinkPrune DEF Unnamed

LEMMA RefreshPrune ==
  ASSUME ShapeInv, PruneInv, Refresh \/ RefreshFails
  PROVE  PruneInv'
<1> USE DEF counters, disk, pullVars, pushVars, history
<1>1. /\ pc = "refresh" /\ echo \in Echo /\ echo # NoEcho /\ echo' = NoEcho /\ pc' = "apply"
      /\ UNCHANGED <<todo, live, pullState, hidden>>
      /\ files \in [Stems -> Object \cup {NoFile, Torn}]
  BY DEF Refresh, RefreshFails, ShapeInv, TypeOK
<1>2. echo.slug \in Stems /\ echo.id \notin ToDelete
  BY <1>1 DEF Echo, PruneInv
<1>3. Tracked(files)' \subseteq Tracked(files) \cup {echo.id}
  <2>1. CASE Refresh
    BY <1>1, <1>2, <2>1 DEF Refresh, RefreshStem, Tracked, IsObject
  <2>2. CASE RefreshFails
    BY <1>1, <1>2, <2>2 DEF RefreshFails, RefreshStem, FailedWrite, Tracked, IsObject
  <2> QED BY <2>1, <2>2
<1> QED BY <1>1, <1>2, <1>3 DEF PruneInv, NeverPrunesTracked, ToDelete

LEMMA PushStepPrune ==
  ASSUME ShapeInv, PruneInv, PushStep
  PROVE  PruneInv'
<1>1. CASE PushListFails \/ PushPlanEnds \/ PushDone
  BY <1>1, ExitPrune DEF PushListFails, PushPlanEnds, PushDone, disk
<1> QED BY <1>1, PlanPrune, CreateCases, UpdateCases, ApplyPrune, UnnamedPrune, RefreshPrune
     DEF PushStep

LEMMA EnvironmentPrune ==
  ASSUME ShapeInv, PruneInv, Environment
  PROVE  PruneInv'
<1> USE DEF counters, disk, pullVars, pushVars, Outside
<1>0. /\ ToDelete \subseteq Ids
      /\ live \in [Ids -> Contents \cup {Unborn, Gone}]
      /\ files \in [Stems -> Object \cup {NoFile, Torn}]
  BY ToDeleteIds DEF ShapeInv, TypeOK
<1>1. ASSUME NEW i \in Ids, UiChange(i) PROVE PruneInv'
  <2>1. \A j \in Ids : live'[j] = Unborn => live[j] = Unborn
    BY <1>0, <1>1, SpecialsAssumption DEF UiChange
  <2>2. UNCHANGED <<todo, pullState, hidden, pc, locals, echo, files>>
    BY <1>1 DEF UiChange
  <2>3. Tracked(files)' = Tracked(files)
    BY <2>2 DEF Tracked
  <2> QED BY <1>0, <2>1, <2>2, <2>3, QuietPrune
<1>2. ASSUME NEW f \in Stems, EditFile(f) PROVE PruneInv'
  <2>1. Tracked(files)' \subseteq Tracked(files) \cup {NoId}
    BY <1>0, <1>2 DEF EditFile, Tracked, IsObject
  <2>2. UNCHANGED <<todo, pullState, hidden, pc, locals, echo, live>>
    BY <1>2 DEF EditFile
  <2> QED BY <1>0, <2>1, <2>2, QuietPrune
<1> QED BY <1>1, <1>2 DEF Environment

LEMMA PruneAlways == Spec => []PruneInv
<1>1. Init => PruneInv
  BY DEF Init, PruneInv, NeverPrunesTracked, ToDelete
<1>2. ASSUME ShapeInv, PruneInv, [Next]_vars PROVE PruneInv'
  <2>1. CASE Crash
    <3>1. Exit /\ UNCHANGED hidden /\ pullState' \in {pullState, "none"}
      BY <2>1 DEF Crash
    <3> QED BY <1>2, <3>1, ExitPrune
  <2>2. CASE UNCHANGED vars
    <3>1. UNCHANGED <<todo, pullState, hidden, pc, locals, echo, files, live>>
      BY <2>2 DEF vars, disk, pullVars, pushVars, counters, history
    <3>2. Tracked(files)' = Tracked(files) /\ ToDelete \subseteq Ids
      BY <1>2, <3>1, ToDeleteIds DEF Tracked
    <3> QED BY <1>2, <3>1, <3>2, QuietPrune
  <2> QED BY <1>2, <2>1, <2>2, StartPrune, PullStepPrune, PushStepPrune, EnvironmentPrune
       DEF Next
<1> QED BY <1>1, <1>2, ShapeAlways, PTL DEF Spec

\* No run of commands, crashes and failed writes ever gets an object that a
\* per-item error hid from the last recorded pull into the deletes of a push.
THEOREM HiddenSafe == Spec => []HiddenNeverPruned
<1>1. PruneInv => HiddenNeverPruned
  BY DEF PruneInv, HiddenNeverPruned
<1> QED BY <1>1, PruneAlways, PTL

\* No push deletes an object that a file of the directory tracks, not even one
\* whose identity was written there while the push was running.
THEOREM TrackedSafe == Spec => []NeverPrunesTracked
<1>1. PruneInv => NeverPrunesTracked
  BY DEF PruneInv
<1> QED BY <1>1, PruneAlways, PTL

-----------------------------------------------------------------------------
(* No silent duplicate *)

\* No command is at work on the plan: a tie is a file with the identity.
LEMMA RestTie ==
  ASSUME todo' = {}, echo' = NoEcho, pc' \notin {"pushList", "refresh"},
         \A i \in Ids : live'[i] = Unborn => maker'[i] = NoFile,
         \A i \in Ids : maker'[i] # NoFile =>
           IsObject(files'[maker'[i]]) /\ files'[maker'[i]].id = i
  PROVE  TieInv'
BY DEF TieInv, NoSilentDuplicate

\* What a tie is between the steps on an echo.
LEMMA TiedFile ==
  ASSUME ShapeInv, TieInv, NEW i \in Ids, maker[i] # NoFile, pc # "refresh"
  PROVE  maker[i] \in Stems /\ IsObject(files[maker[i]]) /\ files[maker[i]].id = i
BY DEF ShapeInv, TypeOK, TieInv

LEMMA ExitTie ==
  ASSUME ShapeInv, TieInv, Exit, live' = live,
         \/ pc # "refresh" /\ UNCHANGED <<files, maker>>
         \/ \E f \in Stems : /\ files' \in FailedWrite(f) /\ maker' = Disown(f, {})
                             /\ pc = "refresh" => f = echo.slug
  PROVE  TieInv'
<1>1. /\ \A i \in Ids : live[i] = Unborn => maker[i] = NoFile
      /\ files \in [Stems -> Object \cup {NoFile, Torn}] /\ maker \in [Ids -> Stems \cup {NoFile}]
  BY DEF TieInv, ShapeInv, TypeOK
<1>2. todo' = {} /\ echo' = NoEcho /\ pc' = "idle"
  BY DEF Exit
<1>3. CASE pc # "refresh" /\ UNCHANGED <<files, maker>>
  <2>1. \A i \in Ids : maker'[i] # NoFile => IsObject(files'[maker'[i]]) /\ files'[maker'[i]].id = i
    BY <1>3, TiedFile
  <2> QED BY <1>1, <1>2, <1>3, <2>1, RestTie
<1>4. ASSUME NEW f \in Stems, files' \in FailedWrite(f), maker' = Disown(f, {}),
             pc = "refresh" => f = echo.slug
      PROVE  TieInv'
  <2>1. \A i \in Ids : maker'[i] # NoFile => maker[i] = maker'[i] /\ maker[i] # f /\ maker[i] \in Stems
    BY <1>1, <1>4 DEF Disown
  <2>2. \A g \in Stems \ {f} : files'[g] = files[g]
    BY <1>1, <1>4 DEF FailedWrite
  <2>3. ASSUME NEW i \in Ids, maker'[i] # NoFile
        PROVE  IsObject(files'[maker'[i]]) /\ files'[maker'[i]].id = i
    <3>1. maker[i] = maker'[i] /\ maker[i] # f /\ maker[i] \in Stems
      BY <2>1, <2>3
    <3>2. IsObject(files[maker[i]]) /\ files[maker[i]].id = i
      BY <1>4, <2>3, <3>1 DEF TieInv
    <3> QED BY <2>2, <3>1, <3>2
  <2>4. \A i \in Ids : live'[i] = Unborn => maker'[i] = NoFile
    BY <1>1, <2>1
  <2> QED BY <1>2, <2>3, <2>4, RestTie
<1> QED BY <1>3, <1>4

LEMMA StartTie ==
  ASSUME ShapeInv, TieInv, Start
  PROVE  TieInv'
<1> USE DEF StartCommand, counters, disk, pullVars, pushVars
<1>0. todo = {} /\ pc = "idle" /\ echo = NoEcho /\ UNCHANGED <<live, files, maker>>
  BY DEF Start, PullList, PushLoad, ListFails, PushLoadFails, ShapeInv
<1>1. \A i \in Ids : maker[i] # NoFile => IsObject(files[maker[i]]) /\ files[maker[i]].id = i
  BY <1>0, TiedFile
<1>2. \A i \in Ids : live[i] = Unborn => maker[i] = NoFile
  BY DEF TieInv
<1>3. CASE (\E prune \in BOOLEAN : PullList(prune)) \/ ListFails \/ PushLoadFails
  <2>1. todo' = {} /\ echo' = NoEcho /\ pc' \notin {"pushList", "refresh"}
    BY <1>0, <1>3 DEF PullList, ListFails, PushLoadFails
  <2> QED BY <1>0, <1>1, <1>2, <2>1, RestTie
<1>4. ASSUME NEW o \in Options, PushLoad(o) PROVE TieInv'
  <2>1. todo' = {} /\ echo' = NoEcho /\ pc' = "pushList" /\ locals' = files
    BY <1>0, <1>4 DEF PushLoad
  <2> QED BY <1>0, <1>1, <1>2, <2>1 DEF TieInv, NoSilentDuplicate
<1> QED BY <1>3, <1>4 DEF Start

LEMMA PullStepTie ==
  ASSUME ShapeInv, TieInv, PullStep
  PROVE  TieInv'
<1> USE DEF counters, disk, pullVars, pushVars
<1>0. /\ todo = {} /\ pc \in {"pullWrite", "pullPrune"} /\ echo = NoEcho /\ live' = live
      /\ files \in [Stems -> Object \cup {NoFile, Torn}] /\ maker \in [Ids -> Stems \cup {NoFile}]
      /\ \A i \in Ids : live[i] = Unborn => maker[i] = NoFile
      /\ \A i \in Ids : maker[i] # NoFile => IsObject(files[maker[i]]) /\ files[maker[i]].id = i
  <2>1. todo = {} /\ pc \in {"pullWrite", "pullPrune"} /\ echo = NoEcho /\ live' = live
    BY DEF PullStep, PullWrite, PullWriteFails, PullState, PullStateFails, PruneFile,
           PruneFileFails, PullDone, ShapeInv
  <2> QED BY <2>1, TiedFile DEF ShapeInv, TypeOK, TieInv
<1>1. ASSUME NEW i \in Ids, PullWrite(i) PROVE TieInv'
  <2> DEFINE f == FileStem(listing.objs, i)
  <2>1. f \in Stems
    BY <1>1, StemType DEF PullWrite, ShapeInv, TypeOK
  <2>2. /\ files' = [files EXCEPT ![f] = [id |-> i, body |-> listing.objs[i]]]
        /\ maker' = Disown(f, {i}) /\ UNCHANGED <<todo, echo, pc>>
    BY <1>1 DEF PullWrite
  <2>6. listing.objs[i] \in Contents
    BY <1>1, StemType DEF PullWrite, ShapeInv, TypeOK
  <2>3. files'[f] = [id |-> i, body |-> listing.objs[i]] /\ IsObject(files'[f]) /\ files'[f].id = i
    <3>1. [id |-> i, body |-> listing.objs[i]] \in [id : Ids \cup {NoId}, body : Contents]
      BY <2>6
    <3>2. files'[f] = [id |-> i, body |-> listing.objs[i]]
      BY <1>0, <2>1, <2>2
    <3> QED BY <3>1, <3>2, SpecialsAssumption DEF IsObject
  <2> HIDE DEF f
  <2>4. \A j \in Ids : maker'[j] # NoFile =>
          maker'[j] = maker[j] /\ maker[j] \in Stems /\ (maker[j] = f => j = i)
    BY <1>0, <2>2 DEF Disown
  <2>5. \A j \in Ids : maker'[j] # NoFile => IsObject(files'[maker'[j]]) /\ files'[maker'[j]].id = j
    BY <1>0, <2>1, <2>2, <2>3, <2>4
  <2> QED BY <1>0, <2>2, <2>4, <2>5, RestTie
<1>2. ASSUME NEW i \in Ids, PullWriteFails(i) PROVE TieInv'
  <2>1. FileStem(listing.objs, i) \in Stems
    BY <1>2, StemType DEF PullWriteFails, ShapeInv, TypeOK
  <2> QED BY <1>0, <1>2, <2>1, ExitTie DEF PullWriteFails
<1>3. CASE PullStateFails \/ PullDone
  BY <1>0, <1>3, ExitTie DEF PullStateFails, PullDone
<1>4. CASE PullState
  BY <1>0, <1>4, RestTie DEF PullState
<1>5. ASSUME NEW f \in Stems, PruneFile(f) PROVE TieInv'
  <2>1. /\ files' = [files EXCEPT ![f] = NoFile] /\ maker' = Disown(f, {})
        /\ UNCHANGED <<todo, echo, pc>>
    BY <1>5 DEF PruneFile
  <2>2. \A j \in Ids : maker'[j] # NoFile => maker'[j] = maker[j] /\ maker[j] \in Stems /\ maker[j] # f
    BY <1>0, <2>1 DEF Disown
  <2>3. \A j \in Ids : maker'[j] # NoFile => IsObject(files'[maker'[j]]) /\ files'[maker'[j]].id = j
    BY <1>0, <2>1, <2>2
  <2> QED BY <1>0, <2>1, <2>2, <2>3, RestTie
<1>6. ASSUME NEW f \in Stems, PruneFileFails(f) PROVE TieInv'
  BY <1>0, <1>6, RestTie DEF PruneFileFails
<1> QED BY <1>1, <1>2, <1>3, <1>4, <1>5, <1>6 DEF PullStep

LEMMA PlanTie ==
  ASSUME ShapeInv, TieInv, PushPlan
  PROVE  TieInv'
<1>1. PICK l \in Listings :
        /\ listing' = l
        /\ todo' = Planned(locals, l.objs, Prunable(opts.prune, Incomplete(l)))
  BY DEF PushPlan
<1>2. pc = "pushList" /\ echo' = NoEcho /\ pc' = "apply" /\ UNCHANGED <<live, files, maker>>
  BY DEF PushPlan, disk, history, ShapeInv
<1>3. /\ maker \in [Ids -> Stems \cup {NoFile}]
      /\ \A i \in Ids : live[i] = Unborn => maker[i] = NoFile
      /\ \A i \in Ids : maker[i] # NoFile => IsObject(files[maker[i]]) /\ files[maker[i]].id = i
      /\ \A i \in Ids : maker[i] # NoFile => IsObject(locals[maker[i]]) /\ locals[maker[i]].id = i
  BY <1>2 DEF TieInv, ShapeInv, TypeOK
<1>4. \A it \in todo' : it.action # "delete" =>
        /\ it.slug \in Stems /\ it.id = locals[it.slug].id /\ it.body = locals[it.slug].body
        /\ it.action = IF locals[it.slug].id \in Listed(l.objs) THEN "update" ELSE "create"
        /\ it = [action |-> it.action, slug |-> it.slug, id |-> it.id, body |-> it.body]
  BY <1>1 DEF Planned, Creates, Updates, Deletes
<1>5. \A a, b \in todo' : a.action # "delete" /\ b.action # "delete" /\ a.slug = b.slug => a = b
  BY <1>4
<1>6. \A it \in todo', i \in Ids : it.action = "update" /\ maker[i] = it.slug => i = it.id
  BY <1>3, <1>4, SpecialsAssumption
<1>7. ASSUME NEW it \in todo', it.action = "create", NEW i \in Existing, maker[i] = it.slug
      PROVE  i \in l.skipped
  <2>1. i \in Ids /\ it.slug # NoFile
    BY <1>4, <1>7, SpecialsAssumption DEF Existing
  <2>2. i \notin Listed(l.objs)
    BY <1>3, <1>4, <1>7, <2>1
  <2>3. PICK skipped \in SUBSET Existing : l = ListOf(skipped)
    BY DEF Listings
  <2>4. l.skipped = skipped /\ l.objs[i] = IF i \in Existing \ skipped THEN live[i] ELSE Absent
    BY <2>1, <2>3 DEF ListOf
  <2>5. live[i] # Absent
    BY <1>7, SpecialsAssumption DEF Existing
  <2> QED BY <1>7, <2>1, <2>2, <2>4, <2>5 DEF Listed
<1>8. NoSilentDuplicate'
  BY <1>1, <1>2, <1>7 DEF NoSilentDuplicate, Existing
<1> QED BY <1>2, <1>3, <1>5, <1>6, <1>8 DEF TieInv

\* An item leaves the plan and nothing it touched is tied to a file.
LEMMA ShrinkTie ==
  ASSUME ShapeInv, TieInv, pc = "apply", todo' \subseteq todo,
         UNCHANGED <<pc, files, maker, listing, echo>>,
         \A i \in Ids : /\ live'[i] = Unborn => live[i] = Unborn
                        /\ live'[i] \in Contents => live[i] \in Contents \/ live[i] = Unborn
  PROVE  TieInv'
<1>1. echo = NoEcho
  BY DEF ShapeInv
<1>2. NoSilentDuplicate'
  <2> SUFFICES ASSUME NEW it \in todo, it.action = "create", NEW i \in Ids, live'[i] \in Contents,
                      maker[i] = it.slug
               PROVE  i \in listing.skipped
    BY DEF NoSilentDuplicate, Existing
  <2>1. it.slug # NoFile
    BY SpecialsAssumption DEF ShapeInv, TypeOK, Item
  <2>2. i \in Existing
    BY <2>1 DEF TieInv, Existing
  <2> QED BY <2>2 DEF TieInv, NoSilentDuplicate
<1> QED BY <1>1, <1>2 DEF TieInv

LEMMA ApplyTie ==
  ASSUME ShapeInv, TieInv, NEW it \in todo,
         \/ SkipItem(it)
         \/ CreateNamed(it) \/ UpdateNamed(it) \/ ApplyDelete(it)
         \/ ApplyFails(it) \/ ApplyLost(it)
  PROVE  TieInv'
<1> USE DEF counters, disk, pullVars, pushVars, history
<1>0. /\ pc = "apply" /\ echo = NoEcho
      /\ live \in [Ids -> Contents \cup {Unborn, Gone}] /\ it.body \in Contents
      /\ it.slug \in Stems /\ it.slug # NoFile
      /\ files \in [Stems -> Object \cup {NoFile, Torn}] /\ maker \in [Ids -> Stems \cup {NoFile}]
  BY SpecialsAssumption DEF SkipItem, CreateNamed, UpdateNamed, ApplyDelete, ApplyFails, ApplyLost,
     Turn, ShapeInv, TypeOK, Item
<1>1. CASE SkipItem(it)
  BY <1>0, <1>1, ShrinkTie DEF SkipItem
<1>2. CASE CreateNamed(it)
  <2>1. PICK i \in Ids : MakeLive(it, i) /\ Echoed(it, i, it.body)
    BY <1>2 DEF CreateNamed
  <2>2. /\ live[i] = Unborn /\ live' = [live EXCEPT ![i] = it.body]
        /\ maker' = [Disown(it.slug, {}) EXCEPT ![i] = it.slug]
        /\ echo' = [action |-> it.action, slug |-> it.slug, id |-> i, body |-> it.body]
        /\ pc' = "refresh" /\ todo' = todo \ {it} /\ it.action = "create"
        /\ UNCHANGED <<files, listing>>
    BY <1>2, <2>1 DEF MakeLive, Echoed, CreateNamed, Turn
  <2>3. /\ maker'[i] = it.slug
        /\ \A j \in Ids \ {i} : maker'[j] = IF maker[j] = it.slug THEN NoFile ELSE maker[j]
    BY <1>0, <2>2 DEF Disown
  <2>4. \A j \in Ids \ {i} : live'[j] = live[j]
    BY <1>0, <2>2
  <2>5. \A b \in todo' : b.action # "delete" => b.slug # it.slug /\ b \in todo
    BY <2>2 DEF TieInv
  <2>6. live'[i] \in Contents /\ live'[i] # Unborn
    BY <1>0, <2>2, SpecialsAssumption
  <2>7. \A j \in Ids : live'[j] = Unborn => maker'[j] = NoFile
    BY <2>3, <2>4, <2>6 DEF TieInv
  <2>8. \A j \in Ids : maker'[j] # NoFile =>
          \/ IsObject(files[maker'[j]]) /\ files[maker'[j]].id = j
          \/ echo'.id = j /\ echo'.slug = maker'[j]
    BY <1>0, <2>2, <2>3 DEF TieInv
  <2>9. \A b \in todo', j \in Ids : b.action = "update" /\ maker'[j] = b.slug => j = b.id
    <3>1. \A b \in todo' : b.slug # NoFile
      BY <2>2, SpecialsAssumption DEF ShapeInv, TypeOK, Item
    <3> QED BY <2>3, <2>5, <3>1 DEF TieInv
  <2>10. \A j \in Ids : maker'[j] = it.slug => j = i
    BY <1>0, <2>3
  <2>11. NoSilentDuplicate'
    <3> SUFFICES ASSUME NEW b \in todo', b.action = "create", NEW j \in Ids, live'[j] \in Contents,
                        maker'[j] = b.slug
                 PROVE  j \in listing.skipped
      BY <2>2 DEF NoSilentDuplicate, Existing
    <3>1. b \in todo /\ b.slug # it.slug /\ b.slug # NoFile
      BY <2>5, SpecialsAssumption DEF ShapeInv, TypeOK, Item
    <3>2. j # i /\ maker[j] = b.slug /\ live[j] \in Contents
      BY <2>3, <2>4, <3>1
    <3> QED BY <3>1, <3>2 DEF TieInv, NoSilentDuplicate, Existing
  <2> QED BY <2>2, <2>5, <2>7, <2>8, <2>9, <2>10, <2>11 DEF TieInv
<1>3. CASE UpdateNamed(it)
  <2> DEFINE sent == Overlay[<<listing.objs[it.id], it.body>>]
  <2>1. it.id \in Ids /\ it.action = "update" /\ sent \in Contents /\ live[it.id] \in Contents
    BY <1>0, <1>3, ItemShape, ConstantsAssumption DEF UpdateNamed, Turn
  <2>2. /\ echo'.id = it.id /\ echo'.slug = it.slug /\ todo' = todo \ {it} /\ pc' = "refresh"
        /\ UNCHANGED <<files, maker, listing>> /\ live' = [live EXCEPT ![it.id] = sent]
    BY <1>3 DEF UpdateNamed, Echoed
  <2> HIDE DEF sent
  <2>3. \A j \in Ids : live'[j] = Unborn => live[j] = Unborn
    BY <1>0, <2>1, <2>2, SpecialsAssumption
  <2>4. \A j \in Ids : live'[j] \in Contents => live[j] \in Contents
    BY <1>0, <2>1, <2>2
  <2>5. \A b \in todo' : b.action # "delete" => b.slug # it.slug
    BY <2>1, <2>2 DEF TieInv
  <2>6. NoSilentDuplicate'
    BY <2>2, <2>4 DEF TieInv, NoSilentDuplicate, Existing
  <2>7. \A j \in Ids : maker[j] = it.slug => j = it.id
    BY <2>1 DEF TieInv
  <2> QED BY <1>0, <2>2, <2>3, <2>5, <2>6, <2>7 DEF TieInv
<1>4. CASE ApplyDelete(it)
  <2>1. \A i \in Ids : /\ live'[i] = Unborn => live[i] = Unborn
                       /\ live'[i] \in Contents => live[i] \in Contents \/ live[i] = Unborn
    BY <1>0, <1>4, SpecialsAssumption DEF ApplyDelete
  <2> QED BY <1>0, <1>4, <2>1, ShrinkTie DEF ApplyDelete
<1>5. CASE ApplyFails(it)
  BY <1>0, <1>5, ShrinkTie DEF ApplyFails, Fail
<1>6. CASE ApplyLost(it)
  <2>1. \A i \in Ids : /\ live'[i] = Unborn => live[i] = Unborn
                       /\ live'[i] \in Contents => live[i] \in Contents \/ live[i] = Unborn
    <3>1. CASE it.action = "create"
      BY <1>0, <1>6, <3>1, SpecialsAssumption DEF ApplyLost
    <3>2. CASE it.action # "create"
      <4>1. it.id \in Ids /\ Overlay[<<listing.objs[it.id], it.body>>] \in Contents
        BY <1>0, <3>2, ItemShape, ConstantsAssumption
      <4> QED BY <1>0, <1>6, <3>2, <4>1, SpecialsAssumption DEF ApplyLost
    <3> QED BY <3>1, <3>2
  <2>2. maker' = maker /\ todo' \subseteq todo /\ UNCHANGED <<pc, files, listing, echo>>
    BY <1>6 DEF ApplyLost, Fail
  <2> QED BY <1>0, <2>1, <2>2, ShrinkTie
<1> QED BY <1>1, <1>2, <1>3, <1>4, <1>5, <1>6

LEMMA UnnamedTie ==
  ASSUME ShapeInv, TieInv, NEW it \in todo, Unnamed(it)
  PROVE  TieInv'
<1>0. /\ pc = "apply" /\ echo = NoEcho /\ it.action # "delete"
      /\ it.slug \in Stems /\ it.slug # NoFile /\ maker \in [Ids -> Stems \cup {NoFile}]
      /\ \A b \in todo : b.slug # NoFile
  BY SpecialsAssumption DEF Unnamed, ShapeInv, TypeOK, Item
<1>1. CASE Unechoed(it)
  BY <1>0, <1>1, ShrinkTie DEF Unnamed, Unechoed, pullVars
<1>2. ASSUME NEW body \in Contents, Echoed(it, NoId, body), maker' = Disown(it.slug, {})
      PROVE  TieInv'
  <2>1. /\ echo' = [action |-> it.action, slug |-> it.slug, id |-> NoId, body |-> body]
        /\ pc' = "refresh" /\ todo' = todo \ {it} /\ UNCHANGED <<files, listing>>
    BY <1>2 DEF Echoed, pullVars
  <2>2. \A j \in Ids : maker'[j] # NoFile => maker'[j] = maker[j] /\ maker'[j] # it.slug
    BY <1>0, <1>2 DEF Disown
  <2>3. \A b \in todo' : b.action # "delete" => b.slug # it.slug
    BY <1>0, <2>1 DEF TieInv
  <2>4. \A j \in Ids : live'[j] = Unborn => maker'[j] = NoFile
    BY <2>2 DEF TieInv, Unnamed
  <2>5. \A j \in Ids : maker'[j] # NoFile =>
          IsObject(files'[maker'[j]]) /\ files'[maker'[j]].id = j
    BY <1>0, <2>1, <2>2 DEF TieInv
  <2>6. \A b \in todo', j \in Ids : b.action = "update" /\ maker'[j] = b.slug => j = b.id
    BY <1>0, <2>1, <2>2 DEF TieInv
  <2>7. \A j \in Ids : maker'[j] # it.slug
    BY <1>0, <2>2
  <2>8. NoSilentDuplicate'
    <3> SUFFICES ASSUME NEW b \in todo', b.action = "create", NEW j \in Ids, live'[j] \in Contents,
                        maker'[j] = b.slug
                 PROVE  j \in listing.skipped
      BY <2>1 DEF NoSilentDuplicate, Existing
    <3>1. maker[j] = b.slug /\ maker[j] # NoFile /\ b \in todo
      BY <1>0, <2>1, <2>2
    <3>2. live[j] \in Contents
      BY <3>1 DEF TieInv, Unnamed
    <3> QED BY <3>1, <3>2 DEF TieInv, NoSilentDuplicate, Existing
  <2> QED BY <2>1, <2>3, <2>4, <2>5, <2>6, <2>7, <2>8 DEF TieInv
<1> QED BY <1>1, <1>2 DEF Unnamed

LEMMA RefreshTie ==
  ASSUME ShapeInv, TieInv, Refresh \/ RefreshFails
  PROVE  TieInv'
<1> USE DEF counters, disk, pullVars, pushVars, history
<1>1. /\ pc = "refresh" /\ echo \in Echo /\ echo' = NoEcho /\ pc' = "apply"
      /\ UNCHANGED <<todo, live, listing>>
      /\ files \in [Stems -> Object \cup {NoFile, Torn}] /\ maker \in [Ids -> Stems \cup {NoFile}]
  BY DEF Refresh, RefreshFails, ShapeInv, TypeOK
<1>2. echo.slug \in Stems /\ echo.id \in Ids \cup {NoId} /\ echo.body \in Contents
  BY <1>1 DEF Echo
<1>3. /\ \A i \in Ids : maker'[i] # NoFile => maker'[i] = maker[i] /\ maker[i] \in Stems
      /\ \A i \in Ids : maker'[i] # NoFile => IsObject(files'[maker'[i]]) /\ files'[maker'[i]].id = i
  <2>1. CASE Refresh
    <3>1. files' = [files EXCEPT ![echo.slug] = [id |-> echo.id, body |-> echo.body]] /\ maker' = maker
      BY <2>1 DEF Refresh, RefreshStem
    <3>2. files'[echo.slug].id = echo.id /\ IsObject(files'[echo.slug])
      <4>1. [id |-> echo.id, body |-> echo.body] \in [id : Ids \cup {NoId}, body : Contents]
        BY <1>2
      <4>2. files'[echo.slug] = [id |-> echo.id, body |-> echo.body]
        BY <1>1, <1>2, <3>1
      <4> QED BY <4>1, <4>2, SpecialsAssumption DEF IsObject
    <3>3. \A g \in Stems \ {echo.slug} : files'[g] = files[g]
      BY <1>1, <3>1
    <3> QED BY <1>1, <3>1, <3>2, <3>3 DEF TieInv
  <2>2. CASE RefreshFails
    <3>1. files' \in FailedWrite(echo.slug) /\ maker' = Disown(echo.slug, {})
      BY <2>2 DEF RefreshFails, RefreshStem
    <3>2. \A g \in Stems \ {echo.slug} : files'[g] = files[g]
      BY <1>1, <3>1 DEF FailedWrite
    <3>3. \A i \in Ids : maker'[i] # NoFile =>
            maker'[i] = maker[i] /\ maker[i] \in Stems /\ maker[i] # echo.slug
      BY <1>1, <3>1 DEF Disown
    <3> QED BY <3>2, <3>3 DEF TieInv
  <2> QED BY <2>1, <2>2
<1>4. NoSilentDuplicate'
  <2>1. \A b \in todo : b.slug # NoFile
    BY SpecialsAssumption DEF ShapeInv, TypeOK, Item
  <2> QED BY <1>1, <1>3, <2>1 DEF TieInv, NoSilentDuplicate, Existing
<1>5. \A b \in todo, i \in Ids : b.action = "update" /\ maker'[i] = b.slug => i = b.id
  <2>1. \A b \in todo : b.slug # NoFile
    BY SpecialsAssumption DEF ShapeInv, TypeOK, Item
  <2> QED BY <1>3, <2>1 DEF TieInv
<1>6. \A i \in Ids : live[i] = Unborn => maker'[i] = NoFile
  BY <1>3 DEF TieInv
<1> QED BY <1>1, <1>3, <1>4, <1>5, <1>6 DEF TieInv

LEMMA EnvironmentTie ==
  ASSUME ShapeInv, TieInv, Environment
  PROVE  TieInv'
<1> USE DEF counters, disk, pullVars, pushVars, Outside
<1>0. /\ live \in [Ids -> Contents \cup {Unborn, Gone}]
      /\ files \in [Stems -> Object \cup {NoFile, Torn}] /\ maker \in [Ids -> Stems \cup {NoFile}]
      /\ UNCHANGED <<todo, pc, locals, echo, listing>>
      /\ \A b \in todo : b.slug # NoFile
  BY SpecialsAssumption DEF ShapeInv, TypeOK, Environment, UiChange, EditFile, Item
<1>1. ASSUME NEW i \in Ids, UiChange(i) PROVE TieInv'
  <2>1. /\ UNCHANGED <<files, maker>> /\ \A j \in Ids : live'[j] = Unborn => live[j] = Unborn
        /\ \A j \in Ids : live'[j] \in Contents => live[j] \in Contents \/ live[j] = Unborn
    BY <1>0, <1>1, SpecialsAssumption DEF UiChange
  <2>2. \A j \in Ids : maker[j] # NoFile /\ live'[j] \in Contents => live[j] \in Contents
    BY <2>1 DEF TieInv
  <2>3. NoSilentDuplicate'
    BY <1>0, <2>1, <2>2 DEF TieInv, NoSilentDuplicate, Existing
  <2> QED BY <1>0, <2>1, <2>3 DEF TieInv
<1>2. ASSUME NEW f \in Stems, EditFile(f) PROVE TieInv'
  <2>0. live' = live
    BY <1>2 DEF EditFile
  <2>1. /\ \A i \in Ids : maker'[i] # NoFile => maker'[i] = maker[i]
        /\ \A i \in Ids : maker'[i] # NoFile =>
             \/ IsObject(files'[maker'[i]]) /\ files'[maker'[i]].id = i
             \/ pc = "refresh" /\ echo.id = i /\ echo.slug = maker'[i]
    <3>1. CASE files' = [files EXCEPT ![f] = NoFile] /\ maker' = Disown(f, {})
      <4>1. \A i \in Ids : maker'[i] # NoFile => maker'[i] = maker[i] /\ maker[i] # f /\ maker[i] \in Stems
        BY <1>0, <3>1 DEF Disown
      <4>2. \A g \in Stems \ {f} : files'[g] = files[g]
        BY <1>0, <3>1
      <4> QED BY <4>1, <4>2 DEF TieInv
    <3>2. ASSUME NEW c \in Contents, files[f] = NoFile, maker' = maker,
                 files' = [files EXCEPT ![f] = [id |-> NoId, body |-> c]]
          PROVE  /\ \A i \in Ids : maker'[i] # NoFile => maker'[i] = maker[i]
                 /\ \A i \in Ids : maker'[i] # NoFile =>
                      \/ IsObject(files'[maker'[i]]) /\ files'[maker'[i]].id = i
                      \/ pc = "refresh" /\ echo.id = i /\ echo.slug = maker'[i]
      <4>1. \A g \in Stems \ {f} : files'[g] = files[g]
        BY <1>0, <3>2
      <4> QED BY <1>0, <3>2, <4>1 DEF TieInv, IsObject
    <3>3. ASSUME NEW c \in Contents, IsObject(files[f]), maker' = maker,
                 files' = [files EXCEPT ![f] = [id |-> files[f].id, body |-> c]]
          PROVE  /\ \A i \in Ids : maker'[i] # NoFile => maker'[i] = maker[i]
                 /\ \A i \in Ids : maker'[i] # NoFile =>
                      \/ IsObject(files'[maker'[i]]) /\ files'[maker'[i]].id = i
                      \/ pc = "refresh" /\ echo.id = i /\ echo.slug = maker'[i]
      <4>1. \A g \in Stems \ {f} : files'[g] = files[g]
        BY <1>0, <3>3
      <4>2. files[f] \in Object /\ files'[f] = [id |-> files[f].id, body |-> c]
        BY <1>0, <3>3 DEF IsObject
      <4>3. files'[f] \in [id : Ids \cup {NoId}, body : Contents] /\ files'[f].id = files[f].id
        BY <3>3, <4>2 DEF Object
      <4>4. IsObject(files'[f])
        BY <4>3, SpecialsAssumption DEF IsObject
      <4> QED BY <1>0, <3>3, <4>1, <4>3, <4>4 DEF TieInv
    <3> QED BY <1>2, <3>1, <3>2, <3>3 DEF EditFile
  <2>2. NoSilentDuplicate'
    BY <1>0, <2>0, <2>1 DEF TieInv, NoSilentDuplicate, Existing
  <2>3. \A i \in Ids : pc = "refresh" /\ maker'[i] = echo.slug => i = echo.id
    <3>1. pc = "refresh" => echo.slug # NoFile
      BY SpecialsAssumption DEF ShapeInv, TypeOK, Echo
    <3> QED BY <2>1, <3>1 DEF TieInv
  <2>4. pc = "pushList" => \A i \in Ids : maker'[i] # NoFile =>
          IsObject(locals[maker'[i]]) /\ locals[maker'[i]].id = i
    BY <2>1 DEF TieInv
  <2>5. \A b \in todo, i \in Ids : b.action = "update" /\ maker'[i] = b.slug => i = b.id
    BY <1>0, <2>1 DEF TieInv
  <2>6. \A i \in Ids : live'[i] = Unborn => maker'[i] = NoFile
    BY <2>0, <2>1 DEF TieInv
  <2> QED BY <1>0, <2>1, <2>2, <2>3, <2>4, <2>5, <2>6 DEF TieInv
<1> QED BY <1>1, <1>2 DEF Environment

LEMMA CrashTie ==
  ASSUME ShapeInv, TieInv, Crash
  PROVE  TieInv'
<1>1. Exit /\ live' = live
  BY DEF Crash
<1>2. CASE UNCHANGED <<files, maker>> /\ pc # "refresh"
  BY <1>1, <1>2, ExitTie
<1>3. CASE pc = "refresh" /\ files' \in FailedWrite(RefreshStem(echo))
           /\ maker' = Disown(RefreshStem(echo), {})
  <2>1. echo.slug \in Stems
    BY <1>3 DEF ShapeInv, TypeOK, Echo
  <2> QED BY <1>1, <1>3, <2>1, ExitTie DEF RefreshStem
<1>4. ASSUME pc = "pullWrite", NEW i \in work,
             files' = [files EXCEPT ![FileStem(listing.objs, i)] = Torn],
             maker' = Disown(FileStem(listing.objs, i), {})
      PROVE  TieInv'
  <2>1. FileStem(listing.objs, i) \in Stems
    BY <1>4, StemType DEF ShapeInv, TypeOK
  <2>2. files' \in FailedWrite(FileStem(listing.objs, i))
    BY <1>4 DEF FailedWrite
  <2> QED BY <1>1, <1>4, <2>1, <2>2, ExitTie
<1> QED BY <1>2, <1>3, <1>4 DEF Crash

LEMMA TieAlways == Spec => []TieInv
<1>1. Init => TieInv
  BY DEF Init, TieInv, NoSilentDuplicate
<1>2. ASSUME ShapeInv, TieInv, [Next]_vars PROVE TieInv'
  <2>1. CASE UNCHANGED vars
    BY <1>2, <2>1 DEF vars, disk, pullVars, pushVars, counters, history, TieInv, NoSilentDuplicate,
       Existing
  <2>2. CASE PushStep
    <3>1. CASE PushListFails \/ PushPlanEnds \/ PushDone
      <4>1. Exit /\ UNCHANGED <<live, files, maker>> /\ pc # "refresh"
        BY <3>1 DEF PushListFails, PushPlanEnds, PushDone, disk
      <4> QED BY <1>2, <4>1, ExitTie
    <3> QED BY <1>2, <2>2, <3>1, PlanTie, CreateCases, UpdateCases, ApplyTie, UnnamedTie, RefreshTie
        DEF PushStep
  <2> QED BY <1>2, <2>1, <2>2, StartTie, PullStepTie, EnvironmentTie, CrashTie DEF Next
<1> QED BY <1>1, <1>2, ShapeAlways, PTL DEF Spec

\* A file whose object the tool made, every step told as a success, never makes a second one
\* while the first is there and is listed, whatever fails or interferes in between.
THEOREM NoDuplicates == Spec => []NoSilentDuplicate
<1>1. TieInv => NoSilentDuplicate
  BY DEF TieInv
<1> QED BY <1>1, TieAlways, PTL

-----------------------------------------------------------------------------
(* The refinement of GuardedSync *)

\* What a step on the plan keeps of the operator's consent.
LEMMA QuietConfirm ==
  ASSUME ConfirmInv, opts' = opts, todo' \subseteq todo,
         pc' \in {"apply", "refresh"} => pc \in {"apply", "refresh"}
  PROVE  ConfirmInv'
BY DEF ConfirmInv, ToDelete

LEMMA ConfirmAlways == Spec => []ConfirmInv
<1> USE DEF StartCommand, counters, disk, pullVars, pushVars, history
<1>1. Init => ConfirmInv
  BY DEF Init, ConfirmInv, ToDelete
<1>2. ASSUME ShapeInv, ConfirmInv, [Next]_vars PROVE ConfirmInv'
  <2>1. CASE Exit
    BY <2>1 DEF Exit, ConfirmInv, ToDelete
  <2>2. CASE Start
    <3>1. todo = {} /\ todo' = todo /\ pc' \notin {"apply", "refresh"}
      BY <1>2, <2>2 DEF Start, PullList, PushLoad, ListFails, PushLoadFails, ShapeInv
    <3> QED BY <3>1 DEF ConfirmInv, ToDelete
  <2>3. CASE PullStep
    <3>1. Exit \/ (UNCHANGED <<opts, todo>> /\ pc' \notin {"apply", "refresh"})
      BY <2>3 DEF PullStep, PullWrite, PullWriteFails, PullState, PullStateFails, PruneFile,
         PruneFileFails, PullDone
    <3> QED BY <1>2, <2>1, <3>1, QuietConfirm
  <2>4. CASE PushPlan
    <3>1. PICK l \in Listings :
            /\ ~PushEnds(Changes(locals, l.objs))
            /\ todo' = Planned(locals, l.objs, Prunable(opts.prune, Incomplete(l)))
      BY <2>4 DEF PushPlan
    <3>2. opts' = opts /\ opts.assumeYes /\ ~opts.dryRun
      BY <2>4, <3>1 DEF PushPlan, PushEnds
    <3>3. ToDelete' # {} => opts.prune
      <4>1. Prunable(opts.prune, Incomplete(l)) \in BOOLEAN
        BY <1>2, ConstantsAssumption DEF ShapeInv, TypeOK, Options, Prunable, Incomplete
      <4>2. \A d \in todo' : d.action = "delete" => Prunable(opts.prune, Incomplete(l))
        BY <3>1, <4>1, PlannedDeletes
      <4> QED BY <4>2 DEF ToDelete, Prunable
    <3> QED BY <3>2, <3>3 DEF ConfirmInv
  <2>5. ASSUME NEW it \in todo,
               \/ SkipItem(it)
               \/ ApplyCreate(it) \/ ApplyUpdate(it) \/ ApplyDelete(it)
               \/ ApplyFails(it) \/ ApplyLost(it)
        PROVE  ConfirmInv'
    <3>1. opts' = opts /\ todo' \subseteq todo /\ pc = "apply"
      BY <2>5 DEF SkipItem, ApplyCreate, ApplyUpdate, ApplyDelete, ApplyFails, ApplyLost,
         Turn, Reported, Echoed, Unechoed, Fail
    <3> QED BY <1>2, <3>1, QuietConfirm
  <2>6. CASE Refresh \/ RefreshFails
    <3>1. UNCHANGED <<opts, todo>> /\ pc = "refresh"
      BY <2>6 DEF Refresh, RefreshFails
    <3> QED BY <1>2, <3>1, QuietConfirm
  <2>7. CASE Environment
    <3>1. UNCHANGED <<opts, todo, pc>>
      BY <2>7 DEF Environment, UiChange, EditFile, Outside
    <3> QED BY <1>2, <3>1, QuietConfirm
  <2>8. CASE UNCHANGED vars
    BY <1>2, <2>8, QuietConfirm DEF vars
  <2>9. PushListFails \/ PushPlanEnds \/ PushDone \/ Crash => Exit
    BY DEF PushListFails, PushPlanEnds, PushDone, Crash
  <2> QED BY <1>2, <2>1, <2>2, <2>3, <2>4, <2>5, <2>6, <2>7, <2>8, <2>9 DEF Next, PushStep
<1> QED BY <1>1, <1>2, ShapeAlways, PTL DEF Spec

\* A step of the engine that GuardedSync does not see.
LEMMA SyncStutter ==
  ASSUME UNCHANGED <<live, files, edits>>, Mode' = Mode
  PROVE  UNCHANGED Sync!vars
BY DEF Sync!vars

\* The engine writes one entry of the directory.
LEMMA SyncWrite ==
  ASSUME NEW f \in Stems, NEW entry \in Object \cup {NoFile, Torn},
         files' = [files EXCEPT ![f] = entry], UNCHANGED <<live, edits>>, Mode' = Mode
  PROVE  Sync!Next
BY DEF Sync!Next, Sync!WriteFile, Sync!Entries, Object

\* A write that fails tears the entry or leaves it.
LEMMA SyncFailedWrite ==
  ASSUME NEW f \in Stems, files' \in FailedWrite(f), UNCHANGED <<live, edits>>, Mode' = Mode
  PROVE  [Sync!Next]_(Sync!vars)
<1>1. CASE files' = files
  BY <1>1, SyncStutter
<1>2. CASE files' = [files EXCEPT ![f] = Torn]
  BY <1>2, SyncWrite
<1> QED BY <1>1, <1>2 DEF FailedWrite

\* A command that ends, its last write torn perhaps.
LEMMA SyncExit ==
  ASSUME Exit, UNCHANGED <<live, edits>>,
         files' = files \/ \E f \in Stems : files' \in FailedWrite(f)
  PROVE  [Sync!Next]_(Sync!vars)
<1>1. Mode' = "read"
  BY DEF Exit, Mode
<1>2. CASE Mode = "read"
  BY <1>1, <1>2, SyncStutter, SyncFailedWrite
<1>3. CASE Mode # "read"
  <2>1. files' = files \/ \E f \in Stems : files' = [files EXCEPT ![f] = Torn]
    BY DEF FailedWrite
  <2> QED BY <1>1, <1>3, <2>1 DEF Sync!Next, Sync!Finish
<1> QED BY <1>2, <1>3

LEMMA StartSync ==
  ASSUME ShapeInv, Start
  PROVE  [Sync!Next]_(Sync!vars)
<1>1. UNCHANGED <<live, files, edits>>
  BY DEF Start, PullList, PushLoad, ListFails, PushLoadFails, StartCommand, disk
<1>2. Mode = "read" /\ Mode' = "read"
  BY DEF Start, PullList, PushLoad, ListFails, PushLoadFails, StartCommand, Mode
<1> QED BY <1>1, <1>2, SyncStutter

LEMMA PullStepSync ==
  ASSUME ShapeInv, PullStep
  PROVE  [Sync!Next]_(Sync!vars)
<1> USE DEF counters, disk
<1>1. ASSUME UNCHANGED pc, pc \in {"pullWrite", "pullPrune"} PROVE Mode' = Mode
  BY <1>1 DEF Mode
<1>2. ASSUME NEW i \in Ids, PullWrite(i) PROVE Sync!Next
  <2>1. /\ FileStem(listing.objs, i) \in Stems
        /\ [id |-> i, body |-> listing.objs[i]] \in Object
    BY <1>2, StemType DEF PullWrite, ShapeInv, TypeOK, Object
  <2> QED BY <1>1, <1>2, <2>1, SyncWrite DEF PullWrite
<1>3. ASSUME NEW i \in Ids, PullWriteFails(i) PROVE [Sync!Next]_(Sync!vars)
  <2>1. FileStem(listing.objs, i) \in Stems
    BY <1>3, StemType DEF PullWriteFails, ShapeInv, TypeOK
  <2> QED BY <1>3, <2>1, SyncExit DEF PullWriteFails
<1>4. CASE PullState
  BY <1>4, SyncStutter DEF PullState, Mode
<1>5. CASE PullStateFails \/ PullDone
  BY <1>5, SyncExit DEF PullStateFails, PullDone
<1>6. ASSUME NEW f \in Stems, PruneFile(f) PROVE Sync!Next
  BY <1>1, <1>6, SyncWrite DEF PruneFile
<1>7. ASSUME NEW f \in Stems, PruneFileFails(f) PROVE [Sync!Next]_(Sync!vars)
  BY <1>1, <1>7, SyncStutter DEF PruneFileFails
<1> QED BY <1>2, <1>3, <1>4, <1>5, <1>6, <1>7 DEF PullStep

LEMMA PlanSync ==
  ASSUME ShapeInv, PushPlan
  PROVE  Sync!Next
<1>1. Mode = "read" /\ UNCHANGED <<live, files, edits>>
  BY DEF PushPlan, Mode, disk, counters
<1>2. pc' = "apply" /\ opts' = opts /\ opts.assumeYes /\ ~opts.dryRun
  BY DEF PushPlan, PushEnds
<1>3. Mode' \in {"apply", "prune"}
  BY <1>2 DEF Mode
<1> QED BY <1>1, <1>3 DEF Sync!Next, Sync!Confirm

\* While the plan is worked through, the mode is what the operator asked for.
LEMMA ModeOfApply ==
  ASSUME ConfirmInv, pc \in {"apply", "refresh"}
  PROVE  Mode = IF opts.prune THEN "prune" ELSE "apply"
BY DEF ConfirmInv, Mode

\* A mutation: what the item asks for, done to one object of the instance.
LEMMA SyncMutate ==
  ASSUME ShapeInv, ConfirmInv, PruneInv, NEW it \in todo, pc = "apply",
         UNCHANGED <<files, edits>>, Mode' = Mode,
         \/ /\ it.action = "create"
            /\ \E i \in Ids : live[i] = Unborn /\ live' = [live EXCEPT ![i] = it.body]
         \/ /\ it.action = "update" /\ live[it.id] \in Contents
            /\ live' = [live EXCEPT ![it.id] = Overlay[<<listing.objs[it.id], it.body>>]]
         \/ /\ it.action = "delete" /\ live[it.id] \in Contents
            /\ live' = [live EXCEPT ![it.id] = Gone]
  PROVE  Sync!Next
<1>1. it.body \in Contents /\ Mode # "read"
  BY ModeOfApply DEF ShapeInv, TypeOK, Item
<1>2. CASE it.action = "create"
  BY <1>1, <1>2 DEF Sync!Next, Sync!MakeObject
<1>3. CASE it.action = "update"
  <2>1. it.id \in Ids /\ Overlay[<<listing.objs[it.id], it.body>>] \in Contents
    BY <1>1, <1>3, ItemShape, ConstantsAssumption
  <2> QED BY <1>1, <1>3, <2>1 DEF Sync!Next, Sync!ChangeObject
<1>4. CASE it.action = "delete"
  <2>1. it.id \in Ids /\ it.id \in ToDelete
    BY <1>4, ItemShape DEF ToDelete
  <2>2. Mode = "prune"
    BY <2>1, ModeOfApply DEF ConfirmInv
  <2>3. \A f \in Stems : ~Sync!TracksId(f, it.id)
    BY <2>1 DEF PruneInv, NeverPrunesTracked, Tracked, IsObject, Sync!TracksId
  <2> QED BY <1>4, <2>1, <2>2, <2>3 DEF Sync!Next, Sync!DestroyObject
<1> QED BY <1>2, <1>3, <1>4

LEMMA ApplySync ==
  ASSUME ShapeInv, ConfirmInv, ConfirmInv', PruneInv, NEW it \in todo,
         \/ SkipItem(it)
         \/ ApplyCreate(it) \/ ApplyUpdate(it) \/ ApplyDelete(it)
         \/ ApplyFails(it) \/ ApplyLost(it)
  PROVE  [Sync!Next]_(Sync!vars)
<1>1. /\ UNCHANGED <<files, edits, opts>>
      /\ pc = "apply" /\ pc' \in {"apply", "refresh"}
  BY DEF SkipItem, ApplyCreate, ApplyUpdate, ApplyDelete, ApplyFails, ApplyLost,
     Turn, Reported, Echoed, Unechoed, Fail, disk, counters
<1>2. Mode' = Mode
  BY <1>1 DEF Mode, ConfirmInv
<1>3. CASE SkipItem(it) \/ ApplyFails(it)
  BY <1>1, <1>2, <1>3, SyncStutter DEF SkipItem, ApplyFails, disk
<1>4. CASE ApplyCreate(it)
  BY <1>1, <1>2, <1>4, SyncMutate DEF ApplyCreate, Turn
<1>5. CASE ApplyUpdate(it)
  BY <1>1, <1>2, <1>5, SyncMutate DEF ApplyUpdate, Turn
<1>6. CASE ApplyDelete(it)
  BY <1>1, <1>2, <1>6, SyncMutate DEF ApplyDelete, Turn
<1>7. CASE ApplyLost(it)
  BY <1>1, <1>2, <1>7, SyncMutate DEF ApplyLost
<1> QED BY <1>3, <1>4, <1>5, <1>6, <1>7

LEMMA RefreshSync ==
  ASSUME ShapeInv, ConfirmInv, Refresh \/ RefreshFails
  PROVE  [Sync!Next]_(Sync!vars)
<1>1. /\ UNCHANGED <<live, edits, opts>> /\ pc = "refresh" /\ pc' = "apply"
      /\ echo \in Echo
  BY DEF Refresh, RefreshFails, counters, ShapeInv, TypeOK
<1>2. Mode' = Mode
  BY <1>1 DEF Mode
<1>3. RefreshStem(echo) \in Stems /\ [id |-> echo.id, body |-> echo.body] \in Object
  BY <1>1 DEF Echo, RefreshStem, Object
<1>4. CASE Refresh
  BY <1>1, <1>2, <1>3, <1>4, SyncWrite DEF Refresh
<1>5. CASE RefreshFails
  BY <1>1, <1>2, <1>3, <1>5, SyncFailedWrite DEF RefreshFails
<1> QED BY <1>4, <1>5

LEMMA CrashSync ==
  ASSUME ShapeInv, Crash
  PROVE  [Sync!Next]_(Sync!vars)
<1>1. Exit /\ UNCHANGED <<live, edits>>
  BY DEF Crash, counters
<1>2. CASE files' = files
  BY <1>1, <1>2, SyncExit
<1>3. CASE pc = "refresh" /\ files' \in FailedWrite(RefreshStem(echo))
  <2>1. RefreshStem(echo) \in Stems
    BY <1>3 DEF ShapeInv, TypeOK, Echo, RefreshStem
  <2> QED BY <1>1, <1>3, <2>1, SyncExit
<1>4. ASSUME NEW i \in work, pc = "pullWrite",
             files' = [files EXCEPT ![FileStem(listing.objs, i)] = Torn]
      PROVE  [Sync!Next]_(Sync!vars)
  <2>1. FileStem(listing.objs, i) \in Stems
    BY <1>4, StemType DEF ShapeInv, TypeOK
  <2> QED BY <1>1, <1>4, <2>1, SyncExit DEF FailedWrite
<1> QED BY <1>2, <1>3, <1>4 DEF Crash

LEMMA EnvironmentSync ==
  ASSUME ShapeInv, Environment
  PROVE  Sync!Next
<1>1. edits' = edits + 1 /\ UNCHANGED <<pc, opts>>
  BY DEF Environment, UiChange, EditFile, Outside
<1>2. Mode' = Mode
  BY <1>1 DEF Mode
<1>3. ASSUME NEW i \in Ids, UiChange(i) PROVE Sync!Next
  <2>1. PICK to \in Contents \cup {Gone} : live' = [live EXCEPT ![i] = to]
    BY <1>3 DEF UiChange
  <2> QED BY <1>1, <1>2, <1>3, <2>1 DEF UiChange, Sync!Next, Sync!Others
<1>4. ASSUME NEW f \in Stems, EditFile(f) PROVE Sync!Next
  <2>1. \E entry \in Object \cup {NoFile, Torn} : files' = [files EXCEPT ![f] = entry]
    <3>1. IsObject(files[f]) => files[f] \in Object
      BY DEF ShapeInv, TypeOK, IsObject
    <3> QED BY <1>4, <3>1 DEF EditFile, Object
  <2> QED BY <1>1, <1>2, <1>4, <2>1 DEF EditFile, Sync!Next, Sync!Others, Sync!Entries, Object
<1> QED BY <1>3, <1>4 DEF Environment

\* Whatever a command does in detail, and whatever fails or interferes: outside an apply that
\* the operator confirmed nothing live changes, without --prune nothing is destroyed, and
\* with it only what no file tracks at that moment. The engine implements GuardedSync.
THEOREM PromiseKept == Spec => KeepsPromise
<1>1. Init => Sync!Init
  BY DEF Init, Sync!Init, NoFiles, Mode
<1>2. ASSUME ShapeInv, PruneInv, ConfirmInv, ConfirmInv', [Next]_vars
      PROVE  [Sync!Next]_(Sync!vars)
  <2>1. CASE UNCHANGED vars
    BY <2>1, SyncStutter DEF vars, disk, counters, Mode
  <2>2. CASE PushStep
    <3>1. CASE PushListFails \/ PushPlanEnds \/ PushDone
      BY <3>1, SyncExit DEF PushListFails, PushPlanEnds, PushDone, disk, counters
    <3> QED BY <1>2, <2>2, <3>1, PlanSync, ApplySync, RefreshSync DEF PushStep
  <2> QED BY <1>2, <2>1, <2>2, StartSync, PullStepSync, CrashSync, EnvironmentSync DEF Next
<1> QED BY <1>1, <1>2, ShapeAlways, PruneAlways, ConfirmAlways, PTL DEF Spec, KeepsPromise, Sync!Spec

-----------------------------------------------------------------------------
(* What an undisturbed pull leaves *)

LEMMA StemsApart ==
  ASSUME SuffixesApart, NEW l \in Listing,
         NEW i \in Listed(l.objs), NEW j \in Listed(l.objs),
         FileStem(l.objs, i) = FileStem(l.objs, j)
  PROVE  i = j
<1> DEFINE Namesakes(k) == {n \in Listed(l.objs) : SlugOf[l.objs[n]] = SlugOf[l.objs[k]]}
<1>1. /\ i \in Ids /\ l.objs[i] \in Contents
      /\ j \in Ids /\ l.objs[j] \in Contents
  BY StemType
<1>2. \A k \in Ids : FileStem(l.objs, k) =
        IF Namesakes(k) = {k} THEN SlugOf[l.objs[k]] ELSE Suffixed[<<SlugOf[l.objs[k]], k>>]
  BY DEF FileStem
<1> HIDE DEF Namesakes
<1>3. CASE Namesakes(i) = {i} /\ Namesakes(j) = {j}
  <2>1. SlugOf[l.objs[i]] = SlugOf[l.objs[j]]
    BY <1>1, <1>2, <1>3
  <2>2. j \in Namesakes(i)
    BY <2>1 DEF Namesakes
  <2> QED BY <1>3, <2>2
<1>4. CASE Namesakes(i) = {i} /\ Namesakes(j) # {j}
  <2>1. SlugOf[l.objs[i]] = Suffixed[<<SlugOf[l.objs[j]], j>>]
    BY <1>1, <1>2, <1>4
  <2> QED BY <1>1, <2>1 DEF SuffixesApart
<1>5. CASE Namesakes(i) # {i} /\ Namesakes(j) = {j}
  <2>1. SlugOf[l.objs[j]] = Suffixed[<<SlugOf[l.objs[i]], i>>]
    BY <1>1, <1>2, <1>5
  <2> QED BY <1>1, <2>1 DEF SuffixesApart
<1>6. CASE Namesakes(i) # {i} /\ Namesakes(j) # {j}
  <2>1. Suffixed[<<SlugOf[l.objs[i]], i>>] = Suffixed[<<SlugOf[l.objs[j]], j>>]
    BY <1>1, <1>2, <1>6
  <2> QED BY <1>1, <2>1 DEF SuffixesApart
<1> QED BY <1>3, <1>4, <1>5, <1>6

LEMMA ExitMirror == ASSUME Exit PROVE MirrorInv'
BY DEF Exit, MirrorInv

LEMMA StartMirror ==
  ASSUME ShapeInv, MirrorInv, Start
  PROVE  MirrorInv'
<1> USE DEF StartCommand, pullVars, disk
<1>1. pc = "idle" /\ written = {} /\ written' = {}
  BY DEF Start, PullList, PushLoad, ListFails, PushLoadFails, MirrorInv
<1>2. ASSUME NEW prune \in BOOLEAN, PullList(prune) PROVE MirrorInv'
  <2>1. PICK l \in Listings : listing' = l /\ work' = Listed(l.objs)
    BY <1>2 DEF PullList
  <2>2. PICK skipped \in SUBSET Existing : l = ListOf(skipped)
    BY DEF Listings
  <2>3. l.skipped = skipped
    BY <2>2 DEF ListOf
  <2>4. listing' = ListOf(listing.skipped)'
    BY <1>2, <2>1, <2>2, <2>3 DEF PullList, ListOf, Existing
  <2>5. Listed(listing.objs)' \ work' = {}
    BY <2>1 DEF Listed
  <2> QED BY <1>1, <1>2, <2>4, <2>5 DEF PullList, MirrorInv
<1>3. CASE (\E o \in Options : PushLoad(o)) \/ ListFails \/ PushLoadFails
  <2>1. pc' \in {"idle", "pushList"}
    BY <1>1, <1>3 DEF PushLoad, ListFails, PushLoadFails
  <2> QED BY <1>1, <2>1 DEF MirrorInv
<1> QED BY <1>2, <1>3 DEF Start

LEMMA PullWriteMirror ==
  ASSUME SuffixesApart, ShapeInv, MirrorInv, NEW i \in Ids, PullWrite(i)
  PROVE  MirrorInv'
<1> DEFINE OwnFile(j) == FileStem(listing.objs, j)
           done == Listed(listing.objs) \ work
<1>1. /\ pc = "pullWrite" /\ i \in work /\ work \subseteq Listed(listing.objs)
      /\ UNCHANGED <<live, pc, listing, undisturbed>>
      /\ files' = [files EXCEPT ![OwnFile(i)] = [id |-> i, body |-> listing.objs[i]]]
      /\ written' = written \cup {OwnFile(i)} /\ work' = work \ {i}
      /\ listing \in Listing /\ files \in [Stems -> Object \cup {NoFile, Torn}]
  BY DEF PullWrite, ShapeInv, TypeOK
<1>2. \A j \in Listed(listing.objs) : OwnFile(j) \in Stems /\ (OwnFile(j) = OwnFile(i) => j = i)
  BY <1>1, StemType, StemsApart
<1>3. listing' = ListOf(listing.skipped)' <=> listing = ListOf(listing.skipped)
  BY <1>1 DEF ListOf, Existing
<1>4. Listed(listing.objs)' \ work' = done \cup {i} /\ \A j \in Ids : OwnFile(j)' = OwnFile(j)
  BY <1>1 DEF Listed, FileStem
<1> HIDE DEF OwnFile
<1>5. SUFFICES ASSUME undisturbed
               PROVE  /\ listing' = ListOf(listing.skipped)'
                      /\ \A j \in done \cup {i} : files'[OwnFile(j)] = [id |-> j, body |-> listing.objs[j]]
                      /\ written' = {OwnFile(j) : j \in done \cup {i}}
  <2>1. done \cup {i} \subseteq Ids
    BY DEF Listed
  <2> QED BY <1>1, <1>4, <2>1 DEF MirrorInv, OwnFile
<1>6. /\ listing = ListOf(listing.skipped)
      /\ \A j \in done : files[OwnFile(j)] = [id |-> j, body |-> listing.objs[j]]
      /\ written = {OwnFile(j) : j \in done}
  BY <1>1, <1>5 DEF MirrorInv, OwnFile
<1> QED BY <1>1, <1>2, <1>3, <1>6

LEMMA PullStepMirror ==
  ASSUME SuffixesApart, ShapeInv, MirrorInv, PullStep
  PROVE  MirrorInv'
<1> USE DEF counters, disk
<1>1. CASE PullState
  <2>1. /\ pc = "pullWrite" /\ pc' = "pullPrune" /\ work = {}
        /\ UNCHANGED <<live, files, listing, work, written, undisturbed, opts>>
        /\ stale' = IF opts.prune /\ ~Incomplete(listing)
                      THEN {f \in Stems : files[f] # NoFile} \ written ELSE {}
    BY <1>1 DEF PullState
  <2>2. ListOf(listing.skipped)' = ListOf(listing.skipped)
    BY <2>1 DEF ListOf, Existing
  <2> QED BY <2>1, <2>2 DEF MirrorInv, Incomplete, Listed, FileStem
<1>2. ASSUME NEW f \in Stems, PruneFile(f) PROVE MirrorInv'
  <2>1. /\ pc = "pullPrune" /\ f \in stale /\ stale' = stale \ {f}
        /\ files' = [files EXCEPT ![f] = NoFile]
        /\ files \in [Stems -> Object \cup {NoFile, Torn}] /\ listing \in Listing
        /\ UNCHANGED <<live, pc, opts, listing, work, written, undisturbed>>
    BY <1>2 DEF PruneFile, ShapeInv, TypeOK
  <2>2. ListOf(listing.skipped)' = ListOf(listing.skipped)
    BY <2>1 DEF ListOf, Existing
  <2>3. \A j \in Listed(listing.objs) : FileStem(listing.objs, j) \in Stems
    BY <2>1, StemType
  <2>4. undisturbed => \A j \in Listed(listing.objs) \ work : FileStem(listing.objs, j) # f
    BY <2>1 DEF MirrorInv
  <2>5. \A g \in Stems : files'[g] = IF g = f THEN NoFile ELSE files[g]
    BY <2>1
  <2>6. /\ Listed(listing.objs)' = Listed(listing.objs) /\ Incomplete(listing)' = Incomplete(listing)
        /\ \A j \in Ids : FileStem(listing.objs, j)' = FileStem(listing.objs, j)
    BY <2>1 DEF Listed, Incomplete, FileStem
  <2>7. ASSUME undisturbed
        PROVE  /\ listing = ListOf(listing.skipped)
               /\ \A j \in Listed(listing.objs) \ work :
                    files'[FileStem(listing.objs, j)] = [id |-> j, body |-> listing.objs[j]]
               /\ stale' \cap written = {}
               /\ opts.prune /\ ~Incomplete(listing) =>
                    \A g \in Stems : files'[g] # NoFile => g \in stale' \cup written
    BY <2>1, <2>3, <2>4, <2>5, <2>7 DEF MirrorInv
  <2>8. Listed(listing.objs) \subseteq Ids
    BY DEF Listed
  <2>9. undisturbed => work = {} /\ written = {FileStem(listing.objs, j) : j \in Listed(listing.objs) \ work}
    BY <2>1 DEF MirrorInv
  <2> QED BY <2>1, <2>2, <2>6, <2>7, <2>8, <2>9 DEF MirrorInv
<1>3. ASSUME NEW f \in Stems, PruneFileFails(f) PROVE MirrorInv'
  BY <1>3 DEF PruneFileFails, MirrorInv
<1>4. CASE (\E i \in Ids : PullWriteFails(i)) \/ PullStateFails \/ PullDone
  BY <1>4, ExitMirror DEF PullWriteFails, PullStateFails, PullDone
<1>5. ASSUME NEW i \in Ids, PullWrite(i) PROVE MirrorInv'
  BY <1>5, PullWriteMirror
<1> QED BY <1>1, <1>2, <1>3, <1>4, <1>5 DEF PullStep

LEMMA MirrorAlways ==
  ASSUME SuffixesApart
  PROVE  Spec => []MirrorInv
<1>1. Init => MirrorInv
  BY DEF Init, MirrorInv
<1>2. ASSUME ShapeInv, MirrorInv, [Next]_vars PROVE MirrorInv'
  <2>1. CASE UNCHANGED vars
    <3>1. /\ UNCHANGED <<pc, live, files, opts, listing, work, written, stale, undisturbed>>
          /\ ListOf(listing.skipped)' = ListOf(listing.skipped)
      BY <2>1 DEF vars, disk, pullVars, history, ListOf, Existing
    <3>2. /\ Listed(listing.objs)' = Listed(listing.objs) /\ Incomplete(listing)' = Incomplete(listing)
          /\ \A j : FileStem(listing.objs, j)' = FileStem(listing.objs, j)
      BY <3>1 DEF Listed, Incomplete, FileStem
    <3> QED BY <1>2, <3>1, <3>2 DEF MirrorInv
  <2>2. CASE PushStep
    <3>1. Exit \/ pc' \notin {"idle", "pullWrite", "pullPrune"}
      BY <1>2, <2>2 DEF PushStep, PushListFails, PushPlanEnds, PushDone, PushPlan, SkipItem,
         ApplyCreate, ApplyUpdate, ApplyDelete, ApplyFails, ApplyLost, Turn, Reported, Echoed,
         Unechoed, Fail, Refresh, RefreshFails
    <3> QED BY <3>1, ExitMirror DEF MirrorInv
  <2>3. CASE Crash
    BY <2>3, ExitMirror DEF Crash
  <2>4. CASE Environment
    <3>1. UNCHANGED <<pc, written>> /\ ~undisturbed'
      BY <2>4 DEF Environment, UiChange, EditFile, Outside, pullVars
    <3> QED BY <1>2, <3>1 DEF MirrorInv
  <2> QED BY <1>2, <2>1, <2>2, <2>3, <2>4, StartMirror, PullStepMirror DEF Next
<1> QED BY <1>1, <1>2, ShapeAlways, PTL DEF Spec

\* A pull that lists everything and that nobody disturbs leaves each live object in a file of
\* its own, so that a push has nothing to prune; with --prune it leaves nothing else, and the
\* plan is empty. For this no suffixed name may be the name of a third object.
THEOREM RoundTrip ==
  ASSUME SuffixesApart
  PROVE  Spec => []RoundTripClean
<1>1. ASSUME ShapeInv, MirrorInv PROVE RoundTripClean
  <2> SUFFICES ASSUME pc = "pullPrune", stale = {}, undisturbed, ~Incomplete(listing)
               PROVE  /\ Deletes(files, ListOf({}).objs) = {}
                      /\ opts.prune => Changes(files, ListOf({}).objs) = {}
    BY DEF RoundTripClean
  <2>1. listing.objs = ListOf({}).objs /\ listing \in Listing
    BY <1>1 DEF MirrorInv, Incomplete, ShapeInv, TypeOK
  <2>2. ASSUME NEW i \in Listed(listing.objs)
        PROVE  /\ FileStem(listing.objs, i) \in Stems
               /\ files[FileStem(listing.objs, i)] = [id |-> i, body |-> listing.objs[i]]
               /\ IsObject(files[FileStem(listing.objs, i)])
    <3>1. /\ i \in Ids /\ listing.objs[i] \in Contents /\ FileStem(listing.objs, i) \in Stems
          /\ files[FileStem(listing.objs, i)] = [id |-> i, body |-> listing.objs[i]]
      BY <1>1, <2>1, <2>2, StemType DEF MirrorInv
    <3>2. [id |-> i, body |-> listing.objs[i]] \in [id : Ids \cup {NoId}, body : Contents]
      BY <3>1
    <3> QED BY <3>1, <3>2, SpecialsAssumption DEF IsObject
  <2>3. ASSUME NEW i \in Listed(listing.objs) PROVE i \in Tracked(files)
    <3>1. PICK f \in Stems : IsObject(files[f]) /\ files[f] = [id |-> i, body |-> listing.objs[i]]
      BY <2>2, <2>3
    <3>2. files[f].id = i
      BY <3>1
    <3> QED BY <3>1, <3>2 DEF Tracked
  <2>4. Deletes(files, listing.objs) = {}
    BY <2>3 DEF Deletes
  <2>5. ASSUME opts.prune, NEW f \in Stems, IsObject(files[f])
        PROVE  files[f].id \in Listed(listing.objs) /\ files[f].body = listing.objs[files[f].id]
    <3>1. work = {} /\ f \in written
      BY <1>1, <2>5 DEF MirrorInv, IsObject
    <3>2. PICK i \in Listed(listing.objs) : f = FileStem(listing.objs, i)
      BY <1>1, <3>1 DEF MirrorInv
    <3>3. files[f] = [id |-> i, body |-> listing.objs[i]]
      BY <2>2, <3>2
    <3> QED BY <3>3
  <2>6. opts.prune => Creates(files, listing.objs) = {} /\ Updates(files, listing.objs) = {}
    BY <2>5 DEF Creates, Updates
  <2> QED BY <2>1, <2>4, <2>6 DEF Changes
<1> QED BY <1>1, ShapeAlways, MirrorAlways, PTL

-----------------------------------------------------------------------------
(* What a push that nothing went wrong with leaves *)

LEMMA ExitSettle == ASSUME Exit PROVE SettleInv'
BY DEF Exit, SettleInv

\* A step after which the push is no longer one that nothing went wrong with.
LEMMA SpoiltSettle ==
  ASSUME undisturbed' = FALSE \/ (sum'.failed # 0 /\ pc' # "pushList")
  PROVE  SettleInv'
BY DEF SettleInv

\* The push is one that nothing went wrong with, before and after the step.
Sound ==
  /\ undisturbed /\ sum.failed = 0 /\ {"create", "update"} \subseteq Ops
  /\ pc \in {"apply", "refresh"}

LEMMA SettleNow ==
  ASSUME SettleInv, Sound
  PROVE  /\ ItemsFiled /\ EchoFiled
         /\ \A f \in Settled : InStep(f)
         /\ Prunable(opts.prune, Incomplete(listing)) => \A i \in Existing \ ToDelete : Filed(i)
BY DEF SettleInv, Sound

LEMMA PlanSettle ==
  ASSUME ShapeInv, SettleInv, PushPlan
  PROVE  SettleInv'
<1>1. PICK l \in Listings :
        /\ listing' = l
        /\ todo' = Planned(locals, l.objs, Prunable(opts.prune, Incomplete(l)))
  BY DEF PushPlan
<1>2. PICK skipped \in SUBSET Existing : l = ListOf(skipped)
  BY DEF Listings
<1>3. /\ l.skipped = skipped
      /\ \A i \in Listed(l.objs) : i \in Ids /\ i \in Existing /\ l.objs[i] = live[i]
      /\ \A i \in Existing \ skipped : i \in Listed(l.objs)
  BY <1>2, SpecialsAssumption DEF ListOf, Listed, Existing
<1>4. /\ pc = "pushList" /\ echo' = NoEcho /\ pc' = "apply"
      /\ UNCHANGED <<live, files, pullState, opts, sum, undisturbed>>
  BY DEF PushPlan, disk, history, ShapeInv
<1>5. SUFFICES ASSUME undisturbed
               PROVE  /\ ItemsFiled' /\ EchoFiled'
                      /\ \A f \in Settled' : InStep(f)'
                      /\ Prunable(opts.prune, Incomplete(l)) =>
                           \A i \in Existing \ ToDelete' : Filed(i)'
  BY <1>1, <1>4 DEF SettleInv, Prunable, Existing
<1>6. todo' = Planned(files, l.objs, Prunable(opts.prune, Incomplete(l)))
  BY <1>1, <1>4, <1>5 DEF SettleInv
<1>7. Creates(files, l.objs) \cup Updates(files, l.objs) \subseteq todo'
  BY <1>6 DEF Planned
<1>8. ItemsFiled'
  <2>1. \A it \in todo' : it.action # "delete" =>
          it \in Creates(files, l.objs) \cup Updates(files, l.objs)
    BY <1>6 DEF Planned, Deletes
  <2>2. \A it \in Creates(files, l.objs) :
          it.action = "create" /\ IsObject(files[it.slug]) /\ files[it.slug].id = it.id
            /\ it.id \notin Listed(l.objs)
    BY DEF Creates
  <2>3. \A it \in Updates(files, l.objs) :
          it.action = "update" /\ IsObject(files[it.slug]) /\ files[it.slug].id = it.id
            /\ it.id \in Listed(l.objs)
    BY DEF Updates
  <2> QED BY <1>1, <1>4, <2>1, <2>2, <2>3 DEF ItemsFiled
<1>9. ASSUME NEW f \in Stems, IsObject(files[f]), \A it \in todo' : it.action # "delete" => it.slug # f
      PROVE  files[f].id \in Listed(l.objs) /\ files[f].body = l.objs[files[f].id]
  <2>1. files[f].id \in Listed(l.objs)
    <3>1. SUFFICES ASSUME files[f].id \notin Listed(l.objs) PROVE FALSE
      OBVIOUS
    <3>2. [action |-> "create", slug |-> f, id |-> files[f].id, body |-> files[f].body]
            \in Creates(files, l.objs)
      BY <1>9, <3>1 DEF Creates
    <3> QED BY <1>7, <1>9, <3>2
  <2>2. files[f].body = l.objs[files[f].id]
    <3>1. SUFFICES ASSUME files[f].body # l.objs[files[f].id] PROVE FALSE
      OBVIOUS
    <3>2. [action |-> "update", slug |-> f, id |-> files[f].id, body |-> files[f].body]
            \in Updates(files, l.objs)
      BY <1>9, <2>1, <3>1 DEF Updates
    <3> QED BY <1>7, <1>9, <3>2
  <2> QED BY <2>1, <2>2
<1>10. \A f \in Settled' : InStep(f)'
  <2>1. \A f \in Settled' : f \in Stems /\ IsObject(files[f])
                             /\ \A it \in todo' : it.action # "delete" => it.slug # f
    BY <1>4 DEF Settled
  <2> QED BY <1>3, <1>4, <1>9, <2>1 DEF InStep
<1>11. ASSUME Prunable(opts.prune, Incomplete(l)), NEW i \in Existing, i \notin ToDelete'
       PROVE  Filed(i)'
  <2>1. i \in Listed(l.objs)
    BY <1>3, <1>11 DEF Prunable, Incomplete
  <2>2. i \in Tracked(files)
    <3>1. SUFFICES ASSUME i \notin Tracked(files) PROVE FALSE
      OBVIOUS
    <3>2. [action |-> "delete", slug |-> SlugOf[l.objs[i]], id |-> i, body |-> l.objs[i]] \in todo'
      BY <1>6, <1>11, <2>1, <3>1 DEF Planned, Deletes
    <3> QED BY <1>11, <3>2 DEF ToDelete
  <2>3. PICK f \in Stems : IsObject(files[f]) /\ files[f].id = i
    BY <2>2 DEF Tracked
  <2>4. CASE f \in Settled'
    BY <1>4, <2>3, <2>4 DEF Filed
  <2>5. CASE f \notin Settled'
    <3>1. PICK it \in todo' : it.action # "delete" /\ it.slug = f
      BY <1>4, <2>3, <2>5 DEF Settled
    <3>2. it.id = i /\ it.action = "update"
      BY <1>1, <1>4, <1>8, <2>1, <2>3, <3>1 DEF ItemsFiled
    <3> QED BY <3>2 DEF Filed
  <2> QED BY <2>4, <2>5
<1> QED BY <1>4, <1>8, <1>10, <1>11 DEF EchoFiled

\* An item leaves the plan for its echo: its file is not settled before the refresh.
LEMMA EchoedSettled ==
  ASSUME NEW it \in todo, it.action # "delete", echo = NoEcho,
         todo' = todo \ {it}, echo'.slug = it.slug, echo' # NoEcho, files' = files
  PROVE  /\ Settled' \subseteq Settled
         /\ \A f \in Settled : f \in Settled'
         /\ it.slug \notin Settled
BY DEF Settled

\* An echo that names its object disturbs nothing.
LEMMA NamedQuiet ==
  ASSUME ShapeInv, NEW it \in todo,
         \/ SkipItem(it)
         \/ CreateNamed(it) \/ UpdateNamed(it) \/ ApplyDelete(it)
         \/ ApplyFails(it) \/ ApplyLost(it)
  PROVE  undisturbed' = undisturbed
<1>1. CASE CreateNamed(it)
  <2>1. PICK i \in Ids : Echoed(it, i, it.body)
    BY <1>1 DEF CreateNamed
  <2> QED BY <2>1, SpecialsAssumption DEF Echoed, ShapeInv, TypeOK
<1>2. CASE UpdateNamed(it)
  <2> DEFINE sent == Overlay[<<listing.objs[it.id], it.body>>]
  <2>1. Echoed(it, it.id, sent) /\ it.id \in Ids
    BY <1>2, ItemShape DEF UpdateNamed, Turn
  <2> QED BY <2>1, SpecialsAssumption DEF Echoed, ShapeInv, TypeOK
<1>3. CASE SkipItem(it) \/ ApplyDelete(it) \/ ApplyFails(it) \/ ApplyLost(it)
  BY <1>3 DEF SkipItem, ApplyDelete, ApplyFails, ApplyLost, Fail, history
<1> QED BY <1>1, <1>2, <1>3

LEMMA ApplySettle ==
  ASSUME ShapeInv, PruneInv, TieInv, SettleInv, NEW it \in todo,
         \/ SkipItem(it)
         \/ CreateNamed(it) \/ UpdateNamed(it) \/ ApplyDelete(it)
         \/ ApplyFails(it) \/ ApplyLost(it)
  PROVE  SettleInv'
<1> USE DEF counters, disk, pullVars, pushVars, history
<1>0. /\ pc = "apply" /\ echo = NoEcho /\ it \in Item /\ it.body \in Contents
      /\ live \in [Ids -> Contents \cup {Unborn, Gone}] /\ sum \in Summary
      /\ files \in [Stems -> Object \cup {NoFile, Torn}] /\ todo \subseteq Item
      /\ \A f \in Settled : f \in Stems /\ IsObject(files[f]) /\ files[f].body \in Contents
      /\ UNCHANGED <<files, pullState, opts, listing, undisturbed>>
      /\ Prunable(opts.prune, Incomplete(listing))' = Prunable(opts.prune, Incomplete(listing))
  <2>1. /\ pc = "apply" /\ it \in Item
        /\ UNCHANGED <<files, pullState, opts, listing>>
    BY DEF SkipItem, CreateNamed, UpdateNamed, ApplyDelete, ApplyFails, ApplyLost, Turn, Echoed, Fail,
       ShapeInv, TypeOK
  <2>4. undisturbed' = undisturbed
    BY NamedQuiet
  <2>2. files \in [Stems -> Object \cup {NoFile, Torn}] /\ sum \in Summary
    BY DEF ShapeInv, TypeOK
  <2>3. \A f \in Settled : f \in Stems /\ IsObject(files[f]) /\ files[f].body \in Contents
    BY <2>2 DEF Settled, IsObject, Object
  <2> QED BY <2>1, <2>2, <2>3, <2>4 DEF ShapeInv, TypeOK, Item, Prunable, Incomplete
<1>1. CASE ApplyFails(it) \/ ApplyLost(it)
  <2>1. sum' = [sum EXCEPT !.failed = @ + 1] /\ pc' = "apply"
    BY <1>0, <1>1 DEF ApplyFails, ApplyLost, Fail
  <2>2. sum'.failed # 0
    BY <1>0, <2>1 DEF Summary
  <2> QED BY <2>1, <2>2, SpoiltSettle
<1>2. pc' \in {"apply", "refresh"}
  BY <1>0 DEF SkipItem, CreateNamed, UpdateNamed, ApplyDelete, ApplyFails, ApplyLost, Turn, Echoed, Fail
<1>3. SUFFICES ASSUME Sound, SkipItem(it) \/ CreateNamed(it) \/ UpdateNamed(it) \/ ApplyDelete(it)
               PROVE  /\ ItemsFiled' /\ EchoFiled'
                      /\ \A f \in Settled' : InStep(f)'
                      /\ Prunable(opts.prune, Incomplete(listing)) =>
                           \A i \in Existing' \ ToDelete' : Filed(i)'
  <2>1. SkipItem(it) \/ CreateNamed(it) \/ UpdateNamed(it) \/ ApplyDelete(it)
          => sum'.failed = sum.failed
    BY <1>0 DEF SkipItem, CreateNamed, UpdateNamed, ApplyDelete, Echoed, Summary
  <2> QED BY <1>0, <1>1, <1>2, <2>1 DEF SettleInv, Sound
<1>4. /\ ItemsFiled /\ EchoFiled
      /\ \A f \in Settled : InStep(f)
      /\ Prunable(opts.prune, Incomplete(listing)) => \A i \in Existing \ ToDelete : Filed(i)
  BY <1>3, SettleNow
<1>5. todo' = todo \ {it}
  BY <1>3 DEF SkipItem, CreateNamed, UpdateNamed, ApplyDelete, Echoed
<1>6. ItemsFiled'
  BY <1>0, <1>4, <1>5 DEF ItemsFiled
<1>7. CASE SkipItem(it)
  <2>1. it.action = "delete" /\ "delete" \notin Ops
    BY <1>0, <1>3, <1>7 DEF SkipItem, Sound, Item
  <2>2. Settled' = Settled /\ echo' = NoEcho /\ live' = live
    BY <1>0, <1>5, <1>7, <2>1 DEF SkipItem, Settled
  <2> QED BY <1>0, <1>4, <1>6, <2>1, <2>2 DEF Prunable, EchoFiled, InStep
<1>8. CASE CreateNamed(it)
  <2>1. PICK i \in Ids : MakeLive(it, i) /\ Echoed(it, i, it.body)
    BY <1>8 DEF CreateNamed
  <2>2. /\ live[i] = Unborn /\ live' = [live EXCEPT ![i] = it.body] /\ it.action = "create"
        /\ echo' = [action |-> it.action, slug |-> it.slug, id |-> i, body |-> it.body]
    BY <1>8, <2>1 DEF CreateNamed, Turn, MakeLive, Echoed
  <2>3. echo'.slug = it.slug /\ echo'.id = i /\ echo'.body = it.body /\ echo' # NoEcho
    <3>1. echo' \in Echo
      BY <1>0, <2>2 DEF Echo, Item
    <3> QED BY <2>2, <3>1, SpecialsAssumption DEF Echo
  <2>4. Settled' \subseteq Settled /\ \A f \in Settled : f \in Settled'
    BY <1>0, <1>5, <2>2, <2>3, EchoedSettled
  <2>5. \A j \in Ids \ {i} : live'[j] = live[j]
    BY <1>0, <2>2
  <2>6. EchoFiled'
    BY <1>0, <1>4, <2>2, <2>3 DEF EchoFiled, ItemsFiled
  <2>7. ASSUME NEW f \in Settled' PROVE InStep(f)'
    <3>1. InStep(f) /\ files[f].body \in Contents
      BY <1>0, <1>4, <2>4, <2>7
    <3>2. files[f].id \in Ids /\ live[files[f].id] = files[f].body => files[f].id # i
      BY <2>2, <3>1, SpecialsAssumption
    <3> QED BY <1>0, <2>5, <3>1, <3>2 DEF InStep
  <2>8. ASSUME Prunable(opts.prune, Incomplete(listing)), NEW j \in Existing', j \notin ToDelete'
        PROVE  Filed(j)'
    <3>1. CASE j = i
      BY <2>3, <3>1 DEF Filed
    <3>2. CASE j # i
      <4>1. j \in Existing /\ j \notin ToDelete
        BY <1>5, <2>2, <2>5, <2>8, <3>2 DEF Existing, ToDelete
      <4>2. Filed(j)
        BY <1>4, <2>8, <4>1
      <4> QED BY <1>0, <1>5, <2>2, <2>4, <4>2 DEF Filed
    <3> QED BY <3>1, <3>2
  <2> QED BY <1>6, <2>6, <2>7, <2>8
<1>9. CASE UpdateNamed(it)
  <2> DEFINE sent == Overlay[<<listing.objs[it.id], it.body>>]
  <2>1. it.id \in Ids /\ it.action = "update" /\ sent \in Contents /\ live[it.id] \in Contents
    BY <1>0, <1>9, ItemShape, ConstantsAssumption DEF UpdateNamed, Turn
  <2>2. /\ live' = [live EXCEPT ![it.id] = sent]
        /\ echo' = [action |-> it.action, slug |-> it.slug, id |-> it.id, body |-> sent]
    BY <1>9 DEF UpdateNamed, Echoed
  <2> HIDE DEF sent
  <2>3. echo'.slug = it.slug /\ echo'.id = it.id /\ echo'.body = sent /\ echo' # NoEcho
    <3>1. echo' \in Echo
      BY <1>0, <2>1, <2>2 DEF Echo, Item
    <3> QED BY <2>2, <3>1, SpecialsAssumption DEF Echo
  <2>4. Settled' \subseteq Settled /\ \A f \in Settled : f \in Settled'
    BY <1>0, <1>5, <2>1, <2>3, EchoedSettled
  <2>5. it.slug \notin Settled
    BY <2>1 DEF Settled
  <2>6. it.slug \in Stems /\ IsObject(files[it.slug]) /\ files[it.slug].id = it.id
          /\ it.id \in Listed(listing.objs)
    BY <1>0, <1>4, <2>1 DEF ItemsFiled, Item
  <2>7. EchoFiled'
    BY <1>0, <2>1, <2>2, <2>3, <2>6 DEF EchoFiled
  <2>8. ASSUME NEW f \in Settled' PROVE InStep(f)'
    <3>1. InStep(f) /\ f \in Stems /\ f # it.slug
      BY <1>0, <1>4, <2>4, <2>5, <2>8
    <3>2. CASE files[f].id = it.id
      BY <1>0, <2>6, <3>1, <3>2 DEF InStep
    <3>3. CASE files[f].id # it.id
      BY <1>0, <2>2, <3>1, <3>3 DEF InStep
    <3> QED BY <3>2, <3>3
  <2>9. ASSUME Prunable(opts.prune, Incomplete(listing)), NEW j \in Existing', j \notin ToDelete'
        PROVE  Filed(j)'
    <3>1. j \in Existing /\ j \notin ToDelete
      BY <1>0, <1>5, <2>1, <2>2, <2>9 DEF Existing, ToDelete
    <3>2. Filed(j)
      BY <1>4, <2>9, <3>1
    <3>3. CASE j = it.id
      BY <2>3, <3>3 DEF Filed
    <3>4. CASE j # it.id
      BY <1>0, <1>5, <2>4, <3>2, <3>4 DEF Filed
    <3> QED BY <3>3, <3>4
  <2> QED BY <1>6, <2>7, <2>8, <2>9
<1>10. CASE ApplyDelete(it)
  <2>1. it.id \in Ids /\ it.action = "delete" /\ it.id \in ToDelete
    BY <1>10, ItemShape DEF ApplyDelete, Turn, ToDelete
  <2>2. live' = [live EXCEPT ![it.id] = Gone] /\ echo' = NoEcho
    BY <1>0, <1>10 DEF ApplyDelete
  <2>3. Settled' = Settled
    BY <1>0, <1>5, <2>1, <2>2 DEF Settled
  <2>4. \A f \in Stems : IsObject(files[f]) => files[f].id # it.id
    BY <2>1 DEF PruneInv, NeverPrunesTracked, Tracked
  <2>5. ASSUME NEW f \in Settled' PROVE InStep(f)'
    BY <1>0, <1>4, <2>2, <2>3, <2>4, <2>5 DEF InStep
  <2>6. ASSUME Prunable(opts.prune, Incomplete(listing)), NEW j \in Existing', j \notin ToDelete'
        PROVE  Filed(j)'
    <3>1. j \in Existing /\ j \notin ToDelete
      BY <1>0, <1>5, <2>1, <2>2, <2>6, SpecialsAssumption DEF Existing, ToDelete
    <3>2. Filed(j)
      BY <1>4, <2>6, <3>1
    <3> QED BY <1>0, <1>5, <2>1, <2>3, <3>2 DEF Filed
  <2> QED BY <1>6, <2>2, <2>5, <2>6 DEF EchoFiled
<1> QED BY <1>3, <1>7, <1>8, <1>9, <1>10

LEMMA UnnamedSpoils ==
  ASSUME NEW it, Unnamed(it)
  PROVE  undisturbed' = FALSE /\ pc' \in {"apply", "refresh"}
BY DEF Unnamed, Echoed, Unechoed

LEMMA RefreshSettle ==
  ASSUME ShapeInv, TieInv, SettleInv, Refresh \/ RefreshFails
  PROVE  SettleInv'
<1> USE DEF counters, disk, pullVars, pushVars, history
<1>1. CASE RefreshFails
  BY <1>1, SpoiltSettle DEF RefreshFails
<1>2. CASE Refresh
  <2>1. /\ pc = "refresh" /\ pc' = "apply" /\ echo \in Echo /\ echo # NoEcho /\ echo' = NoEcho
        /\ UNCHANGED <<todo, live, listing, opts, pullState, undisturbed>>
        /\ files' = [files EXCEPT ![echo.slug] = [id |-> echo.id, body |-> echo.body]]
        /\ files \in [Stems -> Object \cup {NoFile, Torn}]
        /\ sum'.failed = sum.failed
    BY <1>2 DEF Refresh, RefreshStem, ShapeInv, TypeOK, Count, Summary
  <2>2. /\ echo.slug \in Stems /\ echo.body \in Contents
        /\ \A f \in Stems \ {echo.slug} : files'[f] = files[f]
        /\ files'[echo.slug].id = echo.id /\ files'[echo.slug].body = echo.body
        /\ IsObject(files'[echo.slug])
    <3>1. echo.slug \in Stems /\ echo.id \in Ids \cup {NoId} /\ echo.body \in Contents
      BY <2>1 DEF Echo
    <3>2. [id |-> echo.id, body |-> echo.body] \in [id : Ids \cup {NoId}, body : Contents]
      BY <3>1
    <3>3. files'[echo.slug] = [id |-> echo.id, body |-> echo.body]
      BY <2>1, <3>1
    <3> QED BY <2>1, <3>1, <3>2, <3>3, SpecialsAssumption DEF IsObject
  <2>3. SUFFICES ASSUME Sound
                 PROVE  /\ ItemsFiled'
                        /\ \A f \in Settled' : InStep(f)'
                        /\ Prunable(opts.prune, Incomplete(listing)) =>
                             \A i \in Existing \ ToDelete : Filed(i)'
    BY <2>1 DEF SettleInv, Sound, EchoFiled, Prunable, Incomplete, Existing, ToDelete
  <2>4. /\ ItemsFiled /\ EchoFiled
        /\ \A f \in Settled : InStep(f)
        /\ Prunable(opts.prune, Incomplete(listing)) => \A i \in Existing \ ToDelete : Filed(i)
    BY <2>3, SettleNow
  <2>5. \A it \in todo : it.action # "delete" => it.slug # echo.slug /\ it.slug \in Stems
    BY <2>1 DEF TieInv, ShapeInv, TypeOK, Item
  <2>6. ItemsFiled'
    BY <2>1, <2>2, <2>4, <2>5 DEF ItemsFiled
  <2>7. echo.slug \in Settled' /\ Settled \subseteq Settled' /\ echo.slug \notin Settled
          /\ Settled' \subseteq Settled \cup {echo.slug}
    BY <2>1, <2>2, <2>5 DEF Settled
  <2>8. ASSUME NEW f \in Settled' PROVE InStep(f)'
    <3>1. CASE f = echo.slug
      BY <2>1, <2>2, <2>4, <3>1 DEF InStep, EchoFiled
    <3>2. CASE f # echo.slug
      <4>1. InStep(f) /\ f \in Stems /\ files'[f] = files[f]
        BY <2>2, <2>4, <2>7, <2>8, <3>2 DEF Settled
      <4>2. CASE files[f].id \in Ids /\ live[files[f].id] = files[f].body
        BY <2>1, <4>1, <4>2 DEF InStep
      <4>3. ASSUME NEW g \in Stems \ {f}, IsObject(files[g]), files[g].id = files[f].id,
                   files[f].id \in Listed(listing.objs)
            PROVE  InStep(f)'
        <5>1. IsObject(files'[g]) /\ files'[g].id = files[f].id
          BY <2>1, <2>2, <2>4, <4>3 DEF EchoFiled
        <5> QED BY <2>1, <4>1, <4>3, <5>1 DEF InStep
      <4> QED BY <4>1, <4>2, <4>3 DEF InStep
    <3> QED BY <3>1, <3>2
  <2>9. ASSUME Prunable(opts.prune, Incomplete(listing)), NEW i \in Existing, i \notin ToDelete
        PROVE  Filed(i)'
    <3>1. Filed(i)
      BY <2>4, <2>9
    <3>2. \A f \in Settled : files'[f] = files[f]
      BY <2>2, <2>7 DEF Settled
    <3> QED BY <2>1, <2>2, <2>7, <3>1, <3>2 DEF Filed
  <2> QED BY <2>6, <2>8, <2>9
<1> QED BY <1>1, <1>2

LEMMA SettleAlways == Spec => []SettleInv
<1>1. Init => SettleInv
  BY DEF Init, SettleInv
<1>2. ASSUME ShapeInv, PruneInv, TieInv, SettleInv, [Next]_vars PROVE SettleInv'
  <2>1. CASE UNCHANGED vars
    <3>1. UNCHANGED <<live, files, pullState, pc, opts, listing, locals, todo, echo, sum, undisturbed>>
      BY <2>1 DEF vars, disk, pullVars, pushVars, history
    <3>2. /\ Settled' = Settled /\ Existing' = Existing /\ ToDelete' = ToDelete
          /\ ItemsFiled' <=> ItemsFiled
          /\ EchoFiled' <=> EchoFiled
          /\ \A f : InStep(f)' <=> InStep(f)
          /\ Prunable(opts.prune, Incomplete(listing))' <=> Prunable(opts.prune, Incomplete(listing))
      BY <3>1 DEF Settled, Existing, ToDelete, ItemsFiled, EchoFiled, InStep, Prunable, Incomplete
    <3>3. \A i : Filed(i)' <=> Filed(i)
      BY <3>1, <3>2 DEF Filed
    <3> QED BY <1>2, <3>1, <3>2, <3>3 DEF SettleInv
  <2>2. CASE Start
    <3>1. pc' \in {"idle", "pullWrite", "pushList"} /\ (pc' = "pushList" => locals' = files')
      BY <2>2 DEF Start, StartCommand, PullList, PushLoad, ListFails, PushLoadFails, disk
    <3> QED BY <3>1 DEF SettleInv
  <2>3. CASE PullStep
    <3>1. pc' \in {"idle", "pullWrite", "pullPrune"}
      BY <2>3 DEF PullStep, PullWrite, PullWriteFails, PullState, PullStateFails, PruneFile,
         PruneFileFails, PullDone, Exit
    <3> QED BY <3>1 DEF SettleInv
  <2>4. CASE PushListFails \/ PushPlanEnds \/ PushDone \/ Crash
    BY <2>4, ExitSettle DEF PushListFails, PushPlanEnds, PushDone, Crash
  <2>5. CASE Environment
    <3>1. undisturbed' = FALSE
      BY <2>5 DEF Environment, UiChange, EditFile, Outside
    <3> QED BY <3>1, SpoiltSettle
  <2>6. ASSUME NEW it \in todo, Unnamed(it) PROVE SettleInv'
    BY <2>6, UnnamedSpoils, SpoiltSettle
  <2> QED BY <1>2, <2>1, <2>2, <2>3, <2>4, <2>5, <2>6, PlanSettle, CreateCases, UpdateCases,
       ApplySettle, RefreshSettle DEF Next, PushStep
<1> QED BY <1>1, <1>2, ShapeAlways, PruneAlways, TieAlways, PTL DEF Spec

\* A push that reports no failure and that nobody disturbed leaves directory and instance
\* in step: a second plan has nothing to create or to update, whatever the server made of
\* the bodies, and after a granted prune nothing to delete.
THEOREM PushConverges == Spec => []InSyncWhenDone
<1>1. ASSUME ShapeInv, SettleInv PROVE InSyncWhenDone
  <2> DEFINE now == ListOf({}).objs
  <2> SUFFICES ASSUME pc = "apply", todo = {}, sum.failed = 0, undisturbed,
                      {"create", "update"} \subseteq Ops, DistinctIds(files)
               PROVE  /\ Creates(files, now) = {}
                      /\ Updates(files, now) = {}
                      /\ Prunable(opts.prune, Incomplete(listing)) => Deletes(files, now) = {}
    BY DEF InSyncWhenDone
  <2>1. Sound /\ echo = NoEcho
    BY <1>1 DEF Sound, ShapeInv
  <2>2. /\ \A f \in Settled : InStep(f)
        /\ Prunable(opts.prune, Incomplete(listing)) => \A i \in Existing \ ToDelete : Filed(i)
    BY <1>1, <2>1, SettleNow
  <2>3. Settled = {f \in Stems : IsObject(files[f])} /\ ToDelete = {}
    BY <2>1 DEF Settled, ToDelete
  <2>4. /\ \A i \in Existing : now[i] = live[i] /\ i \in Listed(now)
        /\ Listed(now) \subseteq Existing
    BY SpecialsAssumption DEF ListOf, Existing, Listed
  <2> HIDE DEF now
  <2>5. ASSUME NEW f \in Stems, IsObject(files[f])
        PROVE  files[f].id \in Existing /\ live[files[f].id] = files[f].body
    <3>1. InStep(f) /\ files[f].body \in Contents
      BY <1>1, <2>2, <2>3, <2>5 DEF ShapeInv, TypeOK, Object, IsObject
    <3>2. files[f].id \in Ids /\ live[files[f].id] = files[f].body
      BY <2>5, <3>1, SpecialsAssumption DEF InStep, DistinctIds, Listed
    <3> QED BY <3>1, <3>2 DEF Existing
  <2>6. Creates(files, now) = {} /\ Updates(files, now) = {}
    BY <2>4, <2>5 DEF Creates, Updates
  <2>7. ASSUME Prunable(opts.prune, Incomplete(listing)), NEW i \in Listed(now)
        PROVE  i \in Tracked(files)
    BY <2>1, <2>2, <2>3, <2>4, <2>7 DEF Filed, Tracked
  <2> QED BY <2>6, <2>7 DEF Deletes
<1> QED BY <1>1, ShapeAlways, SettleAlways, PTL

-----------------------------------------------------------------------------
(* What the counters of a push tell *)

LEMMA ExitCount == ASSUME Exit PROVE CountInv'
BY DEF Exit, CountInv

\* How the bounds of a counter follow one more object, or one more failure.
LEMMA CountedUp ==
  ASSUME NEW S, NEW x, x \notin S, IsFiniteSet(S), NEW n \in Nat, NEW failed \in Nat,
         n <= Cardinality(S), Cardinality(S) <= n + failed
  PROVE  /\ IsFiniteSet(S \cup {x})
         /\ n + 1 <= Cardinality(S \cup {x}) /\ Cardinality(S \cup {x}) <= n + 1 + failed
         /\ n <= Cardinality(S \cup {x}) /\ Cardinality(S \cup {x}) <= n + (failed + 1)
<1>1. Cardinality(S) \in Nat
  BY FS_CardinalityType
<1>2. IsFiniteSet(S \cup {x}) /\ Cardinality(S \cup {x}) = Cardinality(S) + 1
  BY FS_AddElement
<1> QED BY <1>1, <1>2

\* The bounds of CountInv, for a sum and what it counts.
Counted(s, created, made, removed) ==
  /\ IsFiniteSet(made) /\ IsFiniteSet(removed)
  /\ created <= Cardinality(made) /\ Cardinality(made) <= created + s.failed
  /\ s.deleted <= Cardinality(removed)
  /\ Cardinality(removed) <= s.deleted + s.failed

Seen == Listed(listing.objs) \cup listing.skipped

PendingCreate == IF echo # NoEcho /\ echo.action = "create" THEN 1 ELSE 0

LEMMA PlanCount ==
  ASSUME ShapeInv, CountInv, PushPlan
  PROVE  CountInv'
<1>1. PICK l \in Listings : listing' = l
  BY DEF PushPlan
<1>2. PICK skipped \in SUBSET Existing : l = ListOf(skipped)
  BY DEF Listings
<1>3. /\ l.skipped = skipped /\ Listed(l.objs) = Existing \ skipped
      /\ \A i \in Existing \ skipped : l.objs[i] # Absent
  BY <1>2, SpecialsAssumption DEF ListOf, Listed, Existing
<1>4. pc' = "apply" /\ echo' = NoEcho /\ live' = live /\ sum' = ZeroSum
  BY DEF PushPlan, disk, ShapeInv, CountInv
<1>5. Made' = {} /\ Removed' = {} /\ \A i \in Seen' : live[i] # Unborn
  BY <1>1, <1>3, <1>4, SpecialsAssumption DEF Made, Removed, Seen, Existing, Listed
<1>6. IsFiniteSet({}) /\ Cardinality({}) = 0
  BY FS_EmptySet
<1>7. Counted(ZeroSum, 0, {}, {})
  BY <1>6 DEF Counted, ZeroSum
<1>8. sum'.created + PendingCreate' = 0
  BY <1>4 DEF PendingCreate, ZeroSum
<1> QED BY <1>4, <1>5, <1>7, <1>8 DEF CountInv, Counted, Seen, PendingCreate

\* Nothing made and nothing removed, one more object made, or one more of those listed removed.
MadeNothing == Made' = Made /\ Removed' = Removed
MadeOne(i) == Made' = Made \cup {i} /\ i \notin Made /\ Removed' = Removed
RemovedOne(i) == Made' = Made /\ Removed' = Removed \cup {i} /\ i \notin Removed

\* Which of them a mutation does.
LEMMA Mutated ==
  ASSUME ShapeInv, CountInv, undisturbed, pc = "apply", listing' = listing
  PROVE  /\ live' = live => MadeNothing
         /\ \A i \in Ids, body \in Contents :
              /\ live[i] = Unborn /\ live' = [live EXCEPT ![i] = body] => MadeOne(i)
              /\ live[i] \in Contents /\ live' = [live EXCEPT ![i] = body] => MadeNothing
         /\ \A i \in Listed(listing.objs) :
              live[i] \in Contents /\ live' = [live EXCEPT ![i] = Gone] => RemovedOne(i)
<1> USE DEF MadeNothing, MadeOne, RemovedOne
<1>1. /\ live \in [Ids -> Contents \cup {Unborn, Gone}]
      /\ \A i \in Listed(listing.objs) \cup listing.skipped : live[i] # Unborn
      /\ listing.objs \in [Ids -> Contents \cup {Absent}]
  BY DEF CountInv, ShapeInv, TypeOK, Listing
<1>2. live' = live => MadeNothing
  BY DEF Made, Removed, Existing, Listed
<1>3. ASSUME NEW i \in Ids, NEW body \in Contents, live[i] = Unborn, live' = [live EXCEPT ![i] = body]
      PROVE  MadeOne(i)
  <2>1. Existing' = Existing \cup {i} /\ i \notin Existing
    BY <1>1, <1>3, SpecialsAssumption DEF Existing
  <2>2. listing.objs[i] = Absent /\ i \notin listing.skipped
    BY <1>1, <1>3 DEF Listed
  <2>3. Removed' = Removed
    BY <1>1, <1>3, SpecialsAssumption DEF Removed, Listed
  <2> QED BY <2>1, <2>2, <2>3 DEF Made
<1>4. ASSUME NEW i \in Ids, NEW body \in Contents, live[i] \in Contents, live' = [live EXCEPT ![i] = body]
      PROVE  MadeNothing
  <2>1. Existing' = Existing
    BY <1>1, <1>4, SpecialsAssumption DEF Existing
  <2>2. Removed' = Removed
    BY <1>1, <1>4, SpecialsAssumption DEF Removed, Listed
  <2> QED BY <2>1, <2>2 DEF Made
<1>5. ASSUME NEW i \in Listed(listing.objs), live[i] \in Contents, live' = [live EXCEPT ![i] = Gone]
      PROVE  RemovedOne(i)
  <2>1. i \in Ids /\ listing.objs[i] # Absent
    BY <1>5 DEF Listed
  <2>2. Made' = Made
    BY <1>1, <1>5, <2>1, SpecialsAssumption DEF Made, Existing
  <2>3. Removed' = Removed \cup {i} /\ i \notin Removed
    BY <1>1, <1>5, <2>1, SpecialsAssumption DEF Removed, Listed
  <2> QED BY <2>2, <2>3
<1> QED BY <1>2, <1>3, <1>4, <1>5

LEMMA ApplyCount ==
  ASSUME ShapeInv, CountInv, NEW it \in todo,
         \/ SkipItem(it)
         \/ CreateNamed(it) \/ UpdateNamed(it) \/ ApplyDelete(it)
         \/ ApplyFails(it) \/ ApplyLost(it)
  PROVE  CountInv'
<1> USE DEF counters, disk, pullVars, pushVars, history
<1>0. /\ pc = "apply" /\ pc' \in {"apply", "refresh"} /\ echo = NoEcho
      /\ it \in Item /\ it.body \in Contents /\ it.slug \in Stems
      /\ live \in [Ids -> Contents \cup {Unborn, Gone}] /\ sum \in Summary
      /\ UNCHANGED <<listing, undisturbed>>
      /\ Seen' = Seen
  BY NamedQuiet DEF SkipItem, CreateNamed, UpdateNamed, ApplyDelete, ApplyFails, ApplyLost, Turn, Echoed, Fail,
     ShapeInv, TypeOK, Item, Seen, Listed
<1>1. SUFFICES ASSUME undisturbed
               PROVE  /\ \A i \in Seen : live'[i] # Unborn
                      /\ Counted(sum', sum'.created + PendingCreate', Made', Removed')
  BY <1>0 DEF CountInv, Counted, Seen, PendingCreate
<1>2. /\ \A i \in Seen : live[i] # Unborn /\ PendingCreate = 0
      /\ Counted(sum, sum.created, Made, Removed)
      /\ sum.created \in Nat /\ sum.deleted \in Nat /\ sum.failed \in Nat
  BY <1>0, <1>1 DEF CountInv, Counted, Seen, PendingCreate, Summary
<1>3. Cardinality(Made) \in Nat /\ Cardinality(Removed) \in Nat
  BY <1>2, FS_CardinalityType DEF Counted
<1>4. it.action # "create" => it.id \in Ids /\ it.id \in Listed(listing.objs)
                               /\ Overlay[<<listing.objs[it.id], it.body>>] \in Contents
  BY <1>0, ItemShape, ConstantsAssumption DEF ShapeInv
<1>5. CASE SkipItem(it)
  <2>1. live' = live /\ sum' = sum /\ echo' = NoEcho
    BY <1>0, <1>5 DEF SkipItem
  <2> QED BY <1>0, <1>1, <1>2, <2>1, Mutated DEF PendingCreate, MadeNothing
<1>6. CASE CreateNamed(it)
  <2>1. PICK i \in Ids : MakeLive(it, i) /\ Echoed(it, i, it.body)
    BY <1>6 DEF CreateNamed
  <2>2. /\ live[i] = Unborn /\ live' = [live EXCEPT ![i] = it.body] /\ sum' = sum
        /\ echo' = [action |-> "create", slug |-> it.slug, id |-> i, body |-> it.body]
    BY <1>6, <2>1 DEF CreateNamed, Turn, MakeLive, Echoed
  <2>3. PendingCreate' = 1
    <3>1. echo' \in Echo /\ echo'.action = "create"
      BY <1>0, <2>2 DEF Echo
    <3> QED BY <3>1, SpecialsAssumption DEF PendingCreate, Echo
  <2>4. Made' = Made \cup {i} /\ i \notin Made /\ Removed' = Removed
    BY <1>0, <1>1, <2>2, Mutated DEF MadeNothing, MadeOne, RemovedOne
  <2>5. Counted(sum, sum.created + 1, Made', Removed')
    BY <1>2, <2>4, CountedUp DEF Counted
  <2>6. \A j \in Seen : live'[j] # Unborn
    BY <1>0, <1>2, <2>2 DEF Seen, Listed
  <2> QED BY <2>2, <2>3, <2>5, <2>6
<1>7. CASE UpdateNamed(it)
  <2>1. /\ it.action = "update" /\ live[it.id] \in Contents /\ sum' = sum
        /\ live' = [live EXCEPT ![it.id] = Overlay[<<listing.objs[it.id], it.body>>]]
        /\ echo'.action = "update"
    BY <1>7 DEF UpdateNamed, Turn, Echoed
  <2>2. Made' = Made /\ Removed' = Removed
    BY <1>0, <1>1, <1>4, <2>1, Mutated DEF MadeNothing, MadeOne, RemovedOne
  <2>3. \A j \in Seen : live'[j] # Unborn
    BY <1>0, <1>2, <1>4, <2>1, SpecialsAssumption
  <2> QED BY <1>2, <2>1, <2>2, <2>3 DEF PendingCreate
<1>8. CASE ApplyDelete(it)
  <2>1. /\ it.action = "delete" /\ live[it.id] \in Contents /\ echo' = NoEcho
        /\ sum' = [sum EXCEPT !.deleted = @ + 1]
        /\ live' = [live EXCEPT ![it.id] = Gone]
    BY <1>0, <1>8 DEF ApplyDelete, Turn
  <2>2. Made' = Made /\ Removed' = Removed \cup {it.id} /\ it.id \notin Removed
    BY <1>0, <1>1, <1>4, <2>1, Mutated DEF MadeNothing, MadeOne, RemovedOne
  <2>3. sum'.created = sum.created /\ sum'.failed = sum.failed /\ sum'.deleted = sum.deleted + 1
    BY <1>0, <2>1 DEF Summary
  <2>4. Counted(sum', sum.created, Made', Removed')
    BY <1>2, <2>2, <2>3, CountedUp DEF Counted
  <2>5. \A j \in Seen : live'[j] # Unborn
    BY <1>0, <1>2, <1>4, <2>1, SpecialsAssumption
  <2> QED BY <1>2, <2>1, <2>3, <2>4, <2>5 DEF PendingCreate
<1>9. CASE ApplyFails(it) \/ ApplyLost(it)
  <2>1. sum' = [sum EXCEPT !.failed = @ + 1] /\ echo' = NoEcho
    BY <1>0, <1>9 DEF ApplyFails, ApplyLost, Fail
  <2>2. sum'.created = sum.created /\ sum'.failed = sum.failed + 1 /\ sum'.deleted = sum.deleted
    BY <1>0, <2>1 DEF Summary
  <2>3. PendingCreate' = 0
    BY <2>1 DEF PendingCreate
  <2>4. CASE live' = live
    <3>1. Made' = Made /\ Removed' = Removed
      BY <1>0, <1>1, <2>4, Mutated DEF MadeNothing, MadeOne, RemovedOne
    <3> QED BY <1>2, <1>3, <2>2, <2>3, <2>4, <3>1 DEF Counted
  <2>5. ASSUME NEW i \in Ids, live[i] = Unborn, live' = [live EXCEPT ![i] = it.body]
        PROVE  /\ \A j \in Seen : live'[j] # Unborn
               /\ Counted(sum', sum'.created + PendingCreate', Made', Removed')
    <3>1. Made' = Made \cup {i} /\ i \notin Made /\ Removed' = Removed
      BY <1>0, <1>1, <2>5, Mutated DEF MadeNothing, MadeOne, RemovedOne
    <3>2. Counted(sum', sum'.created, Made', Removed')
      <4>1. /\ IsFiniteSet(Made') /\ sum.created <= Cardinality(Made')
            /\ Cardinality(Made') <= sum.created + (sum.failed + 1)
        BY <1>2, <3>1, CountedUp DEF Counted
      <4> QED BY <1>2, <1>3, <2>2, <3>1, <4>1 DEF Counted
    <3>3. \A j \in Seen : live'[j] # Unborn
      BY <1>0, <1>2, <2>5 DEF Seen, Listed
    <3> QED BY <1>2, <2>2, <2>3, <3>2, <3>3
  <2>6. ASSUME it.action # "create", live[it.id] \in Contents,
               live' = [live EXCEPT ![it.id] = Overlay[<<listing.objs[it.id], it.body>>]]
        PROVE  /\ \A j \in Seen : live'[j] # Unborn
               /\ Counted(sum', sum'.created + PendingCreate', Made', Removed')
    <3>1. Made' = Made /\ Removed' = Removed
      BY <1>0, <1>1, <1>4, <2>6, Mutated DEF MadeNothing, MadeOne, RemovedOne
    <3>2. \A j \in Seen : live'[j] # Unborn
      BY <1>0, <1>2, <1>4, <2>6, SpecialsAssumption
    <3> QED BY <1>2, <1>3, <2>2, <2>3, <3>1, <3>2 DEF Counted
  <2>7. ASSUME it.action # "create", live[it.id] \in Contents, live' = [live EXCEPT ![it.id] = Gone]
        PROVE  /\ \A j \in Seen : live'[j] # Unborn
               /\ Counted(sum', sum'.created + PendingCreate', Made', Removed')
    <3>1. Made' = Made /\ Removed' = Removed \cup {it.id} /\ it.id \notin Removed
      BY <1>0, <1>1, <1>4, <2>7, Mutated DEF MadeNothing, MadeOne, RemovedOne
    <3>2. Counted(sum', sum'.created, Made', Removed')
      <4>1. /\ IsFiniteSet(Removed') /\ sum.deleted <= Cardinality(Removed')
            /\ Cardinality(Removed') <= sum.deleted + (sum.failed + 1)
        BY <1>2, <3>1, CountedUp DEF Counted
      <4> QED BY <1>2, <1>3, <2>2, <3>1, <4>1 DEF Counted
    <3>3. \A j \in Seen : live'[j] # Unborn
      BY <1>0, <1>2, <1>4, <2>7, SpecialsAssumption
    <3> QED BY <1>2, <2>2, <2>3, <3>2, <3>3
  <2> QED BY <1>9, <2>4, <2>5, <2>6, <2>7 DEF ApplyFails, ApplyLost
<1> QED BY <1>5, <1>6, <1>7, <1>8, <1>9

LEMMA RefreshCount ==
  ASSUME ShapeInv, CountInv, Refresh \/ RefreshFails
  PROVE  CountInv'
<1>1. pc' = "apply" /\ pc = "refresh" /\ echo # NoEcho /\ echo' = NoEcho /\ sum' = Count(echo.action)
  BY DEF Refresh, RefreshFails, ShapeInv
<1>2. CASE RefreshFails
  BY <1>1, <1>2 DEF RefreshFails, CountInv
<1>3. CASE Refresh
  <2>1. UNCHANGED <<live, listing, undisturbed>> /\ sum \in Summary
    BY <1>3 DEF Refresh, history, pullVars, ShapeInv, TypeOK
  <2>2. Made' = Made /\ Removed' = Removed /\ Seen' = Seen
    BY <2>1 DEF Made, Removed, Seen, Existing, Listed
  <2>3. /\ sum'.created + PendingCreate' = sum.created + PendingCreate
        /\ sum'.failed = sum.failed /\ sum'.deleted = sum.deleted
    BY <1>1, <2>1 DEF Count, Summary, PendingCreate
  <2> QED BY <1>1, <2>1, <2>2, <2>3 DEF CountInv, Counted, Seen, PendingCreate
<1> QED BY <1>2, <1>3

LEMMA CountAlways == Spec => []CountInv
<1>1. Init => CountInv
  BY DEF Init, CountInv
<1>2. ASSUME ShapeInv, CountInv, [Next]_vars PROVE CountInv'
  <2>1. CASE UNCHANGED vars
    BY <1>2, <2>1 DEF vars, disk, pullVars, pushVars, history, CountInv, Made, Removed, Existing, Listed
  <2>2. CASE Start
    <3>1. pc' \notin {"apply", "refresh"} /\ pc = "idle" /\ sum' = sum
      BY <2>2 DEF Start, StartCommand, PullList, PushLoad, ListFails, PushLoadFails, pushVars
    <3> QED BY <1>2, <3>1 DEF CountInv
  <2>3. CASE PullStep
    <3>1. Exit \/ (pc' \notin {"apply", "refresh"} /\ pc \notin {"apply", "refresh"} /\ sum' = sum)
      BY <2>3 DEF PullStep, PullWrite, PullWriteFails, PullState, PullStateFails, PruneFile,
         PruneFileFails, PullDone, pushVars
    <3> QED BY <1>2, <3>1, ExitCount DEF CountInv
  <2>4. CASE PushListFails \/ PushPlanEnds \/ PushDone \/ Crash
    BY <2>4, ExitCount DEF PushListFails, PushPlanEnds, PushDone, Crash
  <2>5. CASE Environment
    <3>1. undisturbed' = FALSE /\ UNCHANGED <<pc, sum>>
      BY <2>5 DEF Environment, UiChange, EditFile, Outside, pushVars
    <3> QED BY <1>2, <3>1 DEF CountInv
  <2>6. ASSUME NEW it \in todo, Unnamed(it) PROVE CountInv'
    BY <2>6, UnnamedSpoils DEF CountInv
  <2> QED BY <1>2, <2>1, <2>2, <2>3, <2>4, <2>5, <2>6, PlanCount, CreateCases, UpdateCases,
       ApplyCount, RefreshCount DEF Next, PushStep
<1> QED BY <1>1, <1>2, ShapeAlways, PTL DEF Spec

\* The counters that a push reports bound what it did to the instance, for any number of
\* objects: a create or a delete that is counted took effect, and one that took effect is
\* counted or is among the failures, whose answer was lost.
THEOREM SummaryTrue == Spec => []SummaryTruth
<1>1. ASSUME ShapeInv, CountInv PROVE SummaryTruth
  <2> SUFFICES ASSUME pc = "apply", undisturbed
               PROVE  /\ sum.created <= Cardinality(Made)
                      /\ Cardinality(Made) <= sum.created + sum.failed
                      /\ sum.deleted <= Cardinality(Removed)
                      /\ Cardinality(Removed) <= sum.deleted + sum.failed
    BY DEF SummaryTruth, Made, Removed
  <2>1. PendingCreate = 0 /\ sum.created \in Nat
    BY <1>1 DEF PendingCreate, ShapeInv, TypeOK, Summary
  <2>2. Counted(sum, sum.created + PendingCreate, Made, Removed)
    BY <1>1 DEF CountInv, Counted, PendingCreate
  <2> QED BY <2>1, <2>2 DEF Counted
<1> QED BY <1>1, ShapeAlways, CountAlways, PTL

=============================================================================
