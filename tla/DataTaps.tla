------------------------------- MODULE DataTaps -------------------------------
(***************************************************************************)
(* The directory of the data taps of one slug, pulled and pushed.          *)
(* The platform cannot update a tap: the surface deletes it and creates    *)
(* another, which has a new id, and then the engine writes that id to the  *)
(* file (dataTapsSurface). A tap's spec always makes an object, so no      *)
(* listing is ever incomplete; a file cut short is left to Reconcile.      *)
(***************************************************************************)
EXTENDS Naturals, FiniteSets

CONSTANTS
  Taps,           \* tap ids, of which the server hands out unborn ones
  TapSpecs,       \* filter, topic and format
  MaxTapCommands, \* bound on commands
  MaxTapEdits,    \* bound on edits of the directory
  MaxTapChanges,  \* bound on changes by others
  NoTap,          \* the id of a file never pushed or pulled
  TapGone, TapUnborn,
  Bare,           \* the file name without a suffix
  NoTapFile

ASSUME TapAssumption ==
  /\ IsFiniteSet(Taps) /\ NoTap \notin Taps /\ Bare \notin Taps
  /\ {TapGone, TapUnborn} \cap TapSpecs = {} /\ TapGone # TapUnborn
  /\ NoTapFile \notin [id : Taps \cup {NoTap}, spec : TapSpecs]

VARIABLES
  taps,      \* the taps of the instance
  tapFiles,  \* the directory: by file name, an id and a spec
  tapPulled, \* .pullstate.json tells of a whole pull
  tapPc,     \* "idle", "apply", "create" (after the old tap's deletion) or "write"
  tapAt,     \* the file at work, from then on
  tapNew,    \* the tap the push created, and has to write to that file
  tapPlan,   \* what is left of the plan
  tapPrune,  \* the push prunes, and may
  tapCommands, tapEdits, tapChanges,
  (* History, read by properties only. *)
  tapSlips,  \* taps created whose id was not written to the file
  tapOthers, \* taps that others created, and files removed by hand
  tapCalm    \* the last command was a push that reported success, undisturbed

tapVars == <<taps, tapFiles, tapPulled, tapPc, tapAt, tapNew, tapPlan, tapPrune, tapCommands,
             tapEdits, tapChanges, tapSlips, tapOthers, tapCalm>>

LiveTaps == {t \in Taps : taps[t] \in TapSpecs}

\* The names a pull gives: a tap's id is the suffix where taps share a slug.
TapNames == Taps \cup {Bare}
NameOf(t) == IF LiveTaps = {t} THEN Bare ELSE t
TapFiled == {n \in TapNames : tapFiles[n] # NoTapFile}
FiledTaps == {tapFiles[n].id : n \in TapFiled}

TapRest == [create |-> {}, update |-> {}, delete |-> {}]

-----------------------------------------------------------------------------
(* Commands *)

TapMay == tapPc = "idle" /\ tapCommands < MaxTapCommands /\ tapCommands' = tapCommands + 1

\* The directory once a pull wrote the taps in read and removed the files in cut.
WrittenNames(read) == {NameOf(t) : t \in read}
AfterPull(read, cut) ==
  [n \in TapNames |->
     IF n \in WrittenNames(read)
       THEN LET t == CHOOSE u \in read : NameOf(u) = n IN [id |-> t, spec |-> taps[t]]
       ELSE IF n \in cut THEN NoTapFile ELSE tapFiles[n]]

\* Pull writes each live tap to a file of its own, records that it is whole, and removes, if
\* asked to, the files of no live tap. It may be killed or fail before each of these steps.
TapPull ==
  /\ TapMay
  /\ \E read \in SUBSET LiveTaps :
       \E cut \in SUBSET (TapFiled \ WrittenNames(read)) :
         /\ tapFiles' = AfterPull(read, cut)
         /\ \/ cut = {} /\ UNCHANGED tapPulled
            \/ read = LiveTaps /\ tapPulled' = TRUE
  /\ tapCalm' = FALSE
  /\ UNCHANGED <<taps, tapPc, tapAt, tapNew, tapPlan, tapPrune, tapEdits, tapChanges, tapSlips,
                 tapOthers>>

\* No two files of one live tap disagree about it.
FilesAgree ==
  \A m, n \in TapFiled :
    tapFiles[m].id = tapFiles[n].id /\ tapFiles[m].id \in LiveTaps
      => tapFiles[m].spec = tapFiles[n].spec

\* BuildPlan and prunable: without a whole pull on record the deletes are skipped, and the
\* push does the rest.
TapPush(prune) ==
  /\ TapMay
  /\ tapPc' = "apply"
  /\ tapPrune' = (prune /\ tapPulled)
  /\ tapPlan' =
       [create |-> {n \in TapFiled : tapFiles[n].id \notin LiveTaps},
        update |-> {n \in TapFiled : /\ tapFiles[n].id \in LiveTaps
                                     /\ taps[tapFiles[n].id] # tapFiles[n].spec},
        delete |-> IF prune /\ tapPulled THEN LiveTaps \ FiledTaps ELSE {}]
  /\ tapCalm' = FilesAgree
  /\ UNCHANGED <<taps, tapFiles, tapPulled, tapAt, tapNew, tapEdits, tapChanges, tapSlips,
                 tapOthers>>

\* A failure is counted and the push goes on with the rest.
TapFails == tapPc' = "apply" /\ tapAt' = Bare /\ tapNew' = NoTap /\ tapCalm' = FALSE

\* The item of the plan that is next: creates, then updates, then deletes.
ToCreate == tapPlan.create
ToUpdate == IF tapPlan.create = {} THEN tapPlan.update ELSE {}
ToDelete == IF tapPlan.create \cup tapPlan.update = {} THEN tapPlan.delete ELSE {}

Without(item) ==
  [create |-> tapPlan.create \ {item}, update |-> tapPlan.update \ {item},
   delete |-> tapPlan.delete]

\* A call is refused or finds its tap gone, or the file cannot be written, which is only
\* warned about; or the process is killed.
TapGiveUp ==
  /\ \/ /\ tapPc = "apply"
        /\ \/ \E n \in ToCreate \cup ToUpdate : tapPlan' = Without(n)
           \/ \E t \in ToDelete : tapPlan' = [tapPlan EXCEPT !.delete = @ \ {t}]
        /\ TapFails
     \/ tapPc \in {"create", "write"} /\ TapFails /\ UNCHANGED tapPlan
     \/ /\ tapPc # "idle" /\ tapPc' = "idle"
        /\ tapAt' = Bare /\ tapNew' = NoTap /\ tapPlan' = TapRest /\ tapCalm' = FALSE
  /\ tapSlips' = IF tapPc = "write" THEN tapSlips + 1 ELSE tapSlips
  /\ UNCHANGED <<taps, tapFiles, tapPulled, tapPrune, tapCommands, tapEdits, tapChanges,
                 tapOthers>>

\* Update, first call. A tap that is gone by now is an error, and so is a lost answer.
DeleteOld ==
  /\ tapPc = "apply"
  /\ \E n \in ToUpdate :
       /\ tapFiles[n].id \in LiveTaps
       /\ taps' = [taps EXCEPT ![tapFiles[n].id] = TapGone]
       /\ tapPlan' = Without(n)
       /\ \/ TapFails
          \/ tapPc' = "create" /\ tapAt' = n /\ UNCHANGED <<tapNew, tapCalm>>
  /\ UNCHANGED <<tapFiles, tapPulled, tapPrune, tapCommands, tapEdits, tapChanges, tapSlips,
                 tapOthers>>

\* Mutant: a failure to delete the old tap does not stop the update.
DeleteAnyway ==
  /\ tapPc = "apply"
  /\ \E n \in ToUpdate :
       /\ \/ /\ tapFiles[n].id \in LiveTaps
             /\ taps' = [taps EXCEPT ![tapFiles[n].id] = TapGone]
          \/ UNCHANGED taps
       /\ tapPlan' = Without(n)
       /\ \/ TapFails
          \/ tapPc' = "create" /\ tapAt' = n /\ UNCHANGED <<tapNew, tapCalm>>
  /\ UNCHANGED <<tapFiles, tapPulled, tapPrune, tapCommands, tapEdits, tapChanges, tapSlips,
                 tapOthers>>

\* Create, and Update's second call. A lost answer is a failure.
CreateNew ==
  /\ \E n \in TapFiled, t \in {u \in Taps : taps[u] = TapUnborn} :
       /\ \/ tapPc = "apply" /\ n \in ToCreate
          \/ tapPc = "create" /\ n = tapAt
       /\ taps' = [taps EXCEPT ![t] = tapFiles[n].spec]
       /\ tapPlan' = Without(n)
       /\ \/ TapFails /\ tapSlips' = tapSlips + 1
          \/ tapPc' = "write" /\ tapAt' = n /\ tapNew' = t /\ UNCHANGED <<tapSlips, tapCalm>>
  /\ UNCHANGED <<tapFiles, tapPulled, tapPrune, tapCommands, tapEdits, tapChanges, tapOthers>>

\* Mutant: the file keeps the id of the tap that was deleted.
WriteSpec ==
  /\ tapPc = "write"
  /\ tapPc' = "apply" /\ tapAt' = Bare /\ tapNew' = NoTap
  /\ UNCHANGED <<taps, tapFiles, tapPulled, tapPlan, tapPrune, tapCommands, tapEdits,
                 tapChanges, tapSlips, tapOthers, tapCalm>>

\* refreshLocal, with what the create answered.
WriteTap ==
  /\ tapPc = "write"
  /\ tapFiles' = [tapFiles EXCEPT ![tapAt] = [id |-> tapNew, spec |-> tapFiles[tapAt].spec]]
  /\ tapPc' = "apply" /\ tapAt' = Bare /\ tapNew' = NoTap
  /\ UNCHANGED <<taps, tapPulled, tapPlan, tapPrune, tapCommands, tapEdits, tapChanges,
                 tapSlips, tapOthers, tapCalm>>

\* Push deletes, if it may, the taps its plan found without a file, and ends.
PruneTap ==
  /\ tapPc = "apply"
  /\ \/ \E t \in ToDelete \cap LiveTaps :
          /\ taps' = [taps EXCEPT ![t] = TapGone]
          /\ tapPlan' = [tapPlan EXCEPT !.delete = @ \ {t}]
          /\ UNCHANGED tapPc
     \/ tapPlan = TapRest /\ tapPc' = "idle" /\ UNCHANGED <<taps, tapPlan>>
  /\ UNCHANGED <<tapFiles, tapPulled, tapAt, tapNew, tapPrune, tapCommands, tapEdits, tapChanges,
                 tapSlips, tapOthers, tapCalm>>

-----------------------------------------------------------------------------
(* Everybody else *)

TapUi ==
  /\ tapChanges < MaxTapChanges /\ tapChanges' = tapChanges + 1
  /\ \/ \E t \in LiveTaps : taps' = [taps EXCEPT ![t] = TapGone] /\ UNCHANGED tapOthers
     \/ \E t \in {u \in Taps : taps[u] = TapUnborn}, spec \in TapSpecs :
          taps' = [taps EXCEPT ![t] = spec] /\ tapOthers' = tapOthers + 1
  /\ tapCalm' = FALSE
  /\ UNCHANGED <<tapFiles, tapPulled, tapPc, tapAt, tapNew, tapPlan, tapPrune, tapCommands,
                 tapEdits, tapSlips>>

\* Somebody edits a file, removes one, or writes one by hand.
TapEdit ==
  /\ tapPc = "idle"
  /\ tapEdits < MaxTapEdits /\ tapEdits' = tapEdits + 1
  /\ \/ \E n \in TapFiled, spec \in TapSpecs :
          tapFiles' = [tapFiles EXCEPT ![n] = [id |-> tapFiles[n].id, spec |-> spec]]
          /\ UNCHANGED tapOthers
     \/ \E n \in TapFiled :
          tapFiles' = [tapFiles EXCEPT ![n] = NoTapFile] /\ tapOthers' = tapOthers + 1
     \/ \E spec \in TapSpecs :
          /\ Bare \notin TapFiled
          /\ tapFiles' = [tapFiles EXCEPT ![Bare] = [id |-> NoTap, spec |-> spec]]
          /\ UNCHANGED tapOthers
  /\ tapCalm' = FALSE
  /\ UNCHANGED <<taps, tapPulled, tapPc, tapAt, tapNew, tapPlan, tapPrune, tapCommands,
                 tapChanges, tapSlips>>

-----------------------------------------------------------------------------
(* Specification *)

\* A directory that was never pulled, empty or with one file written by hand.
TapInit ==
  /\ taps \in [Taps -> TapSpecs \cup {TapUnborn}]
  /\ \E file \in {NoTapFile} \cup [id : {NoTap}, spec : TapSpecs] :
       tapFiles = [n \in TapNames |-> IF n = Bare THEN file ELSE NoTapFile]
  /\ tapPulled = FALSE /\ tapPc = "idle" /\ tapAt = Bare /\ tapNew = NoTap
  /\ tapPrune = FALSE /\ tapPlan = TapRest
  /\ tapCommands = 0 /\ tapEdits = 0 /\ tapChanges = 0
  /\ tapSlips = 0 /\ tapOthers = Cardinality(LiveTaps) /\ tapCalm = FALSE

TapNext ==
  \/ TapPull \/ (\E prune \in BOOLEAN : TapPush(prune))
  \/ DeleteOld \/ CreateNew \/ WriteTap \/ PruneTap \/ TapGiveUp
  \/ TapUi \/ TapEdit

TapSpec == TapInit /\ [][TapNext]_tapVars

-----------------------------------------------------------------------------
(* Properties *)

TapFileType == [id : Taps \cup {NoTap}, spec : TapSpecs]

\* Every variable has its type.
TapTypeOK ==
  /\ taps \in [Taps -> TapSpecs \cup {TapGone, TapUnborn}]
  /\ tapFiles \in [TapNames -> TapFileType \cup {NoTapFile}]
  /\ tapPc \in {"idle", "apply", "create", "write"}
  /\ tapAt \in TapNames /\ tapNew \in Taps \cup {NoTap}
  /\ tapPlan \in [create : SUBSET TapNames, update : SUBSET TapNames, delete : SUBSET Taps]
  /\ tapPulled \in BOOLEAN /\ tapPrune \in BOOLEAN /\ tapCalm \in BOOLEAN
  /\ {tapCommands, tapEdits, tapChanges, tapSlips, tapOthers} \subseteq Nat

\* A push streams twice only if something failed at the worst moment: there are no more
\* live taps without a file than taps whose id never reached the file (the "Limitation" of
\* datataps_surface.go:97-100), taps that others created and files that were removed, the
\* one just created and not yet in its file apart. A failure to delete never adds one, and
\* neither does a pull, whatever it writes over.
StraysCounted ==
  Cardinality(LiveTaps \ (FiledTaps \cup {tapNew})) <= tapSlips + tapOthers

\* "Both halves self-heal on a clean re-push" (datataps_surface.go:99): whatever was left
\* half done, after a push that succeeds undisturbed the tap of every file is live with the
\* file's spec; and if the push was asked to prune and a whole pull is on record, no tap is
\* live without a file. It needs files that agree: of two files of one live tap, which a
\* pull leaves when it starts to suffix a slug, the push may replace the tap of one and
\* leave the other with the id that is gone, and still succeed.
TapHealed ==
  tapPc = "idle" /\ tapCalm =>
    /\ \A n \in TapFiled :
         tapFiles[n].id \in LiveTaps /\ taps[tapFiles[n].id] = tapFiles[n].spec
    /\ tapPrune => LiveTaps \subseteq FiledTaps
=============================================================================
