------------------------------ MODULE Reconcile ------------------------------
(***************************************************************************)
(* The config-as-code engine of internal/mirror/reconcile: Pull, BuildPlan *)
(* and Push of ONE surface, run as commands by an operator against a live  *)
(* instance that other people edit in its UI.                              *)
(*                                                                         *)
(* A process keeps nothing between two commands: what survives is the live *)
(* instance, the files of the surface's directory and .pullstate.json.     *)
(* The closures of a Surface (List, Write, Create, Update, Delete) are     *)
(* taken at their contract, with every outcome the contract leaves open:   *)
(* an error before the effect, an error after it (a lost reply, a failed   *)
(* re-read), a listing that skipped objects and says so.                   *)
(***************************************************************************)
EXTENDS Naturals, FiniteSets

CONSTANTS
  Ids,            \* server identities the instance can hand out
  Contents,       \* canonical bodies, display name included
  Stems,          \* file stems, numbered in lexicographic order
  SlugOf,         \* [Contents -> Stems], Slugify of the name in a body
  Suffixed,       \* [Stems \X Ids -> Stems], slug + "_" + fileSafe(id)
  Overlay,        \* [Contents \X Contents -> Contents], <<live, local>> to sent body
  ValidBodies,    \* the bodies the surface's Validate hook accepts
  Ops,            \* the closures among "create", "update", "delete" that exist
  PruneEligible,  \* Caps.PruneEligible and not Caps.NoDelete
  Faults,         \* what may go wrong, see AllFaults
  MaxCommands,    \* bound: commands an operator runs
  MaxEdits,       \* bound: changes made outside the tool
  NoId, Absent, Unborn, Gone, NoFile, Torn, NoEcho

AllFaults == {"list",       \* List or LoadDir returns an error
              "skip",       \* List skips objects and reports Incomplete
              "write",      \* a file write or removal fails
              "crash",      \* the process dies
              "api",        \* a mutation is refused
              "lostReply",  \* a mutation took effect but returns an error
              "mute",       \* a mutation is echoed by the zero Object
              "anonymous",  \* a mutation is echoed without an identity
              "uiRace",     \* the UI changes live while a command runs
              "editRace"}   \* the operator edits files while a command runs

Specials == {NoId, Absent, Unborn, Gone, NoFile, Torn, NoEcho}

ASSUME ConstantsAssumption ==
  /\ Stems \subseteq Nat
  /\ SlugOf \in [Contents -> Stems]
  /\ Suffixed \in [Stems \X Ids -> Stems]
  /\ Overlay \in [Contents \X Contents -> Contents]
  /\ ValidBodies \subseteq Contents
  /\ Ops \subseteq {"create", "update", "delete"}
  /\ PruneEligible \in BOOLEAN
  /\ Faults \subseteq AllFaults
  /\ MaxCommands \in Nat
  /\ MaxEdits \in Nat

\* The placeholders stand for no identity, no body and no file.
ASSUME SpecialsAssumption ==
  /\ NoId \notin Ids
  /\ {Absent, Unborn, Gone} \cap Contents = {}
  /\ Absent # Unborn /\ Absent # Gone /\ Unborn # Gone
  /\ NoFile # Torn /\ NoFile \notin Stems
  /\ {NoFile, Torn} \cap [id : Ids \cup {NoId}, body : Contents] = {}
  /\ NoEcho \notin
       [action : {"create", "update"}, slug : Stems, id : Ids \cup {NoId}, body : Contents]

VARIABLES
  live,       \* the instance: what each identity holds
  files,      \* the surface's directory: what each stem holds
  pullState,  \* .pullstate.json: "none" (missing or unreadable), "complete", "incomplete"
  pc,         \* where the running command is
  opts,       \* its flags
  listing,    \* the ListResult it works from
  work,       \* Pull: listed identities still to write
  written,    \* Pull: stems written (liveFiles)
  stale,      \* Pull --prune: files still to remove
  locals,     \* Push: the files as LoadDir read them
  todo,       \* Push: plan items still to apply
  echo,       \* Push: the server's echo of the last mutation
  sum,        \* Push: the Summary counters
  cmds,       \* commands run so far
  edits,      \* outside changes so far
  (* History, read by properties only. *)
  lastPull,     \* how far the last Pull that wrote a file came
  hidden,       \* identities the last recorded pull skipped
  maker,        \* the file a live object was created from, if the echo named the object and
                \* until something the tool reports, a pull or the operator cuts the tie
  undisturbed   \* no outside change, no failed file write, no echo without an identity in
                \* this command

disk    == <<live, files, pullState>>
pullVars == <<listing, work, written, stale>>
pushVars == <<locals, todo, echo, sum>>
counters == <<cmds, edits>>
history == <<lastPull, hidden, maker, undisturbed>>
vars == <<disk, pc, opts, pullVars, pushVars, counters, history>>

-----------------------------------------------------------------------------
(* Data *)

Object  == [id : Ids \cup {NoId}, body : Contents]
Options == [prune : BOOLEAN, dryRun : BOOLEAN, assumeYes : BOOLEAN]
Item    == [action : {"create", "update", "delete"}, slug : Stems,
            id : Ids \cup {NoId}, body : Contents]
Echo    == [action : {"create", "update"}, slug : Stems,
            id : Ids \cup {NoId}, body : Contents]
Listing == [objs : [Ids -> Contents \cup {Absent}], skipped : SUBSET Ids]
Summary == [created : Nat, updated : Nat, deleted : Nat, failed : Nat]

NoOpts    == [prune |-> FALSE, dryRun |-> FALSE, assumeYes |-> FALSE]
NoListing == [objs |-> [i \in Ids |-> Absent], skipped |-> {}]
NoFiles   == [f \in Stems |-> NoFile]
ZeroSum   == [created |-> 0, updated |-> 0, deleted |-> 0, failed |-> 0]

Existing == {i \in Ids : live[i] \in Contents}
IsObject(entry) == entry \notin {NoFile, Torn}

\* What List may return for the current instance. The code keeps of the skipped
\* objects only whether there are any.
ListOf(skipped) ==
  [objs |-> [i \in Ids |-> IF i \in Existing \ skipped THEN live[i] ELSE Absent],
   skipped |-> skipped]
Listings ==
  {ListOf(skipped) : skipped \in IF "skip" \in Faults THEN SUBSET Existing ELSE {{}}}

Incomplete(l) == l.skipped # {}
Listed(objs) == {i \in Ids : objs[i] # Absent}

\* Mutant: the slug alone names the file.
FileStemPlain(objs, i) == SlugOf[objs[i]]

\* Pull's file name for a listed object: members of a group of equal slugs
\* carry their server id.
FileStem(objs, i) ==
  LET slug == SlugOf[objs[i]]
      namesakes == {j \in Listed(objs) : SlugOf[objs[j]] = slug}
  IN  IF namesakes = {i} THEN slug ELSE Suffixed[<<slug, i>>]

\* BuildPlan, one set per Action; unchanged objects are not items.
Creates(dir, objs) ==
  {[action |-> "create", slug |-> f, id |-> dir[f].id, body |-> dir[f].body] :
      f \in {g \in Stems : IsObject(dir[g]) /\ dir[g].id \notin Listed(objs)}}
Updates(dir, objs) ==
  {[action |-> "update", slug |-> f, id |-> dir[f].id, body |-> dir[f].body] :
      f \in {g \in Stems : /\ IsObject(dir[g])
                           /\ dir[g].id \in Listed(objs)
                           /\ dir[g].body # objs[dir[g].id]}}
Tracked(dir) == {dir[f].id : f \in {g \in Stems : IsObject(dir[g])}}

\* Mutant: a live object is matched to a file by name instead of identity.
DeletesByName(dir, objs) ==
  {[action |-> "delete", slug |-> SlugOf[objs[i]], id |-> i, body |-> objs[i]] :
      i \in {j \in Listed(objs) : ~IsObject(dir[SlugOf[objs[j]]])}}

Deletes(dir, objs) ==
  {[action |-> "delete", slug |-> SlugOf[objs[i]], id |-> i, body |-> objs[i]] :
      i \in Listed(objs) \ Tracked(dir)}
Changes(dir, objs) == Creates(dir, objs) \cup Updates(dir, objs) \cup Deletes(dir, objs)

\* What an apply works through: deletes only when prune is granted.
Planned(dir, objs, canPrune) ==
  Creates(dir, objs) \cup Updates(dir, objs)
    \cup (IF canPrune THEN Deletes(dir, objs) ELSE {})

Rank == [create |-> 1, update |-> 2, delete |-> 3]
Before(it, other) ==
  \/ Rank[it.action] < Rank[other.action]
  \/ Rank[it.action] = Rank[other.action] /\ it.slug < other.slug
\* The items the sorted plan may hold next.
NextItems(items) == {it \in items : \A other \in items : ~Before(other, it)}

\* Mutant: the operator's flag is not looked at.
PrunableUnasked(flag, incomplete) ==
  PruneEligible /\ "delete" \in Ops /\ ~incomplete /\ pullState = "complete"

\* prunable: the flag, the capability, the live listing and the pull state.
Prunable(flag, incomplete) ==
  /\ flag
  /\ PruneEligible
  /\ "delete" \in Ops
  /\ ~incomplete
  /\ pullState = "complete"

-----------------------------------------------------------------------------
(* Initial states: any instance, an empty directory, no command running. *)

Init ==
  /\ live \in [Ids -> Contents \cup {Unborn}]
  /\ files = NoFiles
  /\ pullState = "none"
  /\ pc = "idle"
  /\ opts = NoOpts
  /\ listing = NoListing
  /\ work = {} /\ written = {} /\ stale = {}
  /\ locals = NoFiles
  /\ todo = {}
  /\ echo = NoEcho
  /\ sum = ZeroSum
  /\ cmds = 0 /\ edits = 0
  /\ lastPull = "none"
  /\ hidden = {}
  /\ maker = [i \in Ids |-> NoFile]
  /\ undisturbed = FALSE

\* The process ends: nothing of it is kept.
Exit ==
  /\ pc' = "idle"
  /\ opts' = NoOpts
  /\ listing' = NoListing
  /\ work' = {} /\ written' = {} /\ stale' = {}
  /\ locals' = NoFiles
  /\ todo' = {}
  /\ echo' = NoEcho
  /\ sum' = ZeroSum
  /\ undisturbed' = FALSE

StartCommand ==
  /\ pc = "idle"
  /\ cmds < MaxCommands
  /\ cmds' = cmds + 1
  /\ UNCHANGED edits

\* A file write that may fail: the outcomes for one entry of the directory.
\* os.WriteFile truncates first, so a failed write may leave a torn file.
FailedWrite(f) == {files, [files EXCEPT ![f] = Torn]}

\* The objects created from file f, those in keep apart, lose their tie to it.
Disown(f, keep) ==
  [i \in Ids |-> IF maker[i] = f /\ i \notin keep THEN NoFile ELSE maker[i]]

-----------------------------------------------------------------------------
(* Pull *)

PullList(prune) ==
  /\ StartCommand
  /\ \E l \in Listings : listing' = l /\ work' = Listed(l.objs)
  /\ pc' = "pullWrite"
  /\ opts' = [NoOpts EXCEPT !.prune = prune]
  /\ undisturbed' = TRUE
  /\ UNCHANGED <<disk, written, stale, pushVars, lastPull, hidden, maker>>

ListFails ==
  /\ "list" \in Faults
  /\ StartCommand
  /\ UNCHANGED <<disk, pc, opts, pullVars, pushVars, lastPull, hidden, maker, undisturbed>>

PullWrite(i) ==
  LET f == FileStem(listing.objs, i) IN
  /\ pc = "pullWrite"
  /\ i \in work
  /\ files' = [files EXCEPT ![f] = [id |-> i, body |-> listing.objs[i]]]
  /\ written' = written \cup {f}
  /\ work' = work \ {i}
  /\ lastPull' = "partial"
  /\ maker' = Disown(f, {i})
  /\ UNCHANGED <<live, pullState, pc, opts, listing, stale, pushVars, counters,
                 hidden, undisturbed>>

\* Pull returns at the first failed Write; .pullstate.json stays as it was.
PullWriteFails(i) ==
  /\ "write" \in Faults
  /\ pc = "pullWrite"
  /\ i \in work
  /\ files' \in FailedWrite(FileStem(listing.objs, i))
  /\ Exit
  /\ lastPull' = "partial"
  /\ maker' = Disown(FileStem(listing.objs, i), {})
  /\ UNCHANGED <<live, pullState, counters, hidden>>

\* Mutant: a listing with skipped objects recorded as complete.
RecordedComplete(l) == "complete"

\* What .pullstate.json says of a listing.
Recorded(l) == IF Incomplete(l) THEN "incomplete" ELSE "complete"

PullState ==
  /\ pc = "pullWrite"
  /\ work = {}
  /\ pullState' = Recorded(listing)
  /\ stale' = IF opts.prune /\ ~Incomplete(listing)
                THEN {f \in Stems : files[f] # NoFile} \ written
                ELSE {}
  /\ pc' = "pullPrune"
  /\ lastPull' = IF Incomplete(listing) THEN "incomplete" ELSE "complete"
  /\ hidden' = listing.skipped
  /\ UNCHANGED <<live, files, opts, listing, work, written, pushVars, counters,
                 maker, undisturbed>>

PullStateFails ==
  /\ "write" \in Faults
  /\ pc = "pullWrite"
  /\ work = {}
  /\ pullState' \in {pullState, "none"}
  /\ Exit
  /\ UNCHANGED <<live, files, counters, lastPull, hidden, maker>>

PruneFile(f) ==
  /\ pc = "pullPrune"
  /\ f \in stale
  /\ stale' = stale \ {f}
  /\ files' = [files EXCEPT ![f] = NoFile]
  /\ maker' = Disown(f, {})
  /\ UNCHANGED <<live, pullState, pc, opts, listing, work, written, pushVars, counters,
                 lastPull, hidden, undisturbed>>

\* A file that cannot be removed is warned about and left.
PruneFileFails(f) ==
  /\ "write" \in Faults
  /\ pc = "pullPrune"
  /\ f \in stale
  /\ stale' = stale \ {f}
  /\ undisturbed' = FALSE
  /\ UNCHANGED <<disk, pc, opts, listing, work, written, pushVars, counters,
                 lastPull, hidden, maker>>

PullDone ==
  /\ pc = "pullPrune"
  /\ stale = {}
  /\ Exit
  /\ UNCHANGED <<disk, counters, lastPull, hidden, maker>>

-----------------------------------------------------------------------------
(* Push *)

\* LoadDir comes before List; a file that does not parse fails the command.
PushLoad(o) ==
  /\ StartCommand
  /\ \A f \in Stems : files[f] # Torn
  /\ locals' = files
  /\ opts' = o
  /\ pc' = "pushList"
  /\ undisturbed' = TRUE
  /\ UNCHANGED <<disk, pullVars, todo, echo, sum, lastPull, hidden, maker>>

PushLoadFails ==
  /\ StartCommand
  /\ \E f \in Stems : files[f] = Torn
  /\ UNCHANGED <<disk, pc, opts, pullVars, pushVars, lastPull, hidden, maker, undisturbed>>

PushListFails ==
  /\ "list" \in Faults
  /\ pc = "pushList"
  /\ Exit
  /\ UNCHANGED <<disk, counters, lastPull, hidden, maker>>

Invalid(items) ==
  \E it \in items : it.action \in {"create", "update"} /\ it.body \notin ValidBodies

\* An empty plan, a failed validation, a dry run and a missing --yes all end
\* the command before any mutation.
PushEnds(items) == items = {} \/ Invalid(items) \/ opts.dryRun \/ ~opts.assumeYes

PushPlanEnds ==
  /\ pc = "pushList"
  /\ \E l \in Listings :
        /\ PushEnds(Changes(locals, l.objs))
        /\ Exit
  /\ UNCHANGED <<disk, counters, lastPull, hidden, maker>>

PushPlan ==
  /\ pc = "pushList"
  /\ \E l \in Listings :
        /\ ~PushEnds(Changes(locals, l.objs))
        /\ listing' = l
        /\ todo' = Planned(locals, l.objs, Prunable(opts.prune, Incomplete(l)))
        /\ locals' = NoFiles
  /\ pc' = "apply"
  /\ UNCHANGED <<disk, opts, work, written, stale, echo, sum, counters, history>>

Turn(it, action) == pc = "apply" /\ it \in NextItems(todo) /\ it.action = action

\* The surface has no such closure: SKIP, counted nowhere.
SkipItem(it) ==
  /\ pc = "apply"
  /\ it \in NextItems(todo)
  /\ it.action \notin Ops
  /\ todo' = todo \ {it}
  /\ UNCHANGED <<disk, pc, opts, pullVars, locals, echo, sum, counters, history>>

\* Mutants: the failure is not counted; the item is tried again at once.
FailUncounted(it) ==
  /\ todo' = todo \ {it}
  /\ UNCHANGED <<files, pullState, pc, opts, pullVars, locals, echo, sum, counters,
                 lastPull, hidden, undisturbed>>
FailRetries(it) ==
  UNCHANGED <<files, pullState, pc, opts, pullVars, locals, todo, echo, sum, counters,
              lastPull, hidden, undisturbed>>

\* FAIL: counted, and the next item is tried.
Fail(it) ==
  /\ todo' = todo \ {it}
  /\ sum' = [sum EXCEPT !.failed = @ + 1]
  /\ UNCHANGED <<files, pullState, pc, opts, pullVars, locals, echo, counters,
                 lastPull, hidden, undisturbed>>

\* Mutant: every applied mutation is counted as a create.
CountCreated(action) == [sum EXCEPT !.created = @ + 1]

Count(action) ==
  IF action = "create" THEN [sum EXCEPT !.created = @ + 1]
                       ELSE [sum EXCEPT !.updated = @ + 1]

\* The mutation succeeded; refreshLocal comes next. The echo may lack the identity, which
\* the file then loses (jsonSurfaceSpec.resolveNewByName, buildObject).
Echoed(it, i, body) ==
  /\ i = NoId => "anonymous" \in Faults
  /\ echo' = [action |-> it.action, slug |-> it.slug, id |-> i, body |-> body]
  /\ pc' = "refresh"
  /\ todo' = todo \ {it}
  /\ undisturbed' = (undisturbed /\ i # NoId)
  /\ UNCHANGED <<files, pullState, opts, pullVars, locals, sum, counters, lastPull, hidden>>

\* The mutation succeeded and nothing usable was echoed: refreshLocal leaves the file as it
\* is, and the mutation is counted all the same.
Unechoed(it) ==
  /\ "mute" \in Faults
  /\ todo' = todo \ {it}
  /\ sum' = Count(it.action)
  /\ undisturbed' = FALSE
  /\ UNCHANGED <<files, pullState, pc, opts, pullVars, locals, echo, counters,
                 lastPull, hidden, maker>>

\* What the closure reports of object i; tied is the tie of the object to the file.
Reported(it, i, body, tied) ==
  \/ Echoed(it, i, body) /\ maker' = tied
  \/ Echoed(it, NoId, body) /\ maker' = Disown(it.slug, {})
  \/ Unechoed(it)

ApplyCreate(it) ==
  /\ Turn(it, "create")
  /\ "create" \in Ops
  /\ \E i \in Ids :
       /\ live[i] = Unborn
       /\ live' = [live EXCEPT ![i] = it.body]
       /\ Reported(it, i, it.body, [Disown(it.slug, {}) EXCEPT ![i] = it.slug])

ApplyUpdate(it) ==
  /\ Turn(it, "update")
  /\ "update" \in Ops
  /\ live[it.id] \in Contents
  /\ LET sent == Overlay[<<listing.objs[it.id], it.body>>]
     IN  live' = [live EXCEPT ![it.id] = sent] /\ Reported(it, it.id, sent, maker)

\* A delete echoes nothing and refreshes nothing.
ApplyDelete(it) ==
  /\ Turn(it, "delete")
  /\ live[it.id] \in Contents
  /\ live' = [live EXCEPT ![it.id] = Gone]
  /\ todo' = todo \ {it}
  /\ sum' = [sum EXCEPT !.deleted = @ + 1]
  /\ UNCHANGED <<files, pullState, pc, opts, pullVars, locals, echo, counters, history>>

\* The API refuses the call. It has to when the identity is gone or none is left.
ApplyFails(it) ==
  /\ pc = "apply"
  /\ it \in NextItems(todo)
  /\ it.action \in Ops
  /\ \/ "api" \in Faults
     \/ it.action = "create" /\ \A i \in Ids : live[i] # Unborn
     \/ it.action # "create" /\ live[it.id] \notin Contents
  /\ Fail(it)
  /\ UNCHANGED <<live, maker>>

\* The call took effect, but the closure returned an error.
ApplyLost(it) ==
  /\ "lostReply" \in Faults
  /\ pc = "apply"
  /\ it \in NextItems(todo)
  /\ it.action \in Ops
  /\ \/ /\ it.action = "create"
        /\ \E i \in Ids : live[i] = Unborn /\ live' = [live EXCEPT ![i] = it.body]
        /\ UNCHANGED maker
     \/ /\ it.action = "update"
        /\ live[it.id] \in Contents
        /\ live' = [live EXCEPT ![it.id] = Overlay[<<listing.objs[it.id], it.body>>]]
        /\ UNCHANGED maker
     \/ /\ it.action = "delete"
        /\ live[it.id] \in Contents
        /\ live' = [live EXCEPT ![it.id] = Gone]
        /\ UNCHANGED maker
  /\ Fail(it)

\* Mutant: the echo goes to the file its display name gives.
RefreshStemByName(e) == SlugOf[e.body]

\* refreshLocal rewrites the item's own file, whatever name the echo carries.
RefreshStem(e) == e.slug

Refresh ==
  /\ pc = "refresh"
  /\ files' = [files EXCEPT ![RefreshStem(echo)] = [id |-> echo.id, body |-> echo.body]]
  /\ sum' = Count(echo.action)
  /\ echo' = NoEcho
  /\ pc' = "apply"
  /\ UNCHANGED <<live, pullState, opts, pullVars, locals, todo, counters, history>>

\* A failed refresh is a WARN: the mutation still counts as applied.
RefreshFails ==
  /\ "write" \in Faults
  /\ pc = "refresh"
  /\ files' \in FailedWrite(RefreshStem(echo))
  /\ sum' = Count(echo.action)
  /\ echo' = NoEcho
  /\ pc' = "apply"
  /\ undisturbed' = FALSE
  /\ maker' = Disown(RefreshStem(echo), {})
  /\ UNCHANGED <<live, pullState, opts, pullVars, locals, todo, counters,
                 lastPull, hidden>>

PushDone ==
  /\ pc = "apply"
  /\ todo = {}
  /\ Exit
  /\ UNCHANGED <<disk, counters, lastPull, hidden, maker>>

-----------------------------------------------------------------------------
(* The process dies, at any point; a file being written may be left torn. *)

Crash ==
  /\ "crash" \in Faults
  /\ pc # "idle"
  /\ \/ UNCHANGED <<files, maker>>  /\ pc # "refresh"
     \/ /\ pc = "refresh"
        /\ files' \in FailedWrite(RefreshStem(echo))
        /\ maker' = Disown(RefreshStem(echo), {})
     \/ /\ pc = "pullWrite"
        /\ \E i \in work : LET f == FileStem(listing.objs, i)
                           IN  /\ files' = [files EXCEPT ![f] = Torn]
                               /\ maker' = Disown(f, {})
  /\ pullState' \in IF pc = "pullWrite" /\ work = {} THEN {pullState, "none"} ELSE {pullState}
  /\ Exit
  /\ UNCHANGED <<live, counters, lastPull, hidden>>

-----------------------------------------------------------------------------
(* Outside the tool *)

Outside(race) ==
  /\ pc = "idle" \/ race \in Faults
  /\ edits < MaxEdits
  /\ edits' = edits + 1
  /\ undisturbed' = FALSE
  /\ UNCHANGED <<pullState, pc, opts, pullVars, pushVars, cmds, lastPull, hidden>>

\* A teammate creates, edits, renames or deletes an object in the UI.
UiChange(i) ==
  /\ Outside("uiRace")
  /\ live[i] # Gone
  /\ \E to \in Contents \cup (IF live[i] = Unborn THEN {} ELSE {Gone}) :
        to # live[i] /\ live' = [live EXCEPT ![i] = to]
  /\ UNCHANGED <<files, maker>>

\* The operator writes a new file, edits a body or removes a file. An edit
\* keeps the stored identity.
EditFile(f) ==
  /\ Outside("editRace")
  /\ \/ /\ files[f] # NoFile
        /\ files' = [files EXCEPT ![f] = NoFile]
        /\ maker' = Disown(f, {})
     \/ \E c \in Contents :
          /\ files[f] = NoFile
          /\ files' = [files EXCEPT ![f] = [id |-> NoId, body |-> c]]
          /\ UNCHANGED maker
     \/ \E c \in Contents :
          /\ IsObject(files[f])
          /\ files[f].body # c
          /\ files' = [files EXCEPT ![f] = [id |-> files[f].id, body |-> c]]
          /\ UNCHANGED maker
  /\ UNCHANGED live

-----------------------------------------------------------------------------

Start == \/ \E prune \in BOOLEAN : PullList(prune)
         \/ \E o \in Options : PushLoad(o)
         \/ ListFails
         \/ PushLoadFails

PullStep == \/ \E i \in Ids : PullWrite(i) \/ PullWriteFails(i)
            \/ PullState
            \/ PullStateFails
            \/ \E f \in Stems : PruneFile(f) \/ PruneFileFails(f)
            \/ PullDone

PushStep == \/ PushListFails
            \/ PushPlanEnds
            \/ PushPlan
            \/ \E it \in todo : \/ SkipItem(it)
                                \/ ApplyCreate(it) \/ ApplyUpdate(it) \/ ApplyDelete(it)
                                \/ ApplyFails(it) \/ ApplyLost(it)
            \/ Refresh
            \/ RefreshFails
            \/ PushDone

Environment == \/ \E i \in Ids : UiChange(i)
               \/ \E f \in Stems : EditFile(f)

Next == Start \/ PullStep \/ PushStep \/ Crash \/ Environment

Spec == Init /\ [][Next]_vars

\* A running command keeps running: the loops of Pull and Push block on nothing
\* but calls that return.
FairSpec == Spec /\ WF_vars(PullStep) /\ WF_vars(PushStep)

-----------------------------------------------------------------------------
(* Properties *)

\* Every variable has its type.
TypeOK ==
  /\ live \in [Ids -> Contents \cup {Unborn, Gone}]
  /\ files \in [Stems -> Object \cup {NoFile, Torn}]
  /\ pullState \in {"none", "complete", "incomplete"}
  /\ pc \in {"idle", "pullWrite", "pullPrune", "pushList", "apply", "refresh"}
  /\ opts \in Options
  /\ listing \in Listing
  /\ work \in SUBSET Ids /\ written \in SUBSET Stems /\ stale \in SUBSET Stems
  /\ locals \in [Stems -> Object \cup {NoFile, Torn}]
  /\ todo \in SUBSET Item
  /\ echo \in Echo \cup {NoEcho}
  /\ sum \in Summary
  /\ cmds \in 0..MaxCommands /\ edits \in 0..MaxEdits
  /\ lastPull \in {"none", "partial", "complete", "incomplete"}
  /\ hidden \in SUBSET Ids
  /\ maker \in [Ids -> Stems \cup {NoFile}]
  /\ undisturbed \in BOOLEAN

ToDelete == {it.id : it \in {item \in todo : item.action = "delete"}}

\* An object the last recorded pull skipped because of a per-item error is never
\* in the set a push --prune is about to delete (engine.go, pullStateFile and
\* prunable), across any number of commands, crashes and failed writes between.
HiddenNeverPruned == ToDelete \cap hidden = {}

\* A push never has a delete pending for an object that some file of the
\* directory tracks at that moment, although it refreshes files with identities
\* the server hands out after the deletes were planned.
NeverPrunesTracked == ToDelete \cap Tracked(files) = {}

\* Prune acts on the snapshot of a finished pull: "a half-finished pull can't be
\* read as delete the rest" (docs/guides/reconcile.md).
PruneNeedsFinishedPull == ToDelete # {} => lastPull = "complete"

\* A file whose object the tool created, with every step reported as a success and an echo
\* that named the object, never creates a second one while the first is live and was listed:
\* the echo went to the operator's own file (refreshLocal). Where the echo named nothing the
\* next push does create a second one, see ReportedInSync.
NoSilentDuplicate ==
  \A it \in todo : it.action = "create" =>
    \A i \in Existing : maker[i] = it.slug => i \in listing.skipped

\* Each tracked identity has one file.
DistinctIds(dir) ==
  \A f, g \in Stems :
    IsObject(dir[f]) /\ IsObject(dir[g]) /\ dir[f].id = dir[g].id /\ dir[f].id # NoId => f = g

\* A push that reports no failure, that nobody interfered with and whose echoes named their
\* objects, leaves nothing to create or update, and after a granted prune nothing to delete.
InSyncWhenDone ==
  LET now == ListOf({}).objs IN
  /\ pc = "apply" /\ todo = {} /\ sum.failed = 0 /\ undisturbed
  /\ {"create", "update"} \subseteq Ops
  /\ DistinctIds(files)
  => /\ Creates(files, now) = {}
     /\ Updates(files, now) = {}
     /\ Prunable(opts.prune, Incomplete(listing)) => Deletes(files, now) = {}

\* "refreshLocal rewrites the on-disk object from the server's echo so the stored identity
\* [...] match[es] live after a mutation" (engine.go:381-382), and without it "the original
\* re-creates on the next push (duplicate live objects)" (engine.go:388-389): where outside
\* changes and failed writes are ruled out, a push without a failure leaves no file that the
\* next one would create an object from.
ReportedInSync ==
  pc = "apply" /\ todo = {} /\ sum.failed = 0 /\ sum.created > 0 =>
    Creates(files, ListOf({}).objs) = {}

\* A complete, undisturbed pull leaves every object it listed in a file of its
\* own, so nothing live looks server-only; with --prune the plan is empty.
RoundTripClean ==
  LET now == ListOf({}).objs IN
  /\ pc = "pullPrune" /\ stale = {} /\ undisturbed /\ ~Incomplete(listing)
  => /\ Deletes(files, now) = {}
     /\ opts.prune => Changes(files, now) = {}

\* The counters a push reports match what it did to the instance, short of the
\* failures it reports (a lost reply may hide an effect, nothing invents one).
SummaryTruth ==
  LET made == {i \in Existing : listing.objs[i] = Absent} \ listing.skipped
      gone == {i \in Listed(listing.objs) : live[i] = Gone}
  IN  /\ pc = "apply" /\ todo = {} /\ undisturbed
      => /\ sum.created <= Cardinality(made) /\ Cardinality(made) <= sum.created + sum.failed
         /\ sum.deleted <= Cardinality(gone) /\ Cardinality(gone) <= sum.deleted + sum.failed

\* Every command ends, whatever fails and whoever interferes.
CommandEnds == pc # "idle" ~> pc = "idle"

\* The engine keeps the abstract promise of GuardedSync: reads, dry runs and
\* refused prunes destroy nothing, deletes need a granted prune and an untracked
\* object, and identities are never reused.
Mode ==
  IF pc \notin {"apply", "refresh"} \/ opts.dryRun \/ ~opts.assumeYes THEN "read"
  ELSE IF opts.prune THEN "prune" ELSE "apply"
Sync == INSTANCE GuardedSync WITH mode <- Mode, moves <- edits
KeepsPromise == Sync!Spec

-----------------------------------------------------------------------------
(* The inductive invariant of the proofs (ReconcileProofs). *)

\* Types, and which working variables mean something when.
ShapeInv ==
  /\ TypeOK
  /\ pc = "pullWrite" => work \subseteq Listed(listing.objs)
  /\ \A it \in todo : it.action # "create" => it.id \in Listed(listing.objs)
  /\ todo # {} => pc \in {"apply", "refresh"}
  /\ pc = "refresh" <=> echo # NoEcho

\* Why a prune hits neither a hidden nor a tracked object.
PruneInv ==
  /\ pullState = "complete" => hidden = {}
  /\ ToDelete # {} => pullState = "complete"
  /\ \A i \in ToDelete : live[i] # Unborn
  /\ pc = "pushList" => Tracked(files) \subseteq Tracked(locals) \cup {NoId}
  /\ \A it \in todo : it.action = "update" => it.id \notin ToDelete
  /\ echo # NoEcho => echo.id \notin ToDelete
  /\ NeverPrunesTracked

\* Why a step on the plan is one the operator confirmed, and a delete one he asked for.
ConfirmInv ==
  /\ pc \in {"apply", "refresh"} => opts.assumeYes /\ ~opts.dryRun
  /\ ToDelete # {} => opts.prune

\* Why a file that made an object keeps its identity.
TieInv ==
  /\ \A i \in Ids : live[i] = Unborn => maker[i] = NoFile
  /\ \A i \in Ids : maker[i] # NoFile =>
       \/ IsObject(files[maker[i]]) /\ files[maker[i]].id = i
       \/ pc = "refresh" /\ echo.id = i /\ echo.slug = maker[i]
  /\ pc = "pushList" => \A i \in Ids : maker[i] # NoFile =>
       IsObject(locals[maker[i]]) /\ locals[maker[i]].id = i
  /\ \A a, b \in todo :
       a.action # "delete" /\ b.action # "delete" /\ a.slug = b.slug => a = b
  /\ \A it \in todo, i \in Ids : it.action = "update" /\ maker[i] = it.slug => i = it.id
  /\ \A i \in Ids : pc = "refresh" /\ maker[i] = echo.slug => i = echo.id
  /\ echo # NoEcho => \A it \in todo : it.action # "delete" => it.slug # echo.slug
  /\ NoSilentDuplicate

\* A suffixed name is no other object's file name. The code does not see to it: an object
\* may be named like a namesake of others with its identity appended (engine.go:65).
SuffixesApart ==
  \A c, d \in Contents, i, j \in Ids :
    /\ Suffixed[<<SlugOf[c], i>>] # SlugOf[d]
    /\ Suffixed[<<SlugOf[c], i>>] = Suffixed[<<SlugOf[d], j>>] => i = j

\* What an undisturbed pull has done so far, and what it has still to do.
MirrorInv ==
  LET done == Listed(listing.objs) \ work
      OwnFile(i) == FileStem(listing.objs, i)
  IN  /\ pc = "idle" => written = {}
      /\ undisturbed /\ pc \in {"pullWrite", "pullPrune"} =>
           /\ listing = ListOf(listing.skipped)
           /\ \A i \in done : files[OwnFile(i)] = [id |-> i, body |-> listing.objs[i]]
           /\ written = {OwnFile(i) : i \in done}
      /\ undisturbed /\ pc = "pullPrune" =>
           /\ work = {} /\ stale \cap written = {}
           /\ opts.prune /\ ~Incomplete(listing) =>
                \A f \in Stems : files[f] # NoFile => f \in stale \cup written

\* The files the plan is through with, or had nothing to do for.
Settled ==
  {f \in Stems : /\ IsObject(files[f])
                 /\ \A it \in todo : it.action # "delete" => it.slug # f
                 /\ echo # NoEcho => echo.slug # f}

\* What a push that nothing went wrong with keeps: an item is about the file it was planned
\* from; an echo is what the instance has; a settled file says what the instance says, or
\* shares its identity with another file; what no file says is still to be deleted or filed.
ItemsFiled ==
  \A it \in todo : it.action # "delete" =>
    /\ IsObject(files[it.slug])
    /\ files[it.slug].id = it.id
    /\ it.action = "update" <=> it.id \in Listed(listing.objs)
EchoFiled ==
  echo # NoEcho =>
    /\ echo.id \in Ids
    /\ live[echo.id] = echo.body
    /\ IsObject(files[echo.slug])
    /\ files[echo.slug].id \in Listed(listing.objs) => files[echo.slug].id = echo.id
InStep(f) ==
  \/ files[f].id \in Ids /\ live[files[f].id] = files[f].body
  \/ /\ files[f].id \in Listed(listing.objs)
     /\ \E g \in Stems \ {f} : IsObject(files[g]) /\ files[g].id = files[f].id
Filed(i) ==
  \/ \E f \in Settled : files[f].id = i
  \/ \E it \in todo : it.action = "update" /\ it.id = i
  \/ echo # NoEcho /\ echo.id = i

SettleInv ==
  /\ undisturbed /\ pc = "pushList" => locals = files
  /\ undisturbed /\ sum.failed = 0 /\ {"create", "update"} \subseteq Ops
       /\ pc \in {"apply", "refresh"} =>
       /\ ItemsFiled /\ EchoFiled
       /\ \A f \in Settled : InStep(f)
       /\ Prunable(opts.prune, Incomplete(listing)) => \A i \in Existing \ ToDelete : Filed(i)

\* What a push made and what it removed, as far as the listing tells.
Made == {i \in Existing : listing.objs[i] = Absent} \ listing.skipped
Removed == {i \in Listed(listing.objs) : live[i] = Gone}

\* How the counters follow what was done; a create is counted when its file is refreshed.
CountInv ==
  LET created == sum.created + IF echo # NoEcho /\ echo.action = "create" THEN 1 ELSE 0
  IN  /\ pc \notin {"apply", "refresh"} => sum = ZeroSum
      /\ undisturbed /\ pc \in {"apply", "refresh"} =>
           /\ \A i \in Listed(listing.objs) \cup listing.skipped : live[i] # Unborn
           /\ IsFiniteSet(Made) /\ IsFiniteSet(Removed)
           /\ created <= Cardinality(Made) /\ Cardinality(Made) <= created + sum.failed
           /\ sum.deleted <= Cardinality(Removed)
           /\ Cardinality(Removed) <= sum.deleted + sum.failed
=============================================================================
