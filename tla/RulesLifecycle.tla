---------------------------- MODULE RulesLifecycle ----------------------------
(***************************************************************************)
(* Detection rules as code: pull rules, push rules-create / rules-update / *)
(* rules-deploy / rules-disable and rules promote (internal/mirror).       *)
(*                                                                         *)
(* A rule is two resources live (text under an etag, deployment without    *)
(* one) and two files on disk (<slug>.yaral and its companion <slug>.yaml) *)
(* and every command touches them one at a time. A version of a text is a  *)
(* number here; the server compares it on UpdateRule and nowhere else.     *)
(***************************************************************************)
EXTENDS Naturals, FiniteSets

CONSTANTS
  Ids,         \* rule ids the instance can hand out
  Stems,       \* file stems
  Texts,       \* YARA-L texts, rule name included
  SlugOf,      \* [Texts -> Stems], Slugify of the rule name in a text
  ValidTexts,  \* texts ValidateRule accepts
  CreateDeps,  \* initial deployments an operator asks for
  UiDeps,      \* deployments others set, live or in a companion
  Namesakes,   \* whether two live rules may share a name
  Faults,      \* what may go wrong, see AllFaults
  MaxCommands, \* bound: commands an operator runs
  MaxEdits,    \* bound: changes made outside the tool
  Blank, NoFile, Torn, Absent, Unborn, Gone, Nothing

AllFaults == {"deps",       \* pull rules cannot list the deployments
              "text",       \* a rule is listed without its text, and GetRule may fail
              "etag",       \* a rule is listed without its etag
              "write",      \* a file write fails
              "crash",      \* the process dies
              "api",        \* a call is refused
              "lostReply",  \* a call took effect but returns an error
              "guard",      \* the platform leaves a rule disabled that was to be enabled
              "uiRace",     \* others change live while a command runs
              "editRace"}   \* the operator edits files while a command runs

\* What a command met that it does not report as a failed item.
Mishaps == {"outside", "write", "deps", "text", "warn"}

Freqs == {"", "LIVE", "HOURLY", "DAILY"}
Dep == [enabled : BOOLEAN, alerting : BOOLEAN, archived : BOOLEAN, freq : Freqs]

ASSUME RulesAssumption ==
  /\ Stems \subseteq Nat
  /\ SlugOf \in [Texts -> Stems]
  /\ ValidTexts \subseteq Texts
  /\ CreateDeps \subseteq Dep
  /\ UiDeps \subseteq Dep
  /\ Namesakes \in BOOLEAN
  /\ Faults \subseteq AllFaults
  /\ MaxCommands \in Nat /\ MaxEdits \in Nat

VARIABLES
  live,     \* the instance: text, version and deployment of each rule
  yaral,    \* <slug>.yaral
  meta,     \* <slug>.yaml
  cmd, pc,  \* the running command and where it is
  snap,     \* the rules and deployments it listed
  comps,    \* the companions it loaded
  texts,    \* the .yaral texts it loaded
  opts,     \* rules-create: the initial deployment asked for
  work,     \* what is left to do: ids (pull) or stems (push)
  pend,     \* a companion about to be written
  failed,   \* some item failed
  cmds, edits,
  (* History, read by properties only. *)
  base,        \* the <<rule, version>> a .yaral was last written for
  mishaps      \* what the running command met, see Mishaps

disk == <<yaral, meta>>
run == <<cmd, pc, snap, comps, texts, opts, work, pend, failed>>
vars == <<live, disk, run, cmds, edits, base, mishaps>>

-----------------------------------------------------------------------------
(* Data *)

Rule == [text : Texts, etag : Nat, dep : Dep]
\* Version 0 is the empty etag, with which UpdateRule sends no guard.
Companion == [id : Ids, etag : Nat, dep : Dep]
Pending == [stem : Stems, comp : Companion]
\* A rule as listed: its version, and whether the listing left the etag out.
Listed == [slug : Stems, text : Texts \cup {Blank}, etag : Nat, bare : BOOLEAN, dep : Dep]
Fields == {"enabled", "alerting", "freq"}

\* The placeholders stand for no rule, no file and nothing listed or pending.
ASSUME PlaceholdersAssumption ==
  /\ {Blank, NoFile} \cap Texts = {}
  /\ {Unborn, Gone} \cap Rule = {} /\ Unborn # Gone
  /\ {NoFile, Torn} \cap Companion = {}
  /\ Absent \notin Listed
  /\ Nothing \notin Pending

ZeroDep == [enabled |-> FALSE, alerting |-> FALSE, archived |-> FALSE, freq |-> ""]

IsLive(i) == live[i] \notin {Unborn, Gone}
IsComp(c) == c \notin {NoFile, Torn}
Slug(text) == SlugOf[text]
NameFree(text, i) == Namesakes \/ \A j \in Ids \ {i} : IsLive(j) => Slug(live[j].text) # Slug(text)

NoSnap == [i \in Ids |-> Absent]
NoComps == [f \in Stems |-> NoFile]

\* ListRules in the FULL view; the texts and the etags of some rules may be left out.
SnapshotOf(blank, bare) ==
  [i \in Ids |-> IF ~IsLive(i) THEN Absent
                 ELSE [slug |-> Slug(live[i].text),
                       text |-> IF i \in blank THEN Blank ELSE live[i].text,
                       etag |-> live[i].etag, bare |-> i \in bare, dep |-> live[i].dep]]
LeftOut(fault) == IF fault \in Faults THEN SUBSET Ids ELSE {{}}
ListedIn(l) == {i \in Ids : l[i] # Absent}

\* ruleDeploymentDiffers and ruleDeployBlockedReason.
Differs(want, have) ==
  \/ want.enabled # have.enabled
  \/ want.alerting # have.alerting
  \/ want.archived # have.archived
  \/ want.freq # "" /\ want.freq # have.freq
Archived(want, have) == have.archived \/ want.archived

\* Mutant: every field is sent, changed or not.
PatchAll(want, have) == Fields

\* Mutant: only the enabled flag is sent.
PatchEnabled(want, have) == {field \in {"enabled"} : want[field] # have[field]}

\* ruleDeployDiffUpdate: only the fields that differ from the listing.
Patch(want, have) ==
  {field \in {"enabled", "alerting"} : want[field] # have[field]}
    \cup (IF want.freq # "" /\ want.freq # have.freq THEN {"freq"} ELSE {})

\* UpdateRuleDeployment changes the masked fields. The platform may leave
\* disabled what was to be enabled.
Patched(dep, mask, want) ==
  LET full == [field \in DOMAIN dep |-> IF field \in mask THEN want[field] ELSE dep[field]]
  IN  {full} \cup (IF "guard" \in Faults /\ "enabled" \in mask /\ full.enabled
                     THEN {[full EXCEPT !.enabled = FALSE]} ELSE {})

\* "already enabled", "already disabled": the whole patch is a 409.
Conflicts(dep, mask, want) == "enabled" \in mask /\ dep.enabled = want.enabled

\* What a listing says of a rule's deployment.
HaveIn(l, i) == IF l[i] = Absent THEN ZeroDep ELSE l[i].dep
Have(i) == HaveIn(snap, i)

\* trackedRules: the companions that can be read, those that broke off after the id included.
Tracked == {f \in Stems : IsComp(meta[f])}

-----------------------------------------------------------------------------

Init ==
  /\ live \in [Ids -> [text : ValidTexts, etag : {1}, dep : UiDeps] \cup {Unborn}]
  /\ \A i \in Ids : IsLive(i) => NameFree(live[i].text, i)
  /\ yaral = [f \in Stems |-> NoFile]
  /\ meta = NoComps
  /\ cmd = "none" /\ pc = "idle"
  /\ snap = NoSnap
  /\ comps = NoComps
  /\ texts = [f \in Stems |-> NoFile]
  /\ opts = ZeroDep
  /\ work = {}
  /\ pend = Nothing
  /\ failed = FALSE
  /\ cmds = 0 /\ edits = 0
  /\ base = [f \in Stems |-> Nothing]
  /\ mishaps = {}

\* The process ends: nothing of it is kept.
Exit ==
  /\ cmd' = "none" /\ pc' = "idle"
  /\ snap' = NoSnap
  /\ comps' = NoComps
  /\ texts' = [f \in Stems |-> NoFile]
  /\ opts' = ZeroDep
  /\ work' = {}
  /\ pend' = Nothing
  /\ failed' = FALSE
  /\ mishaps' = {}
  /\ UNCHANGED <<cmds, edits>>

StartCommand(name, at) ==
  /\ pc = "idle"
  /\ cmds < MaxCommands
  /\ cmds' = cmds + 1
  /\ cmd' = name /\ pc' = at
  /\ UNCHANGED <<live, disk, pend, failed, edits, base>>

\* A command that ends before its first mutation: an error while it reads, an
\* invalid text, a blocked archived rule, an empty plan, a dry run, no --yes.
EndEarly ==
  /\ pc = "idle"
  /\ cmds < MaxCommands
  /\ cmds' = cmds + 1
  /\ UNCHANGED <<live, disk, run, edits, base, mishaps>>

-----------------------------------------------------------------------------
(* Pull *)

PullList ==
  /\ StartCommand("pull", "deps")
  /\ \E blank \in LeftOut("text"), bare \in LeftOut("etag") : snap' = SnapshotOf(blank, bare)
  /\ work' = ListedIn(snap')
  /\ UNCHANGED <<comps, texts, opts, mishaps>>

\* The deployments are listed after the rules.
PullDeps ==
  /\ pc = "deps"
  /\ snap' = [i \in Ids |-> IF snap[i] = Absent THEN Absent
                ELSE [snap[i] EXCEPT !.dep = IF IsLive(i) THEN live[i].dep ELSE ZeroDep]]
  /\ pc' = "text"
  /\ UNCHANGED <<live, disk, cmd, comps, texts, opts, work, pend, failed, cmds, edits,
                 base, mishaps>>

\* A warning: every companion gets the zero deployment.
PullDepsFails ==
  /\ "deps" \in Faults
  /\ pc = "deps"
  /\ snap' = [i \in Ids |-> IF snap[i] = Absent THEN Absent
                            ELSE [snap[i] EXCEPT !.dep = ZeroDep]]
  /\ pc' = "text"
  /\ mishaps' = mishaps \cup {"deps"}
  /\ UNCHANGED <<live, disk, cmd, comps, texts, opts, work, pend, failed, cmds, edits, base>>

\* What is written for a listed rule: a text, the version it has, and the etag recorded.
\* GetRule fills in a missing text, with the text of that moment, and then an etag that the
\* listing left out, if it has one itself; a listed etag is kept. Without a text nothing is
\* asked for the etag, and when GetRule fails both stay empty.
Fallback(i) ==
  LET told == IF snap[i].bare THEN 0 ELSE snap[i].etag
      given == IF snap[i].bare THEN {0, live[i].etag} ELSE {snap[i].etag}
  IN  {[text |-> snap[i].text, version |-> snap[i].etag, etag |-> told]} \cup
      (IF snap[i].text = Blank /\ IsLive(i)
         THEN {[text |-> live[i].text, version |-> live[i].etag, etag |-> e] : e \in given}
         ELSE {})

\* Mutant: the deployment does not reach the companion.
CompanionBare(i, etag) == [id |-> i, etag |-> etag, dep |-> ZeroDep]

CompanionOf(i, etag) == [id |-> i, etag |-> etag, dep |-> snap[i].dep]

PullText(i) ==
  /\ pc = "text"
  /\ i \in work
  /\ \E got \in Fallback(i) :
       /\ yaral' = [yaral EXCEPT ![snap[i].slug] = got.text]
       /\ base' = [base EXCEPT ![snap[i].slug] = <<i, got.version>>]
       /\ mishaps' = IF got.text = Blank THEN mishaps \cup {"text"} ELSE mishaps
       /\ pend' = [stem |-> snap[i].slug, comp |-> CompanionOf(i, got.etag)]
  /\ work' = work \ {i}
  /\ pc' = "meta"
  /\ UNCHANGED <<live, meta, cmd, snap, comps, texts, opts, failed, cmds, edits>>

\* PullRules returns at the first failed write. os.WriteFile truncates first.
PullTextFails(i) ==
  /\ "write" \in Faults
  /\ pc = "text"
  /\ i \in work
  /\ \/ UNCHANGED <<yaral, base>>
     \/ /\ yaral' = [yaral EXCEPT ![snap[i].slug] = Blank]
        /\ base' = [base EXCEPT ![snap[i].slug] = <<i, snap[i].etag>>]
  /\ Exit
  /\ UNCHANGED <<live, meta>>

PullMeta ==
  /\ pc = "meta"
  /\ meta' = [meta EXCEPT ![pend.stem] = pend.comp]
  /\ pend' = Nothing
  /\ pc' = "text"
  /\ UNCHANGED <<live, yaral, cmd, snap, comps, texts, opts, work, failed, cmds, edits,
                 base, mishaps>>

\* A companion that breaks off after its id still reads: what comes later in the file, the
\* etag and then the deployment field by field, is empty. One that breaks off earlier tells no
\* rule (Torn), and one that breaks off inside a value names something the server refuses.
CutDeps(dep) ==
  {ZeroDep, [ZeroDep EXCEPT !.enabled = dep.enabled],
   [dep EXCEPT !.archived = FALSE, !.freq = ""], [dep EXCEPT !.freq = ""]}
Cut(comp) ==
  {[comp EXCEPT !.etag = 0, !.dep = ZeroDep]} \cup {[comp EXCEPT !.dep = d] : d \in CutDeps(comp.dep)}

TornMeta ==
  {meta, [meta EXCEPT ![pend.stem] = Torn]}
    \cup {[meta EXCEPT ![pend.stem] = c] : c \in Cut(pend.comp)}

PullMetaFails ==
  /\ "write" \in Faults
  /\ pc = "meta"
  /\ meta' \in TornMeta
  /\ Exit
  /\ UNCHANGED <<live, yaral, base>>

PullDone ==
  /\ pc = "text"
  /\ work = {}
  /\ Exit
  /\ UNCHANGED <<live, disk, base>>

-----------------------------------------------------------------------------
(* Push: what each command decides to do *)

\* rules-create takes every .yaral without a .yaml, rules promote one of them.
New == {f \in Stems : yaral[f] # NoFile /\ meta[f] = NoFile}

CreatePlan(d) ==
  /\ StartCommand("create", "apply")
  /\ \E scope \in {New} \cup {{f} : f \in New} :
       /\ scope # {}
       /\ \A f \in scope : yaral[f] \in ValidTexts
       /\ work' = scope
       /\ texts' = [f \in Stems |-> IF f \in scope THEN yaral[f] ELSE NoFile]
  /\ opts' = d
  /\ UNCHANGED <<snap, comps, mishaps>>

\* rules-update compares every readable .yaral with the listed text, which is
\* empty for a rule that is gone or whose text could not be had.
UpdateWork(l) ==
  LET liveText(f) == IF l[meta[f].id] = Absent THEN Blank ELSE l[meta[f].id].text
  IN  {f \in Tracked : yaral[f] # NoFile /\ yaral[f] # liveText(f)}

UpdatePlan ==
  /\ StartCommand("update", "apply")
  /\ \E blank \in LeftOut("text") :
       LET l == SnapshotOf(blank, {})
           cands == UpdateWork(l)
       IN  /\ cands # {}
           /\ \A f \in cands : yaral[f] \in ValidTexts
           /\ snap' = l
           /\ work' = cands
           /\ comps' = [f \in Stems |-> IF f \in cands THEN meta[f] ELSE NoFile]
           /\ texts' = [f \in Stems |-> IF f \in cands THEN yaral[f] ELSE NoFile]
  /\ UNCHANGED <<opts, mishaps>>

\* rules-deploy, for all tracked rules or for one (--rule).
DeployWork(scope, l) == {f \in scope : Differs(meta[f].dep, HaveIn(l, meta[f].id))}

DeployPlan ==
  /\ StartCommand("deploy", "apply")
  /\ \E scope \in {Tracked} \cup {{f} : f \in Tracked} :
       LET l == SnapshotOf({}, {})
           cands == DeployWork(scope, l)
       IN  /\ cands # {}
           /\ \A f \in cands : ~Archived(meta[f].dep, HaveIn(l, meta[f].id))
           /\ snap' = l
           /\ work' = cands
           /\ comps' = [f \in Stems |-> IF f \in scope THEN meta[f] ELSE NoFile]
  /\ UNCHANGED <<texts, opts, mishaps>>

\* rules-disable goes by the companions alone.
DisablePlan ==
  /\ StartCommand("disable", "apply")
  /\ LET targets == {f \in Tracked : meta[f].dep.enabled}
     IN  /\ targets # {}
         /\ work' = targets
         /\ comps' = [f \in Stems |-> IF f \in targets THEN meta[f] ELSE NoFile]
  /\ UNCHANGED <<snap, texts, opts, mishaps>>

-----------------------------------------------------------------------------
(* Push: the calls. Each operator is the set of what a successful call on the *)
(* item may leave live and record; it is empty when the server has to refuse. *)

NewRule(text) == [text |-> text, etag |-> 1, dep |-> ZeroDep]

CreateResults(f) ==
  {[live |-> [live EXCEPT ![i] = NewRule(texts[f])],
    comp |-> [id |-> i, etag |-> 1, dep |-> opts]] :
      i \in {j \in Ids : live[j] = Unborn /\ NameFree(texts[f], j)}}

\* Mutant: the version of the listing instead of the companion's.
EtagListed(f) == snap[comps[f].id].etag

EtagSent(f) == comps[f].etag

\* The version an update returns.
EtagAfter(i) == live[i].etag + 1

\* UpdateRule is refused when the version has moved on; an empty etag is no guard.
UpdateResults(f) ==
  LET i == comps[f].id IN
  IF IsLive(i) /\ EtagSent(f) \in {0, live[i].etag} /\ NameFree(texts[f], i)
    THEN {[live |-> [live EXCEPT ![i].text = texts[f], ![i].etag = @ + 1],
           comp |-> [comps[f] EXCEPT !.etag = EtagAfter(i)]]}
    ELSE {}

\* The outcomes of UpdateRuleDeployment on rule i.
Deployments(i, mask, want) ==
  IF IsLive(i) /\ ~Conflicts(live[i].dep, mask, want)
    THEN Patched(live[i].dep, mask, want) ELSE {}

DeployMask(f) == Patch(comps[f].dep, Have(comps[f].id))

DeployResults(f) ==
  LET i == comps[f].id IN
  {[live |-> [live EXCEPT ![i].dep = d], comp |-> [comps[f] EXCEPT !.dep = d]] :
      d \in Deployments(i, DeployMask(f), comps[f].dep)}

\* Mutant: the companion is left as it was.
EchoIgnored(comp, d) == comp

\* rules-disable keeps the companion's frequency when the echo has none.
DisableEcho(comp, d) ==
  [comp EXCEPT !.dep = [d EXCEPT !.freq = IF @ # "" THEN @ ELSE comp.dep.freq]]

DisableResults(f) ==
  LET i == comps[f].id IN
  {[live |-> [live EXCEPT ![i].dep = d], comp |-> DisableEcho(comps[f], d)] :
      d \in Deployments(i, {"enabled"}, ZeroDep)}

Results(f) ==
  CASE cmd = "create"  -> CreateResults(f)
    [] cmd = "update"  -> UpdateResults(f)
    [] cmd = "deploy"  -> DeployResults(f)
    [] cmd = "disable" -> DisableResults(f)

\* Files are worked through in the order of their names.
Turn(f) == pc = "apply" /\ f \in work /\ \A g \in work : f <= g

\* What is left after an item, whatever became of it.
Rest(f) == work \ {f}

\* The call on f succeeded with result r, and its companion is to be written.
Applied(f, r, at) ==
  /\ live' = r.live
  /\ pend' = [stem |-> f, comp |-> r.comp]
  /\ pc' = at
  /\ work' = Rest(f)
  /\ UNCHANGED <<disk, cmd, snap, comps, texts, opts, failed, cmds, edits, mishaps>>

CreateCall(f) ==
  /\ Turn(f) /\ cmd = "create"
  /\ \E r \in CreateResults(f) :
       /\ Applied(f, r, "firstDeploy")
       /\ base' = [base EXCEPT ![f] = <<r.comp.id, r.comp.etag>>]

UpdateCall(f) ==
  /\ Turn(f) /\ cmd = "update"
  /\ \E r \in UpdateResults(f) :
       /\ Applied(f, r, "record")
       /\ base' = [base EXCEPT ![f] = <<r.comp.id, r.comp.etag>>]

DeployCall(f) ==
  /\ Turn(f) /\ cmd = "deploy"
  /\ \E r \in DeployResults(f) : Applied(f, r, "record")
  /\ UNCHANGED base

DisableCall(f) ==
  /\ Turn(f) /\ cmd = "disable"
  /\ \E r \in DisableResults(f) : Applied(f, r, "record")
  /\ UNCHANGED base

\* A 409 for an enabled flag that is what the companion wants counts as done; the
\* companion is refreshed from live.
AlreadyThere(f) ==
  /\ cmd = "deploy"
  /\ IsLive(comps[f].id)
  /\ Conflicts(live[comps[f].id].dep, DeployMask(f), comps[f].dep)

DeployAlready(f) ==
  /\ Turn(f)
  /\ AlreadyThere(f)
  /\ Applied(f, [live |-> live, comp |-> [comps[f] EXCEPT !.dep = live[comps[f].id].dep]],
             "record")
  /\ UNCHANGED base

\* GetRuleDeployment fails: the companion stays as it was.
DeployAlreadyUnread(f) ==
  /\ "api" \in Faults
  /\ Turn(f)
  /\ AlreadyThere(f)
  /\ work' = Rest(f)
  /\ mishaps' = mishaps \cup {"warn"}
  /\ UNCHANGED <<live, disk, cmd, pc, snap, comps, texts, opts, pend, failed, cmds, edits, base>>

\* FAIL: counted, and the next item is tried.
Fail(f) ==
  /\ failed' = TRUE
  /\ work' = Rest(f)
  /\ UNCHANGED <<disk, cmd, pc, snap, comps, texts, opts, pend, cmds, edits, base, mishaps>>

CallFails(f) ==
  /\ Turn(f)
  /\ "api" \in Faults \/ (Results(f) = {} /\ ~AlreadyThere(f))
  /\ Fail(f)
  /\ UNCHANGED live

\* The call took effect but returned an error.
CallLost(f) ==
  /\ "lostReply" \in Faults
  /\ Turn(f)
  /\ \E r \in Results(f) : live' = r.live
  /\ Fail(f)

\* The deployment of a rule just created, retries included.
FirstDeploy ==
  /\ pc = "firstDeploy"
  /\ LET i == pend.comp.id IN
     \E d \in Deployments(i, Fields, opts) :
       /\ live' = [live EXCEPT ![i].dep = d]
       /\ pend' = [pend EXCEPT !.comp.dep = d]
       /\ pc' = IF opts.enabled /\ opts.freq = "LIVE" /\ ~d.enabled THEN "redeploy" ELSE "record"
  /\ UNCHANGED <<disk, cmd, snap, comps, texts, opts, work, failed, cmds, edits, base, mishaps>>

\* A warning: the companion records what was asked for, whether or not one of
\* the attempts took effect.
FirstDeployFails ==
  /\ pc = "firstDeploy"
  /\ LET i == pend.comp.id
         reached == Deployments(i, Fields, opts)
     IN  \/ UNCHANGED live /\ ("api" \in Faults \/ reached = {})
         \/ "lostReply" \in Faults /\ \E d \in reached : live' = [live EXCEPT ![i].dep = d]
  /\ pc' = "record"
  /\ mishaps' = mishaps \cup {"warn"}
  /\ UNCHANGED <<disk, cmd, snap, comps, texts, opts, work, pend, failed, cmds, edits, base>>

\* Multi-event rules cannot run LIVE: asked again at a frequency they can run at.
RunnableFreq(d) == IF d.freq \in {"", "LIVE"} THEN "HOURLY" ELSE d.freq

Redeployments ==
  Deployments(pend.comp.id, Fields, [opts EXCEPT !.freq = RunnableFreq(pend.comp.dep)])

Redeploy ==
  /\ pc = "redeploy"
  /\ \E d \in Redeployments : /\ live' = [live EXCEPT ![pend.comp.id].dep = d]
                             /\ pend' = [pend EXCEPT !.comp.dep = d]
  /\ pc' = "record"
  /\ UNCHANGED <<disk, cmd, snap, comps, texts, opts, work, failed, cmds, edits, base, mishaps>>

RedeployFails ==
  /\ pc = "redeploy"
  /\ \/ UNCHANGED live /\ ("api" \in Faults \/ Redeployments = {})
     \/ /\ "lostReply" \in Faults
        /\ \E d \in Redeployments : live' = [live EXCEPT ![pend.comp.id].dep = d]
  /\ pc' = "record"
  /\ mishaps' = mishaps \cup {"warn"}
  /\ UNCHANGED <<disk, cmd, snap, comps, texts, opts, work, pend, failed, cmds, edits, base>>

Record ==
  /\ pc = "record"
  /\ meta' = [meta EXCEPT ![pend.stem] = pend.comp]
  /\ pend' = Nothing
  /\ pc' = "apply"
  /\ UNCHANGED <<live, yaral, cmd, snap, comps, texts, opts, work, failed, cmds, edits,
                 base, mishaps>>

\* WARN: the mutation still counts as done.
RecordFails ==
  /\ "write" \in Faults
  /\ pc = "record"
  /\ meta' \in TornMeta
  /\ pend' = Nothing
  /\ pc' = "apply"
  /\ mishaps' = mishaps \cup {"write"}
  /\ UNCHANGED <<live, yaral, cmd, snap, comps, texts, opts, work, failed, cmds, edits, base>>

PushDone ==
  /\ pc = "apply"
  /\ work = {}
  /\ Exit
  /\ UNCHANGED <<live, disk, base>>

-----------------------------------------------------------------------------
(* The process dies, at any point; a file being written may be left torn. *)

Crash ==
  /\ "crash" \in Faults
  /\ pc # "idle"
  /\ meta' \in IF pc \in {"meta", "record"} THEN TornMeta ELSE {meta}
  /\ \/ UNCHANGED <<yaral, base>>
     \/ \E i \in work :
          /\ pc = "text"
          /\ yaral' = [yaral EXCEPT ![snap[i].slug] = Blank]
          /\ base' = [base EXCEPT ![snap[i].slug] = <<i, snap[i].etag>>]
  /\ Exit
  /\ UNCHANGED live

(* Outside the tool *)

Outside(race) ==
  /\ pc = "idle" \/ race \in Faults
  /\ edits < MaxEdits
  /\ edits' = edits + 1
  /\ mishaps' = IF pc = "idle" THEN {} ELSE mishaps \cup {"outside"}
  /\ UNCHANGED <<run, cmds, base>>

\* A teammate creates or edits a rule; every edit makes a version.
UiText(i) ==
  /\ Outside("uiRace")
  /\ \E t \in ValidTexts :
       /\ NameFree(t, i)
       /\ \/ /\ live[i] = Unborn
             /\ \E d \in UiDeps : live' = [live EXCEPT ![i] = [text |-> t, etag |-> 1, dep |-> d]]
          \/ /\ IsLive(i)
             /\ live[i].text # t
             /\ live' = [live EXCEPT ![i].text = t, ![i].etag = @ + 1]
  /\ UNCHANGED disk

UiDep(i) ==
  /\ Outside("uiRace")
  /\ IsLive(i)
  /\ \E d \in UiDeps : d # live[i].dep /\ live' = [live EXCEPT ![i].dep = d]
  /\ UNCHANGED disk

UiDelete(i) ==
  /\ Outside("uiRace")
  /\ IsLive(i)
  /\ live' = [live EXCEPT ![i] = Gone]
  /\ UNCHANGED disk

\* The operator writes, edits or removes a .yaral.
EditText(f) ==
  /\ Outside("editRace")
  /\ \E t \in Texts \cup {NoFile} : t # yaral[f] /\ yaral' = [yaral EXCEPT ![f] = t]
  /\ UNCHANGED <<live, meta>>

\* The operator sets the deployment wanted in a companion.
EditWant(f) ==
  /\ Outside("editRace")
  /\ IsComp(meta[f])
  /\ \E d \in UiDeps : d # meta[f].dep /\ meta' = [meta EXCEPT ![f].dep = d]
  /\ UNCHANGED <<live, yaral>>

-----------------------------------------------------------------------------

Start == \/ PullList
         \/ \E d \in CreateDeps : CreatePlan(d)
         \/ UpdatePlan
         \/ DeployPlan
         \/ DisablePlan
         \/ EndEarly

PullStep == \/ PullDeps
            \/ PullDepsFails
            \/ \E i \in Ids : PullText(i) \/ PullTextFails(i)
            \/ PullMeta
            \/ PullMetaFails
            \/ PullDone

PushStep == \/ \E f \in Stems : \/ CreateCall(f) \/ UpdateCall(f) \/ DeployCall(f) \/ DisableCall(f)
                                \/ DeployAlready(f) \/ DeployAlreadyUnread(f)
                                \/ CallFails(f) \/ CallLost(f)
            \/ FirstDeploy
            \/ FirstDeployFails
            \/ Redeploy
            \/ RedeployFails
            \/ Record
            \/ RecordFails
            \/ PushDone

Environment == \/ \E i \in Ids : UiText(i) \/ UiDep(i) \/ UiDelete(i)
               \/ \E f \in Stems : EditText(f) \/ EditWant(f)

Next == Start \/ PullStep \/ PushStep \/ Crash \/ Environment

Spec == Init /\ [][Next]_vars

-----------------------------------------------------------------------------
(* Properties *)

\* Every variable has its type.
TypeOK ==
  /\ live \in [Ids -> Rule \cup {Unborn, Gone}]
  /\ yaral \in [Stems -> Texts \cup {Blank, NoFile}]
  /\ meta \in [Stems -> Companion \cup {NoFile, Torn}]
  /\ cmd \in {"none", "pull", "create", "update", "deploy", "disable"}
  /\ pc \in {"idle", "deps", "text", "meta", "apply", "firstDeploy", "redeploy", "record"}
  /\ snap \in [Ids -> Listed \cup {Absent}]
  /\ comps \in [Stems -> Companion \cup {NoFile}]
  /\ texts \in [Stems -> Texts \cup {Blank, NoFile}]
  /\ opts \in Dep
  /\ work \in (SUBSET Ids) \cup (SUBSET Stems)
  /\ pend \in Pending \cup {Nothing}
  /\ failed \in BOOLEAN
  /\ cmds \in 0..MaxCommands /\ edits \in 0..MaxEdits
  /\ base \in [Stems -> (Ids \X Nat) \cup {Nothing}]
  /\ mishaps \subseteq Mishaps

WrittenFor(f, i) == base[f] # Nothing /\ base[f][1] = i

\* "An out-of-band live edit since the last pull is rejected (etag mismatch) rather than
\* clobbered" (PushRulesUpdate): an update never overwrites an edit made since its .yaral was
\* last written for that rule.
EditRejected ==
  [][\A f \in Stems : UpdateCall(f) /\ WrittenFor(f, comps[f].id)
                     => base[f][2] = live[comps[f].id].etag]_vars

\* What holds of it: an update that sends an etag overwrites no such edit, across half-done
\* pulls, texts newer than their etag, lost replies and crashes between the two files; and one
\* goes out without an etag only where a listing can leave it out or a companion break off.
NoBlindRevert ==
  [][\A f \in Stems : UpdateCall(f) /\ WrittenFor(f, comps[f].id) =>
       \/ base[f][2] = live[comps[f].id].etag
       \/ comps[f].etag = 0 /\ Faults \cap {"etag", "write", "crash"} # {}]_vars

\* A deploy changes no field of a live deployment that its preview did not show
\* as different, even when others changed the deployment since the listing.
DeployOnlyPlanned ==
  [][\A f \in Stems : DeployCall(f) =>
       LET i == comps[f].id IN
       \A field \in DOMAIN ZeroDep :
         live'[i].dep[field] # live[i].dep[field] => comps[f].dep[field] # Have(i)[field]]_vars

\* No two companions claim one rule.
DistinctIds ==
  \A f, g \in Stems : IsComp(meta[f]) /\ IsComp(meta[g]) /\ meta[f].id = meta[g].id => f = g

Now(i) == IF IsLive(i) THEN live[i].dep ELSE ZeroDep

Says(dep, have) ==
  \/ ~Differs(dep, have)
  \/ cmd = "disable" /\ have.freq = "" /\ ~Differs([dep EXCEPT !.freq = ""], have)

\* A rules-deploy or rules-disable that reports no failure and met no mishap
\* leaves live as its companions wanted it when it started, short of a rule the
\* platform left disabled, and the companions saying what is live, short of the
\* frequency rules-disable keeps where the instance has none (push.go:469).
DeployConverges ==
  /\ pc = "apply" /\ cmd \in {"deploy", "disable"} /\ work = {}
  /\ ~failed /\ mishaps = {} /\ DistinctIds
  => \A f \in {g \in Stems : IsComp(comps[g])} :
       LET have == Now(comps[f].id)
           want == comps[f].dep
       IN  /\ Says(meta[f].dep, have)
           /\ cmd = "disable" => ~have.enabled
           /\ cmd = "deploy" =>
                \/ ~Differs(want, have)
                \/ "guard" \in Faults /\ ~Differs([want EXCEPT !.enabled = FALSE], have)

\* Rule i has its own pair of files: its text, its version (or none, where the listing left
\* it out) and its deployment.
Mirrored(i) ==
  LET f == Slug(live[i].text)
  IN  /\ IsComp(meta[f]) /\ meta[f].id = i
      /\ meta[f].etag = live[i].etag \/ (snap[i].bare /\ meta[f].etag = 0)
      /\ yaral[f] = live[i].text
      /\ ~Differs(meta[f].dep, live[i].dep)

PullEnds == pc = "text" /\ work = {}

\* What the next rules-create, rules-update and rules-deploy would take up.
Pushed ==
  LET now == SnapshotOf({}, {}) IN New \cup UpdateWork(now) \cup DeployWork(Tracked, now)

\* A pull that met no mishap gives every live rule its pair of files, and nothing in those is
\* to be created, updated or deployed. What is still pushed are leftovers: pairs of rules that
\* were deleted or renamed in the UI stay tracked, for no pull removes a file.
PullFaithful ==
  PullEnds /\ mishaps = {} =>
    LET liveIds == {i \in Ids : IsLive(i)} IN
    /\ \A i \in liveIds : Mirrored(i)
    /\ Pushed \cap {Slug(live[i].text) : i \in liveIds} = {}

\* "Deployment state is best-effort metadata; a rule still round-trips without
\* it" (PullRules): the pull that could not list deployments leaves nothing to
\* push either.
RoundTripsWithoutDeployments ==
  PullEnds /\ mishaps \subseteq {"deps"} => \A i \in Ids : IsLive(i) => Mirrored(i)

\* "Matching local to live is by server ID, never by slug, so non-unique display
\* names ... are handled" (docs/tips/02-architecture-client.md): every rule a
\* pull listed has a companion, whatever other rules are called.
NamesakesKept ==
  PullEnds /\ mishaps = {} => \A i \in ListedIn(snap) : \E f \in Tracked : meta[f].id = i

\* "A 409 already enabled/disabled means live already matches the desired state
\* for that field - the intended change is in effect" (PushRulesDeployFiltered):
\* a rule reported as in its desired state is in it.
NoopMeansInEffect ==
  [][\A f \in Stems : DeployAlready(f) =>
       ~Differs(comps[f].dep, live[comps[f].id].dep)]_vars

-----------------------------------------------------------------------------
(* The inductive invariant of the proofs (RulesProofs). *)

PullPcs == {"deps", "text", "meta"}
PendPcs == {"meta", "firstDeploy", "redeploy", "record"}

\* Types, and which working variables mean something when.
ShapeInv ==
  /\ TypeOK
  /\ pc = "idle" <=> cmd = "none"
  /\ pc \in PullPcs <=> cmd = "pull"
  /\ pc \in {"firstDeploy", "redeploy"} => cmd = "create"
  /\ pc \in PendPcs <=> pend # Nothing
  /\ pc = "idle" => work = {} /\ comps = NoComps
  /\ cmd = "pull" => work \subseteq ListedIn(snap) /\ comps = NoComps
  /\ cmd \in {"create", "update", "deploy", "disable"} => work \subseteq Stems
  /\ cmd \in {"create", "update"} => \A f \in work : texts[f] \in ValidTexts
  /\ cmd \in {"update", "deploy", "disable"} => \A f \in work : comps[f] # NoFile

\* A version that rule i has reached.
Known(i, version) ==
  version > 0 /\ live[i] # Unborn /\ (IsLive(i) => version <= live[i].etag)

\* A companion for file f: its version, if it has one, was reached, and is no later than the
\* one the file was last written for.
Fits(c, f) ==
  /\ c.etag = 0 => Faults \cap {"etag", "write", "crash"} # {}
  /\ c.etag # 0 => Known(c.id, c.etag) /\ (WrittenFor(f, c.id) => c.etag <= base[f][2])

\* Why the etag of a companion stands for the text beside it: whatever was read,
\* kept or is about to be written trails the live version, and the listing of a
\* pull trails no companion of a rule the pull has still to write.
VersionInv ==
  /\ \A i \in Ids : IsLive(i) => live[i].etag > 0
  /\ \A f \in Stems : IsComp(meta[f]) => Fits(meta[f], f)
  /\ \A f \in Stems : comps[f] # NoFile => Fits(comps[f], f)
  /\ pend # Nothing => Fits(pend.comp, pend.stem)
  /\ \A f \in Stems : base[f] # Nothing => Known(base[f][1], base[f][2])
  /\ \A i \in ListedIn(snap) : Known(i, snap[i].etag) /\ (snap[i].bare => "etag" \in Faults)
  /\ cmd = "pull" =>
       /\ \A f \in Stems : IsComp(meta[f]) /\ meta[f].id \in work
                           => meta[f].etag <= snap[meta[f].id].etag
       /\ pend # Nothing => pend.comp.id \notin work

\* Why a pull that nothing went wrong with mirrors the instance: it holds what is live, and
\* each rule it is through with has its pair of files, or the companion about to be written.
PairOf(i, etag) == [stem |-> snap[i].slug, comp |-> CompanionOf(i, etag)]
EtagsOf(i) == {live[i].etag} \cup (IF snap[i].bare THEN {0} ELSE {})
Paired(i) ==
  /\ yaral[snap[i].slug] = live[i].text
  /\ \E etag \in EtagsOf(i) :
       \/ meta[snap[i].slug] = CompanionOf(i, etag)
       \/ pend = PairOf(i, etag)

NamesApart ==
  \A i, j \in Ids : IsLive(i) /\ IsLive(j) /\ Slug(live[i].text) = Slug(live[j].text) => i = j

Mirroring ==
  /\ \A i \in Ids : IsLive(i) <=> i \in ListedIn(snap)
  /\ \A i \in ListedIn(snap) :
       /\ snap[i].slug = Slug(live[i].text) /\ snap[i].etag = live[i].etag
       /\ snap[i].text \in {Blank, live[i].text}
       /\ pc # "deps" => snap[i].dep = live[i].dep
  /\ pc = "deps" => work = ListedIn(snap)
  /\ pend # Nothing =>
       \E i \in ListedIn(snap) \ work : \E etag \in EtagsOf(i) : pend = PairOf(i, etag)
  /\ ~Namesakes => \A i \in ListedIn(snap) \ work : Paired(i)

MirrorInv ==
  /\ ~Namesakes => NamesApart
  /\ pc = "idle" => mishaps = {}
  /\ cmd = "pull" /\ mishaps = {} => Mirroring

\* The rules a deployment command is about keep their companions; while no item fails and
\* nobody interferes, an item's turn finds the instance as it was listed, and leaves it, and
\* the companion written or about to be, as was wanted.
Wanted(f, have) ==
  LET want == comps[f].dep
  IN  /\ cmd = "disable" => ~have.enabled
      /\ cmd = "deploy" =>
           \/ ~Differs(want, have)
           \/ "guard" \in Faults /\ ~Differs([want EXCEPT !.enabled = FALSE], have)

CompToBe(f) == IF pend # Nothing /\ pend.stem = f THEN pend.comp ELSE meta[f]

RightFiles ==
  /\ \A f \in Stems : comps[f] # NoFile => IsComp(meta[f]) /\ meta[f].id = comps[f].id
  /\ pend # Nothing => /\ pend.stem \notin work /\ comps[pend.stem] # NoFile
                       /\ pend.comp.id = comps[pend.stem].id

RightDeps ==
  ~failed /\ DistinctIds => \A f \in {g \in Stems : comps[g] # NoFile} :
    LET i == comps[f].id IN
    /\ f \in work /\ cmd = "deploy" => Have(i) = Now(i) /\ ~Archived(comps[f].dep, Have(i))
    /\ f \notin work => Says(CompToBe(f).dep, Now(i)) /\ Wanted(f, Now(i))

DeployInv ==
  /\ pc = "idle" => mishaps = {}
  /\ cmd \in {"deploy", "disable"} /\ mishaps = {} => RightFiles /\ RightDeps
=============================================================================
