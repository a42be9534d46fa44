---------------------------- MODULE GuardedCommand ----------------------------
(***************************************************************************)
(* A command of the CLI that changes something on the platform, from its   *)
(* first call to its exit. Such commands differ in the calls they make and *)
(* in what they do when one fails; the guard (deriveGuard), the audit log, *)
(* the choice between the two API generations (preferModern) and what a    *)
(* call may meet are the same. So a command is a program, a constant, and  *)
(* this module runs it. CommandTable has the programs.                     *)
(*                                                                         *)
(* A program leads with some steps and may go on with one of several       *)
(* routes, API generations mostly, of which a later one is taken when a    *)
(* call of an earlier one fails. A loop over objects is unrolled twice.    *)
(***************************************************************************)
EXTENDS Naturals, Sequences

CONSTANT Programs

\* What a step does:
\*   read     a call that changes nothing, or checks that end the command with an error
\*   check    a read that may show that there is nothing to do
\*   guard    deriveGuard
\*   aiGuard  refuseAIGenerationIfReadOnly
\*   send     a change that does not depend on the state read
\*   rewrite  the object is sent back whole as it was last read, but for the change
\*   tagged   the same, with the version last read; the platform refuses another one
\*   forget   a change that was asked for and is left out
\*   print    what was done is put out, which may fail; makes no call
\* and what is done when it fails:
\*   stop     the command fails
\*   fall     the next route is taken
\*   mayFall  the next route is taken if the answer was a certain error
\*   tell     a note; the steps up to and including the next change are left out
\*   later    the same, but the command fails at its end
\*   drop     as tell, without the note
\*   undo     the first change of the route is taken back, and the command fails
\*   undoAll  what the route made is deleted, and the command fails
Changing == {"send", "rewrite", "tagged"}
Step == [op : Changing \cup {"read", "check", "guard", "aiGuard", "forget", "print"},
         fails : {"stop", "fall", "mayFall", "tell", "later", "drop", "undo", "undoAll"}]
Program == [lead : Seq(Step), routes : Seq(Seq(Step)), skips : BOOLEAN]

IsGuard(s) == s.op \in {"guard", "aiGuard"}
Changes(steps) == {i \in DOMAIN steps : steps[i].op \in Changing}

\* Every change comes after a guard, of the lead or of its own route, and a failure is never
\* passed over together with a guard.
GuardedFirst(p) ==
  /\ \A i \in Changes(p.lead) : \E j \in 1 .. i - 1 : IsGuard(p.lead[j])
  /\ \A r \in DOMAIN p.routes : \A i \in Changes(p.routes[r]) :
       \/ \E j \in DOMAIN p.lead : IsGuard(p.lead[j])
       \/ \E j \in 1 .. i - 1 : IsGuard(p.routes[r][j])

PassesNoGuard(steps) ==
  \A i \in DOMAIN steps : steps[i].fails \in {"tell", "later", "drop"} =>
    /\ \A j \in i .. Len(steps) : ~IsGuard(steps[j])
    /\ steps[i].fails = "drop" => i \in Changes(steps)

\* A call that falls back leaves a route before a change of it was confirmed.
FallsClean(steps) ==
  \A i \in DOMAIN steps : steps[i].fails \in {"fall", "mayFall"} =>
    steps[i].op = "print" \/ \A j \in Changes(steps) : j >= i

\* Only one change can be taken back.
UndoesOne(steps) ==
  \A i \in DOMAIN steps : steps[i].fails = "undo" =>
    \A j, k \in Changes(steps) : j < i /\ k < i => j = k

Parts(p) == {p.lead} \cup {p.routes[r] : r \in DOMAIN p.routes}
Uses(p, op) == \E steps \in Parts(p) : \E i \in DOMAIN steps : steps[i].op = op

ASSUME ProgramsAssumption ==
  /\ Programs \subseteq Program
  /\ \A p \in Programs :
       /\ GuardedFirst(p)
       /\ \A steps \in Parts(p) : PassesNoGuard(steps) /\ FallsClean(steps) /\ UndoesOne(steps)
       /\ ~(Uses(p, "guard") /\ Uses(p, "aiGuard"))
       /\ p.skips => Len(p.routes) = 2
       /\ p.routes # <<>> => Changes(p.lead) = {}
       /\ \A i \in DOMAIN p.lead : p.lead[i].fails \notin {"fall", "mayFall"}

VARIABLES
  program,
  dry, yes,   \* --dry-run and --yes, which exclude each other
  capped,     \* --read-only or SECOPS_READONLY
  legacy,     \* --legacy
  route, next,  \* the step to come; route 0 is the lead
  allowed,    \* a guard let the command go on
  seen,       \* the last read showed the edit of somebody else
  failing,    \* a failure is to be reported at the end
  ending,    \* "running", or how it ended
  log,        \* decisions in audit.jsonl
  theirs,     \* an edit of the object by somebody else: "none", "made" or "lost"
  (* History, read by properties only. *)
  unlogged,   \* a record could not be written, and a note said so
  live,       \* changes in effect, as <<route, step>>
  unanswered, \* changes in effect whose call returned an error
  told,       \* changes left out with a note
  unprinted   \* routes that were left because what they had done could not be put out

flags == <<program, dry, yes, capped, legacy>>
guardedVars == <<flags, route, next, allowed, seen, failing, ending, log, theirs,
                 unlogged, live, unanswered, told, unprinted>>

Steps == IF route = 0 THEN program.lead ELSE program.routes[route]
IsStep == ending = "running" /\ next <= Len(Steps)
Now == Steps[next]

GoOn == next' = next + 1 /\ UNCHANGED <<route, ending>>
End(how) == ending' = how /\ UNCHANGED <<route, next>>

\* auditMutation: a record that cannot be written is told and changes nothing else.
Audit(decision) ==
  \/ log' = log \cup {decision} /\ UNCHANGED unlogged
  \/ unlogged' = TRUE /\ UNCHANGED log

-----------------------------------------------------------------------------
(* Steps *)

\* Mutant: --yes is looked at before read-only mode.
GuardYesFirst ==
  /\ IsStep /\ Now.op = "guard"
  /\ \/ yes /\ Audit("confirmed") /\ allowed' = TRUE /\ GoOn
     \/ ~yes /\ End("preview") /\ UNCHANGED <<log, unlogged, allowed>>
  /\ UNCHANGED <<flags, seen, failing, theirs, live, unanswered, told, unprinted>>

\* deriveGuard; the interactive confirmation is never reached.
Guard ==
  /\ IsStep /\ Now.op = "guard"
  /\ \/ /\ capped
        /\ IF yes THEN Audit("read-only") ELSE UNCHANGED <<log, unlogged>>
        /\ End("preview") /\ UNCHANGED allowed
     \/ ~capped /\ ~yes /\ End("preview") /\ UNCHANGED <<log, unlogged, allowed>>
     \/ ~capped /\ yes /\ Audit("confirmed") /\ allowed' = TRUE /\ GoOn
  /\ UNCHANGED <<flags, seen, failing, theirs, live, unanswered, told, unprinted>>

\* refuseAIGenerationIfReadOnly: no --yes is asked for and nothing else is recorded.
AiGuard ==
  /\ IsStep /\ Now.op = "aiGuard"
  /\ \/ capped /\ Audit("read-only") /\ End("refused") /\ UNCHANGED allowed
     \/ ~capped /\ allowed' = TRUE /\ GoOn /\ UNCHANGED <<log, unlogged>>
  /\ UNCHANGED <<flags, seen, failing, theirs, live, unanswered, told, unprinted>>

ReadStep ==
  /\ IsStep /\ Now.op \in {"read", "check"}
  /\ \/ GoOn /\ seen' = (theirs = "made")
     \/ Now.op = "check" /\ End("same") /\ UNCHANGED seen
  /\ UNCHANGED <<flags, allowed, failing, log, theirs, unlogged, live, unanswered, told,
                 unprinted>>

Emit ==
  /\ IsStep /\ Now.op = "print" /\ GoOn
  /\ UNCHANGED <<flags, allowed, seen, failing, log, theirs, unlogged, live, unanswered, told,
                 unprinted>>

Forget ==
  /\ IsStep /\ Now.op = "forget" /\ GoOn
  /\ UNCHANGED <<flags, allowed, seen, failing, log, theirs, unlogged, live, unanswered, told,
                 unprinted>>

\* What a change does on the platform: an edit the last read did not show is lost with it
\* if the object is sent back whole.
Here == <<route, next>>
Unseen == theirs = "made" /\ ~seen
Effective == Now.op \in Changing /\ (Now.op = "tagged" => ~Unseen)
Overwrite == theirs' = IF Now.op = "rewrite" /\ Unseen THEN "lost" ELSE theirs

\* Mutant: an answer that confirms the change counts as a failure of the route, as one that
\* reports a part that failed would.
ChangeThenFail ==
  /\ IsStep /\ Effective
  /\ live' = live \cup {Here} /\ Overwrite
  /\ \/ GoOn
     \/ route \in 1 .. Len(program.routes) - 1 /\ route' = route + 1 /\ next' = 1 /\ UNCHANGED ending
  /\ UNCHANGED <<flags, allowed, seen, failing, log, unlogged, unanswered, told, unprinted>>

ChangeStep ==
  /\ IsStep /\ Effective
  /\ live' = live \cup {Here} /\ Overwrite
  /\ GoOn
  /\ UNCHANGED <<flags, allowed, seen, failing, log, unlogged, unanswered, told, unprinted>>

\* A call ends with an error, though what it asked for may be in effect.
Fail ==
  \/ UNCHANGED <<live, unanswered, theirs>>
  \/ /\ Effective /\ Overwrite
     /\ live' = live \cup {Here} /\ unanswered' = unanswered \cup {Here}

\* A failure of a step that makes no call is one of the output.
Failing(ways) == IsStep /\ ~IsGuard(Now) /\ Now.op # "forget" /\ Now.fails \in ways

Stop ==
  /\ Failing({"stop", "mayFall"}) /\ Fail
  /\ End("failed")
  /\ UNCHANGED <<flags, allowed, seen, failing, log, unlogged, told, unprinted>>

Fall ==
  /\ Failing({"fall", "mayFall"}) /\ Fail
  /\ route < Len(program.routes) /\ route' = route + 1 /\ next' = 1
  /\ unprinted' = IF Now.op = "print" THEN unprinted \cup {route} ELSE unprinted
  /\ UNCHANGED <<flags, allowed, seen, failing, ending, log, unlogged, told>>

\* Mutant: a failure passes over all that is left.
PassAll(i) == i = Len(Steps) /\ \E j \in DOMAIN Steps : Steps[j].op \in Changing

\* The next change, this step or a later one, and where it goes on without it.
NextChange(i) ==
  /\ i \in next .. Len(Steps) /\ Steps[i].op \in Changing
  /\ \A j \in next .. i - 1 : Steps[j].op \notin Changing

PassOver ==
  /\ Failing({"tell", "later", "drop"}) /\ Fail
  /\ \E i \in DOMAIN Steps :
       /\ NextChange(i) /\ next' = i + 1
       /\ told' = IF Now.fails = "drop" THEN told ELSE told \cup {<<route, i>>}
  /\ failing' = (failing \/ Now.fails = "later")
  /\ UNCHANGED <<flags, route, allowed, seen, ending, log, unlogged, unprinted>>

\* The call that takes back or deletes may fail too, which ends with another error.
OfRoute(changes) == {c \in changes : c[1] = route}
Undo ==
  /\ Failing({"undo", "undoAll"})
  /\ \E lost \in {{}, {Here}} :
       /\ lost # {} => Effective
       /\ IF lost # {} THEN Overwrite ELSE UNCHANGED theirs
       /\ unanswered' = unanswered \cup lost
       /\ LET gone == IF Now.fails = "undo" THEN OfRoute(live) ELSE OfRoute(live \cup lost)
          IN  \/ live' = (live \cup lost) \ gone /\ End("undone")
              \/ live' \in {live \cup lost, (live \cup lost) \ gone} /\ End("halfway")
  /\ UNCHANGED <<flags, allowed, seen, failing, log, unlogged, told, unprinted>>

\* The lead is over, or the command is.
Turn ==
  /\ ending = "running" /\ next > Len(Steps)
  /\ IF route = 0 /\ program.routes # <<>>
     THEN /\ route' = IF program.skips /\ legacy THEN 2 ELSE 1
          /\ next' = 1 /\ UNCHANGED ending
     ELSE End(IF failing THEN "failed" ELSE "done")
  /\ UNCHANGED <<flags, allowed, seen, failing, log, theirs, unlogged, live, unanswered, told,
                 unprinted>>

Kill ==
  /\ ending = "running" /\ End("killed")
  /\ UNCHANGED <<flags, allowed, seen, failing, log, theirs, unlogged, live, unanswered, told,
                 unprinted>>

\* Somebody edits the object, where that makes a difference.
EditElsewhere ==
  /\ ending = "running" /\ theirs = "none" /\ theirs' = "made"
  /\ Uses(program, "rewrite") \/ Uses(program, "tagged")
  /\ UNCHANGED <<flags, route, next, allowed, seen, failing, ending, log,
                 unlogged, live, unanswered, told, unprinted>>

-----------------------------------------------------------------------------
(* Specification *)

\* --legacy says nothing to the other programs.
GuardedInit ==
  /\ program \in Programs
  /\ dry \in BOOLEAN /\ yes \in BOOLEAN /\ ~(dry /\ yes)
  /\ capped \in BOOLEAN /\ legacy \in BOOLEAN /\ (legacy => program.skips)
  /\ route = 0 /\ next = 1
  /\ allowed = FALSE /\ seen = FALSE /\ failing = FALSE
  /\ ending = "running" /\ log = {} /\ theirs = "none"
  /\ unlogged = FALSE /\ live = {} /\ unanswered = {} /\ told = {} /\ unprinted = {}

GuardedNext ==
  \/ Guard \/ AiGuard \/ ReadStep \/ ChangeStep \/ Emit \/ Forget
  \/ Stop \/ Fall \/ PassOver \/ Undo
  \/ Turn \/ Kill \/ EditElsewhere

GuardedSpec == GuardedInit /\ [][GuardedNext]_guardedVars

-----------------------------------------------------------------------------
(* Properties *)

Ran == {<<0, i>> : i \in Changes(program.lead)}
         \cup {<<route, i>> : i \in Changes(Steps)}

GuardedTypeOK ==
  /\ program \in Programs
  /\ dry \in BOOLEAN /\ yes \in BOOLEAN /\ capped \in BOOLEAN /\ legacy \in BOOLEAN
  /\ allowed \in BOOLEAN /\ seen \in BOOLEAN /\ failing \in BOOLEAN /\ unlogged \in BOOLEAN
  /\ route \in 0 .. Len(program.routes) /\ next \in 1 .. Len(Steps) + 1
  /\ ending \in {"running", "done", "same", "preview", "refused", "failed", "undone",
                  "halfway", "killed"}
  /\ log \subseteq {"confirmed", "read-only"} /\ theirs \in {"none", "made", "lost"}
  /\ live \subseteq Nat \X Nat /\ unanswered \subseteq Nat \X Nat /\ told \subseteq Nat \X Nat
  /\ unprinted \subseteq Nat

\* Whatever fails and whenever the process dies, nothing is changed in read-only mode or in
\* a preview, and each change of a guarded command has its --yes and, but for a failure that
\* is told, its record, which is on disk before the first call. A mutation that read-only
\* mode turned down has a record too (deriveGuard, auditMutation, readonly_audit.go:58-94).
EffectsAccounted ==
  /\ live # {} =>
       /\ ~capped /\ ending \notin {"preview", "refused"}
       /\ Uses(program, "guard") => yes /\ ("confirmed" \in log \/ unlogged)
  /\ ending = "preview" /\ capped /\ yes => "read-only" \in log \/ unlogged

\* A change whose call was answered with an error, or whose route was left because its output
\* failed.
InDoubt(c) == c \in unanswered \/ c[1] \in unprinted

\* How a command ends says what it did: one that ends well made each change of the way it
\* took or told of it, wherever it fell back or passed over a failure (but for what it drops
\* without a word, see NothingDropped); one that says it took everything back left nothing
\* but what is in doubt (restoreRemovedChart, DeepCopyDashboard).
OutcomeTrue ==
  /\ ending = "done" => \A c \in Ran :
       \/ c \in live \cup told
       \/ (IF c[1] = 0 THEN program.lead ELSE program.routes[c[1]])[c[2]].fails = "drop"
  /\ ending = "undone" => \A c \in live : InDoubt(c)

\* The same change is made by two generations of the API only if the call of the first one
\* took effect and yet returned an error, or the first one could not put out what it had done
\* (preferModern, which cannot tell these from a call that failed): a change that was
\* confirmed, and whose output did not fail, is never repeated.
TwiceOnlyInDoubt ==
  \A c, d \in live : 0 < c[1] /\ c[1] < d[1] => InDoubt(c)

\* "Never retry a mutating POST that 500s: [it] may have already applied server-side"
\* (docs/tips/16-gotchas.md:41-43).
NeverTwice == \A c, d \in live : 0 < c[1] => c[1] = d[1]

\* A command that ends well has made each change it was asked for, or told of it.
Asked == Ran \cup {<<0, i>> : i \in {j \in DOMAIN program.lead : program.lead[j].op = "forget"}}
NothingDropped == ending = "done" => Asked \subseteq live \cup told

\* "Never silently overwrite a teammate's edit" (docs/design/siem.md:234-235).
OthersKept == theirs # "lost"

\* "A failed copy never leaves an orphan live on the instance" (dashboards_copy.go:103-105).
FailedCopyGone ==
  ending = "failed" /\ unanswered = {} => 
    \A i \in DOMAIN program.lead : program.lead[i].fails # "undoAll" \/ live = {}
=============================================================================
