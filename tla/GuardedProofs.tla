---------------------------- MODULE GuardedProofs ----------------------------
(***************************************************************************)
(* Proofs about GuardedCommand and ReadCommand, for every set of programs  *)
(* that keeps ProgramsAssumption or ReadAssumption: the theorems hold for  *)
(* a command added to the tables tomorrow, if its program keeps it too.    *)
(***************************************************************************)
EXTENDS GuardedCommand, ReadCommand, FiniteSetTheorems, TLAPS

-----------------------------------------------------------------------------
(* The inductive invariant *)

\* Where the changes in effect were made: in a route that was left, and then in doubt, or in
\* the present one, before the next step.
LiveInv ==
  \A c \in live :
    /\ c[1] # route => c[1] < route /\ InDoubt(c)
    /\ c[1] = route => c[2] \in Changes(Steps) /\ (ending = "running" => c[2] < next)

\* What a guard lets pass, and when it has been passed.
GuardInv ==
  /\ allowed =>
       /\ ~capped
       /\ Uses(program, "guard") => yes /\ ("confirmed" \in log \/ unlogged)
  /\ live # {} => allowed
  /\ ending = "running" =>
       /\ \A i \in DOMAIN Steps : i < next /\ IsGuard(Steps[i]) => allowed
       /\ route > 0 => \A i \in DOMAIN program.lead : IsGuard(program.lead[i]) => allowed
  /\ ending \in {"preview", "refused"} => ~allowed
  /\ ending = "preview" /\ capped /\ yes => "read-only" \in log \/ unlogged

\* A running command has made, told of or dropped each change before its next step.
DoneInv ==
  /\ ending \in {"running", "done"} =>
       \A i \in Changes(Steps) : i < next =>
         <<route, i>> \in live \cup told \/ Steps[i].fails = "drop"
  /\ ending = "done" => next > Len(Steps)
  /\ ending = "undone" => \A c \in live : InDoubt(c)

GInv == GuardedTypeOK /\ LiveInv /\ GuardInv /\ DoneInv

-----------------------------------------------------------------------------
(* The programs *)

\* What ProgramsAssumption says of the program that runs and of the part it is in.
LEMMA ProgramFacts ==
  ASSUME GuardedTypeOK
  PROVE  /\ program \in Program
         /\ GuardedFirst(program)
         /\ Steps \in Seq(Step) /\ Steps \in Parts(program)
         /\ PassesNoGuard(Steps) /\ FallsClean(Steps)
         /\ ~(Uses(program, "guard") /\ Uses(program, "aiGuard"))
         /\ program.skips => Len(program.routes) = 2
         /\ program.routes # <<>> => Changes(program.lead) = {}
         /\ route = 0 => \A i \in DOMAIN Steps : Steps[i].fails \notin {"fall", "mayFall"}
<1>1. program \in Programs /\ program \in Program
  BY ProgramsAssumption DEF GuardedTypeOK
<1>2. Steps \in Seq(Step) /\ Steps \in Parts(program)
  <2>1. CASE route = 0
    BY <1>1, <2>1 DEF Steps, Parts, Program
  <2>2. CASE route # 0
    <3>1. route \in DOMAIN program.routes
      BY <1>1, <2>2 DEF GuardedTypeOK, Program
    <3> QED BY <1>1, <2>2, <3>1 DEF Steps, Parts, Program
  <2> QED BY <2>1, <2>2
<1>3. route = 0 => Steps = program.lead
  BY DEF Steps
<1> QED BY <1>1, <1>2, <1>3, ProgramsAssumption DEF Parts

\* The next step is one of the program's.
LEMMA NowIsStep ==
  ASSUME GuardedTypeOK, IsStep
  PROVE  next \in DOMAIN Steps /\ Now \in Step /\ Now = Steps[next]
BY ProgramFacts DEF IsStep, Now, GuardedTypeOK

-----------------------------------------------------------------------------
(* The steps *)

LEMMA InitGInv ==
  ASSUME GuardedInit
  PROVE  GInv
<1>1. program \in Programs /\ program.lead \in Seq(Step) /\ program.routes \in Seq(Seq(Step))
  BY ProgramsAssumption DEF GuardedInit, Program
<1>2. Len(program.lead) \in Nat /\ Len(program.routes) \in Nat /\ Steps = program.lead
  BY <1>1 DEF GuardedInit, Steps
<1>3. GuardedTypeOK
  <2>1. route \in 0 .. Len(program.routes) /\ next \in 1 .. Len(Steps) + 1
    BY <1>2 DEF GuardedInit
  <2>2. log \subseteq {"confirmed", "read-only"}
        /\ live \subseteq Nat \X Nat /\ unanswered \subseteq Nat \X Nat /\ told \subseteq Nat \X Nat
        /\ unprinted \subseteq Nat
    BY DEF GuardedInit
  <2> QED BY <1>1, <2>1, <2>2 DEF GuardedInit, GuardedTypeOK
<1>4. LiveInv /\ GuardInv
  BY <1>1, <1>2 DEF GuardedInit, LiveInv, InDoubt, GuardInv
<1>5. DoneInv
  BY <1>1, <1>2 DEF GuardedInit, DoneInv, InDoubt, Changes
<1> QED BY <1>3, <1>4, <1>5 DEF GInv

\* A step within a part leaves the part, and the next step stays within it.
LEMMA SamePart ==
  ASSUME GuardedTypeOK, UNCHANGED flags, route' = route
  PROVE  /\ Steps' = Steps /\ program' = program
         /\ Len(Steps) \in Nat /\ DOMAIN Steps = 1 .. Len(Steps)
BY ProgramFacts DEF flags, Steps

\* A guard is passed, or ends the command.
LEMMA GuardKeeps ==
  ASSUME GInv, Guard \/ AiGuard
  PROVE  GInv'
<1>1. UNCHANGED flags /\ route' = route /\ IsStep /\ IsGuard(Now) /\ Now = Steps[next]
  BY DEF Guard, AiGuard, GoOn, End, IsGuard, Now
<1>2. GuardedTypeOK /\ LiveInv /\ GuardInv /\ DoneInv
  BY DEF GInv
<1>3. /\ Steps' = Steps /\ program' = program
      /\ Len(Steps) \in Nat /\ DOMAIN Steps = 1 .. Len(Steps)
  BY <1>1, <1>2, SamePart
<1>4. next \in DOMAIN Steps /\ ~(Uses(program, "guard") /\ Uses(program, "aiGuard"))
      /\ Steps \in Parts(program)
  BY <1>1, <1>2, ProgramFacts, NowIsStep
<1>5. Now.op = "aiGuard" => Uses(program, "aiGuard")
  BY <1>1, <1>4 DEF Uses
<1>6. Now.op = "guard" => Uses(program, "guard")
  BY <1>1, <1>4 DEF Uses
<1>7. GuardedTypeOK'
  <2>1. log' \subseteq {"confirmed", "read-only"} /\ unlogged' \in BOOLEAN
    BY <1>2 DEF GuardedTypeOK, Guard, AiGuard, Audit
  <2>2. next' \in 1 .. Len(Steps) + 1 /\ ending' \in {"running", "preview", "refused"}
    <3>1. next' = next \/ next' = next + 1
      BY DEF Guard, AiGuard, GoOn, End
    <3>2. ending' \in {"running", "preview", "refused"}
      BY <1>1 DEF Guard, AiGuard, GoOn, End, IsStep
    <3> QED BY <3>1, <3>2, <1>3, <1>4
  <2>4. allowed' = allowed \/ allowed' = TRUE
    BY DEF Guard, AiGuard
  <2>3. UNCHANGED <<seen, failing, theirs, live, unanswered, told, unprinted>>
    BY DEF Guard, AiGuard
  <2> QED BY <1>1, <1>2, <1>3, <2>1, <2>2, <2>3, <2>4 DEF GuardedTypeOK, flags
<1>8. LiveInv'
  BY <1>1, <1>2, <1>3, <1>4 DEF LiveInv, InDoubt, Guard, AiGuard, GoOn, End, IsStep, GuardedTypeOK
<1>9. GuardInv'
  <2>1. CASE Guard
    BY <2>1, <1>1, <1>2, <1>3, <1>4, <1>6 DEF GuardInv, Guard, GoOn, End, Audit, flags, IsStep, GuardedTypeOK
  <2>2. CASE AiGuard
    BY <2>2, <1>1, <1>2, <1>3, <1>4, <1>5 DEF GuardInv, AiGuard, GoOn, End, Audit, flags, IsStep, GuardedTypeOK
  <2> QED BY <2>1, <2>2
<1>10. DoneInv'
  <2>1. next \notin Changes(Steps)
    BY <1>1 DEF Changes, Changing, IsGuard
  <2> QED BY <2>1, <1>1, <1>2, <1>3, <1>4 DEF DoneInv, InDoubt, Guard, AiGuard, GoOn, End, IsStep, GuardedTypeOK, Changes
<1> QED BY <1>7, <1>8, <1>9, <1>10 DEF GInv

\* Nothing is changed by a read, by output, by a change that is left out, by a kill or by an edit
\* elsewhere.
LEMMA QuietKeeps ==
  ASSUME GInv, ReadStep \/ Emit \/ Forget \/ Kill \/ EditElsewhere
  PROVE  GInv'
<1>1. /\ UNCHANGED <<flags, allowed, log, unlogged, live, unanswered, told, unprinted>> /\ route' = route
      /\ ending = "running"
  BY DEF ReadStep, Emit, Forget, Kill, EditElsewhere, GoOn, End, IsStep
<1>2. GuardedTypeOK /\ LiveInv /\ GuardInv /\ DoneInv
  BY DEF GInv
<1>3. /\ Steps' = Steps /\ program' = program
      /\ Len(Steps) \in Nat /\ DOMAIN Steps = 1 .. Len(Steps)
  BY <1>1, <1>2, SamePart
<1>4. \/ ending' \in {"same", "killed"} /\ next' = next
      \/ ending' = "running" /\ next' = next
      \/ ending' = "running" /\ next' = next + 1 /\ next \in DOMAIN Steps
         /\ next \notin Changes(Steps) /\ ~IsGuard(Steps[next])
  BY <1>1, <1>2, NowIsStep DEF ReadStep, Emit, Forget, Kill, EditElsewhere, GoOn, End, IsStep, Now,
     Changes, Changing, IsGuard
<1>5. GuardedTypeOK'
  <2>1. next' \in 1 .. Len(Steps) + 1 /\ ending' \in {"running", "same", "killed"}
    BY <1>1, <1>2, <1>3, <1>4 DEF GuardedTypeOK
  <2>2. seen' \in BOOLEAN /\ failing' \in BOOLEAN /\ theirs' \in {"none", "made", "lost"}
    BY <1>2 DEF GuardedTypeOK, ReadStep, Emit, Forget, Kill, EditElsewhere
  <2> QED BY <1>1, <1>2, <1>3, <2>1, <2>2 DEF GuardedTypeOK, flags
<1>6. LiveInv'
  BY <1>1, <1>2, <1>3, <1>4 DEF LiveInv, InDoubt, GuardedTypeOK
<1>7. GuardInv'
  BY <1>1, <1>2, <1>3, <1>4 DEF GuardInv, flags, GuardedTypeOK
<1>8. DoneInv'
  BY <1>1, <1>2, <1>3, <1>4 DEF DoneInv, InDoubt, GuardedTypeOK, Changes
<1> QED BY <1>5, <1>6, <1>7, <1>8 DEF GInv

\* A change comes after its guard.
LEMMA ChangeAllowed ==
  ASSUME GInv, IsStep, Now.op \in Changing
  PROVE  allowed
<1>1. GuardedTypeOK /\ GuardInv /\ next \in DOMAIN Steps /\ Now = Steps[next]
  BY NowIsStep DEF GInv
<1>2. GuardedFirst(program) /\ program \in Program
  BY <1>1, ProgramFacts
<1>3. next \in Changes(Steps)
  BY <1>1 DEF Changes
<1>4. CASE route = 0
  BY <1>1, <1>2, <1>3, <1>4 DEF GuardedFirst, GuardInv, Steps, IsStep, GuardedTypeOK, Program
<1>5. CASE route > 0
  <2>1. route \in DOMAIN program.routes /\ Steps = program.routes[route]
    BY <1>1, <1>2, <1>5 DEF GuardedTypeOK, Steps, Program
  <2>2. CASE \E j \in DOMAIN program.lead : IsGuard(program.lead[j])
    BY <2>2, <1>1, <1>5 DEF GuardInv, IsStep
  <2>3. CASE \E j \in 1 .. next - 1 : IsGuard(program.routes[route][j])
    BY <2>1, <2>3, <1>1 DEF GuardInv, IsStep, GuardedTypeOK
  <2> QED BY <2>1, <2>2, <2>3, <1>2, <1>3 DEF GuardedFirst
<1> QED BY <1>1, <1>4, <1>5 DEF GuardedTypeOK

\* Here is a change of the part that runs.
LEMMA HereFacts ==
  ASSUME GuardedTypeOK, IsStep
  PROVE  /\ Here = <<route, next>> /\ Here \in Nat \X Nat
         /\ Effective => next \in Changes(Steps)
         /\ Overwrite => theirs' \in {"none", "made", "lost"}
<1>1. next \in DOMAIN Steps /\ Now = Steps[next]
  BY NowIsStep
<1>2. route \in Nat /\ next \in Nat
  BY ProgramFacts DEF GuardedTypeOK, Program
<1> QED BY <1>1, <1>2 DEF Here, Effective, Changes, Overwrite, GuardedTypeOK

LEMMA ChangeKeeps ==
  ASSUME GInv, ChangeStep
  PROVE  GInv'
<1>1. /\ UNCHANGED <<flags, allowed, seen, failing, log, unlogged, unanswered, told, unprinted>>
      /\ route' = route /\ ending' = "running" /\ ending = "running" /\ next' = next + 1
      /\ live' = live \cup {Here} /\ IsStep /\ Effective /\ Overwrite
  BY DEF ChangeStep, GoOn, IsStep
<1>2. GuardedTypeOK /\ LiveInv /\ GuardInv /\ DoneInv
  BY DEF GInv
<1>3. /\ Steps' = Steps /\ program' = program
      /\ Len(Steps) \in Nat /\ DOMAIN Steps = 1 .. Len(Steps)
  BY <1>1, <1>2, SamePart
<1>4. /\ Here = <<route, next>> /\ Here \in Nat \X Nat /\ next \in Changes(Steps)
      /\ theirs' \in {"none", "made", "lost"} /\ next \in DOMAIN Steps
  BY <1>1, <1>2, HereFacts, NowIsStep
<1>5. allowed /\ ~IsGuard(Steps[next])
  BY <1>1, <1>2, <1>4, ChangeAllowed DEF Effective, Changes, IsGuard, Changing
<1>6. GuardedTypeOK'
  <2>1. live' \subseteq Nat \X Nat
    BY <1>1, <1>2, <1>4 DEF GuardedTypeOK
  <2>2. next' \in 1 .. Len(Steps) + 1
    BY <1>1, <1>3, <1>4
  <2> QED BY <1>1, <1>2, <1>3, <1>4, <2>1, <2>2 DEF GuardedTypeOK, flags
<1>7. LiveInv'
  BY <1>1, <1>2, <1>3, <1>4 DEF LiveInv, InDoubt, GuardedTypeOK
<1>8. GuardInv'
  BY <1>1, <1>2, <1>3, <1>4, <1>5 DEF GuardInv, flags, GuardedTypeOK
<1>9. DoneInv'
  BY <1>1, <1>2, <1>3, <1>4 DEF DoneInv, InDoubt, GuardedTypeOK, Changes
<1> QED BY <1>6, <1>7, <1>8, <1>9 DEF GInv

\* What a failed call leaves: nothing, or a change without an answer.
LEMMA FailFacts ==
  ASSUME GInv, IsStep, Fail, Now = Steps[next]
  PROVE  /\ unanswered \subseteq unanswered' /\ unanswered' \subseteq Nat \X Nat
         /\ live \subseteq live' /\ live' \subseteq Nat \X Nat
         /\ theirs' \in {"none", "made", "lost"}
         /\ \A c \in live' :
              c \in live \/ (c = <<route, next>> /\ c \in unanswered' /\ next \in Changes(Steps))
         /\ live' # live => allowed
<1>1. GuardedTypeOK
  BY DEF GInv
<1>2. CASE UNCHANGED <<live, unanswered, theirs>>
  BY <1>1, <1>2 DEF GuardedTypeOK
<1>3. CASE /\ Effective /\ Overwrite
           /\ live' = live \cup {Here} /\ unanswered' = unanswered \cup {Here}
  <2>1. allowed
    BY <1>3, ChangeAllowed DEF Effective
  <2>2. /\ Here = <<route, next>> /\ Here \in Nat \X Nat /\ next \in Changes(Steps)
        /\ theirs' \in {"none", "made", "lost"}
    BY <1>1, <1>3, HereFacts
  <2> QED BY <1>1, <1>3, <2>1, <2>2 DEF GuardedTypeOK
<1> QED BY <1>2, <1>3 DEF Fail

LEMMA StopKeeps ==
  ASSUME GInv, Stop
  PROVE  GInv'
<1>1. /\ UNCHANGED <<flags, allowed, seen, failing, log, unlogged, told, unprinted>>
      /\ route' = route /\ next' = next /\ ending = "running" /\ ending' = "failed"
      /\ IsStep /\ Fail
  BY DEF Stop, Failing, End, IsStep
<1>2. GuardedTypeOK /\ LiveInv /\ GuardInv /\ DoneInv
  BY DEF GInv
<1>3. /\ Steps' = Steps /\ program' = program
      /\ Len(Steps) \in Nat /\ DOMAIN Steps = 1 .. Len(Steps)
  BY <1>1, <1>2, SamePart
<1>4. /\ unanswered \subseteq unanswered' /\ unanswered' \subseteq Nat \X Nat
      /\ live' \subseteq Nat \X Nat /\ theirs' \in {"none", "made", "lost"}
      /\ \A c \in live' :
           c \in live \/ (c = <<route, next>> /\ c \in unanswered' /\ next \in Changes(Steps))
      /\ live' # live => allowed
  BY <1>1, <1>2, NowIsStep, FailFacts
<1>5. GuardedTypeOK'
  BY <1>1, <1>2, <1>3, <1>4 DEF GuardedTypeOK, flags
<1>6. LiveInv'
  BY <1>1, <1>2, <1>3, <1>4 DEF LiveInv, InDoubt, GuardedTypeOK
<1>7. GuardInv'
  BY <1>1, <1>2, <1>3, <1>4 DEF GuardInv, flags, GuardedTypeOK
<1>8. DoneInv'
  BY <1>1 DEF DoneInv, InDoubt
<1> QED BY <1>5, <1>6, <1>7, <1>8 DEF GInv

\* A fallback: no change of the route that is left was confirmed, unless its output failed
\* (FallsClean).
LEMMA FallKeeps ==
  ASSUME GInv, Fall
  PROVE  GInv'
<1>1. /\ UNCHANGED <<flags, allowed, seen, failing, ending, log, unlogged, told>>
      /\ unprinted' = IF Now.op = "print" THEN unprinted \cup {route} ELSE unprinted
      /\ route' = route + 1 /\ next' = 1 /\ ending = "running" /\ route < Len(program.routes)
      /\ IsStep /\ Fail /\ Now.fails \in {"fall", "mayFall"}
  BY DEF Fall, Failing, IsStep
<1>2. GuardedTypeOK /\ LiveInv /\ GuardInv /\ DoneInv
  BY DEF GInv
<1>3. /\ program' = program /\ program \in Program /\ route \in Nat /\ Len(program.routes) \in Nat
      /\ next \in DOMAIN Steps /\ Now = Steps[next] /\ FallsClean(Steps)
      /\ next \in Nat /\ DOMAIN Steps = 1 .. Len(Steps)
      /\ program.routes # <<>> => Changes(program.lead) = {}
      /\ route # 0
  <2>1. program' = program /\ program \in Program /\ next \in DOMAIN Steps /\ Now = Steps[next]
    BY <1>1, <1>2, NowIsStep, ProgramFacts DEF flags
  <2>2. /\ FallsClean(Steps) /\ Steps \in Seq(Step)
        /\ program.routes # <<>> => Changes(program.lead) = {}
        /\ route = 0 => \A i \in DOMAIN Steps : Steps[i].fails \notin {"fall", "mayFall"}
    BY <1>2, ProgramFacts
  <2>3. route \in Nat /\ Len(program.routes) \in Nat
    BY <1>2, <2>1 DEF GuardedTypeOK, Program
  <2>4. next \in Nat /\ DOMAIN Steps = 1 .. Len(Steps)
    BY <2>1, <2>2
  <2>5. route # 0
    BY <1>1, <2>1, <2>2
  <2> QED BY <2>1, <2>2, <2>3, <2>4, <2>5
<1>4. /\ unanswered \subseteq unanswered' /\ unanswered' \subseteq Nat \X Nat
      /\ live' \subseteq Nat \X Nat /\ theirs' \in {"none", "made", "lost"}
      /\ \A c \in live' :
           c \in live \/ (c = <<route, next>> /\ c \in unanswered' /\ next \in Changes(Steps))
      /\ live' # live => allowed
  BY <1>1, <1>2, <1>3, FailFacts
<1>5. Steps' = program.routes[route + 1] /\ Steps' \in Seq(Step) /\ Len(Steps') \in Nat
      /\ DOMAIN Steps' = 1 .. Len(Steps')
  <2>1. route + 1 \in DOMAIN program.routes
    BY <1>1, <1>3 DEF Program
  <2> QED BY <1>1, <1>3, <2>1 DEF Steps, Program
<1>6. GuardedTypeOK'
  <2>1. route' \in 0 .. Len(program.routes) /\ next' \in 1 .. Len(Steps') + 1
    BY <1>1, <1>3, <1>5
  <2> QED BY <1>1, <1>2, <1>3, <1>4, <2>1 DEF GuardedTypeOK, flags
<1>7. LiveInv'
  <2> SUFFICES ASSUME NEW c \in live'
               PROVE  c[1] < route + 1 /\ InDoubt(c)'
    BY <1>1, <1>3 DEF LiveInv
  <2>1. CASE c \in live /\ c[1] # route
    <3>1. c[1] < route /\ InDoubt(c) /\ c[1] \in Nat
      BY <2>1, <1>2 DEF LiveInv, GuardedTypeOK
    <3> QED BY <3>1, <1>1, <1>3, <1>4 DEF InDoubt
  <2>2. CASE c \in live /\ c[1] = route
    <3>1. c[2] \in Changes(Steps) /\ c[2] < next /\ c[2] \in Nat
      BY <2>2, <1>1, <1>2 DEF LiveInv, GuardedTypeOK
    <3>2. Now.op = "print"
      <4>1. ~(c[2] >= next)
        BY <3>1, <1>3
      <4> QED BY <4>1, <3>1, <1>1, <1>3 DEF FallsClean
    <3>3. c[1] \in unprinted'
      BY <3>2, <2>2, <1>1
    <3> QED BY <3>3, <2>2, <1>3 DEF InDoubt
  <2>3. CASE c = <<route, next>> /\ c \in unanswered'
    BY <2>3, <1>3 DEF InDoubt
  <2> QED BY <2>1, <2>2, <2>3, <1>4
<1>8. GuardInv'
  <2>1. \A i \in DOMAIN program.lead : IsGuard(program.lead[i]) => allowed
    BY <1>1, <1>2, <1>3 DEF GuardInv
  <2> QED BY <1>1, <1>2, <1>3, <1>4, <1>5, <2>1 DEF GuardInv, flags, GuardedTypeOK
<1>9. DoneInv'
  BY <1>1, <1>3, <1>5 DEF DoneInv, Changes
<1> QED BY <1>6, <1>7, <1>8, <1>9 DEF GInv

\* What is passed over is no guard, and the change that is left out is told of, or is to be
\* dropped.
LEMMA PassOverKeeps ==
  ASSUME GInv, PassOver
  PROVE  GInv'
<1>1. /\ UNCHANGED <<flags, route, allowed, seen, ending, log, unlogged, unprinted>>
      /\ ending = "running" /\ IsStep /\ Fail /\ Now.fails \in {"tell", "later", "drop"}
      /\ failing' = (failing \/ Now.fails = "later")
  BY DEF PassOver, Failing, IsStep
<1>2. GuardedTypeOK /\ LiveInv /\ GuardInv /\ DoneInv
  BY DEF GInv
<1>3. /\ Steps' = Steps /\ program' = program
      /\ Len(Steps) \in Nat /\ DOMAIN Steps = 1 .. Len(Steps)
      /\ next \in DOMAIN Steps /\ Now = Steps[next] /\ PassesNoGuard(Steps)
  BY <1>1, <1>2, SamePart, NowIsStep, ProgramFacts
<1>4. PICK i \in DOMAIN Steps :
        /\ NextChange(i) /\ next' = i + 1
        /\ told' = IF Now.fails = "drop" THEN told ELSE told \cup {<<route, i>>}
  BY DEF PassOver
<1>5. /\ unanswered \subseteq unanswered' /\ unanswered' \subseteq Nat \X Nat
      /\ live \subseteq live' /\ live' \subseteq Nat \X Nat /\ theirs' \in {"none", "made", "lost"}
      /\ \A c \in live' :
           c \in live \/ (c = <<route, next>> /\ c \in unanswered' /\ next \in Changes(Steps))
      /\ live' # live => allowed
  BY <1>1, <1>2, <1>3, FailFacts
<1>6. /\ i \in next .. Len(Steps) /\ next \in Nat /\ route \in Nat
      /\ \A j \in next .. i - 1 : j \notin Changes(Steps)
  <2>1. route \in Nat
    BY <1>2, ProgramFacts DEF GuardedTypeOK, Program
  <2> QED BY <1>3, <1>4, <2>1 DEF NextChange, Changes
<1>7. \A j \in next .. i : ~IsGuard(Steps[j])
  BY <1>1, <1>3, <1>6 DEF PassesNoGuard
<1>8. GuardedTypeOK'
  <2>1. next' \in 1 .. Len(Steps) + 1
    BY <1>3, <1>4, <1>6
  <2>2. told' \subseteq Nat \X Nat
    BY <1>2, <1>4, <1>6 DEF GuardedTypeOK
  <2>3. failing' \in BOOLEAN
    BY <1>1, <1>2 DEF GuardedTypeOK
  <2> QED BY <1>1, <1>2, <1>3, <1>5, <2>1, <2>2, <2>3 DEF GuardedTypeOK, flags
<1>9. LiveInv'
  <2> SUFFICES ASSUME NEW c \in live'
               PROVE  /\ c[1] # route => c[1] < route /\ InDoubt(c)'
                      /\ c[1] = route => c[2] \in Changes(Steps) /\ c[2] < i + 1
    BY <1>1, <1>3, <1>4 DEF LiveInv
  <2>1. CASE c \in live
    BY <2>1, <1>1, <1>2, <1>3, <1>5, <1>6 DEF LiveInv, InDoubt, Changes
  <2>2. CASE c = <<route, next>> /\ next \in Changes(Steps)
    BY <2>2, <1>6
  <2> QED BY <2>1, <2>2, <1>5
<1>10. GuardInv'
  <2>1. \A j \in DOMAIN Steps : j < i + 1 /\ IsGuard(Steps[j]) => allowed
    <3> SUFFICES ASSUME NEW j \in DOMAIN Steps, j < i + 1, IsGuard(Steps[j])
                 PROVE  allowed
      OBVIOUS
    <3>1. j < next
      BY <1>3, <1>6, <1>7
    <3> QED BY <3>1, <1>1, <1>2 DEF GuardInv
  <2> QED BY <2>1, <1>1, <1>2, <1>3, <1>4, <1>5 DEF GuardInv, flags
<1>11. DoneInv'
  <2> SUFFICES ASSUME NEW j \in Changes(Steps), j < i + 1
               PROVE  <<route, j>> \in live' \cup told' \/ Steps[j].fails = "drop"
    BY <1>1, <1>3, <1>4 DEF DoneInv
  <2>1. j \in Nat
    BY <1>3 DEF Changes
  <2>2. CASE j < next
    BY <2>2, <1>1, <1>2, <1>4, <1>5 DEF DoneInv
  <2>3. CASE j >= next
    <3>1. j = i
      BY <2>1, <2>3, <1>6
    <3>2. CASE Now.fails = "drop"
      <4>1. next \in Changes(Steps)
        BY <3>2, <1>3 DEF PassesNoGuard
      <4>2. i = next
        BY <4>1, <1>6
      <4> QED BY <3>1, <3>2, <4>2, <1>3
    <3>3. CASE Now.fails # "drop"
      BY <3>1, <3>3, <1>4
    <3> QED BY <3>2, <3>3
  <2> QED BY <2>1, <2>2, <2>3, <1>6
<1> QED BY <1>8, <1>9, <1>10, <1>11 DEF GInv

\* Taking back ends the command; what is left of a route that undoes is in doubt.
LEMMA UndoKeeps ==
  ASSUME GInv, Undo
  PROVE  GInv'
<1>1. /\ UNCHANGED <<flags, allowed, seen, failing, log, unlogged, told, unprinted>>
      /\ route' = route /\ next' = next /\ ending = "running" /\ IsStep
      /\ ending' \in {"undone", "halfway"} /\ Now.fails \in {"undo", "undoAll"}
  BY DEF Undo, Failing, End, IsStep
<1>2. GuardedTypeOK /\ LiveInv /\ GuardInv /\ DoneInv
  BY DEF GInv
<1>3. /\ Steps' = Steps /\ program' = program
      /\ Len(Steps) \in Nat /\ DOMAIN Steps = 1 .. Len(Steps)
  BY <1>1, <1>2, SamePart
<1>4. PICK lost \in {{}, {Here}} :
        /\ lost # {} => Effective
        /\ IF lost # {} THEN Overwrite ELSE UNCHANGED theirs
        /\ unanswered' = unanswered \cup lost
        /\ LET gone == IF Now.fails = "undo" THEN OfRoute(live) ELSE OfRoute(live \cup lost)
           IN  \/ live' = (live \cup lost) \ gone /\ End("undone")
               \/ live' \in {live \cup lost, (live \cup lost) \ gone} /\ End("halfway")
  BY DEF Undo
<1>5. /\ lost \subseteq Nat \X Nat /\ theirs' \in {"none", "made", "lost"}
      /\ lost # {} => allowed
      /\ \A c \in lost : c = <<route, next>> /\ next \in Changes(Steps)
  BY <1>1, <1>2, <1>4, HereFacts, ChangeAllowed DEF Effective, GuardedTypeOK
<1>6. live' \subseteq live \cup lost
  BY <1>4
<1>7. ending' = "undone" => \A c \in live' : c \in lost \/ (c \in live /\ c[1] # route)
  BY <1>4 DEF OfRoute, End
<1>8. GuardedTypeOK'
  BY <1>1, <1>2, <1>3, <1>4, <1>5, <1>6 DEF GuardedTypeOK, flags
<1>9. LiveInv'
  BY <1>1, <1>2, <1>3, <1>4, <1>5, <1>6 DEF LiveInv, InDoubt
<1>10. GuardInv'
  BY <1>1, <1>2, <1>4, <1>5, <1>6 DEF GuardInv, flags
<1>11. DoneInv'
  BY <1>1, <1>2, <1>4, <1>7 DEF DoneInv, LiveInv, InDoubt
<1> QED BY <1>8, <1>9, <1>10, <1>11 DEF GInv

\* The lead of a program with routes changes nothing, so that a route starts from nothing.
LEMMA TurnKeeps ==
  ASSUME GInv, Turn
  PROVE  GInv'
<1>1. /\ UNCHANGED <<flags, allowed, seen, failing, log, theirs, unlogged, live, unanswered, told, unprinted>>
      /\ ending = "running" /\ next > Len(Steps)
  BY DEF Turn
<1>2. GuardedTypeOK /\ LiveInv /\ GuardInv /\ DoneInv
  BY DEF GInv
<1>3. /\ program' = program /\ program \in Program /\ Steps \in Seq(Step)
      /\ program.skips => Len(program.routes) = 2
      /\ program.routes # <<>> => Changes(program.lead) = {}
  BY <1>1, <1>2, ProgramFacts DEF flags
<1>4. CASE route = 0 /\ program.routes # <<>>
  <2>1. route' \in {1, 2} /\ route' \in DOMAIN program.routes /\ next' = 1 /\ ending' = "running"
    BY <1>1, <1>3, <1>4 DEF Turn, Program
  <2>2. Steps = program.lead /\ Steps' = program.routes[route'] /\ Steps' \in Seq(Step)
    BY <1>3, <1>4, <2>1 DEF Steps, Program
  <2>3. live = {}
    <3> SUFFICES ASSUME NEW c \in live PROVE FALSE
      OBVIOUS
    <3>1. c[1] \in Nat
      BY <1>2 DEF GuardedTypeOK
    <3> QED BY <3>1, <1>2, <1>3, <1>4, <2>2 DEF LiveInv, InDoubt
  <2>4. Len(Steps') \in Nat /\ DOMAIN Steps' = 1 .. Len(Steps')
    BY <2>2
  <2>5. GuardedTypeOK'
    <3>1. route' \in 0 .. Len(program'.routes) /\ next' \in 1 .. Len(Steps') + 1
      BY <1>3, <2>1, <2>4 DEF Program
    <3> QED BY <1>1, <1>2, <1>3, <2>1, <3>1 DEF GuardedTypeOK, flags
  <2>6. LiveInv'
    BY <1>1, <2>3 DEF LiveInv, InDoubt
  <2>7. GuardInv'
    <3>1. \A i \in DOMAIN program.lead : IsGuard(program.lead[i]) => allowed
      BY <1>1, <1>2, <1>3, <2>2 DEF GuardInv, GuardedTypeOK
    <3> QED BY <3>1, <1>1, <1>2, <1>3, <2>1, <2>3, <2>4 DEF GuardInv, flags
  <2>8. DoneInv'
    BY <2>1, <2>4 DEF DoneInv, InDoubt, Changes
  <2> QED BY <2>5, <2>6, <2>7, <2>8 DEF GInv
<1>5. CASE ~(route = 0 /\ program.routes # <<>>)
  <2>1. route' = route /\ next' = next /\ ending' \in {"failed", "done"}
    BY <1>1, <1>5 DEF Turn, End
  <2>2. Steps' = Steps
    BY <1>1, <1>2, <2>1, SamePart
  <2>3. GuardedTypeOK'
    BY <1>1, <1>2, <1>3, <2>1, <2>2 DEF GuardedTypeOK, flags
  <2>4. LiveInv'
    BY <1>1, <1>2, <2>1, <2>2 DEF LiveInv, InDoubt
  <2>5. GuardInv'
    BY <1>1, <1>2, <1>3, <2>1 DEF GuardInv, flags
  <2>6. DoneInv'
    BY <1>1, <1>2, <2>1, <2>2 DEF DoneInv, InDoubt
  <2> QED BY <2>3, <2>4, <2>5, <2>6 DEF GInv
<1> QED BY <1>4, <1>5

\* What the invariant says of each property.
LEMMA AccountedFromInv ==
  ASSUME GInv
  PROVE  EffectsAccounted
<1>1. GuardInv
  BY DEF GInv
<1> QED BY <1>1 DEF GuardInv, EffectsAccounted

LEMMA OutcomeFromInv ==
  ASSUME GInv
  PROVE  OutcomeTrue
<1>1. GuardedTypeOK /\ DoneInv
  BY DEF GInv
<1>2. /\ program \in Program /\ Steps \in Seq(Step) /\ route \in Nat
      /\ program.routes # <<>> => Changes(program.lead) = {}
  BY <1>1, ProgramFacts DEF GuardedTypeOK, Program
<1>3. Changes(program.lead) # {} => route = 0
  BY <1>1, <1>2 DEF GuardedTypeOK, Program
<1>4. ASSUME ending = "done", NEW c \in Ran
      PROVE  \/ c \in live \cup told
             \/ (IF c[1] = 0 THEN program.lead ELSE program.routes[c[1]])[c[2]].fails = "drop"
  <2>1. \E i \in Changes(Steps) : c = <<route, i>>
    BY <1>3, <1>4 DEF Ran, Steps
  <2>2. PICK i \in Changes(Steps) : c = <<route, i>>
    BY <2>1
  <2>3. i < next
    BY <1>1, <1>2, <1>4, <2>2 DEF DoneInv, GuardedTypeOK, Changes
  <2>4. c \in live \cup told \/ Steps[i].fails = "drop"
    BY <1>1, <1>4, <2>2, <2>3 DEF DoneInv
  <2>5. c[1] = route /\ c[2] = i
    BY <2>2
  <2> QED BY <2>4, <2>5 DEF Steps
<1>5. ending = "undone" => \A c \in live : InDoubt(c)
  BY <1>1 DEF DoneInv
<1> QED BY <1>4, <1>5 DEF OutcomeTrue

LEMMA TwiceFromInv ==
  ASSUME GInv
  PROVE  TwiceOnlyInDoubt
<1>1. GuardedTypeOK /\ LiveInv
  BY DEF GInv
<1>2. route \in Nat
  BY <1>1, ProgramFacts DEF GuardedTypeOK, Program
<1> SUFFICES ASSUME NEW c \in live, NEW d \in live, 0 < c[1], c[1] < d[1]
             PROVE  InDoubt(c)
  BY DEF TwiceOnlyInDoubt
<1>3. c[1] \in Nat /\ d[1] \in Nat
  BY <1>1 DEF GuardedTypeOK
<1>4. d[1] <= route
  BY <1>1, <1>2, <1>3 DEF LiveInv
<1> QED BY <1>1, <1>2, <1>3, <1>4 DEF LiveInv

-----------------------------------------------------------------------------
(* The theorems *)

LEMMA GInvHolds == GuardedSpec => []GInv
<1>1. GuardedInit => GInv
  BY InitGInv
<1>2. GInv /\ [GuardedNext]_guardedVars => GInv'
  <2> SUFFICES ASSUME GInv, [GuardedNext]_guardedVars
               PROVE  GInv'
    OBVIOUS
  <2>1. CASE Guard \/ AiGuard
    BY <2>1, GuardKeeps
  <2>2. CASE ReadStep \/ Emit \/ Forget \/ Kill \/ EditElsewhere
    BY <2>2, QuietKeeps
  <2>3. CASE ChangeStep
    BY <2>3, ChangeKeeps
  <2>4. CASE Stop
    BY <2>4, StopKeeps
  <2>5. CASE Fall
    BY <2>5, FallKeeps
  <2>6. CASE PassOver
    BY <2>6, PassOverKeeps
  <2>7. CASE Undo
    BY <2>7, UndoKeeps
  <2>8. CASE Turn
    BY <2>8, TurnKeeps
  <2>9. CASE UNCHANGED guardedVars
    BY <2>9 DEF guardedVars, flags, GInv, GuardedTypeOK, LiveInv, InDoubt, GuardInv, DoneInv, Steps, Uses, Parts
  <2> QED BY <2>1, <2>2, <2>3, <2>4, <2>5, <2>6, <2>7, <2>8, <2>9 DEF GuardedNext
<1> QED BY <1>1, <1>2, PTL DEF GuardedSpec

\* The interpreter keeps its types, whatever programs it is given.
THEOREM GuardedTypeCorrect == GuardedSpec => []GuardedTypeOK
<1>1. GInv => GuardedTypeOK
  BY DEF GInv
<1> QED BY <1>1, GInvHolds, PTL

\* In read-only mode and in a preview nothing is changed; every change of a guarded command
\* has its --yes and its record, or a note that the record failed: for each program that puts
\* a guard before its changes, and whatever fails on the way.
THEOREM EveryEffectAccounted == GuardedSpec => []EffectsAccounted
BY AccountedFromInv, GInvHolds, PTL

\* A command that ends well made each change of its way or told of it; one that says that it
\* took all back left nothing but what is in doubt: what calls without an answer did.
THEOREM OutcomesTrue == GuardedSpec => []OutcomeTrue
BY OutcomeFromInv, GInvHolds, PTL

\* A change is made by two generations of the API only if the first one's call took effect
\* and returned an error, or the first one failed to put out what it had done.
THEOREM NothingTwice == GuardedSpec => []TwiceOnlyInDoubt
BY TwiceFromInv, GInvHolds, PTL

-----------------------------------------------------------------------------
(* Commands that only read *)

\* The step that gets the rows has been taken, in one way or the other.
Obtained ==
  /\ \E j \in 1 .. line - 1 : GetsRows(reading[j])
  /\ line <= Len(reading) => ~GetsRows(reading[line])

Clear == Whole(reading) /\ ~noted /\ ~overran
CutBefore == \E j \in 1 .. line - 1 : reading[j].op \in Cutting

\* A walk has all that stayed up to its mark.
WalkInv == \A i \in stayed : i <= mark => i \in held

RowsInv ==
  /\ (\A j \in 1 .. line - 1 : ~GetsRows(reading[j])) => rows = {}
  /\ ~Obtained => blank = {}
  /\ Clear /\ Obtained =>
       /\ Missed = {} \/ (CutBefore /\ Full)
       /\ Unfilled = {}

ShownInv == exit = "shown" => line > Len(reading)

RInv == ReadTypeOK /\ WalkInv /\ RowsInv /\ ShownInv

LEMMA ProgramRead ==
  ASSUME ReadTypeOK
  PROVE  /\ NItems \in Nat /\ PageCap \in Nat \ {0}
         /\ reading \in Seq(ReadStepOf) /\ Len(reading) \in Nat
         /\ DOMAIN reading = 1 .. Len(reading)
         /\ \A i \in 1 .. Len(reading) : reading[i] \in ReadStepOf
         /\ \E i \in 1 .. Len(reading) : GetsRows(reading[i])
         /\ \A i \in 1 .. Len(reading) :
              /\ GetsRows(reading[i]) =>
                   \/ i > 1 /\ OtherWay(reading[i - 1])
                   \/ \A j \in 1 .. i - 1 : ~GetsRows(reading[j])
              /\ reading[i].op \notin Fetches \cup {"resolve"} =>
                   \E j \in 1 .. i - 1 : GetsRows(reading[j])
              /\ reading[i].op = "resolve" => reading[i].fails = "stop"
              /\ reading[i].op \in Cutting => reading[i].what = "rows"
              /\ OtherWay(reading[i]) =>
                   /\ reading[i].op \in Fetches /\ i + 1 \in 1 .. Len(reading)
                   /\ reading[i + 1].what = reading[i].what /\ ~OtherWay(reading[i + 1])
                   /\ reading[i + 1].op \in
                        (IF reading[i].what = "facts" THEN Fetches \cup {"each"} ELSE Fetches)
<1>1. reading \in ReadPrograms
  BY DEF ReadTypeOK
<1>2. reading \in Seq(ReadStepOf)
  BY <1>1, ReadAssumption
<1>3. DOMAIN reading = 1 .. Len(reading) /\ Len(reading) \in Nat
  BY <1>2
<1>4. \A i \in 1 .. Len(reading) : reading[i] \in ReadStepOf
  BY <1>2, <1>3
<1> QED BY <1>1, <1>2, <1>3, <1>4, ReadAssumption

\* Where a step leads that went well.
LEMMA WhereTo ==
  ASSUME ReadTypeOK, line <= Len(reading), After
  PROVE  /\ line' \in 1 .. Len(reading) + 1 /\ line' > line
         /\ GetsRows(Doing) /\ line' <= Len(reading) => ~GetsRows(reading[line'])
         /\ ~GetsRows(Doing) => \A j \in line .. line' - 1 : ~GetsRows(reading[j])
<1> USE ProgramRead
<1>1. line \in 1 .. Len(reading)
  BY DEF ReadTypeOK
<1>2. CASE OtherWay(Doing)
  <2>1. line' = line + 2 /\ line + 1 \in 1 .. Len(reading) /\ ~OtherWay(reading[line + 1])
        /\ reading[line + 1].what = Doing.what
    BY <1>1, <1>2 DEF After, Doing
  <2>2. ~GetsRows(Doing) => ~GetsRows(reading[line + 1])
    BY <2>1, <1>1, <1>2 DEF GetsRows, Doing
  <2>3. ASSUME GetsRows(Doing), line' <= Len(reading), GetsRows(reading[line'])
        PROVE  FALSE
    <3>1. line' \in 1 .. Len(reading) /\ line' - 1 = line + 1 /\ line \in 1 .. line' - 1
      BY <2>1, <1>1, <2>3
    <3> QED BY <3>1, <2>1, <2>3 DEF Doing
  <2> QED BY <1>1, <2>1, <2>2, <2>3 DEF Doing
<1>3. CASE ~OtherWay(Doing)
  <2>1. line' = line + 1
    BY <1>3 DEF After
  <2>3. ASSUME GetsRows(Doing), line' <= Len(reading), GetsRows(reading[line'])
        PROVE  FALSE
    <3>1. line' \in 1 .. Len(reading) /\ line' - 1 = line /\ line \in 1 .. line' - 1
      BY <2>1, <1>1, <2>3
    <3> QED BY <3>1, <1>3, <2>3 DEF Doing
  <2> QED BY <1>1, <2>1, <2>3 DEF Doing
<1> QED BY <1>2, <1>3

LEMMA FiniteRows ==
  ASSUME NItems \in Nat, NEW set \in SUBSET Items
  PROVE  IsFiniteSet(set) /\ Cardinality(set) \in Nat
<1>1. IsFiniteSet(Items)
  BY FS_Interval DEF Items
<1> QED BY <1>1, FS_Subset, FS_CardinalityType

\* What a cut leaves is all there was, or as much as --limit allows.
LEMMA CutFills ==
  ASSUME NItems \in Nat, NEW set \in SUBSET Items, NEW n \in Nat, NEW cut \in Cuts(set, n)
  PROVE  cut \subseteq set /\ (cut = set \/ (n > 0 /\ Cardinality(cut) >= n))
BY FiniteRows DEF Cuts

\* Lines, from a step to the next one.
LEMMA Lines ==
  ASSUME NEW n \in Nat, NEW a \in 1 .. n, NEW b \in 1 .. n + 1, b > a
  PROVE  /\ a \in 1 .. b - 1 /\ b - 1 \in a .. b - 1 /\ b - 1 \in 1 .. n /\ b - 1 + 1 = b /\ b > 1
         /\ b <= n => b \in 1 .. n
         /\ \A j \in 1 .. a - 1 : j \in 1 .. b - 1
         /\ \A j \in 1 .. b - 1 : j \in 1 .. a - 1 \/ j \in a .. b - 1
OBVIOUS

\* A step that gets something.
LEMMA GotKeeps ==
  ASSUME RInv, line <= Len(reading), NEW set \in SUBSET Items, Got(set),
         UNCHANGED <<readFlags, there, stayed, exit, noted>>, overran' \in BOOLEAN,
         overran => overran', Doing.op \in Fetches,
         Whole(reading) /\ ~overran' =>
           \/ stayed \subseteq set
           \/ Doing.op \in Cutting /\ atMost > 0 /\ Cardinality(set) >= atMost
  PROVE  RInv'
<1>a. ReadTypeOK /\ WalkInv /\ RowsInv /\ ShownInv
  BY DEF RInv
<1>b. Len(reading) \in Nat /\ NItems \in Nat
  BY <1>a, ProgramRead
<1>1. line \in 1 .. Len(reading) /\ Doing \in ReadStepOf /\ line \in Int
  BY <1>a, ProgramRead DEF ReadTypeOK, Doing
<1>2. After
  BY DEF Got
<1>3. ReadTypeOK'
  BY <1>a, <1>1, <1>2, WhereTo, ProgramRead DEF ReadTypeOK, Got, readFlags
<1>4. WalkInv'
  <2>1. mark' = 0 /\ stayed' = stayed /\ \A i \in stayed : i \in 1 .. NItems
    BY <1>a DEF Got, ReadTypeOK, Items
  <2> QED BY <2>1 DEF WalkInv
<1>5. ShownInv'
  BY <1>a, <1>b, <1>2, WhereTo DEF ShownInv, ReadTypeOK, readFlags
<1>6. line' \in 1 .. Len(reading) + 1 /\ line' > line /\ reading' = reading /\ line' \in Int
  BY <1>a, <1>b, <1>2, WhereTo DEF readFlags
<1>c. /\ line \in 1 .. line' - 1 /\ line' - 1 \in line .. line' - 1
      /\ line' - 1 \in 1 .. Len(reading) /\ line' - 1 + 1 = line' /\ line' > 1
      /\ line' <= Len(reading) => line' \in 1 .. Len(reading)
      /\ \A j \in 1 .. line - 1 : j \in 1 .. line' - 1
      /\ \A j \in 1 .. line' - 1 : j \in 1 .. line - 1 \/ j \in line .. line' - 1
  BY <1>1, <1>6, <1>b, Lines
<1>7. CASE GetsRows(Doing)
  <2>1. ~Obtained /\ blank = {}
    BY <1>a, <1>7, <1>1 DEF Obtained, RowsInv, Doing
  <2>2. rows' = set /\ blank' = {}
    BY <2>1, <1>7 DEF Got, GetsRows
  <2>3. line \in 1 .. line' - 1
    BY <1>c
  <2>4. \E j \in 1 .. line' - 1 : GetsRows(reading[j])
    BY <2>3, <1>7 DEF Doing
  <2>5. Clear' => (Missed = {})' \/ (CutBefore /\ Full)'
    <3> SUFFICES ASSUME Clear'
                 PROVE  (Missed = {})' \/ (CutBefore /\ Full)'
      OBVIOUS
    <3>1. CASE stayed \subseteq set
      BY <3>1, <2>2 DEF Missed
    <3>2. CASE Doing.op \in Cutting /\ atMost > 0 /\ Cardinality(set) >= atMost
      BY <3>2, <2>2, <2>3, <1>6 DEF CutBefore, Full, Doing, readFlags
    <3> QED BY <3>1, <3>2, <1>6 DEF Clear
  <2>6. (Unfilled = {})'
    BY <2>2 DEF Unfilled
  <2> QED BY <1>3, <1>4, <1>5, <1>6, <2>2, <2>4, <2>5, <2>6 DEF RowsInv, RInv
<1>8. CASE ~GetsRows(Doing)
  <2>1. \A j \in line .. line' - 1 : ~GetsRows(reading[j])
    BY <1>a, <1>8, <1>2, WhereTo
  <2>2. Doing.what = "facts" /\ Doing.op \notin Cutting
    <3>1. Doing.what = "facts"
      BY <1>8, <1>1 DEF GetsRows, ReadStepOf
    <3> QED BY <3>1, <1>1, <1>a, ProgramRead DEF Doing
  <2>3. rows' = rows /\ blank' = blank \cup (rows \ set)
    BY <2>2 DEF Got
  <2>4. (\E j \in 1 .. line' - 1 : GetsRows(reading[j])) => \E j \in 1 .. line - 1 : GetsRows(reading[j])
    <3> SUFFICES ASSUME NEW j \in 1 .. line' - 1, GetsRows(reading[j])
                 PROVE  j \in 1 .. line - 1
      OBVIOUS
    <3> QED BY <2>1, <1>c
  <2>5. ~GetsRows(reading[line])
    BY <1>8 DEF Doing
  <2>6. Obtained' => Obtained
    BY <2>4, <2>5, <1>6 DEF Obtained
  <2>7. ((\A j \in 1 .. line - 1 : ~GetsRows(reading[j])) => rows = {})'
    <3>1. \A j \in 1 .. line - 1 : j \in 1 .. line' - 1
      BY <1>c
    <3> QED BY <1>a, <3>1, <2>3, <2>4, <1>6 DEF RowsInv
  <2>8. (~Obtained => blank = {})'
    <3> SUFFICES ASSUME ~Obtained'
                 PROVE  blank' = {}
      OBVIOUS
    <3>1. CASE Obtained
      <4>1. (\E j \in 1 .. line' - 1 : GetsRows(reading[j])) /\ line' <= Len(reading) /\ GetsRows(reading[line'])
        BY <3>1, <1>c, <1>6 DEF Obtained
      <4>2. line' \in 1 .. Len(reading) /\ OtherWay(reading[line' - 1]) /\ line' > 1
        <5>1. line' \in 1 .. Len(reading)
          BY <4>1, <1>c
        <5> QED BY <1>a, <5>1, <4>1, <1>c, ProgramRead
      <4>3. line' - 1 \in line .. line' - 1 /\ line' - 1 \in 1 .. Len(reading) /\ line' - 1 + 1 = line'
        BY <1>c
      <4>4. GetsRows(reading[line' - 1])
        BY <1>a, <4>1, <4>2, <4>3, ProgramRead DEF GetsRows
      <4> QED BY <4>3, <4>4, <2>1
    <3>2. CASE ~Obtained
      BY <1>a, <3>2, <2>3, <2>5 DEF Obtained, RowsInv
    <3> QED BY <3>1, <3>2
  <2>9. ASSUME Clear', Obtained'
        PROVE  (Missed = {} \/ (CutBefore /\ Full))' /\ (Unfilled = {})'
    <3>1. Clear /\ Obtained /\ stayed \subseteq set
      BY <2>9, <2>6, <2>2, <1>6 DEF Clear
    <3>2. (Missed = {} \/ (CutBefore /\ Full)) /\ Unfilled = {}
      BY <1>a, <3>1 DEF RowsInv
    <3>3. CutBefore => CutBefore'
      <4>1. \A j \in 1 .. line - 1 : j \in 1 .. line' - 1
        BY <1>c
      <4> QED BY <4>1, <1>6 DEF CutBefore
    <3> QED BY <3>1, <3>2, <3>3, <2>3 DEF Missed, Full, Unfilled, readFlags
  <2> QED BY <1>3, <1>4, <1>5, <2>7, <2>8, <2>9 DEF RowsInv, RInv
<1> QED BY <1>7, <1>8 DEF RInv

\* A step that is done without another one being passed by.
LEMMA OnKeeps ==
  ASSUME RInv, line <= Len(reading), line' = line + 1,
         ReadTypeOK', WalkInv', exit' # "shown",
         UNCHANGED <<readFlags, stayed, overran>>, noted => noted',
         rows' \subseteq rows, blank' \subseteq blank \cup rows,
         Doing.what = "rows" => blank' = blank,
         Clear' =>
           /\ GetsRows(Doing) => OtherWay(Doing)
           /\ Obtained => (Missed = {} \/ (CutBefore /\ Full))' /\ (Unfilled = {})'
  PROVE  RInv'
<1>a. ReadTypeOK /\ RowsInv
  BY DEF RInv
<1>b. Len(reading) \in Nat /\ line \in 1 .. Len(reading) /\ line' \in 1 .. Len(reading) + 1
      /\ line' > line /\ reading' = reading
  BY <1>a, ProgramRead DEF ReadTypeOK, readFlags
<1>c. /\ line \in 1 .. line' - 1 /\ line' - 1 = line
      /\ line' <= Len(reading) => line' \in 1 .. Len(reading)
      /\ \A j \in 1 .. line - 1 : j \in 1 .. line' - 1
      /\ \A j \in 1 .. line' - 1 : j \in 1 .. line - 1 \/ j = line
  <2>1. line' - 1 = line
    BY <1>b
  <2> QED BY <1>b, <2>1, Lines
<1>d. OtherWay(Doing) =>
        line' <= Len(reading) /\ (GetsRows(reading[line']) <=> GetsRows(Doing))
  <2> SUFFICES ASSUME OtherWay(reading[line])
               PROVE  line' <= Len(reading) /\ (GetsRows(reading[line']) <=> GetsRows(reading[line]))
    BY DEF Doing
  <2>1. /\ reading[line].op \in Fetches /\ line + 1 \in 1 .. Len(reading)
        /\ reading[line + 1].what = reading[line].what
        /\ reading[line + 1].op \in
             (IF reading[line].what = "facts" THEN Fetches \cup {"each"} ELSE Fetches)
    BY <1>a, <1>b, ProgramRead
  <2> QED BY <2>1, <1>b DEF GetsRows
<1>1. ((\A j \in 1 .. line - 1 : ~GetsRows(reading[j])) => rows = {})'
  BY <1>a, <1>b, <1>c DEF RowsInv
<1>2. (~Obtained => blank = {})'
  <2> SUFFICES ASSUME ~Obtained'
               PROVE  blank' = {}
    OBVIOUS
  <2>1. CASE ~Obtained
    <3>1. blank = {}
      BY <1>a, <2>1 DEF RowsInv
    <3>2. CASE Doing.what = "rows"
      BY <3>1, <3>2
    <3>3. CASE Doing.what # "rows"
      <4>1. ~GetsRows(reading[line])
        BY <3>3 DEF GetsRows, Doing
      <4>2. rows = {}
        BY <1>a, <2>1, <4>1 DEF RowsInv, Obtained
      <4> QED BY <3>1, <4>2
    <3> QED BY <3>2, <3>3
  <2>2. CASE Obtained
    <3>1. ~GetsRows(reading[line]) /\ \E j \in 1 .. line - 1 : GetsRows(reading[j])
      BY <2>2, <1>b DEF Obtained
    <3>2. line' \in 1 .. Len(reading) /\ GetsRows(reading[line'])
      BY <3>1, <1>b, <1>c DEF Obtained
    <3>3. OtherWay(reading[line' - 1])
      <4>1. ~ \A j \in 1 .. line' - 1 : ~GetsRows(reading[j])
        BY <3>1, <1>c
      <4> QED BY <1>a, <3>2, <4>1, ProgramRead
    <3> QED BY <3>1, <3>2, <3>3, <1>c, <1>d DEF Doing
  <2> QED BY <2>1, <2>2
<1>3. ASSUME Clear', Obtained'
      PROVE  (Missed = {} \/ (CutBefore /\ Full))' /\ (Unfilled = {})'
  <2>1. ~GetsRows(Doing)
    BY <1>3, <1>b, <1>d DEF Obtained
  <2>2. Obtained
    BY <1>3, <2>1, <1>b, <1>c DEF Obtained, Doing
  <2> QED BY <1>3, <2>2
<1> QED BY <1>1, <1>2, <1>3 DEF RInv, RowsInv, ShownInv

\* What happens between the steps.
LEMMA StillKeeps ==
  ASSUME RInv, ReadTypeOK', WalkInv', ShownInv', stayed' \subseteq stayed,
         UNCHANGED <<readFlags, line, rows, noted, blank, overran>>
  PROVE  RInv'
<1>1. RowsInv
  BY DEF RInv
<1>2. (Obtained' <=> Obtained) /\ (Clear' <=> Clear) /\ (CutBefore' <=> CutBefore) /\ (Full' <=> Full)
  BY DEF Obtained, Clear, CutBefore, Full, readFlags
<1>3. Missed' \subseteq Missed /\ Unfilled' \subseteq Unfilled
  BY DEF Missed, Unfilled, readFlags
<1>4. reading' = reading
  BY DEF readFlags
<1> QED BY <1>1, <1>2, <1>3, <1>4 DEF RInv, RowsInv

\* The same, of a step that changes nothing of what is to be shown.
LEMMA PassKeeps ==
  ASSUME RInv, line <= Len(reading), line' = line + 1, exit = "reading",
         ReadTypeOK', WalkInv', GetsRows(Doing) => OtherWay(Doing),
         UNCHANGED <<readFlags, stayed, overran, exit, rows, noted, blank>>
  PROVE  RInv'
<1>1. line \in 1 .. Len(reading) /\ RowsInv
  BY ProgramRead DEF RInv, ReadTypeOK
<1>2. ASSUME Clear', Obtained
      PROVE  (Missed = {} \/ (CutBefore /\ Full))' /\ (Unfilled = {})'
  <2>1. (Missed = {} \/ (CutBefore /\ Full)) /\ Unfilled = {}
    BY <1>1, <1>2 DEF RowsInv, Clear, readFlags
  <2>2. \A j \in 1 .. line - 1 : j \in 1 .. line' - 1
    BY <1>1
  <2>3. CutBefore => CutBefore'
    BY <2>2 DEF CutBefore, readFlags
  <2> QED BY <2>1, <2>3 DEF Missed, Full, Unfilled, readFlags
<1> QED BY <1>2, OnKeeps

LEMMA NowFacts ==
  ASSUME RInv, line <= Len(reading)
  PROVE  /\ Doing \in ReadStepOf /\ line \in 1 .. Len(reading) /\ line + 1 \in 1 .. Len(reading) + 1
         /\ Doing.op \in Cutting => Doing.what = "rows"
         /\ OtherWay(Doing) => Doing.op \in Fetches
         /\ Doing.op = "resolve" => Doing.fails = "stop"
         /\ Whole(reading) =>
              /\ Doing.fails \notin {"drop", "human"}
              /\ Doing.op \notin {"page", "numbers", "stream", "scan", "ignore"}
              /\ Doing.op = "narrow" => ~CutBefore
         /\ Doing.op \notin Fetches \cup {"resolve"} => \E j \in 1 .. line - 1 : GetsRows(reading[j])
<1>1. ReadTypeOK /\ line \in 1 .. Len(reading) /\ line + 1 \in 1 .. Len(reading) + 1
  BY ProgramRead DEF RInv, ReadTypeOK
<1>2. Whole(reading) =>
        /\ reading[line].fails \notin {"drop", "human"}
        /\ reading[line].op \notin {"page", "numbers", "stream", "scan", "ignore"}
        /\ reading[line].op = "narrow" => \A j \in 1 .. line - 1 : reading[j].op \notin Cutting
  BY <1>1, ProgramRead DEF Whole
<1> QED BY <1>1, <1>2, ProgramRead DEF Doing, CutBefore

LEMMA InitRInv == ReadInit => RInv
<1> SUFFICES ASSUME ReadInit
             PROVE  RInv
  OBVIOUS
<1>1. reading \in Seq(ReadStepOf) /\ NItems \in Nat /\ PageCap \in Nat \ {0}
  BY ReadAssumption DEF ReadInit
<1>2. ReadTypeOK
  <2>1. Len(reading) \in Nat /\ line = 1
    BY <1>1 DEF ReadInit
  <2>2. line \in 1 .. Len(reading) + 1 /\ 0 \in 0 .. NItems /\ 0 \in 0 .. PageCap - 1
    BY <2>1, <1>1
  <2> QED BY <2>2 DEF ReadInit, ReadTypeOK
<1>3. WalkInv
  BY <1>1 DEF ReadInit, WalkInv, Items
<1>4. RowsInv
  BY DEF ReadInit, RowsInv, Obtained
<1> QED BY <1>2, <1>3, <1>4 DEF RInv, ShownInv, ReadInit

LEMMA AnswerKeeps == ASSUME RInv, Answer PROVE RInv'
<1>1. line <= Len(reading) /\ Doing.op \in {"list", "upTo", "page", "stream"}
  BY DEF Answer, InStep
<1>2. PICK last \in 0 .. NItems :
        /\ Doing.op \in {"list", "upTo"} => last = NItems
        /\ \E set \in Cuts({i \in there : i <= last}, IF Doing.op = "upTo" THEN atMost ELSE 0) :
             Got(set)
  BY DEF Answer
<1>3. PICK set \in Cuts({i \in there : i <= last}, IF Doing.op = "upTo" THEN atMost ELSE 0) :
        Got(set)
  BY <1>2
<1>4. ReadTypeOK /\ NItems \in Nat /\ there \subseteq Items /\ stayed \subseteq there /\ atMost \in Nat
  BY ProgramRead DEF RInv, ReadTypeOK
<1> DEFINE all == {i \in there : i <= last}
           n == IF Doing.op = "upTo" THEN atMost ELSE 0
<1>5. all \in SUBSET Items /\ n \in Nat
  BY <1>4
<1>6. set \subseteq all /\ (set = all \/ (n > 0 /\ Cardinality(set) >= n))
  <2> HIDE DEF all, n
  <2> QED BY <1>3, <1>4, <1>5, CutFills DEF all, n
<1>7. UNCHANGED <<readFlags, there, noted, exit, stayed, overran>> /\ overran \in BOOLEAN
  BY <1>4 DEF Answer, ReadTypeOK
<1>8. Whole(reading) =>
        stayed \subseteq set \/ (Doing.op \in Cutting /\ atMost > 0 /\ Cardinality(set) >= atMost)
  <2> SUFFICES ASSUME Whole(reading)
               PROVE  stayed \subseteq set \/ (Doing.op \in Cutting /\ atMost > 0 /\ Cardinality(set) >= atMost)
    OBVIOUS
  <2>1. last = NItems
    BY <1>1, <1>2, NowFacts
  <2>2. stayed \subseteq all
    BY <2>1, <1>4 DEF Items
  <2> QED BY <2>2, <1>6 DEF Cutting
<1>9. Doing.op \in Fetches
  BY <1>1 DEF Fetches
<1> QED BY <1>1, <1>3, <1>5, <1>6, <1>7, <1>8, <1>9, GotKeeps

\* The rows of a walk after one page more.
LEMMA WalkedFacts ==
  ASSUME RInv, NEW last \in 0 .. NItems
  PROVE  Walked(last) \subseteq Items /\ \A i \in stayed : i <= last => i \in Walked(last)
<1>1. NItems \in Nat /\ held \subseteq Items /\ there \subseteq Items /\ stayed \subseteq there /\ mark \in Nat
      /\ \A i \in stayed : i <= mark => i \in held
  BY ProgramRead DEF RInv, ReadTypeOK, WalkInv
<1>2. Walked(last) \subseteq Items
  BY <1>1 DEF Walked
<1>3. ASSUME NEW i \in stayed, i <= last
      PROVE  i \in Walked(last)
  <2>1. i \in Int /\ i \in there
    BY <1>1 DEF Items
  <2>2. i <= mark \/ mark < i
    BY <2>1, <1>1
  <2> QED BY <2>1, <2>2, <1>1, <1>3 DEF Walked
<1> QED BY <1>2, <1>3

LEMMA NextPageKeeps == ASSUME RInv, NextPage PROVE RInv'
<1>1. PICK last \in Items :
        mark' = last /\ pages' = pages + 1 /\ held' = Walked(last) /\ pages + 1 < PageCap
  BY DEF NextPage
<1>2. ReadTypeOK /\ NItems \in Nat /\ PageCap \in Nat \ {0} /\ pages \in Nat
  BY ProgramRead DEF RInv, ReadTypeOK
<1>3. last \in 0 .. NItems
  BY <1>2 DEF Items
<1>4. UNCHANGED <<readFlags, there, line, rows, noted, exit, stayed, blank, overran>>
  BY DEF NextPage
<1>5. ReadTypeOK'
  BY <1>1, <1>2, <1>3, <1>4, WalkedFacts DEF ReadTypeOK, readFlags
<1>6. WalkInv'
  BY <1>1, <1>3, <1>4, WalkedFacts DEF WalkInv
<1>7. ShownInv'
  BY <1>4 DEF RInv, ShownInv, readFlags
<1> QED BY <1>4, <1>5, <1>6, <1>7, StillKeeps

LEMMA LastPageKeeps == ASSUME RInv, LastPage PROVE RInv'
<1>1. line <= Len(reading) /\ Doing.op \in Tokens
  BY DEF LastPage, InStep
<1>2. PICK last \in 0 .. NItems, more \in BOOLEAN :
        /\ PageTo(last, more) /\ (more => Enough(Walked(last)))
        /\ \E set \in Cuts(Walked(last), Quota) : Got(set)
  BY DEF LastPage
<1>3. PICK set \in Cuts(Walked(last), Quota) : Got(set)
  BY <1>2
<1>4. ReadTypeOK /\ NItems \in Nat /\ stayed \subseteq Items /\ atMost \in Nat
  BY ProgramRead DEF RInv, ReadTypeOK
<1> DEFINE n == Quota
<1>5. Walked(last) \in SUBSET Items /\ n \in Nat
  BY <1>4, WalkedFacts, ReadAssumption DEF Quota
<1>6. set \subseteq Walked(last) /\ (set = Walked(last) \/ (n > 0 /\ Cardinality(set) >= n))
  <2> HIDE DEF n
  <2> QED BY <1>3, <1>4, <1>5, CutFills DEF n
<1>7. UNCHANGED <<readFlags, there, noted, exit, stayed, overran>> /\ overran \in BOOLEAN
  BY <1>4 DEF LastPage, ReadTypeOK
<1>8. Whole(reading) =>
        stayed \subseteq set \/ (Doing.op \in Cutting /\ atMost > 0 /\ Cardinality(set) >= atMost)
  <2> SUFFICES ASSUME Whole(reading)
               PROVE  stayed \subseteq set \/ (Doing.op \in Cutting /\ atMost > 0 /\ Cardinality(set) >= atMost)
    OBVIOUS
  <2>0. Doing.op # "scan"
    BY <1>1, NowFacts
  <2>1. Quota = n /\ (n > 0 => Doing.op \in Cutting /\ n = atMost)
    BY <2>0 DEF Quota, Cutting
  <2>2. CASE set # Walked(last)
    BY <2>2, <2>1, <1>6
  <2>3. CASE set = Walked(last) /\ last = NItems
    BY <2>3, <1>4, WalkedFacts DEF Items
  <2>4. CASE set = Walked(last) /\ last # NItems
    <3>1. Enough(Walked(last))
      BY <2>4, <1>2, <1>4 DEF PageTo
    <3> QED BY <3>1, <2>1, <2>4 DEF Enough
  <2> QED BY <2>2, <2>3, <2>4
<1>9. Doing.op \in Fetches
  BY <1>1 DEF Fetches
<1>10. set \in SUBSET Items
  BY <1>5, <1>6
<1> QED BY <1>1, <1>3, <1>7, <1>8, <1>9, <1>10, GotKeeps

LEMMA CapMetKeeps == ASSUME RInv, CapMet PROVE RInv'
<1>1. line <= Len(reading) /\ Doing.op \in QuietCap
  BY DEF CapMet, InStep
<1>2. PICK last \in Items :
        Got(Walked(last)) /\ overran' = (overran \/ \E i \in there : i > last)
  BY DEF CapMet
<1>3. ReadTypeOK /\ NItems \in Nat /\ there \subseteq Items /\ stayed \subseteq there
  BY ProgramRead DEF RInv, ReadTypeOK
<1>4. last \in 0 .. NItems /\ last \in Int
  BY <1>3 DEF Items
<1>5. UNCHANGED <<readFlags, there, noted, exit, stayed>>
  BY DEF CapMet
<1>6. ~overran' => stayed \subseteq Walked(last)
  <2> SUFFICES ASSUME ~overran', NEW i \in stayed
               PROVE  i \in Walked(last)
    OBVIOUS
  <2>0. i \in there /\ i \in Int
    BY <1>3 DEF Items
  <2>1. i \in Int /\ ~(i > last)
    BY <2>0, <1>2
  <2>2. i <= last
    BY <2>1, <1>4
  <2> QED BY <2>2, <1>4, WalkedFacts
<1>7. Doing.op \in Fetches
  BY <1>1 DEF Fetches, QuietCap, Tokens
<1>8. Walked(last) \in SUBSET Items
  BY <1>4, WalkedFacts
<1>9. overran' \in BOOLEAN /\ (overran => overran')
  BY <1>2, <1>3 DEF ReadTypeOK
<1> QED BY <1>1, <1>2, <1>5, <1>6, <1>7, <1>8, <1>9, GotKeeps

LEMMA NumberedKeeps == ASSUME RInv, NumberedPage PROVE RInv'
<1> DEFINE page == Numbered(pages)
<1>1. line <= Len(reading) /\ Doing.op = "numbers"
  BY DEF NumberedPage, InStep
<1>2. UNCHANGED <<readFlags, there, noted, exit, stayed, overran>>
  BY DEF NumberedPage
<1>3. ReadTypeOK /\ NItems \in Nat /\ PageCap \in Nat \ {0} /\ pages \in 0 .. PageCap - 1
      /\ held \cup page \in SUBSET Items /\ overran \in BOOLEAN
  BY ProgramRead DEF RInv, ReadTypeOK, Numbered
<1>4. CASE Cardinality(page) < PageSize \/ pages + 1 = PageCap
  <2>1. Got(held \cup page)
    BY <1>4 DEF NumberedPage
  <2>2. ~Whole(reading) /\ Doing.op \in Fetches
    BY <1>1, NowFacts DEF Fetches
  <2> QED BY <2>1, <2>2, <1>1, <1>2, <1>3, GotKeeps
<1>5. CASE ~(Cardinality(page) < PageSize \/ pages + 1 = PageCap)
  <2>1. held' = held \cup page /\ pages' = pages + 1 /\ UNCHANGED <<line, mark, rows, blank>>
    BY <1>5 DEF NumberedPage
  <2>2. pages' \in 0 .. PageCap - 1
    BY <2>1, <1>3, <1>5
  <2>3. ReadTypeOK'
    BY <2>1, <2>2, <1>2, <1>3 DEF ReadTypeOK, readFlags
  <2>4. WalkInv' /\ ShownInv'
    BY <2>1, <1>2 DEF RInv, WalkInv, ShownInv, readFlags
  <2> QED BY <2>1, <2>3, <2>4, <1>2, StillKeeps
<1> QED BY <1>4, <1>5

LEMMA FetchFailsKeeps == ASSUME RInv, FetchFails PROVE RInv'
<1>1. line <= Len(reading) /\ Doing.op \in Fetches \cup {"resolve"} /\ exit = "reading"
  BY DEF FetchFails, InStep
<1>2. UNCHANGED <<readFlags, there, stayed, overran>>
  BY DEF FetchFails
<1>3. ReadTypeOK /\ NItems \in Nat /\ PageCap \in Nat \ {0} /\ stayed \subseteq Items
  BY ProgramRead DEF RInv, ReadTypeOK
<1>4. Doing \in ReadStepOf /\ line + 1 \in 1 .. Len(reading) + 1
      /\ (Doing.op = "resolve" => Doing.fails = "stop")
      /\ (Whole(reading) => Doing.fails \notin {"drop", "human"})
  BY <1>1, NowFacts
<1>5. CASE Doing.fails = "stop" /\ exit' = "failed"
           /\ UNCHANGED <<line, mark, pages, held, rows, blank, noted>>
  <2>1. ReadTypeOK'
    BY <1>2, <1>3, <1>5 DEF ReadTypeOK, readFlags
  <2>2. WalkInv' /\ ShownInv'
    BY <1>2, <1>5 DEF RInv, WalkInv, ShownInv, readFlags
  <2> QED BY <1>2, <1>5, <2>1, <2>2, StillKeeps
<1>6. CASE Doing.fails # "stop" /\ ~OtherWay(Doing) /\ Lose(Items)
  <2>1. line' = line + 1 /\ mark' = 0 /\ pages' = 0 /\ held' = {} /\ exit' = exit
        /\ noted' = (noted \/ Said)
        /\ rows' = (IF Doing.what = "rows" THEN rows \ Items ELSE rows)
        /\ blank' = (IF Doing.what = "facts" THEN blank \cup (rows \cap Items) ELSE blank)
    BY <1>6 DEF Lose
  <2>2. rows' \subseteq rows /\ blank' \subseteq blank \cup rows
        /\ (Doing.what = "rows" => blank' = blank)
    BY <2>1
  <2>3. ReadTypeOK'
    <3>1. noted' \in BOOLEAN
      BY <2>1, <1>3 DEF ReadTypeOK, Said
    <3>2. rows' \subseteq Items /\ blank' \subseteq Items
      BY <2>2, <1>3 DEF ReadTypeOK
    <3> QED BY <1>1, <1>2, <1>3, <1>4, <2>1, <3>1, <3>2 DEF ReadTypeOK, readFlags
  <2>4. WalkInv'
    BY <2>1, <1>2, <1>3 DEF WalkInv, Items
  <2>5. ~Clear'
    <3>1. Whole(reading) => Doing.fails = "tell"
      BY <1>4, <1>6 DEF ReadStepOf, OtherWay
    <3> QED BY <3>1, <2>1, <1>2 DEF Clear, Said, readFlags
  <2> QED BY <1>1, <1>2, <2>1, <2>2, <2>3, <2>4, <2>5, OnKeeps
<1>7. CASE OtherWay(Doing) /\ line' = line + 1 /\ mark' = 0 /\ pages' = 0 /\ held' = {}
           /\ UNCHANGED <<exit, rows, blank, noted>>
  <2>1. ReadTypeOK'
    BY <1>2, <1>3, <1>4, <1>7 DEF ReadTypeOK, readFlags
  <2>2. WalkInv'
    BY <1>7, <1>2, <1>3 DEF WalkInv, Items
  <2> QED BY <1>1, <1>2, <1>7, <2>1, <2>2, PassKeeps
<1> QED BY <1>5, <1>6, <1>7 DEF FetchFails

LEMMA SkipKeeps == ASSUME RInv, SkipModern \/ Resolved PROVE RInv'
<1>1. line <= Len(reading) /\ exit = "reading" /\ line' = line + 1
      /\ UNCHANGED <<readFlags, there, mark, pages, held, rows, noted, exit, stayed, blank, overran>>
  BY DEF SkipModern, Resolved, InStep
<1>2. ReadTypeOK /\ line + 1 \in 1 .. Len(reading) + 1
  BY <1>1, NowFacts DEF RInv
<1>3. ReadTypeOK'
  BY <1>1, <1>2 DEF ReadTypeOK, readFlags
<1>4. WalkInv'
  BY <1>1 DEF RInv, WalkInv
<1>5. GetsRows(Doing) => OtherWay(Doing)
  BY DEF SkipModern, Skipped, Resolved, InStep, OtherWay, GetsRows, Fetches, Tokens
<1> QED BY <1>1, <1>3, <1>4, <1>5, PassKeeps

LEMMA EachKeeps == ASSUME RInv, ReadEach PROVE RInv'
<1>1. line <= Len(reading) /\ Doing.op = "each" /\ exit = "reading"
  BY DEF ReadEach, InStep
<1>2. UNCHANGED <<readFlags, there, stayed, overran>>
  BY DEF ReadEach
<1>3. ReadTypeOK /\ NItems \in Nat /\ PageCap \in Nat \ {0} /\ stayed \subseteq Items
  BY ProgramRead DEF RInv, ReadTypeOK
<1>4. ~GetsRows(Doing) /\ ~OtherWay(Doing)
  BY <1>1, NowFacts DEF GetsRows, Fetches, Tokens
<1>5. Doing \in ReadStepOf /\ line + 1 \in 1 .. Len(reading) + 1
      /\ (Whole(reading) => Doing.fails \notin {"drop", "human"})
  BY <1>1, NowFacts
<1>6. PICK failed \in SUBSET rows :
        \/ failed = {} /\ line' = line + 1
           /\ UNCHANGED <<exit, mark, pages, held, rows, blank, noted>>
        \/ failed # {} /\ Doing.fails = "stop" /\ exit' = "failed"
           /\ UNCHANGED <<line, mark, pages, held, rows, blank, noted>>
        \/ failed # {} /\ Doing.fails # "stop" /\ Lose(failed)
  BY DEF ReadEach
<1>7. CASE line' = line + 1 /\ UNCHANGED <<exit, mark, pages, held, rows, blank, noted>>
  <2>1. ReadTypeOK'
    BY <1>2, <1>3, <1>5, <1>7 DEF ReadTypeOK, readFlags
  <2>2. WalkInv'
    BY <1>2, <1>7 DEF RInv, WalkInv
  <2> QED BY <1>1, <1>2, <1>4, <1>7, <2>1, <2>2, PassKeeps
<1>8. CASE exit' = "failed" /\ UNCHANGED <<line, mark, pages, held, rows, blank, noted>>
  <2>1. ReadTypeOK'
    BY <1>2, <1>3, <1>8 DEF ReadTypeOK, readFlags
  <2>2. WalkInv' /\ ShownInv'
    BY <1>2, <1>8 DEF RInv, WalkInv, ShownInv, readFlags
  <2> QED BY <1>2, <1>8, <2>1, <2>2, StillKeeps
<1>9. CASE Doing.fails # "stop" /\ Lose(failed)
  <2>1. line' = line + 1 /\ mark' = 0 /\ pages' = 0 /\ held' = {} /\ exit' = exit
        /\ noted' = (noted \/ Said)
        /\ rows' = (IF Doing.what = "rows" THEN rows \ failed ELSE rows)
        /\ blank' = (IF Doing.what = "facts" THEN blank \cup (rows \cap failed) ELSE blank)
    BY <1>9 DEF Lose
  <2>2. rows' \subseteq rows /\ blank' \subseteq blank \cup rows
        /\ (Doing.what = "rows" => blank' = blank)
    BY <2>1
  <2>3. ReadTypeOK'
    <3>1. noted' \in BOOLEAN
      BY <2>1, <1>3 DEF ReadTypeOK, Said
    <3>2. rows' \subseteq Items /\ blank' \subseteq Items
      BY <2>2, <1>3 DEF ReadTypeOK
    <3> QED BY <1>1, <1>2, <1>3, <1>5, <2>1, <3>1, <3>2 DEF ReadTypeOK, readFlags
  <2>4. WalkInv'
    BY <2>1, <1>2, <1>3 DEF WalkInv, Items
  <2>5. ~Clear'
    <3>1. Whole(reading) => Doing.fails = "tell"
      BY <1>4, <1>5, <1>9 DEF ReadStepOf, OtherWay
    <3> QED BY <3>1, <2>1, <1>2 DEF Clear, Said, readFlags
  <2> QED BY <1>1, <1>2, <2>1, <2>2, <2>3, <2>4, <2>5, OnKeeps
<1> QED BY <1>6, <1>7, <1>8, <1>9

LEMMA NarrowKeeps == ASSUME RInv, Narrow PROVE RInv'
<1>1. line <= Len(reading) /\ Doing.op \in {"narrow", "ignore"} /\ exit = "reading"
      /\ rows' = (IF Doing.op = "narrow" THEN rows \cap wanted ELSE rows)
      /\ noted' = (noted \/ (rows' # rows /\ Said)) /\ line' = line + 1
      /\ UNCHANGED <<readFlags, there, mark, pages, held, exit, stayed, blank, overran>>
  BY DEF Narrow, InStep
<1>2. ReadTypeOK /\ WalkInv /\ RowsInv
  BY DEF RInv
<1>3. ~GetsRows(Doing) /\ (\E j \in 1 .. line - 1 : GetsRows(reading[j]))
      /\ line + 1 \in 1 .. Len(reading) + 1
      /\ (Whole(reading) => Doing.op = "narrow" /\ ~CutBefore)
  BY <1>1, NowFacts DEF GetsRows, Fetches, Tokens
<1>4. ReadTypeOK'
  <2>1. rows' \subseteq Items /\ noted' \in BOOLEAN
    BY <1>1, <1>2 DEF ReadTypeOK, Said
  <2> QED BY <1>1, <1>2, <1>3, <2>1 DEF ReadTypeOK, readFlags
<1>5. WalkInv'
  BY <1>1, <1>2 DEF WalkInv
<1>6. ASSUME Clear', Obtained
      PROVE  (Missed = {})' /\ (Unfilled = {})'
  <2>1. Clear /\ Doing.op = "narrow" /\ ~CutBefore
    BY <1>6, <1>1, <1>3 DEF Clear, readFlags
  <2>2. Missed = {} /\ Unfilled = {}
    BY <1>2, <1>6, <2>1 DEF RowsInv
  <2> QED BY <2>1, <2>2, <1>1 DEF Missed, Unfilled, readFlags
<1> QED BY <1>1, <1>3, <1>4, <1>5, <1>6, OnKeeps

LEMMA CutKeeps == ASSUME RInv, CutRows PROVE RInv'
<1>1. line <= Len(reading) /\ Doing.op = "cut" /\ exit = "reading"
      /\ rows' \in Cuts(rows, atMost)
      /\ noted' = (noted \/ (rows' # rows /\ Said)) /\ line' = line + 1
      /\ UNCHANGED <<readFlags, there, mark, pages, held, exit, stayed, blank, overran>>
  BY DEF CutRows, InStep
<1>2. ReadTypeOK /\ WalkInv /\ RowsInv
  BY DEF RInv
<1>3. ~GetsRows(Doing) /\ line \in 1 .. Len(reading) /\ line + 1 \in 1 .. Len(reading) + 1
  BY <1>1, NowFacts DEF GetsRows, Fetches, Tokens
<1>4. NItems \in Nat /\ rows \in SUBSET Items /\ atMost \in Nat
  BY <1>2, ProgramRead DEF ReadTypeOK
<1>5. rows' \subseteq rows /\ (rows' = rows \/ (atMost > 0 /\ Cardinality(rows') >= atMost))
  BY <1>1, <1>4, CutFills
<1>6. ReadTypeOK'
  <2>1. rows' \subseteq Items /\ noted' \in BOOLEAN
    BY <1>1, <1>2, <1>5 DEF ReadTypeOK, Said
  <2> QED BY <1>1, <1>2, <1>3, <2>1 DEF ReadTypeOK, readFlags
<1>7. WalkInv'
  BY <1>1, <1>2 DEF WalkInv
<1>8. CutBefore'
  <2>1. line \in 1 .. line' - 1
    BY <1>1, <1>3
  <2> QED BY <1>1, <2>1 DEF CutBefore, Cutting, Doing, readFlags
<1>9. ASSUME Clear', Obtained
      PROVE  (Missed = {} \/ (CutBefore /\ Full))' /\ (Unfilled = {})'
  <2>1. Clear
    BY <1>9, <1>1 DEF Clear, readFlags
  <2>2. (Missed = {} \/ (CutBefore /\ Full)) /\ Unfilled = {}
    BY <1>2, <1>9, <2>1 DEF RowsInv
  <2>3. CASE rows' = rows
    BY <2>2, <2>3, <1>1, <1>8 DEF Missed, Unfilled, Full, readFlags
  <2>4. CASE atMost > 0 /\ Cardinality(rows') >= atMost
    BY <2>2, <2>4, <1>1, <1>5, <1>8 DEF Unfilled, Full, readFlags
  <2> QED BY <1>5, <2>3, <2>4
<1> QED BY <1>1, <1>3, <1>5, <1>6, <1>7, <1>9, OnKeeps

LEMMA QuietReadKeeps == ASSUME RInv, Show \/ ComeOrGo PROVE RInv'
<1>1. CASE Show
  <2>1. line > Len(reading) /\ exit' = "shown"
        /\ UNCHANGED <<readFlags, there, line, mark, pages, held, rows, noted, stayed, blank, overran>>
    BY <1>1 DEF Show
  <2>2. ReadTypeOK' /\ WalkInv' /\ ShownInv'
    BY <2>1 DEF RInv, ReadTypeOK, WalkInv, ShownInv, readFlags
  <2> QED BY <2>1, <2>2, StillKeeps
<1>2. CASE ComeOrGo
  <2>1. exit = "reading"
        /\ UNCHANGED <<readFlags, line, mark, pages, held, rows, noted, exit, blank, overran>>
    BY <1>2 DEF ComeOrGo
  <2>2. stayed' \subseteq stayed /\ stayed' \subseteq there' /\ there' \subseteq Items
    BY <1>2 DEF ComeOrGo, RInv, ReadTypeOK
  <2>3. ReadTypeOK' /\ WalkInv' /\ ShownInv'
    BY <2>1, <2>2 DEF RInv, ReadTypeOK, WalkInv, ShownInv, readFlags
  <2> QED BY <2>1, <2>2, <2>3, StillKeeps
<1> QED BY <1>1, <1>2

LEMMA RInvHolds == ReadSpec => []RInv
<1>1. RInv /\ [ReadNext]_readVars => RInv'
  <2> SUFFICES ASSUME RInv, [ReadNext]_readVars
               PROVE  RInv'
    OBVIOUS
  <2>1. CASE SkipModern \/ Resolved
    BY <2>1, SkipKeeps
  <2>2. CASE Answer
    BY <2>2, AnswerKeeps
  <2>3. CASE NextPage
    BY <2>3, NextPageKeeps
  <2>4. CASE LastPage
    BY <2>4, LastPageKeeps
  <2>5. CASE CapMet
    BY <2>5, CapMetKeeps
  <2>6. CASE NumberedPage
    BY <2>6, NumberedKeeps
  <2>7. CASE FetchFails
    BY <2>7, FetchFailsKeeps
  <2>8. CASE ReadEach
    BY <2>8, EachKeeps
  <2>9. CASE Narrow
    BY <2>9, NarrowKeeps
  <2>10. CASE CutRows
    BY <2>10, CutKeeps
  <2>11. CASE Show \/ ComeOrGo
    BY <2>11, QuietReadKeeps
  <2>12. CASE UNCHANGED readVars
    <3>1. UNCHANGED <<readFlags, there, line, mark, pages, held, rows, noted, exit, stayed, blank, overran>>
      BY <2>12 DEF readVars
    <3>2. ReadTypeOK' /\ WalkInv' /\ ShownInv'
      BY <3>1 DEF RInv, ReadTypeOK, WalkInv, ShownInv, readFlags
    <3> QED BY <3>1, <3>2, StillKeeps
  <2> QED BY <2>1, <2>2, <2>3, <2>4, <2>5, <2>6, <2>7, <2>8, <2>9, <2>10, <2>11, <2>12
          DEF ReadNext, ReadStepNext
<1> QED BY <1>1, InitRInv, PTL DEF ReadSpec

\* A reading command keeps its types, whatever its program.
THEOREM ReadTypeCorrect == ReadSpec => []ReadTypeOK
<1>1. RInv => ReadTypeOK
  BY DEF RInv
<1> QED BY <1>1, RInvHolds, PTL

\* For every program, any number of objects, any cap and any way to cut a listing into
\* pages: a command that passes over no failure in silence and says nothing shows each object
\* that was there all along, up to --limit, with its facts, or has met the cap of a walk.
THEOREM WholeReads == ReadSpec => []ReadsWhole
<1>1. ASSUME RInv, exit = "shown", ~noted, ~overran, Whole(reading)
      PROVE  (Missed = {} \/ Full) /\ Unfilled = {}
  <2>1. ReadTypeOK /\ RowsInv /\ line > Len(reading)
    BY <1>1 DEF RInv, ShownInv
  <2>2. line = Len(reading) + 1 /\ Len(reading) \in Nat
    BY <2>1, ProgramRead DEF ReadTypeOK
  <2>3. 1 .. line - 1 = 1 .. Len(reading)
    BY <2>2
  <2>4. Obtained
    BY <2>1, <2>2, <2>3, ProgramRead DEF Obtained
  <2> QED BY <1>1, <2>1, <2>4 DEF RowsInv, Clear
<1>2. RInv => ReadsWhole
  BY <1>1 DEF ReadsWhole
<1> QED BY <1>2, RInvHolds, PTL
=============================================================================
