------------------------------ MODULE ReadCommand ------------------------------
(***************************************************************************)
(* A command of the CLI that only reads, from its first call to what it    *)
(* shows. Such commands differ in the calls they make, in how a list is    *)
(* paged and in what is done when a call fails, and so in whether what     *)
(* they show is all there is. A command is a program, a constant, and this *)
(* module runs it against a platform on which objects come and go.         *)
(* ReadTable has the programs.                                             *)
(***************************************************************************)
EXTENDS Naturals, Sequences, FiniteSets

CONSTANTS
  ReadPrograms,
  NItems,    \* objects of the kind that is listed
  PageCap,   \* pages after which a walk gives up (50 in most of the code)
  PageSize,  \* rows of a page asked for by number
  ScanMax    \* rows that a scan reads (--max, 2000 unless it is given)

\* In the order in which the platform lists them.
Items == 1 .. NItems

\* How a step gets its rows or, for the rows already there, a fact to show beside them:
\*   list       one answer has all there is
\*   walk       paginate: page after page by token; at the cap what was got counts as all
\*   walkAll    PaginateV1Alpha: at the cap an error
\*   walkTo     walkAll that stops once it has the rows of --limit, and cuts to them
\*   walkSome   the same of walk
\*   scan       walkAll that stops once it has the rows of --max, and cuts to them
\*   sized      walk for which --limit is the size of a page
\*   upTo       one page, of --limit rows; what comes after it is not asked for
\*   page       one page, of a size the command sets
\*   numbers    pages asked for by number, until a short one
\*   stream     an answer that is read as it arrives, and over where it breaks off
\*   resolve    calls that turn a name into an id, and fail where it is not found
\*   each       a read for each row
\*   narrow     the rows asked for are kept
\*   ignore     the rows asked for are not told apart
\*   cut        --limit is applied to the rows
\* and what is done when a call of it fails:
\*   stop       the command fails
\*   fall       the next step, left out otherwise, is taken instead
\*   modern     the same, and --legacy takes the next step right away
\*   tell       a note; what was to be got is not shown
\*   human      the same, but the note is not part of --json
\*   drop       the same without a note
\* Rows are narrowed and cut with a note (tell, human) or without one.
Tokens == {"walk", "walkAll", "walkTo", "walkSome", "scan", "sized"}
QuietCap == {"walk", "walkSome", "sized"}
Stopping == {"walkTo", "walkSome"}
Cutting == Stopping \cup {"upTo", "cut"}
Fetches == Tokens \cup {"list", "upTo", "page", "numbers", "stream"}
ReadStepOf == [op : Fetches \cup {"resolve", "each", "narrow", "ignore", "cut"},
               what : {"rows", "facts"},
               fails : {"stop", "fall", "modern", "tell", "human", "drop"}]

Has(p, op) == \E i \in DOMAIN p : p[i].op = op
TakesLimit(p) == \E op \in Cutting \cup {"sized"} : Has(p, op)
GetsRows(s) == s.op \in Fetches /\ s.what = "rows"
OtherWay(s) == s.fails \in {"fall", "modern"}

\* Rows are got once, before anything is done to them; a step with another way of doing it
\* is followed by it; facts are never cut.
ASSUME ReadAssumption ==
  /\ NItems \in Nat /\ PageCap \in Nat \ {0} /\ PageSize \in Nat \ {0} /\ ScanMax \in Nat \ {0}
  /\ ReadPrograms \subseteq Seq(ReadStepOf)
  /\ \A p \in ReadPrograms :
       /\ \E i \in DOMAIN p : GetsRows(p[i])
       /\ \A i \in DOMAIN p :
            /\ GetsRows(p[i]) =>
                 (i > 1 /\ OtherWay(p[i - 1])) \/ \A j \in 1 .. i - 1 : ~GetsRows(p[j])
            /\ p[i].op \notin Fetches \cup {"resolve"} => \E j \in 1 .. i - 1 : GetsRows(p[j])
            /\ p[i].op = "resolve" => p[i].fails = "stop"
            /\ p[i].op \in Cutting => p[i].what = "rows"
            /\ OtherWay(p[i]) =>
                 /\ p[i].op \in Fetches /\ i + 1 \in DOMAIN p
                 /\ p[i + 1].what = p[i].what /\ ~OtherWay(p[i + 1])
                 /\ p[i + 1].op \in (IF p[i].what = "facts" THEN Fetches \cup {"each"} ELSE Fetches)

VARIABLES
  reading,    \* the program
  legacyLane, \* --legacy
  asJson,     \* --json
  atMost,     \* --limit; 0 is none
  wanted,     \* the objects the arguments ask for
  there,      \* the objects there are
  line,       \* the step to come
  mark, pages, held,  \* of a walk: the last object of the pages got so far, and their rows
  rows,       \* what is to be shown
  noted,      \* a note says that something is missing
  exit,
  (* History, read by properties only. *)
  stayed,     \* the objects that were there all along
  blank,      \* rows that lack a fact the program looked up
  overran     \* a cap was met with more to come

readFlags == <<reading, legacyLane, asJson, atMost, wanted>>
readVars == <<readFlags, there, line, mark, pages, held, rows, noted, exit, stayed, blank, overran>>

Doing == reading[line]
Skipped == legacyLane /\ Doing.fails = "modern"
InStep(ops) == exit = "reading" /\ line <= Len(reading) /\ Doing.op \in ops /\ ~Skipped

\* What may be left of some rows with a limit of n. Which rows are the first is left open.
Cuts(set, n) ==
  IF n = 0 \/ Cardinality(set) <= n THEN {set} ELSE {s \in SUBSET set : Cardinality(s) = n}

\* The step is over: the other way of doing it is passed by.
After == line' = IF OtherWay(Doing) THEN line + 2 ELSE line + 1
Got(set) ==
  /\ IF Doing.what = "rows" THEN rows' = set /\ UNCHANGED blank
                            ELSE blank' = blank \cup (rows \ set) /\ UNCHANGED rows
  /\ After /\ mark' = 0 /\ pages' = 0 /\ held' = {}

-----------------------------------------------------------------------------
(* Steps *)

\* One answer, whole or, for a page and a stream, the first part of it.
Answer ==
  /\ InStep({"list", "upTo", "page", "stream"})
  /\ \E last \in 0 .. NItems :
       /\ Doing.op \in {"list", "upTo"} => last = NItems
       /\ Doing.op = "page" => last > 0
       /\ \E set \in Cuts({i \in there : i <= last}, IF Doing.op = "upTo" THEN atMost ELSE 0) :
            Got(set)
  /\ UNCHANGED <<readFlags, there, noted, exit, stayed, overran>>

Resolved ==
  /\ InStep({"resolve"})
  /\ line' = line + 1
  /\ UNCHANGED <<readFlags, there, mark, pages, held, rows, noted, exit, stayed, blank, overran>>

\* The next page by token ends with the object last; the answer has a token when there is
\* more, and may have one when there is not.
PageTo(last, more) ==
  /\ last \in mark .. NItems /\ (last < NItems => last > mark /\ more)
  /\ Doing.op = "sized" /\ atMost > 0 =>
       Cardinality({i \in there : mark < i /\ i <= last}) <= atMost
Walked(last) == held \cup {i \in there : mark < i /\ i <= last}
\* The rows that end a walk, 0 if none do.
Quota ==
  IF Doing.op = "scan" THEN ScanMax ELSE IF Doing.op \in Stopping THEN atMost ELSE 0
Enough(set) == Quota > 0 /\ Cardinality(set) >= Quota

\* Mutant: a page without rows ends the walk.
NextPageOfRows ==
  /\ InStep(Tokens)
  /\ \E last \in Items :
       /\ PageTo(last, TRUE) /\ ~Enough(Walked(last)) /\ pages + 1 < PageCap
       /\ IF Walked(last) = held THEN Got(held)
          ELSE /\ mark' = last /\ pages' = pages + 1 /\ held' = Walked(last)
               /\ UNCHANGED <<line, rows, blank>>
  /\ UNCHANGED <<readFlags, there, noted, exit, stayed, overran>>

\* Mutant: the count of pages starts again where the walk should give up.
NextPageRecounted ==
  /\ InStep(Tokens)
  /\ \E last \in Items :
       /\ PageTo(last, TRUE) /\ ~Enough(Walked(last))
       /\ mark' = last /\ pages' = (pages + 1) % PageCap /\ held' = Walked(last)
  /\ UNCHANGED <<readFlags, there, line, rows, noted, exit, stayed, blank, overran>>

NextPage ==
  /\ InStep(Tokens)
  /\ \E last \in Items :
       /\ PageTo(last, TRUE) /\ ~Enough(Walked(last)) /\ pages + 1 < PageCap
       /\ mark' = last /\ pages' = pages + 1 /\ held' = Walked(last)
  /\ UNCHANGED <<readFlags, there, line, rows, noted, exit, stayed, blank, overran>>

LastPage ==
  /\ InStep(Tokens)
  /\ \E last \in 0 .. NItems, more \in BOOLEAN :
       /\ PageTo(last, more) /\ (more => Enough(Walked(last)))
       /\ \E set \in Cuts(Walked(last), Quota) : Got(set)
  /\ UNCHANGED <<readFlags, there, noted, exit, stayed, overran>>

\* paginate at its cap (client_paginate.go:126-139).
CapMet ==
  /\ InStep(QuietCap)
  /\ \E last \in Items :
       /\ PageTo(last, TRUE) /\ ~Enough(Walked(last)) /\ pages + 1 = PageCap
       /\ Got(Walked(last))
       /\ overran' = (overran \/ \E i \in there : i > last)
  /\ UNCHANGED <<readFlags, there, noted, exit, stayed>>

\* Rows are counted afresh for each page, so one that goes makes another one skip a page.
Numbered(page) ==
  {i \in there : LET rank == Cardinality({j \in there : j <= i})
                 IN  page * PageSize < rank /\ rank <= (page + 1) * PageSize}
NumberedPage ==
  /\ InStep({"numbers"})
  /\ LET page == Numbered(pages)
         over == Cardinality(page) < PageSize \/ pages + 1 = PageCap
     IN  IF over
         THEN Got(held \cup page)
         ELSE held' = held \cup page /\ pages' = pages + 1 /\ UNCHANGED <<line, mark, rows, blank>>
  /\ UNCHANGED <<readFlags, there, noted, exit, stayed, overran>>

\* A call fails, or a walk that takes no part for the whole meets its cap.
Said == Doing.fails = "tell" \/ (Doing.fails = "human" /\ ~asJson)
Lose(without) ==
  /\ rows' = IF Doing.what = "rows" THEN rows \ without ELSE rows
  /\ blank' = IF Doing.what = "facts" THEN blank \cup (rows \cap without) ELSE blank
  /\ noted' = (noted \/ Said)
  /\ line' = line + 1 /\ mark' = 0 /\ pages' = 0 /\ held' = {}
  /\ UNCHANGED exit

FetchFails ==
  /\ InStep(Fetches \cup {"resolve"})
  /\ \/ Doing.fails = "stop" /\ exit' = "failed"
        /\ UNCHANGED <<line, mark, pages, held, rows, blank, noted>>
     \/ Doing.fails # "stop" /\ ~OtherWay(Doing) /\ Lose(Items)
     \/ OtherWay(Doing) /\ line' = line + 1 /\ mark' = 0 /\ pages' = 0 /\ held' = {}
        /\ UNCHANGED <<exit, rows, blank, noted>>
  /\ UNCHANGED <<readFlags, there, stayed, overran>>

\* preferModern under --legacy.
SkipModern ==
  /\ exit = "reading" /\ line <= Len(reading) /\ Skipped
  /\ line' = line + 1
  /\ UNCHANGED <<readFlags, there, mark, pages, held, rows, noted, exit, stayed, blank, overran>>

\* A read for each row, of which some fail, those of rows that are gone at least.
ReadEach ==
  /\ InStep({"each"})
  /\ \E failed \in SUBSET rows :
       /\ rows \ there \subseteq failed
       /\ \/ failed = {} /\ line' = line + 1
             /\ UNCHANGED <<exit, mark, pages, held, rows, blank, noted>>
          \/ failed # {} /\ Doing.fails = "stop" /\ exit' = "failed"
             /\ UNCHANGED <<line, mark, pages, held, rows, blank, noted>>
          \/ failed # {} /\ Doing.fails # "stop" /\ Lose(failed)
  /\ UNCHANGED <<readFlags, there, stayed, overran>>

Narrow ==
  /\ InStep({"narrow", "ignore"})
  /\ rows' = IF Doing.op = "narrow" THEN rows \cap wanted ELSE rows
  /\ noted' = (noted \/ (rows' # rows /\ Said))
  /\ line' = line + 1
  /\ UNCHANGED <<readFlags, there, mark, pages, held, exit, stayed, blank, overran>>

CutRows ==
  /\ InStep({"cut"})
  /\ rows' \in Cuts(rows, atMost)
  /\ noted' = (noted \/ (rows' # rows /\ Said))
  /\ line' = line + 1
  /\ UNCHANGED <<readFlags, there, mark, pages, held, exit, stayed, blank, overran>>

Show ==
  /\ exit = "reading" /\ line > Len(reading) /\ exit' = "shown"
  /\ UNCHANGED <<readFlags, there, line, mark, pages, held, rows, noted, stayed, blank, overran>>

\* Somebody removes or makes an object while the command makes calls.
ComeOrGo ==
  /\ exit = "reading" /\ line <= Len(reading)
  /\ \E i \in Items :
       /\ there' = IF i \in there THEN there \ {i} ELSE there \cup {i}
       /\ stayed' = stayed \ {i}
  /\ UNCHANGED <<readFlags, line, mark, pages, held, rows, noted, exit, blank, overran>>

-----------------------------------------------------------------------------
(* Specification *)

\* What says nothing to a program keeps one value.
ReadInit ==
  /\ reading \in ReadPrograms
  /\ legacyLane \in BOOLEAN /\ (legacyLane => \E i \in DOMAIN reading : reading[i].fails = "modern")
  /\ asJson \in BOOLEAN /\ (asJson => \E i \in DOMAIN reading : reading[i].fails = "human")
  /\ atMost \in 0 .. NItems /\ (atMost > 0 => TakesLimit(reading))
  /\ wanted \in SUBSET Items
  /\ (~Has(reading, "narrow") /\ ~Has(reading, "ignore") => wanted = Items)
  /\ there \in SUBSET Items /\ stayed = there
  /\ line = 1 /\ mark = 0 /\ pages = 0 /\ held = {} /\ rows = {} /\ noted = FALSE
  /\ exit = "reading" /\ blank = {} /\ overran = FALSE

ReadStepNext ==
  \/ SkipModern \/ Resolved \/ Answer \/ NextPage \/ LastPage \/ CapMet \/ NumberedPage
  \/ FetchFails \/ ReadEach \/ Narrow \/ CutRows \/ Show

ReadNext == ReadStepNext \/ ComeOrGo

\* Each call has a timeout, and the command goes on by itself.
ReadFairness == WF_readVars(ReadStepNext)
ReadSpec == ReadInit /\ [][ReadNext]_readVars /\ ReadFairness
-----------------------------------------------------------------------------
(* Properties *)

ReadTypeOK ==
  /\ reading \in ReadPrograms /\ legacyLane \in BOOLEAN /\ asJson \in BOOLEAN
  /\ atMost \in 0 .. NItems /\ line \in 1 .. Len(reading) + 1
  /\ mark \in 0 .. NItems /\ pages \in 0 .. PageCap - 1
  /\ wanted \subseteq Items /\ there \subseteq Items /\ stayed \subseteq there
  /\ held \subseteq Items /\ rows \subseteq Items /\ blank \subseteq Items
  /\ noted \in BOOLEAN /\ overran \in BOOLEAN /\ exit \in {"reading", "shown", "failed"}

\* A command that promises the whole: no failure is passed over without a word in all of its
\* outputs, no first part is taken for the whole, and --limit is applied at last.
Whole(p) == \A i \in DOMAIN p :
  /\ p[i].fails \notin {"drop", "human"}
  /\ p[i].op \notin {"page", "numbers", "stream", "scan", "ignore"}
  /\ p[i].op = "narrow" => \A j \in 1 .. i - 1 : p[j].op \notin Cutting

Full == atMost > 0 /\ Cardinality(rows) >= atMost
Missed == (stayed \cap wanted) \ rows
Unfilled == rows \cap stayed \cap blank

\* Whatever is added and removed while it reads, however the platform cuts the listing into
\* pages, and whichever calls fail or fall back, a command that promises the whole and says
\* nothing shows each object that was there all along, up to --limit, with all its facts;
\* but for a walk that met its cap with more to come (overran), which most code passes over.
ReadsWhole ==
  exit = "shown" /\ ~noted /\ ~overran /\ Whole(reading) =>
    (Missed = {} \/ Full) /\ Unfilled = {}

\* A platform that hands out tokens for ever keeps no command reading.
ReadsEnd == <>(exit # "reading")

\* "loop until a short page so a tenant with many tags never silently truncates"
\* (soar_playbook_ops.go:380-381), "pages through every user (no silent truncation)"
\* (settings_users.go:103-105).
NeverTruncates == exit = "shown" /\ ~noted /\ Has(reading, "numbers") => Missed = {}

\* "max rows to show (0 = all)" (soar_case_metrics.go:191).
ZeroIsAll == exit = "shown" /\ ~noted /\ Has(reading, "scan") /\ atMost = 0 => Missed = {}

\* "max coverage rows to return" (coverage.go:30).
LimitKept == exit = "shown" /\ atMost > 0 => Cardinality(rows) <= atMost

\* "Search alerts a rule generated" (rules.go:404).
OnlyWanted == exit = "shown" => rows \subseteq wanted
=============================================================================
