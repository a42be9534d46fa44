------------------------------ MODULE ChartBatch ------------------------------
(***************************************************************************)
(* `dashboards charts batch --file`: the charts of a file are added to a   *)
(* dashboard one call at a time, those whose title is there already are    *)
(* skipped, and a run that failed is run again. `charts add --if-absent`   *)
(* is the same with a file of one chart.                                   *)
(***************************************************************************)
EXTENDS Naturals, Sequences

CONSTANTS
  Charts,       \* chart ids, of which the server hands out unborn ones
  Titles,
  MaxSpecs,     \* bound on the length of the file
  MaxBatchRuns, \* bound on runs
  MaxUiMoves,   \* bound on changes in the UI
  Unborn, Gone

ASSUME BatchAssumption == {Unborn, Gone} \cap Titles = {} /\ Unborn # Gone

VARIABLES
  title,     \* per chart: its title, Unborn or Gone
  specs,     \* titles in the file, in order
  batchPc,   \* "idle", "titles" or "adding"
  toRead,    \* charts whose title is still to be read
  existing,  \* titles known to be there
  nextSpec,
  failures,  \* adds that failed
  batchRuns, uiMoves,
  batchOK,   \* the last run ended without a failure
  (* History, read by properties only. *)
  made,      \* charts the tool made and nobody renamed
  misread,   \* titles of charts whose read failed
  lostAdds,  \* titles of adds whose answer was lost
  uiGone     \* titles of charts removed or renamed since the run began

batchLocals == <<toRead, existing, nextSpec, failures>>
batchHistory == <<made, misread, lostAdds, uiGone>>
batchVars == <<title, specs, batchPc, batchLocals, batchRuns, uiMoves, batchOK, batchHistory>>

On == {c \in Charts : title[c] \in Titles}

-----------------------------------------------------------------------------
(* The command *)

\* dashboardChartRefs: the charts as they are listed, or the run ends.
BatchStart ==
  /\ batchPc = "idle"
  /\ batchRuns < MaxBatchRuns /\ batchRuns' = batchRuns + 1
  /\ existing' = {} /\ nextSpec' = 1 /\ failures' = 0 /\ batchOK' = FALSE
  /\ uiGone' = {}
  /\ \/ batchPc' = "titles" /\ toRead' = On
     \/ batchPc' = "idle" /\ toRead' = {}
  /\ UNCHANGED <<title, specs, uiMoves, made, misread, lostAdds>>

\* dashboardChartTitles, a chart: a read that fails leaves its title out.
ReadTitle ==
  /\ batchPc = "titles" /\ toRead # {}
  /\ \E c \in toRead :
       /\ toRead' = toRead \ {c}
       /\ \/ c \in On /\ existing' = existing \cup {title[c]} /\ UNCHANGED misread
          \/ misread' = misread \cup ({title[c]} \cap Titles) /\ UNCHANGED existing
  /\ UNCHANGED <<title, specs, batchPc, nextSpec, failures, batchRuns, uiMoves, batchOK, made,
                 lostAdds, uiGone>>

TitlesRead ==
  /\ batchPc = "titles" /\ toRead = {}
  /\ batchPc' = "adding"
  /\ UNCHANGED <<title, specs, batchLocals, batchRuns, uiMoves, batchOK, batchHistory>>

Spec1 == specs[nextSpec]
Adding == batchPc = "adding" /\ nextSpec <= Len(specs)

\* Mutant: every spec is added.
SkipNone == FALSE

\* The title is there, or was added by this run.
Skips == Spec1 \in existing

SkipSpec ==
  /\ Adding /\ Skips
  /\ nextSpec' = nextSpec + 1
  /\ UNCHANGED <<title, specs, batchPc, toRead, existing, failures, batchRuns, uiMoves, batchOK,
                 batchHistory>>

Make(c) == title' = [title EXCEPT ![c] = Spec1] /\ made' = made \cup {c}

\* Mutant: an add that failed is not counted.
AddFailsQuietly ==
  /\ \/ UNCHANGED <<title, made, lostAdds>>
     \/ \E c \in Charts : title[c] = Unborn /\ Make(c) /\ lostAdds' = lostAdds \cup {Spec1}
  /\ UNCHANGED <<failures, existing>>

\* AddChart is refused, or takes effect and its answer is lost.
AddFails ==
  /\ \/ UNCHANGED <<title, made, lostAdds>>
     \/ \E c \in Charts : title[c] = Unborn /\ Make(c) /\ lostAdds' = lostAdds \cup {Spec1}
  /\ failures' = failures + 1
  /\ UNCHANGED existing

AddSpec ==
  /\ Adding /\ ~Skips
  /\ \/ AddFails
     \/ /\ \E c \in Charts : title[c] = Unborn /\ Make(c)
        /\ existing' = existing \cup {Spec1}
        /\ UNCHANGED <<failures, lostAdds>>
  /\ nextSpec' = nextSpec + 1
  /\ UNCHANGED <<specs, batchPc, toRead, batchRuns, uiMoves, batchOK, misread, uiGone>>

BatchIdle == batchPc' = "idle" /\ toRead' = {} /\ existing' = {} /\ nextSpec' = 1 /\ failures' = 0

BatchDone ==
  /\ batchPc = "adding" /\ nextSpec > Len(specs)
  /\ batchOK' = (failures = 0)
  /\ BatchIdle
  /\ UNCHANGED <<title, specs, batchRuns, uiMoves, batchHistory>>

\* The process is killed, in the pause between two adds or anywhere else.
BatchKilled ==
  /\ batchPc # "idle"
  /\ BatchIdle
  /\ UNCHANGED <<title, specs, batchRuns, uiMoves, batchOK, batchHistory>>

-----------------------------------------------------------------------------
(* Everybody else, and the specification *)

\* Someone adds, removes or renames a chart in the UI.
UiMove ==
  /\ uiMoves < MaxUiMoves /\ uiMoves' = uiMoves + 1
  /\ \/ /\ \E c \in Charts, t \in Titles : title[c] = Unborn /\ title' = [title EXCEPT ![c] = t]
        /\ UNCHANGED <<made, uiGone>>
     \/ \E c \in On, t \in Titles \cup {Gone} :
          /\ title[c] # t
          /\ title' = [title EXCEPT ![c] = t]
          /\ made' = made \ {c} /\ uiGone' = uiGone \cup {title[c]}
  /\ UNCHANGED <<specs, batchPc, batchLocals, batchRuns, batchOK, misread, lostAdds>>

BatchInit ==
  /\ title \in [Charts -> Titles \cup {Unborn}]
  /\ specs \in UNION {[1 .. n -> Titles] : n \in 1 .. MaxSpecs}
  /\ batchPc = "idle" /\ toRead = {} /\ existing = {} /\ nextSpec = 1 /\ failures = 0
  /\ batchRuns = 0 /\ uiMoves = 0 /\ batchOK = FALSE
  /\ made = {} /\ misread = {} /\ lostAdds = {} /\ uiGone = {}

BatchStep == ReadTitle \/ TitlesRead \/ SkipSpec \/ AddSpec \/ BatchDone

BatchNext == BatchStart \/ BatchStep \/ BatchKilled \/ UiMove

BatchSpec == BatchInit /\ [][BatchNext]_batchVars

-----------------------------------------------------------------------------
(* Properties *)

\* Every variable has its type.
BatchTypeOK ==
  /\ title \in [Charts -> Titles \cup {Unborn, Gone}]
  /\ specs \in Seq(Titles)
  /\ batchPc \in {"idle", "titles", "adding"}
  /\ toRead \subseteq Charts /\ existing \subseteq Titles
  /\ nextSpec \in Nat /\ failures \in Nat /\ batchRuns \in Nat /\ uiMoves \in Nat
  /\ batchOK \in BOOLEAN
  /\ made \subseteq Charts
  /\ misread \subseteq Titles /\ lostAdds \subseteq Titles /\ uiGone \subseteq Titles

Repeated == {specs[i] : i \in {j \in 1 .. Len(specs) :
               \E k \in 1 .. Len(specs) : k # j /\ specs[k] = specs[j]}}

\* A batch that reports no failure has every chart of its file on the dashboard, if nobody
\* took it away; and run again after a failure, a kill or a lost answer it "converges
\* instead of duplicating" (dashboards_batch.go:93-94): it makes a title twice only if a
\* chart of that title could not be read, which is the exception the code does not tell, or
\* if the file repeats the title of an add whose answer was lost.
BatchConverges ==
  /\ batchPc = "idle" /\ batchOK =>
       \A i \in 1 .. Len(specs) : specs[i] \in uiGone \/ \E c \in On : title[c] = specs[i]
  /\ \A c, d \in made : c # d /\ title[c] = title[d] => title[c] \in misread \cup (Repeated \cap lostAdds)
=============================================================================
