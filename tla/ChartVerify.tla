----------------------------- MODULE ChartVerify -----------------------------
(***************************************************************************)
(* `dashboards verify [--all]`: every chart of a dashboard is read and its *)
(* query executed, a bounded number of charts at a time, and the verdicts  *)
(* decide the exit code of a health gate. Calls fail for a moment under    *)
(* load; a failed call is tried again, and what is left must not condemn   *)
(* a healthy dashboard.                                                    *)
(***************************************************************************)
EXTENDS Naturals, Sequences, FiniteSets

CONSTANTS
  Places,      \* the charts of a dashboard, by position
  Concurrency, \* charts verified at a time
  Tries,       \* attempts of one call
  Boards       \* dashboards of the fleet

ASSUME VerifyAssumption ==
  /\ IsFiniteSet(Places)
  /\ {Concurrency, Tries, Boards} \subseteq Nat \ {0}

VARIABLES
  truth,     \* what the dashboard is: its charts, or Missing
  single,    \* one dashboard is verified, without --all
  json,      \* --json
  verifyPc,  \* "refs", "charts" or "done"
  refTries,  \* failed reads of the dashboard
  stage,     \* per chart: "wait", "get", "query", "execute" or "told"
  tries,     \* per chart, failed attempts of the call
  verdict,   \* per chart
  fleet,     \* verdicts on the dashboards before this one
  outcome,   \* "none", "ok", "divergence" or "error"
  (* History, read by properties only. *)
  flaky,     \* charts of this dashboard of which a call failed for the moment
  wrong,     \* a dashboard judged so far is not right
  unread     \* a call on a dashboard judged so far failed for the moment

past == <<wrong, unread>>
asked == <<single, json>>
verifyVars == <<truth, asked, verifyPc, refTries, stage, tries, verdict, fleet, outcome, flaky,
                past>>
chartLocals == <<stage, tries, verdict, flaky>>

\* What a chart is: it has rows, none, a query that does not compile, a query with a
\* reserved name (it executes, and renders blank), is no longer there, or has no query.
Conditions == {"rows", "norows", "invalid", "reserved", "gone", "queryless"}
Missing == [missing |-> TRUE]
Chart(p) == truth[p]

Waiting == [p \in Places |-> "wait"]
Zero == [p \in Places |-> 0]
Unjudged == [p \in Places |-> "none"]

-----------------------------------------------------------------------------
(* One chart *)

\* errgroup.SetLimit
StartChart(p) ==
  /\ verifyPc = "charts" /\ stage[p] = "wait"
  /\ Cardinality({q \in Places : stage[q] \notin {"wait", "told"}}) < Concurrency
  /\ stage' = [stage EXCEPT ![p] = "get"]
  /\ UNCHANGED <<truth, asked, verifyPc, refTries, tries, verdict, fleet, outcome, flaky,
                 past>>

Tell(p, v) ==
  /\ stage' = [stage EXCEPT ![p] = "told"]
  /\ verdict' = [verdict EXCEPT ![p] = v]
  /\ UNCHANGED tries

Proceed(p, s) ==
  /\ stage' = [stage EXCEPT ![p] = s]
  /\ tries' = [tries EXCEPT ![p] = 0]
  /\ UNCHANGED verdict

\* retryTransient and classifyChartErr: after the last try the failure itself is judged.
RetryOr(p, v) ==
  IF tries[p] < Tries - 1
  THEN tries' = [tries EXCEPT ![p] = @ + 1] /\ UNCHANGED <<stage, verdict>>
  ELSE Tell(p, v)

\* Mutant: any error of the server condemns the chart.
FailsAsError(p) == RetryOr(p, "error")

\* A call gets 429 or 5xx, or no answer.
Fails(p) == RetryOr(p, "transient")

\* verifyOneChart: GetChart
GetTheChart(p) ==
  /\ stage[p] = "get"
  /\ \/ Fails(p) /\ flaky' = flaky \cup {p}
     \/ Chart(p) = "gone" /\ Tell(p, "error") /\ UNCHANGED flaky
     \/ Chart(p) = "queryless" /\ Proceed(p, "execute") /\ UNCHANGED flaky
     \/ Chart(p) \notin {"gone", "queryless"} /\ Proceed(p, "query") /\ UNCHANGED flaky
  /\ UNCHANGED <<truth, asked, verifyPc, refTries, fleet, outcome, past>>

\* The reserved names are looked for in the stored query, if it can be read at once.
ReadQuery(p) ==
  /\ stage[p] = "query"
  /\ \/ Proceed(p, "execute") /\ flaky' = flaky \cup {p}
     \/ /\ IF Chart(p) = "reserved" THEN Tell(p, "error") ELSE Proceed(p, "execute")
        /\ UNCHANGED flaky
  /\ UNCHANGED <<truth, asked, verifyPc, refTries, fleet, outcome, past>>

\* execChartQuery: GetQuery and the execution, tried again together. "Chart has no query"
\* is tried again too, and is not an error of the API.
Execute(p) ==
  /\ stage[p] = "execute"
  /\ \/ Chart(p) # "queryless" /\ Fails(p) /\ flaky' = flaky \cup {p}
     \/ /\ \/ Chart(p) = "queryless" /\ RetryOr(p, "transient")
           \/ Chart(p) = "invalid" /\ RetryOr(p, "error")
           \/ Chart(p) = "norows" /\ Tell(p, "empty")
           \/ Chart(p) \in {"rows", "reserved"} /\ Tell(p, "ok")
        /\ UNCHANGED flaky
  /\ UNCHANGED <<truth, asked, verifyPc, refTries, fleet, outcome, past>>

-----------------------------------------------------------------------------
(* One dashboard, and the fleet *)

Judged(vs) == {p \in Places : verdict[p] \in vs}
Bad == Judged({"error", "empty"})

\* There is nothing to say of the dashboard.
Right == truth # Missing /\ \A p \in Places : Chart(p) \in {"rows", "queryless"}

\* A fleet with a dashboard that is broken or gone.
FleetBad(f) == \E i \in 1 .. Len(f) : f[i] \in {"broken", "error"}

\* verify --all: with --json the report is printed and the command ends well whatever it
\* says; otherwise the exit is a divergence when a dashboard is bad.
FleetExit(f) == IF FleetBad(f) /\ ~json THEN "divergence" ELSE "ok"

\* The dashboard is judged s: alone, the exit follows at once; with --all the next one is
\* read, and the exit follows from all.
Conclude(s, alone) ==
  LET fleet2 == Append(fleet, s)
  IN  /\ wrong' = (wrong \/ ~Right) /\ unread' = (unread \/ flaky # {} \/ s = "recheck")
      /\ fleet' = fleet2
      /\ IF single \/ Len(fleet2) = Boards
         THEN /\ verifyPc' = "done"
              /\ outcome' = IF single THEN alone ELSE FleetExit(fleet2)
              /\ UNCHANGED <<truth, refTries, chartLocals>>
         ELSE /\ verifyPc' = "refs"
              /\ truth' \in [Places -> Conditions] \cup {Missing}
              /\ refTries' = 0 /\ stage' = Waiting /\ tries' = Zero /\ verdict' = Unjudged
              /\ flaky' = {} /\ UNCHANGED outcome

\* verifyDashboard: the references of the charts.
ReadRefs ==
  /\ verifyPc = "refs"
  /\ \/ /\ refTries < Tries - 1
        /\ refTries' = refTries + 1
        /\ UNCHANGED <<truth, verifyPc, chartLocals, fleet, outcome, past>>
     \/ refTries = Tries - 1 /\ Conclude("recheck", "error")
     \/ truth = Missing /\ Conclude("error", "error")
     \/ /\ truth # Missing /\ verifyPc' = "charts"
        /\ UNCHANGED <<truth, refTries, chartLocals, fleet, outcome, past>>
  /\ UNCHANGED asked

\* Every chart is judged: countVerdicts, and the exit.
BoardDone ==
  /\ verifyPc = "charts" /\ \A p \in Places : stage[p] = "told"
  /\ IF Bad # {} THEN Conclude("broken", "divergence")
     ELSE IF Judged({"transient"}) # {} THEN Conclude("inconclusive", "ok")
     ELSE Conclude("ok", "ok")
  /\ UNCHANGED asked

VerifyInit ==
  /\ truth \in [Places -> Conditions] \cup {Missing}
  /\ single \in BOOLEAN /\ json \in BOOLEAN
  /\ verifyPc = "refs" /\ refTries = 0
  /\ stage = Waiting /\ tries = Zero /\ verdict = Unjudged
  /\ fleet = <<>> /\ outcome = "none"
  /\ flaky = {} /\ wrong = FALSE /\ unread = FALSE

VerifyNext ==
  \/ ReadRefs \/ BoardDone
  \/ \E p \in Places : StartChart(p) \/ GetTheChart(p) \/ ReadQuery(p) \/ Execute(p)

VerifySpec == VerifyInit /\ [][VerifyNext]_verifyVars

\* Calls answer or fail, waits end, goroutines run.
VerifyFairness == WF_verifyVars(VerifyNext)

-----------------------------------------------------------------------------
(* Properties *)

\* Every variable has its type.
VerifyTypeOK ==
  /\ truth \in [Places -> Conditions] \cup {Missing}
  /\ single \in BOOLEAN /\ json \in BOOLEAN /\ verifyPc \in {"refs", "charts", "done"}
  /\ refTries \in 0 .. Tries - 1 /\ tries \in [Places -> 0 .. Tries - 1]
  /\ stage \in [Places -> {"wait", "get", "query", "execute", "told"}]
  /\ verdict \in [Places -> {"none", "ok", "empty", "error", "transient"}]
  /\ fleet \in Seq({"ok", "inconclusive", "broken", "recheck", "error"})
  /\ outcome \in {"none", "ok", "divergence", "error"}
  /\ flaky \subseteq Places /\ wrong \in BOOLEAN /\ unread \in BOOLEAN

\* A chart is condemned only for what it is, however many calls failed on the way ("a
\* transient failure must NOT be reported as broken", dashboards_execute.go:348-351), and
\* one that is not right passes only if the read that would have told failed. So the gate
\* stops only for a wrong dashboard, and passes only right ones, ones with a failed call, or,
\* with --all --json (dashboards_fleet.go:269-275), ones its report condemns.
VerdictsSound ==
  /\ \A p \in Places :
       /\ verdict[p] = "error" => Chart(p) \in {"invalid", "reserved", "gone"}
       /\ verdict[p] = "empty" => Chart(p) = "norows"
       /\ verdict[p] = "ok" => Chart(p) = "rows" \/ (Chart(p) = "reserved" /\ p \in flaky)
       /\ verdict[p] = "transient" => p \in flaky \/ Chart(p) = "queryless"
  /\ outcome = "divergence" => wrong
  /\ outcome = "ok" => ~wrong \/ unread \/ (~single /\ json /\ FleetBad(fleet))

\* "Exits non-zero (2) if any dashboard has a broken/empty chart" (dashboards_fleet.go:223).
\* It does not hold with --all --json.
GateStops == outcome = "ok" => ~FleetBad(fleet)

\* A verification ends, however long calls fail.
VerifyEnds == <>(verifyPc = "done")
=============================================================================
