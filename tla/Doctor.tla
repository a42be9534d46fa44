-------------------------------- MODULE Doctor --------------------------------
(***************************************************************************)
(* `secopsctl doctor`: a check of the SIEM plane (credentials, then one    *)
(* call) and a check of the SOAR plane run side by side under one          *)
(* deadline. The SOAR check races two probes: the fallback starts when the *)
(* primary is slow or has failed, and the first success wins               *)
(* (runHedgedDoctorProbe). Every part is a goroutine of its own.           *)
(***************************************************************************)
EXTENDS Naturals, Sequences, FiniteSets

CONSTANTS
  Budget,  \* the deadline of the command, in ticks
  Hedge    \* ticks before the fallback starts

ASSUME DoctorAssumption == Budget \in Nat \ {0} /\ Hedge \in Nat

VARIABLES
  now,
  lanes,      \* per probe: "off", "running", then "ok" or "failed" until it is sent, "sent"
  results,    \* the channel of the race
  timer,      \* the tick at which the fallback starts, or Never
  laneFailed, \* probes whose failure the race has received
  race,       \* "running", or what the race returned: "ok" or "error"
  siemPc,     \* "auth", "authSend", "siem", "siemSend" or "done"
  soarPc,     \* "probe" or "done"
  authCheck, siemCheck, \* outcomes of the SIEM pipeline
  checks,     \* the channel of the checks
  got,        \* checks received
  doctorPc,   \* "collect" or "done"
  (* History, read by properties only. *)
  answered    \* probes whose call succeeded before the deadline

raceVars == <<lanes, results, timer, laneFailed, race>>
siemVars == <<siemPc, authCheck, siemCheck>>
doctorVars == <<now, raceVars, siemVars, soarPc, checks, got, doctorPc, answered>>

Lanes == {"primary", "fallback"}
Never == Budget + 1
Checks == {"auth", "siem", "soar"}
Verdicts == {"ok", "failed", "skipped"}

\* Mutant: room for one outcome.
RoomForOne == 1

\* The capacity of the channel of the race: each probe sends at most once.
Room == 2

Expired == now >= Budget

\* The race's own context: the command's, until the race returns.
Cancelled == Expired \/ race # "running"

-----------------------------------------------------------------------------
(* The race *)

\* boundedDoctorHedgeDelay: the fallback has half of what is left, at least.
HedgeDelay(left) == IF Hedge <= left \div 2 THEN Hedge ELSE left \div 2

\* A probe's call succeeds, or it fails or gives in to its context.
LaneAnswers(l) ==
  /\ lanes[l] = "running"
  /\ \/ /\ ~Cancelled
        /\ lanes' = [lanes EXCEPT ![l] = "ok"]
        /\ answered' = answered \cup {l}
     \/ lanes' = [lanes EXCEPT ![l] = "failed"] /\ UNCHANGED answered
  /\ UNCHANGED <<now, results, timer, laneFailed, race, siemVars, soarPc, checks, got, doctorPc>>

\* A probe puts its outcome on the channel, also after the race has returned.
LaneSends(l) ==
  /\ lanes[l] \in {"ok", "failed"}
  /\ Len(results) < Room
  /\ results' = Append(results, [lane |-> l, ok |-> lanes[l] = "ok"])
  /\ lanes' = [lanes EXCEPT ![l] = "sent"]
  /\ UNCHANGED <<now, timer, laneFailed, race, siemVars, soarPc, checks, got, doctorPc, answered>>

\* startFallback, once.
StartFallback ==
  lanes' = IF lanes["fallback"] = "off" THEN [lanes EXCEPT !["fallback"] = "running"] ELSE lanes

RaceTimer ==
  /\ race = "running" /\ now >= timer
  /\ timer' = Never
  /\ StartFallback
  /\ UNCHANGED <<now, results, laneFailed, race, siemVars, soarPc, checks, got, doctorPc, answered>>

RaceExpires ==
  /\ race = "running" /\ Expired
  /\ race' = "error"
  /\ UNCHANGED <<now, lanes, results, timer, laneFailed, siemVars, soarPc, checks, got, doctorPc,
                 answered>>

\* Mutant: the race ends at the first outcome.
ReceiveFirst ==
  /\ race = "running" /\ results # <<>>
  /\ race' = IF Head(results).ok /\ ~Expired THEN "ok" ELSE "error"
  /\ results' = Tail(results)
  /\ UNCHANGED <<now, lanes, timer, laneFailed, siemVars, soarPc, checks, got, doctorPc, answered>>

\* A failure of the primary starts the fallback at once; two failures end the race.
RaceReceives ==
  /\ race = "running" /\ results # <<>>
  /\ results' = Tail(results)
  /\ LET first == Head(results)
     IN  \/ /\ first.ok
            /\ race' = IF Expired THEN "error" ELSE "ok"
            /\ UNCHANGED <<lanes, timer, laneFailed>>
         \/ /\ ~first.ok
            /\ laneFailed' = laneFailed \cup {first.lane}
            /\ IF first.lane = "primary" /\ lanes["fallback"] = "off"
               THEN timer' = Never /\ StartFallback
               ELSE UNCHANGED <<timer, lanes>>
            /\ race' = IF laneFailed' = Lanes THEN "error" ELSE "running"
  /\ UNCHANGED <<now, siemVars, soarPc, checks, got, doctorPc, answered>>

-----------------------------------------------------------------------------
(* healthChecks *)

SendCheck(name, verdict) ==
  /\ Len(checks) < Cardinality(Checks)
  /\ checks' = Append(checks, [name |-> name, verdict |-> verdict])

SoarDone ==
  /\ soarPc = "probe" /\ race # "running"
  /\ SendCheck("soar", IF race = "ok" THEN "ok" ELSE "failed")
  /\ soarPc' = "done"
  /\ UNCHANGED <<now, raceVars, siemVars, got, doctorPc, answered>>

\* checkAuth, and checkSIEM if there are credentials.
SiemAnswers ==
  /\ \/ /\ siemPc = "auth"
        /\ siemPc' = "authSend"
        /\ \/ ~Expired /\ authCheck' = "ok"
           \/ authCheck' = "failed"
        /\ UNCHANGED siemCheck
     \/ /\ siemPc = "siem"
        /\ siemPc' = "siemSend"
        /\ \/ authCheck # "ok" /\ siemCheck' = "skipped"
           \/ authCheck = "ok" /\ ~Expired /\ siemCheck' = "ok"
           \/ authCheck = "ok" /\ siemCheck' = "failed"
        /\ UNCHANGED authCheck
  /\ UNCHANGED <<now, raceVars, soarPc, checks, got, doctorPc, answered>>

SiemSends ==
  /\ \/ siemPc = "authSend" /\ SendCheck("auth", authCheck) /\ siemPc' = "siem"
     \/ siemPc = "siemSend" /\ SendCheck("siem", siemCheck) /\ siemPc' = "done"
  /\ UNCHANGED <<now, raceVars, authCheck, siemCheck, soarPc, got, doctorPc, answered>>

\* Three checks are received, in any order, and put in theirs.
Collect ==
  /\ doctorPc = "collect" /\ checks # <<>>
  /\ got' = [got EXCEPT ![Head(checks).name] = Head(checks).verdict]
  /\ checks' = Tail(checks)
  /\ doctorPc' = IF \A c \in Checks : got'[c] # "none" THEN "done" ELSE "collect"
  /\ UNCHANGED <<now, raceVars, siemVars, soarPc, answered>>

\* finalize
AllOK == \A c \in Checks : got[c] \in {"ok", "skipped"}

Tick == now < Budget /\ now' = now + 1
        /\ UNCHANGED <<raceVars, siemVars, soarPc, checks, got, doctorPc, answered>>

-----------------------------------------------------------------------------
(* Specification *)

\* The command with the SOAR plane configured, at any distance from its deadline.
DoctorInit ==
  /\ now \in 0 .. Budget
  /\ lanes = [l \in Lanes |-> IF ~Expired /\ (l = "primary" \/ HedgeDelay(Budget - now) = 0)
                              THEN "running" ELSE "off"]
  /\ race = IF Expired THEN "error" ELSE "running"
  /\ timer = IF Expired \/ HedgeDelay(Budget - now) = 0 THEN Never
             ELSE now + HedgeDelay(Budget - now)
  /\ results = <<>> /\ laneFailed = {}
  /\ siemPc = "auth" /\ authCheck = "none" /\ siemCheck = "none"
  /\ soarPc = "probe" /\ checks = <<>>
  /\ got = [c \in Checks |-> "none"] /\ doctorPc = "collect"
  /\ answered = {}

RaceStep == RaceTimer \/ RaceExpires \/ RaceReceives
DoctorStep == SoarDone \/ SiemSends \/ Collect

DoctorNext ==
  \/ (\E l \in Lanes : LaneAnswers(l) \/ LaneSends(l))
  \/ RaceStep \/ SiemAnswers \/ DoctorStep \/ Tick

DoctorSpec == DoctorInit /\ [][DoctorNext]_doctorVars

\* Time passes, goroutines run, and a call whose context is done returns; an earlier answer
\* is not owed.
DoctorFairness ==
  /\ WF_doctorVars(Tick) /\ WF_doctorVars(RaceStep)
  /\ WF_doctorVars(SoarDone) /\ WF_doctorVars(SiemSends) /\ WF_doctorVars(Collect)
  /\ WF_doctorVars(Expired /\ SiemAnswers)
  /\ \A l \in Lanes :
       WF_doctorVars(Cancelled /\ LaneAnswers(l)) /\ WF_doctorVars(LaneSends(l))

-----------------------------------------------------------------------------
(* Properties *)

\* Every variable has its type.
DoctorTypeOK ==
  /\ now \in 0 .. Budget
  /\ lanes \in [Lanes -> {"off", "running", "ok", "failed", "sent"}]
  /\ results \in Seq([lane : Lanes, ok : BOOLEAN])
  /\ timer \in Nat /\ laneFailed \subseteq Lanes /\ answered \subseteq Lanes
  /\ race \in {"running", "ok", "error"}
  /\ siemPc \in {"auth", "authSend", "siem", "siemSend", "done"}
  /\ soarPc \in {"probe", "done"} /\ doctorPc \in {"collect", "done"}
  /\ authCheck \in {"none", "ok", "failed"} /\ siemCheck \in Verdicts \cup {"none"}
  /\ checks \in Seq([name : Checks, verdict : Verdicts])
  /\ got \in [Checks -> Verdicts \cup {"none"}]

\* What the race returns is true: a success was answered by a probe in time; an error
\* before the deadline means that both probes ran and that neither call succeeded ("an
\* error only wins after both probes have failed", doctor_probe_race.go:21-22). And all
\* checks pass only if the SOAR plane answered and so did the SIEM plane.
VerdictTruth ==
  /\ race = "ok" => answered # {}
  /\ race = "error" /\ ~Expired =>
       answered = {} /\ \A l \in Lanes : lanes[l] = "sent"
  /\ doctorPc = "done" => (AllOK <=> race = "ok" /\ authCheck = "ok" /\ siemCheck = "ok")

\* The command ends, and so does every probe that was started: a probe that finishes after
\* the race has returned finds room for its outcome (doctor_probe_race.go:36-37).
DoctorEnds == <>[](doctorPc = "done" /\ \A l \in Lanes : lanes[l] \in {"off", "sent"})
=============================================================================
