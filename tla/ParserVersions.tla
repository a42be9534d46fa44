---------------------------- MODULE ParserVersions ----------------------------
(***************************************************************************)
(* The parser file of one log type, pulled and pushed (parsersSurface).    *)
(* Versions of a parser are immutable: a push creates one, waits until the *)
(* platform has validated it, and activates it, which the platform may     *)
(* refuse for a while. The platform validates and activates on its own     *)
(* time. Time is counted in seconds of sleep; calls take none.             *)
(***************************************************************************)
EXTENDS Naturals

CONSTANTS
  Versions,          \* parser ids, of which the server hands out unborn ones
  Cbns,              \* parser sources
  ValidateTimeout, FirstPoll, LongestPoll,
  MaxAttempts, FirstRetry, LongestRetry,
  MaxParserCommands, \* bound on commands
  MaxParserChanges,  \* bound on edits of the file and on changes by others
  NoVersion, NoParser

ASSUME ParserAssumption ==
  /\ NoVersion \notin Versions
  /\ NoParser \notin [cbn : Cbns, custom : BOOLEAN, active : BOOLEAN,
                      stage : {"pending", "passed", "failed"}]
  /\ {ValidateTimeout, FirstPoll, LongestPoll, MaxAttempts, FirstRetry, LongestRetry}
       \subseteq Nat \ {0}

VARIABLES
  versions,   \* the versions of the log type
  parserFile, \* the mirror file: an id and a source
  parserPc,   \* "idle", "create", "validate", "activate" or "write"
  parserNew,  \* the version the push created
  parserWait, \* the next sleep
  parserSlept, parserAttempt,
  parserCommands, parserChanges,
  (* History, read by properties only. *)
  parserCalm  \* the last command was a push that reported success, undisturbed

parserLocals == <<parserNew, parserWait, parserSlept, parserAttempt>>
parserVars == <<versions, parserFile, parserPc, parserLocals, parserCommands, parserChanges,
                parserCalm>>

Version == [cbn : Cbns, custom : BOOLEAN, active : BOOLEAN,
            stage : {"pending", "passed", "failed"}]

IsVersion(v) == v \in Versions /\ versions[v] # NoParser

Smaller(a, b) == IF a <= b THEN a ELSE b

\* activeParser: a custom version goes before a prebuilt one.
CustomFirst(active) == CHOOSE v \in active : versions[v].custom \/ \A w \in active : ~versions[w].custom

Active == {v \in Versions : IsVersion(v) /\ versions[v].active}
Listed == IF Active = {} THEN NoVersion ELSE CustomFirst(Active)

-----------------------------------------------------------------------------
(* Commands *)

ParserMay ==
  /\ parserPc = "idle"
  /\ parserCommands < MaxParserCommands /\ parserCommands' = parserCommands + 1

ParserPull ==
  /\ ParserMay /\ Listed # NoVersion
  /\ parserFile' = [id |-> Listed, cbn |-> versions[Listed].cbn]
  /\ parserCalm' = FALSE
  /\ UNCHANGED <<versions, parserPc, parserLocals, parserChanges>>

\* BuildPlan: the file's version is the listed one and equal, or a version is created, by
\* Create or by Update. A log type that is not listed has no version.
ParserPush(hidden) ==
  /\ ParserMay
  /\ LET same == /\ ~hidden /\ parserFile.id = Listed
                 /\ Listed # NoVersion /\ versions[Listed].cbn = parserFile.cbn
     IN  parserPc' = IF same THEN "idle" ELSE "create"
  /\ parserCalm' = TRUE
  /\ UNCHANGED <<versions, parserFile, parserLocals, parserChanges>>

\* The push ends with an error: a call is refused, fails or loses its answer, the file
\* cannot be written, or the process is killed.
ParserFails ==
  /\ parserPc' = "idle" /\ parserCalm' = FALSE
  /\ parserNew' = NoVersion /\ parserWait' = 0 /\ parserSlept' = 0 /\ parserAttempt' = 0

ParserGiveUp ==
  /\ parserPc # "idle"
  /\ ParserFails
  /\ UNCHANGED <<versions, parserFile, parserCommands, parserChanges>>

CreateVersion ==
  /\ parserPc = "create"
  /\ \E v \in {u \in Versions : versions[u] = NoParser} :
       /\ versions' = [versions EXCEPT ![v] = [cbn |-> parserFile.cbn, custom |-> TRUE,
                                                active |-> FALSE, stage |-> "pending"]]
       /\ \/ ParserFails
          \/ /\ parserPc' = "validate" /\ parserNew' = v
             /\ parserWait' = FirstPoll
             /\ UNCHANGED <<parserSlept, parserAttempt, parserCalm>>
  /\ UNCHANGED <<parserFile, parserCommands, parserChanges>>

\* Mutant: every reading starts the wait again.
PollForever ==
  /\ parserPc = "validate"
  /\ \/ /\ versions[parserNew].stage = "passed"
        /\ parserPc' = "activate"
        /\ parserWait' = FirstRetry /\ parserSlept' = 0
        /\ UNCHANGED <<parserNew, parserAttempt, parserCalm>>
     \/ /\ versions[parserNew].stage = "failed"
        /\ ParserFails
     \/ /\ versions[parserNew].stage = "pending"
        /\ parserWait' = Smaller(2 * parserWait, LongestPoll)
        /\ UNCHANGED <<parserPc, parserNew, parserSlept, parserAttempt, parserCalm>>
  /\ UNCHANGED <<versions, parserFile, parserCommands, parserChanges>>

\* waitParserValidated, a reading at a time.
PollValidation ==
  /\ parserPc = "validate"
  /\ \/ /\ versions[parserNew].stage = "passed"
        /\ parserPc' = "activate"
        /\ parserWait' = FirstRetry /\ parserSlept' = 0
        /\ UNCHANGED <<parserNew, parserAttempt, parserCalm>>
     \/ /\ \/ versions[parserNew].stage = "failed"
           \/ versions[parserNew].stage = "pending" /\ parserSlept > ValidateTimeout
        /\ ParserFails
     \/ /\ versions[parserNew].stage = "pending" /\ parserSlept <= ValidateTimeout
        /\ parserSlept' = parserSlept + parserWait
        /\ parserWait' = Smaller(2 * parserWait, LongestPoll)
        /\ UNCHANGED <<parserPc, parserNew, parserAttempt, parserCalm>>
  /\ UNCHANGED <<versions, parserFile, parserCommands, parserChanges>>

\* The platform makes a version the active custom one; a prebuilt one may stay active.
Activated(v, prebuilt) ==
  [w \in Versions |->
     IF ~IsVersion(w) THEN versions[w]
     ELSE [versions[w] EXCEPT !.active = w = v \/ (@ /\ ~versions[w].custom /\ prebuilt)]]

\* Mutant: the last refusal is not an error.
ActivateHopes ==
  /\ parserPc = "activate"
  /\ \/ \E prebuilt \in BOOLEAN : versions' = Activated(parserNew, prebuilt)
     \/ UNCHANGED versions
  /\ parserPc' = "write"
  /\ UNCHANGED <<parserFile, parserLocals, parserCommands, parserChanges, parserCalm>>

\* retryActivateParser, an attempt at a time: refused for now, or done.
ActivateVersion ==
  /\ parserPc = "activate"
  /\ \/ /\ parserAttempt < MaxAttempts - 1
        /\ parserAttempt' = parserAttempt + 1
        /\ parserSlept' = parserSlept + parserWait
        /\ parserWait' = Smaller(2 * parserWait, LongestRetry)
        /\ UNCHANGED <<versions, parserPc, parserNew, parserCalm>>
     \/ /\ parserAttempt = MaxAttempts - 1
        /\ ParserFails
        /\ UNCHANGED versions
     \/ /\ \E prebuilt \in BOOLEAN : versions' = Activated(parserNew, prebuilt)
        /\ \/ ParserFails
           \/ parserPc' = "write" /\ UNCHANGED <<parserLocals, parserCalm>>
  /\ UNCHANGED <<parserFile, parserCommands, parserChanges>>

\* GetParser and writeParserObject: the source first (.conf), then the id (.yaml).
WriteParser ==
  /\ parserPc = "write"
  /\ \/ /\ parserFile' = [id |-> parserNew, cbn |-> versions[parserNew].cbn]
        /\ UNCHANGED parserCalm
     \/ /\ parserFile' = [parserFile EXCEPT !.cbn = versions[parserNew].cbn]
        /\ parserCalm' = FALSE
  /\ parserPc' = "idle"
  /\ parserNew' = NoVersion /\ parserWait' = 0 /\ parserSlept' = 0 /\ parserAttempt' = 0
  /\ UNCHANGED <<versions, parserCommands, parserChanges>>

-----------------------------------------------------------------------------
(* Everybody else *)

\* The platform validates versions, at any time or never.
Validate ==
  /\ \E v \in Versions, stage \in {"passed", "failed"} :
       /\ IsVersion(v) /\ versions[v].stage = "pending"
       /\ versions' = [versions EXCEPT ![v].stage = stage]
  /\ UNCHANGED <<parserFile, parserPc, parserLocals, parserCommands, parserChanges, parserCalm>>

\* Someone activates another version, or edits the file between commands.
ParserChange ==
  /\ parserChanges < MaxParserChanges /\ parserChanges' = parserChanges + 1
  /\ \/ /\ \E v \in Versions, prebuilt \in BOOLEAN :
             /\ IsVersion(v) /\ versions[v].stage = "passed"
             /\ versions' = Activated(v, prebuilt)
        /\ UNCHANGED parserFile
     \/ /\ parserPc = "idle"
        /\ \E cbn \in Cbns : parserFile' = [parserFile EXCEPT !.cbn = cbn]
        /\ UNCHANGED versions
  /\ parserCalm' = FALSE
  /\ UNCHANGED <<parserPc, parserLocals, parserCommands>>

-----------------------------------------------------------------------------
(* Specification *)

\* A log type with a prebuilt or a custom parser, and its file as pulled; or a source
\* written by hand.
ParserInit ==
  /\ versions \in [Versions -> Version \cup {NoParser}]
  /\ \A v \in Versions : IsVersion(v) => versions[v].stage = "passed" /\ versions[v].active
  /\ \A v, w \in Versions : IsVersion(v) /\ IsVersion(w) /\ v # w =>
       ~(versions[v].custom <=> versions[w].custom)
  /\ \/ Listed # NoVersion /\ parserFile = [id |-> Listed, cbn |-> versions[Listed].cbn]
     \/ parserFile \in [id : {NoVersion}, cbn : Cbns]
  /\ parserPc = "idle" /\ parserNew = NoVersion
  /\ parserWait = 0 /\ parserSlept = 0 /\ parserAttempt = 0
  /\ parserCommands = 0 /\ parserChanges = 0 /\ parserCalm = FALSE

ParserStep == CreateVersion \/ PollValidation \/ ActivateVersion \/ WriteParser \/ ParserGiveUp

ParserNext ==
  \/ ParserPull \/ (\E hidden \in BOOLEAN : ParserPush(hidden))
  \/ ParserStep \/ Validate \/ ParserChange

ParserSpec == ParserInit /\ [][ParserNext]_parserVars

\* Sleeps end, and calls answer or fail; the platform need not ever validate or accept.
ParserFairness ==
  /\ WF_parserVars(PollValidation \/ ActivateVersion \/ WriteParser)
  /\ WF_parserVars(parserPc = "create" /\ (CreateVersion \/ ParserGiveUp))

-----------------------------------------------------------------------------
(* Properties *)

\* Every variable has its type.
ParserTypeOK ==
  /\ versions \in [Versions -> Version \cup {NoParser}]
  /\ parserFile \in [id : Versions \cup {NoVersion}, cbn : Cbns]
  /\ parserPc \in {"idle", "create", "validate", "activate", "write"}
  /\ parserNew \in Versions \cup {NoVersion}
  /\ {parserWait, parserSlept, parserAttempt, parserCommands, parserChanges} \subseteq Nat
  /\ parserCalm \in BOOLEAN

\* After a push that succeeds undisturbed, however earlier ones failed: the version that
\* the platform runs before a prebuilt one has passed validation, has the file's source
\* and is the one the file names, so that the next plan is empty. A push that was not told
\* in time that the version is active has failed ("a created-but-inactive parser is not
\* live", parsers_surface.go:257-258).
ParserSettles ==
  parserPc = "idle" /\ parserCalm =>
    /\ Listed # NoVersion
    /\ parserFile = [id |-> Listed, cbn |-> versions[Listed].cbn]
    /\ versions[Listed].stage = "passed"

\* A push ends, even if the platform never validates the version or never accepts it.
ParserPushEnds == parserPc # "idle" ~> parserPc = "idle"
=============================================================================
