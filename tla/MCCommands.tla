------------------------------- MODULE MCCommands -------------------------------
EXTENDS ParserVersions, Doctor, EventWindows, ChartVerify, ChartBatch, CommandTable

\* The command at work: the six share nothing.
VARIABLE command

\* A command that is not at work is over, or was never run.
MCNoParser ==
  /\ versions = [v \in Versions |-> NoParser]
  /\ parserFile.cbn = "b1"

MCNoDoctor ==
  /\ now = Budget
  /\ lanes = [l \in Lanes |-> "sent"] /\ results = <<>> /\ timer = Never /\ laneFailed = Lanes
  /\ race = "error"
  /\ siemPc = "done" /\ authCheck = "failed" /\ siemCheck = "skipped"
  /\ soarPc = "done" /\ checks = <<>>
  /\ got = [auth |-> "failed", siem |-> "skipped", soar |-> "failed"] /\ doctorPc = "done"
  /\ answered = {}

MCNoSearch ==
  /\ at = [e \in Events |-> 0] /\ from = 0 /\ to = 3 /\ limit = 1
  /\ complete = FALSE /\ inclusive = FALSE
  /\ chunk = 1 /\ found = {} /\ total = 0 /\ truncated = TRUE /\ searchPc = "done"

MCNoVerify ==
  /\ truth = Missing /\ single = TRUE /\ json = FALSE /\ verifyPc = "done" /\ refTries = 0
  /\ stage = Waiting /\ tries = Zero /\ verdict = Unjudged
  /\ fleet = <<"error">> /\ outcome = "error" /\ flaky = {} /\ wrong = TRUE /\ unread = FALSE

MCNoBatch == title = [c \in Charts |-> Unborn] /\ specs = <<"a">>

MCNoGuarded ==
  /\ program = Guarded /\ dry = FALSE /\ yes = FALSE /\ capped = FALSE /\ legacy = FALSE
  /\ route = 0 /\ next = 1 /\ allowed = FALSE /\ seen = FALSE /\ failing = FALSE
  /\ ending = "killed" /\ log = {} /\ theirs = "none"
  /\ unlogged = FALSE /\ live = {} /\ unanswered = {} /\ told = {} /\ unprinted = {}

MCInit ==
  /\ command \in {"parsers", "doctor", "search", "verify", "batch", "guarded"}
  /\ ParserInit /\ BatchInit
  /\ command # "parsers" => MCNoParser
  /\ IF command = "doctor" THEN DoctorInit ELSE MCNoDoctor
  /\ IF command = "search" THEN WindowsInit ELSE MCNoSearch
  /\ IF command = "verify" THEN VerifyInit ELSE MCNoVerify
  /\ command # "batch" => MCNoBatch
  /\ IF command = "guarded" THEN GuardedInit ELSE MCNoGuarded

MCNext ==
  /\ UNCHANGED command
  /\ \/ command = "parsers" /\ ParserNext
        /\ UNCHANGED <<doctorVars, windowVars, verifyVars, batchVars, guardedVars>>
     \/ command = "doctor" /\ DoctorNext
        /\ UNCHANGED <<parserVars, windowVars, verifyVars, batchVars, guardedVars>>
     \/ command = "search" /\ WindowsNext
        /\ UNCHANGED <<parserVars, doctorVars, verifyVars, batchVars, guardedVars>>
     \/ command = "verify" /\ VerifyNext
        /\ UNCHANGED <<parserVars, doctorVars, windowVars, batchVars, guardedVars>>
     \/ command = "batch" /\ BatchNext
        /\ UNCHANGED <<parserVars, doctorVars, windowVars, verifyVars, guardedVars>>
     \/ command = "guarded" /\ GuardedNext
        /\ UNCHANGED <<parserVars, doctorVars, windowVars, verifyVars, batchVars>>

MCCommandsSpec ==
  /\ MCInit
  /\ [][MCNext]_<<command, parserVars, doctorVars, windowVars, verifyVars, batchVars, guardedVars>>
  /\ ParserFairness /\ DoctorFairness /\ WindowsFairness /\ VerifyFairness

\* Every command that waits for the platform ends, whatever the platform does: a parser push
\* (bounded polling and bounded attempts), a health check (hedged probes, a deadline, and
\* room in the channels for late outcomes), a search and a verification.
WaitsEnd == ParserPushEnds /\ DoctorEnds /\ SearchEnds /\ VerifyEnds
=============================================================================
