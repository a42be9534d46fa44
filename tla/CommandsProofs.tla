----------------------------- MODULE CommandsProofs -----------------------------
(***************************************************************************)
(* Proofs about the parser surface and about the commands that only read:  *)
(* doctor, the wide searches, dashboards verify, and charts batch.         *)
(***************************************************************************)
EXTENDS ParserVersions, Doctor, EventWindows, ChartVerify, ChartBatch,
        FiniteSetTheorems, TLAPS

-----------------------------------------------------------------------------
(* Parsers *)

VersionStates == Version \cup {NoParser}

LEMMA VersionParts ==
  ASSUME versions \in [Versions -> VersionStates], NEW v, IsVersion(v)
  PROVE  /\ v \in Versions /\ versions[v] \in Version
         /\ versions[v].cbn \in Cbns /\ versions[v].custom \in BOOLEAN
         /\ versions[v].active \in BOOLEAN /\ versions[v].stage \in {"pending", "passed", "failed"}
BY DEF IsVersion, Version, VersionStates

\* The version that is listed is active.
LEMMA ListedActive ==
  ASSUME Active # {}
  PROVE  Listed \in Active /\ (versions[Listed].custom \/ \A w \in Active : ~versions[w].custom)
<1>1. \E v \in Active : versions[v].custom \/ \A w \in Active : ~versions[w].custom
  OBVIOUS
<1> QED BY <1>1 DEF Listed, CustomFirst

LEMMA ListedType ==
  ASSUME versions \in [Versions -> VersionStates]
  PROVE  /\ Listed \in Versions \cup {NoVersion}
         /\ Listed # NoVersion => IsVersion(Listed) /\ versions[Listed].active
<1>1. CASE Active = {}
  BY <1>1 DEF Listed
<1>2. CASE Active # {}
  BY <1>2, ListedActive DEF Active
<1> QED BY <1>1, <1>2

LEMMA ActivatedType ==
  ASSUME versions \in [Versions -> VersionStates], NEW v, NEW prebuilt \in BOOLEAN
  PROVE  /\ Activated(v, prebuilt) \in [Versions -> VersionStates]
         /\ \A w \in Versions :
              /\ ~IsVersion(w) => Activated(v, prebuilt)[w] = NoParser
              /\ IsVersion(w) =>
                   /\ Activated(v, prebuilt)[w] \in Version
                   /\ Activated(v, prebuilt)[w].cbn = versions[w].cbn
                   /\ Activated(v, prebuilt)[w].custom = versions[w].custom
                   /\ Activated(v, prebuilt)[w].stage = versions[w].stage
                   /\ Activated(v, prebuilt)[w].active <=>
                        w = v \/ (versions[w].active /\ ~versions[w].custom /\ prebuilt)
<1>1. ASSUME NEW w \in Versions, IsVersion(w)
      PROVE  /\ Activated(v, prebuilt)[w] \in Version
             /\ Activated(v, prebuilt)[w].cbn = versions[w].cbn
             /\ Activated(v, prebuilt)[w].custom = versions[w].custom
             /\ Activated(v, prebuilt)[w].stage = versions[w].stage
             /\ Activated(v, prebuilt)[w].active <=>
                  w = v \/ (versions[w].active /\ ~versions[w].custom /\ prebuilt)
  <2> DEFINE on == w = v \/ (versions[w].active /\ ~versions[w].custom /\ prebuilt)
  <2>1. versions[w] \in Version
    BY <1>1, VersionParts
  <2>2. Activated(v, prebuilt)[w] = [versions[w] EXCEPT !.active = on]
    BY <1>1, <2>1 DEF Activated, Version
  <2>3. on \in BOOLEAN
    OBVIOUS
  <2> HIDE DEF on
  <2>4. /\ [versions[w] EXCEPT !.active = on] \in Version
        /\ [versions[w] EXCEPT !.active = on].active = on
        /\ [versions[w] EXCEPT !.active = on].cbn = versions[w].cbn
        /\ [versions[w] EXCEPT !.active = on].custom = versions[w].custom
        /\ [versions[w] EXCEPT !.active = on].stage = versions[w].stage
    BY <2>1, <2>3 DEF Version
  <2> QED BY <2>2, <2>4 DEF on
<1>2. ASSUME NEW w \in Versions, ~IsVersion(w) PROVE Activated(v, prebuilt)[w] = NoParser
  BY <1>2 DEF Activated, IsVersion
<1>3. Activated(v, prebuilt) \in [Versions -> VersionStates]
  <2>1. Activated(v, prebuilt) = [w \in Versions |-> Activated(v, prebuilt)[w]]
    BY DEF Activated
  <2> QED BY <1>1, <1>2, <2>1 DEF VersionStates
<1> QED BY <1>1, <1>2, <1>3

\* The version a push works on is custom, was made from the file, and is activated only
\* after it has passed.
NewVersion ==
  parserPc \in {"validate", "activate", "write"} =>
    /\ IsVersion(parserNew)
    /\ versions[parserNew].custom /\ versions[parserNew].cbn = parserFile.cbn
    /\ parserPc \in {"activate", "write"} => versions[parserNew].stage = "passed"
    /\ parserPc = "write" /\ parserCalm => versions[parserNew].active

LEMMA ParserStepType ==
  ASSUME ParserTypeOK, NewVersion, [ParserNext]_parserVars
  PROVE  ParserTypeOK'
<1>0. /\ versions \in [Versions -> VersionStates] /\ parserFile \in [id : Versions \cup {NoVersion}, cbn : Cbns]
      /\ parserPc \in {"idle", "create", "validate", "activate", "write"}
      /\ parserNew \in Versions \cup {NoVersion} /\ parserFile.cbn \in Cbns
  BY DEF ParserTypeOK, VersionStates
<1>1. parserCommands' \in Nat /\ parserChanges' \in Nat
  BY DEF ParserTypeOK, ParserNext, ParserStep, parserVars, ParserPull, ParserPush, ParserMay,
         CreateVersion, PollValidation, ActivateVersion, WriteParser, ParserGiveUp, Validate,
         ParserChange
<1>2. parserPc' \in {"idle", "create", "validate", "activate", "write"}
  BY <1>0 DEF ParserNext, ParserStep, parserVars, ParserPull, ParserPush,
         CreateVersion, PollValidation, ActivateVersion, WriteParser, ParserGiveUp, ParserFails,
         Validate, ParserChange
<1>3. parserCalm' \in BOOLEAN
  BY Zenon DEF ParserTypeOK, ParserNext, ParserStep, parserVars, ParserPull, ParserPush,
         CreateVersion, PollValidation, ActivateVersion, WriteParser, ParserGiveUp, ParserFails,
         Validate, ParserChange
<1>4. parserNew' \in Versions \cup {NoVersion}
  BY <1>0 DEF ParserNext, ParserStep, parserVars, parserLocals, ParserPull, ParserPush,
         CreateVersion, PollValidation, ActivateVersion, WriteParser, ParserGiveUp, ParserFails,
         Validate, ParserChange
<1>5. parserWait' \in Nat /\ parserSlept' \in Nat /\ parserAttempt' \in Nat
  <2>0. parserWait \in Nat /\ parserSlept \in Nat /\ parserAttempt \in Nat
    BY DEF ParserTypeOK
  <2>1. \A n \in Nat : Smaller(2 * parserWait, n) \in Nat
    BY <2>0 DEF Smaller
  <2>2. CASE PollValidation
    BY <2>0, <2>1, <2>2, ParserAssumption DEF PollValidation, ParserFails
  <2>3. CASE ActivateVersion
    BY <2>0, <2>1, <2>3, ParserAssumption DEF ActivateVersion, ParserFails, parserLocals
  <2>4. CASE CreateVersion
    BY <2>0, <2>4, ParserAssumption DEF CreateVersion, ParserFails
  <2> QED BY <2>0, <2>2, <2>3, <2>4
          DEF ParserNext, ParserStep, parserVars, parserLocals, ParserPull, ParserPush, WriteParser,
              ParserGiveUp, ParserFails, Validate, ParserChange
<1>6. versions' \in [Versions -> VersionStates]
  <2>1. CASE CreateVersion
    <3>1. PICK v \in Versions :
            versions' = [versions EXCEPT ![v] = [cbn |-> parserFile.cbn, custom |-> TRUE,
                                                 active |-> FALSE, stage |-> "pending"]]
      BY <2>1 DEF CreateVersion
    <3>2. [cbn |-> parserFile.cbn, custom |-> TRUE, active |-> FALSE, stage |-> "pending"] \in Version
      BY <1>0 DEF Version
    <3> QED BY <1>0, <3>1, <3>2 DEF VersionStates
  <2>2. CASE Validate
    <3>1. PICK v \in Versions, stage2 \in {"passed", "failed"} :
            IsVersion(v) /\ versions' = [versions EXCEPT ![v].stage = stage2]
      BY <2>2 DEF Validate
    <3>2. versions[v] \in Version
      BY <1>0, <3>1, VersionParts
    <3>3. [versions[v] EXCEPT !.stage = stage2] \in Version
      BY <3>2 DEF Version
    <3>4. versions' = [versions EXCEPT ![v] = [versions[v] EXCEPT !.stage = stage2]]
      BY <1>0, <3>1
    <3> QED BY <1>0, <3>3, <3>4 DEF VersionStates
  <2>3. CASE UNCHANGED versions
    BY <1>0, <2>3
  <2>4. ASSUME NEW v, NEW prebuilt \in BOOLEAN, versions' = Activated(v, prebuilt)
        PROVE  versions' \in [Versions -> VersionStates]
    BY <1>0, <2>4, ActivatedType
  <2>5. CASE ActivateVersion
    BY <2>3, <2>4, <2>5 DEF ActivateVersion
  <2>6. CASE ParserChange
    BY <2>3, <2>4, <2>6 DEF ParserChange
  <2> QED BY <2>1, <2>2, <2>3, <2>5, <2>6
          DEF ParserNext, ParserStep, parserVars, ParserPull, ParserPush, PollValidation,
              WriteParser, ParserGiveUp
<1>7. parserFile' \in [id : Versions \cup {NoVersion}, cbn : Cbns]
  <2>1. CASE ParserPull
    <3>1. IsVersion(Listed) /\ parserFile' = [id |-> Listed, cbn |-> versions[Listed].cbn]
      BY <1>0, <2>1, ListedType DEF ParserPull
    <3> QED BY <1>0, <3>1, VersionParts
  <2>2. CASE WriteParser
    BY <1>0, <2>2, VersionParts DEF WriteParser, NewVersion
  <2>3. CASE ParserChange
    BY <1>0, <2>3 DEF ParserChange
  <2> QED BY <1>0, <2>1, <2>2, <2>3
          DEF ParserNext, ParserStep, parserVars, ParserPush, CreateVersion, PollValidation,
              ActivateVersion, ParserGiveUp, Validate
<1> QED BY <1>1, <1>2, <1>3, <1>4, <1>5, <1>6, <1>7 DEF ParserTypeOK, VersionStates

\* Which versions are active: of each kind one at most, and only what has passed.
OneActive ==
  /\ \A v, w \in Versions : IsVersion(v) /\ IsVersion(w) /\ v # w =>
       /\ versions[v].custom \/ versions[w].custom
       /\ ~(versions[v].custom /\ versions[v].active /\ versions[w].custom /\ versions[w].active)
  /\ \A v \in Active : versions[v].stage = "passed"

\* So there is no choice in which version is listed.
LEMMA ListedIs ==
  ASSUME OneActive, NEW v \in Active, versions[v].custom \/ \A w \in Active : ~versions[w].custom
  PROVE  Listed = v
<1>1. Listed \in Active /\ (versions[Listed].custom \/ \A w \in Active : ~versions[w].custom)
  BY ListedActive
<1>2. v \in Versions /\ IsVersion(v) /\ Listed \in Versions /\ IsVersion(Listed)
      /\ versions[v].active /\ versions[Listed].active
  BY <1>1 DEF Active
<1>3. versions[v].custom <=> versions[Listed].custom
  BY <1>1
<1> QED BY <1>2, <1>3 DEF OneActive

LEMMA OneActiveActivated ==
  ASSUME versions \in [Versions -> VersionStates], OneActive, NEW v \in Versions, IsVersion(v),
         versions[v].stage = "passed", NEW prebuilt \in BOOLEAN, versions' = Activated(v, prebuilt)
  PROVE  OneActive'
<1>1. \A w \in Versions : (IsVersion(w))' <=> IsVersion(w)
  <2> SUFFICES ASSUME NEW w \in Versions PROVE versions'[w] # NoParser <=> versions[w] # NoParser
    BY DEF IsVersion
  <2>1. CASE IsVersion(w)
    BY <2>1, ActivatedType, ParserAssumption DEF IsVersion, Version
  <2>2. CASE ~IsVersion(w)
    BY <2>2, ActivatedType DEF IsVersion
  <2> QED BY <2>1, <2>2
<1>2. \A w \in Versions : IsVersion(w) =>
        /\ versions'[w].custom = versions[w].custom /\ versions'[w].stage = versions[w].stage
        /\ versions'[w].active <=> w = v \/ (versions[w].active /\ ~versions[w].custom /\ prebuilt)
  BY ActivatedType
<1>3. \A w \in Active' : versions'[w].stage = "passed"
  BY <1>1, <1>2 DEF OneActive, Active
<1>4. ASSUME NEW u \in Versions, NEW w \in Versions, IsVersion(u)', IsVersion(w)', u # w
      PROVE  /\ versions'[u].custom \/ versions'[w].custom
             /\ ~(versions'[u].custom /\ versions'[u].active /\ versions'[w].custom /\ versions'[w].active)
  BY <1>1, <1>2, <1>4 DEF OneActive
<1> QED BY <1>3, <1>4 DEF OneActive

LEMMA OneActiveStep ==
  ASSUME ParserTypeOK, NewVersion, OneActive, [ParserNext]_parserVars
  PROVE  OneActive'
<1>0. versions \in [Versions -> VersionStates]
  BY DEF ParserTypeOK, VersionStates
<1>1. CASE UNCHANGED versions
  BY <1>1 DEF OneActive, Active, IsVersion
<1>2. CASE CreateVersion
  <2>1. PICK v \in Versions :
          /\ versions[v] = NoParser
          /\ versions' = [versions EXCEPT ![v] = [cbn |-> parserFile.cbn, custom |-> TRUE,
                                                  active |-> FALSE, stage |-> "pending"]]
    BY <1>2 DEF CreateVersion
  <2>2. ~IsVersion(v) /\ versions'[v].custom = TRUE /\ versions'[v].active = FALSE
    BY <1>0, <2>1 DEF IsVersion
  <2>3. \A w \in Versions \ {v} : versions'[w] = versions[w]
    BY <1>0, <2>1
  <2> QED BY <2>2, <2>3 DEF OneActive, Active, IsVersion
<1>3. CASE Validate
  <2>1. PICK v \in Versions, stage2 \in {"passed", "failed"} :
          /\ IsVersion(v) /\ versions[v].stage = "pending"
          /\ versions' = [versions EXCEPT ![v].stage = stage2]
    BY <1>3 DEF Validate
  <2>2. versions[v] \in Version
    BY <1>0, <2>1, VersionParts
  <2>3. versions'[v].custom = versions[v].custom /\ versions'[v].active = versions[v].active
    BY <1>0, <2>1, <2>2 DEF Version
  <2>4. \A w \in Versions \ {v} : versions'[w] = versions[w]
    BY <1>0, <2>1
  <2>5. ~versions[v].active
    BY <2>1 DEF OneActive, Active
  <2> QED BY <2>1, <2>3, <2>4, <2>5 DEF OneActive, Active, IsVersion
<1>4. CASE ActivateVersion
  <2>1. versions[parserNew].stage = "passed" /\ IsVersion(parserNew) /\ parserNew \in Versions
    BY <1>4 DEF ActivateVersion, NewVersion, IsVersion
  <2> QED BY <1>0, <1>1, <1>4, <2>1, OneActiveActivated DEF ActivateVersion
<1>5. CASE ParserChange
  BY <1>0, <1>1, <1>5, OneActiveActivated DEF ParserChange
<1> QED BY <1>1, <1>2, <1>3, <1>4, <1>5
        DEF ParserNext, ParserStep, parserVars, ParserPull, ParserPush, PollValidation, WriteParser,
            ParserGiveUp

LEMMA NewVersionStep ==
  ASSUME ParserTypeOK, NewVersion, [ParserNext]_parserVars
  PROVE  NewVersion'
<1>0. versions \in [Versions -> VersionStates] /\ parserPc \in {"idle", "create", "validate", "activate", "write"}
  BY DEF ParserTypeOK, VersionStates
<1>1. CASE parserPc' \in {"idle", "create"}
  BY <1>1 DEF NewVersion
<1>2. CASE CreateVersion
  <2>1. PICK v \in Versions :
          /\ versions' = [versions EXCEPT ![v] = [cbn |-> parserFile.cbn, custom |-> TRUE,
                                                  active |-> FALSE, stage |-> "pending"]]
          /\ ParserFails \/ (parserPc' = "validate" /\ parserNew' = v)
    BY <1>2 DEF CreateVersion
  <2>2. /\ versions'[v] = [cbn |-> parserFile.cbn, custom |-> TRUE, active |-> FALSE, stage |-> "pending"]
        /\ versions'[v] \in [cbn : {parserFile.cbn}, custom : BOOLEAN, active : BOOLEAN,
                             stage : {"pending", "passed", "failed"}]
    BY <1>0, <2>1
  <2>3. parserFile.cbn \in Cbns /\ parserFile' = parserFile
    BY <1>2 DEF ParserTypeOK, CreateVersion
  <2>4. versions'[v] # NoParser
    BY <2>2, <2>3, ParserAssumption
  <2> QED BY <1>1, <2>1, <2>2, <2>3, <2>4 DEF NewVersion, IsVersion, ParserFails
<1>3. CASE PollValidation
  BY <1>1, <1>3 DEF PollValidation, NewVersion, IsVersion, ParserFails
<1>4. ASSUME NEW v, NEW prebuilt \in BOOLEAN, versions' = Activated(v, prebuilt),
             parserPc \in {"validate", "activate", "write"}
      PROVE  /\ parserNew \in Versions /\ versions'[parserNew] # NoParser
             /\ versions'[parserNew].custom /\ versions'[parserNew].cbn = parserFile.cbn
             /\ versions'[parserNew].stage = versions[parserNew].stage
             /\ parserNew = v => versions'[parserNew].active
  <2>1. IsVersion(parserNew) /\ versions[parserNew].custom /\ versions[parserNew].cbn = parserFile.cbn
    BY <1>4 DEF NewVersion
  <2>2. parserNew \in Versions
    BY <2>1 DEF IsVersion
  <2>3. versions'[parserNew] \in Version
    BY <1>0, <1>4, <2>1, <2>2, ActivatedType
  <2>4. versions'[parserNew] # NoParser
    BY <2>3, ParserAssumption DEF Version
  <2> QED BY <1>0, <1>4, <2>1, <2>2, <2>4, ActivatedType
<1>5. CASE ActivateVersion
  <2>1. CASE UNCHANGED <<versions, parserPc, parserNew, parserCalm>>
    BY <1>5, <2>1 DEF ActivateVersion, NewVersion, IsVersion
  <2>2. CASE parserPc' = "write" /\ UNCHANGED <<parserLocals, parserCalm>>
             /\ \E prebuilt \in BOOLEAN : versions' = Activated(parserNew, prebuilt)
    <3>1. PICK prebuilt \in BOOLEAN : versions' = Activated(parserNew, prebuilt)
      BY <2>2
    <3>2. parserPc = "activate" /\ parserNew' = parserNew /\ parserFile' = parserFile
      BY <1>5, <2>2 DEF ActivateVersion, parserLocals
    <3> QED BY <1>4, <2>2, <3>1, <3>2 DEF NewVersion, IsVersion
  <2> QED BY <1>1, <1>5, <2>1, <2>2 DEF ActivateVersion, ParserFails
<1>6. CASE Validate
  <2>0. CASE parserPc \notin {"validate", "activate", "write"}
    BY <1>0, <1>1, <1>6, <2>0 DEF Validate
  <2> SUFFICES ASSUME parserPc \in {"validate", "activate", "write"} PROVE NewVersion'
    BY <2>0
  <2>1. PICK v \in Versions, stage2 \in {"passed", "failed"} :
          /\ IsVersion(v) /\ versions[v].stage = "pending"
          /\ versions' = [versions EXCEPT ![v].stage = stage2]
    BY <1>6 DEF Validate
  <2>2. versions[v] \in Version
    BY <1>0, <2>1, VersionParts
  <2>3. /\ versions'[v] \in Version /\ versions'[v].cbn = versions[v].cbn
        /\ versions'[v].custom = versions[v].custom /\ versions'[v].active = versions[v].active
    BY <1>0, <2>1, <2>2 DEF Version
  <2>4. versions'[v] # NoParser
    BY <2>3, ParserAssumption DEF Version
  <2>5. UNCHANGED <<parserPc, parserNew, parserFile, parserCalm>>
    BY <1>6 DEF Validate, parserLocals
  <2>6. CASE parserNew = v
    BY <2>1, <2>3, <2>4, <2>5, <2>6 DEF NewVersion, IsVersion
  <2>7. CASE parserNew # v
    <3>1. versions'[parserNew] = versions[parserNew]
      BY <1>0, <2>1, <2>7 DEF NewVersion, IsVersion
    <3> QED BY <2>5, <3>1 DEF NewVersion, IsVersion
  <2> QED BY <2>6, <2>7
<1>7. CASE ParserChange
  <2>1. UNCHANGED <<parserPc, parserNew>> /\ parserCalm' = FALSE
    BY <1>7 DEF ParserChange, parserLocals
  <2>2. CASE parserPc \in {"idle", "create"}
    BY <1>1, <2>1, <2>2
  <2>3. CASE parserPc \in {"validate", "activate", "write"} /\ UNCHANGED versions
    <3>1. parserFile' = parserFile
      BY <1>7, <2>3 DEF ParserChange
    <3> QED BY <2>1, <2>3, <3>1 DEF NewVersion, IsVersion
  <2>4. CASE parserPc \in {"validate", "activate", "write"} /\ versions' # versions
    <3>1. /\ parserFile' = parserFile
          /\ \E v \in Versions, prebuilt \in BOOLEAN : versions' = Activated(v, prebuilt)
      BY <1>7, <2>4 DEF ParserChange
    <3> QED BY <1>4, <2>1, <2>4, <3>1 DEF NewVersion, IsVersion
  <2> QED BY <1>0, <2>2, <2>3, <2>4
<1>8. CASE ParserPull \/ (\E hidden \in BOOLEAN : ParserPush(hidden)) \/ WriteParser \/ ParserGiveUp
  <2>1. parserPc' \in {"idle", "create"}
    BY <1>8 DEF ParserPull, ParserPush, ParserMay, WriteParser, ParserGiveUp, ParserFails
  <2> QED BY <1>1, <2>1
<1>9. CASE UNCHANGED parserVars
  BY <1>9 DEF parserVars, parserLocals, NewVersion, IsVersion
<1> QED BY <1>2, <1>3, <1>5, <1>6, <1>7, <1>8, <1>9 DEF ParserNext, ParserStep

LEMMA OnlyChoice ==
  ASSUME NEW f, NEW A, NEW v \in A, f[v].custom \/ \A w \in A : ~f[w].custom,
         \A u \in A : (f[u].custom \/ \A w \in A : ~f[w].custom) => u = v
  PROVE  (CHOOSE u \in A : f[u].custom \/ \A w \in A : ~f[w].custom) = v
OBVIOUS

LEMMA ParserSettlesStep ==
  ASSUME ParserTypeOK, NewVersion, OneActive, ParserSettles, [ParserNext]_parserVars
  PROVE  ParserSettles'
<1>0. /\ versions \in [Versions -> VersionStates]
      /\ parserFile \in [id : Versions \cup {NoVersion}, cbn : Cbns]
  BY DEF ParserTypeOK, VersionStates
<1>1. CASE parserPc' # "idle" \/ parserCalm' = FALSE
  BY <1>1 DEF ParserSettles
<1>2. CASE UNCHANGED <<versions, parserFile, parserPc, parserCalm>>
  BY <1>2 DEF ParserSettles, Listed, Active, CustomFirst, IsVersion
<1>3. CASE \E hidden \in BOOLEAN : ParserPush(hidden)
  <2>1. UNCHANGED <<versions, parserFile>>
    BY <1>3 DEF ParserPush
  <2>2. Listed' = Listed
    BY <2>1 DEF Listed, Active, CustomFirst, IsVersion
  <2>3. CASE Listed # NoVersion /\ parserFile.id = Listed /\ versions[Listed].cbn = parserFile.cbn
    <3>1. Listed \in Active
      BY <1>0, <2>3, ListedType DEF Active, IsVersion
    <3>2. versions[Listed].stage = "passed"
      BY <3>1 DEF OneActive
    <3>3. parserFile = [id |-> Listed, cbn |-> versions[Listed].cbn]
      BY <1>0, <2>3
    <3> QED BY <2>1, <2>2, <2>3, <3>2, <3>3 DEF ParserSettles
  <2>4. CASE ~(Listed # NoVersion /\ parserFile.id = Listed /\ versions[Listed].cbn = parserFile.cbn)
    <3>1. parserPc' = "create"
      BY <1>3, <2>4 DEF ParserPush
    <3> QED BY <1>1, <3>1
  <2> QED BY <2>3, <2>4
<1>4. CASE WriteParser
  <2> SUFFICES ASSUME parserCalm' # FALSE PROVE ParserSettles'
    BY <1>1
  <2>1. /\ parserPc = "write" /\ parserCalm' = parserCalm /\ versions' = versions
        /\ parserFile' = [id |-> parserNew, cbn |-> versions[parserNew].cbn]
    BY <1>4 DEF WriteParser
  <2>2. parserCalm
    BY <2>1, Zenon DEF ParserTypeOK
  <2>3. IsVersion(parserNew) /\ versions[parserNew].custom /\ versions[parserNew].active
        /\ versions[parserNew].stage = "passed"
    BY <2>1, <2>2 DEF NewVersion
  <2>4. parserNew \in Active
    BY <2>3 DEF Active, IsVersion
  <2>5. Listed = parserNew
    BY <2>3, <2>4, ListedIs
  <2>6. Listed' = Listed
    BY <2>1 DEF Listed, Active, CustomFirst, IsVersion
  <2>7. Listed # NoVersion
    BY <2>3, <2>5, ParserAssumption DEF IsVersion
  <2> QED BY <2>1, <2>3, <2>5, <2>6, <2>7 DEF ParserSettles
<1>5. CASE Validate
  <2>0. UNCHANGED <<parserFile, parserPc, parserCalm>>
    BY <1>5 DEF Validate
  <2> SUFFICES ASSUME parserPc = "idle", parserCalm
               PROVE  /\ Listed' # NoVersion
                      /\ parserFile = [id |-> Listed', cbn |-> versions'[Listed'].cbn]
                      /\ versions'[Listed'].stage = "passed"
    BY <2>0 DEF ParserSettles
  <2>1. PICK v \in Versions, stage2 \in {"passed", "failed"} :
          /\ IsVersion(v) /\ versions[v].stage = "pending"
          /\ versions' = [versions EXCEPT ![v].stage = stage2]
    BY <1>5 DEF Validate
  <2>2. versions[v] \in Version
    BY <1>0, <2>1, VersionParts
  <2>3. /\ versions'[v] \in Version
        /\ versions'[v].custom = versions[v].custom /\ versions'[v].active = versions[v].active
    BY <1>0, <2>1, <2>2 DEF Version
  <2>4. \A w \in Versions \ {v} : versions'[w] = versions[w]
    BY <1>0, <2>1
  <2>5. versions'[v] # NoParser
    BY <2>3, ParserAssumption DEF Version
  <2>6. Active' = Active
    BY <2>1, <2>3, <2>4, <2>5 DEF Active, IsVersion
  <2>7. Listed # NoVersion /\ parserFile = [id |-> Listed, cbn |-> versions[Listed].cbn]
        /\ versions[Listed].stage = "passed"
    BY DEF ParserSettles
  <2>8. Listed \in Active
    BY <1>0, <2>7, ListedType DEF Active, IsVersion
  <2>9. Listed # v /\ versions'[Listed] = versions[Listed]
    BY <2>1, <2>4, <2>7, <2>8 DEF Active
  <2>10. versions[Listed].custom \/ \A w \in Active : ~versions[w].custom
    BY <2>8, ListedActive
  <2>11. \A w \in Active : versions'[w].custom = versions[w].custom
    BY <2>3, <2>4 DEF Active
  <2>12. \A u \in Active : (versions'[u].custom \/ \A w \in Active : ~versions'[w].custom) => u = Listed
    <3>1. \A u \in Active : versions[u].custom \/ (\A w \in Active : ~versions[w].custom) => Listed = u
      BY ListedIs
    <3> QED BY <2>11, <3>1
  <2>13. (CHOOSE u \in Active : versions'[u].custom \/ \A w \in Active : ~versions'[w].custom) = Listed
    <3>1. versions'[Listed].custom \/ \A w \in Active : ~versions'[w].custom
      BY <2>8, <2>10, <2>11
    <3> HIDE DEF Listed, Active
    <3> QED BY <2>8, <2>12, <3>1, OnlyChoice
  <2>14. Listed' = Listed
    BY <2>6, <2>8, <2>13 DEF Listed, CustomFirst
  <2> QED BY <2>7, <2>9, <2>14
<1>6. CASE ActivateVersion
  <2>1. parserPc = "activate" /\ (parserPc' \in {"idle", "write"} \/ parserPc' = parserPc)
        /\ (parserPc' = "idle" => parserCalm' = FALSE)
    BY <1>6 DEF ActivateVersion, ParserFails
  <2> QED BY <1>1, <2>1
<1>7. CASE CreateVersion \/ PollValidation \/ ParserGiveUp \/ ParserChange \/ ParserPull
  <2>1. parserPc' # "idle" \/ parserCalm' = FALSE
    BY <1>7 DEF CreateVersion, PollValidation, ParserGiveUp, ParserFails, ParserChange, ParserPull
  <2> QED BY <1>1, <2>1
<1>8. CASE UNCHANGED parserVars
  BY <1>2, <1>8 DEF parserVars
<1> QED BY <1>3, <1>4, <1>5, <1>6, <1>7, <1>8 DEF ParserNext, ParserStep

ParserIInv == ParserTypeOK /\ NewVersion /\ OneActive /\ ParserSettles

LEMMA ParserStart == ParserInit => ParserIInv
<1> SUFFICES ASSUME ParserInit PROVE ParserIInv
  OBVIOUS
<1>1. versions \in [Versions -> VersionStates]
  BY DEF ParserInit, VersionStates
<1>2. parserFile \in [id : Versions \cup {NoVersion}, cbn : Cbns]
  <2>1. CASE Listed # NoVersion /\ parserFile = [id |-> Listed, cbn |-> versions[Listed].cbn]
    BY <1>1, <2>1, ListedType, VersionParts
  <2> QED BY <2>1 DEF ParserInit
<1>3. parserCalm = FALSE /\ parserPc = "idle"
  BY DEF ParserInit
<1>4. ParserTypeOK
  <2>1. /\ parserNew = NoVersion /\ parserWait = 0 /\ parserSlept = 0 /\ parserAttempt = 0
        /\ parserCommands = 0 /\ parserChanges = 0
    BY DEF ParserInit
  <2>2. {parserWait, parserSlept, parserAttempt, parserCommands, parserChanges} \subseteq Nat
    BY <2>1
  <2>3. parserCalm \in BOOLEAN
    BY <1>3
  <2> QED BY <1>1, <1>2, <1>3, <2>1, <2>2, <2>3 DEF ParserTypeOK, VersionStates
<1>5. NewVersion /\ ParserSettles
  BY <1>3 DEF NewVersion, ParserSettles
<1>6. OneActive
  <2>1. \A v, w \in Versions : IsVersion(v) /\ IsVersion(w) /\ v # w =>
          ~(versions[v].custom <=> versions[w].custom)
    BY DEF ParserInit
  <2>2. \A v \in Active : versions[v].stage = "passed"
    BY DEF ParserInit, Active
  <2> QED BY <2>1, <2>2 DEF OneActive
<1> QED BY <1>4, <1>5, <1>6 DEF ParserIInv

LEMMA ParserInvariant == ParserSpec => []ParserIInv
<1>1. ParserIInv /\ [ParserNext]_parserVars => ParserIInv'
  BY ParserStepType, NewVersionStep, OneActiveStep, ParserSettlesStep DEF ParserIInv
<1> QED BY <1>1, ParserStart, PTL DEF ParserSpec

\* Every variable of the parser surface has its type.
THEOREM ParserTypeCorrect == ParserSpec => []ParserTypeOK
<1>1. ParserIInv => ParserTypeOK
  BY DEF ParserIInv
<1> QED BY <1>1, ParserInvariant, PTL

\* A push that succeeds undisturbed leaves the file's source active and validated, and the
\* file names it (retryActivateParser and the write-back of parsers_surface.go).
THEOREM ParserPushSettles == ParserSpec => []ParserSettles
<1>1. ParserIInv => ParserSettles
  BY DEF ParserIInv
<1> QED BY <1>1, ParserInvariant, PTL

-----------------------------------------------------------------------------
(* Charts batch *)

\* What was made is on the dashboard and is counted among the titles, once it is read, and
\* the titles that are counted are there unless somebody took them away.
BatchInv ==
  /\ nextSpec \in Nat \ {0}
  /\ made \subseteq On
  /\ batchPc # "idle" => batchOK = FALSE
  /\ batchPc = "titles" => \A d \in made : d \in toRead \/ title[d] \in existing \cup misread
  /\ batchPc = "adding" => \A d \in made :
       \/ title[d] \in existing \cup misread
       \/ title[d] \in lostAdds /\ \E j \in 1 .. Len(specs) : j < nextSpec /\ specs[j] = title[d]
  /\ batchPc # "idle" => \A t \in existing : t \in uiGone \/ \E c \in On : title[c] = t
  /\ batchPc = "titles" => nextSpec = 1
  /\ batchPc = "adding" /\ failures = 0 =>
       \A i \in 1 .. Len(specs) : i < nextSpec => specs[i] \in existing

LEMMA BatchSpecs ==
  ASSUME BatchTypeOK, [BatchNext]_batchVars
  PROVE  /\ specs' = specs /\ specs \in Seq(Titles)
         /\ Len(specs) \in Nat /\ \A i \in 1 .. Len(specs) : specs[i] \in Titles
<1>1. specs' = specs
  BY DEF BatchNext, BatchStart, BatchStep, ReadTitle, TitlesRead, SkipSpec, AddSpec,
         BatchDone, BatchKilled, UiMove, batchVars
<1> QED BY <1>1 DEF BatchTypeOK

LEMMA AddingSpec ==
  ASSUME BatchTypeOK, BatchInv, Adding
  PROVE  nextSpec \in 1 .. Len(specs) /\ Spec1 \in Titles
<1>1. nextSpec \in Nat \ {0} /\ nextSpec <= Len(specs) /\ specs \in Seq(Titles)
  BY DEF BatchInv, Adding, BatchTypeOK
<1> QED BY <1>1 DEF Spec1

LEMMA BatchStepType ==
  ASSUME BatchTypeOK, BatchInv, [BatchNext]_batchVars
  PROVE  BatchTypeOK'
<1>0. /\ title \in [Charts -> Titles \cup {Unborn, Gone}]
      /\ toRead \subseteq Charts /\ existing \subseteq Titles /\ made \subseteq Charts
      /\ misread \subseteq Titles /\ lostAdds \subseteq Titles /\ uiGone \subseteq Titles
  BY DEF BatchTypeOK
<1>1. nextSpec' \in Nat /\ failures' \in Nat /\ batchRuns' \in Nat /\ uiMoves' \in Nat
  BY DEF BatchTypeOK, BatchNext, BatchStart, BatchStep, ReadTitle, TitlesRead, SkipSpec, AddSpec,
         AddFails, BatchDone, BatchKilled, BatchIdle, UiMove, batchVars, batchLocals
<1>2. batchOK' \in BOOLEAN
  BY Zenon DEF BatchTypeOK, BatchNext, BatchStart, BatchStep, ReadTitle, TitlesRead, SkipSpec,
         AddSpec, BatchDone, BatchKilled, UiMove, batchVars
<1>3. batchPc' \in {"idle", "titles", "adding"}
  BY DEF BatchTypeOK, BatchNext, BatchStart, BatchStep, ReadTitle, TitlesRead, SkipSpec,
         AddSpec, BatchDone, BatchIdle, BatchKilled, UiMove, batchVars
<1>4. /\ title' \in [Charts -> Titles \cup {Unborn, Gone}]
      /\ toRead' \subseteq Charts /\ existing' \subseteq Titles /\ made' \subseteq Charts
      /\ misread' \subseteq Titles /\ lostAdds' \subseteq Titles /\ uiGone' \subseteq Titles
  <2>1. CASE AddSpec
    <3>1. Spec1 \in Titles
      BY <2>1, AddingSpec DEF AddSpec
    <3> QED BY <1>0, <2>1, <3>1 DEF AddSpec, AddFails, Make
  <2>2. CASE UiMove
    BY <1>0, <2>2 DEF UiMove, On, batchLocals
  <2>3. CASE ReadTitle
    BY <1>0, <2>3 DEF ReadTitle, On
  <2> QED BY <1>0, <2>1, <2>2, <2>3
          DEF BatchNext, BatchStart, BatchStep, TitlesRead, SkipSpec, BatchDone, BatchKilled,
              BatchIdle, On, batchVars, batchLocals, batchHistory
<1> QED BY <1>1, <1>2, <1>3, <1>4, BatchSpecs DEF BatchTypeOK

\* A chart is made where there was none: it changes no other title.
LEMMA MakeKeeps ==
  ASSUME BatchTypeOK, BatchInv, Adding, NEW c \in Charts, title[c] = Unborn, Make(c)
  PROVE  /\ c \notin made /\ c \notin On /\ c \in On' /\ title'[c] = Spec1
         /\ \A d \in Charts \ {c} : title'[d] = title[d]
         /\ On' = On \cup {c} /\ made' = made \cup {c}
<1>1. title \in [Charts -> Titles \cup {Unborn, Gone}] /\ Spec1 \in Titles /\ Unborn \notin Titles
  BY AddingSpec, BatchAssumption DEF BatchTypeOK
<1>2. c \notin On /\ c \notin made
  BY <1>1 DEF On, BatchInv
<1>3. title'[c] = Spec1 /\ \A d \in Charts \ {c} : title'[d] = title[d]
  BY <1>1 DEF Make
<1> QED BY <1>1, <1>2, <1>3 DEF On, Make

LEMMA BatchInvStep ==
  ASSUME BatchTypeOK, BatchInv, [BatchNext]_batchVars
  PROVE  BatchInv'
<1>0. /\ title \in [Charts -> Titles \cup {Unborn, Gone}]
      /\ batchPc \in {"idle", "titles", "adding"} /\ failures \in Nat
      /\ specs' = specs /\ Len(specs) \in Nat
  BY BatchSpecs DEF BatchTypeOK
<1>1. CASE BatchStart
  BY <1>1 DEF BatchStart, BatchInv, On
<1>2. CASE ReadTitle
  <2>1. PICK c \in toRead :
          /\ toRead' = toRead \ {c}
          /\ \/ c \in On /\ existing' = existing \cup {title[c]} /\ misread' = misread
             \/ misread' = misread \cup ({title[c]} \cap Titles) /\ existing' = existing
    BY <1>2 DEF ReadTitle
  <2>2. On' = On /\ title' = title /\ made' = made /\ batchPc = "titles" /\ batchPc' = "titles"
        /\ UNCHANGED <<nextSpec, batchOK, uiGone>>
    BY <1>2 DEF ReadTitle, On
  <2>3. \A d \in made : d \in toRead' \/ title[d] \in existing' \cup misread'
    BY <2>1, <2>2 DEF BatchInv, On
  <2>4. \A t \in existing' : t \in uiGone \/ \E d \in On : title[d] = t
    BY <2>1, <2>2 DEF BatchInv
  <2> QED BY <2>2, <2>3, <2>4 DEF BatchInv
<1>3. CASE TitlesRead
  BY <1>0, <1>3 DEF TitlesRead, BatchInv, On, batchLocals, batchHistory
<1>4. CASE SkipSpec
  <2>1. nextSpec \in 1 .. Len(specs) /\ batchPc = "adding" /\ specs[nextSpec] \in existing
    BY <1>4, AddingSpec DEF SkipSpec, Skips, Spec1, Adding
  <2>2. nextSpec' = nextSpec + 1
        /\ UNCHANGED <<title, batchPc, toRead, existing, failures, batchOK, batchHistory>>
    BY <1>4 DEF SkipSpec
  <2>3. \A i \in 1 .. Len(specs) : i < nextSpec' => i < nextSpec \/ i = nextSpec
    BY <2>1, <2>2
  <2> QED BY <1>0, <2>1, <2>2, <2>3 DEF BatchInv, On, batchHistory
<1>5. CASE AddSpec
  <2>1. nextSpec \in 1 .. Len(specs) /\ batchPc = "adding" /\ Adding /\ Spec1 \in Titles
    BY <1>5, AddingSpec DEF AddSpec, Adding
  <2>2. /\ nextSpec' = nextSpec + 1 /\ nextSpec' \in Nat \ {0} /\ nextSpec < nextSpec'
        /\ UNCHANGED <<batchPc, batchOK, misread, uiGone>>
        /\ \A i \in 1 .. Len(specs) : /\ i < nextSpec => i < nextSpec'
                                      /\ i < nextSpec' => i < nextSpec \/ i = nextSpec
    BY <1>5, <2>1 DEF AddSpec
  <2>3. CASE UNCHANGED <<title, made, lostAdds, existing>> /\ failures' = failures + 1
    <3>1. failures' # 0
      BY <1>0, <2>3
    <3> QED BY <1>0, <2>1, <2>2, <2>3, <3>1 DEF BatchInv, On
  <2>4. ASSUME NEW c \in Charts, title[c] = Unborn, Make(c), lostAdds' = lostAdds \cup {Spec1},
               failures' = failures + 1, existing' = existing
        PROVE  BatchInv'
    <3>1. failures' # 0
      BY <1>0, <2>4
    <3>2. /\ c \notin made /\ c \in On' /\ title'[c] = Spec1
          /\ \A d \in Charts \ {c} : title'[d] = title[d]
          /\ On' = On \cup {c} /\ made' = made \cup {c}
      BY <2>1, <2>4, MakeKeeps
    <3>3. \A d \in made' :
            \/ title'[d] \in existing' \cup misread'
            \/ title'[d] \in lostAdds' /\ \E j \in 1 .. Len(specs) : j < nextSpec' /\ specs[j] = title'[d]
      <4>1. CASE \A d \in made : d \in Charts
        <5>1. ASSUME NEW d \in made PROVE title'[d] = title[d]
          BY <3>2, <4>1, <5>1
        <5> QED BY <2>1, <2>2, <2>4, <3>2, <5>1 DEF BatchInv, Spec1
      <4> QED BY <4>1 DEF BatchTypeOK
    <3>4. \A t \in existing' : t \in uiGone' \/ \E d \in On' : title'[d] = t
      <4>1. \A d \in On : title'[d] = title[d] /\ d \in On'
        BY <1>0, <2>1, <2>4, <3>2, BatchAssumption DEF On
      <4>2. \A t \in existing : t \in uiGone \/ \E d \in On : title[d] = t
        BY <2>1 DEF BatchInv
      <4> HIDE DEF Spec1
      <4> QED BY <2>2, <2>4, <3>2, <4>1, <4>2
    <3> QED BY <1>0, <2>1, <2>2, <3>1, <3>2, <3>3, <3>4 DEF BatchInv
  <2>5. ASSUME NEW c \in Charts, title[c] = Unborn, Make(c), existing' = existing \cup {Spec1},
               failures' = failures, lostAdds' = lostAdds
        PROVE  BatchInv'
    <3>2. /\ c \notin made /\ c \in On' /\ title'[c] = Spec1
          /\ \A d \in Charts \ {c} : title'[d] = title[d]
          /\ On' = On \cup {c} /\ made' = made \cup {c}
      BY <2>1, <2>5, MakeKeeps
    <3>3. \A d \in made' :
            \/ title'[d] \in existing' \cup misread'
            \/ title'[d] \in lostAdds' /\ \E j \in 1 .. Len(specs) : j < nextSpec' /\ specs[j] = title'[d]
      <4>1. ASSUME NEW d \in made PROVE title'[d] = title[d]
        BY <3>2, <4>1 DEF BatchTypeOK
      <4> QED BY <2>1, <2>2, <2>5, <3>2, <4>1 DEF BatchInv
    <3>4. \A t \in existing' : t \in uiGone' \/ \E d \in On' : title'[d] = t
      <4>1. \A d \in On : title'[d] = title[d] /\ d \in On'
        BY <1>0, <2>1, <2>5, <3>2, BatchAssumption DEF On
      <4>2. \A t \in existing : t \in uiGone \/ \E d \in On : title[d] = t
        BY <2>1 DEF BatchInv
      <4> HIDE DEF Spec1
      <4> QED BY <2>2, <2>5, <3>2, <4>1, <4>2
    <3>5. failures' = 0 => \A i \in 1 .. Len(specs) : i < nextSpec' => specs[i] \in existing'
      BY <2>1, <2>2, <2>5 DEF BatchInv, Spec1
    <3> QED BY <1>0, <2>1, <2>2, <3>2, <3>3, <3>4, <3>5 DEF BatchInv
  <2> QED BY <1>5, <2>3, <2>4, <2>5 DEF AddSpec, AddFails
<1>6. CASE BatchDone \/ BatchKilled
  BY <1>6 DEF BatchDone, BatchKilled, BatchIdle, BatchInv, On, batchHistory
<1>7. CASE UiMove
  <2>0. UNCHANGED <<specs, batchPc, batchLocals, batchOK, misread, lostAdds>>
    BY <1>7 DEF UiMove
  <2>1. CASE \E c \in Charts, t \in Titles : title[c] = Unborn /\ title' = [title EXCEPT ![c] = t]
             /\ UNCHANGED <<made, uiGone>>
    <3>1. PICK c \in Charts, t \in Titles : title[c] = Unborn /\ title' = [title EXCEPT ![c] = t]
      BY <2>1
    <3>2. c \notin On /\ On' = On \cup {c} /\ \A d \in On : title'[d] = title[d]
      BY <1>0, <3>1, BatchAssumption DEF On
    <3> QED BY <1>0, <2>0, <2>1, <3>2 DEF BatchInv, batchLocals
  <2>2. CASE \E c \in On, t \in Titles \cup {Gone} :
               /\ title' = [title EXCEPT ![c] = t]
               /\ made' = made \ {c} /\ uiGone' = uiGone \cup {title[c]}
    <3>1. PICK c \in On, t \in Titles \cup {Gone} :
            /\ title' = [title EXCEPT ![c] = t]
            /\ made' = made \ {c} /\ uiGone' = uiGone \cup {title[c]}
      BY <2>2
    <3>2. \A d \in On \ {c} : title'[d] = title[d] /\ d \in On'
      BY <1>0, <3>1 DEF On
    <3> QED BY <1>0, <2>0, <3>1, <3>2 DEF BatchInv, batchLocals
  <2> QED BY <1>7, <2>1, <2>2 DEF UiMove
<1>8. CASE UNCHANGED batchVars
  BY <1>8 DEF batchVars, batchLocals, batchHistory, BatchInv, On
<1> QED BY <1>1, <1>2, <1>3, <1>4, <1>5, <1>6, <1>7, <1>8 DEF BatchNext, BatchStep

LEMMA BatchConvergesStep ==
  ASSUME BatchTypeOK, BatchInv, BatchConverges, [BatchNext]_batchVars
  PROVE  BatchConverges'
<1>0. /\ title \in [Charts -> Titles \cup {Unborn, Gone}] /\ made \subseteq Charts
      /\ batchPc \in {"idle", "titles", "adding"} /\ nextSpec \in Nat
      /\ specs' = specs /\ Len(specs) \in Nat
  BY BatchSpecs DEF BatchTypeOK
<1>1. Repeated' = Repeated
  BY <1>0 DEF Repeated
<1> DEFINE Twice(c, d) == c # d /\ title[c] = title[d] => title[c] \in misread \cup (Repeated \cap lostAdds)
<1>2. \A c, d \in made : Twice(c, d)
  BY DEF BatchConverges
<1>3. \A c, d \in made' : Twice(c, d)'
  <2>1. CASE /\ made' \subseteq made /\ \A c \in made' : title'[c] = title[c]
             /\ misread \subseteq misread' /\ lostAdds \subseteq lostAdds'
    BY <1>1, <1>2, <2>1
  <2>2. CASE AddSpec
    <3>1. CASE UNCHANGED <<title, made>>
      BY <2>1, <2>2, <3>1 DEF AddSpec, AddFails
    <3>2. ASSUME NEW c \in Charts, title[c] = Unborn, Make(c) PROVE \A b, d \in made' : Twice(b, d)'
      <4>1. Adding /\ Spec1 \notin existing /\ misread' = misread /\ lostAdds \subseteq lostAdds'
        BY <2>2 DEF AddSpec, AddFails, Skips
      <4>2. /\ c \notin made /\ title'[c] = Spec1 /\ made' = made \cup {c}
            /\ \A d \in Charts \ {c} : title'[d] = title[d]
        BY <3>2, <4>1, MakeKeeps
      <4>3. nextSpec \in 1 .. Len(specs) /\ batchPc = "adding"
        BY <4>1, AddingSpec DEF Adding
      <4>4. ASSUME NEW d \in made, title[d] = Spec1
            PROVE  Spec1 \in misread \cup (Repeated \cap lostAdds)
        <5>1. CASE Spec1 \in misread
          BY <5>1
        <5>2. CASE Spec1 \in lostAdds /\ \E j \in 1 .. Len(specs) : j < nextSpec /\ specs[j] = Spec1
          <6>1. PICK j \in 1 .. Len(specs) : j < nextSpec /\ specs[j] = Spec1
            BY <5>2
          <6>2. j # nextSpec /\ specs[j] = specs[nextSpec]
            BY <4>3, <6>1 DEF Spec1
          <6>3. Spec1 \in Repeated
            BY <4>3, <6>1, <6>2 DEF Repeated
          <6> QED BY <5>2, <6>3
        <5> QED BY <4>1, <4>3, <4>4, <5>1, <5>2 DEF BatchInv
      <4>5. \A d \in made : title'[d] = title[d]
        BY <1>0, <4>2
      <4> HIDE DEF Spec1
      <4> QED BY <1>1, <1>2, <4>1, <4>2, <4>4, <4>5
    <3> QED BY <2>2, <3>1, <3>2 DEF AddSpec, AddFails
  <2>3. CASE UiMove
    <3>1. misread' = misread /\ lostAdds' = lostAdds
      BY <2>3 DEF UiMove
    <3>2. made' \subseteq made /\ \A c \in made' : title'[c] = title[c]
      <4>1. CASE \E c \in Charts, t \in Titles :
                   title[c] = Unborn /\ title' = [title EXCEPT ![c] = t] /\ UNCHANGED <<made, uiGone>>
        BY <1>0, <4>1, BatchAssumption DEF BatchInv, On
      <4>2. CASE \E c \in On, t \in Titles \cup {Gone} :
                   title' = [title EXCEPT ![c] = t] /\ made' = made \ {c}
        BY <1>0, <4>2 DEF BatchInv
      <4> QED BY <2>3, <4>1, <4>2 DEF UiMove
    <3> QED BY <2>1, <3>1, <3>2
  <2>4. CASE UNCHANGED <<title, made, lostAdds>> /\ misread \subseteq misread'
    BY <2>1, <2>4
  <2> QED BY <2>2, <2>3, <2>4
          DEF BatchNext, BatchStart, BatchStep, ReadTitle, TitlesRead, SkipSpec, BatchDone, BatchKilled,
              batchVars, batchHistory
<1>4. ASSUME batchPc' = "idle", batchOK'
      PROVE  \A i \in 1 .. Len(specs) : specs[i] \in uiGone' \/ \E c \in On' : title'[c] = specs[i]
  <2>1. CASE BatchDone
    <3>1. batchPc = "adding" /\ failures = 0 /\ nextSpec > Len(specs) /\ UNCHANGED <<title, uiGone>>
      BY <1>4, <2>1 DEF BatchDone, batchHistory
    <3>2. \A i \in 1 .. Len(specs) : i < nextSpec
      BY <1>0, <3>1
    <3>3. \A i \in 1 .. Len(specs) : specs[i] \in existing
      BY <3>1, <3>2 DEF BatchInv
    <3> QED BY <3>1, <3>3 DEF BatchInv, On
  <2>2. CASE UiMove
    <3>1. batchPc = "idle" /\ batchOK
      BY <1>4, <2>2 DEF UiMove
    <3>2. \A i \in 1 .. Len(specs) : specs[i] \in uiGone \/ \E c \in On : title[c] = specs[i]
      BY <3>1 DEF BatchConverges
    <3>3. CASE \E c \in Charts, t \in Titles :
                 title[c] = Unborn /\ title' = [title EXCEPT ![c] = t] /\ UNCHANGED <<made, uiGone>>
      <4>1. \A c \in On : title'[c] = title[c] /\ c \in On'
        BY <1>0, <3>3, BatchAssumption DEF On
      <4> QED BY <3>2, <3>3, <4>1
    <3>4. CASE \E c \in On, t \in Titles \cup {Gone} :
                 title' = [title EXCEPT ![c] = t] /\ uiGone' = uiGone \cup {title[c]}
      <4>1. PICK c \in On, t \in Titles \cup {Gone} :
              title' = [title EXCEPT ![c] = t] /\ uiGone' = uiGone \cup {title[c]}
        BY <3>4
      <4>2. \A d \in On \ {c} : title'[d] = title[d] /\ d \in On'
        BY <1>0, <4>1 DEF On
      <4> QED BY <3>2, <4>1, <4>2
    <3> QED BY <2>2, <3>3, <3>4 DEF UiMove
  <2>3. CASE UNCHANGED batchVars
    BY <1>4, <2>3 DEF batchVars, batchHistory, BatchConverges, On
  <2>4. ~(BatchStart \/ BatchKilled \/ ReadTitle \/ TitlesRead \/ SkipSpec \/ AddSpec)
    <3>1. batchOK' # FALSE
      BY <1>4
    <3>2. ~BatchStart
      BY <3>1 DEF BatchStart
    <3>3. ~BatchKilled
      BY <3>1 DEF BatchKilled, BatchInv
    <3> QED BY <1>4, <3>2, <3>3 DEF ReadTitle, TitlesRead, SkipSpec, AddSpec, Adding
  <2> QED BY <2>1, <2>2, <2>3, <2>4 DEF BatchNext, BatchStep
<1> QED BY <1>0, <1>3, <1>4 DEF BatchConverges

BatchIInv == BatchTypeOK /\ BatchInv /\ BatchConverges

LEMMA BatchStart0 == BatchInit => BatchIInv
<1> SUFFICES ASSUME BatchInit PROVE BatchIInv
  OBVIOUS
<1>1. specs \in Seq(Titles)
  BY DEF BatchInit
<1>2. BatchTypeOK
  BY <1>1 DEF BatchInit, BatchTypeOK
<1>3. BatchInv
  BY DEF BatchInit, BatchInv
<1>4. BatchConverges
  BY DEF BatchInit, BatchConverges
<1> QED BY <1>2, <1>3, <1>4 DEF BatchIInv

LEMMA BatchInvariant == BatchSpec => []BatchIInv
<1>1. BatchIInv /\ [BatchNext]_batchVars => BatchIInv'
  BY BatchStepType, BatchInvStep, BatchConvergesStep DEF BatchIInv
<1> QED BY <1>1, BatchStart0, PTL DEF BatchSpec

\* Every variable of a batch has its type.
THEOREM BatchTypeCorrect == BatchSpec => []BatchTypeOK
<1>1. BatchIInv => BatchTypeOK
  BY DEF BatchIInv
<1> QED BY <1>1, BatchInvariant, PTL

\* A batch without a failure has all its charts on the dashboard, and however often a file
\* is run no title is made twice but in the two cases named (dashboards_batch.go).
THEOREM BatchRunsConverge == BatchSpec => []BatchConverges
<1>1. BatchIInv => BatchConverges
  BY DEF BatchIInv
<1> QED BY <1>1, BatchInvariant, PTL

-----------------------------------------------------------------------------
(* Dashboards verify *)

\* Where a chart stands says what it can be, the fleet is bad only for a wrong dashboard, and
\* a wrong dashboard shows in the fleet unless a call on it failed.
VerifyInv ==
  /\ verifyPc = "charts" => truth # Missing
  /\ verifyPc # "charts" => \A p \in Places : stage[p] \in {"wait", "told"}
  /\ verifyPc = "refs" => stage = Waiting /\ tries = Zero /\ verdict = Unjudged /\ flaky = {}
  /\ verifyPc # "done" => outcome = "none"
  /\ \A p \in Places :
       /\ stage[p] = "told" => verdict[p] # "none"
       /\ stage[p] = "query" => Chart(p) \notin {"gone", "queryless"}
       /\ stage[p] = "execute" => Chart(p) # "gone" /\ (Chart(p) = "reserved" => p \in flaky)
  /\ FleetBad(fleet) => wrong
  /\ wrong => unread \/ FleetBad(fleet)
  /\ single /\ verifyPc # "done" => ~wrong

LEMMA FleetGrows ==
  ASSUME NEW S, NEW f \in Seq(S), NEW s
  PROVE  FleetBad(Append(f, s)) <=> FleetBad(f) \/ s \in {"broken", "error"}
<1>1. Len(Append(f, s)) = Len(f) + 1 /\ Len(f) \in Nat /\ Append(f, s)[Len(f) + 1] = s
      /\ \A i \in 1 .. Len(f) : Append(f, s)[i] = f[i]
  OBVIOUS
<1>2. ASSUME FleetBad(Append(f, s)) PROVE FleetBad(f) \/ s \in {"broken", "error"}
  <2>1. PICK i \in 1 .. Len(f) + 1 : Append(f, s)[i] \in {"broken", "error"}
    BY <1>1, <1>2 DEF FleetBad
  <2>2. i \in 1 .. Len(f) \/ i = Len(f) + 1
    BY <1>1
  <2> QED BY <1>1, <2>1, <2>2 DEF FleetBad
<1>3. ASSUME FleetBad(f) PROVE FleetBad(Append(f, s))
  <2>1. PICK i \in 1 .. Len(f) : f[i] \in {"broken", "error"}
    BY <1>3 DEF FleetBad
  <2>2. i \in 1 .. Len(f) + 1
    BY <1>1
  <2> QED BY <1>1, <2>1, <2>2 DEF FleetBad
<1>4. ASSUME s \in {"broken", "error"} PROVE FleetBad(Append(f, s))
  <2>1. Len(f) + 1 \in 1 .. Len(f) + 1
    BY <1>1
  <2> QED BY <1>1, <1>4, <2>1 DEF FleetBad
<1> QED BY <1>2, <1>3, <1>4

VerifyIInv == VerifyTypeOK /\ VerifyInv /\ VerdictsSound

LEMMA StartType ==
  /\ Waiting \in [Places -> {"wait", "get", "query", "execute", "told"}]
  /\ Zero \in [Places -> 0 .. Tries - 1]
  /\ Unjudged \in [Places -> {"none", "ok", "empty", "error", "transient"}]
<1>1. 0 \in 0 .. Tries - 1
  BY VerifyAssumption
<1> QED BY <1>1 DEF Waiting, Zero, Unjudged

\* A dashboard's judgement keeps everything, if it is broken only for what it is, and right
\* or unread if it passes.
LEMMA ConcludeKeeps ==
  ASSUME VerifyIInv, NEW s, NEW alone, Conclude(s, alone), asked' = asked, verifyPc # "done",
         \A p \in Places : stage[p] \in {"wait", "told"},
         \/ s = "recheck" /\ alone = "error"
         \/ s = "error" /\ alone = "error" /\ ~Right
         \/ s = "broken" /\ alone = "divergence" /\ ~Right
         \/ s \in {"ok", "inconclusive"} /\ alone = "ok" /\ (Right \/ flaky # {})
  PROVE  VerifyIInv'
<1> DEFINE fleet2 == Append(fleet, s)
<1>0. VerifyTypeOK /\ VerifyInv /\ VerdictsSound
  BY DEF VerifyIInv
<1>1. /\ s \in {"ok", "inconclusive", "broken", "recheck", "error"}
      /\ alone \in {"ok", "divergence", "error"}
      /\ fleet \in Seq({"ok", "inconclusive", "broken", "recheck", "error"})
  BY <1>0 DEF VerifyTypeOK
<1>2. fleet' = fleet2 /\ fleet2 \in Seq({"ok", "inconclusive", "broken", "recheck", "error"})
  BY <1>1 DEF Conclude
<1>3. FleetBad(fleet2) <=> FleetBad(fleet) \/ s \in {"broken", "error"}
  BY <1>1, FleetGrows
<1>4. (wrong' <=> wrong \/ ~Right) /\ (unread' <=> unread \/ flaky # {} \/ s = "recheck")
      /\ wrong' \in BOOLEAN /\ unread' \in BOOLEAN
  BY Zenon DEF Conclude
<1>5. FleetBad(fleet') => wrong'
  BY <1>0, <1>2, <1>3, <1>4 DEF VerifyInv
<1>6. wrong' => unread' \/ FleetBad(fleet')
  BY <1>0, <1>2, <1>3, <1>4 DEF VerifyInv
<1>7. CASE single \/ Len(fleet2) = Boards
  <2>1. /\ verifyPc' = "done" /\ UNCHANGED <<truth, refTries, chartLocals>>
        /\ outcome' = IF single THEN alone ELSE FleetExit(fleet2)
    BY <1>7 DEF Conclude
  <2>2. VerifyTypeOK'
    <3>1. outcome' \in {"none", "ok", "divergence", "error"}
      BY <1>1, <2>1 DEF FleetExit
    <3>2. single' \in BOOLEAN /\ json' \in BOOLEAN
      BY <1>0, Zenon DEF VerifyTypeOK, asked
    <3> QED BY <1>0, <1>2, <1>4, <2>1, <3>1, <3>2 DEF VerifyTypeOK, chartLocals
  <2>3. VerifyInv'
    BY <1>0, <1>5, <1>6, <2>1 DEF VerifyInv, chartLocals, Chart
  <2>4. outcome' = "divergence" => wrong'
    <3>1. CASE single
      BY <1>4, <2>1, <3>1
    <3>2. CASE ~single
      BY <1>2, <1>5, <2>1, <3>2 DEF FleetExit
    <3> QED BY <3>1, <3>2
  <2>5. outcome' = "ok" => ~wrong' \/ unread' \/ (~single' /\ json' /\ FleetBad(fleet'))
    <3>1. CASE single
      <4>1. ~wrong
        BY <1>0, <3>1 DEF VerifyInv
      <4>2. outcome' = alone
        BY <2>1, <3>1
      <4> QED BY <1>4, <4>1, <4>2
    <3>2. CASE ~single
      <4>1. ~single' /\ json' = json
        BY <3>2 DEF asked
      <4>2. CASE FleetBad(fleet2) /\ ~json
        BY <2>1, <3>2, <4>2 DEF FleetExit
      <4>3. CASE FleetBad(fleet2) /\ json
        BY Zenon, <1>2, <4>1, <4>3
      <4>4. CASE ~FleetBad(fleet2)
        BY Zenon, <1>2, <1>6, <4>4
      <4> QED BY Zenon, <4>2, <4>3, <4>4
    <3> QED BY <3>1, <3>2
  <2> QED BY <1>0, <2>1, <2>2, <2>3, <2>4, <2>5 DEF VerifyIInv, VerdictsSound, chartLocals, Chart
<1>8. CASE ~(single \/ Len(fleet2) = Boards)
  <2>1. /\ verifyPc' = "refs" /\ truth' \in [Places -> Conditions] \cup {Missing}
        /\ refTries' = 0 /\ stage' = Waiting /\ tries' = Zero /\ verdict' = Unjudged
        /\ flaky' = {} /\ outcome' = outcome
    BY <1>8 DEF Conclude
  <2>2. outcome = "none" /\ ~single'
    BY <1>0, <1>8 DEF VerifyInv, asked
  <2>3. VerifyTypeOK'
    <3>1. single' \in BOOLEAN /\ json' \in BOOLEAN
      BY <1>0, Zenon DEF VerifyTypeOK, asked
    <3>2. refTries' \in 0 .. Tries - 1
      BY <2>1, VerifyAssumption
    <3> QED BY <1>0, <1>2, <1>4, <2>1, <2>2, <3>1, <3>2, StartType DEF VerifyTypeOK
  <2>4. VerifyInv'
    BY <1>5, <1>6, <2>1, <2>2 DEF VerifyInv, Waiting
  <2>5. VerdictsSound'
    BY <2>1, <2>2 DEF VerdictsSound, Unjudged
  <2> QED BY <2>3, <2>4, <2>5 DEF VerifyIInv
<1> QED BY <1>7, <1>8

\* One call about one chart.
LEMMA OneChart ==
  ASSUME VerifyIInv, NEW p \in Places, verifyPc = "charts",
         UNCHANGED <<truth, asked, verifyPc, refTries, fleet, outcome, past>>,
         flaky' = flaky \/ flaky' = flaky \cup {p},
         NEW st \in {"get", "query", "execute", "told"},
         NEW ve \in {"none", "ok", "empty", "error", "transient"},
         stage' = [stage EXCEPT ![p] = st], verdict' = [verdict EXCEPT ![p] = ve],
         tries' \in [Places -> 0 .. Tries - 1],
         st = "told" => ve # "none",
         st = "query" => Chart(p) \notin {"gone", "queryless"},
         st = "execute" => Chart(p) # "gone" /\ (Chart(p) = "reserved" => p \in flaky'),
         ve = "error" => Chart(p) \in {"invalid", "reserved", "gone"},
         ve = "empty" => Chart(p) = "norows",
         ve = "ok" => Chart(p) = "rows" \/ (Chart(p) = "reserved" /\ p \in flaky'),
         ve = "transient" => p \in flaky' \/ Chart(p) = "queryless"
  PROVE  VerifyIInv'
<1>0. VerifyTypeOK /\ VerifyInv /\ VerdictsSound
  BY DEF VerifyIInv
<1>1. /\ stage'[p] = st /\ verdict'[p] = ve
      /\ \A q \in Places \ {p} : stage'[q] = stage[q] /\ verdict'[q] = verdict[q]
      /\ \A q \in Places \ {p} : q \in flaky' <=> q \in flaky
      /\ flaky \subseteq flaky'
  BY <1>0 DEF VerifyTypeOK
<1>2. VerifyTypeOK'
  <2>1. single' \in BOOLEAN /\ json' \in BOOLEAN /\ wrong' \in BOOLEAN /\ unread' \in BOOLEAN
    BY <1>0, Zenon DEF VerifyTypeOK, past, asked
  <2>2. /\ stage' \in [Places -> {"wait", "get", "query", "execute", "told"}]
        /\ verdict' \in [Places -> {"none", "ok", "empty", "error", "transient"}]
        /\ flaky' \subseteq Places
    BY <1>0 DEF VerifyTypeOK
  <2> QED BY <1>0, <2>1, <2>2 DEF VerifyTypeOK
<1>3. VerifyInv'
  BY <1>0, <1>1 DEF VerifyInv, Chart, past, asked
<1>4. VerdictsSound'
  BY <1>0, <1>1 DEF VerifyInv, VerdictsSound, Chart, past, asked
<1> QED BY <1>2, <1>3, <1>4 DEF VerifyIInv

LEMMA VerifyStep ==
  ASSUME VerifyIInv, [VerifyNext]_verifyVars
  PROVE  VerifyIInv'
<1>0. /\ VerifyTypeOK /\ VerifyInv /\ VerdictsSound
      /\ stage \in [Places -> {"wait", "get", "query", "execute", "told"}]
      /\ verdict \in [Places -> {"none", "ok", "empty", "error", "transient"}]
      /\ tries \in [Places -> 0 .. Tries - 1]
  BY DEF VerifyIInv, VerifyTypeOK
<1>1. \A p \in Places :
        /\ verdict[p] = "error" => Chart(p) \in {"invalid", "reserved", "gone"}
        /\ verdict[p] = "empty" => Chart(p) = "norows"
        /\ verdict[p] = "ok" => Chart(p) = "rows" \/ (Chart(p) = "reserved" /\ p \in flaky)
        /\ verdict[p] = "transient" => p \in flaky \/ Chart(p) = "queryless"
  BY <1>0 DEF VerdictsSound
<1>2. ASSUME NEW p \in Places
      PROVE  /\ stage[p] \in {"get", "query", "execute"} => verifyPc = "charts"
             /\ verdict = [verdict EXCEPT ![p] = verdict[p]]
             /\ stage = [stage EXCEPT ![p] = stage[p]]
             /\ [tries EXCEPT ![p] = 0] \in [Places -> 0 .. Tries - 1]
             /\ tries[p] < Tries - 1 => [tries EXCEPT ![p] = tries[p] + 1] \in [Places -> 0 .. Tries - 1]
  <2>1. 0 \in 0 .. Tries - 1 /\ \A n \in 0 .. Tries - 1 : n < Tries - 1 => n + 1 \in 0 .. Tries - 1
    BY VerifyAssumption
  <2> QED BY <1>0, <2>1 DEF VerifyInv
<1>3. ASSUME NEW p \in Places, StartChart(p) PROVE VerifyIInv'
  <2>1. verifyPc = "charts" /\ stage' = [stage EXCEPT ![p] = "get"]
        /\ UNCHANGED <<truth, asked, verifyPc, refTries, fleet, outcome, past, tries, verdict, flaky>>
    BY <1>3 DEF StartChart
  <2> QED BY <1>0, <1>1, <1>2, <2>1, OneChart
\* A call is tried again or judged.
<1>4. ASSUME NEW p \in Places, NEW v \in {"error", "transient"}, RetryOr(p, v),
             stage[p] \in {"get", "query", "execute"}
      PROVE  \/ stage' = [stage EXCEPT ![p] = stage[p]] /\ verdict' = [verdict EXCEPT ![p] = verdict[p]]
                /\ tries' \in [Places -> 0 .. Tries - 1]
             \/ stage' = [stage EXCEPT ![p] = "told"] /\ verdict' = [verdict EXCEPT ![p] = v]
                /\ tries' \in [Places -> 0 .. Tries - 1]
  BY <1>0, <1>2, <1>4 DEF RetryOr, Tell
<1>5. ASSUME NEW p \in Places, GetTheChart(p) PROVE VerifyIInv'
  <2>1. /\ stage[p] = "get" /\ verifyPc = "charts"
        /\ UNCHANGED <<truth, asked, verifyPc, refTries, fleet, outcome, past>>
    BY <1>2, <1>5 DEF GetTheChart
  <2>2. CASE Fails(p) /\ flaky' = flaky \cup {p}
    <3>1. CASE stage' = [stage EXCEPT ![p] = "get"] /\ verdict' = [verdict EXCEPT ![p] = verdict[p]]
                /\ tries' \in [Places -> 0 .. Tries - 1]
      BY <1>0, <1>1, <2>1, <2>2, <3>1, OneChart
    <3>2. CASE stage' = [stage EXCEPT ![p] = "told"] /\ verdict' = [verdict EXCEPT ![p] = "transient"]
                /\ tries' \in [Places -> 0 .. Tries - 1]
      BY <2>1, <2>2, <3>2, OneChart
    <3> QED BY <1>4, <2>1, <2>2, <3>1, <3>2 DEF Fails
  <2>3. CASE Chart(p) = "gone" /\ Tell(p, "error") /\ UNCHANGED flaky
    BY <1>0, <2>1, <2>3, OneChart DEF Tell
  <2>4. CASE Chart(p) = "queryless" /\ Proceed(p, "execute") /\ UNCHANGED flaky
    BY <1>0, <1>1, <1>2, <2>1, <2>4, OneChart DEF Proceed
  <2>5. CASE Chart(p) \notin {"gone", "queryless"} /\ Proceed(p, "query") /\ UNCHANGED flaky
    BY <1>0, <1>1, <1>2, <2>1, <2>5, OneChart DEF Proceed
  <2> QED BY <1>5, <2>2, <2>3, <2>4, <2>5 DEF GetTheChart
<1>6. ASSUME NEW p \in Places, ReadQuery(p) PROVE VerifyIInv'
  <2>1. /\ stage[p] = "query" /\ verifyPc = "charts" /\ Chart(p) \notin {"gone", "queryless"}
        /\ UNCHANGED <<truth, asked, verifyPc, refTries, fleet, outcome, past>>
    BY <1>0, <1>2, <1>6 DEF ReadQuery, VerifyInv
  <2>2. CASE Proceed(p, "execute") /\ flaky' = flaky \cup {p}
    BY <1>0, <1>1, <1>2, <2>1, <2>2, OneChart DEF Proceed
  <2>3. CASE Chart(p) = "reserved" /\ Tell(p, "error") /\ UNCHANGED flaky
    BY <1>0, <2>1, <2>3, OneChart DEF Tell
  <2>4. CASE Chart(p) # "reserved" /\ Proceed(p, "execute") /\ UNCHANGED flaky
    BY <1>0, <1>1, <1>2, <2>1, <2>4, OneChart DEF Proceed
  <2> QED BY <1>6, <2>2, <2>3, <2>4 DEF ReadQuery
<1>7. ASSUME NEW p \in Places, Execute(p) PROVE VerifyIInv'
  <2>1. /\ stage[p] = "execute" /\ verifyPc = "charts" /\ Chart(p) # "gone"
        /\ (Chart(p) = "reserved" => p \in flaky)
        /\ UNCHANGED <<truth, asked, verifyPc, refTries, fleet, outcome, past>>
    BY <1>0, <1>2, <1>7 DEF Execute, VerifyInv
  <2>2. CASE Fails(p) /\ flaky' = flaky \cup {p}
    <3>1. CASE stage' = [stage EXCEPT ![p] = "execute"] /\ verdict' = [verdict EXCEPT ![p] = verdict[p]]
                /\ tries' \in [Places -> 0 .. Tries - 1]
      BY <1>0, <1>1, <2>1, <2>2, <3>1, OneChart
    <3>2. CASE stage' = [stage EXCEPT ![p] = "told"] /\ verdict' = [verdict EXCEPT ![p] = "transient"]
                /\ tries' \in [Places -> 0 .. Tries - 1]
      BY <2>1, <2>2, <3>2, OneChart
    <3> QED BY <1>4, <2>1, <2>2, <3>1, <3>2 DEF Fails
  <2>3. ASSUME NEW v \in {"error", "transient"}, RetryOr(p, v), UNCHANGED flaky,
               v = "error" => Chart(p) = "invalid", v = "transient" => Chart(p) = "queryless"
        PROVE  VerifyIInv'
    <3>1. CASE stage' = [stage EXCEPT ![p] = "execute"] /\ verdict' = [verdict EXCEPT ![p] = verdict[p]]
                /\ tries' \in [Places -> 0 .. Tries - 1]
      BY <1>0, <1>1, <2>1, <2>3, <3>1, OneChart
    <3>2. CASE stage' = [stage EXCEPT ![p] = "told"] /\ verdict' = [verdict EXCEPT ![p] = v]
                /\ tries' \in [Places -> 0 .. Tries - 1]
      BY <2>1, <2>3, <3>2, OneChart
    <3> QED BY <1>4, <2>1, <2>3, <3>1, <3>2
  <2>4. CASE Chart(p) = "norows" /\ Tell(p, "empty") /\ UNCHANGED flaky
    BY <1>0, <2>1, <2>4, OneChart DEF Tell
  <2>5. CASE Chart(p) \in {"rows", "reserved"} /\ Tell(p, "ok") /\ UNCHANGED flaky
    BY <1>0, <2>1, <2>5, OneChart DEF Tell
  <2> QED BY <1>7, <2>2, <2>3, <2>4, <2>5 DEF Execute
<1>8. CASE ReadRefs
  <2>0. verifyPc = "refs" /\ asked' = asked /\ \A p \in Places : stage[p] = "wait"
    BY <1>0, <1>8 DEF ReadRefs, VerifyInv, Waiting
  <2>1. CASE /\ refTries < Tries - 1 /\ refTries' = refTries + 1
             /\ UNCHANGED <<truth, verifyPc, chartLocals, fleet, outcome, past>>
    <3>1. refTries' \in 0 .. Tries - 1
      BY <1>0, <2>1, VerifyAssumption DEF VerifyTypeOK
    <3>2. single' \in BOOLEAN /\ json' \in BOOLEAN /\ wrong' \in BOOLEAN /\ unread' \in BOOLEAN
      BY <1>0, <2>0, <2>1, Zenon DEF VerifyTypeOK, past, asked
    <3> QED BY <1>0, <2>0, <2>1, <3>1, <3>2
            DEF VerifyIInv, VerifyTypeOK, VerifyInv, VerdictsSound, Chart, chartLocals, past, asked
  <2>2. CASE Conclude("recheck", "error")
    BY <2>0, <2>2, ConcludeKeeps
  <2>3. CASE truth = Missing /\ Conclude("error", "error")
    <3>1. ~Right
      BY <2>3 DEF Right
    <3> QED BY <2>0, <2>3, <3>1, ConcludeKeeps
  <2>4. CASE /\ truth # Missing /\ verifyPc' = "charts"
             /\ UNCHANGED <<truth, refTries, chartLocals, fleet, outcome, past>>
    <3>1. single' \in BOOLEAN /\ json' \in BOOLEAN /\ wrong' \in BOOLEAN /\ unread' \in BOOLEAN
      BY <1>0, <2>0, <2>4, Zenon DEF VerifyTypeOK, past, asked
    <3> QED BY <1>0, <2>0, <2>4, <3>1
            DEF VerifyIInv, VerifyTypeOK, VerifyInv, VerdictsSound, Chart, chartLocals, past, asked
  <2> QED BY <1>8, <2>1, <2>2, <2>3, <2>4 DEF ReadRefs
<1>9. CASE BoardDone
  <2>0. /\ verifyPc = "charts" /\ asked' = asked /\ truth # Missing
        /\ \A p \in Places : stage[p] = "told" /\ verdict[p] \in {"ok", "empty", "error", "transient"}
    BY <1>0, <1>9 DEF BoardDone, VerifyInv
  <2>1. CASE Bad # {} /\ Conclude("broken", "divergence")
    <3>1. PICK p \in Places : verdict[p] \in {"error", "empty"}
      BY <2>1 DEF Bad, Judged
    <3>2. ~Right
      BY <1>1, <3>1 DEF Right
    <3> QED BY <2>0, <2>1, <3>2, ConcludeKeeps
  <2>2. CASE Bad = {} /\ \E s \in {"ok", "inconclusive"} : Conclude(s, "ok")
    <3>1. \A p \in Places : verdict[p] \in {"ok", "transient"}
      BY <2>0, <2>2 DEF Bad, Judged
    <3>2. Right \/ flaky # {}
      BY <1>1, <2>0, <3>1 DEF Right
    <3> QED BY <2>0, <2>2, <3>2, ConcludeKeeps
  <2> QED BY <1>9, <2>1, <2>2 DEF BoardDone
<1>10. CASE UNCHANGED verifyVars
  <2>1. single' \in BOOLEAN /\ json' \in BOOLEAN /\ wrong' \in BOOLEAN /\ unread' \in BOOLEAN
    BY <1>0, <1>10, Zenon DEF VerifyTypeOK, verifyVars, past, asked
  <2> QED BY <1>0, <1>10, <2>1
          DEF VerifyIInv, VerifyTypeOK, VerifyInv, VerdictsSound, Chart, verifyVars, past, asked
<1> QED BY <1>3, <1>5, <1>6, <1>7, <1>8, <1>9, <1>10 DEF VerifyNext

LEMMA VerifyStart == VerifyInit => VerifyIInv
<1> SUFFICES ASSUME VerifyInit PROVE VerifyIInv
  OBVIOUS
<1>1. VerifyTypeOK
  <2>1. refTries \in 0 .. Tries - 1
    BY VerifyAssumption DEF VerifyInit
  <2>2. single \in BOOLEAN /\ json \in BOOLEAN /\ wrong \in BOOLEAN /\ unread \in BOOLEAN
    BY Zenon DEF VerifyInit
  <2> QED BY <2>1, <2>2, StartType DEF VerifyInit, VerifyTypeOK
<1>2. VerifyInv
  BY DEF VerifyInit, VerifyInv, Waiting, FleetBad
<1>3. VerdictsSound
  BY DEF VerifyInit, VerdictsSound, Unjudged
<1> QED BY <1>1, <1>2, <1>3 DEF VerifyIInv

LEMMA VerifyInvariant == VerifySpec => []VerifyIInv
BY VerifyStart, VerifyStep, PTL DEF VerifySpec

\* Every variable of a verification has its type.
THEOREM VerifyTypeCorrect == VerifySpec => []VerifyTypeOK
<1>1. VerifyIInv => VerifyTypeOK
  BY DEF VerifyIInv
<1> QED BY <1>1, VerifyInvariant, PTL

\* A chart is condemned only for what it is, the gate stops only for a wrong dashboard, and
\* it passes a wrong one only when a call failed (dashboards_execute.go).
THEOREM VerifyIsSound == VerifySpec => []VerdictsSound
<1>1. VerifyIInv => VerdictsSound
  BY DEF VerifyIInv
<1> QED BY <1>1, VerifyInvariant, PTL

-----------------------------------------------------------------------------
(* Doctor *)

\* The messages that are true of the present state: of a probe, and of a check.
TrueResults ==
  {r \in [lane : Lanes, ok : BOOLEAN] :
     IF r.ok THEN r.lane \in answered ELSE r.lane \notin answered /\ lanes[r.lane] = "sent"}

TrueChecks ==
  {k \in [name : Checks, verdict : Verdicts] :
     /\ k.name = "auth" => siemPc \in {"siem", "siemSend", "done"} /\ k.verdict = authCheck
     /\ k.name = "siem" => siemPc = "done" /\ k.verdict = siemCheck
     /\ k.name = "soar" => /\ soarPc = "done" /\ race # "running"
                           /\ k.verdict = IF race = "ok" THEN "ok" ELSE "failed"}

\* What is under way tells the truth: outcomes of probes, the race, and the checks.
DoctorInv ==
  /\ \A l \in Lanes : /\ lanes[l] = "ok" => l \in answered
                      /\ lanes[l] \in {"off", "running", "failed"} => l \notin answered
                      /\ l \in laneFailed => lanes[l] = "sent" /\ l \notin answered
  /\ results \in Seq(TrueResults)
  /\ race = "error" /\ ~Expired => laneFailed = Lanes
  /\ race = "ok" => answered # {}
  /\ checks \in Seq(TrueChecks)
  /\ \A c \in Checks : got[c] # "none" => [name |-> c, verdict |-> got[c]] \in TrueChecks
  /\ siemPc # "auth" => authCheck # "none"
  /\ siemPc \in {"siemSend", "done"} => siemCheck # "none"
  /\ siemCheck = "skipped" => authCheck # "ok" /\ siemPc \in {"siemSend", "done"}
  /\ doctorPc = "done" => \A c \in Checks : got[c] # "none"

LEMMA QueueParts ==
  ASSUME NEW S, NEW q \in Seq(S), q # <<>>
  PROVE  Tail(q) \in Seq(S) /\ Head(q) \in S
OBVIOUS

LEMMA QueueWider ==
  ASSUME NEW S, NEW T, S \subseteq T, NEW q \in Seq(S)
  PROVE  q \in Seq(T)
OBVIOUS

\* Everything that a goroutine's step may change, by the action that changes it.
LEMMA DoctorTypeStep ==
  ASSUME DoctorTypeOK, DoctorInv, [DoctorNext]_doctorVars
  PROVE  DoctorTypeOK'
<1>0. /\ lanes \in [Lanes -> {"off", "running", "ok", "failed", "sent"}] /\ laneFailed \subseteq Lanes
      /\ results \in Seq([lane : Lanes, ok : BOOLEAN]) /\ answered \subseteq Lanes
      /\ checks \in Seq([name : Checks, verdict : Verdicts]) /\ got \in [Checks -> Verdicts \cup {"none"}]
      /\ now \in 0 .. Budget /\ timer \in Nat /\ race \in {"running", "ok", "error"}
      /\ siemPc \in {"auth", "authSend", "siem", "siemSend", "done"} /\ soarPc \in {"probe", "done"}
      /\ authCheck \in {"none", "ok", "failed"} /\ siemCheck \in Verdicts \cup {"none"}
      /\ doctorPc \in {"collect", "done"} /\ Budget \in Nat
  BY DoctorAssumption DEF DoctorTypeOK
<1>1. /\ results # <<>> => Tail(results) \in Seq([lane : Lanes, ok : BOOLEAN])
                           /\ Head(results) \in [lane : Lanes, ok : BOOLEAN]
      /\ checks # <<>> => Tail(checks) \in Seq([name : Checks, verdict : Verdicts])
                          /\ Head(checks) \in [name : Checks, verdict : Verdicts]
  BY <1>0, QueueParts
<1>2. ASSUME NEW l \in Lanes, LaneAnswers(l) PROVE DoctorTypeOK'
  BY <1>0, <1>2 DEF DoctorTypeOK, LaneAnswers, siemVars
<1>3. ASSUME NEW l \in Lanes, LaneSends(l) PROVE DoctorTypeOK'
  <2>1. [lane |-> l, ok |-> lanes[l] = "ok"] \in [lane : Lanes, ok : BOOLEAN]
    OBVIOUS
  <2>2. results' \in Seq([lane : Lanes, ok : BOOLEAN])
    BY <1>0, <1>3, <2>1 DEF LaneSends
  <2> QED BY <1>0, <1>3, <2>2 DEF DoctorTypeOK, LaneSends, siemVars
<1>4. "fallback" \in Lanes /\ Never \in Nat
  BY <1>0 DEF Lanes, Never
<1>5. CASE RaceTimer
  BY <1>0, <1>4, <1>5 DEF DoctorTypeOK, RaceTimer, StartFallback, siemVars
<1>6. CASE RaceExpires
  BY <1>0, <1>6 DEF DoctorTypeOK, RaceExpires, siemVars
<1>7. CASE RaceReceives
  <2>1. Head(results).lane \in Lanes
    BY <1>1, <1>7 DEF RaceReceives
  <2>2. results' \in Seq([lane : Lanes, ok : BOOLEAN])
    BY <1>1, <1>7 DEF RaceReceives
  <2>3. /\ lanes' \in [Lanes -> {"off", "running", "ok", "failed", "sent"}] /\ laneFailed' \subseteq Lanes
        /\ timer' \in Nat /\ race' \in {"running", "ok", "error"}
    BY <1>0, <1>4, <1>7, <2>1 DEF RaceReceives, StartFallback
  <2> QED BY <1>0, <1>7, <2>2, <2>3 DEF DoctorTypeOK, RaceReceives, siemVars
<1>8. ASSUME NEW name \in Checks, NEW v \in Verdicts, SendCheck(name, v)
      PROVE  checks' \in Seq([name : Checks, verdict : Verdicts])
  <2>1. [name |-> name, verdict |-> v] \in [name : Checks, verdict : Verdicts]
    OBVIOUS
  <2> QED BY <1>0, <1>8, <2>1 DEF SendCheck
<1>9. CASE SoarDone
  <2>1. checks' \in Seq([name : Checks, verdict : Verdicts])
    BY <1>8, <1>9 DEF SoarDone, Checks, Verdicts
  <2> QED BY <1>0, <1>9, <2>1 DEF DoctorTypeOK, SoarDone, siemVars, raceVars
<1>10. CASE SiemAnswers
  BY <1>0, <1>10 DEF DoctorTypeOK, SiemAnswers, raceVars, Verdicts
<1>11. CASE SiemSends
  <2>1. checks' \in Seq([name : Checks, verdict : Verdicts])
    <3>1. CASE siemPc = "authSend" /\ SendCheck("auth", authCheck)
      <4>1. authCheck \in Verdicts
        BY <1>0, <3>1 DEF DoctorInv, Verdicts
      <4> QED BY <1>8, <3>1, <4>1 DEF Checks
    <3>2. CASE siemPc = "siemSend" /\ SendCheck("siem", siemCheck)
      <4>1. siemCheck \in Verdicts
        BY <1>0, <3>2 DEF DoctorInv, Verdicts
      <4> QED BY <1>8, <3>2, <4>1 DEF Checks
    <3> QED BY <1>11, <3>1, <3>2 DEF SiemSends
  <2>2. siemPc' \in {"auth", "authSend", "siem", "siemSend", "done"}
    BY <1>11 DEF SiemSends
  <2> QED BY <1>0, <1>11, <2>1, <2>2 DEF DoctorTypeOK, SiemSends, raceVars
<1>12. CASE Collect
  <2>1. checks' \in Seq([name : Checks, verdict : Verdicts])
        /\ Head(checks).name \in Checks /\ Head(checks).verdict \in Verdicts
    BY <1>1, <1>12 DEF Collect
  <2>2. got' \in [Checks -> Verdicts \cup {"none"}] /\ doctorPc' \in {"collect", "done"}
    BY <1>0, <1>12, <2>1 DEF Collect
  <2> QED BY <1>0, <1>12, <2>1, <2>2 DEF DoctorTypeOK, Collect, raceVars, siemVars
<1>13. CASE Tick
  BY <1>0, <1>13 DEF DoctorTypeOK, Tick, raceVars, siemVars
<1>14. CASE UNCHANGED doctorVars
  BY <1>0, <1>14 DEF DoctorTypeOK, doctorVars, raceVars, siemVars
<1> QED BY <1>2, <1>3, <1>5, <1>6, <1>7, <1>9, <1>10, <1>11, <1>12, <1>13, <1>14
        DEF DoctorNext, RaceStep, DoctorStep

\* What is past stays: a probe that has sent, a plane that was judged, the race's end.
LEMMA PastStays ==
  ASSUME DoctorTypeOK, DoctorInv, [DoctorNext]_doctorVars
  PROVE  /\ TrueResults \subseteq TrueResults' /\ TrueChecks \subseteq TrueChecks'
         /\ answered \subseteq answered' /\ (~Expired' => ~Expired)
<1>0. lanes \in [Lanes -> {"off", "running", "ok", "failed", "sent"}] /\ "fallback" \in Lanes
      /\ now \in Nat /\ Budget \in Nat
  BY DoctorAssumption DEF DoctorTypeOK, Lanes
<1>1. /\ answered \subseteq answered'
      /\ \A l \in Lanes : lanes[l] = "sent" => lanes'[l] = "sent" /\ (l \in answered' => l \in answered)
  <2>1. ASSUME NEW l \in Lanes, LaneAnswers(l) \/ LaneSends(l)
        PROVE  /\ answered \subseteq answered'
               /\ \A k \in Lanes : lanes[k] = "sent" => lanes'[k] = "sent" /\ (k \in answered' => k \in answered)
    BY <1>0, <2>1 DEF LaneAnswers, LaneSends
  <2>2. CASE RaceTimer \/ RaceReceives
    BY <1>0, <2>2 DEF RaceTimer, RaceReceives, StartFallback
  <2>3. CASE UNCHANGED <<lanes, answered>>
    BY <2>3
  <2> QED BY <2>1, <2>2, <2>3
          DEF DoctorNext, RaceStep, DoctorStep, RaceExpires, SiemAnswers, SoarDone, SiemSends,
              Collect, Tick, doctorVars, raceVars
<1>2. /\ siemPc \in {"siem", "siemSend", "done"} =>
           authCheck' = authCheck /\ siemPc' \in {"siem", "siemSend", "done"}
      /\ siemPc = "done" => siemPc' = "done" /\ siemCheck' = siemCheck
      /\ soarPc = "done" => soarPc' = "done"
      /\ race # "running" => race' = race
  BY DEF DoctorNext, RaceStep, DoctorStep, LaneAnswers, LaneSends, RaceTimer, RaceExpires,
         RaceReceives, SiemAnswers, SoarDone, SiemSends, Collect, Tick, doctorVars, raceVars, siemVars
<1>3. now' = now \/ now' = now + 1
  BY DEF DoctorNext, RaceStep, DoctorStep, LaneAnswers, LaneSends, RaceTimer, RaceExpires,
         RaceReceives, SiemAnswers, SoarDone, SiemSends, Collect, Tick, doctorVars, raceVars, siemVars
<1>4. ~Expired' => ~Expired
  BY <1>0, <1>3 DEF Expired
<1>5. TrueResults \subseteq TrueResults'
  BY <1>1 DEF TrueResults
<1>6. TrueChecks \subseteq TrueChecks'
  BY <1>2 DEF TrueChecks
<1> QED BY <1>1, <1>4, <1>5, <1>6

LEMMA DoctorInvStep ==
  ASSUME DoctorTypeOK, DoctorInv, [DoctorNext]_doctorVars
  PROVE  DoctorInv'
<1>0. /\ lanes \in [Lanes -> {"off", "running", "ok", "failed", "sent"}] /\ laneFailed \subseteq Lanes
      /\ results \in Seq([lane : Lanes, ok : BOOLEAN]) /\ "fallback" \in Lanes
      /\ checks \in Seq([name : Checks, verdict : Verdicts]) /\ got \in [Checks -> Verdicts \cup {"none"}]
      /\ race \in {"running", "ok", "error"}
  BY DEF DoctorTypeOK, Lanes
<1>1. /\ TrueResults \subseteq TrueResults' /\ TrueChecks \subseteq TrueChecks'
      /\ answered \subseteq answered' /\ (~Expired' => ~Expired)
  BY PastStays
<1>2. \A l \in Lanes : /\ lanes'[l] = "ok" => l \in answered'
                       /\ lanes'[l] \in {"off", "running", "failed"} => l \notin answered'
                       /\ l \in laneFailed' => lanes'[l] = "sent" /\ l \notin answered'
  <2>0. \A l \in Lanes : /\ lanes[l] = "ok" => l \in answered
                         /\ lanes[l] \in {"off", "running", "failed"} => l \notin answered
                         /\ l \in laneFailed => lanes[l] = "sent" /\ l \notin answered
    BY DEF DoctorInv
  <2>1. CASE \E l \in Lanes : LaneAnswers(l) \/ LaneSends(l)
    <3>1. PICK l \in Lanes : LaneAnswers(l) \/ LaneSends(l)
      BY <2>1
    <3>2. CASE LaneAnswers(l)
      BY <1>0, <2>0, <3>2 DEF LaneAnswers
    <3>3. CASE LaneSends(l)
      BY <1>0, <2>0, <3>3 DEF LaneSends
    <3> QED BY <3>1, <3>2, <3>3
  <2>2. CASE RaceTimer
    BY <1>0, <2>0, <2>2 DEF RaceTimer, StartFallback
  <2>3. CASE RaceReceives
    <3>1. Head(results) \in TrueResults
          /\ answered' = answered
      <4>1. results # <<>> /\ answered' = answered
        BY <2>3 DEF RaceReceives
      <4> QED BY <1>0, <4>1, QueueParts DEF DoctorInv
    <3>2. CASE Head(results).ok /\ UNCHANGED <<lanes, laneFailed>>
      BY <2>0, <3>1, <3>2
    <3>3. CASE ~Head(results).ok /\ laneFailed' = laneFailed \cup {Head(results).lane}
               /\ (StartFallback \/ UNCHANGED lanes)
      <4>1. Head(results).lane \in Lanes /\ lanes[Head(results).lane] = "sent"
            /\ Head(results).lane \notin answered
        BY <3>1, <3>3 DEF TrueResults
      <4> QED BY <1>0, <2>0, <3>1, <3>3, <4>1 DEF StartFallback
    <3> QED BY <2>3, <3>2, <3>3 DEF RaceReceives
  <2>4. CASE UNCHANGED <<lanes, answered, laneFailed>>
    BY <2>0, <2>4
  <2> QED BY <2>1, <2>2, <2>3, <2>4
          DEF DoctorNext, RaceStep, DoctorStep, RaceExpires, SiemAnswers, SoarDone, SiemSends,
              Collect, Tick, doctorVars, raceVars
<1>3. results' \in Seq(TrueResults')
  <2>1. results \in Seq(TrueResults')
    BY <1>1, QueueWider DEF DoctorInv
  <2>2. CASE \E l \in Lanes : LaneSends(l)
    <3>1. PICK l \in Lanes : LaneSends(l)
      BY <2>2
    <3> DEFINE r == [lane |-> l, ok |-> lanes[l] = "ok"]
    <3>2. results' = Append(results, r) /\ answered' = answered /\ lanes'[l] = "sent"
          /\ lanes[l] \in {"ok", "failed"} /\ r \in [lane : Lanes, ok : BOOLEAN]
      BY <1>0, <3>1 DEF LaneSends
    <3>3. r \in TrueResults'
      <4>1. CASE lanes[l] = "ok"
        BY <3>2, <4>1 DEF TrueResults, DoctorInv
      <4>2. CASE lanes[l] = "failed"
        BY <3>2, <4>2 DEF TrueResults, DoctorInv
      <4> QED BY <3>2, <4>1, <4>2
    <3> QED BY <2>1, <3>2, <3>3
  <2>3. CASE RaceReceives
    BY <2>1, <2>3, QueueParts DEF RaceReceives
  <2>4. CASE results' = results
    BY <2>1, <2>4
  <2> QED BY <2>2, <2>3, <2>4
          DEF DoctorNext, RaceStep, DoctorStep, RaceTimer, RaceExpires, LaneAnswers, SiemAnswers,
              SoarDone, SiemSends, Collect, Tick, doctorVars, raceVars
<1>4. (race' = "error" /\ ~Expired' => laneFailed' = Lanes) /\ (race' = "ok" => answered' # {})
  <2>1. CASE RaceReceives
    <3>1. Head(results) \in TrueResults
          /\ answered' = answered /\ race = "running" /\ Expired' = Expired
      <4>1. results # <<>> /\ answered' = answered /\ race = "running" /\ now' = now
        BY <2>1 DEF RaceReceives
      <4> QED BY <1>0, <4>1, QueueParts DEF DoctorInv, Expired
    <3>2. CASE Head(results).ok /\ race' = IF Expired THEN "error" ELSE "ok"
      BY <3>1, <3>2 DEF TrueResults
    <3>3. CASE race' = IF laneFailed' = Lanes THEN "error" ELSE "running"
      BY <3>3
    <3> QED BY <2>1, <3>2, <3>3 DEF RaceReceives
  <2>2. CASE RaceExpires
    <3>1. race' = "error" /\ Expired'
      BY <2>2 DEF RaceExpires, Expired
    <3> QED BY <3>1
  <2>3. CASE UNCHANGED <<race, laneFailed>>
    BY <1>1, <2>3 DEF DoctorInv
  <2> QED BY <2>1, <2>2, <2>3
          DEF DoctorNext, RaceStep, DoctorStep, RaceTimer, LaneAnswers, LaneSends, SiemAnswers,
              SoarDone, SiemSends, Collect, Tick, doctorVars, raceVars
<1>5. checks' \in Seq(TrueChecks')
  <2>1. checks \in Seq(TrueChecks')
    BY <1>1, QueueWider DEF DoctorInv
  <2>2. ASSUME NEW name \in Checks, NEW v \in Verdicts, SendCheck(name, v),
               [name |-> name, verdict |-> v] \in TrueChecks'
        PROVE  checks' \in Seq(TrueChecks')
    BY <2>1, <2>2 DEF SendCheck
  <2>3. CASE SoarDone
    <3>1. PICK v \in Verdicts : v = (IF race = "ok" THEN "ok" ELSE "failed") /\ SendCheck("soar", v)
      BY <2>3 DEF SoarDone, Verdicts
    <3>2. soarPc' = "done" /\ race # "running" /\ race' = race
      BY <2>3 DEF SoarDone, raceVars
    <3>3. [name |-> "soar", verdict |-> v] \in TrueChecks'
      BY <3>1, <3>2 DEF TrueChecks, Checks
    <3> QED BY <2>2, <3>1, <3>3 DEF Checks
  <2>4. CASE SiemSends
    <3>0. authCheck' = authCheck /\ siemCheck' = siemCheck
      BY <2>4 DEF SiemSends
    <3>1. CASE siemPc = "authSend" /\ SendCheck("auth", authCheck) /\ siemPc' = "siem"
      <4>1. authCheck \in Verdicts
        BY <3>1 DEF DoctorInv, DoctorTypeOK, Verdicts
      <4>2. [name |-> "auth", verdict |-> authCheck] \in TrueChecks'
        BY <3>0, <3>1, <4>1 DEF TrueChecks, Checks
      <4> QED BY <2>2, <3>1, <4>1, <4>2 DEF Checks
    <3>2. CASE siemPc = "siemSend" /\ SendCheck("siem", siemCheck) /\ siemPc' = "done"
      <4>1. siemCheck \in Verdicts
        BY <3>2 DEF DoctorInv, DoctorTypeOK, Verdicts
      <4>2. [name |-> "siem", verdict |-> siemCheck] \in TrueChecks'
        BY <3>0, <3>2, <4>1 DEF TrueChecks, Checks
      <4> QED BY <2>2, <3>2, <4>1, <4>2 DEF Checks
    <3> QED BY <2>4, <3>1, <3>2 DEF SiemSends
  <2>5. CASE Collect
    BY <2>1, <2>5, QueueParts DEF Collect
  <2>6. CASE checks' = checks
    BY <2>1, <2>6
  <2> QED BY <2>3, <2>4, <2>5, <2>6
          DEF DoctorNext, RaceStep, DoctorStep, RaceTimer, RaceExpires, RaceReceives, LaneAnswers,
              LaneSends, SiemAnswers, Tick, doctorVars, raceVars
<1>6. \A c \in Checks : got'[c] # "none" => [name |-> c, verdict |-> got'[c]] \in TrueChecks'
  <2>1. \A c \in Checks : got[c] # "none" => [name |-> c, verdict |-> got[c]] \in TrueChecks'
    BY <1>1 DEF DoctorInv
  <2>2. CASE Collect
    <3>1. PICK k \in TrueChecks' : k = Head(checks)
      BY <1>1, <2>2, QueueParts DEF Collect, DoctorInv
    <3>2. got' = [got EXCEPT ![k.name] = k.verdict]
      BY <2>2, <3>1 DEF Collect
    <3>3. k.name \in Checks /\ k = [name |-> k.name, verdict |-> k.verdict]
      BY <3>1 DEF TrueChecks
    <3>4. \A c \in Checks : got'[c] = IF c = k.name THEN k.verdict ELSE got[c]
      BY <1>0, <3>2, <3>3
    <3> QED BY <2>1, <3>1, <3>3, <3>4
  <2>3. CASE got' = got
    BY <2>1, <2>3
  <2> QED BY <2>2, <2>3
          DEF DoctorNext, RaceStep, DoctorStep, RaceTimer, RaceExpires, RaceReceives, LaneAnswers,
              LaneSends, SiemAnswers, SoarDone, SiemSends, Tick, doctorVars, raceVars
<1>7. /\ siemPc' # "auth" => authCheck' # "none"
      /\ siemPc' \in {"siemSend", "done"} => siemCheck' # "none"
      /\ siemCheck' = "skipped" => authCheck' # "ok" /\ siemPc' \in {"siemSend", "done"}
  BY DEF DoctorInv, DoctorNext, RaceStep, DoctorStep, LaneAnswers, LaneSends, RaceTimer, RaceExpires,
         RaceReceives, SiemAnswers, SoarDone, SiemSends, Collect, Tick, doctorVars, raceVars, siemVars
<1>8. doctorPc' = "done" => \A c \in Checks : got'[c] # "none"
  BY DEF DoctorInv, DoctorNext, RaceStep, DoctorStep, LaneAnswers, LaneSends, RaceTimer, RaceExpires,
         RaceReceives, SiemAnswers, SoarDone, SiemSends, Collect, Tick, doctorVars, raceVars, siemVars
<1> QED BY <1>2, <1>3, <1>4, <1>5, <1>6, <1>7, <1>8 DEF DoctorInv

LEMMA DoctorTruth == DoctorTypeOK /\ DoctorInv => VerdictTruth
<1> SUFFICES ASSUME DoctorTypeOK, DoctorInv PROVE VerdictTruth
  OBVIOUS
<1>1. race = "error" /\ ~Expired => answered = {} /\ \A l \in Lanes : lanes[l] = "sent"
  BY DEF DoctorInv, DoctorTypeOK
<1>2. ASSUME doctorPc = "done"
      PROVE  AllOK <=> race = "ok" /\ authCheck = "ok" /\ siemCheck = "ok"
  <2>1. \A c \in Checks : [name |-> c, verdict |-> got[c]] \in TrueChecks
    BY <1>2 DEF DoctorInv
  <2>2. got["auth"] = authCheck /\ got["siem"] = siemCheck
        /\ got["soar"] = IF race = "ok" THEN "ok" ELSE "failed"
    BY <2>1 DEF TrueChecks, Checks
  <2>3. authCheck \in {"none", "ok", "failed"} /\ (siemCheck = "skipped" => authCheck # "ok")
    BY DEF DoctorTypeOK, DoctorInv
  <2>4. AllOK <=> got["auth"] \in {"ok", "skipped"} /\ got["siem"] \in {"ok", "skipped"}
                  /\ got["soar"] \in {"ok", "skipped"}
    BY DEF AllOK, Checks
  <2> QED BY <2>2, <2>3, <2>4
<1> QED BY <1>1, <1>2 DEF VerdictTruth, DoctorInv

LEMMA DoctorStart == DoctorInit => DoctorTypeOK /\ DoctorInv
<1> SUFFICES ASSUME DoctorInit PROVE DoctorTypeOK /\ DoctorInv
  OBVIOUS
<1>1. Budget \in Nat /\ Hedge \in Nat /\ now \in 0 .. Budget
  BY DoctorAssumption DEF DoctorInit
<1>2. HedgeDelay(Budget - now) \in Nat
  <2>1. \A n \in Nat : n \div 2 \in Nat
    OBVIOUS
  <2>2. Budget - now \in Nat
    BY <1>1
  <2> QED BY <1>1, <2>1, <2>2 DEF HedgeDelay
<1>3. timer \in Nat
  BY <1>1, <1>2 DEF DoctorInit, Never
<1>4. DoctorTypeOK
  BY <1>1, <1>3 DEF DoctorInit, DoctorTypeOK, Lanes, Checks, Verdicts
<1>5. DoctorInv
  BY DEF DoctorInit, DoctorInv, Lanes, Checks
<1> QED BY <1>4, <1>5

LEMMA DoctorInvariant == DoctorSpec => [](DoctorTypeOK /\ DoctorInv)
<1>1. DoctorTypeOK /\ DoctorInv /\ [DoctorNext]_doctorVars => (DoctorTypeOK /\ DoctorInv)'
  BY DoctorTypeStep, DoctorInvStep
<1> QED BY <1>1, DoctorStart, PTL DEF DoctorSpec

\* Every variable of a health check has its type.
THEOREM DoctorTypeCorrect == DoctorSpec => []DoctorTypeOK
BY DoctorInvariant, PTL

\* The race returns what the probes answered, an error in time only after both have failed,
\* and the command passes only if both planes did (runHedgedDoctorProbe, healthChecks).
THEOREM DoctorTellsTheTruth == DoctorSpec => []VerdictTruth
BY DoctorInvariant, DoctorTruth, PTL

-----------------------------------------------------------------------------
(* Wide searches *)

\* How far the chunks fetched so far reach, and what it means that they are all there.
Reach == IF from + chunk * Span > to THEN to ELSE from + chunk * Span

Covered ==
  \A e \in Events :
    Sent(from) <= at[e] /\ at[e] < Sent(Reach) => \E k \in 0 .. chunk - 1 : <<e, k>> \in found

\* A search that is not told short has what its chunks hold, and the first chunk in which
\* an event was found is there to be kept.
SearchInv ==
  searchPc = "fetch" =>
    /\ IsFiniteSet(found) /\ found \subseteq Events \X (0 .. chunk - 1)
    /\ ~complete /\ ~truncated => Covered
    /\ complete => /\ Cardinality(found) <= total
                   /\ Cardinality(found) = total => Covered
                   /\ truncated = FALSE
    /\ \A p \in found : \E q \in found :
         q[1] = p[1] /\ \A r \in found : r[1] = p[1] => q[2] <= r[2]
    /\ chunk <= 1 \/ Chunked

SearchIInv == WindowsTypeOK /\ SearchInv /\ NeverSilentlyShort

LEMMA MatchesFinite ==
  ASSUME NEW w
  PROVE  /\ IsFiniteSet(Matches(w)) /\ Cardinality(Matches(w)) \in Nat
         /\ \A s \in SUBSET Matches(w) :
              /\ IsFiniteSet(s) /\ Cardinality(s) \in Nat /\ Cardinality(s) <= Cardinality(Matches(w))
              /\ Cardinality(s) = Cardinality(Matches(w)) => s = Matches(w)
<1>1. IsFiniteSet(Matches(w))
  BY FS_Subset, WindowsAssumption DEF Matches
<1> QED BY <1>1, FS_Subset, FS_CardinalityType

\* The events of a chunk, each with its chunk.
LEMMA Tagged ==
  ASSUME NEW s, IsFiniteSet(s), NEW k
  PROVE  IsFiniteSet(s \X {k}) /\ Cardinality(s \X {k}) = Cardinality(s)
<1> DEFINE f == [e \in s |-> <<e, k>>]
<1>1. f \in Bijection(s, s \X {k})
  <2>1. f \in [s -> s \X {k}] /\ \A e \in s : f[e] = <<e, k>>
    OBVIOUS
  <2>2. \A e, d \in s : f[e] = f[d] => e = d
    BY <2>1
  <2>3. \A t \in s \X {k} : \E e \in s : f[e] = t
    BY <2>1
  <2> HIDE DEF f
  <2> QED BY <2>1, <2>2, <2>3 DEF Bijection, Injection, Surjection, IsInjective
<1> QED BY <1>1, FS_Bijection DEF ExistsBijection

LEMMA FoundGrows ==
  ASSUME WindowsTypeOK, SearchInv, searchPc = "fetch", NEW s \in SUBSET Matches(Chunk(chunk))
  PROVE  /\ IsFiniteSet(found \cup (s \X {chunk}))
         /\ Cardinality(found \cup (s \X {chunk})) = Cardinality(found) + Cardinality(s)
         /\ Cardinality(found) \in Nat /\ Cardinality(s) \in Nat
<1>1. IsFiniteSet(s) /\ IsFiniteSet(found) /\ Cardinality(found) \in Nat /\ Cardinality(s) \in Nat
  BY MatchesFinite, FS_CardinalityType DEF SearchInv
<1>2. IsFiniteSet(s \X {chunk}) /\ Cardinality(s \X {chunk}) = Cardinality(s)
  BY <1>1, Tagged
<1>3. found \cap (s \X {chunk}) = {}
  BY DEF SearchInv, WindowsTypeOK
<1>4. Cardinality(found \cap (s \X {chunk})) = 0
  BY <1>3, FS_EmptySet
<1> DEFINE added == s \X {chunk}
<1>5. IsFiniteSet(added) /\ Cardinality(added) = Cardinality(s) /\ Cardinality(found \cap added) = 0
  BY <1>2, <1>4
<1> HIDE DEF added
<1>6. /\ IsFiniteSet(found \cup added)
      /\ Cardinality(found \cup added) = Cardinality(found) + Cardinality(added) - Cardinality(found \cap added)
  BY <1>1, <1>5, FS_Union
<1>7. Cardinality(found \cup added) = Cardinality(found) + Cardinality(s)
  BY <1>1, <1>5, <1>6
<1> QED BY <1>1, <1>6, <1>7 DEF added

\* What one chunk adds.
LEMMA ChunkFetched ==
  ASSUME WindowsTypeOK, SearchInv, searchPc = "fetch", IsChunk(chunk),
         NEW s \in SUBSET Matches(Chunk(chunk)),
         found' = found \cup (s \X {chunk}), chunk' = chunk + 1, UNCHANGED <<windowArgs, searchPc>>
  PROVE  /\ IsFiniteSet(found') /\ found' \subseteq Events \X (0 .. chunk' - 1)
         /\ Covered /\ s = Matches(Chunk(chunk)) => Covered'
         /\ \A p \in found' : \E q \in found' :
              q[1] = p[1] /\ \A r \in found' : r[1] = p[1] => q[2] <= r[2]
         /\ chunk' <= 1 \/ Chunked'
<1>0. /\ chunk \in Nat /\ from \in Nat /\ to \in Nat /\ Span \in Nat /\ at \in [Events -> Nat]
      /\ chunk * Span \in Nat /\ (chunk + 1) * Span \in Nat
      /\ UNCHANGED <<at, from, to, inclusive>>
  BY WindowsAssumption DEF WindowsTypeOK, windowArgs
<1>1. /\ found \subseteq Events \X (0 .. chunk - 1)
      /\ \A p \in found : \E q \in found :
           q[1] = p[1] /\ \A r \in found : r[1] = p[1] => q[2] <= r[2]
      /\ chunk <= 1 \/ Chunked
  BY DEF SearchInv
<1>2. s \subseteq Events
  BY DEF Matches
<1>3. found' \subseteq Events \X (0 .. chunk' - 1)
  <2>1. 0 .. chunk - 1 \subseteq 0 .. chunk' - 1 /\ chunk \in 0 .. chunk' - 1
    BY <1>0
  <2> QED BY <1>1, <1>2, <2>1
<1>4. ASSUME Covered, s = Matches(Chunk(chunk)) PROVE Covered'
  <2>1. Reach' = Chunk(chunk).end /\ Reach = Chunk(chunk).start
    BY <1>0 DEF Reach, Chunk, IsChunk
  <2>2. 0 .. chunk - 1 \subseteq 0 .. chunk' - 1 /\ chunk \in 0 .. chunk' - 1
    BY <1>0
  <2> SUFFICES ASSUME NEW e \in Events, Sent(from) <= at[e], at[e] < Sent(Reach')
               PROVE  \E k \in 0 .. chunk' - 1 : <<e, k>> \in found'
    BY <1>0 DEF Covered, Sent
  <2>3. CASE at[e] < Sent(Reach)
    BY <1>4, <2>2, <2>3 DEF Covered
  <2>4. CASE ~(at[e] < Sent(Reach))
    <3>1. \A t \in Nat : Sent(t) \in Int
      BY WindowsAssumption DEF Sent
    <3>2. Reach \in Nat /\ at[e] \in Nat
      BY <1>0 DEF Reach
    <3>3. Sent(Chunk(chunk).start) <= at[e]
      BY <2>1, <2>4, <3>1, <3>2
    <3>4. e \in s
      BY <1>4, <2>1, <3>3 DEF Matches
    <3> QED BY <2>2, <3>4
  <2> QED BY <2>3, <2>4
<1>5. ASSUME NEW p \in found'
      PROVE  \E q \in found' : q[1] = p[1] /\ \A r \in found' : r[1] = p[1] => q[2] <= r[2]
  <2>1. CASE \E q \in found : q[1] = p[1]
    <3>1. PICK q \in found : q[1] = p[1] /\ \A r \in found : r[1] = p[1] => q[2] <= r[2]
      BY <1>1, <2>1
    <3>2. q[2] <= chunk
      BY <1>0, <1>1
    <3> QED BY <3>1, <3>2
  <2>2. CASE ~ \E q \in found : q[1] = p[1]
    <3>1. \A r \in found' : r[1] = p[1] => r[2] = chunk
      BY <2>2
    <3>2. p[2] <= chunk /\ p[2] = chunk
      BY <1>0, <3>1
    <3> QED BY <1>0, <3>1, <3>2
  <2> QED BY <2>1, <2>2
<1>6. chunk' <= 1 \/ Chunked'
  <2>1. CASE chunk = 0
    BY <2>1
  <2>2. CASE chunk = 1
    <3>1. Chunked
      BY <2>2 DEF Chunked
    <3> QED BY <1>0, <3>1 DEF Chunked, IsChunk, Chunk
  <2>3. CASE chunk > 1
    <3>1. Chunked
      BY <1>0, <1>1, <2>3
    <3> QED BY <1>0, <3>1 DEF Chunked, IsChunk, Chunk
  <2> QED BY <1>0, <2>1, <2>2, <2>3
<1>7. IsFiniteSet(found')
  BY FoundGrows
<1> QED BY <1>3, <1>4, <1>5, <1>6, <1>7

LEMMA DedupedParts ==
  ASSUME WindowsTypeOK, SearchInv, searchPc = "fetch"
  PROVE  /\ Deduped(found) \subseteq found
         /\ \A p \in found : \E q \in Deduped(found) : q[1] = p[1]
         /\ \A p, q \in Deduped(found) : p[1] = q[1] /\ p[1] \notin Unnamed => p = q
         /\ IsFiniteSet(found) /\ Cardinality(found) \in Nat
         /\ Cardinality(Deduped(found)) \in Nat /\ Cardinality(Deduped(found)) <= Cardinality(found)
<1>1. Deduped(found) \subseteq found
  BY DEF Deduped
<1>2. found \subseteq Events \X (0 .. chunk - 1) /\ chunk \in Nat /\ IsFiniteSet(found)
      /\ \A p \in found : p = <<p[1], p[2]>> /\ p[2] \in 0 .. chunk - 1
  BY DEF SearchInv, WindowsTypeOK
<1>3. \A p \in found : \E q \in Deduped(found) : q[1] = p[1]
  BY DEF SearchInv, Deduped
<1>4. ASSUME NEW p \in Deduped(found), NEW q \in Deduped(found), p[1] = q[1], p[1] \notin Unnamed
      PROVE  p = q
  <2>1. CASE Chunked
    <3>1. p[2] <= q[2] /\ q[2] <= p[2]
      BY <1>1, <1>4, <2>1 DEF Deduped
    <3> QED BY <1>1, <1>2, <1>4, <3>1
  <2>2. CASE ~Chunked
    <3>1. chunk <= 1
      BY <2>2 DEF SearchInv
    <3>2. p[2] = 0 /\ q[2] = 0
      BY <1>1, <1>2, <3>1
    <3> QED BY <1>1, <1>2, <1>4, <3>2
  <2> QED BY <2>1, <2>2
<1>5. /\ Cardinality(found) \in Nat
      /\ Cardinality(Deduped(found)) \in Nat /\ Cardinality(Deduped(found)) <= Cardinality(found)
  BY <1>1, <1>2, FS_Subset, FS_CardinalityType
<1> QED BY <1>1, <1>2, <1>3, <1>4, <1>5

LEMMA SearchStep ==
  ASSUME SearchIInv, [WindowsNext]_windowVars
  PROVE  SearchIInv'
<1>0. WindowsTypeOK /\ SearchInv /\ NeverSilentlyShort
  BY DEF SearchIInv
<1>1. CASE FetchPage
  <2>1. PICK s \in SUBSET Matches(Chunk(chunk)) :
          /\ found' = found \cup (s \X {chunk})
          /\ truncated' = (truncated \/ s # Matches(Chunk(chunk)))
    BY <1>1 DEF FetchPage, Answers
  <2>2. /\ searchPc = "fetch" /\ searchPc' = "fetch" /\ ~complete /\ IsChunk(chunk)
        /\ chunk' = chunk + 1 /\ UNCHANGED <<windowArgs, total, searchPc>>
    BY <1>1 DEF FetchPage
  <2>3. /\ IsFiniteSet(found') /\ found' \subseteq Events \X (0 .. chunk' - 1)
        /\ Covered /\ s = Matches(Chunk(chunk)) => Covered'
        /\ \A p \in found' : \E q \in found' :
             q[1] = p[1] /\ \A r \in found' : r[1] = p[1] => q[2] <= r[2]
        /\ chunk' <= 1 \/ Chunked'
    BY <1>0, <2>1, <2>2, ChunkFetched
  <2>4. complete' = complete /\ (~truncated' => ~truncated /\ s = Matches(Chunk(chunk)))
        /\ truncated' \in BOOLEAN
    BY <2>1, <2>2, Zenon DEF windowArgs
  <2>5. SearchInv'
    BY <1>0, <2>2, <2>3, <2>4 DEF SearchInv
  <2>6. WindowsTypeOK'
    <3>1. chunk' \in Nat /\ total' \in Nat /\ found' \subseteq Events \X Nat
      BY <1>0, <2>2, <2>3 DEF WindowsTypeOK
    <3>2. complete' \in BOOLEAN /\ inclusive' \in BOOLEAN
      BY <1>0, <2>2, Zenon DEF WindowsTypeOK, windowArgs
    <3> QED BY <1>0, <2>2, <2>4, <3>1, <3>2 DEF WindowsTypeOK, windowArgs
  <2> QED BY <2>2, <2>5, <2>6 DEF SearchIInv, NeverSilentlyShort
<1>2. CASE FetchComplete
  <2>1. PICK s \in SUBSET Matches(Chunk(chunk)) : found' = found \cup (s \X {chunk})
    <3>1. CASE UNCHANGED found
      <4>1. found' = found \cup ({} \X {chunk})
        BY <3>1
      <4> QED BY <4>1
    <3> QED BY <1>2, <3>1 DEF FetchComplete, Answers
  <2>2. /\ searchPc = "fetch" /\ searchPc' = "fetch" /\ complete /\ IsChunk(chunk)
        /\ chunk' = chunk + 1 /\ UNCHANGED <<windowArgs, truncated, searchPc>>
        /\ total' = total + Cardinality(Matches(Chunk(chunk))) /\ total \in Nat
    BY <1>0, <1>2 DEF FetchComplete, WindowsTypeOK
  <2>3. /\ IsFiniteSet(found') /\ found' \subseteq Events \X (0 .. chunk' - 1)
        /\ Covered /\ s = Matches(Chunk(chunk)) => Covered'
        /\ \A p \in found' : \E q \in found' :
             q[1] = p[1] /\ \A r \in found' : r[1] = p[1] => q[2] <= r[2]
        /\ chunk' <= 1 \/ Chunked'
    BY <1>0, <2>1, <2>2, ChunkFetched
  <2>4. /\ Cardinality(found') = Cardinality(found) + Cardinality(s)
        /\ Cardinality(found) \in Nat /\ Cardinality(s) \in Nat
        /\ Cardinality(s) <= Cardinality(Matches(Chunk(chunk)))
        /\ Cardinality(Matches(Chunk(chunk))) \in Nat
        /\ Cardinality(s) = Cardinality(Matches(Chunk(chunk))) => s = Matches(Chunk(chunk))
    BY <1>0, <2>1, <2>2, FoundGrows, MatchesFinite
  <2>5. Cardinality(found) <= total /\ (Cardinality(found) = total => Covered) /\ truncated = FALSE
    BY <1>0, <2>2 DEF SearchInv
  <2>6. Cardinality(found') <= total'
    BY <2>2, <2>4, <2>5
  <2>7. ASSUME Cardinality(found') = total' PROVE Covered'
    <3>1. Cardinality(found) = total /\ Cardinality(s) = Cardinality(Matches(Chunk(chunk)))
      BY <2>2, <2>4, <2>5, <2>7
    <3> QED BY <2>3, <2>4, <2>5, <3>1
  <2>8. complete' = complete /\ truncated' = FALSE
    BY <2>2, <2>5 DEF windowArgs
  <2>9. SearchInv'
    BY <2>2, <2>3, <2>6, <2>7, <2>8 DEF SearchInv
  <2>10. WindowsTypeOK'
    <3>1. chunk' \in Nat /\ total' \in Nat /\ found' \subseteq Events \X Nat
      BY <1>0, <2>2, <2>3, <2>4 DEF WindowsTypeOK
    <3>2. complete' \in BOOLEAN /\ inclusive' \in BOOLEAN /\ truncated' \in BOOLEAN
      BY <1>0, <2>2, Zenon DEF WindowsTypeOK, windowArgs
    <3> QED BY <1>0, <2>2, <3>1, <3>2 DEF WindowsTypeOK, windowArgs
  <2> QED BY <2>2, <2>9, <2>10 DEF SearchIInv, NeverSilentlyShort
<1>3. CASE StopAtLimit \/ SearchDone
  <2>1. /\ searchPc = "fetch" /\ searchPc' = "done" /\ found' = Deduped(found)
        /\ UNCHANGED <<windowArgs, chunk, total>>
        /\ truncated' = TRUE \/ (truncated' = truncated /\ ~IsChunk(chunk))
    BY <1>3 DEF StopAtLimit, SearchDone
  <2>2. /\ Deduped(found) \subseteq found
        /\ \A p \in found : \E q \in Deduped(found) : q[1] = p[1]
        /\ \A p, q \in Deduped(found) : p[1] = q[1] /\ p[1] \notin Unnamed => p = q
        /\ Cardinality(found) \in Nat
        /\ Cardinality(Deduped(found)) \in Nat /\ Cardinality(Deduped(found)) <= Cardinality(found)
    BY <1>0, <2>1, DedupedParts
  <2>3. /\ chunk \in Nat /\ from \in Nat /\ to \in Nat /\ Span \in Nat /\ chunk * Span \in Nat
        /\ total \in Nat /\ UNCHANGED <<at, from, to, complete>>
        /\ found \subseteq Events \X (0 .. chunk - 1)
    BY <1>0, <2>1, WindowsAssumption DEF WindowsTypeOK, windowArgs, SearchInv
  <2>4. ASSUME ~Told', NEW e \in Events, Sent(from) <= at[e], at[e] < Sent(to)
        PROVE  \E k \in 0 .. chunk : <<e, k>> \in found'
    <3>1. ~truncated' /\ ~(complete /\ total > Cardinality(found'))
      BY <2>1, <2>3, <2>4 DEF Told
    <3>2. ~truncated /\ ~IsChunk(chunk)
      BY <2>1, <3>1
    <3>3. Covered
      <4>1. CASE complete
        <5>1. Cardinality(found) = total
          BY <1>0, <2>1, <2>2, <2>3, <3>1, <4>1 DEF SearchInv
        <5> QED BY <1>0, <2>1, <4>1, <5>1 DEF SearchInv
      <4>2. CASE ~complete
        BY <1>0, <2>1, <3>2, <4>2 DEF SearchInv
      <4> QED BY <4>1, <4>2
    <3>4. Reach = to
      BY <2>3, <3>2 DEF Reach, IsChunk, Chunk
    <3>5. PICK k \in 0 .. chunk - 1 : <<e, k>> \in found
      BY <2>4, <3>3, <3>4 DEF Covered
    <3>6. PICK q \in Deduped(found) : q[1] = e
      <4>1. <<e, k>>[1] = e
        OBVIOUS
      <4> QED BY <2>2, <3>5, <4>1
    <3>7. q = <<e, q[2]>> /\ q[2] \in 0 .. chunk
      BY <2>2, <2>3, <3>6
    <3> QED BY <2>1, <3>6, <3>7
  <2>5. NeverSilentlyShort'
    <3>1. /\ \A e \in Events : Sent(from)' = Sent(from) /\ Sent(to)' = Sent(to) /\ at'[e] = at[e]
          /\ chunk' = chunk
      BY <2>1, <2>3 DEF Sent
    <3> QED BY <2>1, <2>2, <2>3, <2>4, <3>1 DEF NeverSilentlyShort, Sent
  <2>6. WindowsTypeOK'
    <3>1. found' \subseteq Events \X Nat
      BY <1>0, <2>1, <2>2 DEF WindowsTypeOK
    <3>2. complete' \in BOOLEAN /\ inclusive' \in BOOLEAN /\ truncated' \in BOOLEAN
      BY <1>0, <2>1, Zenon DEF WindowsTypeOK, windowArgs
    <3> QED BY <1>0, <2>1, <3>1, <3>2 DEF WindowsTypeOK, windowArgs
  <2> QED BY <2>1, <2>5, <2>6 DEF SearchIInv, SearchInv
<1>4. CASE SearchFails
  <2>1. complete' \in BOOLEAN /\ inclusive' \in BOOLEAN /\ truncated' \in BOOLEAN
    BY <1>0, <1>4, Zenon DEF WindowsTypeOK, windowArgs, SearchFails
  <2> QED BY <1>0, <1>4, <2>1 DEF SearchIInv, SearchInv, NeverSilentlyShort, WindowsTypeOK, windowArgs, SearchFails
<1>5. CASE UNCHANGED windowVars
  <2>1. complete' \in BOOLEAN /\ inclusive' \in BOOLEAN /\ truncated' \in BOOLEAN
    BY <1>0, <1>5, Zenon DEF WindowsTypeOK, windowVars
  <2>2. WindowsTypeOK'
    BY <1>0, <1>5, <2>1 DEF WindowsTypeOK, windowVars
  <2>3. SearchInv'
    BY <1>0, <1>5 DEF SearchInv, windowVars, Covered, Reach, Chunked, IsChunk, Chunk, Sent
  <2>4. NeverSilentlyShort'
    BY <1>0, <1>5 DEF NeverSilentlyShort, Told, windowVars, Sent
  <2> QED BY <2>2, <2>3, <2>4 DEF SearchIInv
<1> QED BY <1>1, <1>2, <1>3, <1>4, <1>5 DEF WindowsNext

LEMMA SearchStart == WindowsInit => SearchIInv
<1> SUFFICES ASSUME WindowsInit PROVE SearchIInv
  OBVIOUS
<1>1. WindowsTypeOK
  <2>1. complete \in BOOLEAN /\ inclusive \in BOOLEAN /\ truncated \in BOOLEAN
    BY Zenon DEF WindowsInit
  <2> QED BY <2>1 DEF WindowsInit, WindowsTypeOK
<1>2. Covered
  <2>1. from \in Nat /\ to \in Nat /\ from < to /\ chunk = 0 /\ chunk * Span = 0 /\ Second \in Nat \ {0}
    BY WindowsAssumption DEF WindowsInit
  <2>2. Reach = from
    BY <2>1 DEF Reach
  <2>3. Sent(from) \in Int /\ \A e \in Events : at[e] \in Nat
    BY <2>1, WindowsAssumption DEF Sent, WindowsInit
  <2> QED BY <2>2, <2>3 DEF Covered
<1>3. SearchInv
  BY <1>2, FS_EmptySet DEF WindowsInit, SearchInv
<1> QED BY <1>1, <1>3 DEF WindowsInit, SearchIInv, NeverSilentlyShort

LEMMA SearchInvariant == WindowsSpec => []SearchIInv
BY SearchStart, SearchStep, PTL DEF WindowsSpec

\* Every variable of a wide search has its type.
THEOREM SearchTypeCorrect == WindowsSpec => []WindowsTypeOK
<1>1. SearchIInv => WindowsTypeOK
  BY DEF SearchIInv
<1> QED BY <1>1, SearchInvariant, PTL

\* Unless the operator is told, every event of the window is in the answer, and none with an
\* id is in it twice (fetchEventsPaged, fetchEventsComplete and dedupeEventsByID).
THEOREM SearchNeverSilentlyShort == WindowsSpec => []NeverSilentlyShort
<1>1. SearchIInv => NeverSilentlyShort
  BY DEF SearchIInv
<1> QED BY <1>1, SearchInvariant, PTL
=============================================================================
