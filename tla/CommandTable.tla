----------------------------- MODULE CommandTable -----------------------------
(***************************************************************************)
(* The programs of the commands that change something (GuardedCommand),    *)
(* one definition for each command. Reads whose failure is passed over and *)
(* how the body of a call is put together are left out; what is printed    *)
(* only matters where a failure of it is one of the command's way, in what *)
(* preferModern runs; a loop over objects is unrolled twice.               *)
(***************************************************************************)
EXTENDS GuardedCommand

LOCAL S(op) == [op |-> op, fails |-> "stop"]
Read == S("read")
Check == S("check")
Ask == S("guard")
AskAI == S("aiGuard")
Send == S("send")
Rewrite == S("rewrite")
Tagged == S("tagged")
LeftOut == S("forget")
Output == S("print")

OnFail(step, way) == [step EXCEPT !.fails = way]
Each(steps) == steps \o steps

One(steps) == [lead |-> steps, routes |-> <<>>, skips |-> FALSE]

\* preferModern: any failure of the modern steps, that of the output included, goes on with
\* the legacy ones.
PreferModern(lead, modern, old) ==
  [lead |-> lead, skips |-> TRUE,
   routes |-> <<[i \in DOMAIN modern |-> OnFail(modern[i], "fall")], old>>]

\* guardedMutation, caseAction: a guard and a call.
Guarded == One(<<Ask, Send>>)
ReadThenGuarded == One(<<Read, Ask, Send>>)

-----------------------------------------------------------------------------
(* push *)

\* The engine goes on after an object that failed, and fails at its end.
Push == One(<<Ask, Read>> \o Each(<<OnFail(Send, "later")>>))
SoarPush == One(<<Ask, Read>> \o Each(<<OnFail(Send, "later")>>))

\* What the surfaces do for one object of the plan, after the listing.
PushOne(steps) == One(<<Ask, Read>> \o steps)

\* What was made or changed is read back; if that fails the object counts as failed.
ErrorNotificationsCreate == PushOne(<<Send, Read>>)
ErrorNotificationsUpdate == PushOne(<<Send, Read>>)
FederationGroupsCreate == PushOne(<<Send>>)
FederationGroupsUpdate == PushOne(<<Send>>)
\* The file is laid over the body that was listed, which is sent back whole. What fetches the
\* secrets a file only refers to is left out.
FeedsCreate == PushOne(<<Send, Read>>)
FeedsUpdate == PushOne(<<Rewrite, Read>>)
ForwardersCreate == PushOne(<<Send, Read>>)
ForwardersUpdate == PushOne(<<Rewrite, Read>>)
MetricDefinitionsCreate == PushOne(<<Send>>)
\* Only the state of a metric may change.
MetricDefinitionsUpdate == PushOne(<<Read, Send>>)
ReferenceListsCreate == PushOne(<<Send>>)
\* The syntax of the list is read, which its entries must have.
ReferenceListsUpdate == PushOne(<<Read, Send>>)
\* The exclusion and its deployment.
RuleExclusionsCreate == PushOne(<<Send, Send>>)
RuleExclusionsUpdate == PushOne(<<Send, Send>>)
ScheduledReportsCreate == PushOne(<<Send, Read>>)
\* With the etag of the listing or, if it has none, of the report as it is now; if this
\* cannot be read either, without.
ScheduledReportsUpdate == PushOne(<<Tagged, Read>>)
ScheduledReportsUpdateUntagged == PushOne(<<Send, Read>>)
ScheduledReportsDelete == PushOne(<<Tagged>>)
GroupingCreate == PushOne(<<Send>>)
GroupingUpdate == PushOne(<<Send>>)
\* Not of the fallback rule.
GroupingDelete == PushOne(<<Read, Send>>)
\* The connector is read again, and saved whole with another list.
ConnectorAllowlistUpdate == PushOne(<<Read, Rewrite, Read>>)
PlaybooksCreate == PushOne(<<Send, Read>>)
\* The file is saved whole: an edit that the listing showed is in the plan, a later one is
\* overwritten.
PlaybooksUpdate == PushOne(<<Rewrite, Read>>)

-----------------------------------------------------------------------------
(* SIEM *)

AlertsUpdate == ReadThenGuarded
Cleanup == One(<<Read, Ask>> \o Each(<<Send>>))
CuratedSet == Guarded
DashboardsEdit == Guarded
DashboardsCreate == Guarded
DashboardsDuplicate == Guarded
\* --deep-copy: the copy is deleted when a chart cannot be read or added, and read at last.
DashboardsDeepCopy ==
  One(<<Ask, Read, Send>>
      \o <<OnFail(Read, "undoAll")>> \o Each(<<OnFail(Read, "undoAll"), OnFail(Send, "undoAll")>>)
      \o <<Read>>)
ButtonAdd == Guarded
\* Buttons and markdown cannot be edited: the tile is removed and another one added.
ButtonEdit == One(<<Ask, Read, Read, Send, OnFail(Send, "undo")>>)
ButtonRemove == Guarded
MarkdownAdd == Guarded
MarkdownEdit == One(<<Ask, Read, Read, Send, OnFail(Send, "undo")>>)
MarkdownRemove == Guarded
\* The chart is bound to the dashboard's filters after it was added.
ChartsAdd == One(<<Ask, Check, Send, OnFail(Read, "tell"), OnFail(Rewrite, "tell")>>)
\* The query and the chart, its place, its filters; with --json and no --layout the command
\* returns before the filters.
ChartsEdit == One(<<Ask, Read, Read, Tagged, Read, Rewrite, Read, Rewrite>>)
ChartsEditJson == One(<<Ask, Read, Read, Tagged, LeftOut>>)
ChartsRemove == Guarded
FiltersSet == One(<<Ask, Read, Rewrite>>)
DashboardsDelete == Guarded
LayoutMove == One(<<Ask, Read, Rewrite>>)
DashboardsImport == Guarded
\* A fix that fails is told, and the command ends well.
DashboardsFix == One(<<Ask, Read>> \o Each(<<OnFail(Read, "tell"), OnFail(Tagged, "tell")>>))
DataAccessCreate == Guarded
DataAccessDelete == Guarded
DataTablesImport == One(<<Ask, Read>> \o Each(<<Send>>))
FeedsDelete == ReadThenGuarded
LogTypesCreate == Guarded
ParsersActivate == ReadThenGuarded
ParsersDeactivate == ReadThenGuarded
ParsersDelete == ReadThenGuarded
ParsersUpgrade == One(<<Check, Ask, Send>>)
ParsersRollback == One(<<Check, Ask, Send>>)
ExtensionCreate == Guarded
\* Deleted, created, validated, activated.
ExtensionUpdate == One(<<Read, Ask, Send, Send, Read, Send>>)
ExtensionActivate == Guarded
ExtensionDelete == Guarded
ExtractorsSet == One(<<Read, Read, Ask, Send>>)
ExtractionSetting == Guarded
PipelineDelete == Guarded
SavedQuerySave == Guarded
SavedQueryShare == Guarded
SavedQueryDelete == Guarded
ReferenceListEmpty == ReadThenGuarded
RuleExclusionDeploy == One(<<Read, Read, Ask, Send>>)
RetrohuntCreate == One(<<Read, Ask, Send, Read>>)
RulesDuplicate == One(<<Read, Read, Read, Ask, Send>>)
\* A deployment that fails is told: the rule is there.
RulesPromote == One(<<Ask, Read, Send, OnFail(Send, "tell")>>)
RulesVersionsRestore == One(<<Read, Read, Read, Read, Ask, Tagged>>)
WatchlistCreate == Guarded
WatchlistDelete == Guarded
WatchlistRemoveEntity == Guarded
WatchlistAddEntity == Guarded
\* An investigation is started without --yes.
AlertsInvestigate == One(<<AskAI, Read, Send, Read>>)

-----------------------------------------------------------------------------
(* SOAR: cases *)

CasePriority == Guarded
CaseReopen == Guarded
CaseAssign == Guarded
CaseRename == Guarded
CaseStage == Guarded
CaseTag == Guarded
CaseDescribe == Guarded
CaseImportance == Guarded
CaseClose == Guarded
CaseMerge == Guarded
CaseIncident == Guarded
CaseAlertClose == Guarded
CaseAlertPriority == One(<<Ask, Read, Send>>)
CaseAlertMove == Guarded
CaseAlertReopen == Guarded
CaseCommentAdd == Guarded
CaseEvidenceAdd == Guarded
CaseTaskAdd == Guarded
CaseTaskDone == Guarded
CaseTaskDelete == Guarded
CaseContextSet == Guarded
CaseBulkClose == ReadThenGuarded
NotificationsClose == Guarded
\* --legacy picks the generation; there is no fallback.
CaseRunAction ==
  [lead |-> <<Ask, Read>>, routes |-> <<<<Send>>, <<Send>>>>, skips |-> TRUE]
\* AI commands ask for no --yes.
CaseSummarize == One(<<Check, AskAI, Send, Read>>)
CaseRecommend == One(<<Check, AskAI, Send, Read>>)
CaseChatSend == PreferModern(<<Ask>>, <<Send>>, <<Send>>)
SimulationImport == Guarded
SimulationCreate == PreferModern(<<Ask>>, <<Send>>, <<Send>>)
\* The answer is written out as it is (writeRawJSON), within either generation.
SimulationGenerate == PreferModern(<<Ask>>, <<Send, Output>>, <<Send, Output>>)
SimulationAlert == PreferModern(<<Ask>>, <<Send>>, <<Send>>)
SimulationDelete == PreferModern(<<Ask>>, <<Send>>, <<Send>>)

-----------------------------------------------------------------------------
(* SOAR: integrations, jobs and settings *)

ConnectorRun == Guarded
GroupingPush == Guarded
GroupingSettingsSet == One(<<Check, Ask, Send>>)
IntegrationCreate == Guarded
\* The integration is looked up before and after the guard.
IntegrationDelete == One(<<Read, Ask, Read, Send>>)
AuthoringUpdate == Guarded
AuthoringCreate == ReadThenGuarded
AuthoringDelete == Guarded
\* The settings read before the guard are sent back whole.
IntegrationConfigure == One(<<Read, Read, Ask, Rewrite>>)
ConnectorDefDelete == ReadThenGuarded
\* An integration, then its actions and jobs; what was made stays if one fails.
IntegrationImport == One(<<Ask, Send>> \o Each(<<Read, Send>>))
IntegrationInstall == Guarded
IntegrationUninstall == ReadThenGuarded
IntegrationRename == ReadThenGuarded
JobRun == ReadThenGuarded
JobCreateFromFile == Guarded
JobCreateFromFlags == One(<<Read, Read, Ask, Send>>)
\* Each generation has a guard and, with --json, an output of its own; the legacy one sends
\* the instance back whole.
JobInstanceSet == PreferModern(<<>>, <<Read, Ask, Send, Output>>, <<Read, Ask, Rewrite, Output>>)
JobInstanceDelete ==
  PreferModern(<<>>, <<Read, Ask, Send, Output>>, <<Read, Ask, Send, Output>>)
JobInstanceRun ==
  PreferModern(<<>>, <<Read, Ask, Send, Output>>, <<Read, Ask, Send, Output>>)
JobRevisionCreate == ReadThenGuarded
JobRevisionRollback == Guarded
JobRevisionDelete == Guarded
MarketplaceToggle == Guarded
FeaturedInstall == Guarded
APIKeyCreate == Guarded
APIKeyRevoke == ReadThenGuarded
PasswordPolicySet == Guarded
\* A change by `soar legacy call`: only an explicit --dry-run shows the request, otherwise
\* the guard is the same.
LegacyCall == Guarded

-----------------------------------------------------------------------------
(* SOAR: playbooks *)

PlaybookCategoryCreate == Guarded
PlaybookCategoryRename == ReadThenGuarded
PlaybookCategoryDelete == ReadThenGuarded
PlaybookMove == One(<<Read, Read, Ask, Send>>)
PlaybookGenerate == Guarded
\* The modern copy is renamed, or deleted again; the legacy one is moved into its folder,
\* which fails without a word; if the server cannot copy, the playbook is saved anew.
\* --legacy changes nothing.
PlaybookDuplicate ==
  [lead |-> <<Read, Read, Ask>>, skips |-> FALSE,
   routes |-> << <<OnFail(Send, "fall"), Read, OnFail(Read, "undoAll"), OnFail(Send, "undoAll")>>,
                 <<OnFail(Send, "mayFall"), OnFail(Send, "drop")>>,
                 <<Read, Read, Send>> >>]
PlaybookDelete == PreferModern(<<Read, Ask>>, <<Send>>, <<Send>>)
\* The definition read before the guard is saved whole.
PlaybookDeploy == PreferModern(<<Read, Check, Ask>>, <<Rewrite>>, <<Rewrite>>)
PlaybookRestore == Guarded
PlaybookImport == Guarded
PlaybookRun == Guarded
PlaybookDebug == Guarded
PlaybookRerun == Guarded
PlaybookRerunBlock == Guarded
PlaybookStepExecute == Guarded
PlaybookStepSkip == Guarded
\* A pulled file is saved whole, and what the server made of it is compared.
PlaybookSave == One(<<Ask, Rewrite, Read>>)

-----------------------------------------------------------------------------

CommandPrograms ==
  {ErrorNotificationsCreate, ErrorNotificationsUpdate, FederationGroupsCreate,
   FederationGroupsUpdate, FeedsCreate, FeedsUpdate, ForwardersCreate, ForwardersUpdate,
   MetricDefinitionsCreate, MetricDefinitionsUpdate, ReferenceListsCreate,
   ReferenceListsUpdate, RuleExclusionsCreate, RuleExclusionsUpdate, ScheduledReportsCreate,
   ScheduledReportsUpdate, ScheduledReportsUpdateUntagged, ScheduledReportsDelete,
   GroupingCreate, GroupingUpdate, GroupingDelete, ConnectorAllowlistUpdate, PlaybooksCreate,
   PlaybooksUpdate}
  \cup
  {Push, SoarPush, AlertsUpdate, Cleanup, CuratedSet, DashboardsEdit, DashboardsCreate,
   DashboardsDuplicate, DashboardsDeepCopy, ButtonAdd, ButtonEdit, ButtonRemove, MarkdownAdd,
   MarkdownEdit, MarkdownRemove, ChartsAdd, ChartsEdit, ChartsEditJson, ChartsRemove,
   FiltersSet, DashboardsDelete, LayoutMove, DashboardsImport, DashboardsFix,
   DataAccessCreate, DataAccessDelete, DataTablesImport, FeedsDelete, LogTypesCreate,
   ParsersActivate, ParsersDeactivate, ParsersDelete, ParsersUpgrade, ParsersRollback,
   ExtensionCreate, ExtensionUpdate, ExtensionActivate, ExtensionDelete, ExtractorsSet,
   ExtractionSetting, PipelineDelete, SavedQuerySave, SavedQueryShare, SavedQueryDelete,
   ReferenceListEmpty, RuleExclusionDeploy, RetrohuntCreate, RulesDuplicate, RulesPromote,
   RulesVersionsRestore, WatchlistCreate, WatchlistDelete, WatchlistRemoveEntity,
   WatchlistAddEntity, AlertsInvestigate}
  \cup
  {CasePriority, CaseReopen, CaseAssign, CaseRename, CaseStage, CaseTag, CaseDescribe,
   CaseImportance, CaseClose, CaseMerge, CaseIncident, CaseAlertClose, CaseAlertPriority,
   CaseAlertMove, CaseAlertReopen, CaseCommentAdd, CaseEvidenceAdd, CaseTaskAdd, CaseTaskDone,
   CaseTaskDelete, CaseContextSet, CaseBulkClose, NotificationsClose, CaseRunAction,
   CaseSummarize, CaseRecommend, CaseChatSend, SimulationImport, SimulationCreate,
   SimulationGenerate, SimulationAlert, SimulationDelete}
  \cup
  {ConnectorRun, GroupingPush, GroupingSettingsSet, IntegrationCreate, IntegrationDelete,
   AuthoringUpdate, AuthoringCreate, AuthoringDelete, IntegrationConfigure, ConnectorDefDelete,
   IntegrationImport, IntegrationInstall, IntegrationUninstall, IntegrationRename, JobRun,
   JobCreateFromFile, JobCreateFromFlags, JobInstanceSet, JobInstanceDelete, JobInstanceRun,
   JobRevisionCreate, JobRevisionRollback, JobRevisionDelete, MarketplaceToggle,
   FeaturedInstall, APIKeyCreate, APIKeyRevoke, PasswordPolicySet, LegacyCall}
  \cup
  {PlaybookCategoryCreate, PlaybookCategoryRename, PlaybookCategoryDelete, PlaybookMove,
   PlaybookGenerate, PlaybookDuplicate, PlaybookDelete, PlaybookDeploy, PlaybookRestore,
   PlaybookImport, PlaybookRun, PlaybookDebug, PlaybookRerun, PlaybookRerunBlock,
   PlaybookStepExecute, PlaybookStepSkip, PlaybookSave}
=============================================================================
