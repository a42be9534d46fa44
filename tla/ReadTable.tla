------------------------------- MODULE ReadTable -------------------------------
(***************************************************************************)
(* The programs of the commands that only read (ReadCommand), one          *)
(* definition for each command. What is printed and how a call is put      *)
(* together are left out. Rows are what the command lists; the fields of   *)
(* one object that come from a call of their own are facts about it, and   *)
(* come after the rows even where the code asks for them first.            *)
(***************************************************************************)
EXTENDS MirrorReads

-----------------------------------------------------------------------------
(* SIEM *)

\* The server cuts to --limit, and warnAlertsTruncated says so.
AlertsList == <<Get, OrTell(CutTo)>>
AlertsGet == Shown
AlertsEnrich == Shown
\* A search for each kind of activity.
AuditUser == <<SearchUDM>>
CasesSoarID == Shown
CoverageList == <<ListCoverageDetails>>

\* loadEnrichedRuleSets.
EnrichedRuleSets ==
  <<ListCuratedRuleSets, Beside(ListCuratedRuleSetCategories),
    Beside(ListCuratedRuleSetDeployments)>>
CuratedCategories == EnrichedRuleSets
CuratedRuleSets == EnrichedRuleSets \o <<Keep>>
CuratedRules == <<ListCuratedRules, Keep>>
\* resolveSetCategoryNames: the name of the set is left out when it cannot be read.
SetCategoryNames ==
  <<OrDrop(Beside(ListCuratedRuleSets)), OrDrop(Beside(ListCuratedRuleSetCategories))>>
CuratedRule == Shown \o SetCategoryNames
CuratedSearch == EnrichedRuleSets \o <<Beside(ListCuratedRules), Keep>>
CuratedDetections == <<SearchCuratedDetections>>
\* --all: the trends are asked for in chunks.
CuratedTrends == <<ListCuratedRules, Beside(Get)>>
CuratedEvents == Shown

\* ChartsByID: all charts in one call, and one by one when it fails, of which those that
\* fail are left out.
ChartsByID(way) == <<OrElse(Beside(Get)), Way(PerRow, way)>>
DashboardsGet == Shown
\* The place of the chart on its dashboard, and its query.
ChartGet == <<Get, OrTell(Beside(Get)), OrDrop(Beside(Get))>>
\* A chart that is left out is shown as a dangling reference.
ChartsList == <<Get>> \o ChartsByID("tell") \o <<OrTell(PerRow)>>
RunChart == <<Get, Beside(Get), Beside(Get)>>
FiltersShow == Shown
DashboardsList == <<ListNativeDashboards, Keep>>
LayoutShow == <<Get>> \o ChartsByID("drop")
DashboardsExport == Shown
DashboardsInspect == <<Get>> \o ChartsByID("tell") \o <<OrDrop(PerRow)>>
\* A chart or a query that cannot be read has no findings.
DashboardsLint == <<Get>> \o ChartsByID("drop") \o <<OrDrop(PerRow)>>

DataAccessLabels == <<ListDataAccessLabels>>
DataAccessScopes == <<ListDataAccessScopes>>
DataAccessGet == Shown
EntitiesGraph == Shown
EntitiesGraphExplore == Shown
QueryEntityRiskScores == <<ListRawCollection>>
EntitiesRiskScores == QueryEntityRiskScores
\* The watchlists and who is on them are facts about the entities at risk.
WatchlistMembership == OrTell(Beside(Walk))
EntitiesAudit == <<ListRawCollection, Beside(Walk), WatchlistMembership>>
\* SummarizeEntity: the prevalence is left out when it cannot be read.
EntitySummarize == <<Get, Beside(Get), OrDrop(Beside(Get))>>
FeedsList == <<ListFeeds, Keep>>
FeedsGet == Shown
FeedsServiceAccount == Shown
FeedsSchemas == <<ListFeedSourceTypeSchemas>>
FeedsTypeSchemas == <<ListLogTypeSchemas>>
ForwardersList == <<ListForwarders>>
ForwardersGet == Shown
ForwardersCollectors == <<ListCollectors>>
GenerateQuery == Shown
\* The text is turned into a query first.
GeminiSearch == <<Resolve, SearchUDM>>
GeminiAsk == Shown
IngestionHealth == <<ListErrorNotificationConfigs>>
\* In batches.
IocsFind == <<Get>>
IocsGet == Shown
\* One page for each type.
IocsRelated == <<FetchRelatedThreatCollections>>
LogTypesList == <<ListLogTypes, Keep>>
LogTypesGet == <<GetLogTypeDescription>>
Mitre == <<ListRules, Beside(ListRuleDeployments), Beside(ListCuratedRules)>>

ParsersValidate == <<ListParsingErrors, Beside(ListParsers)>>
ParsersSampleLogs == <<FirstPage>>
ParsersVersions == <<ListParsers>>
ParsersRun == Shown
ExtensionList == <<ListParserExtensions>>
ExtensionGet == Shown
PipelinesList == <<ListPipelines>>
PipelinesGet == Shown
\* One page of matches, cut to --limit, and their lines in batches.
QueryRaw == <<FirstPage, Beside(Get)>>
\* The server cuts, and says so.
QueryExport == <<Get, OrTell(CutTo)>>
QueryEvent == Shown
QueryValidate == Shown
SavedList == <<ListSavedSearches>>
SavedGet == Shown
QueryStats == <<Get, CutTo>>
RuleExclusionsList == <<ListRuleExclusions>>
RuleExclusionsGet == Shown

RulesList == <<ListRules>>
RulesValidate == Shown
\* resolveRuleID: a name is looked up in the list of rules.
ResolveRuleID == Resolve
RulesDetections == <<ResolveRuleID, ListDetections>>
RulesErrors == <<ResolveRuleID, ListErrors, Keep>>
\* SearchRuleAlerts: the rule is resolved, and not asked for.
RulesAlerts == <<ResolveRuleID, Get, Op("ignore"), OrTell(CutTo)>>
RetrohuntList == <<ResolveRuleID, ListRetrohunts>>
RetrohuntGet == <<ResolveRuleID, Get>>
\* The deployment is left out when it cannot be read.
RulesGet == <<ResolveRuleID, Get, OrDrop(Beside(Get))>>
RulesHealth == <<ListRules, Beside(ListRuleDeployments), Beside(Get), Keep>>
RulesReview == <<ListRules, Beside(ListRuleDeployments), Beside(Get)>>
\* --max-results ends the run, which the platform tells.
RulesTest == <<Get, OrTell(CutTo)>>
\* --stream: detections are taken as they come.
RulesTestStream == <<Op("stream"), OrTell(CutTo)>>
RulesTrends == <<Get, OrDrop(Beside(ListRules)), Keep>>
RulesCounts == Shown
RulesEvents == <<ResolveRuleID, FirstPage>>
RulesVersions == <<ResolveRuleID, ListRuleRevisions>>
\* The two texts, of which one may be the rule as it is.
RulesVersionsDiff == <<ResolveRuleID, ListRuleRevisions, Beside(Get), Beside(Get)>>

TICollections == <<ListThreatCollections>>
TICollection == Shown
TIRelated == Shown
TIAssociations == Shown
TIRelatedAssociations == <<FetchRelatedAssociations>>
TICoverage == <<ListCoverageDetails>>
TIFilters == Shown
WatchlistsList == <<ListWatchlists>>
WatchlistsGet == Shown

-----------------------------------------------------------------------------
(* SOAR cases *)

AuditList == ModernOr(Op("page"), Op("page"))
NotificationsList == Shown
NotificationsUnread == Shown
ReportTemplates == Shown
CaseCounts == <<Get, Beside(Get)>>
CaseChatList == ModernOr(Get, Get)
CaseChatUnread == ModernOr(Get, Get)
CaseCommentList == Shown
CaseCustomFields == Shown
CaseWall == Shown
CaseContextList == Shown
CaseEvidenceGet == Shown
\* The newest --max cases.
FetchCases == ScanCases
CaseWorkload == <<FetchCases>>
\* The oldest of these are shown first, at most --limit of them.
CaseAging == <<FetchCases, CutTo>>
CaseStats == <<FetchCases>>
CaseReport == Shown
CaseOverview == Shown
\* The playbooks of an alert; an alert or a playbook that fails is a warning. Their runs,
\* the summaries of these, and those of the blocks in them.
CasePlaybookErrors == <<Get, OrTell(PerRow), OrTell(PerRow), OrTell(PerRow), OrTell(PerRow)>>
\* The rows of the first page that the filters let through.
CaseList == ModernOr(ListCasesOpts, Op("page")) \o <<InText(Keep)>>
CaseGet == Shown
SimulationExport == Shown
SimulationList == ModernOr(Get, Get)
SimulationGet == ModernOr(Get, Get)
CaseTaskList == Shown
CaseValues == Shown

-----------------------------------------------------------------------------
(* SOAR settings, integrations and jobs *)

\* What a part of the system said or, as text, why it is not there.
SoarSystem == ModernOr(Get, Get) \o <<InText(Op("each"))>>
SoarIntegrations == <<ListIntegrations, Beside(Get), Beside(Get)>>
ConnectorStat == Shown
GroupingSettingsGet == <<ListModuleSettingProperties, OrDrop(Beside(Get))>>
\* The environments, and the instances in them.
ListIntegrationInstances == <<Get, Beside(Get)>>
IntegrationInstances == ListIntegrationInstances
AuthoringTemplate == Shown
ConnectorDefList == <<ListConnectors>>
\* The pack, the instances and the playbooks that use each of them are left out when they
\* cannot be read.
IntegrationGet == <<Get, OrDrop(Beside(ListIntegrations)), OrDrop(Beside(Get)), OrDrop(PerRow)>>
IntegrationList == <<ListIntegrations, Beside(ListAllIntegrationInstances), Keep>>
IntegrationTest == <<Get, Beside(Get)>>
JobList == Shown
JobLogs == <<Op("page")>>
JobTemplateList == Shown
JobInstanceList == ModernOr(ListAllJobInstances, Get) \o <<Keep>>
JobInstanceGet == <<ListAllJobInstances, Keep>>
\* The page is narrowed after it was read; the token of the next one is shown.
JobInstanceHistory == <<ListJobInstanceLogs, Beside(ListAllJobInstances), OrTell(Keep)>>
JobRevisionList == <<ListJobRevisions>>
\* Content packs that cannot be listed are told of as text only.
MarketplaceBrowse ==
  <<ListMarketplaceIntegrations, OrDrop(Beside(ListIntegrations)),
    InText(Beside(ListContentPacks))>>
MarketplaceList == <<ListMarketplaceIntegrations, Keep>>
MarketplaceGet == Shown
ContentPacks == <<ListContentPacks>>
ContentPackGet == Shown
FeaturedList == Shown
MarketplaceDiff == Shown
APIKeys == Shown
\* ListUserProfiles.
UsersList == <<Op("numbers"), Keep>>
\* --live.
Enums == <<Get, OrTell(Beside(Get))>>

-----------------------------------------------------------------------------
(* Playbooks *)

PlaybookList == <<Get, Keep>>
PlaybookCategoryList == Shown
ComponentsIntegrations == <<ListIntegrations, Keep>>
ComponentsAllActions == <<ListActions, Keep>>
\* resolvePlaybookComponentIntegration.
ComponentIntegration == Resolve
ComponentsActions == <<ComponentIntegration, ListActions, OrTell(PerRow), Keep>>
ComponentsJobs == <<ComponentIntegration, ListJobs, Keep>>
ComponentsConnectors == <<ComponentIntegration, ListConnectors, Keep>>
ComponentsFlow == <<ListTransformers, Beside(ListLogicalOperators), Keep>>
ComponentsBlocks == <<Get, Keep>>
\* resolvePlaybookDefinition: a name is looked up in the list of playbooks.
PlaybookDefinition == Resolve
\* resolvePlaybookSelector: not if the identifier is given.
PlaybookSelector == PlaybookDefinition
PlaybookDiff == <<PlaybookDefinition, Get>>
PlaybookGenerateStatus == Shown
PlaybookGet == <<PlaybookDefinition, Get>>
\* A playbook with no statistics of either API is left out.
PlaybookHealth == <<Get, Keep, OrDrop(Op("each"))>>
\* A playbook that cannot be read is a finding.
PlaybookLint == <<Get, OrDrop(Beside(Get)), OrTell(PerRow)>>
PlaybookVersions == <<PlaybookSelector, Get>>
PlaybookStats == <<PlaybookSelector>> \o ModernOr(Get, Get)
PlaybookExport == <<PlaybookSelector, Get>>
TriggerTags == <<Op("numbers")>>
\* resolveActionByName.
ResolveAction == Resolve
ComponentsUsage == <<ResolveAction, Get>>
\* resolveCaseAlert, the cards and the instance.
CaseAlertOf == Resolve
PlaybookSummary ==
  <<PlaybookDefinition, CaseAlertOf>> \o ModernOr(Get, Get)
    \o ModernOr(Beside(Get), Beside(Get))
PlaybookResults == Shown
PlaybookResult == Shown
PlaybookPythonLogs == <<Op("page")>>
PlaybookTestCases == <<Op("page")>>
PlaybookDebugStepData == Shown
PlaybookSimulationEnrichment == Shown
PlaybookPendingCount == Shown
PlaybookPendingList == Shown
PlaybookPendingGet == Shown
PlaybookStepGet == Shown
=============================================================================
