------------------------------- MODULE MCRead -------------------------------
(***************************************************************************)
(* Every program of ReadTable and MirrorReads, for TLC to run on a few     *)
(* objects, short pages and a low cap.                                     *)
(***************************************************************************)
EXTENDS ReadTable

MCReadPrograms ==
  {AlertsList, AlertsGet, AlertsEnrich, AuditUser, CasesSoarID, CoverageList,
   CuratedCategories, CuratedRuleSets, CuratedRules, CuratedRule, CuratedSearch,
   CuratedDetections, CuratedTrends, CuratedEvents, DashboardsGet, ChartGet, ChartsList,
   RunChart, FiltersShow, DashboardsList, LayoutShow, DashboardsExport, DashboardsInspect,
   DashboardsLint, DataAccessLabels, DataAccessScopes, DataAccessGet, EntitiesGraph,
   EntitiesGraphExplore, EntitiesRiskScores, EntitiesAudit, EntitySummarize, FeedsList,
   FeedsGet, FeedsServiceAccount, FeedsSchemas, FeedsTypeSchemas, ForwardersList,
   ForwardersGet, ForwardersCollectors, GenerateQuery, GeminiSearch, GeminiAsk,
   IngestionHealth, IocsFind, IocsGet, IocsRelated, LogTypesList, LogTypesGet, Mitre,
   ParsersValidate, ParsersSampleLogs, ParsersVersions, ParsersRun, ExtensionList,
   ExtensionGet, PipelinesList, PipelinesGet, QueryRaw, QueryExport, QueryEvent,
   QueryValidate, SavedList, SavedGet, QueryStats, RuleExclusionsList, RuleExclusionsGet}
  \cup
  {RulesList, RulesValidate, RulesDetections, RulesErrors, RulesAlerts, RetrohuntList,
   RetrohuntGet, RulesGet, RulesHealth, RulesReview, RulesTest, RulesTestStream, RulesTrends,
   RulesCounts, RulesEvents, RulesVersions, RulesVersionsDiff, TICollections, TICollection,
   TIRelated, TIAssociations, TIRelatedAssociations, TICoverage, TIFilters, WatchlistsList,
   WatchlistsGet}
  \cup
  {AuditList, NotificationsList, NotificationsUnread, ReportTemplates, CaseCounts,
   CaseChatList, CaseChatUnread, CaseCommentList, CaseCustomFields, CaseWall,
   CaseContextList, CaseEvidenceGet, CaseWorkload, CaseAging, CaseStats, CaseReport,
   CaseOverview, CasePlaybookErrors, CaseList, CaseGet, SimulationExport, SimulationList,
   SimulationGet, CaseTaskList, CaseValues, SoarSystem, SoarIntegrations, ConnectorStat,
   GroupingSettingsGet, IntegrationInstances, AuthoringTemplate, ConnectorDefList,
   IntegrationGet, IntegrationList, IntegrationTest, JobList, JobLogs, JobTemplateList,
   JobInstanceList, JobInstanceGet, JobInstanceHistory, JobRevisionList, MarketplaceBrowse,
   MarketplaceList, MarketplaceGet, ContentPacks, ContentPackGet, FeaturedList,
   MarketplaceDiff, APIKeys, UsersList, Enums}
  \cup
  {PlaybookList, PlaybookCategoryList, ComponentsIntegrations, ComponentsAllActions,
   ComponentsActions, ComponentsJobs, ComponentsConnectors, ComponentsFlow,
   ComponentsBlocks, PlaybookDiff, PlaybookGenerateStatus, PlaybookGet, PlaybookHealth,
   PlaybookLint, PlaybookVersions, PlaybookStats, PlaybookExport, TriggerTags,
   ComponentsUsage, PlaybookSummary, PlaybookResults, PlaybookResult, PlaybookPythonLogs,
   PlaybookTestCases, PlaybookDebugStepData, PlaybookSimulationEnrichment,
   PlaybookPendingCount, PlaybookPendingList, PlaybookPendingGet, PlaybookStepGet}
  \cup MirrorPrograms
=============================================================================
