------------------------------- MODULE ReadCalls -------------------------------
(***************************************************************************)
(* What the programs of ReadCommand are made of: the ways a step may fail, *)
(* and the list calls of the two SDKs, each as it is paged. A call that is *)
(* not here has one answer.                                                *)
(***************************************************************************)
EXTENDS ReadCommand

Op(op) == [op |-> op, what |-> "rows", fails |-> "stop"]

\* One call, one answer.
Get == Op("list")
Walk == Op("walk")
WalkAll == Op("walkAll")
Sized == Op("sized")
FirstPage == Op("upTo")

Way(step, way) == [step EXCEPT !.fails = way]

\* The step gets facts about the rows there are.
Beside(step) == [step EXCEPT !.what = "facts"]
PerRow == Beside(Op("each"))
Resolve == Op("resolve")
Keep == Op("narrow")
CutTo == Op("cut")

OrTell(step) == Way(step, "tell")
InText(step) == Way(step, "human")
OrDrop(step) == Way(step, "drop")
OrElse(step) == Way(step, "fall")

\* preferModern.
ModernOr(modern, old) == <<Way(modern, "modern"), old>>

\* One call, and what it answers is shown.
Shown == <<Get>>

-----------------------------------------------------------------------------
(* chronicle: paginate *)

ListCuratedRuleSetCategories == Walk
ListCuratedRuleSets == Walk
ListCuratedRuleSetDeployments == Walk
ListCuratedRules == Walk
ListNativeDashboards == Walk
ListErrorNotificationConfigs == Walk
ListFeeds == Walk
ListFederationGroups == Walk
ListMetricDefinitions == Walk
ListScheduledReports == Walk
ListReferenceLists == Walk
ListDataTables == Walk
ListForwarders == Walk
ListCollectors == Walk
ListPipelines == Walk
ListParserExtensions == Walk
ListParsers == Walk
ListDataAccessLabels == Walk
ListDataAccessScopes == Walk
ListRetrohunts == Walk
ListRuleExclusions == Walk
\* Of ListRules, ListRulesBasic and the other views.
ListRules == Walk
ListRuleDeployments == Walk
ListRuleRevisions == Walk
ListSavedSearches == Walk
ListFeedSourceTypeSchemas == Walk
ListLogTypeSchemas == Walk
\* Rows out of the window are left out by the client.
ListErrors == Walk
\* --search is applied to each page by the client.
ListLogTypes == Sized
\* Over where the type is found.
GetLogTypeDescription == Walk

\* The caller's limit is the size of a page only.
ListDetections == Sized
SearchCuratedDetections == Sized
ListCoverageDetails == Sized
ListRawCollection == Sized
ListWatchlists == Sized
\* Stops at the size of a page, which is the caller's limit.
ListParsingErrors == Op("walkSome")
\* MaxPages is 1 in every call of the CLI.
ListThreatCollections == FirstPage
FetchRelatedThreatCollections == FirstPage
FetchRelatedAssociations == FirstPage
\* moreAvailable is dropped.
SearchUDM == FirstPage

-----------------------------------------------------------------------------
(* soar: PaginateV1Alpha *)

ListIntegrations == WalkAll
ListAlertGroupingRules == WalkAll
ListConnectors == WalkAll
ListJobs == WalkAll
ListActions == WalkAll
ListTransformers == WalkAll
ListLogicalOperators == WalkAll
ListAllIntegrationInstances == WalkAll
ListAllJobInstances == WalkAll
ListJobRevisions == WalkAll
ListMarketplaceIntegrations == WalkAll
ListContentPacks == WalkAll
ListModuleSettingProperties == WalkAll
\* MaxItems ends the walk and cuts.
ListCasesOpts == Op("walkTo")
\* fetchCases: MaxItems is --max.
ScanCases == Op("scan")
\* The token of the next page is the caller's.
ListJobInstanceLogs == Op("page")
=============================================================================
