------------------------------ MODULE MirrorReads ------------------------------
(***************************************************************************)
(* The listing of a surface of the mirror, and the pulls that are not the  *)
(* engine's, as programs of ReadCommand. What is made of an object once it *)
(* is read, and the files, are left out: Reconcile has them.               *)
(***************************************************************************)
EXTENDS ReadCalls

\* What cannot be read of an object, or made of it, is warned of, and the listing is
\* Incomplete.
Listing(list) == <<list, OrTell(Op("each"))>>

ErrorNotificationsSurface == Listing(ListErrorNotificationConfigs)
FederationGroupsSurface == Listing(ListFederationGroups)
FeedsSurface == Listing(ListFeeds)
ForwardersSurface == Listing(ListForwarders)
MetricDefinitionsSurface == Listing(ListMetricDefinitions)
ScheduledReportsSurface == Listing(ListScheduledReports)
DataTablesSurface == Listing(ListDataTables)
GroupingSurface == Listing(ListAlertGroupingRules)
ConnectorAllowlistSurface == Listing(Get)
PlaybooksSurface == Listing(Get)
\* One list that cannot be read fails the listing, and so does one deployment.
ReferenceListsSurface == <<ListReferenceLists, Op("each")>>
RuleExclusionsSurface == <<ListRuleExclusions, PerRow, OrTell(Op("each"))>>

PullReferenceLists == <<ListReferenceLists>>
\* A table whose rows cannot be read is written as an empty one, with a warning.
PullDataTables == <<ListDataTables, OrTell(PerRow)>>
PullFeeds == <<ListFeeds>>
\* The log types of the feeds, and the active parser of each.
PullParsers == <<ListFeeds, OrTell(Op("each"))>>
\* The first 100 of the open cases.
PullSOARCases == <<Op("page")>>
\* The legacy setting, or else the modern one.
WriteGroupingSettings == <<OrElse(Get), OrTell(ListModuleSettingProperties)>>
PrintSOARSettingSingleton == Shown

MirrorPrograms ==
  {ErrorNotificationsSurface, FederationGroupsSurface, FeedsSurface, ForwardersSurface,
   MetricDefinitionsSurface, ScheduledReportsSurface, DataTablesSurface, GroupingSurface,
   ConnectorAllowlistSurface, PlaybooksSurface, ReferenceListsSurface, RuleExclusionsSurface,
   PullReferenceLists, PullDataTables, PullFeeds, PullParsers, PullSOARCases,
   WriteGroupingSettings, PrintSOARSettingSingleton}
=============================================================================
