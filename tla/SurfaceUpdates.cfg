SPECIFICATION MCUpdatesSpec
CONSTANTS
 Charts={"c1","c2","c3","c4"}
 Boards={"d1","d2"}
 Titles={"t1","t2"}
 Looks={"l1"}
 Queries={"q1","q2"}
 Places={1,2}
 Abouts={"a1","a2"}
 Accesses={"x","y"}
 DashFaults={"degraded","hidden","lost","uiRace"}
 MaxCommands=2
 MaxChanges=1
 MaxEdits=1
 Blank=""
 None=None
 Absent=Absent
 Unborn=Unborn
 Taps={"p1","p2","p3","p4","p5"}
 TapSpecs={"s1","s2"}
 MaxTapCommands=3
 MaxTapEdits=1
 MaxTapChanges=1
 NoTap=NoTap
 TapGone=TapGone
 TapUnborn=TapUnborn
 Bare=Bare
 NoTapFile=NoTapFile
 Rows={"r1","r2"}
 Descriptions={"e1","e2"}
 Columns={"k1","k2"}
 MaxRows=3
 MaxTableCommands=2
 MaxTableEdits=1
 MaxTableChanges=1
 NoTable=NoTable
 Switches={1,2}
 MaxCuratedCommands=3
 MaxCuratedChanges=1
 NoDeployment=NoDeployment
 NoCurated=NoCurated
 Garbled=Garbled
 Rules={"r1","r2","r3"}
 Slugs={"g1","g2"}
 Short<-MCShort
 Texts={"x1","x2"}
 MaxPulls=2
 MaxVendor=2
 Plain=Plain
 NoRule=NoRule
 NoFile=NoFile
 NoText=NoText
INVARIANTS PushSettles TapHealed TableSettles EveryRuleFiled
PROPERTIES NoChartDropped OnlyShownChanges NoBlindSwitch
CHECK_DEADLOCK FALSE
