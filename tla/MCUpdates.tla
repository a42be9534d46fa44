------------------------------- MODULE MCUpdates -------------------------------
EXTENDS DashboardPush, DataTaps, DataTables, CuratedDeployments, FeaturedRules

\* The surface whose file is at work: they share nothing.
VARIABLE surface

\* Dashboard d1 with two charts, one of them without a query, and room for one more
\* dashboard and two more charts.
MCDashStart ==
  /\ boards = [d \in Boards |->
       IF d # "d1" THEN Unborn
       ELSE [about |-> "a1", access |-> "x",
             place |-> [c \in Charts |-> IF c \in {"c1", "c2"} THEN 1 ELSE Absent]]]
  /\ bodies = [c \in Charts |->
       CASE c = "c1" -> [title |-> "t1", look |-> "l1", query |-> "q1", asked |-> TRUE]
         [] c = "c2" -> [title |-> "t1", look |-> Blank, query |-> Blank, asked |-> FALSE]
         [] OTHER -> Unborn]
  /\ file = Reading("d1", TRUE, {}, {})

MCTapStart ==
  /\ taps = [t \in Taps |-> TapUnborn]
  /\ tapFiles = [n \in TapNames |->
                  IF n = Bare THEN [id |-> NoTap, spec |-> "s1"] ELSE NoTapFile]

MCTableStart ==
  /\ table = NoTable
  /\ tableFile = [named |-> FALSE, description |-> "e1", columns |-> "k1", rows |-> <<>>]

\* Two deployments of curated rules, one of them switched on.
MCCuratedStart ==
  deployed = [p \in Switches |-> [enabled |-> p = 1, alerting |-> p = 1]]

\* Two featured rules of one slug, and room for a third whose id begins like another's.
MCShort == [r1 |-> "s1", r2 |-> "s2", r3 |-> "s1"]

MCFeaturedStart ==
  featured = [r \in Rules |-> IF r = "r3" THEN NoRule ELSE [slug |-> "g1", text |-> "x1"]]

\* Every file at rest but that of the surface at work; of the taps, one at most is live.
MCInit ==
  /\ surface \in {"dashboards", "datataps", "data_tables", "curated", "featured"}
  /\ MCDashStart /\ MCCuratedStart /\ MCFeaturedStart
  /\ surface # "datataps" => MCTapStart
  /\ surface # "data_tables" => MCTableStart
  /\ DashInit /\ TapInit /\ TableInit /\ CuratedInit /\ FeaturedInit
  /\ LiveTaps \subseteq {"p1"}

MCNext ==
  /\ UNCHANGED surface
  /\ \/ surface = "dashboards" /\ DashNext
        /\ UNCHANGED <<tapVars, tableVars, curatedVars, featuredVars>>
     \/ surface = "datataps" /\ TapNext
        /\ UNCHANGED <<dashVars, tableVars, curatedVars, featuredVars>>
     \/ surface = "data_tables" /\ TableNext
        /\ UNCHANGED <<dashVars, tapVars, curatedVars, featuredVars>>
     \/ surface = "curated" /\ CuratedNext
        /\ UNCHANGED <<dashVars, tapVars, tableVars, featuredVars>>
     \/ surface = "featured" /\ FeaturedNext
        /\ UNCHANGED <<dashVars, tapVars, tableVars, curatedVars>>

MCUpdatesSpec ==
  MCInit /\ [][MCNext]_<<surface, dashVars, tapVars, tableVars, curatedVars, featuredVars>>
=============================================================================
