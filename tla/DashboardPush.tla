----------------------------- MODULE DashboardPush -----------------------------
(***************************************************************************)
(* One dashboard file, pulled and pushed. An update of a dashboard is made *)
(* of many calls (dashboardsUpdate): one for each new or edited chart, one *)
(* PATCH for the fields and the layout, and a reading that rewrites the    *)
(* file. The PATCH replaces the whole list of charts, every chart may fail *)
(* to be read, and others edit the dashboard meanwhile.                    *)
(*                                                                         *)
(* "about" stands for display name, description and filters, "look" for    *)
(* the parts of a chart that are sent only when the file has a value       *)
(* (visualization, drilldown), "place" for a chart's position, layout and  *)
(* filter ids in the dashboard. A query includes its interval. The filter  *)
(* ids of a new chart are not sent when it is added: instances here have   *)
(* none. A chart's data source is only reported and is left out.           *)
(***************************************************************************)
EXTENDS Naturals, FiniteSets

CONSTANTS
  Charts,      \* chart resource names, of which the server hands out unborn ones
  Boards,      \* dashboard resource names, likewise
  Titles, Looks, Queries, Places, Abouts, Accesses,
  DashFaults,  \* subset of {"degraded", "hidden", "lost", "uiRace"}
  MaxCommands, \* bound on commands
  MaxEdits,    \* bound on edits of the file
  MaxChanges,  \* bound on changes by others
  Blank,       \* an empty title, look or query
  None, Absent, Unborn

ASSUME DashAssumption ==
  /\ Blank \notin Titles \cup Looks \cup Queries
  /\ None \notin Charts \cup Boards
  /\ {Absent, Unborn} \cap Places = {}

VARIABLES
  boards,    \* the dashboards of the instance
  bodies,    \* the charts of the instance, each with its query
  file,      \* the mirror file, or Absent
  (* Locals of the running push. *)
  dashPc,    \* "idle", "create", "charts", "fields" or "refresh"
  want,      \* the file as loaded
  have,      \* the dashboard as the plan listed it, or Absent
  target,    \* the dashboard written to
  todo,      \* charts of the file still to be added or edited
  addedNew, allMatched,
  commands, edits, changes,
  (* History, read by properties only. *)
  pushed,    \* the last command was a push that reported success
  calm       \* nobody changed anything and every read was whole since its plan

locals == <<want, have, target, todo, addedNew, allMatched>>
dashVars == <<boards, bodies, file, dashPc, locals, commands, edits, changes, pushed, calm>>

-----------------------------------------------------------------------------
(* Data *)

\* A chart; "asked" says that it has a dashboardQuery.
Body == [title: Titles \cup {Blank}, look: Looks \cup {Blank},
         query: Queries \cup {Blank}, asked: BOOLEAN]

Board == [about: Abouts, access: Accesses, place: [Charts -> Places \cup {Absent}]]

\* desiredChart; one without a chart is new.
Tile == [chart: Charts \cup {None}, title: Titles \cup {Blank}, look: Looks \cup {Blank},
         query: Queries \cup {Blank}, asked: BOOLEAN, place: Places]

\* desiredDashboard
Desired == [id: Boards \cup {None}, about: Abouts, access: Accesses, tiles: SUBSET Tile]

\* The placeholders stand for no chart, no dashboard and no file.
ASSUME NothingAssumption ==
  /\ Absent # Unborn
  /\ \A nothing \in {Absent, Unborn} :
       nothing \notin Body /\ nothing \notin Board /\ nothing \notin Desired

ChartsOf(d) == {c \in Charts : boards[d].place[c] # Absent}
IdsIn(desired) == {t.chart : t \in desired.tiles} \ {None}

\* A chart of dashboard d as pull or push reads it. It is kept as a reference when the
\* reading is not deep, when it dangles or when it could not be read.
TileOf(c, d, deep, unread, unasked) ==
  LET place == boards[d].place[c]
  IN  IF ~deep \/ bodies[c] \notin Body \/ c \in unread
      THEN [chart |-> c, title |-> Blank, look |-> Blank, query |-> Blank,
            asked |-> FALSE, place |-> place]
      ELSE [chart |-> c, title |-> bodies[c].title, look |-> bodies[c].look,
            query |-> IF c \in unasked THEN Blank ELSE bodies[c].query,
            asked |-> bodies[c].asked, place |-> place]

Reading(d, deep, unread, unasked) ==
  [id |-> d, about |-> boards[d].about, access |-> boards[d].access,
   tiles |-> {TileOf(c, d, deep, unread, unasked) : c \in ChartsOf(d)}]

\* The file carries chart bodies, not only references.
WantsInline(desired) == \E t \in desired.tiles : t.title # Blank \/ t.query # Blank

\* What is compared: how often each chart body occurs, whatever its id.
Strip(t) == [title |-> t.title, look |-> t.look, query |-> t.query, place |-> t.place]
Canonical(desired) ==
  <<desired.about, desired.access,
    [s \in {Strip(t) : t \in desired.tiles} |->
       Cardinality({t \in desired.tiles : Strip(t) = s})]>>

Invalid(desired) ==
  \E t \in desired.tiles : t.chart = None /\ t.title = Blank /\ t.query = Blank

\* The charts a reading of dashboard d may fail to resolve, or to find the query of: one
\* at most.
Whole == <<{}, {}>>
Gaps(d) == {Whole} \cup
           (IF "degraded" \in DashFaults
            THEN {<<{c}, {}>> : c \in ChartsOf(d)} \cup {<<{}, {c}>> : c \in ChartsOf(d)}
            ELSE {})

\* A command ends without a success to speak of.
Forget ==
  /\ dashPc' = "idle"
  /\ want' = Absent /\ have' = Absent /\ target' = None
  /\ todo' = {} /\ addedNew' = FALSE /\ allMatched' = TRUE
  /\ pushed' = FALSE /\ calm' = FALSE

-----------------------------------------------------------------------------
(* Pull *)

\* The id the server hands out next: ids carry no meaning, so it may be any unborn one.
Fresh(resources, states) ==
  LET unborn == {r \in resources : states[r] = Unborn}
  IN  IF unborn = {} THEN {} ELSE {CHOOSE r \in unborn : TRUE}

\* A pull of the dashboard the file is about; the files of others are not followed.
PullBoard(d, deep) ==
  /\ dashPc = "idle" /\ commands < MaxCommands
  /\ boards[d] \in Board
  /\ file # Absent => file.id = d
  /\ \E gap \in Gaps(d) : file' = Reading(d, deep, gap[1], gap[2])
  /\ commands' = commands + 1
  /\ Forget
  /\ UNCHANGED <<boards, bodies, edits, changes>>

-----------------------------------------------------------------------------
(* Push: the plan *)

\* BuildPlan and what Push and Update refuse before their first call. A dashboard that
\* cannot be read is left out of the listing, and its file is planned as a create.
PlanPush(listed, whole) ==
  /\ dashPc = "idle" /\ commands < MaxCommands
  /\ commands' = commands + 1
  /\ LET same == listed # Absent /\ Canonical(listed) = Canonical(file)
         fixed == listed # Absent /\ listed.access # file.access
     IN  \/ /\ same \/ fixed \/ Invalid(file)
            /\ Forget
         \/ /\ ~same /\ ~fixed /\ ~Invalid(file)
            /\ dashPc' = IF listed = Absent THEN "create" ELSE "charts"
            /\ want' = file /\ have' = listed
            /\ target' = IF listed = Absent THEN None ELSE file.id
            /\ todo' = file.tiles /\ addedNew' = FALSE /\ allMatched' = TRUE
            /\ pushed' = FALSE /\ calm' = whole
  /\ UNCHANGED <<boards, bodies, file, edits, changes>>

IsLive(d) == d \in Boards /\ boards[d] \in Board

PushBoard ==
  /\ file # Absent
  /\ \/ /\ IsLive(file.id)
        /\ \E gap \in Gaps(file.id) :
             PlanPush(Reading(file.id, WantsInline(file), gap[1], gap[2]), gap = Whole)
     \/ /\ ~IsLive(file.id) \/ "hidden" \in DashFaults
        /\ PlanPush(Absent, ~IsLive(file.id))

-----------------------------------------------------------------------------
(* Push: the calls *)

\* The call took effect and its answer never came: the mutation counts as failed.
Lost == "lost" \in DashFaults /\ Forget

\* dashboardsCreate: an empty dashboard first, then its charts.
CreateBoard ==
  /\ dashPc = "create"
  /\ \E d \in Fresh(Boards, boards) :
       /\ boards' = [boards EXCEPT ![d] =
                       [about |-> want.about, access |-> want.access,
                        place |-> [c \in Charts |-> Absent]]]
       /\ \/ /\ dashPc' = "charts" /\ target' = d
             /\ UNCHANGED <<want, have, todo, addedNew, allMatched, pushed, calm>>
          \/ Lost
  /\ UNCHANGED <<bodies, file, commands, edits, changes>>

Creating == have = Absent

\* addDesiredChart: the server attaches a query only if there is one.
AddChart(t) ==
  /\ dashPc = "charts" /\ t \in todo
  /\ Creating \/ t.chart = None
  /\ IsLive(target)
  /\ \E c \in Fresh(Charts, bodies) :
       /\ bodies' = [bodies EXCEPT ![c] =
                       [title |-> t.title, look |-> t.look, query |-> t.query,
                        asked |-> t.query # Blank]]
       /\ boards' = [boards EXCEPT ![target].place[c] = t.place]
       /\ \/ /\ todo' = todo \ {t} /\ addedNew' = TRUE
             /\ UNCHANGED <<dashPc, want, have, target, allMatched, pushed, calm>>
          \/ Lost
  /\ UNCHANGED <<file, commands, edits, changes>>

\* Mutant: the file's body replaces the chart's, whatever the listing showed.
EditedWhole(t, h, b) ==
  [b EXCEPT !.query = IF t.asked THEN t.query ELSE @, !.title = t.title,
            !.look  = IF t.look # Blank THEN t.look ELSE @]

\* editDesiredChart: the fields of the file's chart t that differ from the listed chart h.
Edited(t, h, b) ==
  [b EXCEPT !.query = IF t.query # h.query /\ t.asked THEN t.query ELSE @,
            !.title = IF t.title # h.title THEN t.title ELSE @,
            !.look  = IF t.look # Blank /\ t.look # h.look THEN t.look ELSE @]

NothingToEdit(t, h) ==
  /\ t.query # h.query => ~t.asked
  /\ t.title = h.title
  /\ t.look # Blank => t.look = h.look

\* The edit carries an etag fetched right before it, so it replaces whatever is there.
EditChart(t) ==
  /\ dashPc = "charts" /\ t \in todo
  /\ ~Creating
  /\ \E h \in have.tiles :
       /\ h.chart = t.chart
       /\ \/ /\ NothingToEdit(t, h)
             /\ todo' = todo \ {t}
             /\ UNCHANGED <<bodies, dashPc, want, have, target, addedNew, allMatched, pushed, calm>>
          \/ /\ ~NothingToEdit(t, h)
             /\ bodies[t.chart] \in Body
             /\ bodies' = [bodies EXCEPT ![t.chart] = Edited(t, h, @)]
             /\ \/ /\ todo' = todo \ {t}
                   /\ UNCHANGED <<dashPc, want, have, target, addedNew, allMatched, pushed, calm>>
                \/ Lost
  /\ UNCHANGED <<boards, file, commands, edits, changes>>

\* A chart of the file the listing did not show is skipped with a warning.
SkipChart(t) ==
  /\ dashPc = "charts" /\ t \in todo
  /\ ~Creating /\ t.chart # None /\ t.chart \notin IdsIn(have)
  /\ todo' = todo \ {t} /\ allMatched' = FALSE
  /\ UNCHANGED <<boards, bodies, file, dashPc, want, have, target, addedNew, commands,
                 edits, changes, pushed, calm>>

ChartsDone ==
  /\ dashPc = "charts" /\ todo = {}
  /\ dashPc' = IF Creating THEN "refresh" ELSE "fields"
  /\ UNCHANGED <<boards, bodies, file, locals, commands, edits, changes, pushed, calm>>

\* Mutant: charts that are live and not in the file do not hold the layout back.
MatchedOnly == ~addedNew /\ allMatched

\* Mutant: a chart just added does not hold the layout back.
NothingMissing == allMatched /\ IdsIn(have) \subseteq IdsIn(want)

\* Every chart of the file was listed, none was added and none is left out.
SameMembership == ~addedNew /\ allMatched /\ IdsIn(have) \subseteq IdsIn(want)

\* chartConfigsDiffer, for equal sets of charts.
PlacesDiffer ==
  \E t \in want.tiles, h \in have.tiles : t.chart = h.chart /\ t.place # h.place

\* definition.charts as the file has it.
WantedPlaces ==
  [c \in Charts |-> IF c \in IdsIn(want)
                    THEN (CHOOSE t \in want.tiles : t.chart = c).place
                    ELSE Absent]

\* Each field that differs from the listing, and the layout if the sets of charts agree:
\* a wholesale replacement of the dashboard's list.
Patched(b) ==
  [b EXCEPT !.about = IF want.about # have.about THEN want.about ELSE @,
            !.place = IF SameMembership /\ PlacesDiffer THEN WantedPlaces ELSE @]

PatchFields ==
  /\ dashPc = "fields"
  /\ \/ /\ want.about = have.about /\ ~(SameMembership /\ PlacesDiffer)
        /\ dashPc' = "refresh"
        /\ UNCHANGED <<boards, locals, pushed, calm>>
     \/ /\ want.about # have.about \/ (SameMembership /\ PlacesDiffer)
        /\ IsLive(target)
        /\ boards' = [boards EXCEPT ![target] = Patched(@)]
        /\ \/ dashPc' = "refresh" /\ UNCHANGED <<locals, pushed, calm>>
           \/ Lost
  /\ UNCHANGED <<bodies, file, commands, edits, changes>>

\* refreshDashboard, in the shape of the file.
Refreshed(unread, unasked) == Reading(target, WantsInline(want), unread, unasked)

\* refreshDashboard and refreshLocal.
RefreshFile ==
  /\ dashPc = "refresh" /\ IsLive(target)
  /\ \E gap \in Gaps(target) :
       /\ file' = Refreshed(gap[1], gap[2])
       /\ calm' = (calm /\ gap = Whole)
  /\ dashPc' = "idle" /\ pushed' = TRUE
  /\ UNCHANGED <<boards, bodies, locals, commands, edits, changes>>

\* A call is refused, fails or finds its chart or dashboard gone, the file cannot be
\* written, or the process is killed.
GiveUp ==
  /\ dashPc # "idle"
  /\ Forget
  /\ UNCHANGED <<boards, bodies, file, commands, edits, changes>>

-----------------------------------------------------------------------------
(* Everybody else *)

UiMay ==
  /\ changes < MaxChanges /\ changes' = changes + 1
  /\ dashPc = "idle" \/ "uiRace" \in DashFaults
  /\ calm' = FALSE
  /\ UNCHANGED <<file, dashPc, locals, commands, edits, pushed>>

UiEdit ==
  /\ UiMay
  /\ \E c \in Charts :
       /\ bodies[c] \in Body
       /\ \/ \E title \in Titles : bodies' = [bodies EXCEPT ![c].title = title]
          \/ \E query \in Queries :
               bodies' = [bodies EXCEPT ![c].query = query, ![c].asked = TRUE]
  /\ UNCHANGED boards

UiLayout ==
  /\ UiMay
  /\ \E d \in Boards :
       /\ boards[d] \in Board
       /\ \/ \E about \in Abouts : boards' = [boards EXCEPT ![d].about = about]
          \/ \E c \in ChartsOf(d), place \in Places :
               boards' = [boards EXCEPT ![d].place[c] = place]
  /\ UNCHANGED bodies

UiAdd ==
  /\ UiMay
  /\ \E d \in Boards, c \in Fresh(Charts, bodies), title \in Titles, place \in Places :
       /\ boards[d] \in Board
       /\ boards' = [boards EXCEPT ![d].place[c] = place]
       /\ bodies' = [bodies EXCEPT ![c] =
                       [title |-> title, look |-> Blank, query |-> Blank, asked |-> FALSE]]

UiRemove ==
  /\ UiMay
  /\ \/ \E d \in Boards :
          /\ boards[d] \in Board
          /\ \E c \in ChartsOf(d) :
               /\ boards' = [boards EXCEPT ![d].place[c] = Absent]
               /\ bodies' = [bodies EXCEPT ![c] = Absent]
     \/ \E d \in Boards :
          /\ boards[d] \in Board
          /\ boards' = [boards EXCEPT ![d] = Absent]
          /\ bodies' = [c \in Charts |-> IF c \in ChartsOf(d) THEN Absent ELSE bodies[c]]

\* What an operator does to a chart of the file.
Rewritten(t) ==
  {[t EXCEPT !.title = title] : title \in Titles} \cup
  {[t EXCEPT !.query = query] : query \in Queries} \cup
  {[t EXCEPT !.look = look] : look \in Looks \cup {Blank}} \cup
  {[t EXCEPT !.place = place] : place \in Places}

EditFile ==
  /\ dashPc = "idle" /\ file # Absent
  /\ edits < MaxEdits /\ edits' = edits + 1
  /\ \/ \E about \in Abouts : file' = [file EXCEPT !.about = about]
     \/ \E access \in Accesses : file' = [file EXCEPT !.access = access]
     \/ \E t \in file.tiles, s \in UNION {Rewritten(x) : x \in file.tiles} :
          /\ s \in Rewritten(t)
          /\ file' = [file EXCEPT !.tiles = (@ \ {t}) \cup {s}]
     \/ \E t \in file.tiles : file' = [file EXCEPT !.tiles = @ \ {t}]
     \/ \E title \in Titles, query \in Queries, place \in Places :
          file' = [file EXCEPT !.tiles = @ \cup
                     {[chart |-> None, title |-> title, look |-> Blank, query |-> query,
                       asked |-> FALSE, place |-> place]}]
  /\ calm' = FALSE
  /\ UNCHANGED <<boards, bodies, dashPc, locals, commands, changes, pushed>>

-----------------------------------------------------------------------------
(* Specification *)

\* Any dashboards with charts of their own, and the file an earlier pull left, if any.
DashInit ==
  /\ boards \in [Boards -> Board \cup {Unborn}]
  /\ bodies \in [Charts -> Body \cup {Unborn}]
  /\ \A d \in Boards : boards[d] \in Board =>
       \A c \in Charts : boards[d].place[c] # Absent =>
         /\ bodies[c] \in Body
         /\ \A e \in Boards \ {d} : boards[e] \in Board => boards[e].place[c] = Absent
  /\ \/ file = Absent
     \/ \E d \in Boards, deep \in BOOLEAN :
          IsLive(d) /\ \E gap \in Gaps(d) : file = Reading(d, deep, gap[1], gap[2])
  /\ dashPc = "idle"
  /\ want = Absent /\ have = Absent /\ target = None /\ todo = {}
  /\ addedNew = FALSE /\ allMatched = TRUE
  /\ commands = 0 /\ edits = 0 /\ changes = 0
  /\ pushed = FALSE /\ calm = FALSE

DashPull == \E d \in Boards, deep \in BOOLEAN : PullBoard(d, deep)

DashStep ==
  \/ CreateBoard
  \/ \E t \in todo : AddChart(t) \/ EditChart(t) \/ SkipChart(t)
  \/ ChartsDone \/ PatchFields \/ RefreshFile \/ GiveUp

DashUi == UiEdit \/ UiLayout \/ UiAdd \/ UiRemove

DashNext == DashPull \/ PushBoard \/ DashStep \/ DashUi \/ EditFile

DashSpec == DashInit /\ [][DashNext]_dashVars
-----------------------------------------------------------------------------
(* Properties *)

\* Every variable has its type.
DashTypeOK ==
  /\ boards \in [Boards -> Board \cup {Unborn, Absent}]
  /\ bodies \in [Charts -> Body \cup {Unborn, Absent}]
  /\ file \in Desired \cup {Absent} /\ want \in Desired \cup {Absent}
  /\ have \in Desired \cup {Absent}
  /\ dashPc \in {"idle", "create", "charts", "fields", "refresh"}
  /\ target \in Boards \cup {None}
  /\ todo \subseteq Tile
  /\ addedNew \in BOOLEAN /\ allMatched \in BOOLEAN 
  /\ pushed \in BOOLEAN /\ calm \in BOOLEAN
  /\ {commands, edits, changes} \subseteq Nat

\* No step of a push takes a chart the plan saw off its dashboard, however the file, the
\* instance and the push's earlier failures differ ("silently DROP a chart the operator
\* did not explicitly remove", dashboards_surface_reconcile.go:131): the PATCH replaces
\* the whole list of charts, and only its gate keeps it from dropping one.
NoChartDropped ==
  [][changes' = changes /\ have # Absent =>
       \A d \in Boards, c \in IdsIn(have) :
         boards[d] \in Board /\ boards[d].place[c] # Absent =>
           boards'[d] \in Board /\ boards'[d].place[c] # Absent]_dashVars

\* A push changes a field of an existing chart or dashboard only to what the file says and
\* only where the file and the listing, which is what the preview was made from, differ:
\* an edit made in the UI to another field of the same chart survives.
OnlyShownChanges ==
  [][changes' = changes =>
       /\ \A c \in Charts : bodies[c] \in Body /\ bodies'[c] # bodies[c] =>
            \E t \in want.tiles, h \in have.tiles :
              /\ t.chart = c /\ h.chart = c
              /\ \A f \in {"title", "look", "query"} :
                   bodies'[c][f] # bodies[c][f] => bodies'[c][f] = t[f] /\ t[f] # h[f]
       /\ \A d \in Boards : boards[d] \in Board /\ boards'[d] # boards[d] =>
            /\ boards'[d].about # boards[d].about =>
                 boards'[d].about = want.about /\ want.about # have.about]_dashVars

\* The charts of dashboard d that the last plan did not list, as bodies.
AddedOn(d) == {c \in ChartsOf(d) : have = Absent \/ c \notin IdsIn(have)}

\* After a push that reports success and that nobody disturbed, whatever earlier pushes
\* left half done: the file equals the dashboard, so that the next plan is empty; every
\* chart of the file is live with the file's text, a new one once; and fields and, unless
\* the set of charts changed, places are the file's.
PushSettles ==
  pushed /\ calm =>
    LET d == file.id
        new == {t \in want.tiles : have = Absent \/ t.chart = None}
    IN  /\ boards[d] \in Board
        /\ WantsInline(want) = WantsInline(file) =>
             Canonical(file) = Canonical(Reading(d, WantsInline(file), {}, {}))
        /\ boards[d].about = want.about
        /\ \A t \in want.tiles \ new : t.chart \in ChartsOf(d) =>
             /\ SameMembership => boards[d].place[t.chart] = t.place
             /\ bodies[t.chart] \in Body /\ WantsInline(want) =>
                  /\ bodies[t.chart].title = t.title
                  /\ t.asked => bodies[t.chart].query = t.query
                  /\ t.look # Blank => bodies[t.chart].look = t.look
        /\ Cardinality(AddedOn(d)) = Cardinality(new)
        /\ \A t \in new : \E c \in AddedOn(d) :
             /\ Strip(t) = [title |-> bodies[c].title, look |-> bodies[c].look,
                           query |-> bodies[c].query, place |-> boards[d].place[c]]

\* "A ref-only chart round-trips as a clean no-op on push (it matches live by id with
\* nothing to edit)" (dashboards_surface.go:268-269): a push leaves a chart alone whose
\* body the file does not have.
RefOnlyUntouched ==
  [][changes' = changes /\ want # Absent =>
       \A t \in want.tiles :
         t.chart \in Charts /\ t.title = Blank /\ t.look = Blank /\ t.query = Blank =>
           bodies'[t.chart] = bodies[t.chart]]_dashVars

-----------------------------------------------------------------------------
(* The inductive invariant of the proofs (UpdatesProofs). *)

\* A file or listing has one entry for a chart, and names no chart that is yet to be made.
Sound(desired) ==
  desired # Absent =>
    /\ \A s, t \in desired.tiles : s.chart = t.chart /\ s.chart # None => s = t
    /\ \A c \in IdsIn(desired) : bodies[c] # Unborn

\* The charts of the dashboards were all made.
BoardsBorn == \A d \in Boards : boards[d] \in Board => \A c \in ChartsOf(d) : bodies[c] # Unborn

KnownInv ==
  /\ Sound(file) /\ Sound(want) /\ Sound(have)
  /\ have # Absent => \A h \in have.tiles : h.chart # None
  /\ BoardsBorn

\* The charts of the file that a push adds.
NewTiles == {t \in want.tiles : have = Absent \/ t.chart = None}

\* Chart c of dashboard d is what t asks for.
Carries(c, d, t) ==
  Strip(t) = [title |-> bodies[c].title, look |-> bodies[c].look,
              query |-> bodies[c].query, place |-> boards[d].place[c]]

\* The body of h's chart is what the listing showed; the body of t's says what t says.
AsListed(h) ==
  bodies[h.chart] \in Body /\ WantsInline(want) =>
    /\ bodies[h.chart].title = h.title
    /\ bodies[h.chart].query = h.query
    /\ bodies[h.chart].look = h.look

Agrees(t) ==
  bodies[t.chart] \in Body /\ WantsInline(want) =>
    /\ bodies[t.chart].title = t.title
    /\ t.asked => bodies[t.chart].query = t.query
    /\ t.look # Blank => bodies[t.chart].look = t.look

\* Since nobody else moves: the charts added are those the push is through with, one each;
\* of the others, each is as it was listed until its turn and as the file has it after; and
\* so are the fields and, if the sets of charts are the same, the places.
ChartsInStep ==
  /\ IsFiniteSet(AddedOn(target)) /\ IsFiniteSet(NewTiles \ todo)
  /\ Cardinality(AddedOn(target)) = Cardinality(NewTiles \ todo)
  /\ \A t \in NewTiles \ todo : \E c \in AddedOn(target) : Carries(c, target, t)
  /\ ~addedNew => NewTiles \subseteq todo
  /\ have # Absent =>
       /\ AddedOn(target) \cap IdsIn(want) = {}
       /\ allMatched => \A t \in want.tiles \ todo : t.chart \in IdsIn(have) \cup {None}
       /\ \A t \in want.tiles, h \in have.tiles : t.chart = h.chart =>
            IF t \in todo THEN AsListed(h) ELSE Agrees(t)

FieldsInStep ==
  /\ boards[target] \in Board
  /\ have = Absent \/ dashPc = "refresh" => boards[target].about = want.about
  /\ have # Absent /\ dashPc # "refresh" =>
       /\ boards[target].about = have.about
       /\ \A h \in have.tiles : boards[target].place[h.chart] = h.place
  /\ have # Absent /\ dashPc = "refresh" /\ SameMembership =>
       \A t \in want.tiles : t.chart \in ChartsOf(target) => boards[target].place[t.chart] = t.place

\* Where a push is, and what it has promised so far.
PushShape ==
  /\ dashPc # "idle" => ~pushed
  /\ dashPc = "create" => have = Absent /\ todo = want.tiles /\ ~addedNew
  /\ dashPc = "fields" => have # Absent
  /\ dashPc \in {"fields", "refresh"} => todo = {}

UndisturbedPush ==
  calm /\ dashPc \in {"charts", "fields", "refresh"} => ChartsInStep /\ FieldsInStep

CalmInv == PushShape /\ UndisturbedPush
=============================================================================
