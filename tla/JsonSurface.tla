------------------------------- MODULE JsonSurface -------------------------------
(***************************************************************************)
(* The closures Create, Update and Delete that jsonSurface gives to the    *)
(* reconcile engine (internal/mirror/jsonsurface.go), call by call, on a   *)
(* collection that others change meanwhile and whose listing may lag.      *)
(* A create is told nothing usable by the server: it finds its object      *)
(* again by display name. Files hold secrets masked; what is sent must     *)
(* not.                                                                    *)
(*                                                                         *)
(* A body has a name, a secret in a scalar field (token) and one inside an *)
(* array (list). A field may be missing.                                   *)
(***************************************************************************)
EXTENDS Naturals

CONSTANTS
  Ids,       \* identities an object can have
  Names, Secrets,
  Locals,    \* bodies a file of the operator may hold
  UiBodies,  \* bodies others make
  Kinds,     \* kinds of surface, see Kind
  Faults,    \* what may go wrong, see AllFaults
  MaxCalls,  \* bound: calls of a closure
  MaxEdits,  \* bound: changes made by others
  Mask,      \* redactedMarker
  Missing, NoId, Unborn, Gone

AllFaults == {"api",     \* a call is refused
              "lost",    \* a mutation takes effect but returns an error
              "read",    \* a list or a get fails
              "lag",     \* a new object is listed later
              "others"}  \* others change objects while a closure runs

\* getOne: the surface reads full bodies by id, its list has summaries; keyed: a
\* file carries the id and the create call saves under it; idless: the list has
\* no ids.
Kind == [getOne : BOOLEAN, keyed : BOOLEAN, idless : BOOLEAN]

Body == [name : Names, token : Secrets \cup {Mask, Missing}, list : Secrets \cup {Mask, Missing}]
Masked(b) == Mask \in {b.token, b.list}

ASSUME SurfaceAssumption ==
  /\ Names # {}
  /\ {Mask, Missing} \cap Secrets = {} /\ Mask # Missing
  /\ NoId \notin Ids
  /\ {Unborn, Gone} \cap Body = {} /\ Unborn # Gone
  /\ Locals \subseteq Body
  /\ UiBodies \subseteq {b \in Body : ~Masked(b)}
  /\ Kinds \subseteq {k \in Kind : ~(k.keyed /\ k.idless)}
  /\ Faults \subseteq AllFaults
  /\ MaxCalls \in Nat /\ MaxEdits \in Nat

VARIABLES
  kind,
  live,      \* what each identity holds
  indexed,   \* identities the listing knows of
  pc,        \* the next call of the running closure
  op,        \* the closure
  local,     \* the file's body
  key,       \* create: the id in that body; update, delete: the object
  raw,       \* update: the body of the object as the plan listed it
  taken,     \* create: ids that had the name before (beforeNameIDs)
  found,     \* create: the object resolved
  item,      \* create: its entry in the list
  answer,    \* what the closure returned
  calls, edits,
  (* History, read by properties only. *)
  made,      \* create: the object the call made
  sure,      \* create: the listing before was whole and nobody made a namesake since
  calm       \* nobody changed anything and no read failed during the closure

closure == <<op, local, key>>
search == <<taken, found, item>>
counters == <<calls, edits>>
history == <<made, sure, calm>>
vars == <<kind, live, indexed, pc, closure, raw, search, answer, counters, history>>

-----------------------------------------------------------------------------
(* Data *)

Exists(i) == live[i] \notin {Unborn, Gone}
Existing == {i \in Ids : Exists(i)}

\* List: the objects that are indexed, and the ids it has of them.
Shown == Existing \cap indexed
ShownIds == IF kind.idless THEN {} ELSE Shown
Namesakes(name) == {i \in Shown : live[i].name = name}

\* What the array of an object and the token scalar become on disk.
Redacted(b) ==
  [name |-> b.name,
   token |-> IF b.token = Missing THEN Missing ELSE Mask,
   list |-> IF b.list = Missing THEN Missing ELSE Mask]

\* A list item stands for the object, without its details if they are read by id.
Entry(b) == IF kind.getOne THEN [b EXCEPT !.token = Missing, !.list = Missing] ELSE b

\* DeepMerge with the skip of masked scalars: keys the file lacks and a masked token
\* keep the live value (null, here Missing, if there is none), an array is replaced
\* as it is.
Merged(old, new) ==
  [name |-> new.name,
   token |-> IF new.token \in {Mask, Missing} THEN old.token ELSE new.token,
   list |-> IF new.list = Missing THEN old.list ELSE new.list]

\* Mutant: masks inside arrays are not looked for.
UnsendableScalar(b) == b.token = Mask

\* ContainsValue(body, redactedMarker): such a body is not sent.
Unsendable(b) == Masked(b)

\* Mutant: no id is remembered.
TakenNone(name) == {}

\* The ids that carry the name before a create.
Taken(name) == IF kind.idless THEN {} ELSE Namesakes(name)

\* Mutant: the guard looks at objects of the same name only.
ClashesByName(k) == k \in Taken(local.name)

\* A create whose file names an object that is listed would overwrite it.
Clashes(k) == k \in ShownIds

\* The answers.
NoAnswer == [what |-> "none", id |-> NoId, body |-> Missing]
Failed == [what |-> "failed", id |-> NoId, body |-> Missing]
Refused == [what |-> "refused", id |-> NoId, body |-> Missing]

\* Mutant: the file gets the body that was sent.
DoneUnread(i, b) == [what |-> "done", id |-> i, body |-> local]

Done(i, b) == [what |-> "done", id |-> i, body |-> Redacted(b)]

NoBody == [name |-> CHOOSE n \in Names : TRUE, token |-> Missing, list |-> Missing]

Init ==
  /\ kind \in Kinds
  /\ live \in [Ids -> UiBodies \cup {Unborn}]
  /\ indexed = Ids
  /\ pc = "idle" /\ op = "none"
  /\ local = NoBody /\ key = NoId /\ raw = NoBody
  /\ taken = {} /\ found = NoId /\ item = NoBody
  /\ answer = NoAnswer
  /\ calls = 0 /\ edits = 0
  /\ made = NoId /\ sure = FALSE /\ calm = TRUE

-----------------------------------------------------------------------------
(* A closure begins and ends. The engine runs one at a time. *)

Begin(closureOp, body, k) ==
  /\ pc = "idle"
  /\ calls < MaxCalls
  /\ calls' = calls + 1
  /\ op' = closureOp /\ local' = body /\ key' = k
  /\ made' = NoId /\ sure' = FALSE /\ calm' = TRUE
  /\ UNCHANGED <<kind, live, indexed, edits>>

NoSearch == taken' = {} /\ found' = NoId /\ item' = NoBody

Return(a) ==
  /\ pc' = "idle"
  /\ answer' = a
  /\ raw' = NoBody
  /\ NoSearch

Proceed(to) == pc' = to /\ UNCHANGED <<raw, search, answer>>

\* createObject: a body with a mask is refused, other bodies wait for the snapshot.
BeginCreate(body, k) ==
  /\ k \in IF kind.keyed THEN Ids \cup {NoId} ELSE {NoId}
  /\ Begin("create", body, k)
  /\ IF Unsendable(body) THEN Return(Refused)
     ELSE Proceed("snapshot")

\* updateObject, on an object as BuildPlan listed it.
BeginUpdate(i, body) ==
  /\ i \in Shown
  /\ Begin("update", body, i)
  /\ IF Unsendable(Merged(live[i], body)) THEN Return(Refused)
     ELSE pc' = "call" /\ raw' = live[i] /\ UNCHANGED <<search, answer>>

BeginDelete(i) ==
  /\ i \in Shown
  /\ Begin("delete", NoBody, i)
  /\ Proceed("call")

-----------------------------------------------------------------------------
(* createObject *)

Snapshot ==
  /\ pc = "snapshot"
  /\ IF Clashes(key)
     THEN Return(Refused) /\ UNCHANGED sure
     ELSE /\ pc' = "call"
          /\ taken' = Taken(local.name)
          /\ sure' = (Existing \subseteq indexed)
          /\ UNCHANGED <<raw, found, item, answer>>
  /\ UNCHANGED <<kind, live, indexed, closure, counters, made, calm>>

\* The listing before or after the create fails.
ListFails ==
  /\ "read" \in Faults
  /\ pc \in {"snapshot", "resolve"}
  /\ Return(Failed)
  /\ UNCHANGED <<kind, live, indexed, closure, counters, history>>

\* The object is saved under the file's id, or under one the server hands out.
Saved(i) == IF key # NoId THEN i = key ELSE live[i] = Unborn

SaveNew(i) ==
  /\ pc = "call" /\ op = "create"
  /\ Saved(i)
  /\ live' = [live EXCEPT ![i] = local]
  /\ indexed' \in {indexed \cup {i}} \cup (IF "lag" \in Faults /\ ~Exists(i) THEN {indexed \ {i}} ELSE {})
  /\ made' = i
  /\ UNCHANGED <<kind, closure, counters, sure, calm>>

CreateCall(i) == SaveNew(i) /\ Proceed("resolve")

\* resolveNewByName: the first entry of that name whose id was not there before.
Resolve(i) ==
  /\ pc = "resolve"
  /\ ~kind.idless
  /\ i \in Namesakes(local.name) \ taken
  /\ found' = i
  /\ item' = Entry(live[i])
  /\ pc' = "fetch"
  /\ UNCHANGED <<kind, live, indexed, closure, raw, taken, answer, counters, history>>

\* An entry without an id is taken for what it is.
ResolveIdless(i) ==
  /\ pc = "resolve"
  /\ kind.idless
  /\ i \in Namesakes(local.name)
  /\ Return(Done(NoId, Entry(live[i])))
  /\ UNCHANGED <<kind, live, indexed, closure, counters, history>>

\* The object is not listed, or not under this name: a lag, or somebody was faster.
NotFound ==
  /\ pc = "resolve"
  /\ Namesakes(local.name) \ taken = {}
  /\ Return(Failed)
  /\ UNCHANGED <<kind, live, indexed, closure, counters, history>>

\* fetchAndBuild: the full body, or the entry if there is none to be had.
Fetch ==
  /\ pc = "fetch"
  /\ \/ /\ kind.getOne /\ Exists(found)
        /\ Return(Done(found, live[found]))
        /\ UNCHANGED calm
     \/ /\ kind.getOne
        /\ "read" \in Faults \/ ~Exists(found)
        /\ Return(Done(found, item))
        /\ calm' = FALSE
     \/ /\ ~kind.getOne
        /\ Return(Done(found, item))
        /\ UNCHANGED calm
  /\ UNCHANGED <<kind, live, indexed, closure, counters, made, sure>>

-----------------------------------------------------------------------------
(* updateObject and deleteObject *)

Overwrite ==
  /\ pc = "call" /\ op = "update"
  /\ Exists(key)
  /\ live' = [live EXCEPT ![key] = Merged(raw, local)]
  /\ UNCHANGED <<kind, indexed, closure, counters, history>>

UpdateCall == Overwrite /\ Proceed("reread")

\* The full body if it can be read, else the body that was sent.
Reread ==
  /\ pc = "reread"
  /\ \/ /\ kind.getOne /\ Exists(key)
        /\ Return(Done(key, live[key]))
     \/ /\ kind.getOne => "read" \in Faults \/ ~Exists(key)
        /\ Return(Done(key, Merged(raw, local)))
  /\ UNCHANGED <<kind, live, indexed, closure, counters, history>>

Erase ==
  /\ pc = "call" /\ op = "delete"
  /\ Exists(key)
  /\ live' = [live EXCEPT ![key] = Gone]
  /\ UNCHANGED <<kind, indexed, closure, counters, history>>

DeleteCall == Erase /\ Return(Done(key, NoBody))

\* The object is gone, or the collection is full.
Hopeless ==
  /\ pc = "call"
  /\ IF op = "create" THEN ~\E i \in Ids : Saved(i) ELSE ~Exists(key)

CallRefused ==
  /\ pc = "call"
  /\ "api" \in Faults \/ Hopeless
  /\ Return(Failed)
  /\ UNCHANGED <<kind, live, indexed, closure, counters, history>>

\* A mutation takes effect and returns an error.
CallLost ==
  /\ "lost" \in Faults
  /\ (\E i \in Ids : SaveNew(i)) \/ Overwrite \/ Erase
  /\ Return(Failed)

-----------------------------------------------------------------------------
(* Others *)

UiChange(i, to) ==
  /\ pc = "idle" \/ "others" \in Faults
  /\ edits < MaxEdits
  /\ edits' = edits + 1
  /\ live[i] # Gone /\ live[i] # to
  /\ to = Gone => Exists(i)
  /\ live' = [live EXCEPT ![i] = to]
  /\ indexed' \in {indexed \cup {i}} \cup (IF "lag" \in Faults /\ ~Exists(i) THEN {indexed \ {i}} ELSE {})
  /\ sure' = (sure /\ (to = Gone \/ (Exists(i) /\ to.name # local.name)))
  /\ calm' = FALSE
  /\ UNCHANGED <<kind, pc, closure, raw, search, answer, calls, made>>

\* The listing catches up.
Index(i) ==
  /\ i \notin indexed
  /\ indexed' = indexed \cup {i}
  /\ UNCHANGED <<kind, live, pc, closure, raw, search, answer, counters, history>>

-----------------------------------------------------------------------------

Start == \/ \E body \in Locals, k \in Ids \cup {NoId} : BeginCreate(body, k)
         \/ \E i \in Ids, body \in Locals : BeginUpdate(i, body)
         \/ \E i \in Ids : BeginDelete(i)

Progress == \/ Snapshot
            \/ \E i \in Ids : CreateCall(i) \/ Resolve(i) \/ ResolveIdless(i)
            \/ NotFound \/ Fetch
            \/ UpdateCall \/ Reread \/ DeleteCall
            \/ Hopeless /\ CallRefused

CallStep == Progress \/ ListFails \/ CallRefused \/ CallLost

Environment == \E i \in Ids : Index(i) \/ \E to \in UiBodies \cup {Gone} : UiChange(i, to)

Next == Start \/ CallStep \/ Environment

Spec == Init /\ [][Next]_vars

-----------------------------------------------------------------------------
(* Properties *)

\* Every variable has its type.
TypeOK ==
  /\ kind \in Kinds
  /\ live \in [Ids -> Body \cup {Unborn, Gone}]
  /\ indexed \subseteq Ids
  /\ pc \in {"idle", "snapshot", "call", "resolve", "fetch", "reread"}
  /\ op \in {"none", "create", "update", "delete"}
  /\ local \in Body /\ raw \in Body /\ item \in Body
  /\ key \in Ids \cup {NoId} /\ found \in Ids \cup {NoId} /\ made \in Ids \cup {NoId}
  /\ taken \subseteq Ids
  /\ answer \in [what : {"none", "done", "failed", "refused"}, id : Ids \cup {NoId},
                 body : Body \cup {Missing}]
  /\ calls \in 0..MaxCalls /\ edits \in 0..MaxEdits
  /\ sure \in BOOLEAN /\ calm \in BOOLEAN

\* No mask ever stands live for a secret: "never write a redaction marker back over a
\* real secret" (DeepMerge), whatever files hold, others rotate and reads miss.
NoMaskLive == \A i \in Existing : live[i].token # Mask /\ live[i].list # Mask

\* A create that reports success reports the object it made, "NEVER a known
\* pre-existing namesake" (resolveNewByName), whenever the listing before showed
\* every object and nobody else made or renamed one since.
EchoIsOwn ==
  answer.what = "done" /\ pc = "idle" /\ op = "create" /\ sure /\ ~kind.idless
    => answer.id = made

\* "create->list indexing lag yields a clean not-yet-visible error rather than
\* silently tracking the wrong object" (resolveNewByName): with a lag, and nothing
\* else going wrong meanwhile, a create that reports success reports its own object.
LagFailsClean ==
  answer.what = "done" /\ pc = "idle" /\ op = "create" /\ calm /\ ~kind.idless
    => answer.id = made

\* A sure create overwrites no object ("creating it would overwrite
\* that live object", the id-exists guard of createObject).
CreateIsNew ==
  [][\A i \in Ids : SaveNew(i) /\ sure => ~Exists(i)]_vars

\* The body a successful create or update leaves in the file is what is live, as a
\* pull would write it, unless somebody interfered or a get failed: no phantom
\* difference stays behind.
Settled ==
  answer.what = "done" /\ pc = "idle" /\ op \in {"create", "update"} /\ calm
    => LET i == IF op = "update" THEN key ELSE made IN
       (op = "create" => sure /\ ~kind.idless) => answer.body = Redacted(live[i])

-----------------------------------------------------------------------------
(* The inductive invariant of the proofs (JsonSurfaceProofs). *)

\* Which call belongs to which closure, and on what.
CallInv ==
  /\ pc \in {"snapshot", "resolve", "fetch"} => op = "create"
  /\ pc = "reread" => op = "update"
  /\ pc # "idle" => op # "none"
  /\ op \in {"update", "delete"} => key \in Ids
  /\ op = "create" /\ key # NoId => kind.keyed
  /\ pc \in {"resolve", "fetch"} => made \in Ids
  /\ pc = "fetch" => found \in Ids /\ ~kind.idless

\* What is about to be sent, and what is live, holds no mask.
MaskInv ==
  /\ NoMaskLive
  /\ op = "create" /\ pc # "idle" => ~Masked(local)
  /\ op = "update" /\ pc # "idle" => ~Masked(Merged(raw, local))

\* While a create is sure, every object of its name was there before or is its own.
SureInv ==
  /\ sure => op = "create" /\ pc # "snapshot"
  /\ sure /\ pc = "call" => key \notin Existing
  /\ sure /\ ~kind.idless /\ pc \in {"call", "resolve", "fetch"} =>
       \A i \in Existing : live[i].name = local.name =>
          i \in taken \/ (pc # "call" /\ i = made)
  /\ sure /\ pc = "fetch" => found = made
  /\ EchoIsOwn

\* While nobody interferes, live is what the closure made of it.
CalmInv ==
  /\ calm /\ pc = "fetch" /\ sure => Exists(made) /\ (~kind.getOne => item = live[made])
  /\ calm /\ pc = "reread" => live[key] = Merged(raw, local)
  /\ Settled
=============================================================================
