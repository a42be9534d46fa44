----------------------------- MODULE JsonSurfaceProofs -----------------------------
(***************************************************************************)
(* Theorems about JsonSurface, for every collection, kind of surface, file *)
(* and set of faults.                                                      *)
(***************************************************************************)
EXTENDS JsonSurface, TLAPS

IInv == TypeOK /\ CallInv /\ MaskInv /\ SureInv /\ CalmInv

-----------------------------------------------------------------------------
(* Bodies *)

\* The operators on bodies return bodies.
LEMMA BodyTypes ==
  /\ NoBody \in Body
  /\ \A b \in Body : Redacted(b) \in Body /\ Entry(b) \in Body
  /\ \A old, new \in Body : Merged(old, new) \in Body
  /\ \A i \in Ids \cup {NoId}, b \in Body : Done(i, b).what = "done"
<1>1. NoBody \in Body
  <2>1. (CHOOSE n \in Names : TRUE) \in Names
    BY SurfaceAssumption
  <2> QED BY <2>1 DEF NoBody, Body
<1> QED BY <1>1 DEF Redacted, Entry, Merged, Done, Body

\* The answers are answers.
AnswerType == [what : {"none", "done", "failed", "refused"}, id : Ids \cup {NoId},
               body : Body \cup {Missing}]

LEMMA AnswerTypes ==
  /\ NoAnswer \in AnswerType /\ Failed \in AnswerType /\ Refused \in AnswerType
  /\ \A i \in Ids \cup {NoId}, b \in Body : Done(i, b) \in AnswerType
  /\ Failed.what = "failed" /\ Refused.what = "refused" /\ NoAnswer.what = "none"
<1> QED BY BodyTypes DEF NoAnswer, Failed, Refused, Done, AnswerType

\* Something that exists is a body.
LEMMA ExistsBody == TypeOK => \A i \in Ids : Exists(i) => live[i] \in Body
BY DEF TypeOK, Exists

\* Bodies are no placeholders.
LEMMA BodyExists == \A b \in Body : b # Unborn /\ b # Gone
BY SurfaceAssumption

-----------------------------------------------------------------------------
(* Types *)

LEMMA InitType == Init => TypeOK
<1> SUFFICES ASSUME Init PROVE TypeOK
  OBVIOUS
<1>1. UiBodies \subseteq Body
  BY SurfaceAssumption
<1>2. calls \in 0..MaxCalls /\ edits \in 0..MaxEdits
  BY SurfaceAssumption DEF Init
<1>3. live \in [Ids -> Body \cup {Unborn, Gone}]
  BY <1>1 DEF Init
<1>4. answer \in AnswerType
  BY AnswerTypes DEF Init
<1> QED BY <1>2, <1>3, <1>4, BodyTypes DEF Init, TypeOK, AnswerType

\* A closure that returns leaves its locals empty.
LEMMA ReturnType ==
  ASSUME NEW a \in AnswerType, Return(a)
  PROVE  pc' = "idle" /\ answer' = a /\ answer' \in AnswerType /\ raw' \in Body
         /\ taken' = {} /\ found' = NoId /\ item' \in Body
BY BodyTypes DEF Return, NoSearch

LEMMA StartType == TypeOK /\ Start => TypeOK'
<1> SUFFICES ASSUME TypeOK, Start PROVE TypeOK'
  OBVIOUS
<1>1. ASSUME NEW body \in Locals, NEW k \in Ids \cup {NoId}, BeginCreate(body, k)
      PROVE  TypeOK'
  <2>1. body \in Body
    BY SurfaceAssumption
  <2>2. calls' \in 0..MaxCalls
    BY <1>1, SurfaceAssumption DEF BeginCreate, Begin, TypeOK
  <2>3. CASE Return(Refused)
    BY <2>1, <2>2, <2>3, <1>1, ReturnType, AnswerTypes DEF BeginCreate, Begin, TypeOK, AnswerType
  <2>4. CASE Proceed("snapshot")
    BY <2>1, <2>2, <2>4, <1>1 DEF BeginCreate, Begin, Proceed, search, TypeOK
  <2> QED BY <1>1, <2>3, <2>4 DEF BeginCreate
<1>2. ASSUME NEW i \in Ids, NEW body \in Locals, BeginUpdate(i, body)
      PROVE  TypeOK'
  <2>1. body \in Body /\ live[i] \in Body
    BY <1>2, SurfaceAssumption, ExistsBody DEF BeginUpdate, Shown, Existing
  <2>2. calls' \in 0..MaxCalls
    BY <1>2, SurfaceAssumption DEF BeginUpdate, Begin, TypeOK
  <2>3. CASE Return(Refused)
    BY <2>1, <2>2, <2>3, <1>2, ReturnType, AnswerTypes DEF BeginUpdate, Begin, TypeOK, AnswerType
  <2>4. CASE pc' = "call" /\ raw' = live[i] /\ UNCHANGED <<search, answer>>
    BY <2>1, <2>2, <2>4, <1>2 DEF BeginUpdate, Begin, search, TypeOK
  <2> QED BY <1>2, <2>3, <2>4 DEF BeginUpdate
<1>3. ASSUME NEW i \in Ids, BeginDelete(i)
      PROVE  TypeOK'
  <2>2. calls' \in 0..MaxCalls
    BY <1>3, SurfaceAssumption DEF BeginDelete, Begin, TypeOK
  <2> QED BY <2>2, <1>3, BodyTypes DEF BeginDelete, Begin, Proceed, search, TypeOK
<1> QED BY <1>1, <1>2, <1>3 DEF Start

LEMMA ListedBody == TypeOK => \A i \in Ids, name \in Names : i \in Namesakes(name) =>
                      /\ Exists(i) /\ live[i] \in Body /\ live[i].name = name /\ i \in indexed
BY ExistsBody DEF Namesakes, Shown, Existing

\* What a call of any kind saves is a body.
LEMMA SaveNewType == ASSUME TypeOK, NEW i \in Ids, SaveNew(i)
                     PROVE  /\ live' \in [Ids -> Body \cup {Unborn, Gone}]
                            /\ indexed' \subseteq Ids /\ made' \in Ids
BY DEF SaveNew, TypeOK

LEMMA OverwriteType == ASSUME TypeOK, Overwrite
                       PROVE  live' \in [Ids -> Body \cup {Unborn, Gone}]
BY BodyTypes DEF Overwrite, TypeOK

LEMMA EraseType == ASSUME TypeOK, Erase
                   PROVE  live' \in [Ids -> Body \cup {Unborn, Gone}]
BY DEF Erase, TypeOK

LEMMA CallStepType == TypeOK /\ CallInv /\ CallStep => TypeOK'
<1> SUFFICES ASSUME TypeOK, CallInv, CallStep PROVE TypeOK'
  OBVIOUS
<1> USE DEF closure, search, counters, history
<1>1. CASE Snapshot
  <2>1. CASE Return(Refused) /\ UNCHANGED sure
    BY <1>1, <2>1, ReturnType, AnswerTypes DEF Snapshot, TypeOK, AnswerType
  <2>2. CASE /\ pc' = "call"
             /\ taken' = Taken(local.name)
             /\ sure' = (Existing \subseteq indexed)
             /\ UNCHANGED <<raw, found, item, answer>>
    <3>1. taken' \subseteq Ids
      BY <2>2 DEF Taken, Namesakes, Shown, Existing
    <3>2. sure' \in BOOLEAN
      BY <2>2
    <3> QED BY <1>1, <2>2, <3>1, <3>2 DEF Snapshot, TypeOK
  <2> QED BY <1>1, <2>1, <2>2 DEF Snapshot
<1>2. CASE ListFails
  BY <1>2, ReturnType, AnswerTypes DEF ListFails, TypeOK, AnswerType
<1>3. ASSUME NEW i \in Ids, CreateCall(i) PROVE TypeOK'
  BY <1>3, SaveNewType DEF CreateCall, SaveNew, Proceed, TypeOK
<1>4. ASSUME NEW i \in Ids, Resolve(i) PROVE TypeOK'
  <2>1. live[i] \in Body
    BY <1>4, ExistsBody DEF Resolve, Namesakes, Shown, Existing
  <2> QED BY <1>4, <2>1, BodyTypes DEF Resolve, TypeOK
<1>5. ASSUME NEW i \in Ids, ResolveIdless(i) PROVE TypeOK'
  <2>1. Entry(live[i]) \in Body
    BY <1>5, ExistsBody, BodyTypes DEF ResolveIdless, Namesakes, Shown, Existing
  <2>2. Done(NoId, Entry(live[i])) \in AnswerType
    BY <2>1, AnswerTypes
  <2> QED BY <1>5, <2>2, ReturnType DEF ResolveIdless, TypeOK, AnswerType
<1>6. CASE NotFound
  BY <1>6, ReturnType, AnswerTypes DEF NotFound, TypeOK, AnswerType
<1>7. CASE Fetch
  <2>1. found \in Ids /\ item \in Body
    BY <1>7 DEF Fetch, CallInv, TypeOK
  <2>2. PICK b \in Body : Return(Done(found, b))
    BY <1>7, <2>1, ExistsBody DEF Fetch
  <2>3. Done(found, b) \in AnswerType
    BY <2>1, AnswerTypes
  <2>4. calm' \in BOOLEAN
    BY <1>7 DEF Fetch, TypeOK
  <2> QED BY <1>7, <2>2, <2>3, <2>4, ReturnType DEF Fetch, TypeOK, AnswerType
<1>8. CASE UpdateCall
  BY <1>8, OverwriteType DEF UpdateCall, Overwrite, Proceed, TypeOK
<1>9. CASE Reread
  <2>1. key \in Ids /\ Merged(raw, local) \in Body
    BY <1>9, BodyTypes DEF Reread, CallInv, TypeOK
  <2>2. PICK b \in Body : Return(Done(key, b))
    BY <1>9, <2>1, ExistsBody DEF Reread
  <2>3. Done(key, b) \in AnswerType
    BY <2>1, AnswerTypes
  <2> QED BY <1>9, <2>2, <2>3, ReturnType DEF Reread, TypeOK, AnswerType
<1>10. CASE DeleteCall
  <2>1. Done(key, NoBody) \in AnswerType
    BY AnswerTypes, BodyTypes DEF TypeOK
  <2> QED BY <1>10, <2>1, EraseType, ReturnType DEF DeleteCall, Erase, TypeOK, AnswerType
<1>11. CASE CallRefused
  BY <1>11, ReturnType, AnswerTypes DEF CallRefused, TypeOK, AnswerType
<1>12. CASE CallLost
  <2>1. Failed \in AnswerType /\ Return(Failed)
    BY <1>12, AnswerTypes DEF CallLost
  <2>2. ASSUME NEW i \in Ids, SaveNew(i) PROVE TypeOK'
    BY <2>1, <2>2, SaveNewType, ReturnType DEF SaveNew, TypeOK, AnswerType
  <2>3. CASE Overwrite
    BY <2>1, <2>3, OverwriteType, ReturnType DEF Overwrite, TypeOK, AnswerType
  <2>4. CASE Erase
    BY <2>1, <2>4, EraseType, ReturnType DEF Erase, TypeOK, AnswerType
  <2> QED BY <1>12, <2>2, <2>3, <2>4 DEF CallLost
<1> QED BY <1>1, <1>2, <1>3, <1>4, <1>5, <1>6, <1>7, <1>8, <1>9, <1>10, <1>11, <1>12
     DEF CallStep, Progress

LEMMA EnvironmentType == TypeOK /\ Environment => TypeOK'
<1> SUFFICES ASSUME TypeOK, Environment PROVE TypeOK'
  OBVIOUS
<1> USE DEF closure, search, counters, history
<1>1. ASSUME NEW i \in Ids, Index(i) PROVE TypeOK'
  BY <1>1 DEF Index, TypeOK
<1>2. ASSUME NEW i \in Ids, NEW to \in UiBodies \cup {Gone}, UiChange(i, to) PROVE TypeOK'
  <2>1. edits' \in 0..MaxEdits
    BY <1>2, SurfaceAssumption DEF UiChange, TypeOK
  <2>2. live' \in [Ids -> Body \cup {Unborn, Gone}]
    BY <1>2, SurfaceAssumption DEF UiChange, TypeOK
  <2>3. sure' \in BOOLEAN /\ calm' \in BOOLEAN
    BY <1>2 DEF UiChange
  <2> QED BY <1>2, <2>1, <2>2, <2>3 DEF UiChange, TypeOK
<1> QED BY <1>1, <1>2 DEF Environment

-----------------------------------------------------------------------------
(* Which call belongs to which closure *)

LEMMA CallOrder == TypeOK /\ CallInv /\ [Next]_vars => CallInv'
<1> SUFFICES ASSUME TypeOK, CallInv, [Next]_vars PROVE CallInv'
  OBVIOUS
<1> USE DEF closure, search, counters, history, Return, NoSearch, Proceed
<1>1. ASSUME NEW body \in Locals, NEW k \in Ids \cup {NoId}, BeginCreate(body, k) PROVE CallInv'
  BY <1>1 DEF BeginCreate, Begin, CallInv
<1>2. ASSUME NEW i \in Ids, NEW body \in Locals, BeginUpdate(i, body) PROVE CallInv'
  BY <1>2 DEF BeginUpdate, Begin, CallInv
<1>3. ASSUME NEW i \in Ids, BeginDelete(i) PROVE CallInv'
  BY <1>3 DEF BeginDelete, Begin, CallInv
<1>4. CASE Snapshot
  BY <1>4 DEF Snapshot, CallInv
<1>5. CASE ListFails
  BY <1>5 DEF ListFails, CallInv
<1>6. ASSUME NEW i \in Ids, CreateCall(i) PROVE CallInv'
  BY <1>6 DEF CreateCall, SaveNew, CallInv
<1>7. ASSUME NEW i \in Ids, Resolve(i) PROVE CallInv'
  BY <1>7 DEF Resolve, CallInv
<1>8. ASSUME NEW i \in Ids, ResolveIdless(i) PROVE CallInv'
  BY <1>8 DEF ResolveIdless, CallInv
<1>9. CASE NotFound
  BY <1>9 DEF NotFound, CallInv
<1>10. CASE Fetch
  BY <1>10 DEF Fetch, CallInv
<1>11. CASE UpdateCall
  BY <1>11 DEF UpdateCall, Overwrite, CallInv
<1>12. CASE Reread
  BY <1>12 DEF Reread, CallInv
<1>13. CASE DeleteCall
  BY <1>13 DEF DeleteCall, Erase, CallInv
<1>14. CASE CallRefused
  BY <1>14 DEF CallRefused, CallInv
<1>15. CASE CallLost
  <2>1. kind' = kind /\ closure' = closure /\ pc' = "idle"
    BY <1>15 DEF CallLost, SaveNew, Overwrite, Erase
  <2> QED BY <2>1 DEF CallInv
<1>16. ASSUME NEW i \in Ids, Index(i) PROVE CallInv'
  BY <1>16 DEF Index, CallInv
<1>17. ASSUME NEW i \in Ids, NEW to \in UiBodies \cup {Gone}, UiChange(i, to) PROVE CallInv'
  BY <1>17 DEF UiChange, CallInv
<1>18. CASE UNCHANGED vars
  BY <1>18 DEF vars, CallInv
<1> QED BY <1>1, <1>2, <1>3, <1>4, <1>5, <1>6, <1>7, <1>8, <1>9, <1>10, <1>11, <1>12, <1>13,
           <1>14, <1>15, <1>16, <1>17, <1>18
     DEF Next, Start, CallStep, Progress, Environment

-----------------------------------------------------------------------------
(* Masks *)

\* A live object changes to a body without a mask, or goes.
LEMMA CleanChange ==
  ASSUME TypeOK, NoMaskLive, NEW i \in Ids, NEW b,
         b \in {Unborn, Gone} \/ (b \in Body /\ ~Masked(b)),
         live' = [live EXCEPT ![i] = b]
  PROVE  NoMaskLive'
BY BodyExists DEF NoMaskLive, Existing, Exists, Masked, TypeOK

\* Nothing live changes.
LEMMA SameMasks == NoMaskLive /\ UNCHANGED live => NoMaskLive'
BY DEF NoMaskLive, Existing, Exists

LEMMA Masks == TypeOK /\ CallInv /\ MaskInv /\ [Next]_vars => MaskInv'
<1> SUFFICES ASSUME TypeOK, CallInv, MaskInv, [Next]_vars PROVE MaskInv'
  OBVIOUS
<1> USE DEF closure, search, counters, history, Return, NoSearch, Proceed
<1>1. ASSUME NEW body \in Locals, NEW k \in Ids \cup {NoId}, BeginCreate(body, k) PROVE MaskInv'
  BY <1>1, SameMasks DEF BeginCreate, Begin, MaskInv, Unsendable
<1>2. ASSUME NEW i \in Ids, NEW body \in Locals, BeginUpdate(i, body) PROVE MaskInv'
  BY <1>2, SameMasks DEF BeginUpdate, Begin, MaskInv, Unsendable
<1>3. ASSUME NEW i \in Ids, BeginDelete(i) PROVE MaskInv'
  BY <1>3, SameMasks DEF BeginDelete, Begin, MaskInv
<1>4. ASSUME NEW i \in Ids, SaveNew(i) PROVE NoMaskLive' /\ op = "create" /\ ~Masked(local)
  BY <1>4, CleanChange DEF SaveNew, MaskInv, TypeOK
<1>5. ASSUME Overwrite PROVE NoMaskLive' /\ op = "update" /\ ~Masked(Merged(raw, local))
  <2>1. key \in Ids /\ Merged(raw, local) \in Body /\ ~Masked(Merged(raw, local))
    BY <1>5, BodyTypes DEF Overwrite, CallInv, MaskInv, TypeOK
  <2> QED BY <1>5, <2>1, CleanChange DEF Overwrite, MaskInv
<1>6. ASSUME Erase PROVE NoMaskLive' /\ op = "delete"
  <2>1. key \in Ids
    BY <1>6 DEF Erase, CallInv
  <2> QED BY <1>6, <2>1, CleanChange DEF Erase, MaskInv
<1>7. ASSUME NEW i \in Ids, CreateCall(i) PROVE MaskInv'
  BY <1>4, <1>7 DEF CreateCall, SaveNew, MaskInv
<1>8. CASE UpdateCall
  BY <1>5, <1>8 DEF UpdateCall, Overwrite, MaskInv
<1>9. CASE DeleteCall
  BY <1>6, <1>9 DEF DeleteCall, Erase, MaskInv
<1>10. CASE CallLost
  <2>1. pc' = "idle"
    BY <1>10 DEF CallLost
  <2>2. NoMaskLive'
    BY <1>4, <1>5, <1>6, <1>10 DEF CallLost
  <2> QED BY <2>1, <2>2 DEF MaskInv
<1>11. ASSUME NEW i \in Ids, NEW to \in UiBodies \cup {Gone}, UiChange(i, to) PROVE MaskInv'
  <2>1. to \in {Unborn, Gone} \/ (to \in Body /\ ~Masked(to))
    BY SurfaceAssumption
  <2>2. NoMaskLive'
    BY <1>11, <2>1, CleanChange DEF UiChange, MaskInv
  <2> QED BY <1>11, <2>2 DEF UiChange, MaskInv
<1>12. CASE Snapshot \/ ListFails \/ NotFound \/ Fetch \/ Reread \/ CallRefused
            \/ \E i \in Ids : Resolve(i) \/ ResolveIdless(i) \/ Index(i)
  <2>1. UNCHANGED <<live, closure>> /\ (pc' = "idle" \/ (pc # "idle" /\ UNCHANGED raw))
    BY <1>12 DEF Snapshot, ListFails, NotFound, Fetch, Reread, CallRefused, Resolve, ResolveIdless,
                 Index, CallInv
  <2> QED BY <2>1, SameMasks DEF MaskInv
<1>13. CASE UNCHANGED vars
  BY <1>13, SameMasks DEF vars, MaskInv
<1> QED BY <1>1, <1>2, <1>3, <1>7, <1>8, <1>9, <1>10, <1>11, <1>12, <1>13
     DEF Next, Start, CallStep, Progress, Environment

-----------------------------------------------------------------------------
(* Whose object a create reports *)

\* A closure that returns without having found an object by its id claims nothing.
LEMMA Quiet ==
  ASSUME SureInv, pc' = "idle", UNCHANGED <<kind, op, key, sure>>,
         answer'.what # "done" \/ kind.idless
  PROVE  SureInv'
BY DEF SureInv, EchoIsOwn

LEMMA NotSure == ASSUME sure' = FALSE PROVE SureInv'
BY DEF SureInv, EchoIsOwn

LEMMA Sureness == TypeOK /\ CallInv /\ SureInv /\ [Next]_vars => SureInv'
<1> SUFFICES ASSUME TypeOK, CallInv, SureInv, [Next]_vars PROVE SureInv'
  OBVIOUS
<1> USE DEF closure, search, counters, history, Return, NoSearch, Proceed
<1>1. CASE Start
  <2>1. sure' = FALSE
    BY <1>1 DEF Start, BeginCreate, BeginUpdate, BeginDelete, Begin
  <2> QED BY <2>1, NotSure
<1>2. CASE Snapshot
  <2>1. CASE Return(Refused) /\ UNCHANGED sure
    BY <1>2, <2>1, Quiet, AnswerTypes DEF Snapshot
  <2>2. CASE /\ ~Clashes(key)
             /\ pc' = "call"
             /\ taken' = Taken(local.name)
             /\ sure' = (Existing \subseteq indexed)
             /\ UNCHANGED <<raw, found, item, answer>>
    <3>1. CASE ~sure'
      BY <3>1 DEF SureInv, EchoIsOwn
    <3>2. CASE sure'
      <4>1. Existing \subseteq Ids /\ Shown = Existing /\ op = "create"
        BY <1>2, <2>2, <3>2 DEF Shown, Existing, Snapshot, CallInv
      <4>2. key \notin Existing
        <5>1. CASE kind.keyed
          <6>1. ~kind.idless
            BY <5>1, SurfaceAssumption DEF TypeOK
          <6> QED BY <2>2, <4>1, <6>1 DEF Clashes, ShownIds
        <5>2. CASE ~kind.keyed
          BY <4>1, <5>2, SurfaceAssumption DEF CallInv
        <5> QED BY <5>1, <5>2
      <4>3. ASSUME ~kind.idless, NEW i \in Existing, live[i].name = local.name
            PROVE  i \in taken'
        BY <2>2, <4>1, <4>3 DEF Taken, Namesakes
      <4>4. UNCHANGED <<kind, live, closure>>
        BY <1>2 DEF Snapshot
      <4>5. Existing' = Existing
        BY <4>4 DEF Existing, Exists
      <4> QED BY <2>2, <4>1, <4>2, <4>3, <4>4, <4>5 DEF SureInv, EchoIsOwn
    <3> QED BY <3>1, <3>2
  <2> QED BY <1>2, <2>1, <2>2 DEF Snapshot
<1>3. CASE ListFails \/ NotFound \/ CallRefused
  BY <1>3, Quiet, AnswerTypes DEF ListFails, NotFound, CallRefused
<1>4. ASSUME NEW i \in Ids, CreateCall(i) PROVE SureInv'
  <2>1. CASE ~sure
    BY <1>4, <2>1, NotSure DEF CreateCall, SaveNew, TypeOK
  <2>2. CASE sure
    <3>1. \A j \in Ids : j # i => live'[j] = live[j]
      BY <1>4 DEF CreateCall, SaveNew, TypeOK
    <3>2. \A j \in Ids : j \in Existing' /\ j # i => j \in Existing
      BY <3>1 DEF Existing, Exists
    <3>3. Existing' \subseteq Ids
      BY DEF Existing
    <3> QED BY <1>4, <2>2, <3>1, <3>2, <3>3 DEF CreateCall, SaveNew, SureInv, EchoIsOwn
  <2> QED BY <2>1, <2>2
<1>5. ASSUME NEW i \in Ids, Resolve(i) PROVE SureInv'
  <2>1. i \in Existing /\ i \notin taken /\ live[i].name = local.name
    BY <1>5 DEF Resolve, Namesakes, Shown
  <2>2. Existing' = Existing
    BY <1>5 DEF Resolve, Existing, Exists
  <2>3. sure => i = made
    BY <1>5, <2>1 DEF Resolve, SureInv
  <2> QED BY <1>5, <2>2, <2>3 DEF Resolve, SureInv, EchoIsOwn
<1>6. ASSUME NEW i \in Ids, ResolveIdless(i) PROVE SureInv'
  BY <1>6, Quiet DEF ResolveIdless
<1>7. CASE Fetch
  <2>1. answer'.id = found /\ UNCHANGED <<kind, op, key, made, sure>> /\ pc' = "idle" /\ pc = "fetch"
    BY <1>7 DEF Fetch, Done
  <2> QED BY <2>1 DEF SureInv, EchoIsOwn
<1>8. CASE UpdateCall \/ Reread \/ DeleteCall \/ (CallLost /\ ~\E i \in Ids : SaveNew(i))
  <2>1. op # "create" /\ UNCHANGED <<op, sure>>
    BY <1>8 DEF UpdateCall, Reread, DeleteCall, CallLost, Overwrite, Erase, CallInv
  <2>2. sure' = FALSE
    BY <2>1 DEF SureInv, TypeOK
  <2> QED BY <2>2, NotSure
<1>9. ASSUME NEW i \in Ids, CallLost, SaveNew(i) PROVE SureInv'
  BY <1>9, Quiet, AnswerTypes DEF CallLost, SaveNew
<1>10. ASSUME NEW i \in Ids, Index(i) PROVE SureInv'
  <2>1. Existing' = Existing
    BY <1>10 DEF Index, Existing, Exists
  <2> QED BY <1>10, <2>1 DEF Index, SureInv, EchoIsOwn
<1>11. ASSUME NEW i \in Ids, NEW to \in UiBodies \cup {Gone}, UiChange(i, to) PROVE SureInv'
  <2>1. CASE ~sure'
    BY <2>1 DEF SureInv, EchoIsOwn
  <2>2. CASE sure'
    <3>1. sure /\ (to = Gone \/ (Exists(i) /\ to.name # local.name))
      BY <1>11, <2>2 DEF UiChange
    <3>2. \A j \in Ids : j # i => live'[j] = live[j]
      BY <1>11 DEF UiChange, TypeOK
    <3>3. live'[i] = to
      BY <1>11 DEF UiChange, TypeOK
    <3>4. \A j \in Existing' : j \in Existing /\ (j = i => live'[j].name # local.name)
      BY <3>1, <3>2, <3>3 DEF Existing, Exists
    <3>5. Existing \subseteq Ids /\ Existing' \subseteq Ids
      BY DEF Existing
    <3>6. UNCHANGED <<kind, pc, closure, search, answer, made>>
      BY <1>11 DEF UiChange
    <3>7. \A j \in Existing' : live'[j].name = local.name => live[j].name = local.name /\ j \in Existing
      BY <3>2, <3>4, <3>5
    <3> QED BY <2>2, <3>1, <3>4, <3>6, <3>7 DEF SureInv, EchoIsOwn
  <2> QED BY <2>1, <2>2
<1>12. CASE UNCHANGED vars
  <2>1. Existing' = Existing
    BY <1>12 DEF vars, Existing, Exists
  <2> QED BY <1>12, <2>1 DEF vars, SureInv, EchoIsOwn
<1> QED BY <1>1, <1>2, <1>3, <1>4, <1>5, <1>6, <1>7, <1>8, <1>9, <1>10, <1>11, <1>12
     DEF Next, CallStep, Progress, Environment

-----------------------------------------------------------------------------
(* What a file is left with *)

LEMMA Underway == ASSUME pc' \notin {"idle", "fetch", "reread"} PROVE CalmInv'
BY DEF CalmInv, Settled

LEMMA NotDone == ASSUME pc' = "idle", answer'.what # "done" PROVE CalmInv'
BY DEF CalmInv, Settled

LEMMA Calmness ==
  TypeOK /\ CallInv /\ SureInv /\ CalmInv /\ [Next]_vars => CalmInv'
<1> SUFFICES ASSUME TypeOK, CallInv, SureInv, CalmInv, [Next]_vars PROVE CalmInv'
  OBVIOUS
<1> USE DEF closure, search, counters, history, Return, NoSearch, Proceed
<1>1. CASE Start
  <2>1. pc' \in {"snapshot", "call"} \/ (pc' = "idle" /\ answer' = Refused)
    BY <1>1 DEF Start, BeginCreate, BeginUpdate, BeginDelete
  <2> QED BY <2>1, Underway, NotDone, AnswerTypes
<1>2. CASE Snapshot \/ ListFails \/ NotFound \/ CallRefused \/ CallLost
  <2>1. pc' = "call" \/ (pc' = "idle" /\ answer' \in {Refused, Failed})
    BY <1>2 DEF Snapshot, ListFails, NotFound, CallRefused, CallLost
  <2> QED BY <2>1, Underway, NotDone, AnswerTypes
<1>3. ASSUME NEW i \in Ids, CreateCall(i) PROVE CalmInv'
  BY <1>3, Underway DEF CreateCall
<1>4. ASSUME NEW i \in Ids, Resolve(i) PROVE CalmInv'
  <2>1. i \in Existing /\ i \notin taken /\ live[i].name = local.name /\ Exists(i)
    BY <1>4 DEF Resolve, Namesakes, Shown, Existing
  <2>2. sure => i = made
    BY <1>4, <2>1 DEF Resolve, SureInv
  <2>3. ~kind.getOne => item' = live[i]
    BY <1>4 DEF Resolve, Entry
  <2> QED BY <1>4, <2>1, <2>2, <2>3 DEF Resolve, CalmInv, Settled, Exists
<1>5. ASSUME NEW i \in Ids, ResolveIdless(i) PROVE CalmInv'
  BY <1>5 DEF ResolveIdless, CalmInv, Settled, CallInv
<1>6. CASE Fetch
  <2>1. CASE ~calm' \/ ~sure
    BY <1>6, <2>1 DEF Fetch, CalmInv, Settled, CallInv
  <2>2. CASE calm' /\ sure
    <3>1. calm' = calm /\ found = made /\ op = "create" /\ pc' = "idle"
      BY <1>6, <2>2 DEF Fetch, SureInv, CallInv
    <3>2. calm /\ pc = "fetch" /\ (~kind.getOne => item = live[made])
      <4>1. calm /\ pc = "fetch"
        BY <1>6, <2>2, <3>1 DEF Fetch
      <4> QED BY <2>2, <4>1 DEF CalmInv
    <3>3. answer' = Done(found, live[found]) \/ (~kind.getOne /\ answer' = Done(found, item))
      BY <1>6, <2>2 DEF Fetch
    <3>4. answer'.body = Redacted(live[made])
      BY <3>1, <3>2, <3>3 DEF Done
    <3> QED BY <1>6, <3>1, <3>4 DEF Fetch, CalmInv, Settled, Redacted
  <2> QED BY <2>1, <2>2 DEF TypeOK
<1>7. CASE UpdateCall
  <2>1. live'[key] = Merged(raw, local)
    BY <1>7 DEF UpdateCall, Overwrite, CallInv, TypeOK
  <2> QED BY <1>7, <2>1 DEF UpdateCall, Overwrite, CalmInv, Settled, Merged
<1>8. CASE Reread
  <2>1. CASE ~calm
    BY <1>8, <2>1 DEF Reread, CalmInv, Settled
  <2>2. CASE calm
    <3>1. answer'.body = Redacted(live[key]) /\ op = "update" /\ pc' = "idle"
      BY <1>8, <2>2 DEF Reread, CalmInv, Done, CallInv
    <3> QED BY <1>8, <3>1 DEF Reread, CalmInv, Settled, Redacted
  <2> QED BY <2>1, <2>2
<1>9. CASE DeleteCall
  BY <1>9 DEF DeleteCall, Erase, CalmInv, Settled
<1>10. ASSUME NEW i \in Ids, Index(i) PROVE CalmInv'
  BY <1>10 DEF Index, CalmInv, Settled, Exists, Merged, Redacted
<1>11. ASSUME NEW i \in Ids, NEW to \in UiBodies \cup {Gone}, UiChange(i, to) PROVE CalmInv'
  BY <1>11 DEF UiChange, CalmInv, Settled
<1>12. CASE UNCHANGED vars
  BY <1>12 DEF vars, CalmInv, Settled, Exists, Merged, Redacted
<1> QED BY <1>1, <1>2, <1>3, <1>4, <1>5, <1>6, <1>7, <1>8, <1>9, <1>10, <1>11, <1>12
     DEF Next, CallStep, Progress, Environment

-----------------------------------------------------------------------------
(* The theorems *)

LEMMA InitIInv == Init => IInv
<1> SUFFICES ASSUME Init PROVE IInv
  OBVIOUS
<1>1. TypeOK
  BY InitType
<1>2. NoMaskLive
  BY SurfaceAssumption DEF Init, NoMaskLive, Existing, Exists, Masked
<1>3. pc = "idle" /\ op = "none" /\ answer.what = "none" /\ ~sure
  BY AnswerTypes DEF Init
<1> QED BY <1>1, <1>2, <1>3 DEF IInv, CallInv, MaskInv, SureInv, CalmInv, EchoIsOwn, Settled

LEMMA NextIInv == IInv /\ [Next]_vars => IInv'
<1> SUFFICES ASSUME IInv, [Next]_vars PROVE IInv'
  OBVIOUS
<1>1. TypeOK'
  <2>1. CASE UNCHANGED vars
    BY <2>1 DEF IInv, TypeOK, vars, closure, search, counters, history
  <2> QED BY <2>1, StartType, CallStepType, EnvironmentType DEF IInv, Next
<1> QED BY <1>1, CallOrder, Masks, Sureness, Calmness DEF IInv

LEMMA Invariance == Spec => []IInv
BY InitIInv, NextIInv, PTL DEF Spec

\* Every reachable state is well typed.
THEOREM SurfaceTypeCorrect == Spec => []TypeOK
<1>1. IInv => TypeOK
  BY DEF IInv
<1> QED BY <1>1, Invariance, PTL

\* No closure ever puts a mask live in place of a secret (createObject, updateObject).
THEOREM SecretsSurvive == Spec => []NoMaskLive
<1>1. IInv => NoMaskLive
  BY DEF IInv, MaskInv
<1> QED BY <1>1, Invariance, PTL

\* A sure create reports its own object (resolveNewByName).
THEOREM CreateBindsOwn == Spec => []EchoIsOwn
<1>1. IInv => EchoIsOwn
  BY DEF IInv, SureInv
<1> QED BY <1>1, Invariance, PTL

\* A sure create overwrites nothing (the id-exists guard of createObject).
THEOREM CreateSparesOthers == Spec => CreateIsNew
<1>1. IInv /\ [Next]_vars => [\A i \in Ids : SaveNew(i) /\ sure => ~Exists(i)]_vars
  <2> SUFFICES ASSUME IInv, NEW i \in Ids, SaveNew(i), sure PROVE ~Exists(i)
    OBVIOUS
  <2>1. key \notin Existing
    BY DEF IInv, SureInv, SaveNew
  <2> QED BY <2>1 DEF SaveNew, Saved, Existing, Exists
<1> QED BY <1>1, Invariance, PTL DEF Spec, CreateIsNew

\* A successful, undisturbed create or update leaves in the file what is live.
THEOREM FilesSettle == Spec => []Settled
<1>1. IInv => Settled
  BY DEF IInv, CalmInv
<1> QED BY <1>1, Invariance, PTL
=============================================================================
