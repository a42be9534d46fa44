-------------------------------- MODULE McpProofs --------------------------------
(***************************************************************************)
(* Proofs about McpServer for any tools, groups, limits and numbers of     *)
(* requests, with every fault: types, whole results, no orphaned files, a  *)
(* client that ends up with the right tools, no exit before the answers.   *)
(***************************************************************************)
EXTENDS McpServer, FiniteSetTheorems, TLAPS

IInv == TypeOK /\ OrderInv /\ SpillInv /\ ViewInv

Frame == [kind : {"changed", "list", "answer"}, tools : [Keys -> SUBSET Tools]]

LEMMA PrefixSize ==
  ASSUME NEW k \in Nat
  PROVE  Cardinality(1..k) = k
BY FS_Interval

LEMMA NothingType == Nothing \in [Keys -> SUBSET Tools]
BY DEF Nothing

LEMMA FrameTypes ==
  ASSUME TypeOK
  PROVE  Changed \in Frame /\ Answer \in Frame /\ Listing \in Frame
BY NothingType DEF TypeOK, Frame, Changed, Answer, Listing

LEMMA InitIInv == Init => IInv
<1> SUFFICES ASSUME Init PROVE IInv
  OBVIOUS
<1>1. TypeOK
  <2>1. /\ out \in [Requests -> Writer]
        /\ \A r \in Requests : Cardinality(out[r].buf) <= Limit
    <3>1. NewWriter \in Writer
      BY McpAssumption DEF NewWriter, Writer
    <3>2. Cardinality({}) = 0
      BY FS_EmptySet
    <3>3. out = [r \in Requests |-> NewWriter] /\ NewWriter.buf = {}
      BY DEF Init, NewWriter
    <3>4. Limit \in Nat
      BY McpAssumption
    <3> QED BY <3>1, <3>2, <3>3, <3>4
  <2>2. quota \in [Ops -> Nat]
    BY McpAssumption DEF Init
  <2>3. [op |-> "note", arg |-> "-"] \in Asks
    BY DEF Asks
  <2>4. stdout \in Seq(Frame)
    BY DEF Init
  <2> QED
    <3>1. /\ pc \in {"read", "drain", "exited", "down"}
          /\ sent \in 0..MaxRequests /\ aged \subseteq Requests
      BY McpAssumption DEF Init
    <3>4. closed \in BOOLEAN /\ stale \in BOOLEAN
      BY DEF Init
    <3>2. /\ focused \in [Keys -> SUBSET Tools] /\ held \in [Keys -> SUBSET Tools]
          /\ view \in [Keys -> SUBSET Tools]
      BY NothingType DEF Init
    <3>3. /\ ask \in [Requests -> Asks]
          /\ task \in [Requests -> Working \cup Ended \cup {"unsent", "queued"}]
          /\ made \in [Requests -> 0..MaxOutput]
          /\ broken \in [Requests -> BOOLEAN]
          /\ result \in [Requests -> {"none", "inline", "pointer", "error"}]
          /\ answers \in [Requests -> Nat]
          /\ files \in [Requests -> {NoFile} \cup SUBSET (1..MaxOutput)]
      BY <2>3, McpAssumption DEF Init
    <3> QED BY <2>1, <2>2, <2>4, <3>1, <3>2, <3>3, <3>4 DEF TypeOK, Frame
<1>2. OrderInv
  BY DEF Init, OrderInv, Idle, Working
<1>3. SpillInv
  <2>1. HeadIsPrefix
    <3>1. 1..Lesser(Limit, 0) = {}
      BY McpAssumption DEF Lesser
    <3> QED BY <3>1 DEF Init, HeadIsPrefix, NewWriter
  <2> QED BY <2>1 DEF Init, SpillInv, ResultsWhole, NoOrphans, Fresh
<1>4. ViewInv
  BY DEF Init, ViewInv, LoopBusy, Foreseen
<1> QED BY <1>1, <1>2, <1>3, <1>4 DEF IInv

-----------------------------------------------------------------------------
(* Types *)

\* Moving a request from one place to another is well typed.
LEMMA GotoType ==
  ASSUME NEW r \in Requests, TypeOK,
         NEW place \in Working \cup Ended \cup {"unsent", "queued"}, Goto(r, place)
  PROVE  task' \in [Requests -> Working \cup Ended \cup {"unsent", "queued"}]
BY DEF TypeOK, Goto

LEMMA SendType ==
  ASSUME TypeOK, NEW frame \in Frame, Send(frame)
  PROVE  stdout' \in Seq(Frame)
BY DEF TypeOK, Send, Frame

LEMMA CallTypes ==
  ASSUME TypeOK, NEW r \in Requests,
         \/ SkipNote(r) \/ Dispatch(r) \/ ReadTools(r) \/ SendTools(r)
         \/ Bad(r) \/ Focus(r) \/ Usage(r) \/ Unfocus(r) \/ UnfocusAll(r)
         \/ Notify(r) \/ Reply(r) \/ Start(r)
  PROVE  TypeOK'
<1>1. task' \in [Requests -> Working \cup Ended \cup {"unsent", "queued"}]
  <2>1. \E place \in Working \cup Ended \cup {"unsent", "queued"} : Goto(r, place)
    BY DEF SkipNote, Dispatch, ReadTools, SendTools, Bad, Focus, Usage, Unfocus, UnfocusAll,
           Notify, Reply, Start, After, Working, Ended
  <2> QED BY <2>1, GotoType
<1>2. stdout' \in Seq(Frame)
  <2>1. \/ UNCHANGED stdout
        \/ \E frame \in Frame : Send(frame)
    BY FrameTypes DEF SkipNote, Dispatch, ReadTools, SendTools, Bad, Focus, Usage, Unfocus,
           UnfocusAll, Notify, Reply, Start
  <2> QED BY <2>1, SendType DEF TypeOK, Frame
<1>3. focused' \in [Keys -> SUBSET Tools] /\ held' \in [Keys -> SUBSET Tools]
  <2>1. CASE Focus(r)
    BY <2>1 DEF Focus, TypeOK, ToolsOf, loop
  <2>2. CASE Usage(r)
    <3>1. ask[r].arg \in Tools
      <4>1. ask[r] \in Asks /\ ask[r].op = "usage"
        BY <2>2 DEF Usage, Calling, TypeOK
      <4> QED BY <4>1 DEF Asks
    <3> QED BY <2>2, <3>1 DEF Usage, TypeOK, loop
  <2>3. CASE Unfocus(r)
    BY <2>3 DEF Unfocus, TypeOK, loop
  <2>4. CASE ~Focus(r) /\ ~Usage(r) /\ ~Unfocus(r)
    BY <2>4, NothingType DEF TypeOK, SkipNote, Dispatch, ReadTools, SendTools, Bad, UnfocusAll,
           Notify, Reply, Start, loop
  <2> QED BY <2>1, <2>2, <2>3, <2>4
<1>4. answers' \in [Requests -> Nat]
  BY DEF TypeOK, SkipNote, Dispatch, ReadTools, SendTools, Bad, Focus, Usage, Unfocus,
         UnfocusAll, Notify, Reply, Start
<1>5. UNCHANGED <<pc, exec, spills, client>>
  BY DEF SkipNote, Dispatch, ReadTools, SendTools, Bad, Focus, Usage, Unfocus,
         UnfocusAll, Notify, Reply, Start, loop
<1> QED
  BY <1>1, <1>2, <1>3, <1>4, <1>5 DEF TypeOK, Frame, exec, spills, client

-----------------------------------------------------------------------------
(* Output *)

\* A prefix and the chunk after it are a longer prefix.
LEMMA PrefixGrows ==
  ASSUME NEW a \in Nat, NEW b \in Nat
  PROVE  (1..a) \cup ((a + 1)..(a + b)) = 1..(a + b)
OBVIOUS

\* The first bytes up to the limit, and of the next m those that still fit, are
\* the first bytes up to the limit.
LEMMA PrefixCut ==
  ASSUME NEW t \in Nat, NEW n \in Nat, NEW m \in 0..n,
         NEW room, room = Lesser(Limit - Lesser(Limit, t), m)
  PROVE  (1..Lesser(Limit, t)) \cup {b \in (t + 1)..(t + n) : b <= t + room}
           = 1..Lesser(Limit, t + m)
<1>1. Limit \in Nat
  BY McpAssumption
<1>2. CASE t < Limit
  BY <1>1, <1>2 DEF Lesser
<1>3. CASE t >= Limit
  BY <1>1, <1>3 DEF Lesser
<1> QED BY <1>1, <1>2, <1>3

\* What is known of a call whose output is being copied.
LEMMA RunningFacts ==
  ASSUME TypeOK, SpillInv, NEW r \in Requests, task[r] = "running", ~broken[r]
  PROVE  /\ made[r] \in Nat /\ made[r] <= MaxOutput /\ out[r].total = made[r]
         /\ out[r].buf = 1..Lesser(Limit, made[r])
         /\ Cardinality(out[r].buf) = Lesser(Limit, made[r])
         /\ out[r].open => files[r] = 1..made[r]
         /\ ~out[r].open => made[r] <= Limit /\ files[r] = NoFile
         /\ r \notin aged
<1>1. made[r] \in Nat /\ made[r] <= MaxOutput
  BY McpAssumption DEF TypeOK
<1>2. Copied(r) /\ r \notin aged /\ (~out[r].open => files[r] = NoFile)
  BY DEF SpillInv
<1>3. out[r].buf = 1..Lesser(Limit, made[r])
  BY <1>2 DEF SpillInv, HeadIsPrefix, Copied
<1>4. Lesser(Limit, made[r]) \in Nat
  BY <1>1, McpAssumption DEF Lesser
<1>5. Cardinality(out[r].buf) = Lesser(Limit, made[r])
  BY <1>3, <1>4, PrefixSize
<1> QED BY <1>1, <1>2, <1>3, <1>5 DEF Copied

\* The state of a call after some of its output was written.
WriteDone(r) ==
  /\ out' \in [Requests -> Writer]
  /\ broken' \in [Requests -> BOOLEAN]
  /\ files' \in [Requests -> {NoFile} \cup SUBSET (1..MaxOutput)]
  /\ \A q \in Requests \ {r} :
       /\ out'[q] = out[q] /\ broken'[q] = broken[q]
       /\ files'[q] = files[q] \/ (q \in aged /\ files'[q] = NoFile)
  /\ out'[r].buf = 1..Lesser(Limit, out'[r].total)
  /\ ~out'[r].open => files'[r] = NoFile
  /\ ~broken'[r] => Copied(r)'

LEMMA InlineDone ==
  ASSUME TypeOK, SpillInv, NEW r \in Requests, task[r] = "running", ~broken[r],
         NEW n \in 1..(MaxOutput - made[r]), WriteInline(r, n),
         made' = [made EXCEPT ![r] = @ + n]
  PROVE  WriteDone(r)
<1> DEFINE t == made[r]
<1>0. /\ t \in Nat /\ n \in Nat /\ t + n <= MaxOutput /\ Limit \in Nat /\ MaxOutput \in Nat
      /\ made'[r] = t + n
  BY RunningFacts, McpAssumption DEF TypeOK
<1>1. ~out[r].open /\ t <= Limit /\ files[r] = NoFile
  BY RunningFacts DEF WriteInline
<1>2. Lesser(Limit, t) = t
  BY <1>0, <1>1 DEF Lesser
<1>3. t + n <= Limit
  BY <1>0, <1>2, RunningFacts DEF WriteInline, Overflows
<1>4. out[r].buf \cup Chunk(r, n) = 1..(t + n)
  BY <1>0, <1>2, RunningFacts, PrefixGrows DEF Chunk
<1>5. out[r] \in Writer /\ out[r].total = t
  BY RunningFacts DEF TypeOK
<1>6. /\ out'[r].open = FALSE /\ out'[r].total = t + n /\ out'[r].buf = 1..(t + n)
      /\ out'[r] \in Writer
      /\ \A q \in Requests \ {r} : out'[q] = out[q]
      /\ out' \in [Requests -> Writer]
  <2>1. out' = [out EXCEPT ![r] = [open |-> FALSE, total |-> t + n, buf |-> 1..(t + n)]]
    BY <1>4, <1>5 DEF WriteInline
  <2>2. [open |-> FALSE, total |-> t + n, buf |-> 1..(t + n)] \in Writer
    BY <1>0 DEF Writer
  <2> QED BY <2>1, <2>2 DEF TypeOK
<1>7. Lesser(Limit, t + n) = t + n
  BY <1>0, <1>3 DEF Lesser
<1>8. UNCHANGED <<broken, files>>
  BY DEF WriteInline
<1>9. Copied(r)'
  BY <1>0, <1>3, <1>6 DEF Copied
<1> QED
  BY <1>1, <1>6, <1>7, <1>8, <1>9 DEF WriteDone, TypeOK

\* A sweep takes old files only.
LEMMA SweptFiles ==
  ASSUME TypeOK
  PROVE  /\ Swept(files) \in [Requests -> {NoFile} \cup SUBSET (1..MaxOutput)]
         /\ \A q \in Requests :
              Swept(files)[q] = files[q] \/ (q \in aged /\ Swept(files)[q] = NoFile)
BY DEF Swept, TypeOK

LEMMA SpillFailsDone ==
  ASSUME TypeOK, SpillInv, NEW r \in Requests, task[r] = "running", ~broken[r],
         NEW n \in Nat, SpillFails(r, n)
  PROVE  WriteDone(r)
<1>1. ~out[r].open /\ broken' = [broken EXCEPT ![r] = TRUE]
  BY DEF SpillFails
<1>2. broken' \in [Requests -> BOOLEAN] /\ broken'[r]
      /\ \A q \in Requests \ {r} : broken'[q] = broken[q]
  BY <1>1 DEF TypeOK
<1>3. out[r].buf = 1..Lesser(Limit, out[r].total)
  BY DEF SpillInv, HeadIsPrefix
<1>4. CASE files' = Swept(files) /\ UNCHANGED out
  <2>1. files'[r] = NoFile
    BY <1>1, <1>4, SweptFiles, RunningFacts
  <2> QED BY <1>1, <1>2, <1>3, <1>4, <2>1, SweptFiles DEF WriteDone, TypeOK
<1>5. CASE files' = [Swept(files) EXCEPT ![r] = {}] /\ out' = [out EXCEPT ![r].open = TRUE]
  <2>1. /\ out' \in [Requests -> Writer]
        /\ out'[r].buf = out[r].buf /\ out'[r].total = out[r].total /\ out'[r].open
        /\ \A q \in Requests \ {r} : out'[q] = out[q]
    BY <1>5 DEF TypeOK, Writer
  <2>2. /\ files' \in [Requests -> {NoFile} \cup SUBSET (1..MaxOutput)]
        /\ \A q \in Requests \ {r} : files'[q] = Swept(files)[q]
    BY <1>5, SweptFiles
  <2> QED BY <1>2, <1>3, <2>1, <2>2, SweptFiles DEF WriteDone
<1> QED BY <1>4, <1>5 DEF SpillFails

LEMMA FlagSet ==
  ASSUME TypeOK, NEW r \in Requests, NEW b \in BOOLEAN, broken' = [broken EXCEPT ![r] = b]
  PROVE  /\ broken' \in [Requests -> BOOLEAN]
         /\ broken'[r] <=> b
         /\ \A q \in Requests \ {r} : broken'[q] = broken[q]
BY Zenon DEF TypeOK

LEMMA FileDone ==
  ASSUME TypeOK, SpillInv, NEW r \in Requests, task[r] = "running", ~broken[r],
         NEW n \in 1..(MaxOutput - made[r]), WriteFile(r, n),
         made' = [made EXCEPT ![r] = @ + n]
  PROVE  WriteDone(r)
<1> DEFINE t == made[r]
<1>0. /\ t \in Nat /\ n \in Nat /\ t + n <= MaxOutput /\ Limit \in Nat /\ MaxOutput \in Nat
      /\ made'[r] = t + n
  BY RunningFacts, McpAssumption DEF TypeOK
<1>1. PICK m \in {0, n} :
        /\ files' = IF out[r].open
                    THEN [files EXCEPT ![r] = @ \cup Chunk(r, m)]
                    ELSE [Swept(files) EXCEPT ![r] = out[r].buf \cup Chunk(r, m)]
        /\ out' = [out EXCEPT ![r] = [open |-> TRUE, total |-> @.total + m,
                                      buf |-> @.buf \cup Taken(r, Chunk(r, n), m)]]
        /\ broken' = [broken EXCEPT ![r] = m < n]
  <2>1. (IF "disk" \in Faults THEN {0, n} ELSE {n}) \subseteq {0, n}
    OBVIOUS
  <2> QED BY <2>1 DEF WriteFile
<1>2. m \in 0..n /\ m \in Nat
  BY <1>0
<1>3. /\ out[r].total = t /\ out[r].buf = 1..Lesser(Limit, t)
      /\ Cardinality(out[r].buf) = Lesser(Limit, t)
      /\ r \notin aged
  BY RunningFacts
<1>4. out[r].buf \cup Taken(r, Chunk(r, n), m) = 1..Lesser(Limit, t + m)
  BY <1>0, <1>2, <1>3, PrefixCut DEF Taken, Chunk
<1>5. out' = [out EXCEPT ![r] = [open |-> TRUE, total |-> t + m, buf |-> 1..Lesser(Limit, t + m)]]
  BY <1>1, <1>3, <1>4
<1>6. 1..Lesser(Limit, t + m) \in SUBSET (1..MaxOutput)
  BY <1>0, <1>2 DEF Lesser
<1>7. /\ out'[r].open /\ out'[r].total = t + m /\ out'[r].buf = 1..Lesser(Limit, t + m)
      /\ out' \in [Requests -> Writer]
      /\ \A q \in Requests \ {r} : out'[q] = out[q]
  <2>1. [open |-> TRUE, total |-> t + m, buf |-> 1..Lesser(Limit, t + m)] \in Writer
    BY <1>0, <1>2, <1>6 DEF Writer
  <2> QED BY <1>5, <2>1 DEF TypeOK
<1>8. /\ files' \in [Requests -> {NoFile} \cup SUBSET (1..MaxOutput)]
      /\ files'[r] = 1..(t + m)
      /\ \A q \in Requests \ {r} :
           files'[q] = files[q] \/ (q \in aged /\ files'[q] = NoFile)
  <2>1. 1..(t + m) \in SUBSET (1..MaxOutput)
    BY <1>0, <1>2
  <2>2. (1..t) \cup Chunk(r, m) = 1..(t + m)
    BY <1>0, <1>2, PrefixGrows DEF Chunk
  <2>3. CASE out[r].open
    <3>1. files[r] = 1..t
      BY <2>3, RunningFacts
    <3>2. files' = [files EXCEPT ![r] = 1..(t + m)]
      BY <1>1, <2>2, <2>3, <3>1
    <3> QED BY <2>1, <3>2 DEF TypeOK
  <2>4. CASE ~out[r].open
    <3>1. out[r].buf = 1..t
      BY <1>0, <1>3, <2>4, RunningFacts DEF Lesser
    <3>2. files' = [Swept(files) EXCEPT ![r] = 1..(t + m)]
      BY <1>1, <2>2, <2>4, <3>1
    <3> QED BY <2>1, <3>2, SweptFiles
  <2> QED BY <2>3, <2>4
<1>9. /\ broken' \in [Requests -> BOOLEAN]
      /\ broken'[r] <=> m < n
      /\ \A q \in Requests \ {r} : broken'[q] = broken[q]
  <2>1. (m < n) \in BOOLEAN
    OBVIOUS
  <2> QED BY <1>1, <2>1, FlagSet
<1>10. ~broken'[r] => Copied(r)'
  <2>1. SUFFICES ASSUME ~broken'[r] PROVE Copied(r)'
    OBVIOUS
  <2>2. m = n
    BY <1>0, <1>1, <1>9, <2>1
  <2> QED BY <1>0, <1>7, <1>8, <2>2 DEF Copied
<1> QED BY <1>7, <1>8, <1>9, <1>10 DEF WriteDone

LEMMA WriteStep ==
  ASSUME TypeOK, SpillInv, NEW r \in Requests, Write(r)
  PROVE  WriteDone(r) /\ made' \in [Requests -> 0..MaxOutput]
         /\ \A q \in Requests \ {r} : made'[q] = made[q]
<1>1. PICK n \in 1..(MaxOutput - made[r]) :
        /\ WriteInline(r, n) \/ SpillFails(r, n) \/ WriteFile(r, n)
        /\ made' = [made EXCEPT ![r] = @ + n]
  BY DEF Write
<1>2. task[r] = "running" /\ ~broken[r] /\ n \in Nat
  BY DEF Write
<1>3. WriteDone(r)
  BY <1>1, <1>2, InlineDone, SpillFailsDone, FileDone
<1>4. made \in [Requests -> 0..MaxOutput] /\ MaxOutput \in Nat /\ made[r] \in 0..MaxOutput
  BY McpAssumption DEF TypeOK
<1> QED BY <1>1, <1>3, <1>4

-----------------------------------------------------------------------------
(* Results and spill files *)

Unstarted == {"unsent", "queued", "inline", "started", "notify", "ignored"}

\* SpillInv for one request.
SpillOK(r) ==
  /\ out[r].buf = 1..Lesser(Limit, out[r].total)
  /\ task[r] \notin {"running", "answer", "done", "lost"} => Fresh(r)
  /\ task[r] = "running" =>
       /\ result[r] = "none" /\ r \notin aged
       /\ ~out[r].open => files[r] = NoFile
       /\ ~broken[r] => Copied(r)
  /\ result[r] = "inline" => out[r].buf = 1..made[r]
  /\ result[r] = "pointer" => out[r].total = made[r] /\ (files[r] = 1..made[r] \/ r \in aged)
  /\ files[r] # NoFile => task[r] \in {"running", "lost"} \/ result[r] = "pointer"

LEMMA SpillByRequest == SpillInv <=> \A r \in Requests : SpillOK(r)
BY DEF SpillInv, SpillOK, HeadIsPrefix, ResultsWhole, NoOrphans

LEMMA SpillByRequestNext == SpillInv' <=> \A r \in Requests : SpillOK(r)'
BY DEF SpillInv, SpillOK, HeadIsPrefix, ResultsWhole, NoOrphans

\* A step in which nothing is written for a request keeps its results and files,
\* short of old files that are swept.
LEMMA UnwrittenOK ==
  ASSUME NEW r \in Requests, SpillOK(r),
         out'[r] = out[r], made'[r] = made[r], broken'[r] = broken[r], result'[r] = result[r],
         files'[r] = files[r] \/ (r \in aged /\ files'[r] = NoFile),
         aged \subseteq aged',
         r \in aged' => r \in aged \/ (files[r] # NoFile /\ task[r] # "running"),
         \/ task'[r] = task[r]
         \/ task[r] \in Unstarted /\ task'[r] \in Unstarted \cup {"running", "answer", "done"}
         \/ task[r] = "answer" /\ task'[r] = "done"
         \/ task'[r] = "lost"
  PROVE  SpillOK(r)'
<1>1. CASE task'[r] = task[r]
  BY <1>1 DEF SpillOK, Fresh, Copied
<1>2. CASE task[r] \in Unstarted /\ task'[r] \in Unstarted \cup {"running", "answer", "done"}
  <2>1. Fresh(r)
    BY <1>2 DEF SpillOK, Unstarted
  <2>2. Fresh(r)'
    BY <2>1 DEF Fresh
  <2>3. Copied(r)'
    BY <2>2, McpAssumption DEF Fresh, Copied, NewWriter
  <2> QED BY <1>2, <2>1, <2>2, <2>3 DEF SpillOK, Fresh, Unstarted
<1>3. CASE task[r] = "answer" /\ task'[r] = "done"
  BY <1>3 DEF SpillOK
<1>4. CASE task'[r] = "lost"
  BY <1>4 DEF SpillOK
<1> QED BY <1>1, <1>2, <1>3, <1>4

\* Every step but Write and Finish writes nothing.
LEMMA QuietSpill ==
  ASSUME TypeOK, OrderInv, SpillInv, [Next]_vars,
         \A r \in Requests : ~Write(r) /\ ~Finish(r)
  PROVE  SpillInv'
<1> SUFFICES ASSUME NEW q \in Requests PROVE SpillOK(q)'
  BY SpillByRequestNext
<1>0. SpillOK(q)
  BY SpillByRequest
<1>1. CASE LoopStep
  BY <1>0, <1>1, UnwrittenOK
     DEF LoopStep, LoopEnds, Exit, SkipNote, Dispatch, ReadTools, Reading, Goto, TypeOK,
         exec, spills, Unstarted
<1>2. ASSUME NEW r \in Requests, CallStep(r) PROVE SpillOK(q)'
  <2>1. /\ UNCHANGED <<exec, spills>>
        /\ \E place : Goto(r, place) /\
             \/ task[r] \in Unstarted /\ place \in Unstarted \cup {"running", "answer", "done"}
             \/ task[r] = "answer" /\ place = "done"
    BY <1>2 DEF CallStep, SendTools, Bad, Focus, Usage, Unfocus, UnfocusAll, Notify, Reply, Start,
                Calling, After, Unstarted
  <2> QED BY <1>0, <2>1, UnwrittenOK DEF Goto, TypeOK, exec, spills
<1>3. ASSUME NEW r \in Requests, Age(r) PROVE SpillOK(q)'
  BY <1>0, <1>3, UnwrittenOK DEF Age, exec
<1>4. CASE Kill
  BY <1>0, <1>4, UnwrittenOK DEF Kill, exec, spills
<1>5. CASE Restart
  <2>1. files'[q] = files[q] \/ (q \in aged /\ files'[q] = NoFile)
    BY <1>5, SweptFiles DEF Restart
  <2> QED BY <1>0, <1>5, <2>1, UnwrittenOK DEF Restart, exec
<1>6. ASSUME NEW a \in Asks, Ask(a) PROVE SpillOK(q)'
  <2>1. task[sent + 1] = "unsent" \/ sent + 1 \notin Requests
    BY <1>6 DEF OrderInv, Ask, TypeOK
  <2> QED BY <1>0, <1>6, <2>1, UnwrittenOK DEF Ask, Goto, TypeOK, exec, spills, Unstarted
<1>7. CASE Close \/ Receive
  BY <1>0, <1>7, UnwrittenOK DEF Close, Receive, exec, spills
<1>8. CASE UNCHANGED vars
  BY <1>0, <1>8, UnwrittenOK DEF vars, exec, spills
<1> QED BY <1>1, <1>2, <1>3, <1>4, <1>5, <1>6, <1>7, <1>8 DEF Next

LEMMA WriteSpill ==
  ASSUME TypeOK, SpillInv, NEW r \in Requests, Write(r)
  PROVE  SpillInv'
<1> SUFFICES ASSUME NEW q \in Requests PROVE SpillOK(q)'
  BY SpillByRequestNext
<1>0. SpillOK(q) /\ task[r] = "running" /\ UNCHANGED <<task, result, aged>>
  BY SpillByRequest DEF Write
<1>1. WriteDone(r) /\ \A p \in Requests \ {r} : made'[p] = made[p]
  BY WriteStep
<1>2. CASE q = r
  BY <1>0, <1>1, <1>2 DEF WriteDone, SpillOK
<1>3. CASE q # r
  BY <1>0, <1>1, <1>3, UnwrittenOK DEF WriteDone
<1> QED BY <1>2, <1>3

LEMMA FinishSpill ==
  ASSUME TypeOK, SpillInv, NEW r \in Requests, Finish(r)
  PROVE  SpillInv'
<1> SUFFICES ASSUME NEW q \in Requests PROVE SpillOK(q)'
  BY SpillByRequestNext
<1>0. /\ SpillOK(q) /\ SpillOK(r) /\ task[r] = "running"
      /\ task' = [task EXCEPT ![r] = "answer"]
      /\ out' = [out EXCEPT ![r].open = FALSE]
      /\ UNCHANGED <<made, broken, aged>>
  BY SpillByRequest DEF Finish, Goto
<1>1. /\ out'[r].buf = out[r].buf /\ out'[r].total = out[r].total
      /\ \A p \in Requests \ {r} : out'[p] = out[p] /\ task'[p] = task[p]
      /\ task'[r] = "answer"
  BY <1>0 DEF TypeOK, Writer
<1>2. \/ result' = [result EXCEPT ![r] = "error"]
         /\ files' = IF out[r].open THEN Discard(files, r) ELSE files
      \/ result' = [result EXCEPT ![r] = "pointer"] /\ UNCHANGED files
         /\ out[r].open /\ ~broken[r]
      \/ result' = [result EXCEPT ![r] = "inline"] /\ UNCHANGED files
         /\ ~out[r].open /\ ~broken[r]
  BY DEF Finish, Fails, Succeeded
<1>3. CASE q # r
  <2>1. result'[q] = result[q] /\ files'[q] = files[q]
    BY <1>2, <1>3 DEF Discard, TypeOK
  <2> QED BY <1>0, <1>1, <1>3, <2>1, UnwrittenOK
<1>4. CASE q = r
  <2>1. CASE /\ result' = [result EXCEPT ![r] = "error"]
             /\ files' = IF out[r].open THEN Discard(files, r) ELSE files
    <3>1. result'[r] = "error" /\ files'[r] = NoFile
      BY <1>0, <2>1 DEF Discard, SpillOK, TypeOK
    <3> QED BY <1>0, <1>1, <1>4, <3>1 DEF SpillOK
  <2>2. CASE /\ result' = [result EXCEPT ![r] = "pointer"] /\ UNCHANGED files
             /\ out[r].open /\ ~broken[r]
    BY <1>0, <1>1, <1>4, <2>2 DEF SpillOK, Copied, TypeOK
  <2>3. CASE /\ result' = [result EXCEPT ![r] = "inline"] /\ UNCHANGED files
             /\ ~out[r].open /\ ~broken[r]
    <3>1. out[r].buf = 1..made[r]
      <4>1. /\ out[r].buf = 1..Lesser(Limit, made[r])
            /\ made[r] <= Limit /\ made[r] \in Nat /\ Limit \in Nat
        BY <1>0, <2>3, RunningFacts, McpAssumption
      <4> QED BY <4>1 DEF Lesser
    <3>2. result'[r] = "inline" /\ files'[r] = NoFile
      BY <1>0, <2>3 DEF SpillOK, TypeOK
    <3> QED BY <1>0, <1>1, <1>4, <3>1, <3>2 DEF SpillOK
  <2> QED BY <1>2, <2>1, <2>2, <2>3
<1> QED BY <1>3, <1>4

LEMMA SpillStep ==
  ASSUME TypeOK, OrderInv, SpillInv, [Next]_vars
  PROVE  SpillInv'
BY QuietSpill, WriteSpill, FinishSpill

\* What is kept in memory stays within the limit.
LEMMA HeadFits ==
  ASSUME SpillInv', out' \in [Requests -> Writer]
  PROVE  \A r \in Requests : Cardinality(out'[r].buf) <= Limit
<1> SUFFICES ASSUME NEW r \in Requests PROVE Cardinality(out'[r].buf) <= Limit
  OBVIOUS
<1>1. out'[r].buf = 1..Lesser(Limit, out'[r].total) /\ out'[r].total \in Nat
  BY DEF SpillInv, HeadIsPrefix, Writer
<1>2. Lesser(Limit, out'[r].total) \in Nat /\ Lesser(Limit, out'[r].total) <= Limit
  BY <1>1, McpAssumption DEF Lesser
<1> QED BY <1>1, <1>2, PrefixSize

-----------------------------------------------------------------------------
(* Types, continued *)

LEMMA TypeStep ==
  ASSUME TypeOK, SpillInv, SpillInv', [Next]_vars
  PROVE  TypeOK'
<1>1. CASE LoopStep
  <2>1. CASE \E r \in Requests : SkipNote(r) \/ Dispatch(r) \/ ReadTools(r)
    BY <2>1, CallTypes
  <2>2. CASE LoopEnds \/ Exit
    BY <2>2 DEF LoopEnds, Exit, TypeOK, exec, spills, client
  <2> QED BY <1>1, <2>1, <2>2 DEF LoopStep
<1>2. ASSUME NEW r \in Requests, CallStep(r) PROVE TypeOK'
  <2>1. CASE Write(r)
    <3>1. /\ out' \in [Requests -> Writer]
          /\ broken' \in [Requests -> BOOLEAN]
          /\ files' \in [Requests -> {NoFile} \cup SUBSET (1..MaxOutput)]
          /\ made' \in [Requests -> 0..MaxOutput]
      BY <2>1, WriteStep DEF WriteDone
    <3>2. UNCHANGED <<loop, task, focused, stdout, result, aged, client, answers>>
      BY <2>1 DEF Write
    <3> QED BY <3>1, <3>2, HeadFits DEF TypeOK, loop, client
  <2>2. CASE Finish(r)
    <3>1. out' \in [Requests -> Writer]
      <4>1. out' = [out EXCEPT ![r].open = FALSE]
        BY <2>2 DEF Finish
      <4> QED BY <4>1 DEF TypeOK, Writer
    <3>2. task' \in [Requests -> Working \cup Ended \cup {"unsent", "queued"}]
      BY <2>2, GotoType DEF Finish, Working
    <3>3. result' \in [Requests -> {"none", "inline", "pointer", "error"}]
      BY <2>2 DEF Finish, Fails, TypeOK
    <3>4. files' \in [Requests -> {NoFile} \cup SUBSET (1..MaxOutput)]
      BY <2>2 DEF Finish, Fails, Discard, TypeOK
    <3>5. UNCHANGED <<loop, focused, stdout, made, broken, aged, client, answers>>
      BY <2>2 DEF Finish
    <3> QED BY <3>1, <3>2, <3>3, <3>4, <3>5, HeadFits DEF TypeOK, loop, client
  <2> QED BY <1>2, <2>1, <2>2, CallTypes DEF CallStep
<1>3. ASSUME NEW r \in Requests, Age(r) PROVE TypeOK'
  BY <1>3 DEF Age, TypeOK, loop, exec, client
<1>4. CASE Kill
  <2>1. task' \in [Requests -> Working \cup Ended \cup {"unsent", "queued"}]
    BY <1>4 DEF Kill, TypeOK, Ended
  <2> QED BY <1>4, <2>1 DEF Kill, TypeOK, exec, spills, client
<1>5. CASE Restart
  <2>1. task' \in [Requests -> Working \cup Ended \cup {"unsent", "queued"}]
    BY <1>5 DEF Restart, TypeOK, Ended
  <2>2. stdout' \in Seq(Frame)
    BY <1>5 DEF Restart
  <2>3. files' \in [Requests -> {NoFile} \cup SUBSET (1..MaxOutput)]
    BY <1>5, SweptFiles DEF Restart
  <2>4. closed' \in BOOLEAN /\ stale' \in BOOLEAN
    BY <1>5 DEF Restart
  <2> QED BY <1>5, <2>1, <2>2, <2>3, <2>4, NothingType DEF Restart, TypeOK, exec, Frame
<1>6. ASSUME NEW a \in Asks, Ask(a) PROVE TypeOK'
  <2>1. sent + 1 \in Requests
    BY <1>6, McpAssumption DEF Ask, TypeOK, Requests
  <2>2. task' \in [Requests -> Working \cup Ended \cup {"unsent", "queued"}]
    BY <1>6, <2>1, GotoType DEF Ask
  <2>3. ask' \in [Requests -> Asks] /\ sent' \in 0..MaxRequests
    BY <1>6, <2>1, McpAssumption DEF Ask, TypeOK, Requests
  <2>4. quota' \in [Ops -> Nat]
    <3>1. a.op \in Ops
      BY DEF Asks, Ops
    <3> QED BY <1>6, <3>1 DEF Ask, TypeOK
  <2>5. stale' \in BOOLEAN
    BY <1>6 DEF Ask, TypeOK
  <2> QED BY <1>6, <2>2, <2>3, <2>4, <2>5 DEF Ask, TypeOK, loop, exec, spills
<1>7. CASE Close
  BY <1>7 DEF Close, TypeOK, loop, exec, spills
<1>8. CASE Receive
  <2>1. stdout \in Seq(Frame) /\ stdout # <<>> /\ stdout[1] \in Frame /\ stdout' \in Seq(Frame)
    <3>1. stdout \in Seq(Frame) /\ stdout # <<>> /\ stdout' = Tail(stdout)
      BY <1>8 DEF Receive, TypeOK, Frame
    <3> QED BY <3>1
  <2>2. view' \in [Keys -> SUBSET Tools]
    BY <1>8, <2>1 DEF Receive, TypeOK, Frame
  <2>3. stale' \in BOOLEAN
    BY <1>8 DEF Receive, TypeOK
  <2> QED BY <1>8, <2>1, <2>2, <2>3 DEF Receive, TypeOK, Frame, loop, exec, spills
<1>9. CASE UNCHANGED vars
  BY <1>9 DEF vars, TypeOK, loop, exec, spills, client
<1> QED BY <1>1, <1>2, <1>3, <1>4, <1>5, <1>6, <1>7, <1>8, <1>9 DEF Next

-----------------------------------------------------------------------------
(* Order and answers *)

\* A call goes from one place to the next, and is answered when it is done.
LEMMA CallMoves ==
  ASSUME TypeOK, NEW r \in Requests, CallStep(r)
  PROVE  /\ task[r] \in Working
         /\ \E place \in (Working \ {"inline"}) \cup {"done"} :
              /\ task' = [task EXCEPT ![r] = place]
              /\ answers' = IF place = "done" THEN [answers EXCEPT ![r] = @ + 1] ELSE answers
         /\ UNCHANGED <<pc, sent, ask>>
<1>1. CASE SendTools(r) \/ Reply(r)
  <2>1. /\ task' = [task EXCEPT ![r] = "done"]
        /\ answers' = [answers EXCEPT ![r] = @ + 1]
        /\ task[r] \in Working
        /\ UNCHANGED <<pc, sent, ask>>
    BY <1>1 DEF SendTools, Reply, Goto, Working, loop, client
  <2> QED BY <2>1
<1>2. CASE Write(r)
  <2>1. UNCHANGED <<task, pc, sent, ask, answers>> /\ task[r] = "running"
    BY <1>2 DEF Write, loop, client
  <2>2. task' = [task EXCEPT ![r] = "running"]
    BY <2>1 DEF TypeOK
  <2> QED BY <2>1, <2>2 DEF Working
<1>3. CASE ~SendTools(r) /\ ~Reply(r) /\ ~Write(r)
  <2>1. /\ task[r] \in Working
        /\ UNCHANGED <<pc, sent, ask, answers>>
    BY <1>3 DEF CallStep, Bad, Focus, Usage, Unfocus, UnfocusAll, Notify, Start, Finish,
                Calling, Working, loop, client
  <2>2. \E place \in {"answer", "notify", "running"} : Goto(r, place)
    BY <1>3 DEF CallStep, Bad, Focus, Usage, Unfocus, UnfocusAll, Notify, Start, Finish, After
  <2> QED BY <2>1, <2>2 DEF Goto, Working
<1> QED BY <1>1, <1>2, <1>3

LEMMA OrderStep ==
  ASSUME TypeOK, OrderInv, [Next]_vars
  PROVE  OrderInv'
<1>1. ASSUME NEW r \in Requests, SkipNote(r) \/ Dispatch(r) \/ ReadTools(r) PROVE OrderInv'
  <2>1. /\ task[r] = "queued" /\ pc = "read" /\ ~LoopBusy
        /\ UNCHANGED <<pc, sent, ask, answers>>
    BY <1>1 DEF SkipNote, Dispatch, ReadTools, Reading, loop, client
  <2>2. \/ task' = [task EXCEPT ![r] = "inline"] /\ ask[r].op = "list"
        \/ task' = [task EXCEPT ![r] = "ignored"]
        \/ task' = [task EXCEPT ![r] = "started"]
    BY <1>1 DEF SkipNote, Dispatch, ReadTools, Goto
  <2> QED BY <2>1, <2>2 DEF OrderInv, LoopBusy, TypeOK
<1>2. CASE LoopEnds \/ Exit
  <2>1. UNCHANGED <<task, sent, ask, answers>> /\ pc' \in {"drain", "exited"}
        /\ (pc' = "exited" => Idle)
    BY <1>2 DEF LoopEnds, Exit, client
  <2> QED BY <2>1 DEF OrderInv, Idle
<1>3. ASSUME NEW r \in Requests, CallStep(r) PROVE OrderInv'
  <2>1. PICK place \in (Working \ {"inline"}) \cup {"done"} :
          /\ task' = [task EXCEPT ![r] = place]
          /\ answers' = IF place = "done" THEN [answers EXCEPT ![r] = @ + 1] ELSE answers
    BY <1>3, CallMoves
  <2>2. task[r] \in Working /\ UNCHANGED <<pc, sent, ask>>
    BY <1>3, CallMoves
  <2>3. pc \notin {"exited", "down"}
    BY <2>2 DEF OrderInv, Idle
  <2>4. answers[r] = 0 /\ task[r] # "unsent"
    BY <2>2 DEF OrderInv, Working
  <2>5. place # "inline"
    BY DEF Working
  <2>6. \A q \in Requests : answers'[q] = IF task'[q] = "done" THEN 1 ELSE 0
    BY <2>1, <2>4 DEF OrderInv, TypeOK
  <2> QED BY <2>1, <2>2, <2>3, <2>4, <2>5, <2>6 DEF OrderInv, TypeOK
<1>4. CASE Kill
  <2>1. Idle'
    BY <1>4 DEF Kill, Idle, Working
  <2> QED BY <1>4, <2>1 DEF Kill, OrderInv, Working, client
<1>5. CASE Restart
  BY <1>5 DEF Restart, OrderInv
<1>6. ASSUME NEW a \in Asks, Ask(a) PROVE OrderInv'
  <2>1. sent + 1 \in Requests /\ sent \in Nat
    BY <1>6, McpAssumption DEF Ask, TypeOK, Requests
  <2>2. task[sent + 1] = "unsent"
    BY <2>1 DEF OrderInv
  <2>3. /\ task' = [task EXCEPT ![sent + 1] = "queued"]
        /\ ask' = [ask EXCEPT ![sent + 1] = a]
        /\ sent' = sent + 1 /\ UNCHANGED <<pc, answers>>
    BY <1>6 DEF Ask, Goto, loop
  <2>4. Idle => Idle'
    BY <2>1, <2>3 DEF Idle, Working, TypeOK
  <2>5. \A q \in Requests : q > sent' => task'[q] = "unsent"
    BY <2>1, <2>3 DEF OrderInv, Requests
  <2>6. \A q \in Requests : task'[q] = "inline" => task[q] = "inline" /\ ask'[q] = ask[q]
    BY <2>1, <2>2, <2>3 DEF TypeOK
  <2>7. \A q \in Requests : answers'[q] = IF task'[q] = "done" THEN 1 ELSE 0
    BY <2>1, <2>2, <2>3 DEF OrderInv, TypeOK
  <2> QED BY <2>3, <2>4, <2>5, <2>6, <2>7 DEF OrderInv
<1>7. CASE \/ \E r \in Requests : Age(r)
           \/ Close \/ Receive \/ UNCHANGED vars
  <2>1. UNCHANGED <<task, sent, ask, answers, pc>>
    BY <1>7 DEF Age, Close, Receive, vars, loop, client
  <2> QED BY <2>1 DEF OrderInv, Idle
<1> QED BY <1>1, <1>2, <1>3, <1>4, <1>5, <1>6, <1>7 DEF Next, LoopStep

-----------------------------------------------------------------------------
(* The client's tools *)

\* Foreseen and Calm for any frames and any tools known to the client.
Shows(frames, known, tools) ==
  \/ known = tools /\ \A n \in 1..Len(frames) : frames[n].kind # "list"
  \/ \E n \in 1..Len(frames) :
       /\ frames[n].kind = "list" /\ frames[n].tools = tools
       /\ \A m \in (n + 1)..Len(frames) : frames[m].kind # "list"

Silent(frames) == \A n \in 1..Len(frames) : frames[n].kind # "changed"

LEMMA ShowsAppend ==
  ASSUME NEW frames \in Seq(Frame), NEW frame \in Frame, NEW known, NEW tools
  PROVE  /\ frame.kind = "list" => Shows(Append(frames, frame), known, frame.tools)
         /\ frame.kind # "list" /\ Shows(frames, known, tools)
              => Shows(Append(frames, frame), known, tools)
         /\ Silent(Append(frames, frame)) => Silent(frames) /\ frame.kind # "changed"
<1> DEFINE long == Append(frames, frame)
<1>1. /\ Len(frames) \in Nat /\ Len(long) = Len(frames) + 1
      /\ long[Len(frames) + 1] = frame
      /\ \A n \in 1..Len(frames) : long[n] = frames[n]
  OBVIOUS
<1> HIDE DEF long
<1>2. frame.kind = "list" => Shows(long, known, frame.tools)
  BY <1>1 DEF Shows
<1>3. ASSUME frame.kind # "list", Shows(frames, known, tools) PROVE Shows(long, known, tools)
  <2>1. CASE known = tools /\ \A n \in 1..Len(frames) : frames[n].kind # "list"
    <3>1. \A n \in 1..Len(long) : long[n].kind # "list"
      BY <1>1, <1>3, <2>1
    <3> QED BY <2>1, <3>1 DEF Shows
  <2>2. CASE \E n \in 1..Len(frames) :
               /\ frames[n].kind = "list" /\ frames[n].tools = tools
               /\ \A m \in (n + 1)..Len(frames) : frames[m].kind # "list"
    <3>1. PICK n \in 1..Len(frames) :
            /\ frames[n].kind = "list" /\ frames[n].tools = tools
            /\ \A m \in (n + 1)..Len(frames) : frames[m].kind # "list"
      BY <2>2
    <3>2. \A m \in (n + 1)..Len(long) : long[m].kind # "list"
      BY <1>1, <1>3, <3>1
    <3> QED BY <1>1, <3>1, <3>2 DEF Shows
  <2> QED BY <1>3, <2>1, <2>2 DEF Shows
<1>4. Silent(long) => Silent(frames) /\ frame.kind # "changed"
  BY <1>1 DEF Silent
<1> QED BY <1>2, <1>3, <1>4 DEF long

LEMMA ShowsTail ==
  ASSUME NEW frames \in Seq(Frame), frames # <<>>, NEW known, NEW tools
  PROVE  /\ Shows(frames, known, tools)
              => Shows(Tail(frames), IF frames[1].kind = "list" THEN frames[1].tools ELSE known, tools)
         /\ Silent(Tail(frames)) /\ frames[1].kind # "changed" => Silent(frames)
<1> DEFINE rest == Tail(frames)
<1>1. /\ Len(frames) \in Nat \ {0} /\ Len(rest) = Len(frames) - 1
      /\ \A n \in 1..Len(rest) : rest[n] = frames[n + 1]
  OBVIOUS
<1> HIDE DEF rest
<1>2. ASSUME Shows(frames, known, tools)
      PROVE  Shows(rest, IF frames[1].kind = "list" THEN frames[1].tools ELSE known, tools)
  <2>1. CASE known = tools /\ \A n \in 1..Len(frames) : frames[n].kind # "list"
    <3>1. frames[1].kind # "list" /\ \A n \in 1..Len(rest) : rest[n].kind # "list"
      BY <1>1, <2>1
    <3> QED BY <2>1, <3>1 DEF Shows
  <2>2. CASE \E n \in 1..Len(frames) :
               /\ frames[n].kind = "list" /\ frames[n].tools = tools
               /\ \A m \in (n + 1)..Len(frames) : frames[m].kind # "list"
    <3>1. PICK n \in 1..Len(frames) :
            /\ frames[n].kind = "list" /\ frames[n].tools = tools
            /\ \A m \in (n + 1)..Len(frames) : frames[m].kind # "list"
      BY <2>2
    <3>2. CASE n = 1
      <4>1. \A m \in 1..Len(rest) : rest[m].kind # "list"
        BY <1>1, <3>1, <3>2
      <4> QED BY <3>1, <3>2, <4>1 DEF Shows
    <3>3. CASE n # 1
      <4>1. n - 1 \in 1..Len(rest) /\ rest[n - 1] = frames[n]
        BY <1>1, <3>1, <3>3
      <4>2. \A m \in ((n - 1) + 1)..Len(rest) : rest[m].kind # "list"
        BY <1>1, <3>1, <3>3
      <4> QED BY <3>1, <4>1, <4>2 DEF Shows
    <3> QED BY <3>2, <3>3
  <2> QED BY <1>2, <2>1, <2>2 DEF Shows
<1>3. ASSUME Silent(rest), frames[1].kind # "changed" PROVE Silent(frames)
  <2> SUFFICES ASSUME NEW n \in 1..Len(frames) PROVE frames[n].kind # "changed"
    BY DEF Silent
  <2>1. CASE n = 1
    BY <1>3, <2>1
  <2>2. CASE n # 1
    <3>1. n - 1 \in 1..Len(rest) /\ rest[n - 1] = frames[n]
      BY <1>1, <2>2
    <3> QED BY <1>3, <3>1 DEF Silent
  <2> QED BY <2>1, <2>2
<1> QED BY <1>2, <1>3 DEF rest

\* ViewInv in terms of these.
QueuedList == \E r \in Requests : ask[r].op = "list" /\ task[r] = "queued"
Quiet == ~stale /\ (\A r \in Requests : task[r] # "notify") /\ Silent(stdout)
InSight ==
  \/ QueuedList
  \/ LoopBusy /\ held = focused
  \/ ~LoopBusy /\ Shows(stdout, view, focused)

LEMMA ViewByQuiet == ViewInv <=> (pc # "down" /\ Quiet => InSight)
BY DEF ViewInv, Calm, Foreseen, Quiet, InSight, QueuedList, Shows, Silent

LEMMA ViewByQuietNext == ViewInv' <=> (pc' # "down" /\ Quiet' => InSight')
BY DEF ViewInv, Calm, Foreseen, Quiet, InSight, QueuedList, Shows, Silent

\* A step that neither changes nor lists the tools keeps them in sight.
LEMMA ViewKept ==
  ASSUME ViewInv, pc # "down",
         stale' = stale, UNCHANGED <<focused, held, view>>,
         \A r \in Requests : task[r] = "notify" => task'[r] = "notify",
         \A r \in Requests : ask[r].op = "list" /\ task[r] = "queued"
                               => ask'[r].op = "list" /\ task'[r] = "queued",
         \A r \in Requests : task[r] = "inline" <=> task'[r] = "inline",
         UNCHANGED stdout \/ (TypeOK /\ Send(Answer))
  PROVE  ViewInv'
<1> SUFFICES ASSUME Quiet' PROVE InSight'
  BY ViewByQuietNext
<1>1. LoopBusy' <=> LoopBusy
  BY DEF LoopBusy
<1>2. Silent(stdout) /\ (Shows(stdout, view, focused) => Shows(stdout', view, focused))
  <2>1. CASE UNCHANGED stdout
    BY <2>1 DEF Quiet
  <2>2. CASE TypeOK /\ Send(Answer)
    <3>1. stdout \in Seq(Frame) /\ Answer \in Frame /\ Answer.kind = "answer"
      BY <2>2, FrameTypes DEF TypeOK, Frame, Answer
    <3>2. stdout' = Append(stdout, Answer) /\ Silent(stdout')
      BY <2>2 DEF Send, Quiet
    <3> QED BY <3>1, <3>2, ShowsAppend
  <2> QED BY <2>1, <2>2
<1>3. Quiet
  BY <1>2 DEF Quiet
<1>4. InSight
  BY <1>3, ViewByQuiet
<1>5. QueuedList => QueuedList'
  BY DEF QueuedList
<1> QED BY <1>1, <1>2, <1>4, <1>5 DEF InSight

LEMMA ViewStep ==
  ASSUME TypeOK, OrderInv, ViewInv, [Next]_vars
  PROVE  ViewInv'
<1>1. ASSUME NEW r \in Requests, SkipNote(r) \/ Dispatch(r) PROVE ViewInv'
  <2>1. /\ pc = "read" /\ task[r] = "queued" /\ ask[r].op # "list"
        /\ task' = [task EXCEPT ![r] = IF ask[r].op = "note" THEN "ignored" ELSE "started"]
        /\ UNCHANGED <<focused, held, view, stale, stdout, ask>>
    BY <1>1 DEF SkipNote, Dispatch, Reading, Goto, loop, client
  <2> QED BY <2>1, ViewKept DEF TypeOK
<1>2. ASSUME NEW r \in Requests, ReadTools(r) PROVE ViewInv'
  <2>1. task'[r] = "inline" /\ held' = focused /\ UNCHANGED focused
    BY <1>2 DEF ReadTools, Goto, TypeOK
  <2> QED BY <2>1, ViewByQuietNext DEF InSight, LoopBusy
<1>3. CASE LoopEnds \/ Exit
  <2>1. pc # "down" /\ UNCHANGED <<task, focused, held, view, stale, stdout, ask>>
    BY <1>3 DEF LoopEnds, Exit, client
  <2> QED BY <2>1, ViewKept
<1>4. ASSUME NEW r \in Requests, SendTools(r) PROVE ViewInv'
  <2> SUFFICES ASSUME Quiet' PROVE InSight'
    BY ViewByQuietNext
  <2>1. /\ task[r] = "inline" /\ task' = [task EXCEPT ![r] = "done"]
        /\ stdout' = Append(stdout, Listing)
        /\ UNCHANGED <<pc, focused, view, stale, ask>>
    BY <1>4 DEF SendTools, Send, Goto, client
  <2>2. stdout \in Seq(Frame) /\ Listing \in Frame /\ Listing.kind = "list" /\ Listing.tools = held
    BY FrameTypes DEF TypeOK, Frame, Listing
  <2>3. Silent(stdout') => Silent(stdout)
    BY <2>1, <2>2, ShowsAppend
  <2>4. Quiet /\ pc # "down"
    BY <2>1, <2>3 DEF Quiet, TypeOK, OrderInv, Idle, Working
  <2>5. InSight
    BY <2>4, ViewByQuiet
  <2>6. CASE QueuedList
    BY <2>1, <2>6 DEF QueuedList, InSight, TypeOK
  <2>7. CASE held = focused
    <3>1. Shows(stdout', view, held)
      BY <2>1, <2>2, ShowsAppend
    <3>2. ~LoopBusy'
      BY <2>1 DEF LoopBusy, OrderInv, TypeOK
    <3> QED BY <2>1, <2>7, <3>1, <3>2 DEF InSight
  <2> QED BY <2>1, <2>5, <2>6, <2>7 DEF InSight, LoopBusy
<1>5. ASSUME NEW r \in Requests, CallStep(r), ~SendTools(r) PROVE ViewInv'
  <2>0. pc # "down" /\ task[r] \notin {"queued", "inline"}
    <3>1. task[r] \in Working
      BY <1>5, CallMoves
    <3>2. task[r] # "inline"
      BY <1>5 DEF CallStep, Bad, Focus, Usage, Unfocus, UnfocusAll, Notify, Reply, Start, Write,
                  Finish, Calling
    <3> QED BY <3>1, <3>2 DEF OrderInv, Idle, Working
  <2>1. CASE task'[r] = "notify"
    BY <2>1, ViewByQuietNext DEF Quiet
  <2>2. CASE Notify(r)
    <3>1. ~Silent(stdout')
      <4>1. stdout' = Append(stdout, Changed) /\ Changed.kind = "changed"
        BY <2>2 DEF Notify, Send, Changed
      <4>2. stdout \in Seq(Frame) /\ Changed \in Frame
        BY FrameTypes DEF TypeOK, Frame
      <4> QED BY <4>1, <4>2, ShowsAppend
    <3> QED BY <3>1, ViewByQuietNext DEF Quiet
  <2>3. CASE task'[r] # "notify" /\ ~Notify(r)
    <3>1. UNCHANGED focused
      <4>1. CASE Focus(r)
        BY <2>3, <4>1 DEF Focus, Goto, TypeOK
      <4>2. CASE Usage(r)
        <5>1. ask[r].arg \in focused["_usage"]
          BY <2>3, <4>2 DEF Usage, Goto, After, TypeOK
        <5> QED BY <4>2, <5>1 DEF Usage, TypeOK, Keys
      <4>3. CASE Unfocus(r)
        <5>1. focused[ask[r].arg] = {}
          BY <2>3, <4>3 DEF Unfocus, Goto, After, TypeOK
        <5> QED BY <4>3, <5>1 DEF Unfocus, TypeOK
      <4>4. CASE UnfocusAll(r)
        BY <2>3, <4>4 DEF UnfocusAll, Goto, After, TypeOK
      <4> QED
        BY <1>5, <2>3, <4>1, <4>2, <4>3, <4>4
           DEF CallStep, Bad, Reply, Start, Write, Finish
    <3>2. /\ UNCHANGED <<held, view, stale, ask>>
          /\ UNCHANGED stdout \/ Send(Answer)
      BY <1>5, <2>3
         DEF CallStep, Bad, Focus, Usage, Unfocus, UnfocusAll, Reply, Start, Write, Finish,
             loop, client
    <3>3. PICK place \in (Working \ {"inline"}) \cup {"done"} : task' = [task EXCEPT ![r] = place]
      BY <1>5, CallMoves
    <3>4. /\ \A q \in Requests : task[q] = "queued" => task'[q] = "queued"
          /\ \A q \in Requests : task[q] = "inline" <=> task'[q] = "inline"
      BY <2>0, <3>3 DEF TypeOK, Working
    <3>5. \A q \in Requests : task[q] = "notify" => task'[q] = "notify"
      <4>1. task[r] # "notify"
        BY <1>5, <2>3 DEF CallStep, Bad, Focus, Usage, Unfocus, UnfocusAll, Reply, Start, Write,
                          Finish, Calling
      <4> QED BY <3>3, <4>1 DEF TypeOK
    <3> QED BY <2>0, <3>1, <3>2, <3>4, <3>5, ViewKept
  <2> QED BY <2>1, <2>2, <2>3
<1>6. CASE Kill
  BY <1>6, ViewByQuietNext DEF Kill
<1>7. CASE Restart
  <2>1. ~LoopBusy'
    BY <1>7 DEF Restart, LoopBusy, OrderInv, Idle, Working
  <2>2. Shows(stdout', view', focused')
    BY <1>7 DEF Restart, Shows
  <2> QED BY <2>1, <2>2, ViewByQuietNext DEF InSight
<1>8. ASSUME NEW a \in Asks, Ask(a) PROVE ViewInv'
  <2>1. sent + 1 \in Requests /\ sent \in Nat
    BY <1>8, McpAssumption DEF Ask, TypeOK, Requests
  <2>2. task[sent + 1] = "unsent"
    BY <2>1 DEF OrderInv
  <2>3. /\ task' = [task EXCEPT ![sent + 1] = "queued"]
        /\ ask' = [ask EXCEPT ![sent + 1] = a]
        /\ stale' = (stale /\ a.op # "list")
        /\ pc # "down" /\ UNCHANGED <<focused, held, stdout, view>>
    BY <1>8 DEF Ask, Goto, loop
  <2>4. CASE a.op = "list"
    <3>1. QueuedList'
      BY <2>1, <2>3, <2>4 DEF QueuedList, TypeOK
    <3> QED BY <3>1, ViewByQuietNext DEF InSight
  <2>5. CASE a.op # "list"
    <3>1. stale' = stale
      BY <2>3, <2>5 DEF TypeOK
    <3>2. /\ \A q \in Requests : task[q] = "notify" => task'[q] = "notify"
          /\ \A q \in Requests : ask[q].op = "list" /\ task[q] = "queued"
                                   => ask'[q].op = "list" /\ task'[q] = "queued"
          /\ \A q \in Requests : task[q] = "inline" <=> task'[q] = "inline"
      BY <2>1, <2>2, <2>3 DEF TypeOK
    <3> QED BY <2>3, <3>1, <3>2, ViewKept
  <2> QED BY <2>4, <2>5
<1>9. CASE Receive
  <2> SUFFICES ASSUME Quiet' PROVE InSight'
    BY ViewByQuietNext
  <2>1. /\ stdout # <<>> /\ stdout' = Tail(stdout) /\ pc # "down"
        /\ stale' = (stale \/ stdout[1].kind = "changed")
        /\ view' = IF stdout[1].kind = "list" THEN stdout[1].tools ELSE view
        /\ UNCHANGED <<pc, task, ask, focused, held>>
    BY <1>9 DEF Receive, loop
  <2>2. stdout \in Seq(Frame)
    BY DEF TypeOK, Frame
  <2>3. stdout[1].kind # "changed" /\ ~stale /\ Silent(stdout')
    BY <2>1 DEF Quiet, TypeOK
  <2>4. Quiet
    BY <2>1, <2>2, <2>3, ShowsTail DEF Quiet
  <2>5. InSight
    BY <2>1, <2>4, ViewByQuiet
  <2>6. QueuedList' <=> QueuedList
    BY <2>1 DEF QueuedList
  <2>7. LoopBusy' <=> LoopBusy
    BY <2>1 DEF LoopBusy
  <2>8. Shows(stdout, view, focused) => Shows(stdout', view', focused)
    BY <2>1, <2>2, ShowsTail
  <2> QED BY <2>1, <2>5, <2>6, <2>7, <2>8 DEF InSight
<1>10. CASE (\E r \in Requests : Age(r)) \/ Close \/ UNCHANGED vars
  <2>1. UNCHANGED <<pc, task, focused, held, view, stale, stdout, ask>>
    BY <1>10 DEF Age, Close, vars, loop, client
  <2>2. CASE pc = "down"
    BY <2>1, <2>2, ViewByQuietNext
  <2> QED BY <2>1, <2>2, ViewKept
<1> QED
  BY <1>1, <1>2, <1>3, <1>4, <1>5, <1>6, <1>7, <1>8, <1>9, <1>10 DEF Next, LoopStep

-----------------------------------------------------------------------------

LEMMA NextIInv ==
  ASSUME IInv, [Next]_vars
  PROVE  IInv'
<1>1. SpillInv' /\ OrderInv' /\ ViewInv'
  BY SpillStep, OrderStep, ViewStep DEF IInv
<1>2. TypeOK'
  BY <1>1, TypeStep DEF IInv
<1> QED BY <1>1, <1>2 DEF IInv

LEMMA Invariance == Spec => []IInv
<1>1. Init => IInv
  BY InitIInv
<1>2. IInv /\ [Next]_vars => IInv'
  BY NextIInv
<1> QED BY <1>1, <1>2, PTL DEF Spec

\* Every variable of the server, its calls and its client keeps its type, and no
\* call holds more than the inline limit in memory (overflowWriter).
THEOREM McpTypeCorrect == Spec => []TypeOK
<1>1. IInv => TypeOK
  BY DEF IInv
<1> QED BY <1>1, Invariance, PTL

\* The in-memory head is the start of the output, "whether or not the output spilled"
\* (overflowWriter).
THEOREM HeadsAreStarts == Spec => []HeadIsPrefix
<1>1. IInv => HeadIsPrefix
  BY DEF IInv, SpillInv
<1> QED BY <1>1, Invariance, PTL

\* An answer carries the whole output or points at a file with the whole of it, with a full
\* disk, concurrent sweeps, kills and restarts (overflowWriter, mcpSweepSpills).
THEOREM SpillsSafe == Spec => []ResultsWhole
<1>1. IInv => ResultsWhole
  BY DEF IInv, SpillInv
<1> QED BY <1>1, Invariance, PTL

\* No spill file is left that nothing points at, but by a call under way or a kill (discard).
THEOREM NothingOrphaned == Spec => []NoOrphans
<1>1. IInv => NoOrphans
  BY DEF IInv, SpillInv
<1> QED BY <1>1, Invariance, PTL

\* A client that lists the tools when told they changed ends up with the tools that
\* are loaded (notifyToolsChanged after the focused map is changed).
THEOREM ViewsAgree == Spec => []ViewFresh
<1>1. IInv => ViewFresh
  <2> SUFFICES ASSUME IInv, pc # "down", stdout = <<>>, ~stale,
                      \A r \in Requests : /\ task[r] # "notify"
                                          /\ ask[r].op = "list" => task[r] \in Ended \cup {"unsent"}
               PROVE  view = focused
    BY DEF ViewFresh
  <2>1. Quiet
    BY DEF Quiet, Silent
  <2>2. InSight
    BY <2>1, ViewByQuiet DEF IInv
  <2>3. ~QueuedList /\ ~LoopBusy
    BY DEF QueuedList, LoopBusy, IInv, OrderInv, Ended
  <2> QED BY <2>2, <2>3 DEF InSight, Shows
<1> QED BY <1>1, Invariance, PTL

\* The process does not end before each request it took up has its one answer
\* (wg.Wait in runMCPServe).
THEOREM ExitAfterAnswers == Spec => []ExitComplete
<1>1. IInv => ExitComplete
  BY DEF IInv, OrderInv, ExitComplete, Idle
<1> QED BY <1>1, Invariance, PTL
=============================================================================
