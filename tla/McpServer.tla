-------------------------------- MODULE McpServer --------------------------------
(***************************************************************************)
(* secopsctl mcp serve (internal/cli): a loop reads JSON-RPC requests from *)
(* stdin, answers protocol requests itself and hands every tools/call to a *)
(* goroutine of its own. Focused tools, stdout and the spill directory are *)
(* shared by them. A tool runs as a child process, whose output goes to    *)
(* memory up to a limit and to a spill file beyond it.                     *)
(*                                                                         *)
(* The client is a program that sends requests when it likes, without      *)
(* waiting for answers, and lists the tools again when told to. It may     *)
(* close stdin or kill the server and start another, which finds the spill *)
(* files of the first. The bytes of an output are numbered from 1.         *)
(***************************************************************************)
EXTENDS Naturals, Sequences, FiniteSets

CONSTANTS
  Tools,        \* typed tools
  Groups,       \* command groups
  GroupOf,      \* [Tools -> Groups]
  Limit,        \* the inline limit, mcpSpillThreshold()
  MaxRequests,  \* bound: requests the client sends
  Quotas,       \* bound: how many of each kind, one of these
  MaxOutput,    \* bound: bytes a child writes
  Faults        \* what may go wrong, see AllFaults

AllFaults == {"disk",   \* a spill file cannot be made, written or closed
              "long",   \* a line longer than the scanner's buffer
              "kill"}   \* the server is killed

\* What a request may be. A "note" has no id; "list" is tools/list; the others are
\* tools/call: "exec" stands for run, help and the typed tools, "bad" for any call
\* that is answered with an error before it does anything.
Ops == {"note", "list", "exec", "bad", "focus", "usage", "unfocus", "unfocusAll"}

ASSUME McpAssumption ==
  /\ GroupOf \in [Tools -> Groups]
  /\ "_usage" \notin Groups
  /\ Limit \in Nat \ {0}
  /\ MaxRequests \in Nat /\ MaxOutput \in Nat
  /\ Quotas \subseteq [Ops -> Nat]
  /\ Faults \subseteq AllFaults

Requests == 1..MaxRequests
Keys == Groups \cup {"_usage"}
ToolsOf(g) == {t \in Tools : GroupOf[t] = g}

Asks ==
  [op : {"note", "list", "exec", "bad", "unfocusAll"}, arg : {"-"}]
    \cup [op : {"focus"}, arg : {g \in Groups : ToolsOf(g) # {}}]
    \cup [op : {"unfocus"}, arg : Keys]
    \cup [op : {"usage"}, arg : Tools]

VARIABLES
  pc,        \* the read loop: "read", "drain" (wg.Wait), "exited" or "down"
  quota,     \* requests the client may still send, of each kind
  sent,      \* requests sent to this or an earlier server
  ask,       \* what each request asks
  task,      \* where each request is
  focused,   \* the tools loaded under each key, {} for no entry
  held,      \* the tools an answer to tools/list is made of
  stdout,    \* frames written and not yet read by the client
  out,       \* the overflowWriter of each exec
  made,      \* bytes its child has written
  broken,    \* execs whose output could not be copied
  files,     \* spill files, named by the request that made them: the bytes in it
  aged,      \* files older than mcpSpillMaxAge
  closed,    \* the client closed stdin
  view,      \* the tools the client knows of
  stale,     \* it was told they changed and has not asked for them since
  (* History, read by properties only. *)
  result,    \* what each exec was answered with
  answers    \* answers written for each request

loop == <<pc, held>>
exec == <<out, made, broken, result>>
spills == <<files, aged>>
client == <<quota, sent, ask, closed, view, stale>>
vars == <<loop, task, focused, stdout, exec, spills, client, answers>>

-----------------------------------------------------------------------------
(* Data *)

Working == {"inline", "started", "notify", "running", "answer"}
Ended   == {"done", "ignored", "lost"}
NoFile  == {0}  \* bytes are numbered from 1
Writer  == [open : BOOLEAN, total : Nat, buf : SUBSET (1..MaxOutput)]

Nothing   == [k \in Keys |-> {}]
NewWriter == [open |-> FALSE, total |-> 0, buf |-> {}]

\* The frames a client acts on by itself, and an answer.
Changed   == [kind |-> "changed", tools |-> Nothing]
Listing   == [kind |-> "list", tools |-> held]
Answer    == [kind |-> "answer", tools |-> Nothing]

Lesser(a, b) == IF a < b THEN a ELSE b

\* Mutant: the age of a file is not looked at.
SweptAll(dir) == [r \in Requests |-> NoFile]

\* mcpSweepSpills: files past their age go, fresh ones stay.
Swept(dir) == [r \in Requests |-> IF r \in aged THEN NoFile ELSE dir[r]]

\* What the in-memory head takes of a chunk of which n bytes were written.
Taken(r, chunk, n) ==
  LET room == Lesser(Limit - Cardinality(out[r].buf), n)
  IN  {b \in chunk : b <= made[r] + room}

\* Mutant: changed tools are not announced.
AfterQuiet(changed) == "answer"

\* Where a call goes on once it has read or changed the focused tools.
After(changed) == IF changed THEN "notify" ELSE "answer"

\* Mutant: a failed run leaves its spill file behind.
DiscardNone(dir, r) == dir

\* discard, and the removal in spillPointer.
Discard(dir, r) == [dir EXCEPT ![r] = NoFile]

\* cmd.Run returns no error: the child's exit status is 0 and its output was copied.
Succeeded(r, status) == status /\ ~broken[r]

\* Mutant: the process ends with its read loop.
IdleAlways == TRUE

\* Mutant: requests count as under way before they are read.
IdleUnread == \A r \in Requests : task[r] \notin Working \cup {"queued"}

\* wg.Wait returns.
Idle == \A r \in Requests : task[r] \notin Working

-----------------------------------------------------------------------------

Init ==
  /\ pc = "read"
  /\ quota \in Quotas
  /\ sent = 0
  /\ ask = [r \in Requests |-> [op |-> "note", arg |-> "-"]]
  /\ task = [r \in Requests |-> "unsent"]
  /\ focused = Nothing /\ held = Nothing
  /\ stdout = <<>>
  /\ out = [r \in Requests |-> NewWriter]
  /\ made = [r \in Requests |-> 0]
  /\ broken = [r \in Requests |-> FALSE]
  /\ files = [r \in Requests |-> NoFile]
  /\ aged = {}
  /\ closed = FALSE
  /\ view = Nothing
  /\ stale = FALSE
  /\ result = [r \in Requests |-> "none"]
  /\ answers = [r \in Requests |-> 0]

Goto(r, place) == task' = [task EXCEPT ![r] = place]

\* send, under wmu: frames never mix.
Send(frame) == stdout' = Append(stdout, frame)

(* The read loop *)

LoopBusy == \E r \in Requests : task[r] = "inline"

\* The next line of stdin.
Reading(r) ==
  /\ pc = "read" /\ ~LoopBusy
  /\ task[r] = "queued" /\ \A q \in 1..(r - 1) : task[q] # "queued"

\* No id, no answer.
SkipNote(r) ==
  /\ Reading(r)
  /\ ask[r].op = "note"
  /\ Goto(r, "ignored")
  /\ UNCHANGED <<loop, focused, stdout, exec, spills, client, answers>>

\* A tools/call gets a goroutine.
Dispatch(r) ==
  /\ Reading(r)
  /\ ask[r].op \notin {"note", "list"}
  /\ Goto(r, "started")
  /\ UNCHANGED <<loop, focused, stdout, exec, spills, client, answers>>

\* tools/list runs on the loop: visibleTools under mu, then send.
ReadTools(r) ==
  /\ Reading(r)
  /\ ask[r].op = "list"
  /\ held' = focused
  /\ Goto(r, "inline")
  /\ UNCHANGED <<pc, focused, stdout, exec, spills, client, answers>>

SendTools(r) ==
  /\ task[r] = "inline"
  /\ Send(Listing)
  /\ answers' = [answers EXCEPT ![r] = @ + 1]
  /\ Goto(r, "done")
  /\ held' = Nothing
  /\ UNCHANGED <<pc, focused, exec, spills, client>>

\* End of file, or a line the scanner cannot take: it and all after it stay unread.
LoopEnds ==
  /\ pc = "read" /\ ~LoopBusy
  /\ \/ closed /\ \A r \in Requests : task[r] # "queued"
     \/ "long" \in Faults /\ \E r \in Requests : task[r] = "queued"
  /\ pc' = "drain"
  /\ UNCHANGED <<held, task, focused, stdout, exec, spills, client, answers>>

Exit ==
  /\ pc = "drain"
  /\ Idle
  /\ pc' = "exited"
  /\ UNCHANGED <<held, task, focused, stdout, exec, spills, client, answers>>

(* A tools/call *)

Calling(r, op) == task[r] = "started" /\ ask[r].op = op

Bad(r) ==
  /\ Calling(r, "bad")
  /\ Goto(r, "answer")
  /\ UNCHANGED <<loop, focused, stdout, exec, spills, client, answers>>

Focus(r) ==
  /\ Calling(r, "focus")
  /\ focused' = [focused EXCEPT ![ask[r].arg] = ToolsOf(ask[r].arg)]
  /\ Goto(r, "notify")
  /\ UNCHANGED <<loop, stdout, exec, spills, client, answers>>

\* The tool is loaded under a key of its own, unless it is there.
Usage(r) ==
  /\ Calling(r, "usage")
  /\ focused' = [focused EXCEPT !["_usage"] = @ \cup {ask[r].arg}]
  /\ Goto(r, After(ask[r].arg \notin focused["_usage"]))
  /\ UNCHANGED <<loop, stdout, exec, spills, client, answers>>

Unfocus(r) ==
  /\ Calling(r, "unfocus")
  /\ focused' = [focused EXCEPT ![ask[r].arg] = {}]
  /\ Goto(r, After(focused[ask[r].arg] # {}))
  /\ UNCHANGED <<loop, stdout, exec, spills, client, answers>>

UnfocusAll(r) ==
  /\ Calling(r, "unfocusAll")
  /\ focused' = Nothing
  /\ Goto(r, After(focused # Nothing))
  /\ UNCHANGED <<loop, stdout, exec, spills, client, answers>>

\* notifyToolsChanged, after mu is released.
Notify(r) ==
  /\ task[r] = "notify"
  /\ Send(Changed)
  /\ Goto(r, "answer")
  /\ UNCHANGED <<loop, focused, exec, spills, client, answers>>

Reply(r) ==
  /\ task[r] = "answer"
  /\ Send(Answer)
  /\ answers' = [answers EXCEPT ![r] = @ + 1]
  /\ Goto(r, "done")
  /\ UNCHANGED <<loop, focused, exec, spills, client>>

(* A child process and its output *)

Start(r) ==
  /\ Calling(r, "exec")
  /\ Goto(r, "running")
  /\ UNCHANGED <<loop, focused, stdout, exec, spills, client, answers>>

Chunk(r, n) == (made[r] + 1)..(made[r] + n)
Overflows(r, n) == Cardinality(out[r].buf) + n > Limit

\* The child writes n bytes, before and while they fit into memory.
WriteInline(r, n) ==
  /\ ~out[r].open /\ ~Overflows(r, n)
  /\ out' = [out EXCEPT ![r] = [open |-> FALSE, total |-> @.total + n, buf |-> @.buf \cup Chunk(r, n)]]
  /\ UNCHANGED <<broken, files>>

\* They do not fit, and no spill file can be made, or not take what is in memory.
SpillFails(r, n) ==
  /\ "disk" \in Faults
  /\ ~out[r].open /\ Overflows(r, n)
  /\ broken' = [broken EXCEPT ![r] = TRUE]
  /\ \/ files' = Swept(files) /\ UNCHANGED out
     \/ files' = [Swept(files) EXCEPT ![r] = {}] /\ out' = [out EXCEPT ![r].open = TRUE]

\* They go to the file, made now with what is in memory if there is none yet; the
\* disk may take only some of them.
WriteFile(r, n) ==
  /\ out[r].open \/ Overflows(r, n)
  /\ \E m \in IF "disk" \in Faults THEN {0, n} ELSE {n} :
       /\ files' = IF out[r].open
                   THEN [files EXCEPT ![r] = @ \cup Chunk(r, m)]
                   ELSE [Swept(files) EXCEPT ![r] = out[r].buf \cup Chunk(r, m)]
       /\ out' = [out EXCEPT ![r] = [open |-> TRUE, total |-> @.total + m,
                                     buf |-> @.buf \cup Taken(r, Chunk(r, n), m)]]
       /\ broken' = [broken EXCEPT ![r] = m < n]

Write(r) ==
  /\ task[r] = "running"
  /\ ~broken[r]
  /\ \E n \in 1..(MaxOutput - made[r]) :
       /\ WriteInline(r, n) \/ SpillFails(r, n) \/ WriteFile(r, n)
       /\ made' = [made EXCEPT ![r] = @ + n]
  /\ UNCHANGED <<loop, task, focused, stdout, result, aged, client, answers>>

\* The run failed: its file goes, what is in memory tells why.
Fails(r) ==
  /\ result' = [result EXCEPT ![r] = "error"]
  /\ files' = IF out[r].open THEN Discard(files, r) ELSE files

\* The child ends; or it could not be started.
Finish(r) ==
  /\ task[r] = "running"
  /\ \E status \in BOOLEAN :
       \/ ~Succeeded(r, status) /\ Fails(r)
       \/ /\ Succeeded(r, status)
          /\ out[r].open
          /\ \/ result' = [result EXCEPT ![r] = "pointer"] /\ UNCHANGED files
             \/ "disk" \in Faults /\ Fails(r)
       \/ /\ Succeeded(r, status)
          /\ ~out[r].open
          /\ result' = [result EXCEPT ![r] = "inline"]
          /\ UNCHANGED files
  /\ out' = [out EXCEPT ![r].open = FALSE]
  /\ Goto(r, "answer")
  /\ UNCHANGED <<loop, focused, stdout, made, broken, aged, client, answers>>

(* Around the server *)

\* A file that is no longer written to gets old. No command is taken to be silent
\* for mcpSpillMaxAge, a day, in the middle of its output.
Age(r) ==
  /\ files[r] # NoFile
  /\ task[r] # "running"
  /\ aged' = aged \cup {r}
  /\ UNCHANGED <<loop, task, focused, stdout, exec, files, client, answers>>

Kill ==
  /\ "kill" \in Faults
  /\ pc # "down"
  /\ pc' = "down"
  /\ task' = [r \in Requests |-> IF task[r] \in Working \cup {"queued"} THEN "lost" ELSE task[r]]
  /\ UNCHANGED <<held, focused, stdout, exec, spills, client, answers>>

\* newMCPSession: nothing is focused, old spill files are swept.
Restart ==
  /\ pc \in {"exited", "down"}
  /\ pc' = "read"
  /\ task' = [r \in Requests |-> IF task[r] = "queued" THEN "lost" ELSE task[r]]
  /\ focused' = Nothing /\ view' = Nothing /\ stale' = FALSE
  /\ stdout' = <<>>
  /\ closed' = FALSE
  /\ files' = Swept(files)
  /\ UNCHANGED <<held, exec, aged, quota, sent, ask, answers>>

Ask(a) ==
  /\ ~closed
  /\ pc # "down"
  /\ sent < MaxRequests
  /\ quota[a.op] > 0
  /\ quota' = [quota EXCEPT ![a.op] = @ - 1]
  /\ sent' = sent + 1
  /\ ask' = [ask EXCEPT ![sent + 1] = a]
  /\ Goto(sent + 1, "queued")
  /\ stale' = (stale /\ a.op # "list")
  /\ UNCHANGED <<loop, focused, stdout, exec, spills, closed, view, answers>>

Close ==
  /\ ~closed
  /\ closed' = TRUE
  /\ UNCHANGED <<loop, task, focused, stdout, exec, spills, quota, sent, ask, view, stale, answers>>

\* The client reads a frame.
Receive ==
  /\ stdout # <<>>
  /\ pc # "down"
  /\ stdout' = Tail(stdout)
  /\ stale' = (stale \/ stdout[1].kind = "changed")
  /\ view' = IF stdout[1].kind = "list" THEN stdout[1].tools ELSE view
  /\ UNCHANGED <<loop, task, focused, exec, spills, quota, sent, ask, closed, answers>>

-----------------------------------------------------------------------------

LoopStep == LoopEnds \/ Exit \/ \E r \in Requests : SkipNote(r) \/ Dispatch(r) \/ ReadTools(r)

CallStep(r) ==
  \/ SendTools(r)
  \/ Bad(r) \/ Focus(r) \/ Usage(r) \/ Unfocus(r) \/ UnfocusAll(r) \/ Notify(r) \/ Reply(r)
  \/ Start(r) \/ Write(r) \/ Finish(r)

Next ==
  \/ LoopStep
  \/ \E r \in Requests : CallStep(r) \/ Age(r)
  \/ Kill \/ Restart
  \/ \E a \in Asks : Ask(a)
  \/ Close \/ Receive

Spec == Init /\ [][Next]_vars

\* The loop and each goroutine get their turns, and every child ends: its requests
\* have timeouts.
FairSpec == Spec /\ WF_vars(LoopStep) /\ \A r \in Requests : WF_vars(CallStep(r))

-----------------------------------------------------------------------------
(* Properties *)

\* Every variable has its type; what a call keeps in memory stays within the limit.
TypeOK ==
  /\ pc \in {"read", "drain", "exited", "down"}
  /\ quota \in [Ops -> Nat] /\ sent \in 0..MaxRequests
  /\ ask \in [Requests -> Asks]
  /\ task \in [Requests -> Working \cup Ended \cup {"unsent", "queued"}]
  /\ focused \in [Keys -> SUBSET Tools] /\ held \in [Keys -> SUBSET Tools]
  /\ stdout \in Seq([kind : {"changed", "list", "answer"}, tools : [Keys -> SUBSET Tools]])
  /\ out \in [Requests -> Writer]
  /\ \A r \in Requests : Cardinality(out[r].buf) <= Limit
  /\ made \in [Requests -> 0..MaxOutput]
  /\ broken \in [Requests -> BOOLEAN]
  /\ files \in [Requests -> {NoFile} \cup SUBSET (1..MaxOutput)]
  /\ aged \subseteq Requests
  /\ closed \in BOOLEAN /\ stale \in BOOLEAN
  /\ view \in [Keys -> SUBSET Tools]
  /\ result \in [Requests -> {"none", "inline", "pointer", "error"}]
  /\ answers \in [Requests -> Nat]

\* "buf always holds the first <=limit bytes of the stream, so head previews and
\* failure output work whether or not the output spilled" (overflowWriter).
HeadIsPrefix ==
  \A r \in Requests : out[r].buf = 1..Lesser(Limit, out[r].total)

\* An answer carries the whole output or points at a file with the whole output,
\* which stays until it is old: no sweep of another call or another server takes
\* it ("a sweep racing a concurrent spill is harmless", mcpSweepSpills).
ResultsWhole ==
  \A r \in Requests :
    /\ result[r] = "inline" => out[r].buf = 1..made[r]
    /\ result[r] = "pointer" => out[r].total = made[r] /\ (files[r] = 1..made[r] \/ r \in aged)

\* Nothing but a pointer, a call under way or a kill leaves a spill file
\* ("keeping partial bulk output would only orphan temp files", discard).
NoOrphans ==
  \A r \in Requests :
    files[r] # NoFile => task[r] \in {"running", "lost"} \/ result[r] = "pointer"

\* A client that lists the tools whenever it is told that they changed knows the
\* loaded tools once everything is read and answered, whatever the order in which
\* concurrent calls changed, announced and listed them.
ViewFresh ==
  /\ pc # "down"
  /\ stdout = <<>> /\ ~stale
  /\ \A r \in Requests : task[r] # "notify" /\ (ask[r].op = "list" => task[r] \in Ended \cup {"unsent"})
  => view = focused

\* The process does not end before each request it read has its one answer
\* (wg.Wait in runMCPServe).
ExitComplete ==
  pc = "exited" => \A r \in Requests :
    task[r] \in Working \cup {"done"} => answers[r] = 1

\* Every request is answered or is lost with its server, even if others never end
\* their turn on stdin.
RequestsEnd ==
  \A r \in Requests : task[r] = "queued" ~> task[r] \in Ended \/ pc = "exited"

-----------------------------------------------------------------------------
(* The inductive invariant of the proofs (McpProofs). *)

\* Which requests are where, and what has been answered.
OrderInv ==
  /\ \A r \in Requests : r > sent => task[r] = "unsent"
  /\ \A r \in Requests : task[r] = "inline" => ask[r].op = "list"
  /\ \A r, q \in Requests : task[r] = "inline" /\ task[q] = "inline" => r = q
  /\ pc \in {"exited", "down"} => Idle
  /\ \A r \in Requests : answers[r] = IF task[r] = "done" THEN 1 ELSE 0

\* A call that no child ran for yet.
Fresh(r) ==
  /\ out[r] = NewWriter /\ made[r] = 0 /\ ~broken[r]
  /\ files[r] = NoFile /\ r \notin aged /\ result[r] = "none"

\* A child is running, its output copied so far.
Copied(r) ==
  /\ out[r].total = made[r]
  /\ IF out[r].open THEN files[r] = 1..made[r] ELSE made[r] <= Limit

\* Why an answer stands for the whole output and no file is left behind.
SpillInv ==
  /\ HeadIsPrefix
  /\ \A r \in Requests :
       /\ task[r] \notin {"running", "answer", "done", "lost"} => Fresh(r)
       /\ task[r] = "running" =>
            /\ result[r] = "none" /\ r \notin aged
            /\ ~out[r].open => files[r] = NoFile
            /\ ~broken[r] => Copied(r)
  /\ ResultsWhole
  /\ NoOrphans

\* No change of the focused tools is on its way to the client, short of a request
\* to list them.
Calm ==
  /\ ~stale
  /\ \A r \in Requests : task[r] # "notify"
  /\ \A n \in 1..Len(stdout) : stdout[n].kind # "changed"

\* The tools the client will know of when it has read stdout.
Foreseen(tools) ==
  \/ view = tools /\ \A n \in 1..Len(stdout) : stdout[n].kind # "list"
  \/ \E n \in 1..Len(stdout) :
       /\ stdout[n].kind = "list" /\ stdout[n].tools = tools
       /\ \A m \in (n + 1)..Len(stdout) : stdout[m].kind # "list"

\* Why the client's tools end up right: a list that is still to be made, or made
\* and still to be sent, or sent and still to be read, is up to date.
ViewInv ==
  pc # "down" /\ Calm =>
    \/ \E r \in Requests : ask[r].op = "list" /\ task[r] = "queued"
    \/ LoopBusy /\ held = focused
    \/ ~LoopBusy /\ Foreseen(focused)
=============================================================================
