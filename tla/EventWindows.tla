----------------------------- MODULE EventWindows -----------------------------
(***************************************************************************)
(* `search udm` over a window wider than one request accepts: sequential   *)
(* half-open chunks, their answers merged (fetchEventsPaged, and           *)
(* fetchEventsComplete for --all). A request carries whole seconds, so its *)
(* bounds are rounded down. Time is counted in fractions of Second.        *)
(***************************************************************************)
EXTENDS Integers, FiniteSets

CONSTANTS
  Events,       \* the events that match the query
  Unnamed,      \* those without an id
  Times,        \* when events may happen
  Starts, Ends, \* what windows may begin and end with
  Limits,       \* what --limit may be
  Span,         \* the widest chunk, in whole seconds
  Second

ASSUME WindowsAssumption ==
  /\ Unnamed \subseteq Events /\ IsFiniteSet(Events)
  /\ Times \cup Starts \cup Ends \subseteq Nat
  /\ Limits \subseteq Nat
  /\ Second \in Nat \ {0} /\ Span \in Nat \ {0} /\ Span % Second = 0

VARIABLES
  at,        \* when each event happened
  from, to, limit,
  complete,  \* --all
  inclusive, \* the platform counts an event on the end of a request's window
  chunk,     \* the chunk to fetch, from 0
  found,     \* what was fetched: an event and its chunk
  total,     \* the sum of the baseline counts (complete only)
  truncated,
  searchPc   \* "fetch", "done" or "failed"

windowVars == <<at, from, to, limit, complete, inclusive, chunk, found, total, truncated, searchPc>>
windowArgs == <<at, from, to, limit, complete, inclusive>>

\* Mutant: the next chunk leaves out the instant between two chunks.
ChunkAfter(k) == [start |-> from + k * Span + (IF k = 0 THEN 0 ELSE Second),
                  end |-> IF from + (k + 1) * Span > to THEN to ELSE from + (k + 1) * Span]

\* chunkWindow, its k-th window.
Chunk(k) == [start |-> from + k * Span,
             end |-> IF from + (k + 1) * Span > to THEN to ELSE from + (k + 1) * Span]

IsChunk(k) == Chunk(k).start < to
Chunked == IsChunk(1)

\* How a bound is sent.
Sent(t) == t - (t % Second)

\* What the platform finds in a window.
Matches(w) ==
  {e \in Events : /\ Sent(w.start) <= at[e]
                  /\ at[e] < Sent(w.end) \/ (inclusive /\ at[e] = Sent(w.end))}

\* What one request may return: at most n of the matches, all if they fit.
Answers(w, n) ==
  {s \in SUBSET Matches(w) :
     Cardinality(s) = IF Cardinality(Matches(w)) <= n THEN Cardinality(Matches(w)) ELSE n}

Remaining == limit - Cardinality(found)

SearchFails ==
  /\ searchPc = "fetch" /\ IsChunk(chunk)
  /\ searchPc' = "failed" /\ found' = {}
  /\ UNCHANGED <<windowArgs, chunk, total, truncated>>

\* fetchEventsPaged, a chunk.
FetchPage ==
  /\ searchPc = "fetch" /\ ~complete /\ IsChunk(chunk)
  /\ Remaining > 0
  /\ \E s \in Answers(Chunk(chunk), Remaining) :
       /\ found' = found \cup (s \X {chunk})
       /\ truncated' = (truncated \/ s # Matches(Chunk(chunk)))
  /\ chunk' = chunk + 1
  /\ UNCHANGED <<windowArgs, total, searchPc>>

\* dedupeEventsByID: of each event with an id the first.
Deduped(pairs) ==
  IF ~Chunked THEN pairs
  ELSE {p \in pairs : p[1] \in Unnamed \/ \A q \in pairs : q[1] = p[1] => p[2] <= q[2]}

\* Mutant: the chunks the limit leaves out are not told.
StopSilently ==
  /\ searchPc = "fetch" /\ ~complete /\ IsChunk(chunk)
  /\ Remaining <= 0
  /\ found' = Deduped(found) /\ searchPc' = "done"
  /\ UNCHANGED <<windowArgs, chunk, total, truncated>>

\* The limit is spent before the last chunk.
StopAtLimit ==
  /\ searchPc = "fetch" /\ ~complete /\ IsChunk(chunk)
  /\ Remaining <= 0
  /\ truncated' = TRUE /\ found' = Deduped(found) /\ searchPc' = "done"
  /\ UNCHANGED <<windowArgs, chunk, total>>

\* fetchEventsComplete, a chunk: a spent limit asks for one event and keeps none.
FetchComplete ==
  /\ searchPc = "fetch" /\ complete /\ IsChunk(chunk)
  /\ \/ /\ Remaining > 0
        /\ \E s \in Answers(Chunk(chunk), Remaining) : found' = found \cup (s \X {chunk})
     \/ Remaining <= 0 /\ UNCHANGED found
  /\ total' = total + Cardinality(Matches(Chunk(chunk)))
  /\ chunk' = chunk + 1
  /\ UNCHANGED <<windowArgs, truncated, searchPc>>

SearchDone ==
  /\ searchPc = "fetch" /\ ~IsChunk(chunk)
  /\ found' = Deduped(found) /\ searchPc' = "done"
  /\ UNCHANGED <<windowArgs, chunk, total, truncated>>

WindowsInit ==
  /\ at \in [Events -> Times]
  /\ from \in Starts /\ to \in Ends /\ from < to
  /\ limit \in Limits /\ complete \in BOOLEAN /\ inclusive \in BOOLEAN
  /\ chunk = 0 /\ found = {} /\ total = 0 /\ truncated = FALSE /\ searchPc = "fetch"

WindowsNext == FetchPage \/ StopAtLimit \/ FetchComplete \/ SearchDone \/ SearchFails

WindowsSpec == WindowsInit /\ [][WindowsNext]_windowVars
WindowsFairness == WF_windowVars(WindowsNext)

-----------------------------------------------------------------------------
(* Properties *)

\* Every variable has its type.
WindowsTypeOK ==
  /\ at \in [Events -> Times] /\ from \in Starts /\ to \in Ends /\ limit \in Limits
  /\ complete \in BOOLEAN /\ inclusive \in BOOLEAN /\ truncated \in BOOLEAN
  /\ chunk \in Nat /\ total \in Nat
  /\ found \subseteq Events \X Nat
  /\ searchPc \in {"fetch", "done", "failed"}

\* What the command tells the operator of a result that is not all there is.
Told == truncated \/ (complete /\ total > Cardinality(found))

\* A result is never short in silence, and never counts an event with an id twice: unless
\* the operator is told, every event of the window is in it, whatever the chunk it fell in,
\* on a boundary or not, and however many other chunks spent the limit.
NeverSilentlyShort ==
  searchPc = "done" =>
    /\ ~Told => \A e \in Events :
         Sent(from) <= at[e] /\ at[e] < Sent(to) => \E k \in 0 .. chunk : <<e, k>> \in found
    /\ \A p, q \in found : p[1] = q[1] /\ p[1] \notin Unnamed => p = q

\* A search ends.
SearchEnds == <>(searchPc # "fetch")
=============================================================================
