------------------------------ MODULE ServiceCall ------------------------------
(***************************************************************************)
(* What a caller of the SDK may rely on for one API call, however often it *)
(* is sent: a POST or PATCH takes effect at most once; one that was        *)
(* refused, abandoned between attempts or never sent takes none, now or    *)
(* later; an answer means it took effect. HttpRetry implements this.       *)
(***************************************************************************)

CONSTANT Attempts

VARIABLES method,
          effects,  \* the attempts that took effect
          outcome   \* "none" until the call returns

vars == <<method, effects, outcome>>

Idempotent == {"GET", "PUT", "DELETE"}
Mutating   == {"POST", "PATCH"}

Answered  == {"ok", "unread"}                  \* a 2xx, its body read or not
Untouched == {"refused", "canceled", "local"}  \* errors that tell a mutation did nothing
Unknown   == {"failed", "lost"}

Init ==
  /\ method \in Idempotent \cup Mutating
  /\ effects = {}
  /\ outcome = "none"

TakeEffect ==
  /\ \E a \in Attempts : effects' = effects \cup {a}
  /\ method \in Mutating => effects = {} /\ outcome \notin Untouched
  /\ UNCHANGED <<method, outcome>>

Return ==
  /\ outcome = "none"
  /\ outcome' \in Answered \cup Untouched \cup Unknown
  /\ outcome' \in Answered => effects # {}
  /\ method \in Mutating /\ outcome' \in Untouched => effects = {}
  /\ UNCHANGED <<method, effects>>

Next == TakeEffect \/ Return

Spec == Init /\ [][Next]_vars
=============================================================================
