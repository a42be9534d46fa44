----------------------------- MODULE GuardedSync -----------------------------
(***************************************************************************)
(* What the tool promises about an instance, whatever a command does in    *)
(* detail: outside an operator-confirmed apply it changes nothing live;    *)
(* in an additive apply it makes objects under fresh identities and        *)
(* rewrites existing ones but destroys none; only a granted prune destroys *)
(* objects, and never one that a file of the mirror still tracks. One step *)
(* changes one object or one file. Reconcile implements this.              *)
(***************************************************************************)
EXTENDS Naturals

CONSTANTS Ids, Contents, Stems, NoId, Unborn, Gone, NoFile, Torn

VARIABLES live,   \* what each identity holds
          files,  \* what each file of the mirror holds
          mode,   \* "read", "apply" (additive) or "prune"
          moves   \* changes made by others so far

vars == <<live, files, mode, moves>>

Entries == [id : Ids \cup {NoId}, body : Contents] \cup {NoFile, Torn}

TracksId(f, i) == files[f] \notin {NoFile, Torn} /\ files[f].id = i

Init ==
  /\ live \in [Ids -> Contents \cup {Unborn}]
  /\ files = [f \in Stems |-> NoFile]
  /\ mode = "read"
  /\ moves = 0

\* A confirmed apply begins or ends. What else the step does, it does to nothing live.
Confirm == mode = "read" /\ mode' \in {"apply", "prune"} /\ UNCHANGED <<live, files, moves>>

\* A command ends, with a file cut short if the process dies while writing it.
Finish ==
  /\ mode # "read"
  /\ mode' = "read"
  /\ \/ UNCHANGED files
     \/ \E f \in Stems : files' = [files EXCEPT ![f] = Torn]
  /\ UNCHANGED <<live, moves>>

MakeObject(i) ==
  /\ mode # "read"
  /\ live[i] = Unborn
  /\ \E c \in Contents : live' = [live EXCEPT ![i] = c]
  /\ UNCHANGED <<files, mode, moves>>

ChangeObject(i) ==
  /\ mode # "read"
  /\ live[i] \in Contents
  /\ \E c \in Contents : live' = [live EXCEPT ![i] = c]
  /\ UNCHANGED <<files, mode, moves>>

DestroyObject(i) ==
  /\ mode = "prune"
  /\ live[i] \in Contents
  /\ \A f \in Stems : ~TracksId(f, i)
  /\ live' = [live EXCEPT ![i] = Gone]
  /\ UNCHANGED <<files, mode, moves>>

WriteFile(f) ==
  /\ \E entry \in Entries : files' = [files EXCEPT ![f] = entry]
  /\ UNCHANGED <<live, mode, moves>>

\* Others may do to one object or one file what they like.
Others ==
  /\ moves' = moves + 1
  /\ \/ /\ \E i \in Ids, c \in Contents \cup {Gone} : live' = [live EXCEPT ![i] = c]
        /\ UNCHANGED files
     \/ /\ \E f \in Stems, entry \in Entries : files' = [files EXCEPT ![f] = entry]
        /\ UNCHANGED live
  /\ UNCHANGED mode

Next ==
  \/ Confirm \/ Finish \/ Others
  \/ \E i \in Ids : MakeObject(i) \/ ChangeObject(i) \/ DestroyObject(i)
  \/ \E f \in Stems : WriteFile(f)

Spec == Init /\ [][Next]_vars
=============================================================================
