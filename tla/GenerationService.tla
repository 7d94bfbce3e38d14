-------------------------- MODULE GenerationService --------------------------
(***************************************************************************)
(* What POST /generate and /generate/preview promise their clients, with   *)
(* no word of engines, fallbacks or statements: a generation replaces the  *)
(* class's timetable in one step or leaves it whole, an error means that   *)
(* it was left whole, and a preview never touches it.  A client that gets  *)
(* no answer, because the server was restarted, cannot know.               *)
(***************************************************************************)
EXTENDS Naturals

CONSTANT Requests

VARIABLES
    timetable, \* the sessions of the class's timetable
    task,      \* per request, what it asks for and how far it is
    reply      \* per request, the kind of its last answer

vars == <<timetable, task, reply>>

Ask(r) ==
    /\ task[r] = "none"
    /\ \E t \in {"generate", "preview"} : task' = [task EXCEPT ![r] = t]
    /\ reply' = [reply EXCEPT ![r] = "none"]
    /\ UNCHANGED timetable

Finish(r) ==
    /\ task[r] \in {"generate", "preview"}
    /\ task' = [task EXCEPT ![r] = "finished"]
    /\ timetable' \in Nat
    /\ task[r] = "preview" => timetable' = timetable
    /\ UNCHANGED reply

Succeed(r) ==
    /\ task[r] = "finished"
    /\ task' = [task EXCEPT ![r] = "none"]
    /\ reply' = [reply EXCEPT ![r] = "ok"]
    /\ UNCHANGED timetable

Fail(r) ==
    /\ task[r] \in {"generate", "preview"}
    /\ task' = [task EXCEPT ![r] = "none"]
    /\ reply' = [reply EXCEPT ![r] = "error"]
    /\ UNCHANGED timetable

Restart ==
    /\ task' = [r \in Requests |-> "none"]
    /\ UNCHANGED <<timetable, reply>>

Init ==
    /\ timetable \in Nat
    /\ task = [r \in Requests |-> "none"]
    /\ reply = [r \in Requests |-> "none"]

Next == Restart \/ \E r \in Requests : Ask(r) \/ Finish(r) \/ Succeed(r) \/ Fail(r)

Spec == Init /\ [][Next]_vars
=============================================================================
