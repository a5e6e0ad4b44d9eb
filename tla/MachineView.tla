---------------------------- MODULE MachineView ----------------------------
(***************************************************************************)
(* What a RobotClient is to its user: a view of the machine, the list of   *)
(* the machine's resources as some answer gave it.  Threads ask, each for  *)
(* itself, and put a whole answer in the place of the whole list; until    *)
(* then an answer may have become old.  RobotClient gets there in many     *)
(* steps, with a lock around some of them.                                 *)
(***************************************************************************)
CONSTANTS Threads,  \* who refreshes the view
          Lists     \* what the machine can report

VARIABLES machine,  \* what it reports now
          view,     \* the list that the user is shown
          answers,  \* of each thread: the answer it has, or none
          closed    \* whether the client was closed

vars == <<machine, view, answers, closed>>

Changes ==
  /\ machine' \in Lists \ {machine}
  /\ UNCHANGED <<view, answers, closed>>

Ask(t) ==
  /\ ~closed /\ answers[t] = {}
  /\ answers' = [answers EXCEPT ![t] = {machine}]
  /\ UNCHANGED <<machine, view, closed>>

Apply(t) ==
  /\ ~closed
  /\ view' \in answers[t]
  /\ answers' = [answers EXCEPT ![t] = {}]
  /\ UNCHANGED <<machine, closed>>

\* An answer is dropped if it is what the view shows, or for that of another
\* thread that is about to be applied.
Drop(t) ==
  /\ answers[t] = {view} \/ \E u \in Threads \ {t} : answers[u] # {}
  /\ answers' = [answers EXCEPT ![t] = {}]
  /\ UNCHANGED <<machine, view, closed>>

\* Nobody has an answer left to apply.
Close ==
  /\ \A t \in Threads : answers[t] = {}
  /\ closed' = TRUE
  /\ UNCHANGED <<machine, view, answers>>

Init ==
  /\ machine \in Lists /\ view = {} /\ closed = FALSE
  /\ answers = [t \in Threads |-> {}]

Next == Changes \/ Close \/ \E t \in Threads : Ask(t) \/ Apply(t) \/ Drop(t)

Spec == Init /\ [][Next]_vars
=============================================================================
