--------------------------- MODULE ExclusiveRuns ---------------------------
(***************************************************************************)
(* What RunLifecycle.enqueueExclusiveRun promises the rest of the host     *)
(* about one agent: an accepted task waits until it is the turn of its     *)
(* rank, one run is current at a time, and a current run is given up on    *)
(* only for the sake of a user who waits.  There are no lanes, timers or   *)
(* microtasks here; RunScheduler implements this module.                   *)
(***************************************************************************)
EXTENDS Naturals

CONSTANTS Tasks, NoTask,
          Rank      \* [Tasks -> Nat]: a task runs before every task of a higher rank

VARIABLES waiting, current, abandoned, closed

vars == <<waiting, current, abandoned, closed>>

Init == waiting = {} /\ current = NoTask /\ abandoned = {} /\ closed = FALSE

Urgent == {t \in waiting : \A s \in waiting : Rank[t] <= Rank[s]}

\* Nobody runs next, or one of the most urgent tasks does.
HandOver ==
  \/ current' = NoTask /\ waiting' = waiting
  \/ \E t \in Urgent : ~closed /\ current' = t /\ waiting' = waiting \ {t}

Submit(t) ==
  /\ t \notin waiting \cup abandoned \cup {current}
  /\ waiting' = waiting \cup {t}
  /\ UNCHANGED <<current, abandoned, closed>>

Begin == current = NoTask /\ HandOver /\ UNCHANGED <<abandoned, closed>>

Finish == current # NoTask /\ HandOver /\ UNCHANGED <<abandoned, closed>>

\* Ranks 0 and 1 are the users' tasks.
Abandon ==
  /\ current # NoTask /\ ~closed
  /\ \E t \in waiting : Rank[t] <= 1
  /\ abandoned' = abandoned \cup {current}
  /\ HandOver /\ current' # NoTask
  /\ UNCHANGED closed

FinishLate(t) ==
  /\ t \in abandoned
  /\ abandoned' = abandoned \ {t}
  /\ UNCHANGED <<waiting, current, closed>>

Close == closed' = TRUE /\ UNCHANGED <<waiting, current, abandoned>>

Next == \/ \E t \in Tasks : Submit(t) \/ FinishLate(t)
        \/ Begin \/ Finish \/ Abandon \/ Close

Spec == Init /\ [][Next]_vars
=============================================================================
