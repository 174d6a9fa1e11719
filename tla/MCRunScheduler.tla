-------------------------- MODULE MCRunScheduler --------------------------
(***************************************************************************)
(* Instances of RunScheduler for TLC: two direct prompts, the turn of a    *)
(* group member, an agent message and a background wake.                   *)
(***************************************************************************)
EXTENDS RunScheduler

CONSTANTS u1, u2, g1, a1, b1

LaneOf(t) == CASE t = a1 -> "agent" [] t = b1 -> "background" [] OTHER -> "user"
MCGroupMember == {g1}

\* Two direct prompts, a group member's turn and a background wake.
MCTasks == {u1, u2, g1, b1}
MCLane == [t \in MCTasks |-> LaneOf(t)]

\* The same with an agent message in place of the wake.
MCServed == {u1, u2, g1, a1}
MCServedLane == [t \in MCServed |-> LaneOf(t)]
=============================================================================
