-------------------------- MODULE MCAgentMessages --------------------------
\* Instances of AgentMessages for TLC; the .cfg files give the bounds.
EXTENDS AgentMessages
\* A restart forgets the runs given up: a behaviour has the one or the other.  Two
\* messages meet a failing write, a stop and either of these together; three meet a
\* failing write, a stop or a restart, the first two beside a run given up.
Bounded ==
  /\ escapes + restarts <= 1
  /\ sends = 3 => failures + stops + restarts <= 1
=============================================================================
