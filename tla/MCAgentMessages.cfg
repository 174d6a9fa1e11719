\* The scheduler may give up on a run, which then ends beside the loop, or the host
\* restarts.  The senders may have nothing more to say.
SPECIFICATION Spec
CONSTANTS
  MaxSends = 3
  MaxFailures = 1
  MaxStops = 1
  MaxEscapes = 1
  MaxRestarts = 1
  Window = 1
CONSTRAINT Bounded
INVARIANTS
  TypeOK
  AcceptedIsKept
  CancelledStaysDead
  HandledOnce
  ShownOnce
  SendOrder
  NoneStranded
PROPERTY
  RunsMakeProgress
CHECK_DEADLOCK FALSE
