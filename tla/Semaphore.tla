----------------------------- MODULE Semaphore -----------------------------
(***************************************************************************)
(* What a bulkhead promises: at most MaxConcurrency permits are out, each  *)
(* held by one execution or lost by one that panicked.                     *)
(***************************************************************************)
EXTENDS Integers, FiniteSets

CONSTANTS Users, MaxConcurrency

VARIABLES holders, lost

SInit == holders = {} /\ lost = 0

SAcquire(e) ==
  /\ e \notin holders /\ Cardinality(holders) + lost < MaxConcurrency
  /\ holders' = holders \cup {e}
  /\ UNCHANGED lost

SRelease(e) ==
  /\ e \in holders
  /\ holders' = holders \ {e}
  /\ UNCHANGED lost

\* A permit goes from an execution to the next without becoming free.
SHandOver(e, w) ==
  /\ e \in holders /\ w \notin holders
  /\ holders' = (holders \ {e}) \cup {w}
  /\ UNCHANGED lost

SLose(e) ==
  /\ e \in holders
  /\ holders' = holders \ {e}
  /\ lost' = lost + 1

SNext ==
  \/ \E e \in Users : SAcquire(e) \/ SRelease(e) \/ SLose(e)
  \/ \E e, w \in Users : SHandOver(e, w)

SSpec == SInit /\ [][SNext]_<<holders, lost>>
=============================================================================
