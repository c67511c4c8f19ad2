--------------------------- MODULE TimedStatsSpec ---------------------------
(***************************************************************************)
(* timedStats as a state machine driven by the wall clock, with the list   *)
(* of the outcomes recorded since the last reset kept as history.          *)
(***************************************************************************)
EXTENDS Integers, Sequences, FiniteSetsExt, CircuitStats

CONSTANTS SliceCount,  \* 10 in the code (defaultBucketCount)
          Period,      \* failureThresholdingPeriod
          MaxClock,    \* bound: the clock
          MaxEvents    \* bound: outcomes recorded between two resets
ASSUME TimedAssumption ==
  /\ SliceCount \in Nat \ {0} /\ Period \in Nat /\ Period >= SliceCount
  /\ MaxClock \in Nat /\ MaxEvents \in Nat

VARIABLES slices,  \* the statistics
          clock,   \* util.Clock.CurrentUnixNano
          seen,    \* history: the latest slice in which an outcome was recorded
          events   \* history: the outcomes, each with the slice it counts for

sliceVars == <<slices, clock, seen, events>>

SlicesInit ==
  /\ slices = Timed!newTimedStats(SliceCount, Period)
  /\ clock \in 0..MaxClock
  /\ seen = 0
  /\ events = <<>>

\* recordSuccess, recordFailure
Record(success) ==
  /\ Len(events) < MaxEvents
  /\ slices' = Timed!record(slices, success, clock)
  /\ seen' = Max({seen, clock \div (Period \div SliceCount)})
  /\ events' = Append(events, [ok |-> success, slice |-> seen'])
  /\ UNCHANGED clock

SlicesReset ==
  /\ slices' = Timed!reset(slices)
  /\ seen' = 0
  /\ events' = <<>>
  /\ UNCHANGED clock

\* The clock is the wall clock: it may also be set back.
ClockMoves ==
  /\ clock' \in 0..MaxClock
  /\ UNCHANGED <<slices, seen, events>>

SlicesNext == SlicesReset \/ ClockMoves \/ \E success \in BOOLEAN : Record(success)

SlicesSpec == SlicesInit /\ [][SlicesNext]_sliceVars
-----------------------------------------------------------------------------
StatType == [successes : 0..MaxEvents, failures : 0..MaxEvents]

SlicesType ==
  /\ slices.buckets \in [0..(SliceCount - 1) -> StatType]
  /\ slices.summary \in StatType
  /\ slices.head \in Nat
  /\ clock \in 0..MaxClock

\* The outcomes that count: those of the last SliceCount slices.
Counted(success) ==
  {i \in DOMAIN events : events[i].ok = success /\ events[i].slice > seen - SliceCount}

(***************************************************************************)
(* After any pattern of records, idle gaps longer than the whole ring,     *)
(* clock steps backwards and resets, the summary that thresholds are       *)
(* compared with counts exactly the outcomes of the last SliceCount        *)
(* slices: currentBucket expires no slice twice, too early or too late.    *)
(***************************************************************************)
SummaryIsWindow ==
  slices.summary = Timed!stat(Cardinality(Counted(TRUE)), Cardinality(Counted(FALSE)))
=============================================================================
