----------------------------- MODULE Thresholds -----------------------------
(* What every supervisor shares: when a failure counts, and how often it may
   happen (proc/thresholds.go). *)
EXTENDS Integers

CONSTANTS
  CountThreshold,   \* FlappingCountThreshold, 3 in the code
  LogMayFail,       \* may the log file of a run be impossible to open?
  MaxStarts         \* bound: runs raised by Start

ASSUME CountThresholdAssumption == CountThreshold \in Nat \ {0}
ASSUME LogMayFailAssumption == LogMayFail \in BOOLEAN
ASSUME MaxStartsAssumption == MaxStarts \in Nat

\* How long an attempt lasted: below FlappingExitThreshold, below
\* EverSucceededThreshold, or longer.
Durations == {"short", "mid", "long"}

=============================================================================
