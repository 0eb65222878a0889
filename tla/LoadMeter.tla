----------------------------- MODULE LoadMeter -----------------------------
(***************************************************************************)
(* The agent's load meter (agent/internal/sysload): Sample turns the       *)
(* host's cumulative counters into the CPU share and the bit rates that    *)
(* every heartbeat carries.  Either source may be unreadable at a sample,  *)
(* the byte counters start again at 0 when the interface is re-created,    *)
(* and Linux may set the iowait field back.  Counters are words of         *)
(* MeterWord values, as uint64 is.                                         *)
(***************************************************************************)
EXTENDS Integers

CONSTANTS
  MeterWord,   \* 2^64 in the code
  MaxClock,    \* bound on the clock, in seconds
  MaxCounter   \* bound on the bytes a direction moves

ASSUME MeterAssumption ==
  /\ MeterWord \in Nat \ {0}
  /\ MaxClock \in Nat
  /\ MaxCounter \in Nat
  /\ MaxCounter < MeterWord

Directions == {"rx", "tx"}

VARIABLES
  clock,
  jiffies,   \* /proc/stat: the fields user, idle and iowait
  bytes,     \* the interface's counters
  prevCPU,   \* Meter.prevCPU and hasCPU: <<>> or <<total, idle>>
  prevNet,   \* Meter.prevNet and hasNet: <<>> or a reading
  sample,    \* the last Sample
  moved,     \* history: bytes since the last reading of the counters
  intact,    \* history: the interface was not re-created since then
  truth      \* history, at the last sample: moved, intact, and the seconds
             \* and the idle jiffies since the readings before

hostVars == <<clock, jiffies, bytes, moved, intact>>
meterVars == <<prevCPU, prevNet, sample, truth>>

NoTraffic == [d \in Directions |-> 0]

MeterInit ==
  /\ clock = 0
  /\ jiffies = [user |-> 0, idle |-> 0, iowait |-> 0]
  /\ bytes = NoTraffic
  /\ prevCPU = <<>>
  /\ prevNet = <<>>
  /\ sample = [cpu |-> 0, rate |-> NoTraffic]
  /\ moved = NoTraffic
  /\ intact = TRUE
  /\ truth = [bytes |-> NoTraffic, seconds |-> 0, intact |-> TRUE, idle |-> 0]

-----------------------------------------------------------------------------
(* The host. *)

\* A second passes and one of the CPU fields grows.
Second ==
  /\ clock < MaxClock
  /\ clock' = clock + 1
  /\ \E f \in DOMAIN jiffies : jiffies' = [jiffies EXCEPT ![f] = @ + 1]
  /\ UNCHANGED <<bytes, moved, intact, meterVars>>

\* proc(5): the iowait field "may decrease in certain conditions".
IowaitGoesBack ==
  /\ jiffies.iowait > 0
  /\ jiffies' = [jiffies EXCEPT !.iowait = @ - 1]
  /\ UNCHANGED <<clock, bytes, moved, intact, meterVars>>

Move(d) ==
  /\ bytes[d] < MaxCounter /\ moved[d] < MaxCounter
  /\ bytes' = [bytes EXCEPT ![d] = @ + 1]
  /\ moved' = [moved EXCEPT ![d] = @ + 1]
  /\ UNCHANGED <<clock, jiffies, intact, meterVars>>

InterfaceRecreated ==
  /\ bytes' = NoTraffic
  /\ intact' = FALSE
  /\ UNCHANGED <<clock, jiffies, moved, meterVars>>

-----------------------------------------------------------------------------
(* The meter. *)

TotalWithoutIowait == jiffies.user + jiffies.idle

\* parseProcStat: all fields, and idle with iowait.
Total == jiffies.user + jiffies.idle + jiffies.iowait
Idle == jiffies.idle + jiffies.iowait

\* The CPU share since the last reading, in percent; 0 without one, or
\* when no jiffy has passed.
CPUPct ==
  LET dt == Total - prevCPU[1]
      di == Idle - prevCPU[2]
  IN IF prevCPU # <<>> /\ dt > 0 THEN ((dt - di) * 100) \div dt ELSE 0

UnguardedRate(d) ==
  LET dt == clock - prevNet[1].at
  IN IF prevNet # <<>> /\ dt > 0
     THEN (((bytes[d] - prevNet[1].bytes[d]) % MeterWord) * 8) \div dt
     ELSE 0

\* The bit rate since the last reading; 0 without one, in the same instant,
\* or when the counter has gone back.
Rate(d) ==
  LET dt == clock - prevNet[1].at
  IN IF prevNet # <<>> /\ dt > 0 /\ bytes[d] >= prevNet[1].bytes[d]
     THEN ((bytes[d] - prevNet[1].bytes[d]) * 8) \div dt
     ELSE 0

\* A source that cannot be read contributes 0 and keeps its old reading.  A
\* total of 0 counts as unreadable.
Sample(cpuRead, netRead) ==
  /\ sample' = [cpu  |-> IF cpuRead /\ Total > 0 THEN CPUPct ELSE 0,
                rate |-> [d \in Directions |-> IF netRead THEN Rate(d) ELSE 0]]
  /\ prevCPU' = IF cpuRead /\ Total > 0 THEN <<Total, Idle>> ELSE prevCPU
  /\ prevNet' = IF netRead THEN <<[bytes |-> bytes, at |-> clock]>> ELSE prevNet
  /\ truth' = [bytes   |-> IF netRead THEN moved ELSE NoTraffic,
               seconds |-> IF netRead /\ prevNet # <<>> THEN clock - prevNet[1].at ELSE 0,
               intact  |-> intact,
               idle    |-> IF cpuRead /\ prevCPU # <<>> THEN Idle - prevCPU[2] ELSE 0]
  /\ moved' = IF netRead THEN NoTraffic ELSE moved
  /\ intact' = (netRead \/ intact)
  /\ UNCHANGED <<clock, jiffies, bytes>>

MeterNext ==
  \/ Second
  \/ IowaitGoesBack
  \/ \E d \in Directions : Move(d)
  \/ InterfaceRecreated
  \/ \E c, n \in BOOLEAN : Sample(c, n)

MeterSpec == MeterInit /\ [][MeterNext]_<<hostVars, meterVars>>

-----------------------------------------------------------------------------
\* The reported rate is the one since the last reading that succeeded, however
\* many failed in between; if the interface was re-created meanwhile, it is
\* never more than what was really moved.
RateIsTrue ==
  \A d \in Directions : truth.seconds > 0 =>
    LET real == (8 * truth.bytes[d]) \div truth.seconds
    IN IF truth.intact THEN sample.rate[d] = real ELSE sample.rate[d] <= real

\* The CPU share is never negative, and at most 100 unless the idle fields went
\* back between the two readings it is computed from, also over samples in
\* which /proc/stat could not be read.  (When they did, Sample really reports
\* more than 100.)
ShareInRange ==
  /\ sample.cpu >= 0
  /\ truth.idle >= 0 => sample.cpu <= 100

=============================================================================
