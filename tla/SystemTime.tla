----------------------------- MODULE SystemTime -----------------------------
(***************************************************************************)
(* The clock of esp8266/init.c: the SDK's 32-bit microsecond counter, the  *)
(* periodic timer that counts its overflows, the 64-bit clock the firmware *)
(* derives from both, and delay(), which measures milliseconds with it     *)
(* while it runs other tasks.                                              *)
(*                                                                         *)
(* Tasks do not preempt one another (the ETS loop is cooperative), so the  *)
(* timer callback and a read of the clock are one step each.  While a task *)
(* is inside delay() other tasks run nested in it, the timer callback      *)
(* among them: the steps of a delay interleave with everything else.       *)
(***************************************************************************)
EXTENDS Integers

CONSTANTS
    W,         \* the counter counts modulo W           (2^32)
    Ms,        \* microseconds in a millisecond         (1000)
    Period,    \* period of the overflow timer, in us   (60 000 000)
    MaxGap,    \* longest time between two runs of the timer callback
    MaxTick,   \* bound: how far the counter moves in one step
    MaxWraps,  \* bound: how many overflows a behaviour contains
    Delays     \* the arguments delay() is called with

(***************************************************************************)
(* MaxGap < W is the one thing the firmware asks of the scheduler: the     *)
(* callback, due every minute, runs at least once in the 71 minutes the    *)
(* counter takes to come round.                                            *)
(***************************************************************************)
ASSUME ClockAssumption ==
    /\ W \in Nat \ {0}
    /\ Ms \in Nat \ {0}
    /\ MaxTick \in Nat
    /\ MaxWraps \in Nat
    /\ Period \in Nat
    /\ MaxGap \in Nat
    /\ Period <= MaxGap
    /\ MaxGap < W
    /\ Delays \subseteq 0 .. (W - 1)

VARIABLES
    clock,           \* what system_get_time() returns
    wraps,           \* how often the counter has overflowed: no program variable holds it
    overflow_last,   \* system_get_time_overflow_last
    overflow_count,  \* system_get_time_overflow_count
    gap,             \* time since the callback ran, or since the counter was 0
    job,             \* the running delay(): its argument and its `start', or NoJob
    begun            \* the true time at which that delay() was called

clockVars == <<clock, wraps, overflow_last, overflow_count, gap, job, begun>>

NoJob == [ms |-> -1, start |-> 0]

\* The time since boot, which the firmware tries to reconstruct.
TrueTime == wraps * W + clock

\* (A clock that forgets the overflow the callback has not counted yet.)
NoPendingWrap == overflow_count * W + clock

system_get_time64 ==
    LET low  == clock
        high == overflow_count + (IF low < overflow_last THEN 1 ELSE 0)
    IN  high * W + low

system_get_time_ms == (system_get_time64 \div Ms) % W

-----------------------------------------------------------------------------
ClockInit ==
    /\ clock = 0
    /\ wraps = 0
    /\ overflow_last = 0
    /\ overflow_count = 0
    /\ gap = 0
    /\ job = NoJob
    /\ begun = 0

\* The hardware counter moves on by d microseconds.
Tick(d) ==
    /\ gap + d <= MaxGap
    /\ wraps < MaxWraps
    /\ clock' = IF clock + d < W THEN clock + d ELSE clock + d - W
    /\ wraps' = IF clock + d < W THEN wraps ELSE wraps + 1
    /\ gap' = gap + d
    /\ UNCHANGED <<overflow_last, overflow_count, job, begun>>

\* The armed timer fires: never early, at most MaxGap - Period late.
system_get_time_overflow_callback ==
    /\ gap >= Period
    /\ overflow_count' = IF clock < overflow_last THEN overflow_count + 1 ELSE overflow_count
    /\ overflow_last' = clock
    /\ gap' = 0
    /\ UNCHANGED <<clock, wraps, job, begun>>

\* delay(ms) is called and reads its start time.
DelayBegin(ms) ==
    /\ job = NoJob
    /\ job' = [ms |-> ms, start |-> IF ms = 0 THEN 0 ELSE system_get_time_ms]
    /\ begun' = TrueTime
    /\ UNCHANGED <<clock, wraps, overflow_last, overflow_count, gap>>

\* (An exit test that compares end times, which overflow.)
DeadlineReached ==
    job.ms = 0 \/ system_get_time_ms >= (job.start + job.ms) % W

\* The loop's exit test, in unsigned 32-bit arithmetic.
DelayOver == job.ms = 0 \/ (system_get_time_ms - job.start) % W >= job.ms

\* No task is ready any more and delay() finds that its time is up.  (When it
\* is not, the loop runs tasks again, which changes nothing here.)
DelayReturn ==
    /\ job # NoJob
    /\ DelayOver
    /\ job' = NoJob
    /\ begun' = 0
    /\ UNCHANGED <<clock, wraps, overflow_last, overflow_count, gap>>

ClockNext ==
    \/ \E d \in 1 .. MaxTick : Tick(d)
    \/ system_get_time_overflow_callback
    \/ \E ms \in Delays : DelayBegin(ms)
    \/ DelayReturn

ClockSpec == ClockInit /\ [][ClockNext]_clockVars

-----------------------------------------------------------------------------
ClockTypeOK ==
    /\ clock \in 0 .. (W - 1)
    /\ wraps \in Nat
    /\ overflow_last \in 0 .. (W - 1)
    /\ overflow_count \in Nat
    /\ gap \in 0 .. MaxGap
    /\ job \in {NoJob} \cup [ms : Delays, start : 0 .. (W - 1)]
    /\ begun \in Nat

(***************************************************************************)
(* The 64-bit clock is right at every moment, overflowed or not, counted   *)
(* or not: system_get_time64() makes up for the overflow the callback has  *)
(* not seen yet, and stops making up for it in the step that counts it.    *)
(***************************************************************************)
TimeIsExact == system_get_time64 = TrueTime

(***************************************************************************)
(* delay(ms) never returns early: when it returns, the millisecond clock   *)
(* has advanced by ms or more since the call, even if the 32-bit           *)
(* millisecond value or the microsecond counter overflowed in between.     *)
(***************************************************************************)
DelayIsFull ==
    [][DelayReturn => TrueTime \div Ms - begun \div Ms >= job.ms]_clockVars

(***************************************************************************)
(* The inductive invariant behind TimeIsExact: the counter is gap          *)
(* microseconds past the value the callback saw, with at most one          *)
(* overflow in between, and that one is exactly the uncounted one.         *)
(***************************************************************************)
GapInv ==
    \/ wraps = overflow_count /\ clock = overflow_last + gap
    \/ wraps = overflow_count + 1 /\ clock = overflow_last + gap - W

(***************************************************************************)
(* The one behind DelayIsFull: a delay() under way began in the past, and  *)
(* its `start' is what the millisecond clock showed then.                  *)
(***************************************************************************)
DelayInv ==
    job # NoJob =>
        /\ begun <= TrueTime
        /\ job.ms # 0 => job.start = (begun \div Ms) % W
=============================================================================
