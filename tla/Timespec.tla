------------------------------ MODULE Timespec ------------------------------
(***************************************************************************)
(* From a time in nanoseconds to the expiration of a timer (lib/time.c,    *)
(* include/grinch/time.h): what nanosleep() of a process and the timer of  *)
(* a guest do with struct timespec.                                        *)
(***************************************************************************)
EXTENDS Integers

CONSTANTS
  Bits,          \* of time_t
  NSEC_PER_SEC,
  Walls,         \* nanoseconds: of the clock, or relative to it of a guest's timer
  Requests       \* struct timespec of nanosleep()

VARIABLES
  ns,            \* timer_get_wall_ns(), or the time of the guest's timer
  req,
  tv_sec, tv_nsec,
  expiration,
  pc

vars == <<ns, req, tv_sec, tv_nsec, expiration, pc>>

TIME_MAX == 2^(Bits - 1) - 1
TIME_MIN == -2^(Bits - 1)

(* Division of C, which rounds to 0 *)
TIME_SEC_MAX == TIME_MAX \div NSEC_PER_SEC
TIME_SEC_MIN == - ((- TIME_MIN) \div NSEC_PER_SEC)

(* Mutant: rounds a time before the clock began to 0. *)
ns_to_ts_to_zero(t) ==
  LET u == IF t > 0 THEN t ELSE (- t) % 2^Bits
  IN  IF t > 0 THEN <<u \div NSEC_PER_SEC, u % NSEC_PER_SEC>>
      ELSE <<- (u \div NSEC_PER_SEC), u % NSEC_PER_SEC>>

(* The division is one of u64. *)
ns_to_ts(t) ==
  LET u == IF t > 0 THEN t ELSE (- t - 1) % 2^Bits
  IN  IF t > 0 THEN <<u \div NSEC_PER_SEC, u % NSEC_PER_SEC>>
      ELSE <<- (u \div NSEC_PER_SEC) - 1, NSEC_PER_SEC - (u % NSEC_PER_SEC) - 1>>

ts_to_ns(sec, nsec) ==
  IF sec >= TIME_SEC_MAX THEN TIME_MAX
  ELSE IF sec <= TIME_SEC_MIN THEN TIME_MIN
  ELSE sec * NSEC_PER_SEC + nsec

(* task_sleep_for(): timer_get_wall() and the sums of timespec_add() *)
SleepFor ==
  /\ pc = "sleep"
  /\ tv_sec' = ns_to_ts(ns)[1] + req.tv_sec
  /\ tv_nsec' = ns_to_ts(ns)[2] + req.tv_nsec
  /\ pc' = "normalise"
  /\ UNCHANGED <<ns, req, expiration>>

(* set_normalized_ts() *)
Carry ==
  /\ pc = "normalise" /\ tv_nsec >= NSEC_PER_SEC
  /\ tv_nsec' = tv_nsec - NSEC_PER_SEC /\ tv_sec' = tv_sec + 1
  /\ UNCHANGED <<ns, req, expiration, pc>>

Borrow ==
  /\ pc = "normalise" /\ tv_nsec < 0
  /\ tv_nsec' = tv_nsec + NSEC_PER_SEC /\ tv_sec' = tv_sec - 1
  /\ UNCHANGED <<ns, req, expiration, pc>>

Normalised ==
  /\ pc = "normalise" /\ tv_nsec \in 0 .. NSEC_PER_SEC - 1
  /\ pc' = "until"
  /\ UNCHANGED <<ns, req, tv_sec, tv_nsec, expiration>>

(* handle_sbi_time(): timer_ticks_to_time() *)
SetTimer ==
  /\ pc = "timer"
  /\ tv_sec' = ns_to_ts(ns)[1] /\ tv_nsec' = ns_to_ts(ns)[2]
  /\ pc' = "until"
  /\ UNCHANGED <<ns, req, expiration>>

(* task_sleep_until() *)
SleepUntil ==
  /\ pc = "until"
  /\ expiration' = ts_to_ns(tv_sec, tv_nsec)
  /\ pc' = "done"
  /\ UNCHANGED <<ns, req, tv_sec, tv_nsec>>

NoRequest == [tv_sec |-> 0, tv_nsec |-> 0]

Init ==
  /\ ns \in Walls
  /\ \/ pc = "sleep" /\ ns >= 0 /\ req \in Requests
     \/ pc = "timer" /\ req = NoRequest
  /\ tv_sec = 0 /\ tv_nsec = 0 /\ expiration = 0

Next == SleepFor \/ Carry \/ Borrow \/ Normalised \/ SetTimer \/ SleepUntil

Spec == Init /\ [][Next]_vars

----------------------------------------------------------------------------
Due == ns + req.tv_sec * NSEC_PER_SEC + req.tv_nsec

(* A timer expires at the time it was set for, in whichever form that was    *)
(* given; one too far away for time_t expires at the end of time instead,    *)
(* and its seconds and nanoseconds are those that PR_TS_PARAMS() needs.  The *)
(* very first nanosecond of the clock is left out: ns_to_ts(0) takes the     *)
(* branch for negative numbers, and divides -1 as if it were unsigned.       *)
WakeTimeExact ==
  pc = "done" /\ ns # 0 =>
    /\ tv_nsec \in 0 .. NSEC_PER_SEC - 1
    /\ tv_sec * NSEC_PER_SEC + tv_nsec = Due
    /\ \/ expiration = Due
       \/ expiration = TIME_MAX /\ Due >= TIME_SEC_MAX * NSEC_PER_SEC
       \/ expiration = TIME_MIN /\ Due < (TIME_SEC_MIN + 1) * NSEC_PER_SEC
=============================================================================
