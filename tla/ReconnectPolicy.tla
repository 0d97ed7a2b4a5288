-------------------------- MODULE ReconnectPolicy --------------------------
(***************************************************************************)
(* ReconnectPolicy (src/util/ReconnectPolicy.cpp): after every failed      *)
(* attempt the next one has to wait, twice as long as the last time up to  *)
(* a maximum, give or take some jitter.  The delays are uint32_t: Width is *)
(* the 32 of that type.  Time is counted in ticks and only as the distance *)
(* to next_retry_time_.                                                    *)
(***************************************************************************)
EXTENDS Integers

CONSTANTS
    InitialDelay, MaxDelay,     \* initial_delay_ms_, max_delay_ms_, in ticks
    Jitter,                     \* the jitter offsets, in percent
    Width                       \* bits of uint32_t

(* The last conjunct is arithmetic, but the provers do not know it.        *)
ASSUME PolicyAssumption ==
    /\ InitialDelay \in Nat /\ MaxDelay \in Nat
    /\ Jitter \subseteq -100..100 /\ Jitter # {}
    /\ Width \in Nat \ {0}
    /\ 2^Width > 0

VARIABLES
    attempts,       \* attempt_count_; counts above Width are not told apart
    wait            \* ticks until next_retry_time_

policyVars == <<attempts, wait>>

calculateBackoffMs(attempt) ==
    IF attempt >= Width
       THEN MaxDelay
       ELSE LET exponential == (InitialDelay * 2^attempt) % 2^Width
            IN  IF exponential < MaxDelay THEN exponential ELSE MaxDelay

Jittered(delay) == {(delay * (100 + j)) \div 100 : j \in Jitter}

(* Wrong: the comparison with next_retry_time_ is turned around.           *)
shouldRetryBefore == wait > 0

shouldRetry == wait = 0

recordAttempt ==
    /\ wait' \in Jittered(calculateBackoffMs(attempts))
    /\ attempts' = IF attempts < Width THEN attempts + 1 ELSE attempts

reset == attempts' = 0 /\ wait' = 0

(* A tick of time.                                                         *)
Elapse ==
    /\ wait' = IF wait > 0 THEN wait - 1 ELSE 0
    /\ UNCHANGED attempts

PolicyInit == attempts = 0 /\ wait = 0

PolicyNext == (shouldRetry /\ (recordAttempt \/ reset)) \/ Elapse

PolicySpec == PolicyInit /\ [][PolicyNext]_policyVars
-----------------------------------------------------------------------------
(* However many attempts have failed, and although the doubled delay wraps *)
(* around, the next one is never further away than the maximum delay with  *)
(* its jitter (ReconnectPolicy.h:14).                                      *)
WaitIsBounded == \E j \in Jitter : wait <= (MaxDelay * (100 + j)) \div 100
-----------------------------------------------------------------------------
(* What a comment, a doc or a test says and the code does not do: TLC      *)
(* refutes the property below of PolicySpec (README, "Disagreements").     *)

(* test_reconnect_policy.cpp:41: "Stays at max".  Once the delay has       *)
(* reached its maximum it stays there until a connection succeeds; but     *)
(* InitialDelay * 2^attempts wraps around before the attempt that the      *)
(* guard on 32 catches.                                                    *)
StaysAtMax ==
    [][calculateBackoffMs(attempts) = MaxDelay =>
          attempts' = 0 \/ calculateBackoffMs(attempts') = MaxDelay]_policyVars
=============================================================================
