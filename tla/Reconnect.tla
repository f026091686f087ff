----------------------------- MODULE Reconnect -----------------------------
(***************************************************************************)
(* Bounded retries of a whole command (reconnect.rs, as `client' of        *)
(* transport.rs uses them): attempts separated by growing pauses, under an *)
(* overall budget of time.  An attempt is a fresh session that takes any   *)
(* time and ends in any way; time passes one unit at a time.  Blocking     *)
(* calls between two awaits, during which no timer can fire, take no time. *)
(***************************************************************************)
EXTENDS Integers, Sequences, FiniteSetsExt

CONSTANTS
    Policies,       \* configured policies
    MaxTime         \* bound on the time of a command without a budget

Policy == [attempts : Nat, delay : Nat, maxDelay : Nat, maxElapsed : Nat]
ASSUME PoliciesAssumption == Policies \subseteq Policy
ASSUME MaxTimeAssumption == MaxTime \in Nat

\* What an attempt may come to.  "connection" covers a Link that could not
\* be opened, broke or timed out; "busy" is the server's code 9.
Outcomes == {"ok", "connection", "busy", "fatal"}
RetryableConnection(e) == e = "connection"          \* mutation
Retryable(e) == e \in {"connection", "busy"}

ValidDelayUnchecked(p) ==                           \* mutation
    p.attempts <= 32 /\ p.maxDelay <= 86400 /\ p.maxElapsed > 0 /\ p.maxElapsed <= 604800
Valid(p) ==
    /\ p.attempts <= 32
    /\ p.delay > 0 /\ p.maxDelay >= p.delay /\ p.maxDelay <= 86400
    /\ p.maxElapsed > 0 /\ p.maxElapsed <= 604800

\* 1 << n.  The product saturates far above any valid maximum.
Power[n \in Nat] == IF n = 0 THEN 1 ELSE 2 * Power[n - 1]

DelayUncapped(p, n) == p.delay * Power[n]           \* mutation
Delay(p, n) == Min({p.delay * Power[n], p.maxDelay})

VARIABLES
    policy,
    pc,         \* "attempt", "pause", or what the command ended with
    number,     \* attempt under way, counted from 0
    left,       \* time left of the pause
    elapsed,    \* time since the command started
    pauses      \* length of every pause so far

retryvars == <<policy, pc, number, left, elapsed, pauses>>

RetryInit ==
    /\ policy \in Policies
    /\ pc = IF Valid(policy) THEN "attempt" ELSE "invalid"
    /\ number = 0 /\ left = 0 /\ elapsed = 0 /\ pauses = <<>>

Retrying == pc \in {"attempt", "pause"}
Enabled == policy.attempts # 0

MayRetryOnceMore == number <= policy.attempts       \* mutation
MayRetry == number < policy.attempts

\* An attempt ends: return its result, or pause and try again.
AttemptEnds(e) ==
    /\ pc = "attempt"
    /\ IF Retryable(e) /\ MayRetry
         THEN /\ pc' = "pause" /\ left' = Delay(policy, number)
              /\ pauses' = Append(pauses, Delay(policy, number))
         ELSE pc' = e /\ UNCHANGED <<left, pauses>>
    /\ UNCHANGED <<policy, number, elapsed>>

\* The pause is over; past the last attempt the loop would run off its end.
NextAttempt ==
    /\ pc = "pause" /\ left = 0
    /\ pc' = IF number < policy.attempts THEN "attempt" ELSE "unreachable"
    /\ number' = number + 1
    /\ UNCHANGED <<policy, left, elapsed, pauses>>

\* Timers fire before more time passes.
TickUnbudgeted ==                                   \* mutation
    /\ Retrying /\ (pc = "pause" => left > 0) /\ elapsed < MaxTime
    /\ elapsed' = elapsed + 1
    /\ left' = IF pc = "pause" THEN left - 1 ELSE left
    /\ UNCHANGED <<policy, pc, number, pauses>>
Tick ==
    /\ Retrying /\ (pc = "pause" => left > 0)
    /\ elapsed < IF Enabled THEN policy.maxElapsed ELSE MaxTime
    /\ elapsed' = elapsed + 1
    /\ left' = IF pc = "pause" THEN left - 1 ELSE left
    /\ UNCHANGED <<policy, pc, number, pauses>>

\* The budget cancels the attempt or the pause under way.
BudgetSpentInAttempt ==                             \* mutation
    /\ pc = "attempt" /\ Enabled /\ elapsed = policy.maxElapsed
    /\ pc' = "deadline"
    /\ UNCHANGED <<policy, number, left, elapsed, pauses>>
BudgetSpent ==
    /\ Retrying /\ Enabled /\ elapsed = policy.maxElapsed
    /\ pc' = "deadline"
    /\ UNCHANGED <<policy, number, left, elapsed, pauses>>

RetryNext ==
    \/ \E e \in Outcomes : AttemptEnds(e)
    \/ NextAttempt
    \/ Tick
    \/ BudgetSpent

\* Timers fire; an attempt need not end by itself.
RetrySpec == RetryInit /\ [][RetryNext]_retryvars
             /\ WF_retryvars(Tick) /\ WF_retryvars(NextAttempt) /\ WF_retryvars(BudgetSpent)

----------------------------------------------------------------------------
\* Types, and a running command is within its budget.
ReconnectTypeOK ==
    /\ policy \in Policies
    /\ pc \in Outcomes \cup {"attempt", "pause", "invalid", "deadline", "unreachable"}
    /\ number \in Nat /\ left \in Nat /\ elapsed \in Nat
    /\ Retrying /\ Enabled => elapsed <= policy.maxElapsed
    /\ pauses \in Seq(Nat)

\* run always returns from inside its loop: the `unreachable!()' after the
\* loop is not reached.
LoopReturns == pc # "unreachable"

\* Pauses never shrink, are never zero, never exceed the configured maximum
\* and always stand between two attempts.
BackoffIsBounded ==
    /\ \A k \in DOMAIN pauses :
          /\ pauses[k] \in 1 .. policy.maxDelay
          /\ k > 1 => pauses[k] \in pauses[k - 1] .. 2 * pauses[k - 1]
    /\ Len(pauses) \in number .. number + 1
    /\ pc = "attempt" => Len(pauses) = number

\* A lost connection or a busy server is reported only after every attempt
\* of the policy was made.
GivesUpLast == pc \in {"connection", "busy"} => number = policy.attempts

\* With retries enabled a command ends, whatever the attempts do; it ends
\* with a result or because its budget is spent.
CommandEnds == Enabled => <>(~Retrying)

\* Types, and pauses as the policy has them.
ReconnectInvariant == ReconnectTypeOK /\ BackoffIsBounded

\* The loop makes all the attempts of the policy, and no more.
AttemptsAreCounted == LoopReturns /\ GivesUpLast
=============================================================================
