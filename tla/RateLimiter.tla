---------------------------- MODULE RateLimiter ----------------------------
(***************************************************************************)
(* application/RateLimiter: one token bucket per IMSI, behind one mutex    *)
(* that allowRequest holds for its whole body.  The code keeps tokens as   *)
(* doubles; here a token is TokenCost units, chosen so that the bucket     *)
(* size and the refill of one tick are whole numbers.  The limit may be 0: *)
(* AppBootstrap starts the server on a configuration that did not load.    *)
(***************************************************************************)
EXTENDS Subscribers, Integers

CONSTANTS MaxRequestsPerMinute,   \* max_requests_per_minute
          TicksPerMinute,         \* resolution of the modelled steady_clock
          MaxTime,                \* bound: the clock stops here
          Never                   \* a default time_point: the bucket is new

ASSUME LimiterAssumption ==
    /\ MaxRequestsPerMinute \in Nat
    /\ TicksPerMinute \in Nat \ {0}
    /\ MaxTime \in Nat
    /\ Never \notin Nat

TokenCost == 10 * TicksPerMinute

\* _tokenRate: max/60 tokens a second.
TokenRate == 10 * MaxRequestsPerMinute

\* _maxTokens: a tenth of the limit, but at least one token.
MaxTokens == IF MaxRequestsPerMinute >= 10 THEN MaxRequestsPerMinute * TicksPerMinute
                                           ELSE TokenCost

VARIABLES now,
          tokens,          \* TokenBucket::tokens, per IMSI
          lastRefillTime,  \* TokenBucket::lastRefillTime
          since,           \* history: where the observed window begins
          admitted         \* history: requests admitted in that window

vars == <<now, tokens, lastRefillTime, since, admitted>>

Init == /\ now = 0
        /\ tokens = [i \in Imsi |-> 0]
        /\ lastRefillTime = [i \in Imsi |-> Never]
        /\ since = 0
        /\ admitted = [i \in Imsi |-> 0]

\* Mutant of AtMostFull: the bucket has no size.
Uncapped(n) == n

AtMostFull(n) == IF n < MaxTokens THEN n ELSE MaxTokens

\* Mutant of Refilled: the last tick is not counted.
RefilledLate(i) ==
    IF lastRefillTime[i] = Never
    THEN MaxTokens
    ELSE AtMostFull(tokens[i] + (IF now > lastRefillTime[i] THEN now - lastRefillTime[i] - 1
                                                            ELSE 0) * TokenRate)

\* initializeOrUpdateBucket and refillTokens: what the bucket of i holds once
\* it is looked at.  A new bucket is full.
Refilled(i) ==
    IF lastRefillTime[i] = Never
    THEN MaxTokens
    ELSE AtMostFull(tokens[i] + (now - lastRefillTime[i]) * TokenRate)

\* Mutant of AllowRequest: only an admitted request moves lastRefillTime.
AllowRequestUnstamped(i) ==
    /\ IF Refilled(i) >= TokenCost
       THEN /\ tokens' = [tokens EXCEPT ![i] = Refilled(i) - TokenCost]
            /\ admitted' = [admitted EXCEPT ![i] = @ + 1]
            /\ lastRefillTime' = [lastRefillTime EXCEPT ![i] = now]
       ELSE /\ tokens' = [tokens EXCEPT ![i] = Refilled(i)]
            /\ UNCHANGED <<admitted, lastRefillTime>>
    /\ UNCHANGED <<now, since>>

\* allowRequest.  A refused request brings the bucket up to date as well, and
\* costs nothing.
AllowRequest(i) ==
    /\ lastRefillTime' = [lastRefillTime EXCEPT ![i] = now]
    /\ IF Refilled(i) >= TokenCost
       THEN /\ tokens' = [tokens EXCEPT ![i] = Refilled(i) - TokenCost]
            /\ admitted' = [admitted EXCEPT ![i] = @ + 1]
       ELSE /\ tokens' = [tokens EXCEPT ![i] = Refilled(i)]
            /\ UNCHANGED admitted
    /\ UNCHANGED <<now, since>>

Tick == /\ now < MaxTime
        /\ now' = now + 1
        /\ UNCHANGED <<tokens, lastRefillTime, since, admitted>>

\* The observer looks at any stretch of time it likes.
Observe == /\ since' = now
           /\ admitted' = [i \in Imsi |-> 0]
           /\ UNCHANGED <<now, tokens, lastRefillTime>>

Next == \/ \E i \in Imsi : AllowRequest(i)
        \/ Tick
        \/ Observe

Spec == Init /\ [][Next]_vars

-----------------------------------------------------------------------------
(* Properties.                                                             *)

\* A bucket never holds less than nothing nor more than its size.
TypeOK == /\ now \in Nat
          /\ tokens \in [Imsi -> 0..MaxTokens]
          /\ lastRefillTime \in [Imsi -> Nat \cup {Never}]
          /\ \A i \in Imsi : lastRefillTime[i] # Never => lastRefillTime[i] <= now
          /\ since \in 0..now
          /\ admitted \in [Imsi -> Nat]

\* What is left in the bucket and what has been spent in any window come to no
\* more than a full bucket and the refill of the window.
Budget ==
    \A i \in Imsi : admitted[i] * TokenCost + Refilled(i)
                        <= MaxTokens + (now - since) * TokenRate

\* In any stretch of time an IMSI is admitted at most the burst plus the rate:
\* one bucket and the limit's share of the time that has passed.
AdmissionBound ==
    \A i \in Imsi : admitted[i] * TokenCost <= MaxTokens + (now - since) * TokenRate

\* A client that leaves one token's time between its requests is never refused,
\* however many of its earlier ones were: a refusal has no after-effect.
PoliteClientAdmitted ==
    [][\A i \in Imsi :
          /\ lastRefillTime'[i] # lastRefillTime[i]
          /\ \/ lastRefillTime[i] = Never
             \/ (now - lastRefillTime[i]) * TokenRate >= TokenCost
          => admitted'[i] = admitted[i] + 1]_vars
=============================================================================
