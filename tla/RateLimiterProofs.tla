------------------------- MODULE RateLimiterProofs -------------------------
(***************************************************************************)
(* The rate limiter keeps its promises for every limit, every resolution   *)
(* of the clock and every set of subscribers.  Budget is the inductive     *)
(* invariant: a tick adds at most TokenRate to both of its sides, and an   *)
(* admitted request moves one token from the bucket to the account.        *)
(***************************************************************************)
EXTENDS RateLimiter, TLAPS

LEMMA Units ==
    /\ TokenCost \in Nat /\ TokenCost > 0
    /\ TokenRate \in Nat
    /\ MaxTokens \in Nat /\ MaxTokens >= TokenCost
<1> TicksPerMinute \in Nat \ {0} /\ MaxRequestsPerMinute \in Nat
  BY LimiterAssumption
<1>1. TokenCost \in Nat /\ TokenCost > 0 /\ TokenRate \in Nat
  BY DEF TokenCost, TokenRate
<1>2. CASE MaxRequestsPerMinute >= 10
  <2>1. MaxRequestsPerMinute * TicksPerMinute \in Nat
    OBVIOUS
  <2>2. MaxRequestsPerMinute * TicksPerMinute >= 10 * TicksPerMinute
    BY <1>2
  <2> QED
    BY <1>1, <1>2, <2>1, <2>2 DEF MaxTokens, TokenCost
<1>3. CASE ~(MaxRequestsPerMinute >= 10)
  BY <1>1, <1>3 DEF MaxTokens
<1> QED
  BY <1>1, <1>2, <1>3

(***************************************************************************)
(* Multiplication laws, stated once so that the steps below are linear.    *)
(***************************************************************************)
LEMMA OneMore ==
    ASSUME NEW m \in Int, NEW k \in Int
    PROVE  (m + 1) * k = m * k + k /\ m * k \in Int /\ 0 * k = 0
OBVIOUS

LEMMA ProductNat ==
    ASSUME NEW m \in Nat, NEW k \in Nat
    PROVE  m * k \in Nat
OBVIOUS

LEMMA RefilledBounds ==
    ASSUME TypeOK, NEW i \in Imsi
    PROVE  /\ Refilled(i) \in 0..MaxTokens
           /\ lastRefillTime[i] # Never => (now - lastRefillTime[i]) * TokenRate \in Nat
<1>1. CASE lastRefillTime[i] = Never
  BY <1>1, Units DEF Refilled
<1>2. CASE lastRefillTime[i] # Never
  <2>1. now - lastRefillTime[i] \in Nat
    BY <1>2 DEF TypeOK
  <2>2. (now - lastRefillTime[i]) * TokenRate \in Nat
    BY <2>1, Units, ProductNat
  <2>3. tokens[i] \in Nat
    BY Units DEF TypeOK
  <2> QED
    BY <1>2, <2>2, <2>3, Units DEF Refilled, AtMostFull
<1> QED
  BY <1>1, <1>2

LEMMA TypingStep ==
    ASSUME TypeOK, [Next]_vars
    PROVE  TypeOK'
<1>1. ASSUME NEW i \in Imsi, AllowRequest(i)
      PROVE  TypeOK'
  <2>1. now \in Nat /\ now' = now /\ since' = since
    BY <1>1 DEF AllowRequest, TypeOK
  <2>2. /\ lastRefillTime' \in [Imsi -> Nat \cup {Never}]
        /\ \A j \in Imsi : lastRefillTime'[j] # Never => lastRefillTime'[j] <= now'
    BY <1>1, <2>1 DEF AllowRequest, TypeOK
  <2>3. Refilled(i) \in 0..MaxTokens
    BY RefilledBounds
  <2>4. CASE Refilled(i) >= TokenCost
    <3>1. Refilled(i) - TokenCost \in 0..MaxTokens
      BY <2>3, <2>4, Units
    <3> QED
      BY <1>1, <2>1, <2>2, <2>4, <3>1 DEF AllowRequest, TypeOK
  <2>5. CASE ~(Refilled(i) >= TokenCost)
    BY <1>1, <2>1, <2>2, <2>3, <2>5 DEF AllowRequest, TypeOK
  <2> QED
    BY <2>4, <2>5
<1>2. CASE Tick
  <2>1. \A j \in Imsi : lastRefillTime[j] # Never => lastRefillTime[j] \in Nat
    BY DEF TypeOK
  <2> QED
    BY <1>2, <2>1 DEF Tick, TypeOK
<1>3. CASE Observe
  BY <1>3 DEF Observe, TypeOK
<1>4. CASE UNCHANGED vars
  BY <1>4 DEF vars, TypeOK
<1> QED
  BY <1>1, <1>2, <1>3, <1>4 DEF Next

THEOREM LimiterTypeCorrect == Spec => []TypeOK
<1>1. Init => TypeOK
  BY Units DEF Init, TypeOK
<1>2. TypeOK /\ [Next]_vars => TypeOK'
  BY TypingStep
<1> QED
  BY <1>1, <1>2, PTL DEF Spec

(***************************************************************************)
(* Looking at the bucket a tick later finds at most one tick's refill more.*)
(***************************************************************************)
LEMMA TickRefill ==
    ASSUME TypeOK, Tick, NEW i \in Imsi
    PROVE  Refilled(i)' \in Int /\ Refilled(i)' <= Refilled(i) + TokenRate
<1>1. UNCHANGED <<tokens, lastRefillTime>> /\ now' = now + 1 /\ now \in Nat
  BY DEF Tick, TypeOK
<1>2. CASE lastRefillTime[i] = Never
  BY <1>1, <1>2, Units DEF Refilled
<1>3. CASE lastRefillTime[i] # Never
  <2> DEFINE gone == now - lastRefillTime[i]
  <2>1. gone \in Nat /\ now' - lastRefillTime'[i] = gone + 1
    BY <1>1, <1>3 DEF TypeOK
  <2>2. (gone + 1) * TokenRate = gone * TokenRate + TokenRate /\ gone * TokenRate \in Nat
    BY <2>1, Units, OneMore, ProductNat
  <2>3. tokens[i] \in Nat
    BY Units DEF TypeOK
  <2>4. /\ Refilled(i) = AtMostFull(tokens[i] + gone * TokenRate)
        /\ Refilled(i)' = AtMostFull(tokens[i] + (gone + 1) * TokenRate)
    BY <1>1, <1>3, <2>1 DEF Refilled, AtMostFull
  <2> HIDE DEF gone
  <2> QED
    BY <2>2, <2>3, <2>4, Units DEF AtMostFull
<1> QED
  BY <1>2, <1>3

LEMMA BudgetStep ==
    ASSUME TypeOK, TypeOK', Budget, [Next]_vars
    PROVE  Budget'
<1> SUFFICES ASSUME NEW j \in Imsi
             PROVE  admitted'[j] * TokenCost + Refilled(j)'
                        <= MaxTokens + (now' - since') * TokenRate
  BY DEF Budget
<1>0. /\ TokenCost \in Nat /\ TokenRate \in Nat /\ MaxTokens \in Nat
      /\ admitted[j] \in Nat /\ now - since \in Nat
      /\ admitted[j] * TokenCost \in Int /\ (now - since) * TokenRate \in Int
      /\ Refilled(j) \in Int /\ Refilled(j) <= MaxTokens
      /\ admitted[j] * TokenCost + Refilled(j) <= MaxTokens + (now - since) * TokenRate
  BY Units, RefilledBounds, OneMore DEF TypeOK, Budget
<1>1. ASSUME NEW i \in Imsi, AllowRequest(i)
      PROVE  admitted'[j] * TokenCost + Refilled(j)'
                 <= MaxTokens + (now' - since') * TokenRate
  <2>1. UNCHANGED <<now, since>>
    BY <1>1 DEF AllowRequest
  <2>2. CASE j # i
    <3>1. /\ admitted'[j] = admitted[j] /\ tokens'[j] = tokens[j]
          /\ lastRefillTime'[j] = lastRefillTime[j]
      BY <1>1, <2>2 DEF AllowRequest, TypeOK
    <3>2. Refilled(j)' = Refilled(j)
      BY <2>1, <3>1 DEF Refilled, AtMostFull
    <3> QED
      BY <1>0, <2>1, <3>1, <3>2
  <2>3. CASE j = i
    <3>1. /\ lastRefillTime'[j] = now /\ now \in Nat /\ now # Never
          /\ now - now = 0 /\ 0 * TokenRate = 0
      BY <1>1, <2>3, LimiterAssumption, OneMore, Units DEF AllowRequest, TypeOK
    <3>2. tokens'[j] \in 0..MaxTokens
      BY DEF TypeOK
    <3>3. Refilled(j)' = tokens'[j]
      <4>1. Refilled(j)' = AtMostFull(tokens'[j] + (now - now) * TokenRate)
        BY <2>1, <3>1 DEF Refilled, AtMostFull
      <4>2. (now - now) * TokenRate = 0
        BY <3>1
      <4>3. /\ tokens'[j] \in Int /\ MaxTokens \in Int /\ tokens'[j] <= MaxTokens
            /\ tokens'[j] + 0 = tokens'[j]
        BY <1>0, <3>2
      <4>4. AtMostFull(tokens'[j]) = tokens'[j]
        BY <4>3 DEF AtMostFull
      <4> QED
        BY <4>1, <4>2, <4>3, <4>4
    <3>4. CASE Refilled(i) >= TokenCost
      <4>1. tokens'[j] = Refilled(j) - TokenCost /\ admitted'[j] = admitted[j] + 1
        BY <1>1, <2>3, <3>4 DEF AllowRequest, TypeOK
      <4>2. (admitted[j] + 1) * TokenCost = admitted[j] * TokenCost + TokenCost
        BY <1>0, OneMore
      <4> QED
        BY <1>0, <2>1, <3>3, <4>1, <4>2
    <3>5. CASE ~(Refilled(i) >= TokenCost)
      <4>1. tokens'[j] = Refilled(j) /\ admitted'[j] = admitted[j]
        BY <1>1, <2>3, <3>5 DEF AllowRequest, TypeOK
      <4> QED
        BY <1>0, <2>1, <3>3, <4>1
    <3> QED
      BY <3>4, <3>5
  <2> QED
    BY <2>2, <2>3
<1>2. CASE Tick
  <2>1. admitted' = admitted /\ since' = since /\ now' - since' = (now - since) + 1
    BY <1>2 DEF Tick, TypeOK
  <2>2. ((now - since) + 1) * TokenRate = (now - since) * TokenRate + TokenRate
    BY <1>0, OneMore
  <2>3. Refilled(j)' \in Int /\ Refilled(j)' <= Refilled(j) + TokenRate
    BY <1>2, TickRefill
  <2> QED
    BY <1>0, <2>1, <2>2, <2>3
<1>3. CASE Observe
  <2>1. /\ admitted'[j] = 0 /\ now' - since' = 0
        /\ 0 * TokenCost = 0 /\ 0 * TokenRate = 0
    BY <1>3, Units, OneMore DEF Observe, TypeOK
  <2>2. Refilled(j)' = Refilled(j)
    BY <1>3 DEF Observe, Refilled, AtMostFull
  <2> QED
    BY <1>0, <2>1, <2>2
<1>4. CASE UNCHANGED vars
  <2>1. Refilled(j)' = Refilled(j)
    BY <1>4 DEF vars, Refilled, AtMostFull
  <2> QED
    BY <1>0, <1>4, <2>1 DEF vars
<1> QED
  BY <1>1, <1>2, <1>3, <1>4 DEF Next

(***************************************************************************)
(* In no stretch of time is an IMSI admitted more often than one full      *)
(* bucket and the limit's share of that time allow.                        *)
(***************************************************************************)
THEOREM AdmissionsBounded == Spec => [](Budget /\ AdmissionBound)
<1>1. TypeOK /\ Init => Budget
  <2> SUFFICES ASSUME TypeOK, Init, NEW i \in Imsi
               PROVE  admitted[i] * TokenCost + Refilled(i)
                          <= MaxTokens + (now - since) * TokenRate
    BY DEF Budget
  <2>1. /\ Refilled(i) = MaxTokens /\ admitted[i] = 0 /\ now - since = 0
        /\ 0 * TokenCost = 0 /\ 0 * TokenRate = 0
    BY Units, OneMore DEF Init, Refilled
  <2> QED
    BY <2>1, Units
<1>2. TypeOK /\ TypeOK' /\ Budget /\ [Next]_vars => Budget'
  BY BudgetStep
<1>3. TypeOK /\ Budget => AdmissionBound
  <2> SUFFICES ASSUME TypeOK, Budget, NEW i \in Imsi
               PROVE  admitted[i] * TokenCost <= MaxTokens + (now - since) * TokenRate
    BY DEF AdmissionBound
  <2>1. /\ admitted[i] * TokenCost \in Int /\ (now - since) * TokenRate \in Int
        /\ Refilled(i) \in Nat
        /\ admitted[i] * TokenCost + Refilled(i) <= MaxTokens + (now - since) * TokenRate
    BY Units, RefilledBounds, OneMore DEF Budget, TypeOK
  <2> QED
    BY <2>1, Units
<1> QED
  BY <1>1, <1>2, <1>3, LimiterTypeCorrect, PTL DEF Spec

(***************************************************************************)
(* A request that comes one token's time after the previous one of its     *)
(* IMSI, or is the first, is admitted.                                     *)
(***************************************************************************)
THEOREM PoliteClientsAdmitted == Spec => PoliteClientAdmitted
<1>1. ASSUME TypeOK, [Next]_vars, NEW i \in Imsi,
             lastRefillTime'[i] # lastRefillTime[i],
             \/ lastRefillTime[i] = Never
             \/ (now - lastRefillTime[i]) * TokenRate >= TokenCost
      PROVE  admitted'[i] = admitted[i] + 1
  <2>1. AllowRequest(i)
    BY <1>1 DEF Next, Tick, Observe, vars, AllowRequest, TypeOK
  <2>2. Refilled(i) >= TokenCost
    <3>1. CASE lastRefillTime[i] = Never
      BY <3>1, Units DEF Refilled
    <3>2. CASE lastRefillTime[i] # Never
      <4>1. tokens[i] \in Nat /\ (now - lastRefillTime[i]) * TokenRate \in Nat
        BY <1>1, <3>2, Units, RefilledBounds DEF TypeOK
      <4> QED
        BY <1>1, <3>2, <4>1, Units DEF Refilled, AtMostFull
    <3> QED
      BY <3>1, <3>2
  <2> QED
    BY <1>1, <2>1, <2>2 DEF AllowRequest, TypeOK
<1>2. TypeOK /\ [Next]_vars =>
          [\A i \in Imsi :
              /\ lastRefillTime'[i] # lastRefillTime[i]
              /\ \/ lastRefillTime[i] = Never
                 \/ (now - lastRefillTime[i]) * TokenRate >= TokenCost
              => admitted'[i] = admitted[i] + 1]_vars
  BY <1>1
<1> QED
  BY <1>2, LimiterTypeCorrect, PTL DEF Spec, PoliteClientAdmitted
=============================================================================
