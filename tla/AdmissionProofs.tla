---------------------------- MODULE AdmissionProofs ----------------------------
(***************************************************************************)
(* Theorems about Admission, for every capacity, rate, cost and number of  *)
(* requests.                                                               *)
(***************************************************************************)
EXTENDS Admission, TLAPS

\* The part of the state the token bucket keeps, with its history.
BucketTypeOK ==
  /\ now \in Nat
  /\ tokens \in 0 .. Capacity
  /\ updatedAt \in 0 .. now
  /\ markedAt \in 0 .. now
  /\ admitted \in Nat

\* What the bucket holds now and what was taken from it since the mark are paid for: the
\* bound on what was taken is not inductive without what is left.
BucketInv ==
  /\ BucketTypeOK
  /\ admitted * Cost + Refilled <= Capacity + (now - markedAt) * Rate

LEMMA Distributes ==
  ASSUME NEW m \in Nat, NEW n \in Nat
  PROVE  /\ (m + 1) * n = m * n + n
         /\ m * n \in Nat
OBVIOUS

LEMMA RefilledType ==
  ASSUME BucketTypeOK
  PROVE  /\ Refilled \in 0 .. Capacity
         /\ Refilled = Lesser(Capacity, tokens + (now - updatedAt) * Rate)
         /\ (now - updatedAt) * Rate \in Nat
<1>1. now - updatedAt \in Nat
  BY DEF BucketTypeOK
<1>2. (now - updatedAt) * Rate \in Nat
  BY <1>1, Distributes, AdmissionAssumption
<1> QED
  BY <1>2, AdmissionAssumption DEF BucketTypeOK, Refilled, Lesser

LEMMA BucketStep == BucketInv /\ [Next]_vars => BucketInv'
<1> SUFFICES ASSUME BucketInv, [Next]_vars
             PROVE  BucketInv'
  OBVIOUS
<1> USE AdmissionAssumption
<1>1. BucketTypeOK /\ Refilled \in 0 .. Capacity
  BY RefilledType DEF BucketInv
<1>2. ASSUME NEW r \in Requests, RateLimited(r)
      PROVE  BucketInv'
  <2>1. BucketTypeOK' /\ (now - updatedAt)' = 0 /\ tokens' = Refilled
    BY <1>1, <1>2 DEF RateLimited, BucketTypeOK
  <2>2. Refilled' = Refilled
    BY <1>1, <2>1 DEF Refilled, Lesser
  <2> QED
    BY <1>2, <2>1, <2>2 DEF RateLimited, BucketInv
<1>3. ASSUME NEW r \in Requests, TokenAcquired(r)
      PROVE  BucketInv'
  <2>1. BucketTypeOK' /\ (now - updatedAt)' = 0 /\ tokens' = Refilled - Cost
    BY <1>1, <1>3 DEF TokenAcquired, BucketTypeOK
  <2>2. Refilled' = Refilled - Cost
    BY <1>1, <1>3, <2>1 DEF Refilled, Lesser, TokenAcquired
  <2>3. admitted' * Cost = admitted * Cost + Cost /\ admitted * Cost \in Nat
    BY <1>1, <1>3, Distributes DEF TokenAcquired, BucketTypeOK
  <2>4. (now - markedAt) * Rate \in Nat
    BY <1>1, Distributes DEF BucketTypeOK
  <2> QED
    BY <1>1, <1>3, <2>1, <2>2, <2>3, <2>4 DEF TokenAcquired, BucketInv
<1>4. CASE Tick
  <2>1. BucketTypeOK'
    BY <1>1, <1>4 DEF Tick, BucketTypeOK, bucketVars
  <2>2. (now' - updatedAt') * Rate = (now - updatedAt) * Rate + Rate
    BY <1>1, <1>4, Distributes DEF Tick, BucketTypeOK, bucketVars
  <2>3. (now' - markedAt') * Rate = (now - markedAt) * Rate + Rate
    BY <1>1, <1>4, Distributes DEF Tick, BucketTypeOK, bucketVars
  <2>4. (now - updatedAt) * Rate \in Nat /\ (now - markedAt) * Rate \in Nat
        /\ admitted * Cost \in Nat
    BY <1>1, Distributes DEF BucketTypeOK
  <2>5. Refilled' <= Refilled + Rate
    BY <1>1, <1>4, <2>2, <2>4 DEF Refilled, Lesser, Tick, BucketTypeOK, bucketVars
  <2>6. Refilled' \in Nat
    BY <2>1, <2>2, <2>4, <1>4 DEF Refilled, Lesser, Tick, BucketTypeOK, bucketVars
  <2> QED
    BY <1>1, <1>4, <2>1, <2>3, <2>4, <2>5, <2>6 DEF Tick, BucketInv, bucketVars
<1>5. CASE Mark
  <2>1. BucketTypeOK'
    BY <1>1, <1>5 DEF Mark, BucketTypeOK
  <2>2. Refilled' = Refilled
    BY <1>5 DEF Mark, Refilled
  <2>3. admitted' * Cost = 0 /\ (now - markedAt)' * Rate = 0
    BY <1>1, <1>5 DEF Mark, BucketTypeOK
  <2> QED
    BY <1>1, <2>1, <2>2, <2>3 DEF BucketInv
<1>6. ASSUME UNCHANGED <<now, bucketVars, markedAt>>
      PROVE  BucketInv'
  BY <1>6 DEF BucketInv, BucketTypeOK, bucketVars, Refilled
<1>7. ASSUME NEW r \in Requests, Proceeds(r)
      PROVE  UNCHANGED <<now, bucketVars, markedAt>>
  BY <1>7 DEF Proceeds, PermitAcquired, PermitAwaited, PermitReceived, TimesOutWaiting,
              TimesOutGranted, PublishEnds, Respond
<1>8. CASE UNCHANGED vars
  BY <1>6, <1>8 DEF vars, bucketVars
<1> QED
  BY <1>2, <1>3, <1>4, <1>5, <1>6, <1>7, <1>8 DEF Next

LEMMA BucketInit == Init => BucketInv
<1> SUFFICES ASSUME Init
             PROVE  BucketInv
  OBVIOUS
<1>1. BucketTypeOK
  BY AdmissionAssumption DEF Init, BucketTypeOK
<1>2. admitted * Cost = 0 /\ (now - markedAt) * Rate = 0
  BY AdmissionAssumption DEF Init
<1> QED
  BY <1>1, <1>2, RefilledType, AdmissionAssumption DEF BucketInv

\* From any instant on, no more requests pass the token bucket than a full bucket and the
\* refill since then pay for.
THEOREM RateIsBounded == Spec => []RateBound
<1>1. BucketInv => RateBound
  <2> SUFFICES ASSUME BucketInv
               PROVE  RateBound
    OBVIOUS
  <2>1. Refilled \in Nat /\ admitted * Cost \in Nat /\ (now - markedAt) * Rate \in Nat
    BY RefilledType, Distributes, AdmissionAssumption DEF BucketInv, BucketTypeOK
  <2> QED
    BY <2>1, AdmissionAssumption DEF BucketInv, RateBound
<1> QED
  BY <1>1, BucketInit, BucketStep, PTL DEF Spec
==============================================================================
