-------------------------- MODULE VlmCaptionsProofs --------------------------
(***************************************************************************)
(* Permits, calls and requests of the captions, for any number of worker    *)
(* processes and pictures, any limit and any number of retries.             *)
(***************************************************************************)
EXTENDS VlmCaptions, FiniteSetTheorems, TLAPS

Busy == {"waiting", "posting", "backoff"}
Holding == {"posting", "backoff"}
Quota(n) == n * (MaxRetries + 1)

Types ==
  /\ phase \in [Processes -> {"parsed", "prefetch", "serialize", "serialized", "failed"}]
  /\ next \in [Processes -> 1..Count + 1]
  /\ stage \in [Processes -> [Pictures -> Stages]]
  /\ attempt \in [Processes -> [Pictures -> 0..MaxRetries]]
  /\ limit \in [Processes -> Limits] /\ damage \in [Processes -> Damages]
  /\ permits \in [Processes -> Nat]
  /\ captions \in [Processes -> SUBSET Pictures]
  /\ calls \in [Processes -> [Pictures -> Nat]]
  /\ posts \in [Processes -> [Pictures -> Nat]]

PermitInv(p) == permits[p] + Cardinality(In(p, Holding)) = limit[p]

(* Calls in progress fit the pool while it prefetches; afterwards the        *)
(* serializer makes one at a time.                                            *)
WidthInv(p) == phase[p] = "prefetch" => Cardinality(In(p, Busy)) <= Width(p)

SerialInv(p) ==
  phase[p] = "serialize" =>
    \A i, j \in Pictures : stage[p][i] # "idle" /\ stage[p][j] # "idle" => i = j

(* Where a picture is, and how often it has been asked about.                *)
CallInv(p, i) ==
  /\ phase[p] \in {"parsed", "prefetch"} => next[p] = 1
  /\ phase[p] \notin {"prefetch", "serialize"} \/ i \notin Valid(p) => stage[p][i] = "idle"
  /\ phase[p] = "parsed" \/ i \notin Valid(p) => calls[p][i] = 0 /\ i \notin captions[p]
  /\ i \in captions[p] => stage[p][i] = "idle"
  /\ phase[p] = "prefetch" /\ i \in Valid(p) =>
       /\ stage[p][i] = "queued" => calls[p][i] = 0
       /\ stage[p][i] # "queued" => calls[p][i] = 1
  /\ phase[p] \in {"serialize", "serialized"} /\ i \in Valid(p) =>
       /\ i >= next[p] => stage[p][i] = "idle" /\ calls[p][i] = 1
       /\ stage[p][i] = "queued" => calls[p][i] = 1
       /\ stage[p][i] \in Busy => calls[p][i] = 2
       /\ i < next[p] /\ stage[p][i] = "idle" /\ i \notin captions[p] => calls[p][i] = 2
  /\ calls[p][i] <= 2

(* What a call in progress has sent so far.                                  *)
PostInv(p, i) ==
  /\ stage[p][i] \notin Busy => posts[p][i] <= Quota(calls[p][i])
  /\ stage[p][i] \in Busy => calls[p][i] >= 1
  /\ stage[p][i] = "waiting" =>
       attempt[p][i] = 0 /\ posts[p][i] <= Quota(calls[p][i] - 1)
  /\ stage[p][i] = "posting" => posts[p][i] <= Quota(calls[p][i] - 1) + attempt[p][i] + 1
  /\ stage[p][i] = "backoff" => posts[p][i] <= Quota(calls[p][i] - 1) + attempt[p][i]

IInv ==
  /\ Types
  /\ \A p \in Processes : /\ PermitInv(p) /\ WidthInv(p) /\ SerialInv(p)
                          /\ \A i \in Pictures : CallInv(p, i) /\ PostInv(p, i)

-----------------------------------------------------------------------------
LEMMA InFinite ==
  ASSUME NEW p, NEW S
  PROVE  /\ IsFiniteSet(In(p, S)) /\ Cardinality(In(p, S)) \in Nat
         /\ IsFiniteSet(In(p, S)') /\ Cardinality(In(p, S)') \in Nat
<1>1. IsFiniteSet(Pictures)
  BY CaptionParameters, FS_Interval DEF Pictures
<1>2. In(p, S) \subseteq Pictures /\ In(p, S)' \subseteq Pictures
  BY DEF In
<1> QED BY <1>1, <1>2, FS_Subset, FS_CardinalityType

LEMMA WidthType ==
  ASSUME Types, NEW p \in Processes
  PROVE  Width(p) \in Nat /\ (limit[p] > 0 => Width(p) <= limit[p])
<1>1. IsFiniteSet(Pictures)
  BY CaptionParameters, FS_Interval DEF Pictures
<1>2. Cardinality(Valid(p)) \in Nat
  BY <1>1, FS_Subset, FS_CardinalityType DEF Valid
<1>3. limit[p] \in Nat
  BY CaptionParameters DEF Types
<1> QED BY <1>2, <1>3, CaptionParameters DEF Width, SmallerOf

LEMMA QuotaFacts ==
  /\ Quota(0) = 0
  /\ \A n \in Nat : Quota(n) \in Nat /\ Quota(n + 1) = Quota(n) + MaxRetries + 1
BY CaptionParameters, Z3 DEF Quota

LEMMA QuotaLast ==
  ASSUME NEW n \in Nat, n >= 1
  PROVE  Quota(n - 1) \in Nat /\ Quota(n) = Quota(n - 1) + MaxRetries + 1
<1>1. n - 1 \in Nat /\ (n - 1) + 1 = n
  OBVIOUS
<1> QED BY <1>1, QuotaFacts

LEMMA InitIInv == Init => IInv
<1> SUFFICES ASSUME Init PROVE IInv
  OBVIOUS
<1>1. Types
  <2>1. permits \in [Processes -> Nat]
    BY CaptionParameters DEF Init
  <2>2. next \in [Processes -> 1..Count + 1]
    BY CaptionParameters DEF Init
  <2>3. attempt \in [Processes -> [Pictures -> 0..MaxRetries]]
    BY CaptionParameters DEF Init
  <2> QED BY <2>1, <2>2, <2>3 DEF Init, Types, Stages
<1>2. ASSUME NEW p \in Processes PROVE PermitInv(p) /\ WidthInv(p) /\ SerialInv(p)
  <2>1. In(p, Holding) = {}
    BY <1>2 DEF Init, In, Holding
  <2>2. limit[p] \in Nat
    BY <1>1, CaptionParameters DEF Types
  <2>3. PermitInv(p)
    BY <2>1, <2>2, FS_EmptySet DEF Init, PermitInv
  <2> QED BY <2>3 DEF Init, WidthInv, SerialInv
<1>3. ASSUME NEW p \in Processes, NEW i \in Pictures PROVE CallInv(p, i) /\ PostInv(p, i)
  BY QuotaFacts DEF Init, CallInv, PostInv, Busy
<1> QED BY <1>1, <1>2, <1>3 DEF IInv

-----------------------------------------------------------------------------
LEMMA TypesStep ==
  ASSUME IInv, [Next]_vars PROVE Types'
<1> USE DEF Types, Stages, Becomes, Moves, Release
<1>1. ASSUME NEW p \in Processes, NEW i \in Pictures, CallStep(p, i) PROVE Types'
  <2>0. Types /\ CallInv(p, i)
    BY DEF IInv
  <2>1. CASE Call(p, i) BY <2>0, <2>1, CaptionParameters DEF Call
  <2>2. CASE CallUnprepared(p, i) BY <2>0, <2>2 DEF CallUnprepared
  <2>3. CASE Acquire(p, i) BY <2>0, <2>3 DEF Acquire
  <2>4. CASE Caption(p, i) BY <2>0, <2>4 DEF Caption
  <2>5. CASE GiveUp(p, i) BY <2>0, <2>5 DEF GiveUp
  <2>6. CASE BackOff(p, i) BY <2>0, <2>6, CaptionParameters DEF BackOff
  <2>7. CASE Retry(p, i) BY <2>0, <2>7 DEF Retry
  <2> HIDE DEF Types
  <2> QED BY <1>1, <2>1, <2>2, <2>3, <2>4, <2>5, <2>6, <2>7 DEF CallStep
<1>2. ASSUME NEW p \in Processes, DocumentStep(p) PROVE Types'
  <2>0. Types
    BY DEF IInv
  <2>1. CASE Prefetch(p) BY <2>0, <2>1 DEF Prefetch
  <2>2. CASE PrefetchRaises(p) BY <2>0, <2>2 DEF PrefetchRaises
  <2>3. CASE Collect(p) BY <2>0, <2>3 DEF Collect
  <2>4. CASE Pass(p) BY <2>0, <2>4, CaptionParameters DEF Pass, AtPicture
  <2>5. CASE Fallback(p)
    <3>1. next[p] \in Pictures /\ next[p] + 1 \in 1..Count + 1
      <4>1. next[p] \in 1..Count + 1 /\ next[p] <= Count /\ Count \in Nat
        BY <2>0, <2>5, CaptionParameters DEF Fallback, AtPicture
      <4> QED BY <4>1 DEF Pictures
    <3> QED BY <2>0, <2>5, <3>1 DEF Fallback
  <2>6. CASE SerializeRaises(p) BY <2>0, <2>6 DEF SerializeRaises
  <2>7. CASE Finish(p) BY <2>0, <2>7 DEF Finish
  <2> HIDE DEF Types
  <2> QED BY <1>2, <2>1, <2>2, <2>3, <2>4, <2>5, <2>6, <2>7 DEF DocumentStep
<1>3. CASE UNCHANGED vars
  BY <1>3 DEF IInv, vars
<1> HIDE DEF Types
<1> QED BY <1>1, <1>2, <1>3 DEF Next, Stopped

(* The sets of pictures by stage, after one picture has moved. *)
LEMMA InMoved ==
  ASSUME Types, NEW p \in Processes, NEW i \in Pictures, NEW s, Becomes(p, i, s),
         NEW q \in Processes, NEW S
  PROVE  /\ q # p => In(q, S)' = In(q, S)
         /\ q = p /\ s \in S => In(q, S)' = In(q, S) \cup {i}
         /\ q = p /\ s \notin S => In(q, S)' = In(q, S) \ {i}
BY DEF Types, Becomes, In

LEMMA InSame ==
  ASSUME UNCHANGED stage, NEW q, NEW S PROVE In(q, S)' = In(q, S)
BY DEF In

(* Whoever sends or pauses has a permit. *)
LEMMA PermitStep ==
  ASSUME IInv, [Next]_vars, NEW q \in Processes PROVE PermitInv(q)'
<1>0. Types /\ PermitInv(q) /\ permits[q] \in Nat /\ limit[q] \in Nat
  BY CaptionParameters DEF IInv, Types
<1>1. IsFiniteSet(In(q, Holding)) /\ Cardinality(In(q, Holding)) \in Nat
  BY InFinite
<1>2. ASSUME UNCHANGED <<limit, permits>>, In(q, Holding)' = In(q, Holding) PROVE PermitInv(q)'
  BY <1>0, <1>2 DEF PermitInv
<1>3. ASSUME NEW p \in Processes, NEW i \in Pictures, CallStep(p, i) PROVE PermitInv(q)'
  <2>1. CASE Call(p, i) \/ CallUnprepared(p, i)
    <3>1. PICK s \in {"waiting", "idle"} : Becomes(p, i, s)
      BY <2>1 DEF Call, CallUnprepared
    <3>2. stage[p][i] = "queued" /\ UNCHANGED <<limit, permits>>
      BY <2>1 DEF Call, CallUnprepared, Runnable
    <3>3. i \notin In(p, Holding)
      BY <3>2 DEF In, Holding
    <3>4. s \notin Holding
      BY DEF Holding
    <3>5. CASE q = p
      <4>1. In(q, Holding)' = In(q, Holding) \ {i}
        BY <1>0, <3>1, <3>4, <3>5, InMoved
      <4> QED BY <1>2, <3>2, <3>3, <3>5, <4>1
    <3>6. CASE q # p
      <4>1. In(q, Holding)' = In(q, Holding)
        BY <1>0, <3>1, <3>6, InMoved
      <4> QED BY <1>2, <3>2, <4>1
    <3> QED BY <3>5, <3>6
  <2>2. CASE Acquire(p, i)
    <3>1. Becomes(p, i, "posting") /\ limit' = limit /\ permits' = [permits EXCEPT ![p] = @ - 1]
      BY <2>2 DEF Acquire
    <3>2. i \notin In(p, Holding) /\ "posting" \in Holding
      BY <2>2 DEF Acquire, In, Holding
    <3>3. CASE q = p
      <4>1. In(q, Holding)' = In(q, Holding) \cup {i}
        BY <1>0, <3>1, <3>2, <3>3, InMoved
      <4>2. Cardinality(In(q, Holding)') = Cardinality(In(q, Holding)) + 1
        BY <1>1, <3>2, <3>3, <4>1, FS_AddElement
      <4>3. permits'[q] = permits[q] - 1
        BY <1>0, <3>1, <3>3 DEF Types
      <4> QED BY <1>0, <1>1, <3>1, <4>2, <4>3 DEF PermitInv
    <3>4. CASE q # p
      <4>1. In(q, Holding)' = In(q, Holding)
        BY <1>0, <3>1, <3>4, InMoved
      <4>2. permits'[q] = permits[q]
        BY <1>0, <3>1, <3>4 DEF Types
      <4> QED BY <1>0, <3>1, <4>1, <4>2 DEF PermitInv
    <3> QED BY <3>3, <3>4
  <2>3. CASE Caption(p, i) \/ GiveUp(p, i)
    <3>1. Becomes(p, i, "idle") /\ limit' = limit /\ permits' = [permits EXCEPT ![p] = @ + 1]
      BY <2>3 DEF Caption, GiveUp, Release
    <3>2. i \in In(p, Holding) /\ "idle" \notin Holding
      BY <2>3 DEF Caption, GiveUp, In, Holding
    <3>3. CASE q = p
      <4>1. In(q, Holding)' = In(q, Holding) \ {i}
        BY <1>0, <3>1, <3>2, <3>3, InMoved
      <4>2. Cardinality(In(q, Holding)') = Cardinality(In(q, Holding)) - 1
        BY <1>1, <3>2, <3>3, <4>1, FS_RemoveElement
      <4>3. permits'[q] = permits[q] + 1
        BY <1>0, <3>1, <3>3 DEF Types
      <4> QED BY <1>0, <1>1, <3>1, <4>2, <4>3 DEF PermitInv
    <3>4. CASE q # p
      <4>1. In(q, Holding)' = In(q, Holding)
        BY <1>0, <3>1, <3>4, InMoved
      <4>2. permits'[q] = permits[q]
        BY <1>0, <3>1, <3>4 DEF Types
      <4> QED BY <1>0, <3>1, <4>1, <4>2 DEF PermitInv
    <3> QED BY <3>3, <3>4
  <2>4. CASE BackOff(p, i) \/ Retry(p, i)
    <3>1. PICK s \in Holding : Becomes(p, i, s)
      BY <2>4 DEF BackOff, Retry, Holding
    <3>2. i \in In(p, Holding) /\ UNCHANGED <<limit, permits>>
      BY <2>4 DEF BackOff, Retry, In, Holding
    <3>3. In(q, Holding)' = In(q, Holding)
      BY <1>0, <3>1, <3>2, InMoved
    <3> QED BY <1>2, <3>2, <3>3
  <2> QED BY <1>3, <2>1, <2>2, <2>3, <2>4 DEF CallStep
<1>4. ASSUME NEW p \in Processes, DocumentStep(p) PROVE PermitInv(q)'
  <2>1. UNCHANGED <<limit, permits>>
    BY <1>4 DEF DocumentStep, Prefetch, PrefetchRaises, Collect, Pass, Fallback,
                SerializeRaises, Finish
  <2>2. CASE Prefetch(p)
    <3>1. \A i \in Pictures : stage[p][i] = "idle" /\ stage'[p][i] \in {"queued", "idle"}
      BY <2>2 DEF IInv, Types, CallInv, Prefetch
    <3>2. q # p => stage'[q] = stage[q]
      BY <1>0, <2>2 DEF Prefetch, Types
    <3>3. In(q, Holding)' = In(q, Holding)
      BY <3>1, <3>2 DEF In, Holding
    <3> QED BY <1>2, <2>1, <3>3
  <2>3. CASE Fallback(p)
    <3>1. next[p] \in Pictures /\ Becomes(p, next[p], "queued")
      BY <2>3, <1>0 DEF Fallback, Valid
    <3>2. next[p] \notin In(p, Holding)
      BY <2>3, <3>1 DEF Fallback, AtPicture, AllIdle, In, Holding, Stages
    <3>3. "queued" \notin Holding
      BY DEF Holding
    <3>4. In(q, Holding)' = In(q, Holding)
      BY <1>0, <3>1, <3>2, <3>3, InMoved
    <3> QED BY <1>2, <2>1, <3>4
  <2>4. CASE UNCHANGED stage
    BY <1>2, <2>1, <2>4, InSame
  <2> QED BY <1>4, <2>2, <2>3, <2>4
          DEF DocumentStep, PrefetchRaises, Collect, Pass, SerializeRaises, Finish
<1>5. CASE UNCHANGED vars
  BY <1>2, <1>5, InSame DEF vars
<1> QED BY <1>3, <1>4, <1>5 DEF Next, Stopped

-----------------------------------------------------------------------------
(* Each picture's stage and number of calls. *)
LEMMA CallInvStep ==
  ASSUME IInv, [Next]_vars, NEW q \in Processes, NEW k \in Pictures
  PROVE  CallInv(q, k)'
<1>0. Types /\ Types' /\ CallInv(q, k) /\ k \in 1..Count
  BY TypesStep DEF IInv, Pictures
<1> USE DEF CallInv, Busy, Valid, Becomes, Moves, Release
<1>1. ASSUME NEW p \in Processes, NEW i \in Pictures, CallStep(p, i) PROVE CallInv(q, k)'
  <2>1. CASE Call(p, i) BY <1>0, <2>1 DEF Types, Call, Runnable
  <2>2. CASE CallUnprepared(p, i) BY <1>0, <2>2 DEF Types, CallUnprepared, Runnable
  <2>3. CASE Acquire(p, i) BY <1>0, <2>3 DEF Types, Acquire
  <2>4. CASE Caption(p, i) BY <1>0, <2>4 DEF Types, Caption
  <2>5. CASE GiveUp(p, i) BY <1>0, <2>5 DEF Types, GiveUp
  <2>6. CASE BackOff(p, i) BY <1>0, <2>6 DEF Types, BackOff
  <2>7. CASE Retry(p, i) BY <1>0, <2>7 DEF Types, Retry
  <2> HIDE DEF CallInv
  <2> QED BY <1>1, <2>1, <2>2, <2>3, <2>4, <2>5, <2>6, <2>7 DEF CallStep
<1>2. ASSUME NEW p \in Processes, DocumentStep(p) PROVE CallInv(q, k)'
  <2> USE DEF AtPicture
  <2>1. CASE Prefetch(p) BY <1>0, <2>1 DEF Types, Prefetch
  <2>2. CASE PrefetchRaises(p) BY <1>0, <2>2 DEF Types, PrefetchRaises
  <2>3. CASE Collect(p)
    <3>1. \A i \in Pictures : stage[p][i] = "idle"
      BY <1>0, <2>3 DEF Collect, AllIdle, In, Types, Stages
    <3> QED BY <1>0, <2>3, <3>1 DEF Types, Collect
  <2>4. CASE Pass(p)
    <3>1. next[p] \in Nat /\ next[q] \in Nat
      BY <1>0 DEF Types
    <3>2. next' = [next EXCEPT ![p] = next[p] + 1]
      BY <2>4 DEF Pass
    <3>3. CASE q = p
      <4>1. next'[q] = next[q] + 1
        BY <1>0, <3>2, <3>3 DEF Types
      <4> QED BY <1>0, <2>4, <3>1, <3>3, <4>1 DEF Pass
    <3>4. CASE q # p
      <4>1. next'[q] = next[q]
        BY <1>0, <3>2, <3>4 DEF Types
      <4> QED BY <1>0, <2>4, <4>1 DEF Pass
    <3> QED BY <3>3, <3>4
  <2>5. CASE Fallback(p)
    <3>1. next[p] \in Nat /\ next[q] \in Nat /\ next[p] \in Pictures
      BY <1>0, <2>5 DEF Types, Fallback
    <3>2. /\ next' = [next EXCEPT ![p] = next[p] + 1]
          /\ stage' = [stage EXCEPT ![p] = [stage[p] EXCEPT ![next[p]] = "queued"]]
      BY <2>5 DEF Fallback
    <3>3. CASE q = p
      <4>1. next'[q] = next[q] + 1
        BY <1>0, <3>2, <3>3 DEF Types
      <4>2. CASE k = next[p]
        <5>1. stage'[q][k] = "queued"
          BY <1>0, <3>2, <3>3, <4>2 DEF Types
        <5> QED BY <1>0, <2>5, <3>1, <3>3, <4>1, <4>2, <5>1 DEF Fallback
      <4>3. CASE k # next[p]
        <5>1. stage'[q][k] = stage[q][k]
          BY <1>0, <3>2, <3>3, <4>3 DEF Types
        <5> QED BY <1>0, <2>5, <3>1, <3>3, <4>1, <4>3, <5>1 DEF Fallback
      <4> QED BY <4>2, <4>3
    <3>4. CASE q # p
      <4>1. next'[q] = next[q] /\ stage'[q] = stage[q]
        BY <1>0, <3>2, <3>4 DEF Types
      <4> QED BY <1>0, <2>5, <4>1 DEF Fallback
    <3> QED BY <3>3, <3>4
  <2>6. CASE SerializeRaises(p)
    <3>1. \A i \in Pictures : stage[p][i] = "idle"
      BY <1>0, <2>6 DEF SerializeRaises, AllIdle, In, Types, Stages
    <3> QED BY <1>0, <2>6, <3>1 DEF Types, SerializeRaises
  <2>7. CASE Finish(p)
    <3>1. \A i \in Pictures : stage[p][i] = "idle"
      BY <1>0, <2>7 DEF Finish, AllIdle, In, Types, Stages
    <3> QED BY <1>0, <2>7, <3>1 DEF Types, Finish
  <2> HIDE DEF CallInv
  <2> QED BY <1>2, <2>1, <2>2, <2>3, <2>4, <2>5, <2>6, <2>7 DEF DocumentStep
<1>3. CASE UNCHANGED vars
  BY <1>0, <1>3 DEF vars
<1> QED BY <1>1, <1>2, <1>3 DEF Next, Stopped

-----------------------------------------------------------------------------
(* What each call has sent. *)
LEMMA PostInvStep ==
  ASSUME IInv, [Next]_vars, NEW q \in Processes, NEW k \in Pictures
  PROVE  PostInv(q, k)'
<1>0. /\ Types /\ PostInv(q, k) /\ CallInv(q, k)
      /\ calls[q][k] \in Nat /\ posts[q][k] \in Nat /\ attempt[q][k] \in 0..MaxRetries
  BY DEF IInv, Types
<1>1. /\ calls[q][k] >= 1 => /\ Quota(calls[q][k] - 1) \in Nat
                             /\ Quota(calls[q][k]) = Quota(calls[q][k] - 1) + MaxRetries + 1
      /\ Quota(calls[q][k]) \in Nat
      /\ calls[q][k] + 1 - 1 = calls[q][k]
      /\ Quota(calls[q][k] + 1) = Quota(calls[q][k]) + MaxRetries + 1
  BY <1>0, QuotaFacts, QuotaLast
<1>2. MaxRetries \in Nat
  BY CaptionParameters
<1> HIDE DEF Quota
<1> USE DEF PostInv, Busy, Becomes, Moves, Release
<1>3. ASSUME UNCHANGED <<stage[q][k], calls[q][k], posts[q][k], attempt[q][k]>>
      PROVE  PostInv(q, k)'
  BY <1>0, <1>3
<1>4. ASSUME NEW p \in Processes, NEW i \in Pictures, CallStep(p, i) PROVE PostInv(q, k)'
  <2>1. CASE <<q, k>> # <<p, i>>
    <3>1. UNCHANGED <<stage[q][k], calls[q][k], posts[q][k], attempt[q][k]>>
      BY <1>0, <1>4, <2>1 DEF CallStep, Call, CallUnprepared, Acquire, Caption, GiveUp,
                              BackOff, Retry, Types
    <3> QED BY <1>3, <3>1
  <2>2. CASE q = p /\ k = i
    <3>1. CASE Call(p, i)
      <4>1. /\ stage'[q][k] = "waiting" /\ attempt'[q][k] = 0
            /\ calls'[q][k] = calls[q][k] + 1 /\ posts'[q][k] = posts[q][k]
            /\ stage[q][k] = "queued"
        BY <1>0, <2>2, <3>1 DEF Call, Runnable, Types
      <4> QED BY <1>0, <1>1, <4>1
    <3>2. CASE CallUnprepared(p, i)
      <4>1. /\ stage'[q][k] = "idle" /\ stage[q][k] = "queued"
            /\ calls'[q][k] = calls[q][k] + 1 /\ posts'[q][k] = posts[q][k]
        BY <1>0, <2>2, <3>2 DEF CallUnprepared, Runnable, Types
      <4> QED BY <1>0, <1>1, <1>2, <4>1
    <3>3. CASE Acquire(p, i)
      <4>1. /\ stage[q][k] = "waiting" /\ stage'[q][k] = "posting"
            /\ UNCHANGED <<attempt, calls>> /\ posts'[q][k] = posts[q][k] + 1
        BY <1>0, <2>2, <3>3 DEF Acquire, Types
      <4> QED BY <1>0, <1>1, <4>1
    <3>4. CASE Caption(p, i) \/ GiveUp(p, i)
      <4>1. /\ stage[q][k] = "posting" /\ stage'[q][k] = "idle"
            /\ UNCHANGED <<attempt, calls, posts>>
        BY <1>0, <2>2, <3>4 DEF Caption, GiveUp, Types
      <4> QED BY <1>0, <1>1, <1>2, <4>1
    <3>5. CASE BackOff(p, i)
      <4>1. /\ stage[q][k] = "posting" /\ stage'[q][k] = "backoff"
            /\ attempt'[q][k] = attempt[q][k] + 1 /\ UNCHANGED <<calls, posts>>
        BY <1>0, <2>2, <3>5 DEF BackOff, Types
      <4> QED BY <1>0, <1>1, <4>1
    <3>6. CASE Retry(p, i)
      <4>1. /\ stage[q][k] = "backoff" /\ stage'[q][k] = "posting"
            /\ posts'[q][k] = posts[q][k] + 1 /\ UNCHANGED <<attempt, calls>>
        BY <1>0, <2>2, <3>6 DEF Retry, Types
      <4> QED BY <1>0, <1>1, <4>1
    <3> HIDE DEF PostInv
    <3> QED BY <1>4, <3>1, <3>2, <3>3, <3>4, <3>5, <3>6 DEF CallStep
  <2> QED BY <2>1, <2>2
<1>5. ASSUME NEW p \in Processes, DocumentStep(p) PROVE PostInv(q, k)'
  <2>1. UNCHANGED <<calls, posts, attempt>>
    BY <1>5 DEF DocumentStep, Prefetch, PrefetchRaises, Collect, Pass, Fallback,
                SerializeRaises, Finish
  <2>2. CASE Prefetch(p)
    <3>1. \/ stage'[q][k] = stage[q][k]
          \/ stage[q][k] = "idle" /\ stage'[q][k] \in {"queued", "idle"}
      <4>1. CASE q = p
        BY <1>0, <2>2, <4>1 DEF Prefetch, CallInv, Types
      <4>2. CASE q # p
        BY <1>0, <2>2, <4>2 DEF Prefetch, Types
      <4> QED BY <4>1, <4>2
    <3> QED BY <1>0, <2>1, <3>1
  <2>3. CASE Fallback(p)
    <3>1. stage[p][next[p]] = "idle" /\ next[p] \in Pictures
      BY <1>0, <2>3 DEF Fallback, AtPicture, AllIdle, In, Types, Stages, Valid
    <3>2. \/ stage'[q][k] = stage[q][k]
          \/ stage[q][k] = "idle" /\ stage'[q][k] = "queued"
      <4>1. stage' = [stage EXCEPT ![p] = [stage[p] EXCEPT ![next[p]] = "queued"]]
        BY <2>3 DEF Fallback
      <4>2. CASE q = p /\ k = next[p]
        BY <1>0, <3>1, <4>1, <4>2 DEF Types
      <4>3. CASE ~(q = p /\ k = next[p])
        BY <1>0, <3>1, <4>1, <4>3 DEF Types
      <4> QED BY <4>2, <4>3
    <3> QED BY <1>0, <2>1, <3>2
  <2>4. CASE UNCHANGED stage
    BY <1>3, <2>1, <2>4
  <2> HIDE DEF PostInv
  <2> QED BY <1>5, <2>2, <2>3, <2>4
          DEF DocumentStep, PrefetchRaises, Collect, Pass, SerializeRaises, Finish
<1>6. CASE UNCHANGED vars
  BY <1>3, <1>6 DEF vars
<1> HIDE DEF PostInv
<1> QED BY <1>4, <1>5, <1>6 DEF Next, Stopped

-----------------------------------------------------------------------------
(* No more calls in progress than threads; one at a time in the serializer.  *)
LEMMA WidthStep ==
  ASSUME IInv, [Next]_vars, NEW q \in Processes PROVE WidthInv(q)'
<1>0. Types /\ WidthInv(q) /\ Width(q) \in Nat
  BY WidthType DEF IInv
<1>1. IsFiniteSet(In(q, Busy)) /\ Cardinality(In(q, Busy)) \in Nat
  BY InFinite
<1>2. Width(q)' = Width(q)
  <2>1. limit' = limit /\ damage' = damage
    BY DEF Next, DocumentStep, CallStep, Stopped, vars, Prefetch, PrefetchRaises, Collect, Pass,
           Fallback, SerializeRaises, Finish, Call, CallUnprepared, Acquire, Caption, GiveUp,
           BackOff, Retry
  <2> QED BY <2>1 DEF Width, Valid
<1>3. ASSUME phase'[q] = phase[q], In(q, Busy)' \subseteq In(q, Busy) PROVE WidthInv(q)'
  <2>1. Cardinality(In(q, Busy)') <= Cardinality(In(q, Busy)) /\ Cardinality(In(q, Busy)') \in Nat
    BY <1>1, <1>3, FS_Subset, FS_CardinalityType
  <2> QED BY <1>0, <1>1, <1>2, <1>3, <2>1 DEF WidthInv
<1>4. ASSUME NEW p \in Processes, NEW i \in Pictures, CallStep(p, i) PROVE WidthInv(q)'
  <2>1. phase' = phase
    BY <1>4 DEF CallStep, Call, CallUnprepared, Acquire, Caption, GiveUp, BackOff, Retry
  <2>2. CASE Call(p, i) /\ q = p
    <3>1. In(q, Busy)' = In(q, Busy) \cup {i}
      BY <1>0, <2>2, InMoved DEF Call, Busy
    <3>2. /\ Cardinality(In(q, Busy)') <= Cardinality(In(q, Busy)) + 1
          /\ Cardinality(In(q, Busy)') \in Nat
      <4>1. CASE i \in In(q, Busy)
        <5>1. In(q, Busy)' = In(q, Busy)
          BY <3>1, <4>1
        <5> QED BY <1>1, <5>1
      <4>2. CASE i \notin In(q, Busy)
        <5>1. Cardinality(In(q, Busy)') = Cardinality(In(q, Busy)) + 1
          BY <1>1, <3>1, <4>2, FS_AddElement
        <5> QED BY <1>1, <5>1
      <4> QED BY <4>1, <4>2
    <3>3. phase[q] = "prefetch" => Cardinality(In(q, Busy)) < Width(q)
      BY <2>2 DEF Call, Runnable, Busy
    <3> QED BY <1>0, <1>1, <1>2, <2>1, <3>2, <3>3 DEF WidthInv
  <2>3. CASE ~(Call(p, i) /\ q = p)
    <3>1. In(q, Busy)' \subseteq In(q, Busy)
      BY <1>0, <1>4, <2>3 DEF CallStep, Call, CallUnprepared, Acquire, Caption, GiveUp, BackOff,
           Retry, Release, Becomes, Types, In, Busy
    <3> QED BY <1>3, <2>1, <3>1
  <2> QED BY <2>2, <2>3
<1>5. ASSUME NEW p \in Processes, DocumentStep(p) PROVE WidthInv(q)'
  <2>1. CASE Prefetch(p) /\ q = p
    <3>1. In(q, Busy)' = {}
      BY <1>0, <2>1 DEF Prefetch, Types, In, Busy
    <3> QED BY <1>0, <1>2, <3>1, FS_EmptySet DEF WidthInv
  <2>2. CASE phase'[q] # "prefetch"
    BY <2>2 DEF WidthInv
  <2>3. CASE ~(Prefetch(p) /\ q = p) /\ phase'[q] = "prefetch"
    <3>1. phase'[q] = phase[q] /\ stage'[q] = stage[q]
      BY <1>0, <1>5, <2>3
         DEF DocumentStep, Prefetch, PrefetchRaises, Collect, Pass, Fallback, SerializeRaises,
             Finish, AtPicture, Moves, Becomes, Types
    <3>2. In(q, Busy)' = In(q, Busy)
      BY <3>1 DEF In
    <3> QED BY <1>3, <3>1, <3>2
  <2> QED BY <2>1, <2>2, <2>3
<1>6. CASE UNCHANGED vars
  BY <1>3, <1>6, InSame DEF vars
<1> QED BY <1>4, <1>5, <1>6 DEF Next, Stopped

LEMMA SerialStep ==
  ASSUME IInv, [Next]_vars, NEW q \in Processes PROVE SerialInv(q)'
<1>0. Types /\ SerialInv(q)
  BY DEF IInv
<1> USE DEF SerialInv
<1>1. ASSUME NEW p \in Processes, NEW i \in Pictures, CallStep(p, i) PROVE SerialInv(q)'
  <2>1. phase' = phase /\ stage[p][i] # "idle"
    BY <1>1 DEF CallStep, Call, CallUnprepared, Acquire, Caption, GiveUp, BackOff, Retry, Runnable
  <2>2. \A j \in Pictures : stage'[q][j] # "idle" => stage[q][j] # "idle"
    BY <1>0, <1>1, <2>1 DEF CallStep, Call, CallUnprepared, Acquire, Caption, GiveUp, BackOff,
         Retry, Release, Becomes, Types
  <2> QED BY <1>0, <2>1, <2>2
<1>2. ASSUME NEW p \in Processes, DocumentStep(p) PROVE SerialInv(q)'
  <2>1. CASE Fallback(p) /\ q = p
    <3>1. \A j \in Pictures : stage[p][j] = "idle"
      BY <1>0, <2>1 DEF Fallback, AtPicture, AllIdle, In, Types, Stages
    <3> QED BY <1>0, <2>1, <3>1 DEF Fallback, Becomes, Types
  <2>2. CASE Collect(p) /\ q = p
    <3>1. \A j \in Pictures : stage'[p][j] = "idle"
      BY <1>0, <2>2 DEF Collect, AllIdle, In, Types, Stages
    <3> QED BY <2>2, <3>1
  <2>3. CASE phase'[q] # "serialize"
    BY <2>3
  <2>4. CASE ~(Fallback(p) /\ q = p) /\ ~(Collect(p) /\ q = p) /\ phase'[q] = "serialize"
    <3>1. phase'[q] = phase[q] /\ stage'[q] = stage[q]
      BY <1>0, <1>2, <2>4
         DEF DocumentStep, Prefetch, PrefetchRaises, Collect, Pass, Fallback, SerializeRaises,
             Finish, AtPicture, Moves, Becomes, Types
    <3> QED BY <1>0, <3>1
  <2> QED BY <2>1, <2>2, <2>3, <2>4
<1>3. CASE UNCHANGED vars
  BY <1>0, <1>3 DEF vars
<1> HIDE DEF SerialInv
<1> QED BY <1>1, <1>2, <1>3 DEF Next, Stopped

LEMMA StepIInv == IInv /\ [Next]_vars => IInv'
BY TypesStep, PermitStep, WidthStep, SerialStep, CallInvStep, PostInvStep DEF IInv

-----------------------------------------------------------------------------
LEMMA PermitsFree ==
  ASSUME IInv PROVE NobodyWaitsForAPermit
<1> SUFFICES ASSUME NEW p \in Processes, limit[p] > 0, NEW i \in In(p, {"waiting"})
             PROVE  permits[p] > 0
  BY DEF NobodyWaitsForAPermit
<1>1. /\ Types /\ PermitInv(p) /\ WidthInv(p) /\ SerialInv(p) /\ CallInv(p, i)
      /\ i \in Pictures /\ stage[p][i] = "waiting"
      /\ permits[p] \in Nat /\ limit[p] \in Nat
  BY CaptionParameters DEF IInv, Types, In
<1>2. /\ IsFiniteSet(In(p, Holding)) /\ Cardinality(In(p, Holding)) \in Nat
      /\ IsFiniteSet(In(p, Busy)) /\ Cardinality(In(p, Busy)) \in Nat
  BY InFinite
<1>3. In(p, Holding) \cup {i} \subseteq In(p, Busy) /\ i \notin In(p, Holding)
  BY <1>1 DEF In, Holding, Busy
<1>4. Cardinality(In(p, Holding)) + 1 <= Cardinality(In(p, Busy))
  <2>1. Cardinality(In(p, Holding) \cup {i}) = Cardinality(In(p, Holding)) + 1
    BY <1>2, <1>3, FS_AddElement
  <2>2. Cardinality(In(p, Holding) \cup {i}) <= Cardinality(In(p, Busy))
    BY <1>2, <1>3, FS_Subset
  <2> QED BY <2>1, <2>2
<1>5. Cardinality(In(p, Busy)) <= limit[p]
  <2>1. CASE phase[p] = "prefetch"
    BY <1>1, <1>2, <2>1, WidthType DEF WidthInv
  <2>2. CASE phase[p] = "serialize"
    <3>1. In(p, Busy) = {i}
      BY <1>1, <2>2 DEF SerialInv, In, Busy
    <3> QED BY <1>1, <3>1, FS_Singleton
  <2> QED BY <1>1, <2>1, <2>2 DEF CallInv
<1> QED BY <1>1, <1>2, <1>4, <1>5 DEF PermitInv

LEMMA TypesSeen == IInv => TypeOK
<1> SUFFICES ASSUME IInv PROVE TypeOK
  OBVIOUS
<1>1. ASSUME NEW p \in Processes PROVE permits[p] \in 0..limit[p]
  <2>1. /\ permits[p] \in Nat /\ limit[p] \in Nat /\ PermitInv(p)
        /\ Cardinality(In(p, Holding)) \in Nat
    BY CaptionParameters, InFinite DEF IInv, Types
  <2> QED BY <2>1 DEF PermitInv
<1>2. ASSUME NEW p \in Processes PROVE captions[p] \subseteq Valid(p)
  BY DEF IInv, Types, CallInv
<1> QED BY <1>1, <1>2 DEF IInv, Types, TypeOK

(* A permit is held exactly while a request or the pause before its retry is *)
(* under way, and no call waits for one, whatever fails.                      *)
THEOREM PermitsCorrect == Spec => [](TypeOK /\ PermitsMatchCalls /\ NobodyWaitsForAPermit)
<1>1. IInv => PermitsMatchCalls
  BY DEF IInv, PermitInv, PermitsMatchCalls, Holding
<1> QED BY InitIInv, StepIInv, PermitsFree, TypesSeen, <1>1, PTL DEF Spec

(* Two calls of MaxRetries + 1 requests at most for a picture, and as many    *)
(* as two before it is left without a caption.                                *)
THEOREM RequestsCorrect == Spec => [](RequestsAreBounded /\ UncaptionedWasAskedTwice)
<1>1. IInv => RequestsAreBounded
  <2> SUFFICES ASSUME IInv, NEW p \in Processes, NEW i \in Pictures
               PROVE  calls[p][i] <= 2 /\ posts[p][i] <= Quota(calls[p][i])
    BY DEF RequestsAreBounded, Quota
  <2>1. /\ Types /\ CallInv(p, i) /\ PostInv(p, i)
        /\ calls[p][i] \in Nat /\ posts[p][i] \in Nat /\ attempt[p][i] \in 0..MaxRetries
    BY DEF IInv, Types
  <2>2. calls[p][i] >= 1 => /\ Quota(calls[p][i] - 1) \in Nat
                            /\ Quota(calls[p][i]) = Quota(calls[p][i] - 1) + MaxRetries + 1
    BY <2>1, QuotaLast
  <2>3. MaxRetries \in Nat
    BY CaptionParameters
  <2> HIDE DEF Quota
  <2> QED BY <2>1, <2>2, <2>3 DEF CallInv, PostInv, Busy
<1>2. IInv => UncaptionedWasAskedTwice
  BY DEF IInv, CallInv, UncaptionedWasAskedTwice, Valid
<1> QED BY InitIInv, StepIInv, <1>1, <1>2, PTL DEF Spec

(* No request is sent for a picture that has its caption.                    *)
THEOREM CaptionedLeftAlone == Spec => CaptionedIsNotAskedAgain
<1>1. IInv /\ [Next]_vars =>
        [\A p \in Processes : \A i \in captions[p] : posts'[p][i] = posts[p][i]]_vars
  <2> SUFFICES ASSUME IInv, Next, NEW q \in Processes, NEW k \in captions[q]
               PROVE  posts'[q][k] = posts[q][k]
    OBVIOUS
  <2>1. Types /\ k \in Pictures /\ stage[q][k] = "idle"
    BY DEF IInv, Types, CallInv
  <2>2. ASSUME NEW p \in Processes, NEW i \in Pictures, CallStep(p, i)
        PROVE  posts'[q][k] = posts[q][k]
    <3>1. CASE Acquire(p, i) \/ Retry(p, i)
      <4>1. posts' = [posts EXCEPT ![p] = [posts[p] EXCEPT ![i] = @ + 1]] /\ stage[p][i] # "idle"
        BY <3>1 DEF Acquire, Retry
      <4>2. CASE q = p
        <5>1. i # k
          BY <2>1, <4>1, <4>2
        <5> QED BY <2>1, <4>1, <4>2, <5>1 DEF Types
      <4>3. CASE q # p
        <5>1. posts'[q] = posts[q]
          BY <2>1, <4>1, <4>3 DEF Types
        <5> QED BY <5>1
      <4> QED BY <4>2, <4>3
    <3>2. CASE UNCHANGED posts
      BY <3>2
    <3> QED BY <2>2, <3>1, <3>2 DEF CallStep, Call, CallUnprepared, Caption, GiveUp, BackOff
  <2>3. ASSUME NEW p \in Processes, DocumentStep(p) PROVE posts' = posts
    BY <2>3 DEF DocumentStep, Prefetch, PrefetchRaises, Collect, Pass, Fallback,
                SerializeRaises, Finish
  <2> QED BY <2>2, <2>3 DEF Next, Stopped, vars
<1> QED BY InitIInv, StepIInv, <1>1, PTL DEF Spec, CaptionedIsNotAskedAgain
=============================================================================
