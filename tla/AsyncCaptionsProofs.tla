------------------------- MODULE AsyncCaptionsProofs -------------------------
(***************************************************************************)
(* The permits of AsyncCaptions, for any calls, arguments and threads.      *)
(***************************************************************************)
EXTENDS AsyncCaptions, FiniteSetTheorems, TLAPS

(* A call waits for one job at a time, and the queue holds each once. *)
JobInv ==
  /\ \A c \in Calls : stage[c] \in {"idle", "posting", "pausing"} => job[c] = "none"
  /\ \A i \in 1..Len(queue) : job[queue[i]] = "queued" \/ (stage[queue[i]] = "cancelled" /\ job[queue[i]] = "none")
  /\ \A i, j \in 1..Len(queue) : queue[i] = queue[j] => i = j

IInv == TypeOK /\ JobInv /\ PermitsAccounted

-----------------------------------------------------------------------------
LEMMA KeyFacts ==
  ASSUME TypeOK, NEW c \in Calls
  PROVE  Key(args[c]) \in Keys /\ Key(args[c])[3] = args[c].limit
BY DEF TypeOK, Keys, Key

LEMMA LimitsAreNat == \A k \in Keys : k[3] \in Nat
BY CallParameters DEF Keys, Key

LEMMA OwnersFinite ==
  ASSUME NEW k
  PROVE  IsFiniteSet(Owners(k)) /\ Cardinality(Owners(k)) \in Nat
<1>1. Owners(k) \subseteq Calls
  BY DEF Owners
<1> QED BY <1>1, CallParameters, FS_Subset, FS_CardinalityType

LEMMA InitIInv == Init => IInv
<1> SUFFICES ASSUME Init PROVE IInv
  OBVIOUS
<1>1. TypeOK
  <2>1. args \in [Calls -> Args]
    BY CallParameters DEF Init
  <2> QED
    BY <2>1, CallParameters, LimitsAreNat DEF Init, TypeOK
<1>2. JobInv
  BY DEF Init, JobInv
<1>3. ASSUME NEW k \in Keys PROVE value[k] + Cardinality(Owners(k)) = k[3]
  <2>1. Owners(k) = {}
    BY DEF Init, Owners
  <2> QED
    BY <2>1, LimitsAreNat, FS_EmptySet DEF Init
<1> QED
  BY <1>1, <1>2, <1>3 DEF IInv, PermitsAccounted

-----------------------------------------------------------------------------
LEMMA TypeStep == TypeOK /\ [Next]_vars => TypeOK'
<1> SUFFICES ASSUME TypeOK, [Next]_vars PROVE TypeOK'
  OBVIOUS
<1>1. CASE Dequeue
  BY <1>1 DEF Dequeue, TypeOK
<1>2. ASSUME NEW c \in Calls, Start(c) PROVE TypeOK'
  BY <1>2 DEF Start, ToThread, Becomes, Works, TypeOK
<1>3. ASSUME NEW c \in Calls, Encoded(c) PROVE TypeOK'
  BY <1>3 DEF Encoded, ToThread, Becomes, Works, TypeOK
<1>4. ASSUME NEW c \in Calls, EncodeFails(c) PROVE TypeOK'
  BY <1>4 DEF EncodeFails, Becomes, Works, TypeOK
<1>5. ASSUME NEW c \in Calls, EncodedForNobody(c) PROVE TypeOK'
  BY <1>5 DEF EncodedForNobody, Works, TypeOK
<1>6. ASSUME NEW c \in Calls, Acquire(c) PROVE TypeOK'
  <2>1. Key(args[c]) \in Keys
    BY KeyFacts
  <2>2. value' \in [Keys -> Nat]
    BY <1>6, <2>1 DEF Acquire, TypeOK
  <2> QED
    BY <1>6, <2>2 DEF Acquire, Works, TypeOK
<1>7. ASSUME NEW c \in Calls, Acquired(c) PROVE TypeOK'
  BY <1>7 DEF Acquired, Becomes, Works, TypeOK
<1>8. ASSUME NEW c \in Calls, Release(c) PROVE value' \in [Keys -> Nat]
  BY <1>8, KeyFacts DEF Release, TypeOK
<1>9. ASSUME NEW c \in Calls, Answered(c) \/ Refused(c) \/ GiveUp(c) PROVE TypeOK'
  <2>1. outcome' \in [Calls -> {"none", "caption", "unread", "refused"}]
    BY <1>9 DEF Answered, Refused, GiveUp, TypeOK
  <2>2. End(c)
    BY <1>9 DEF Answered, Refused, GiveUp
  <2> QED
    BY <1>8, <2>1, <2>2 DEF End, Becomes, TypeOK
<1>10. ASSUME NEW c \in Calls, BackOff(c) PROVE TypeOK'
  BY <1>10, CallParameters DEF BackOff, Becomes, TypeOK
<1>11. ASSUME NEW c \in Calls, Retry(c) PROVE TypeOK'
  BY <1>11 DEF Retry, Becomes, TypeOK
<1>12. ASSUME NEW c \in Calls, CancelWaiting(c) PROVE TypeOK'
  BY <1>12 DEF CancelWaiting, Becomes, TypeOK
<1>13. ASSUME NEW c \in Calls, CancelAsking(c) PROVE TypeOK'
  BY <1>8, <1>13 DEF CancelAsking, Becomes, TypeOK
<1>14. CASE UNCHANGED vars
  BY <1>14 DEF vars, TypeOK
<1> QED
  BY <1>1, <1>2, <1>3, <1>4, <1>5, <1>6, <1>7, <1>9, <1>10, <1>11, <1>12, <1>13, <1>14
     DEF Next, CallStep, Stopped

LEMMA EndStep == ASSUME NEW c \in Calls, Answered(c) \/ Refused(c) \/ GiveUp(c) PROVE End(c)
BY DEF Answered, Refused, GiveUp

LEMMA JobStep == TypeOK /\ JobInv /\ [Next]_vars => JobInv'
<1> SUFFICES ASSUME TypeOK, JobInv, [Next]_vars PROVE JobInv'
  OBVIOUS
<1>0. queue \in Seq(Calls)
  BY DEF TypeOK
<1>1. CASE Dequeue
  <2>1. /\ Len(queue) \in Nat \ {0} /\ Len(queue') = Len(queue) - 1
        /\ \A i \in 1..Len(queue') : queue'[i] = queue[i + 1]
        /\ Head(queue) = queue[1] /\ queue[1] \in Calls
    BY <1>0, <1>1 DEF Dequeue
  <2>2. \A i \in 1..Len(queue') : i + 1 \in 1..Len(queue) /\ queue'[i] # queue[1]
    BY <2>1 DEF JobInv
  <2>3. \A c \in Calls : c # queue[1] => job'[c] = job[c]
    BY <1>1, <2>1 DEF Dequeue, TypeOK
  <2>4. stage' = stage /\ (stage[queue[1]] \in {"idle", "posting", "pausing"} => job'[queue[1]] = job[queue[1]])
    BY <1>1, <2>1 DEF Dequeue, TypeOK
  <2>5. \A c \in Calls : stage'[c] \in {"idle", "posting", "pausing"} => job'[c] = "none"
    BY <2>1, <2>3, <2>4 DEF JobInv
  <2>6. \A i \in 1..Len(queue') : job'[queue'[i]] = "queued" \/ (stage'[queue'[i]] = "cancelled" /\ job'[queue'[i]] = "none")
    <3>1. ASSUME NEW i \in 1..Len(queue')
          PROVE  job'[queue'[i]] = "queued" \/ (stage'[queue'[i]] = "cancelled" /\ job'[queue'[i]] = "none")
      <4>1. i + 1 \in 1..Len(queue) /\ queue'[i] = queue[i + 1] /\ queue[i + 1] # queue[1]
        BY <2>1, <2>2
      <4>2. queue[i + 1] \in Calls
        BY <1>0, <4>1
      <4>3. job'[queue[i + 1]] = job[queue[i + 1]] /\ stage' = stage
        BY <2>3, <2>4, <4>1, <4>2
      <4>4. job[queue[i + 1]] = "queued" \/ (stage[queue[i + 1]] = "cancelled" /\ job[queue[i + 1]] = "none")
        BY <4>1 DEF JobInv
      <4> QED
        BY <4>1, <4>3, <4>4
    <3> QED
      BY <3>1
  <2>7. \A i, j \in 1..Len(queue') : queue'[i] = queue'[j] => i = j
    <3>1. ASSUME NEW i \in 1..Len(queue'), NEW j \in 1..Len(queue'), queue'[i] = queue'[j]
          PROVE  i = j
      <4>1. i + 1 \in 1..Len(queue) /\ j + 1 \in 1..Len(queue) /\ queue[i + 1] = queue[j + 1]
        BY <2>1, <2>2, <3>1
      <4>2. i + 1 = j + 1
        BY <4>1 DEF JobInv
      <4> QED
        BY <4>2
    <3> QED
      BY <3>1
  <2> QED
    BY <2>5, <2>6, <2>7 DEF JobInv
<1>2. ASSUME NEW c \in Calls, NEW s \in {"encoding", "acquiring"}, ToThread(c, s),
             \/ job[c] = "encode"
             \/ stage[c] = "idle"
      PROVE  JobInv'
  <2>1. /\ Len(queue) \in Nat /\ Len(queue') = Len(queue) + 1
        /\ \A i \in 1..Len(queue) : queue'[i] = queue[i] /\ queue[i] \in Calls
        /\ queue'[Len(queue) + 1] = c
    BY <1>0, <1>2 DEF ToThread
  <2>2. \A i \in 1..Len(queue) : queue[i] # c
    BY <1>2 DEF JobInv
  <2>3. stage' = [stage EXCEPT ![c] = s] /\ job' = [job EXCEPT ![c] = "queued"]
    BY <1>2 DEF ToThread, Becomes, Works
  <2>4. /\ stage'[c] = s /\ job'[c] = "queued"
        /\ \A d \in Calls : d # c => stage'[d] = stage[d] /\ job'[d] = job[d]
    BY <2>3 DEF TypeOK
  <2>5. \A d \in Calls : stage'[d] \in {"idle", "posting", "pausing"} => job'[d] = "none"
    BY <1>2, <2>4 DEF JobInv
  <2>6. \A i \in 1..Len(queue') : i \in 1..Len(queue) \/ i = Len(queue) + 1
    BY <2>1
  <2>7. \A i \in 1..Len(queue') : job'[queue'[i]] = "queued" \/ (stage'[queue'[i]] = "cancelled" /\ job'[queue'[i]] = "none")
    <3>1. ASSUME NEW i \in 1..Len(queue)
          PROVE  job'[queue'[i]] = "queued" \/ (stage'[queue'[i]] = "cancelled" /\ job'[queue'[i]] = "none")
      <4>1. queue'[i] = queue[i] /\ job'[queue[i]] = job[queue[i]] /\ stage'[queue[i]] = stage[queue[i]]
        BY <2>1, <2>2, <2>4
      <4> QED
        BY <4>1 DEF JobInv
    <3>2. job'[queue'[Len(queue) + 1]] = "queued"
      BY <2>1, <2>4
    <3>3. ASSUME NEW i \in 1..Len(queue')
          PROVE  job'[queue'[i]] = "queued" \/ (stage'[queue'[i]] = "cancelled" /\ job'[queue'[i]] = "none")
      <4>1. CASE i \in 1..Len(queue)
        BY <3>1, <4>1
      <4>2. CASE i = Len(queue) + 1
        BY <3>2, <4>2
      <4> QED
        BY <2>6, <4>1, <4>2
    <3> QED
      BY <3>3
  <2>8. \A i, j \in 1..Len(queue') : queue'[i] = queue'[j] => i = j
    BY <2>1, <2>2, <2>6 DEF JobInv
  <2> QED
    BY <2>5, <2>7, <2>8 DEF JobInv
<1>3. ASSUME NEW c \in Calls, Start(c) PROVE JobInv'
  BY <1>2, <1>3 DEF Start
<1>4. ASSUME NEW c \in Calls, Encoded(c) PROVE JobInv'
  BY <1>2, <1>4 DEF Encoded
<1>5. ASSUME NEW c \in Calls, EncodeFails(c) \/ EncodedForNobody(c) \/ Acquire(c) \/ Acquired(c) PROVE JobInv'
  <2>1. \A i \in 1..Len(queue) : queue[i] # c /\ queue[i] \in Calls
    BY <1>0, <1>5 DEF JobInv, EncodeFails, EncodedForNobody, Acquire, Acquired
  <2>2. /\ queue' = queue
        /\ \A d \in Calls : d # c => stage'[d] = stage[d] /\ job'[d] = job[d]
        /\ stage'[c] \in {"idle", "posting", "pausing"} => job'[c] = "none"
    BY <1>5 DEF EncodeFails, EncodedForNobody, Acquire, Acquired, Becomes, Works, TypeOK, JobInv
  <2> QED
    BY <2>1, <2>2 DEF JobInv
<1>6. ASSUME NEW c \in Calls, End(c) \/ BackOff(c) \/ Retry(c) \/ CancelAsking(c) PROVE JobInv'
  <2>1. \A i \in 1..Len(queue) : queue[i] # c /\ queue[i] \in Calls
    BY <1>0, <1>6 DEF JobInv, End, BackOff, Retry, CancelAsking
  <2>2. /\ queue' = queue /\ job' = job /\ job[c] = "none"
        /\ \A d \in Calls : d # c => stage'[d] = stage[d]
    BY <1>6 DEF End, BackOff, Retry, CancelAsking, Becomes, TypeOK, JobInv
  <2> QED
    BY <2>1, <2>2 DEF JobInv
<1>7. ASSUME NEW c \in Calls, CancelWaiting(c) PROVE JobInv'
  <2>1. \A i \in 1..Len(queue) : queue[i] \in Calls
    BY <1>0
  <2>2. /\ queue' = queue /\ stage'[c] = "cancelled"
        /\ job[c] = "queued" => job'[c] = "none"
        /\ job[c] # "queued" => job'[c] = job[c]
        /\ \A d \in Calls : d # c => stage'[d] = stage[d] /\ job'[d] = job[d]
    BY <1>7 DEF CancelWaiting, Becomes, TypeOK
  <2> QED
    BY <2>1, <2>2 DEF JobInv
<1>8. CASE UNCHANGED vars
  BY <1>8 DEF vars, JobInv
<1> QED
  BY <1>1, <1>3, <1>4, <1>5, <1>6, <1>7, <1>8, EndStep DEF Next, CallStep, Stopped

-----------------------------------------------------------------------------
LEMMA PermitStep == IInv /\ [Next]_vars => PermitsAccounted'
<1> SUFFICES ASSUME IInv, [Next]_vars PROVE PermitsAccounted'
  OBVIOUS
<1>0. TypeOK /\ JobInv /\ PermitsAccounted
  BY DEF IInv
<1> DEFINE Owner(c) == stage[c] \in {"posting", "pausing"} \/ job[c] = "granted"
<1>1. ASSUME args' = args, value' = value, \A d \in Calls : Owner(d)' <=> Owner(d)
      PROVE  PermitsAccounted'
  <2>1. \A k \in Keys : Owners(k)' = Owners(k)
    BY <1>1 DEF Owners
  <2> QED
    BY <1>0, <1>1, <2>1 DEF PermitsAccounted
<1>2. ASSUME NEW c \in Calls, args' = args, ~Owner(c), Owner(c)', value[Key(args[c])] > 0,
             value' = [value EXCEPT ![Key(args[c])] = @ - 1],
             \A d \in Calls : d # c => (Owner(d)' <=> Owner(d))
      PROVE  PermitsAccounted'
  <2>1. Owners(Key(args[c]))' = Owners(Key(args[c])) \cup {c} /\ c \notin Owners(Key(args[c]))
    BY <1>2 DEF Owners
  <2>2. Cardinality(Owners(Key(args[c]))') = Cardinality(Owners(Key(args[c]))) + 1
    BY <2>1, OwnersFinite, FS_AddElement
  <2>3. \A k \in Keys : k # Key(args[c]) => Owners(k)' = Owners(k)
    BY <1>2 DEF Owners
  <2>4. /\ value[Key(args[c])] \in Nat /\ value'[Key(args[c])] = value[Key(args[c])] - 1
        /\ \A k \in Keys : k # Key(args[c]) => value'[k] = value[k]
    BY <1>0, <1>2, KeyFacts DEF TypeOK
  <2>5. value'[Key(args[c])] + Cardinality(Owners(Key(args[c]))') = Key(args[c])[3]
    BY <1>0, <2>2, <2>4, KeyFacts, OwnersFinite DEF PermitsAccounted
  <2> QED
    <3>1. ASSUME NEW k \in Keys PROVE value'[k] + Cardinality(Owners(k)') = k[3]
      <4>1. CASE k = Key(args[c])
        <5>1. Owners(k)' = Owners(Key(args[c]))'
          BY <1>2, <4>1 DEF Owners
        <5> QED
          BY <2>5, <4>1, <5>1
      <4>2. CASE k # Key(args[c])
        <5>1. Owners(k)' = Owners(k) /\ value'[k] = value[k]
          BY <2>3, <2>4, <4>2
        <5>2. value[k] + Cardinality(Owners(k)) = k[3]
          BY <1>0 DEF PermitsAccounted
        <5> QED
          BY <5>1, <5>2
      <4> QED
        BY <4>1, <4>2
    <3> QED
      BY <3>1 DEF PermitsAccounted
<1>3. ASSUME NEW c \in Calls, args' = args, Owner(c), ~Owner(c)', Release(c),
             \A d \in Calls : d # c => (Owner(d)' <=> Owner(d))
      PROVE  PermitsAccounted'
  <2>1. Owners(Key(args[c]))' = Owners(Key(args[c])) \ {c} /\ c \in Owners(Key(args[c]))
    BY <1>3 DEF Owners
  <2>2. Cardinality(Owners(Key(args[c]))') = Cardinality(Owners(Key(args[c]))) - 1
    BY <2>1, OwnersFinite, FS_RemoveElement
  <2>3. \A k \in Keys : k # Key(args[c]) => Owners(k)' = Owners(k)
    BY <1>3 DEF Owners
  <2>4. /\ value[Key(args[c])] \in Nat /\ value'[Key(args[c])] = value[Key(args[c])] + 1
        /\ \A k \in Keys : k # Key(args[c]) => value'[k] = value[k]
    BY <1>0, <1>3, KeyFacts DEF TypeOK, Release
  <2>5. value'[Key(args[c])] + Cardinality(Owners(Key(args[c]))') = Key(args[c])[3]
    BY <1>0, <2>2, <2>4, KeyFacts, OwnersFinite DEF PermitsAccounted
  <2> QED
    <3>1. ASSUME NEW k \in Keys PROVE value'[k] + Cardinality(Owners(k)') = k[3]
      <4>1. CASE k = Key(args[c])
        <5>1. Owners(k)' = Owners(Key(args[c]))'
          BY <1>3, <4>1 DEF Owners
        <5> QED
          BY <2>5, <4>1, <5>1
      <4>2. CASE k # Key(args[c])
        <5>1. Owners(k)' = Owners(k) /\ value'[k] = value[k]
          BY <2>3, <2>4, <4>2
        <5>2. value[k] + Cardinality(Owners(k)) = k[3]
          BY <1>0 DEF PermitsAccounted
        <5> QED
          BY <5>1, <5>2
      <4> QED
        BY <4>1, <4>2
    <3> QED
      BY <3>1 DEF PermitsAccounted
<1>4. CASE Dequeue
  <2>1. Head(queue) \in Calls /\ job[Head(queue)] # "granted"
    <3>1. queue \in Seq(Calls) /\ queue # <<>>
      BY <1>0, <1>4 DEF TypeOK, Dequeue
    <3>2. Head(queue) = queue[1] /\ 1 \in 1..Len(queue) /\ queue[1] \in Calls
      BY <3>1
    <3> QED
      BY <1>0, <3>2 DEF JobInv
  <2>2. \A d \in Calls : job'[d] = "granted" <=> job[d] = "granted"
    BY <1>0, <1>4, <2>1 DEF Dequeue, TypeOK
  <2>3. stage' = stage /\ args' = args /\ value' = value
    BY <1>4 DEF Dequeue
  <2> QED
    BY <1>1, <2>2, <2>3
<1>5. ASSUME NEW c \in Calls, Start(c) \/ Encoded(c) PROVE PermitsAccounted'
  <2>1. \A d \in Calls : Owner(d)' <=> Owner(d)
    BY <1>0, <1>5 DEF Start, Encoded, ToThread, Becomes, Works, TypeOK, JobInv
  <2> QED
    BY <1>1, <1>5, <2>1 DEF Start, Encoded
<1>6. ASSUME NEW c \in Calls, EncodeFails(c) \/ EncodedForNobody(c) PROVE PermitsAccounted'
  <2>1. \A d \in Calls : Owner(d)' <=> Owner(d)
    BY <1>0, <1>6 DEF EncodeFails, EncodedForNobody, Becomes, Works, TypeOK
  <2> QED
    BY <1>1, <1>6, <2>1 DEF EncodeFails, EncodedForNobody
<1>7. ASSUME NEW c \in Calls, Acquire(c) PROVE PermitsAccounted'
  <2>1. ~Owner(c) /\ Owner(c)' /\ \A d \in Calls : d # c => (Owner(d)' <=> Owner(d))
    BY <1>0, <1>7 DEF Acquire, Works, TypeOK, JobInv
  <2>2. /\ args' = args /\ value[Key(args[c])] > 0
        /\ value' = [value EXCEPT ![Key(args[c])] = @ - 1]
    BY <1>7 DEF Acquire
  <2> QED
    BY <1>2, <2>1, <2>2
<1>8. ASSUME NEW c \in Calls, Acquired(c) \/ BackOff(c) \/ Retry(c) \/ CancelWaiting(c) PROVE PermitsAccounted'
  <2>1. \A d \in Calls : Owner(d)' <=> Owner(d)
    BY <1>0, <1>8 DEF Acquired, BackOff, Retry, CancelWaiting, Becomes, Works, TypeOK
  <2> QED
    BY <1>1, <1>8, <2>1 DEF Acquired, BackOff, Retry, CancelWaiting
<1>9. ASSUME NEW c \in Calls, End(c) \/ CancelAsking(c) PROVE PermitsAccounted'
  <2>1. Owner(c) /\ ~Owner(c)' /\ \A d \in Calls : d # c => (Owner(d)' <=> Owner(d))
    BY <1>0, <1>9 DEF End, CancelAsking, Becomes, TypeOK, JobInv
  <2>2. args' = args /\ Release(c)
    BY <1>9 DEF End, CancelAsking
  <2> QED
    BY <1>3, <2>1, <2>2
<1>10. CASE UNCHANGED vars
  BY <1>1, <1>10 DEF vars
<1> QED
  BY <1>4, <1>5, <1>6, <1>7, <1>8, <1>9, <1>10, EndStep DEF Next, CallStep, Stopped

LEMMA Invariance == Spec => []IInv
<1>1. Init => IInv
  BY InitIInv
<1>2. IInv /\ [Next]_vars => IInv'
  BY TypeStep, JobStep, PermitStep DEF IInv
<1> QED
  BY <1>1, <1>2, PTL DEF Spec

(* The variables keep their types (generate_caption). *)
THEOREM CallTypes == Spec => []TypeOK
<1>1. IInv => TypeOK
  BY DEF IInv
<1> QED
  BY <1>1, Invariance, PTL

(* Whatever is cancelled and whenever: each permit of each semaphore is free, *)
(* with one call, or lost to one cancelled while it waited (the finally of    *)
(* generate_caption).                                                         *)
THEOREM PermitsOfCalls == Spec => []PermitsAccounted
<1>1. IInv => PermitsAccounted
  BY DEF IInv
<1> QED
  BY <1>1, Invariance, PTL

(* Calls that mean the same service and name the same limit keep it together *)
(* (get_semaphore's key).                                                    *)
THEOREM SharedLimit == Spec => []LimitIsKept
<1>1. ASSUME IInv PROVE LimitIsKept
  <2> SUFFICES ASSUME NEW c \in Calls
               PROVE  Cardinality({d \in Calls : stage[d] \in {"posting", "pausing"} /\ SameService(args[c], args[d])})
                        <= args[c].limit
    BY DEF LimitIsKept
  <2> DEFINE Same == {d \in Calls : stage[d] \in {"posting", "pausing"} /\ SameService(args[c], args[d])}
  <2>1. Same \subseteq Owners(Key(args[c]))
    BY DEF Owners, SameService, Key
  <2>2. Cardinality(Same) <= Cardinality(Owners(Key(args[c]))) /\ Cardinality(Same) \in Nat
    BY <2>1, OwnersFinite, FS_Subset, FS_CardinalityType
  <2>3. TypeOK /\ PermitsAccounted
    BY <1>1 DEF IInv
  <2>4. Key(args[c]) \in Keys /\ Key(args[c])[3] = args[c].limit
    BY <2>3, KeyFacts
  <2>5. value[Key(args[c])] \in Nat /\ args[c].limit \in Nat
    BY <2>3, <2>4, LimitsAreNat DEF TypeOK
  <2>6. Cardinality(Owners(Key(args[c]))) <= args[c].limit
    BY <2>3, <2>4, <2>5, OwnersFinite DEF PermitsAccounted
  <2> HIDE DEF Same
  <2>7. Cardinality(Same) <= args[c].limit
    BY <2>2, <2>5, <2>6, OwnersFinite
  <2> QED BY <2>7 DEF Same
<1> QED
  BY <1>1, Invariance, PTL

-----------------------------------------------------------------------------
(* Where no address was given, a service that may be there speaks the format   *)
(* the request is built in, and it is read in that format.                      *)
LEMMA TablesAgree ==
  ASSUME NEW a \in Args, a.endpoint \in {"", Local}
  PROVE  /\ Spoken(Endpoint(a)) \subseteq {Format(Provider(a))}
         /\ Reader(Provider(a)) = Format(Provider(a))
<1> DEFINE p == Provider(a)
<1>0. /\ "" # Local /\ "" # OpenAI /\ "" # Anthropic /\ "" # Google
      /\ Local # OpenAI /\ Local # Anthropic /\ Local # Google
      /\ OpenAI # Anthropic /\ OpenAI # Google /\ Anthropic # Google
  BY DEF Local, OpenAI, Anthropic, Google
<1>1. /\ Spoken("") = {} /\ Spoken(Local) = {"ollama"} /\ Spoken(OpenAI) = {"openai"}
      /\ Spoken(Anthropic) = {"anthropic"} /\ Spoken(Google) = {"google"}
  BY <1>0 DEF Spoken
<1> HIDE DEF p
<1>2. CASE p = "ollama"
  <2>1. Endpoint(a) = Local /\ Format(p) = "ollama" /\ Reader(p) = "ollama"
    BY <1>2 DEF Endpoint, Format, Reader, p
  <2> QED BY <1>1, <2>1 DEF p
<1>3. CASE p \in {"openai", "vllm", "llama.cpp"}
  <2>1. Endpoint(a) = OpenAI /\ Format(p) = "openai" /\ Reader(p) = "openai"
    BY <1>3 DEF Endpoint, Format, Reader, p
  <2> QED BY <1>1, <2>1 DEF p
<1>4. CASE p = "anthropic"
  <2>1. Endpoint(a) = Anthropic /\ Format(p) = "anthropic" /\ Reader(p) = "anthropic"
    BY <1>4 DEF Endpoint, Format, Reader, p
  <2> QED BY <1>1, <2>1 DEF p
<1>5. CASE p \in {"google", "gemini"}
  <2>1. Endpoint(a) = Google /\ Format(p) = "google" /\ Reader(p) = "google"
    BY <1>5 DEF Endpoint, Format, Reader, p
  <2> QED BY <1>1, <2>1 DEF p
<1>6. CASE p \notin {"ollama", "openai", "vllm", "llama.cpp", "anthropic", "google", "gemini"}
  <2>1. Endpoint(a) \in {"", Local} /\ Format(p) = "ollama" /\ Reader(p) = "ollama"
    BY <1>6 DEF Endpoint, Format, Reader, p
  <2> QED BY <1>1, <2>1 DEF p
<1> QED BY <1>2, <1>3, <1>4, <1>5, <1>6

LEMMA OutcomeStep ==
  ASSUME TypeOK, DefaultServiceUnderstands, [Next]_vars
  PROVE  DefaultServiceUnderstands'
<1>0. \A c \in Calls : args[c] \in Args
  BY DEF TypeOK
<1>1. args' = args
  BY DEF Next, CallStep, Stopped, vars, Dequeue, Start, Encoded, EncodeFails, EncodedForNobody, Acquire,
         Acquired, Answered, Refused, GiveUp, End, BackOff, Retry, CancelWaiting, CancelAsking
<1>2. CASE outcome' = outcome
  BY <1>1, <1>2 DEF DefaultServiceUnderstands
<1>3. ASSUME NEW c \in Calls, Refused(c) PROVE DefaultServiceUnderstands'
  <2>1. args[c].endpoint \notin {"", Local}
    <3> SUFFICES ASSUME args[c].endpoint \in {"", Local} PROVE FALSE
      OBVIOUS
    <3>1. Spoken(Endpoint(args[c])) \subseteq {Format(Provider(args[c]))}
      BY <1>0, TablesAgree
    <3>2. Spoken(Endpoint(args[c])) \ {Format(Provider(args[c]))} # {}
      BY <1>3 DEF Refused
    <3> QED BY <3>1, <3>2
  <2>2. \A d \in Calls : d # c => outcome'[d] = outcome[d]
    BY <1>3 DEF Refused, TypeOK
  <2> QED BY <1>1, <2>1, <2>2 DEF DefaultServiceUnderstands
<1>4. ASSUME NEW c \in Calls, Answered(c) PROVE DefaultServiceUnderstands'
  <2>1. ASSUME args[c].endpoint \in {"", Local} PROVE Reader(Provider(args[c])) = Format(Provider(args[c]))
    BY <1>0, <2>1, TablesAgree
  <2>2. outcome' = [outcome EXCEPT ![c] =
          IF Reader(Provider(args[c])) = Format(Provider(args[c])) THEN "caption" ELSE "unread"]
    BY <1>4 DEF Answered
  <2>3. args[c].endpoint \in {"", Local} => outcome'[c] = "caption"
    BY <2>1, <2>2 DEF TypeOK
  <2>4. \A d \in Calls : d # c => outcome'[d] = outcome[d]
    BY <2>2 DEF TypeOK
  <2> QED BY <1>1, <2>3, <2>4 DEF DefaultServiceUnderstands
<1> QED
  BY <1>2, <1>3, <1>4
     DEF Next, CallStep, Stopped, vars, Dequeue, Start, Encoded, EncodeFails, EncodedForNobody, Acquire,
         Acquired, GiveUp, BackOff, Retry, CancelWaiting, CancelAsking

(* No service at a default address refuses a call's request or answers what     *)
(* the call cannot read, for every spelling of every provider, known or not.     *)
THEOREM DefaultService == Spec => []DefaultServiceUnderstands
<1>1. Init => TypeOK /\ DefaultServiceUnderstands
  BY InitIInv DEF Init, IInv, DefaultServiceUnderstands
<1>2. TypeOK /\ DefaultServiceUnderstands /\ [Next]_vars => TypeOK' /\ DefaultServiceUnderstands'
  BY TypeStep, OutcomeStep
<1> QED BY <1>1, <1>2, PTL DEF Spec

=============================================================================
