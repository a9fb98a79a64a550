------------------------- MODULE RateLimiterProofs -------------------------
(***************************************************************************)
(* With a clock that is set back at most once, by less than a window, the  *)
(* rate limiter of server.py lets at most Limit requests of a client       *)
(* through in any window, whatever the clean-up tasks do meanwhile; and    *)
(* until then it refuses only when it must.                                 *)
(***************************************************************************)
EXTENDS RequestPath, SequenceTheorems, FiniteSetTheorems, TLAPS

(* The natural numbers are well ordered. *)
LEMMA LeastIndex ==
  ASSUME NEW T \in SUBSET Nat, T # {}
  PROVE  \E m \in T : \A y \in T : m <= y
<1> DEFINE R == {ss \in Nat \X Nat : ss[1] < ss[2]}
<1>1. IsWellFoundedOn(R, Nat)
  BY NatLessThanWellFounded DEF OpToRel
<1>2. \A x, y \in Nat : y < x => <<y, x>> \in R
  OBVIOUS
<1> HIDE DEF R
<1>3. PICK m \in T : \A y \in T : ~(<<y, m>> \in R)
  BY <1>1, WFMin
<1>4. \A y \in T : ~(y < m)
  BY <1>2, <1>3
<1>5. \A y \in T : m <= y
  BY <1>4
<1> QED BY <1>5

(* Live drops the longest expired prefix of a deque and nothing else.       *)
LEMMA LiveDropsPrefix ==
  ASSUME NEW dq \in Seq(Int), NEW now \in Int
  PROVE  \E k \in 0..Len(dq) :
           /\ Live(dq, now) = SubSeq(dq, k + 1, Len(dq))
           /\ \A i \in 1..k : now - dq[i] >= Window
           /\ k < Len(dq) => now - dq[k + 1] < Window
<1> DEFINE dropped == {i \in 1..Len(dq) : \A j \in 1..i : now - dq[j] >= Window}
           young == {i \in 1..Len(dq) : ~(now - dq[i] >= Window)}
<1>1. Window \in Int /\ Len(dq) \in Nat /\ \A i \in 1..Len(dq) : dq[i] \in Int
  BY LenProperties, ElementOfSeq, LimiterParameters
<1>2. Live(dq, now) = SubSeq(dq, 1 + Cardinality(dropped), Len(dq))
  BY DEF Live
<1>3. ASSUME NEW k \in Nat PROVE Cardinality(1..k) = k
  BY FS_Interval
<1>4. CASE young = {}
  <2>1. \A i \in 1..Len(dq) : now - dq[i] >= Window
    BY <1>4
  <2>2. dropped = 1..Len(dq)
    BY <1>1, <2>1
  <2> HIDE DEF dropped, young
  <2>3. Cardinality(dropped) = Len(dq)
    BY <1>1, <1>3, <2>2
  <2> QED BY <1>1, <1>2, <2>1, <2>3
<1>5. CASE young # {}
  <2>1. young \in SUBSET Nat
    BY <1>1
  <2>2. PICK m \in young : \A y \in young : m <= y
    BY <1>5, <2>1, LeastIndex
  <2>3. m \in 1..Len(dq) /\ now - dq[m] < Window
    BY <1>1, <2>2
  <2>4. \A i \in 1..(m - 1) : now - dq[i] >= Window
    BY <1>1, <2>2, <2>3
  <2>5. dropped = 1..(m - 1)
    <3>1. \A i \in 1..(m - 1) : i \in dropped
      BY <1>1, <2>3, <2>4
    <3>2. \A i \in dropped : i \in 1..(m - 1)
      BY <1>1, <2>3
    <3> QED BY <3>1, <3>2
  <2> HIDE DEF dropped, young
  <2>6. Cardinality(dropped) = m - 1
    BY <1>1, <1>3, <2>3, <2>5
  <2>7. m - 1 \in 0..Len(dq) /\ (m - 1) + 1 = m /\ 1 + (m - 1) = m
    BY <1>1, <2>3
  <2>8. Live(dq, now) = SubSeq(dq, (m - 1) + 1, Len(dq))
    BY <1>2, <2>6, <2>7
  <2>9. now - dq[(m - 1) + 1] < Window
    BY <2>3, <2>7
  <2> QED BY <2>4, <2>7, <2>8, <2>9
<1> QED BY <1>4, <1>5

-----------------------------------------------------------------------------
(* The inductive invariant under a clock that is steady, or that is set back *)
(* once by less than a window.  Until that it reads the elapsed time; then   *)
(* the stamps of before are where they were, and those of after are early by *)
(* as much as the clock is.  A clean-up task runs with an old reading of the *)
(* clock, but one from before the first early stamp.                          *)
SmallStepsBack == ClockSteps \subseteq {d \in Int : -Window < d /\ d <= 0}

IsStampOf(stamp, time, r, w, tasks) ==
  \/ stamp = time
  \/ /\ stamp = time - (r - w)
     /\ \A s \in tasks : s.now <= w \/ s.now <= time

(* dq is the end of what was accepted, and all before it expired.             *)
IsLiveEnd(dq, acc, r, w, tasks) ==
  \E k \in 0..Len(acc) :
    /\ Len(dq) = Len(acc) - k
    /\ \A i \in 1..k : r - acc[i] >= Window
    /\ \A i \in 1..Len(dq) : IsStampOf(dq[i], acc[k + i], r, w, tasks)

Typing ==
  /\ real \in Nat /\ wall \in Int /\ lastCleanup \in Int
  /\ log \in [Clients -> Seq(Int)] /\ known \subseteq Clients
  /\ sweeps \subseteq Sweep
  /\ accepted \in [Clients -> Seq(Nat)]

ClockIsClose ==
  /\ wall <= real /\ (wall < real => real - wall < Window)
  /\ \A s \in sweeps : s.now <= real

AcceptedInOrder ==
  \A c \in Clients : \A i \in 1..Len(accepted[c]) :
    /\ accepted[c][i] <= real
    /\ \A j \in 1..i : accepted[c][j] <= accepted[c][i]

Bounded == \A c \in Clients : Len(log[c]) <= Limit

LogsAreLiveEnds == \A c \in Clients : IsLiveEnd(log[c], accepted[c], real, wall, sweeps)

IInv == Typing /\ ClockIsClose /\ AcceptedInOrder /\ Bounded
        /\ LogsAreLiveEnds /\ AtMostLimitPerWindow

LEMMA InitIInv == ASSUME Init PROVE IInv
<1> USE DEF Init
<1>1. <<>> \in Seq(Int) /\ <<>> \in Seq(Nat) /\ Len(<<>>) = 0
  OBVIOUS
<1>2. Typing
  BY <1>1, LimiterParameters DEF Typing
<1>3. ClockIsClose /\ AcceptedInOrder /\ Bounded /\ AtMostLimitPerWindow
  BY <1>1, LimiterParameters DEF ClockIsClose, AcceptedInOrder, Bounded, AtMostLimitPerWindow
<1>4. LogsAreLiveEnds
  BY <1>1 DEF LogsAreLiveEnds, IsLiveEnd
<1> QED BY <1>2, <1>3, <1>4 DEF IInv

(* What a request or a clean-up task finds expired did so in elapsed time.    *)
LEMMA ExpiryIsReal ==
  ASSUME IInv, NEW now \in Int, now = wall \/ \E s \in sweeps : s.now = now,
         NEW stamp \in Int, NEW time \in Nat, IsStampOf(stamp, time, real, wall, sweeps),
         now - stamp >= Window
  PROVE  real - time >= Window
<1>1. /\ real \in Nat /\ wall \in Int /\ Window \in Nat
      /\ wall <= real /\ (wall < real => real - wall < Window)
      /\ now <= real
  BY LimiterParameters DEF IInv, Typing, ClockIsClose
<1>2. CASE stamp = time
  BY <1>1, <1>2
<1>3. CASE stamp = time - (real - wall) /\ (now <= wall \/ now <= time)
  BY <1>1, <1>3
<1>4. wall <= wall
  BY <1>1
<1> QED BY <1>2, <1>3, <1>4 DEF IsStampOf

LEMMA LiveFacts ==
  ASSUME IInv, NEW c \in Clients, NEW now \in Int, now = wall \/ \E s \in sweeps : s.now = now
  PROVE  /\ Live(log[c], now) \in Seq(Int)
         /\ Len(Live(log[c], now)) <= Len(log[c])
         /\ \E k \in 0..Len(accepted[c]) :
              /\ Len(Live(log[c], now)) = Len(accepted[c]) - k
              /\ \A i \in 1..k : real - accepted[c][i] >= Window
              /\ \A i \in 1..Len(Live(log[c], now)) :
                   IsStampOf(Live(log[c], now)[i], accepted[c][k + i], real, wall, sweeps)
              /\ k < Len(accepted[c]) => now - Live(log[c], now)[1] < Window
<1> DEFINE dq == log[c]
           acc == accepted[c]
           live == Live(dq, now)
<1>0. /\ dq \in Seq(Int) /\ Len(dq) \in Nat /\ \A i \in 1..Len(dq) : dq[i] \in Int
      /\ acc \in Seq(Nat) /\ Len(acc) \in Nat /\ \A i \in 1..Len(acc) : acc[i] \in Nat
  BY LenProperties, ElementOfSeq DEF IInv, Typing
<1>1. PICK k \in 0..Len(acc) :
        /\ Len(dq) = Len(acc) - k
        /\ \A i \in 1..k : real - acc[i] >= Window
        /\ \A i \in 1..Len(dq) : IsStampOf(dq[i], acc[k + i], real, wall, sweeps)
  BY DEF IInv, LogsAreLiveEnds, IsLiveEnd
<1>2. PICK m \in 0..Len(dq) :
        /\ live = SubSeq(dq, m + 1, Len(dq))
        /\ \A i \in 1..m : now - dq[i] >= Window
        /\ m < Len(dq) => now - dq[m + 1] < Window
  BY <1>0, LiveDropsPrefix
<1> HIDE DEF dq, acc, live
<1>3. /\ live \in Seq(Int) /\ Len(live) = Len(dq) - m
      /\ \A i \in 1..Len(live) : live[i] = dq[m + i]
  <2>1. \A i \in m+1..Len(dq) : dq[i] \in Int
    BY <1>0, <1>2
  <2>2. /\ live \in Seq(Int) /\ Len(live) = IF m+1 <= Len(dq) THEN Len(dq) - (m+1) + 1 ELSE 0
        /\ \A i \in 1..Len(dq) - (m+1) + 1 : live[i] = dq[(m+1) + i - 1]
    BY <1>0, <1>2, <2>1, SubSeqProperties
  <2> QED BY <1>0, <1>2, <2>2
<1>4. k \in Nat /\ m \in Nat /\ m <= Len(dq) /\ k <= Len(acc)
  BY <1>0, <1>1, <1>2
<1>5. k + m \in 0..Len(acc) /\ Len(live) = Len(acc) - (k + m) /\ Len(live) <= Len(dq)
  BY <1>0, <1>1, <1>3, <1>4
<1>6. ASSUME NEW i \in 1..k + m PROVE real - acc[i] >= Window
  <2>1. CASE i <= k
    BY <1>1, <1>4, <2>1
  <2>2. CASE i > k
    <3>1. i - k \in 1..m /\ i - k \in 1..Len(dq) /\ k + (i - k) = i /\ i \in 1..Len(acc)
      BY <1>0, <1>4, <1>5, <2>2
    <3>2. IsStampOf(dq[i - k], acc[i], real, wall, sweeps) /\ now - dq[i - k] >= Window
      BY <1>1, <1>2, <3>1
    <3> QED BY <1>0, <3>1, <3>2, ExpiryIsReal
  <2> QED BY <1>4, <2>1, <2>2
<1>7. ASSUME NEW i \in 1..Len(live)
      PROVE  IsStampOf(live[i], acc[(k + m) + i], real, wall, sweeps)
  <2>1. m + i \in 1..Len(dq) /\ k + (m + i) = (k + m) + i
    BY <1>0, <1>3, <1>4
  <2> QED BY <1>1, <1>3, <2>1
<1>8. k + m < Len(acc) => now - live[1] < Window
  <2>1. k + m < Len(acc) => m < Len(dq) /\ 1 \in 1..Len(live)
    BY <1>0, <1>1, <1>4, <1>5
  <2> QED BY <1>2, <1>3, <2>1
<1> QED BY <1>3, <1>5, <1>6, <1>7, <1>8 DEF dq, acc, live

LEMMA SweepsStart ==
  ASSUME IInv, StartSweepIfDue
  PROVE  /\ sweeps' \subseteq Sweep /\ lastCleanup' \in Int
         /\ \A s \in sweeps' : s \in sweeps \/ s.now = wall
<1> DEFINE new == [now |-> wall, started |-> FALSE, todo |-> {}]
<1>1. new \in Sweep /\ new.now = wall
  BY DEF IInv, Typing, Sweep
<1>2. sweeps \subseteq Sweep /\ lastCleanup \in Int /\ wall \in Int
  BY DEF IInv, Typing
<1>3. CASE wall - lastCleanup >= Interval
  <2>1. lastCleanup' = wall /\ sweeps' = sweeps \cup {new}
    BY <1>3 DEF StartSweepIfDue
  <2> HIDE DEF new
  <2> QED BY <1>1, <1>2, <2>1
<1>4. CASE ~(wall - lastCleanup >= Interval)
  BY <1>2, <1>4 DEF StartSweepIfDue
<1> QED BY <1>3, <1>4

(* A step that lets no time pass keeps the clock close and every stamp good.  *)
LEMMA NoTimePasses ==
  ASSUME IInv, real' = real, wall' = wall,
         \A s \in sweeps' : s.now = wall \/ \E t \in sweeps : s.now = t.now
  PROVE  /\ ClockIsClose'
         /\ \A stamp, time : IsStampOf(stamp, time, real, wall, sweeps) =>
                               IsStampOf(stamp, time, real', wall', sweeps')
         /\ IsStampOf(wall, real, real', wall', sweeps')
<1>1. real \in Nat /\ wall \in Int /\ wall <= real /\ wall <= wall
  BY DEF IInv, Typing, ClockIsClose
<1>2. \A s \in sweeps' : s.now <= real
  BY <1>1 DEF IInv, ClockIsClose
<1>3. ClockIsClose'
  BY <1>2 DEF IInv, ClockIsClose
<1>4. ASSUME NEW stamp, NEW time, IsStampOf(stamp, time, real, wall, sweeps)
      PROVE  IsStampOf(stamp, time, real', wall', sweeps')
  BY <1>1, <1>4 DEF IsStampOf
<1>5. IsStampOf(wall, real, real', wall', sweeps')
  <2>1. wall = real - (real - wall)
    BY <1>1
  <2> QED BY <1>2, <2>1 DEF IsStampOf
<1> QED BY <1>3, <1>4, <1>5

LEMMA AdmitIInv ==
  ASSUME IInv, NEW c \in Clients, Admit(c) PROVE IInv'
<1> DEFINE acc == accepted[c]
           live == Live(log[c], wall)
<1>0. /\ Window \in Nat /\ Limit \in Nat /\ wall \in Int /\ real \in Nat
      /\ acc \in Seq(Nat) /\ Len(acc) \in Nat /\ \A i \in 1..Len(acc) : acc[i] \in Nat
  BY LimiterParameters, LenProperties, ElementOfSeq DEF IInv, Typing
<1>1. live \in Seq(Int) /\ Len(live) \in Nat /\ Len(live) < Limit
  BY <1>0, LiveFacts, LenProperties DEF Admit
<1>2. PICK k \in 0..Len(acc) :
        /\ Len(live) = Len(acc) - k
        /\ \A i \in 1..k : real - acc[i] >= Window
        /\ \A i \in 1..Len(live) : IsStampOf(live[i], acc[k + i], real, wall, sweeps)
  BY <1>0, LiveFacts
<1>3. /\ accepted' = [accepted EXCEPT ![c] = Append(acc, real)]
      /\ log' = [log EXCEPT ![c] = Append(live, wall)]
      /\ wall' = wall /\ real' = real /\ known' \subseteq Clients
      /\ StartSweepIfDue
  BY DEF Admit, IInv, Typing
<1>4. /\ accepted'[c] = Append(acc, real) /\ log'[c] = Append(live, wall)
      /\ \A d \in Clients \ {c} : accepted'[d] = accepted[d] /\ log'[d] = log[d]
  BY <1>3 DEF IInv, Typing
<1> DEFINE acc1 == Append(acc, real)
           live1 == Append(live, wall)
<1>5. /\ acc1 \in Seq(Nat) /\ Len(acc1) = Len(acc) + 1 /\ acc1[Len(acc) + 1] = real
      /\ \A i \in 1..Len(acc) : acc1[i] = acc[i]
  BY <1>0, AppendProperties
<1>6. /\ live1 \in Seq(Int) /\ Len(live1) = Len(live) + 1 /\ live1[Len(live) + 1] = wall
      /\ \A i \in 1..Len(live) : live1[i] = live[i]
  BY <1>0, <1>1, AppendProperties
<1> HIDE DEF acc, live, acc1, live1
<1>a. /\ ClockIsClose'
      /\ \A stamp, time : IsStampOf(stamp, time, real, wall, sweeps) =>
                            IsStampOf(stamp, time, real', wall', sweeps')
      /\ IsStampOf(wall, real, real', wall', sweeps')
  BY <1>3, SweepsStart, NoTimePasses
<1>7. Typing'
  <2>1. log' \in [Clients -> Seq(Int)]
    BY <1>3, <1>6 DEF IInv, Typing, live1
  <2>2. accepted' \in [Clients -> Seq(Nat)]
    BY <1>3, <1>5 DEF IInv, Typing, acc1
  <2> QED BY <1>3, <2>1, <2>2, SweepsStart DEF IInv, Typing
<1>8. AcceptedInOrder'
  <2> SUFFICES ASSUME NEW d \in Clients, NEW i \in 1..Len(accepted'[d])
               PROVE  /\ accepted'[d][i] <= real'
                      /\ \A j \in 1..i : accepted'[d][j] <= accepted'[d][i]
    BY DEF AcceptedInOrder
  <2>1. CASE d # c
    BY <1>3, <1>4, <2>1 DEF IInv, AcceptedInOrder
  <2>2. CASE d = c /\ i <= Len(acc)
    <3>1. i \in 1..Len(acc) /\ \A j \in 1..i : j \in 1..Len(acc)
      BY <1>0, <1>4, <1>5, <2>2 DEF acc1
    <3>2. acc[i] <= real /\ \A j \in 1..i : acc[j] <= acc[i]
      BY <3>1 DEF IInv, AcceptedInOrder, acc
    <3> QED BY <1>3, <1>4, <1>5, <2>2, <3>1, <3>2 DEF acc1
  <2>3. CASE d = c /\ ~(i <= Len(acc))
    <3>1. i = Len(acc) + 1
      BY <1>0, <1>4, <1>5, <2>3 DEF acc1
    <3>2. \A j \in 1..Len(acc) : acc[j] <= real
      BY DEF IInv, AcceptedInOrder, acc
    <3>3. \A j \in 1..i : j \in 1..Len(acc) \/ j = Len(acc) + 1
      BY <1>0, <3>1
    <3>4. real <= real
      BY <1>0
    <3>5. \A j \in 1..i : acc1[j] <= real
      BY <1>5, <3>2, <3>3, <3>4
    <3>6. accepted'[d] = acc1 /\ real' = real /\ acc1[i] = real
      BY <1>3, <1>4, <1>5, <2>3, <3>1 DEF acc1
    <3> QED BY <3>4, <3>5, <3>6
  <2> QED BY <2>1, <2>2, <2>3
<1>9. Bounded'
  <2>1. Len(log'[c]) <= Limit
    BY <1>0, <1>1, <1>4, <1>6 DEF live1
  <2> QED BY <1>4, <2>1 DEF IInv, Bounded
<1>10. LogsAreLiveEnds'
  <2>1. ASSUME NEW d \in Clients, d # c
        PROVE  IsLiveEnd(log'[d], accepted'[d], real', wall', sweeps')
    <3>1. IsLiveEnd(log[d], accepted[d], real, wall, sweeps) /\ log'[d] = log[d] /\ accepted'[d] = accepted[d]
      BY <1>4, <2>1 DEF IInv, LogsAreLiveEnds
    <3> QED BY <1>3, <1>a, <3>1 DEF IsLiveEnd
  <2>2. k \in 0..Len(acc1) /\ Len(live1) = Len(acc1) - k
    BY <1>0, <1>1, <1>2, <1>5, <1>6
  <2>3. \A i \in 1..k : real - acc1[i] >= Window
    <3>1. \A i \in 1..k : i \in 1..Len(acc)
      BY <1>0, <1>2
    <3> QED BY <1>2, <1>5, <3>1
  <2>4. ASSUME NEW i \in 1..Len(live1) PROVE IsStampOf(live1[i], acc1[k + i], real', wall', sweeps')
    <3>1. CASE i <= Len(live)
      <4>1. i \in 1..Len(live) /\ k + i \in 1..Len(acc)
        BY <1>0, <1>1, <1>2, <3>1
      <4>2. /\ live1[i] = live[i] /\ acc1[k + i] = acc[k + i]
            /\ IsStampOf(live[i], acc[k + i], real, wall, sweeps)
        BY <1>2, <1>5, <1>6, <4>1
      <4>3. IsStampOf(live1[i], acc1[k + i], real, wall, sweeps)
        BY <4>2
      <4> QED BY <1>a, <4>3
    <3>2. CASE ~(i <= Len(live))
      <4>1. i = Len(live) + 1 /\ k + i = Len(acc) + 1
        BY <1>0, <1>1, <1>2, <1>6, <3>2
      <4>2. live1[i] = wall /\ acc1[k + i] = real
        BY <1>5, <1>6, <4>1
      <4> QED BY <1>a, <4>2
    <3> QED BY <3>1, <3>2
  <2>5. IsLiveEnd(log'[c], accepted'[c], real', wall', sweeps')
    BY <1>3, <1>4, <2>2, <2>3, <2>4 DEF IsLiveEnd, acc1, live1
  <2> QED BY <2>1, <2>5 DEF LogsAreLiveEnds
<1>11. AtMostLimitPerWindow'
  <2> SUFFICES ASSUME NEW d \in Clients, NEW i \in 1..Len(accepted'[d]) - Limit
               PROVE  accepted'[d][i + Limit] - accepted'[d][i] >= Window
    BY DEF AtMostLimitPerWindow
  <2>1. CASE d # c
    BY <1>4, <2>1 DEF IInv, AtMostLimitPerWindow
  <2>2. CASE d = c /\ i + Limit <= Len(acc)
    <3>1. i \in 1..Len(acc) - Limit /\ i + Limit \in 1..Len(acc) /\ i \in 1..Len(acc)
      BY <1>0, <2>2
    <3>2. acc[i + Limit] - acc[i] >= Window
      BY <3>1 DEF IInv, AtMostLimitPerWindow, acc
    <3> QED BY <1>4, <1>5, <2>2, <3>1, <3>2 DEF acc1
  <2>3. CASE d = c /\ ~(i + Limit <= Len(acc))
    <3>1. accepted'[d] = acc1
      BY <1>4, <2>3 DEF acc1
    <3>2. i \in 1..Len(acc1) - Limit
      BY <3>1
    <3>3. i + Limit = Len(acc) + 1 /\ i \in Nat \ {0}
      BY <1>0, <1>5, <2>3, <3>2
    <3>4. i \in 1..k /\ i \in 1..Len(acc)
      BY <1>0, <1>1, <1>2, <3>3
    <3> QED BY <1>2, <1>5, <3>1, <3>3, <3>4
  <2> QED BY <2>1, <2>2, <2>3
<1> QED BY <1>7, <1>8, <1>9, <1>10, <1>11, <1>a DEF IInv

(* Deques that only lost what expired, by the clock now or by a task's.       *)
LEMMA ExpiryKeepsIInv ==
  ASSUME IInv, NEW now \in Int, now = wall \/ \E s \in sweeps : s.now = now,
         NEW batch \in SUBSET Clients,
         log' = [c \in Clients |-> IF c \in batch THEN Live(log[c], now) ELSE log[c]],
         UNCHANGED <<real, wall, accepted>>, known' \subseteq Clients, lastCleanup' \in Int,
         sweeps' \subseteq Sweep,
         \A s \in sweeps' : s.now = wall \/ \E t \in sweeps : s.now = t.now
  PROVE  IInv'
<1>1. /\ ClockIsClose'
      /\ \A stamp, time : IsStampOf(stamp, time, real, wall, sweeps) =>
                            IsStampOf(stamp, time, real', wall', sweeps')
  BY NoTimePasses
<1>2. ASSUME NEW c \in Clients
      PROVE  /\ log'[c] \in Seq(Int) /\ Len(log'[c]) <= Limit
             /\ IsLiveEnd(log'[c], accepted'[c], real', wall', sweeps')
  <2>1. /\ log[c] \in Seq(Int) /\ Len(log[c]) \in Nat /\ Len(log[c]) <= Limit /\ Limit \in Nat
        /\ IsLiveEnd(log[c], accepted[c], real, wall, sweeps)
    BY LimiterParameters, LenProperties DEF IInv, Typing, Bounded, LogsAreLiveEnds
  <2> DEFINE live == Live(log[c], now)
  <2>2. /\ live \in Seq(Int) /\ Len(live) <= Len(log[c])
        /\ IsLiveEnd(live, accepted[c], real, wall, sweeps)
    BY LiveFacts DEF IsLiveEnd
  <2>3. Len(live) \in Nat
    BY <2>2, LenProperties
  <2>4. log'[c] = log[c] \/ log'[c] = live
    OBVIOUS
  <2> HIDE DEF live
  <2>5. /\ log'[c] \in Seq(Int) /\ Len(log'[c]) <= Limit
        /\ IsLiveEnd(log'[c], accepted[c], real, wall, sweeps)
    BY <2>1, <2>2, <2>3, <2>4
  <2> QED BY <1>1, <2>5 DEF IsLiveEnd
<1>3. Typing'
  <2>1. log' \in [Clients -> Seq(Int)]
    BY <1>2
  <2> QED BY <2>1 DEF IInv, Typing
<1>4. AcceptedInOrder' /\ AtMostLimitPerWindow'
  BY DEF IInv, AcceptedInOrder, AtMostLimitPerWindow
<1>5. Bounded' /\ LogsAreLiveEnds'
  BY <1>2 DEF Bounded, LogsAreLiveEnds
<1> QED BY <1>1, <1>3, <1>4, <1>5 DEF IInv

LEMMA RefuseIInv ==
  ASSUME IInv, NEW c \in Clients, Refuse(c) PROVE IInv'
<1>1. wall \in Int /\ log \in [Clients -> Seq(Int)] /\ known \subseteq Clients
  BY DEF IInv, Typing
<1>2. log' = [d \in Clients |-> IF d \in {c} THEN Live(log[d], wall) ELSE log[d]]
  BY <1>1 DEF Refuse
<1>3. known' \subseteq Clients /\ UNCHANGED <<real, wall, accepted>> /\ StartSweepIfDue
  BY <1>1 DEF Refuse
<1>4. /\ sweeps' \subseteq Sweep /\ lastCleanup' \in Int
      /\ \A s \in sweeps' : s.now = wall \/ \E t \in sweeps : s.now = t.now
  BY <1>3, SweepsStart
<1>5. {c} \in SUBSET Clients /\ wall = wall
  OBVIOUS
<1> QED BY <1>1, <1>2, <1>3, <1>4, <1>5, ExpiryKeepsIInv

LEMMA CleanBatchIInv ==
  ASSUME IInv, NEW s \in sweeps, NEW batch \in SUBSET Clients, CleanBatch(s, batch)
  PROVE  IInv'
<1>1. s \in Sweep /\ s.now \in Int /\ sweeps \subseteq Sweep /\ known \subseteq Clients
  BY DEF IInv, Typing, Sweep
<1>2. /\ log' = [c \in Clients |-> IF c \in batch THEN Live(log[c], s.now) ELSE log[c]]
      /\ UNCHANGED <<real, wall, accepted>> /\ lastCleanup' \in Int /\ known' \subseteq Clients
  BY <1>1 DEF CleanBatch, IInv, Typing
<1>3. \A t \in sweeps' : t \in Sweep /\ (t \in sweeps \/ t.now = s.now)
  <2> DEFINE todo == IF s.started THEN s.todo ELSE known
             rest == [s EXCEPT !.started = TRUE, !.todo = todo \ batch]
  <2>1. todo \ batch \in SUBSET Clients
    BY <1>1 DEF Sweep
  <2>2. rest \in Sweep /\ rest.now = s.now
    BY <1>1, <2>1 DEF Sweep
  <2>3. \A t \in sweeps' : t \in sweeps \/ t = rest
    BY DEF CleanBatch
  <2> QED BY <1>1, <2>2, <2>3
<1>4. sweeps' \subseteq Sweep /\ \A t \in sweeps' : \E u \in sweeps : t.now = u.now
  BY <1>3
<1> QED BY <1>1, <1>2, <1>4, ExpiryKeepsIInv

(* Time passes, or the clock is set back.                                     *)
LEMMA ClockIInv ==
  ASSUME SmallStepsBack, IInv, Tick \/ \E d \in ClockSteps : ClockJumps(d) PROVE IInv'
<1>0. /\ real \in Nat /\ wall \in Int /\ wall <= real /\ (wall < real => real - wall < Window)
      /\ Window \in Nat /\ sweeps \subseteq Sweep /\ \A s \in sweeps : s.now \in Int /\ s.now <= real
  BY LimiterParameters DEF IInv, Typing, ClockIsClose, Sweep
<1>1. /\ UNCHANGED <<log, known, lastCleanup, sweeps, accepted>>
      /\ real' \in Nat /\ wall' \in Int /\ real <= real'
      /\ wall' <= real' /\ (wall' < real' => real' - wall' < Window)
      /\ \/ real' - wall' = real - wall /\ wall <= wall'
         \/ real = wall /\ real' = real
  <2>1. CASE Tick
    BY <1>0, <2>1 DEF Tick
  <2>2. CASE \E d \in ClockSteps : ClockJumps(d)
    BY <1>0, <2>2 DEF ClockJumps, SmallStepsBack
  <2> QED BY <2>1, <2>2
<1>2. \A c \in Clients : /\ accepted[c] \in Seq(Nat) /\ Len(accepted[c]) \in Nat
                         /\ \A i \in 1..Len(accepted[c]) : accepted[c][i] \in Nat
  BY LenProperties, ElementOfSeq DEF IInv, Typing
<1>3. Typing'
  BY <1>1 DEF IInv, Typing
<1>4. ClockIsClose'
  <2>1. \A s \in sweeps : s.now <= real'
    BY <1>0, <1>1
  <2> QED BY <1>1, <2>1 DEF ClockIsClose
<1>5. AcceptedInOrder'
  <2> SUFFICES ASSUME NEW c \in Clients, NEW i \in 1..Len(accepted[c])
               PROVE  /\ accepted[c][i] <= real'
                      /\ \A j \in 1..i : accepted[c][j] <= accepted[c][i]
    BY <1>1 DEF AcceptedInOrder
  <2>1. accepted[c][i] <= real /\ \A j \in 1..i : accepted[c][j] <= accepted[c][i]
    BY DEF IInv, AcceptedInOrder
  <2> QED BY <1>0, <1>1, <1>2, <2>1
<1>6. Bounded' /\ AtMostLimitPerWindow'
  BY <1>1 DEF IInv, Bounded, AtMostLimitPerWindow
<1>7. ASSUME NEW stamp \in Int, NEW time \in Nat, IsStampOf(stamp, time, real, wall, sweeps)
      PROVE  IsStampOf(stamp, time, real', wall', sweeps')
  <2>1. CASE stamp = time
    BY <2>1 DEF IsStampOf
  <2>2. CASE stamp # time
    <3>1. /\ stamp = time - (real - wall)
          /\ \A s \in sweeps : s.now <= wall \/ s.now <= time
      BY <1>7, <2>2 DEF IsStampOf
    <3>2. real' - wall' = real - wall /\ wall <= wall'
      <4>1. real # wall
        BY <1>0, <2>2, <3>1
      <4> QED BY <1>1, <4>1
    <3>3. \A s \in sweeps : s.now <= wall' \/ s.now <= time
      BY <1>0, <1>1, <3>1, <3>2
    <3>4. stamp = time - (real' - wall')
      BY <3>1, <3>2
    <3> QED BY <1>1, <3>3, <3>4 DEF IsStampOf
  <2> QED BY <2>1, <2>2
<1>8. ASSUME NEW c \in Clients PROVE IsLiveEnd(log[c], accepted[c], real', wall', sweeps')
  <2> DEFINE dq == log[c]
             acc == accepted[c]
  <2>1. PICK k \in 0..Len(acc) :
          /\ Len(dq) = Len(acc) - k
          /\ \A i \in 1..k : real - acc[i] >= Window
          /\ \A i \in 1..Len(dq) : IsStampOf(dq[i], acc[k + i], real, wall, sweeps)
    BY DEF IInv, LogsAreLiveEnds, IsLiveEnd
  <2>2. /\ Len(dq) \in Nat /\ \A i \in 1..Len(dq) : dq[i] \in Int
        /\ Len(acc) \in Nat /\ \A i \in 1..Len(acc) : acc[i] \in Nat
    BY <1>2, LenProperties, ElementOfSeq DEF IInv, Typing
  <2> HIDE DEF dq, acc
  <2>3. ASSUME NEW i \in 1..k PROVE real' - acc[i] >= Window
    <3>1. acc[i] \in Nat /\ real - acc[i] >= Window
      BY <2>1, <2>2
    <3> QED BY <1>0, <1>1, <3>1
  <2>4. ASSUME NEW i \in 1..Len(dq) PROVE IsStampOf(dq[i], acc[k + i], real', wall', sweeps')
    <3>1. k + i \in 1..Len(acc)
      BY <2>1, <2>2
    <3>2. IsStampOf(dq[i], acc[k + i], real, wall, sweeps) /\ dq[i] \in Int /\ acc[k + i] \in Nat
      BY <2>1, <2>2, <3>1
    <3> QED BY <1>7, <3>2
  <2>5. IsLiveEnd(dq, acc, real', wall', sweeps')
    BY <2>1, <2>3, <2>4 DEF IsLiveEnd
  <2> QED BY <2>5 DEF dq, acc
<1>9. LogsAreLiveEnds'
  BY <1>1, <1>8 DEF LogsAreLiveEnds
<1> QED BY <1>3, <1>4, <1>5, <1>6, <1>9 DEF IInv

LEMMA StutterIInv == ASSUME IInv, UNCHANGED vars PROVE IInv'
<1> USE DEF vars
<1>1. Typing' /\ ClockIsClose' /\ AcceptedInOrder' /\ Bounded' /\ AtMostLimitPerWindow'
  BY DEF IInv, Typing, ClockIsClose, AcceptedInOrder, Bounded, AtMostLimitPerWindow
<1>2. LogsAreLiveEnds'
  BY DEF IInv, LogsAreLiveEnds
<1> QED BY <1>1, <1>2 DEF IInv

LEMMA StepIInv == ASSUME SmallStepsBack, IInv, [Next]_vars PROVE IInv'
<1>1. CASE \E c \in Clients : Admit(c) \/ Refuse(c)
  BY <1>1, AdmitIInv, RefuseIInv
<1>2. CASE \E s \in sweeps, batch \in SUBSET Clients : CleanBatch(s, batch)
  BY <1>2, CleanBatchIInv
<1>3. CASE Tick \/ \E d \in ClockSteps : ClockJumps(d)
  BY <1>3, ClockIInv
<1>4. CASE UNCHANGED vars
  BY <1>4, StutterIInv
<1> QED BY <1>1, <1>2, <1>3, <1>4 DEF Next

(* Until the clock is set back, a deque is the very end of what was accepted.  *)
LEMMA LogsAreSuffixes == ASSUME IInv PROVE LogIsLiveSuffix
<1> SUFFICES ASSUME wall = real, NEW c \in Clients
             PROVE  \E k \in 0..Len(accepted[c]) :
                      /\ log[c] = SubSeq(accepted[c], k + 1, Len(accepted[c]))
                      /\ \A i \in 1..k : wall - accepted[c][i] >= Window
  BY DEF LogIsLiveSuffix
<1> DEFINE dq == log[c]
           acc == accepted[c]
<1>1. PICK k \in 0..Len(acc) :
        /\ Len(dq) = Len(acc) - k
        /\ \A i \in 1..k : real - acc[i] >= Window
        /\ \A i \in 1..Len(dq) : IsStampOf(dq[i], acc[k + i], real, wall, sweeps)
  BY DEF IInv, LogsAreLiveEnds, IsLiveEnd
<1>2. /\ real \in Nat /\ dq \in Seq(Int) /\ Len(dq) \in Nat /\ DOMAIN dq = 1..Len(dq)
      /\ acc \in Seq(Nat) /\ Len(acc) \in Nat /\ \A i \in 1..Len(acc) : acc[i] \in Nat
  BY LenProperties, ElementOfSeq DEF IInv, Typing
<1>3. dq = [i \in 1..Len(dq) |-> dq[i]]
  BY <1>2
<1> HIDE DEF dq, acc
<1>4. ASSUME NEW i \in 1..Len(dq) PROVE dq[i] = acc[k + i] /\ dq[i] \in Nat
  <2>1. k + i \in 1..Len(acc) /\ IsStampOf(dq[i], acc[k + i], real, wall, sweeps)
    BY <1>1, <1>2
  <2>2. acc[k + i] \in Nat
    BY <1>2, <2>1
  <2>3. acc[k + i] - (real - wall) = acc[k + i]
    BY <1>2, <2>2
  <2> QED BY <2>1, <2>2, <2>3 DEF IsStampOf
<1>5. dq \in Seq(Nat)
  BY <1>2, <1>3, <1>4
<1>6. LET e == SubSeq(acc, k + 1, Len(acc))
      IN  e \in Seq(Nat) /\ Len(e) = Len(acc) - k /\ \A i \in 1..Len(e) : e[i] = acc[k + i]
  <2>1. \A i \in k+1..Len(acc) : acc[i] \in Nat
    BY <1>1, <1>2
  <2> DEFINE e == SubSeq(acc, k + 1, Len(acc))
  <2>2. /\ e \in Seq(Nat) /\ Len(e) = IF k+1 <= Len(acc) THEN Len(acc) - (k+1) + 1 ELSE 0
        /\ \A i \in 1..Len(acc) - (k+1) + 1 : e[i] = acc[(k+1) + i - 1]
    BY <1>1, <1>2, <2>1, SubSeqProperties
  <2> HIDE DEF e
  <2>3. e \in Seq(Nat) /\ Len(e) = Len(acc) - k /\ \A i \in 1..Len(e) : e[i] = acc[k + i]
    <3>1. Len(acc) \in Nat /\ k \in Nat /\ k <= Len(acc)
      BY <1>2
    <3>2. Len(e) = Len(acc) - k
      BY <2>2, <3>1
    <3> QED BY <2>2, <3>1, <3>2
  <2> QED BY <2>3 DEF e
<1>7. dq = SubSeq(acc, k + 1, Len(acc))
  BY <1>1, <1>4, <1>5, <1>6, SeqEqual
<1> QED BY <1>1, <1>7 DEF dq, acc

-----------------------------------------------------------------------------
(* While the clock is steady, or once it was set back by less than a window:  *)
(* for any clients, limits and interleaving of clean-up tasks, rate_limiter   *)
(* never lets more than Limit requests of a client through in a window of     *)
(* elapsed time; and until then its log is the live end of what it let through. *)
THEOREM LimiterCorrect ==
  ASSUME SmallStepsBack
  PROVE  Spec => [](TypeOK /\ LogIsLiveSuffix /\ AtMostLimitPerWindow)
<1>1. Init => IInv
  BY InitIInv
<1>2. IInv /\ [Next]_vars => IInv'
  BY StepIInv
<1>3. IInv => TypeOK /\ LogIsLiveSuffix /\ AtMostLimitPerWindow
  BY LogsAreSuffixes DEF IInv, Typing, Bounded, TypeOK
<1> QED BY <1>1, <1>2, <1>3, PTL DEF Spec

LEMMA RefusalIsDeserved ==
  ASSUME IInv, NEW c \in Clients, wall = real, Refuse(c)
  PROVE  Cardinality({i \in 1..Len(accepted[c]) : real - accepted[c][i] < Window}) >= Limit
<1> DEFINE acc == accepted[c]
           live == Live(log[c], wall)
           recent == {i \in 1..Len(acc) : real - acc[i] < Window}
<1>0. /\ Window \in Nat /\ Limit \in Nat /\ wall \in Int /\ real \in Nat
      /\ acc \in Seq(Nat) /\ Len(acc) \in Nat
      /\ \A i \in 1..Len(acc) : acc[i] \in Nat
  BY LimiterParameters, LenProperties, ElementOfSeq DEF IInv, Typing
<1>1. PICK k \in 0..Len(acc) :
        /\ Len(live) = Len(acc) - k
        /\ \A i \in 1..Len(live) : IsStampOf(live[i], acc[k + i], real, wall, sweeps)
        /\ k < Len(acc) => wall - live[1] < Window
  BY <1>0, LiveFacts
<1>2. Len(acc) - k >= Limit /\ k \in Nat
  BY <1>0, <1>1 DEF Refuse
<1> HIDE DEF live
<1>a. k < Len(acc) => wall - acc[k + 1] < Window
  <2> SUFFICES ASSUME k < Len(acc) PROVE wall - acc[k + 1] < Window
    OBVIOUS
  <2> HIDE DEF acc
  <2>1. 1 \in 1..Len(live) /\ k + 1 \in 1..Len(acc)
    BY <1>0, <1>1, <1>2
  <2>2. IsStampOf(live[1], acc[k + 1], real, wall, sweeps) /\ acc[k + 1] \in Nat
    BY <1>0, <1>1, <2>1
  <2>3. live[1] = acc[k + 1]
    BY <1>0, <2>2 DEF IsStampOf
  <2> QED BY <1>1, <2>3
<1>3. k+1..Len(acc) \subseteq recent
  <2> SUFFICES ASSUME NEW i \in k+1..Len(acc) PROVE i \in recent
    OBVIOUS
  <2>1. i \in 1..Len(acc) /\ k < Len(acc) /\ k + 1 \in 1..i /\ k + 1 \in 1..Len(acc)
    BY <1>0, <1>2
  <2>2. acc[k + 1] <= acc[i]
    BY <2>1 DEF IInv, AcceptedInOrder
  <2> HIDE DEF acc
  <2>3. real - acc[i] < Window
    <3>1. wall - acc[k + 1] < Window
      BY <1>a, <2>1
    <3>2. /\ acc[i] \in Nat /\ acc[k + 1] \in Nat
          /\ Window \in Nat /\ wall \in Int /\ wall = real
      BY <1>0, <2>1
    <3> QED BY <2>2, <3>1, <3>2
  <2> QED BY <2>1, <2>3
<1>4. IsFiniteSet(recent)
  <2> HIDE DEF acc
  <2>1. IsFiniteSet(1..Len(acc)) /\ recent \subseteq 1..Len(acc)
    BY <1>0, FS_Interval
  <2> QED BY <2>1, FS_Subset
<1> HIDE DEF recent, acc
<1>5. Cardinality(k+1..Len(acc)) <= Cardinality(recent)
  BY <1>3, <1>4, FS_Subset
<1>6. Cardinality(k+1..Len(acc)) >= Limit
  <2>1. ASSUME NEW a \in Int, NEW b \in Int
        PROVE  Cardinality(a..b) = IF a > b THEN 0 ELSE b - a + 1
    BY FS_Interval
  <2>2. k + 1 \in Int /\ Len(acc) \in Int
    BY <1>0, <1>2
  <2>3. Cardinality(k+1..Len(acc)) = IF k+1 > Len(acc) THEN 0 ELSE Len(acc) - (k+1) + 1
    BY <2>1, <2>2
  <2> QED BY <1>0, <1>2, <2>3
<1>7. Cardinality(recent) \in Nat /\ Cardinality(k+1..Len(acc)) \in Nat
  BY <1>0, <1>2, <1>4, FS_Interval, FS_CardinalityType
<1>8. Cardinality(recent) >= Limit
  BY <1>0, <1>5, <1>6, <1>7
<1> QED BY <1>8 DEF recent, acc

(* Until the clock is set back, rate_limiter never refuses a client that has *)
(* a free slot in the last window.                                             *)
THEOREM RefusalsDeserved ==
  ASSUME SmallStepsBack
  PROVE  Spec => RefusalsAreDeserved
<1>1. Init => IInv
  BY InitIInv
<1>2. IInv /\ [Next]_vars => IInv'
  BY StepIInv
<1>3. IInv => \A c \in Clients : wall = real /\ Refuse(c) =>
        Cardinality({i \in 1..Len(accepted[c]) : real - accepted[c][i] < Window}) >= Limit
  BY RefusalIsDeserved
<1> QED BY <1>1, <1>2, <1>3, PTL DEF Spec, RefusalsAreDeserved
-----------------------------------------------------------------------------
(* The header of an untrusted sender's request over trusted proxies ends with *)
(* its address and trusted ones.                                               *)
LEMMA SenderIsLastUntrusted ==
  ASSUME NEW r \in Requests, ~IsTrusted(r.sender), r.proxies # <<>>
  PROVE  LET k == Len(r.written) + 1
         IN  /\ k \in DOMAIN Hops(r) /\ Hops(r)[k] = r.sender
             /\ \A j \in DOMAIN Hops(r) : j > k => IsTrusted(Hops(r)[j])
<1> DEFINE w == r.written
           p == r.proxies
           after == SubSeq(p, 1, Len(p) - 1)
           tail == <<r.sender>> \o after
<1>1. w \in Seq(Clients) /\ p \in Seq(Trusted) /\ r.sender \in Clients /\ Len(p) \in Nat /\ Len(p) > 0
  BY RequestParameters, EmptySeq, LenProperties
<1>2. Hops(r) = w \o tail
  BY DEF Hops
<1> HIDE DEF w, p
<1>3. /\ after \in Seq(Trusted) /\ Len(after) = Len(p) - 1
      /\ \A i \in 1..Len(after) : after[i] \in Trusted
  <2>1. \A i \in 1..Len(p) - 1 : p[i] \in Trusted
    BY <1>1, ElementOfSeq
  <2>2. after \in Seq(Trusted) /\ Len(after) = IF 1 <= Len(p) - 1 THEN Len(p) - 1 - 1 + 1 ELSE 0
    BY <1>1, <2>1, SubSeqProperties
  <2>3. \A i \in 1..Len(after) : after[i] \in Trusted
    BY <2>2, ElementOfSeq
  <2> HIDE DEF after
  <2>4. Len(after) = Len(p) - 1
    <3>1. Len(p) \in Nat /\ Len(p) > 0 /\ Len(after) = IF 1 <= Len(p) - 1 THEN Len(p) - 1 - 1 + 1 ELSE 0
      BY <1>1, <2>2
    <3> QED BY <3>1
  <2> QED BY <2>2, <2>3, <2>4
<1> HIDE DEF after
<1>4. /\ Len(tail) = Len(after) + 1 /\ tail[1] = r.sender /\ tail \in Seq(Clients \cup Trusted)
      /\ \A i \in 2..Len(tail) : tail[i] \in Trusted
  <2>1. after \in Seq(Clients \cup Trusted) /\ <<r.sender>> \in Seq(Clients \cup Trusted)
    BY <1>1, <1>3
  <2>2. /\ tail \in Seq(Clients \cup Trusted) /\ Len(tail) = 1 + Len(after)
        /\ \A i \in 1..1 + Len(after) :
             tail[i] = IF i <= 1 THEN <<r.sender>>[i] ELSE after[i - 1]
    BY <2>1, ConcatProperties
  <2>3. Len(after) \in Nat
    BY <1>3, LenProperties
  <2> QED BY <1>3, <2>2, <2>3
<1> HIDE DEF tail
<1>5. w \in Seq(Clients \cup Trusted) /\ Len(w) \in Nat /\ Len(after) \in Nat
  BY <1>1, <1>3, LenProperties
<1>6. /\ DOMAIN Hops(r) = 1..Len(w) + Len(tail)
      /\ \A i \in 1..Len(w) + Len(tail) :
           Hops(r)[i] = IF i <= Len(w) THEN w[i] ELSE tail[i - Len(w)]
  <2>1. /\ w \o tail \in Seq(Clients \cup Trusted) /\ Len(w \o tail) = Len(w) + Len(tail)
        /\ \A i \in 1..Len(w) + Len(tail) :
             (w \o tail)[i] = IF i <= Len(w) THEN w[i] ELSE tail[i - Len(w)]
    BY <1>4, <1>5, ConcatProperties
  <2> QED BY <1>2, <2>1, LenProperties
<1>7. Hops(r)[Len(w) + 1] = r.sender /\ Len(w) + 1 \in DOMAIN Hops(r)
  BY <1>4, <1>5, <1>6
<1>8. \A j \in DOMAIN Hops(r) : j > Len(w) + 1 => IsTrusted(Hops(r)[j])
  <2> SUFFICES ASSUME NEW j \in DOMAIN Hops(r), j > Len(w) + 1 PROVE Hops(r)[j] \in Trusted
    BY DEF IsTrusted
  <2>1. j - Len(w) \in 2..Len(tail) /\ Hops(r)[j] = tail[j - Len(w)]
    BY <1>4, <1>5, <1>6
  <2> QED BY <1>4, <2>1
<1> QED BY <1>7, <1>8 DEF w

(* Whatever it wrote into X-Forwarded-For, and over any number of trusted      *)
(* proxies, an untrusted sender's request is counted under its own address.     *)
LEMMA SenderIsCounted ==
  ASSUME NEW r \in Requests, ~IsTrusted(r.sender)
  PROVE  ClientIp(r) = r.sender
<1>1. CASE r.proxies = <<>>
  BY <1>1 DEF ClientIp, Peer
<1>2. CASE r.proxies # <<>>
  <2> DEFINE ips == Hops(r)
             untrusted == {i \in DOMAIN ips : ~IsTrusted(ips[i])}
             k == Len(r.written) + 1
  <2>1. IsTrusted(Peer(r))
    <3>1. r.proxies \in Seq(Trusted) /\ Len(r.proxies) \in 1..Len(r.proxies)
      BY <1>2, RequestParameters, EmptySeq, LenProperties
    <3> QED BY <1>2, <3>1, ElementOfSeq DEF Peer, IsTrusted
  <2>2. /\ k \in untrusted /\ ips[k] = r.sender /\ k \in Nat
        /\ \A j \in DOMAIN ips : j > k => IsTrusted(ips[j])
    BY <1>2, SenderIsLastUntrusted, RequestParameters, LenProperties
  <2>3. DOMAIN ips \subseteq Int
    <3>1. ips \in Seq(Clients \cup Trusted)
      <4>1. /\ r.written \in Seq(Clients \cup Trusted)
            /\ r.proxies \in Seq(Trusted)
            /\ <<r.sender>> \in Seq(Clients \cup Trusted)
            /\ Len(r.proxies) - 1 \in Int
        BY RequestParameters, LenProperties
      <4>2. SubSeq(r.proxies, 1, Len(r.proxies) - 1) \in Seq(Clients \cup Trusted)
        <5>1. \A i \in 1..Len(r.proxies) - 1 : r.proxies[i] \in Clients \cup Trusted
          BY <4>1, ElementOfSeq, LenProperties
        <5> QED BY <4>1, <5>1, SubSeqProperties
      <4> QED BY <1>2, <4>1, <4>2, ConcatProperties DEF Hops
    <3> QED BY <3>1, LenProperties
  <2> HIDE DEF ips, k
  <2>4. \A j \in untrusted : j <= k
    BY <2>2, <2>3
  <2>5. (CHOOSE i \in untrusted : \A j \in untrusted : j <= i) = k
    <3> DEFINE m == CHOOSE i \in untrusted : \A j \in untrusted : j <= i
    <3>1. m \in untrusted /\ \A j \in untrusted : j <= m
      BY <2>2, <2>4
    <3>2. m <= k /\ k <= m /\ m \in Int
      BY <2>2, <2>3, <2>4, <3>1
    <3> QED BY <2>2, <3>2
  <2>6. ClientIp(r) = ips[CHOOSE i \in untrusted : \A j \in untrusted : j <= i]
    BY <2>1, <2>2 DEF ClientIp, ips
  <2> QED BY <2>2, <2>5, <2>6
<1> QED BY <1>1, <1>2

(* Slots hold requests once one has arrived. *)
Stages == {"idle", "arrived", "reading", "key", "limit", "handling", "answered"}
Connections ==
  [request : Requests \cup {Nothing}, stage : Stages, read : Nat, chunk : Nat \ {0}, status : Nat]

SlotsHoldRequests ==
  /\ conn \in [Slots -> Connections]
  /\ \A s \in Slots : conn[s].stage # "idle" => conn[s].request \in Requests

(* The order of the dependencies. *)
LEMMA KeyThenLimit ==
  Dependencies[1] = "key" /\ After("key") = "limit" /\ After("limit") = "handling"
<1>1. Dependencies = <<"key", "limit">> /\ Len(Dependencies) = 2 /\ DOMAIN Dependencies = 1..2
  BY DEF Dependencies
<1>2. \A k \in 1..2 : (Dependencies[k] = "key" <=> k = 1) /\ (Dependencies[k] = "limit" <=> k = 2)
  BY <1>1
<1>3. (CHOOSE k \in 1..2 : Dependencies[k] = "key") = 1
  BY <1>2
<1>4. (CHOOSE k \in 1..2 : Dependencies[k] = "limit") = 2
  BY <1>2
<1> QED BY <1>1, <1>3, <1>4 DEF After

(* Where a slot changes and to what is all that matters here. *)
LEMMA SlotChanges ==
  ASSUME SlotsHoldRequests, NEW s \in Slots, NEW to \in Connections,
         conn' = [conn EXCEPT ![s] = to], to.stage # "idle" => to.request \in Requests
  PROVE  SlotsHoldRequests'
BY DEF SlotsHoldRequests

LEMMA SlotsStart == PathInit => SlotsHoldRequests
<1>1. Idle \in Connections /\ Idle.stage = "idle"
  BY DEF Idle, Connections, Stages
<1> QED BY <1>1 DEF PathInit, SlotsHoldRequests

LEMMA SlotsStep == ASSUME SlotsHoldRequests, [PathNext]_pathVars PROVE SlotsHoldRequests'
<1>1. ASSUME NEW s \in Slots, NEW r \in Requests, Arrive(s, r) PROVE SlotsHoldRequests'
  <2> DEFINE to == [Idle EXCEPT !.request = r, !.stage = "arrived"]
  <2>1. to \in Connections /\ to.request = r
    <3>1. Idle \in Connections
      BY DEF Idle, Connections, Stages
    <3> QED BY <3>1 DEF Connections, Stages
  <2>2. conn' = [conn EXCEPT ![s] = to]
    BY <1>1 DEF Arrive
  <2> HIDE DEF to
  <2> QED BY <2>1, <2>2, SlotChanges
<1>2. ASSUME NEW s \in Slots, NEW code \in Nat, ~At(s, "idle"), Answer(s, code)
      PROVE  SlotsHoldRequests'
  <2> DEFINE to == [conn[s] EXCEPT !.stage = "answered", !.status = code]
  <2>1. conn[s] \in Connections /\ conn[s].request \in Requests
    BY <1>2 DEF SlotsHoldRequests, At
  <2>2. to \in Connections /\ to.request \in Requests
    BY <2>1 DEF Connections, Stages
  <2>3. conn' = [conn EXCEPT ![s] = to]
    BY <1>2, <2>1 DEF Answer
  <2> HIDE DEF to
  <2> QED BY <2>2, <2>3, SlotChanges
<1>3. ASSUME NEW s \in Slots, NEW stage \in Stages, ~At(s, "idle"), Goes(s, stage)
      PROVE  SlotsHoldRequests'
  <2> DEFINE to == [conn[s] EXCEPT !.stage = stage]
  <2>1. conn[s] \in Connections /\ conn[s].request \in Requests
    BY <1>3 DEF SlotsHoldRequests, At
  <2>2. to \in Connections /\ to.request \in Requests
    BY <2>1 DEF Connections
  <2>3. conn' = [conn EXCEPT ![s] = to]
    BY <1>3, <2>1 DEF Goes
  <2> HIDE DEF to
  <2> QED BY <2>2, <2>3, SlotChanges
<1>4. ASSUME NEW s \in Slots, TooLargeAsDeclared(s) \/ Route(s) PROVE SlotsHoldRequests'
  <2>1. ~At(s, "idle") /\ {"reading", "key"} \subseteq Stages
    BY <1>4 DEF TooLargeAsDeclared, Route, At, Stages
  <2>2. \/ \E code \in Nat : Answer(s, code)
        \/ Goes(s, "reading") \/ Goes(s, "key")
    BY <1>4, KeyThenLimit DEF TooLargeAsDeclared, Route
  <2> QED BY <1>2, <1>3, <2>1, <2>2
<1>5. ASSUME NEW s \in Slots, ReadChunk(s) PROVE SlotsHoldRequests'
  <2>1. /\ Req(s) \in Requests /\ conn[s].stage = "reading"
        /\ conn[s].chunk \in 1..Len(Req(s).chunks)
    <3>1. Req(s) \in Requests /\ conn[s].stage = "reading"
      BY <1>5 DEF ReadChunk, Reads, At, Req, SlotsHoldRequests
    <3>2. conn[s].chunk <= Len(Req(s).chunks) /\ conn[s].chunk \in Nat \ {0}
      BY <1>5 DEF ReadChunk, Reads, SlotsHoldRequests, Connections
    <3>3. Len(Req(s).chunks) \in Nat
      BY <3>1, RequestParameters, LenProperties
    <3> QED BY <3>1, <3>2, <3>3
  <2>2. ChunkLen(s) \in Nat
    BY <2>1, RequestParameters, ElementOfSeq DEF ChunkLen
  <2> DEFINE to == [conn[s] EXCEPT !.read = @ + ChunkLen(s), !.chunk = @ + 1]
  <2>3. conn[s] \in Connections
    BY DEF SlotsHoldRequests
  <2>4. conn' = [conn EXCEPT ![s] = to]
    <3>1. conn' = [conn EXCEPT ![s].read = @ + ChunkLen(s), ![s].chunk = @ + 1]
      BY <1>5 DEF ReadChunk
    <3> QED BY <2>3, <3>1 DEF SlotsHoldRequests, Connections
  <2>5. to \in Connections /\ to.request \in Requests
    <3>1. conn[s].read + ChunkLen(s) \in Nat /\ conn[s].chunk + 1 \in Nat \ {0}
      BY <2>2, <2>3 DEF Connections
    <3> HIDE DEF ChunkLen
    <3> QED BY <2>1, <2>3, <3>1 DEF Connections, Req
  <2> HIDE DEF to
  <2> QED BY <2>4, <2>5, SlotChanges
<1>6. ASSUME NEW s \in Slots, TooLargeAsRead(s) \/ BodyRead(s) PROVE SlotsHoldRequests'
  <2>1. ~At(s, "idle") /\ "key" \in Stages
    BY <1>6 DEF TooLargeAsRead, BodyRead, Reads, At, Stages
  <2>2. Goes(s, "key") \/ \E code \in Nat : Answer(s, code)
    BY <1>6, KeyThenLimit DEF TooLargeAsRead, BodyRead
  <2> QED BY <1>2, <1>3, <2>1, <2>2
<1>7. ASSUME NEW s \in Slots, Unauthorized(s) \/ Authorized(s) \/ Limited(s) \/ Passes(s)
      PROVE  SlotsHoldRequests'
  <2>1. ~At(s, "idle") /\ {"limit", "handling"} \subseteq Stages
    BY <1>7 DEF Unauthorized, Authorized, Limited, Passes, At, Stages
  <2>2. Goes(s, "limit") \/ Goes(s, "handling") \/ \E code \in Nat : Answer(s, code)
    BY <1>7, KeyThenLimit DEF Unauthorized, Authorized, Limited, Passes
  <2> QED BY <1>2, <1>3, <2>1, <2>2
<1>8. ASSUME NEW s \in Slots, Download(s) \/ Convert(s) PROVE SlotsHoldRequests'
  <2>1. ~At(s, "idle") /\ \E code \in Nat : Answer(s, code)
    BY <1>8 DEF Download, DownloadStatus, Convert, At
  <2> QED BY <1>2, <2>1
<1>9. CASE Environment
  BY <1>9 DEF Environment, SlotsHoldRequests
<1>10. CASE UNCHANGED pathVars
  BY <1>10 DEF pathVars, SlotsHoldRequests
<1> QED BY <1>1, <1>4, <1>5, <1>6, <1>7, <1>8, <1>9, <1>10 DEF PathNext

(* What the limiter sees of a step of the request path. *)
LEMMA PathStep == ASSUME SlotsHoldRequests, [PathNext]_pathVars PROVE [Next]_vars
<1>1. ASSUME NEW s \in Slots, Limited(s) \/ Passes(s) PROVE Next
  <2>1. ClientIp(Req(s)) \in Clients
    BY <1>1, AddressesAreClients DEF SlotsHoldRequests, Limited, Passes, At, Req
  <2> QED BY <1>1, <2>1 DEF Limited, Passes, Next
<1>2. ASSUME NEW s \in Slots,
             \/ \E r \in Requests : Arrive(s, r)
             \/ TooLargeAsDeclared(s) \/ Route(s) \/ ReadChunk(s) \/ TooLargeAsRead(s) \/ BodyRead(s)
             \/ Unauthorized(s) \/ Authorized(s) \/ Download(s) \/ Convert(s)
      PROVE  UNCHANGED vars
  BY <1>2 DEF Arrive, TooLargeAsDeclared, Route, ReadChunk, TooLargeAsRead, BodyRead, Unauthorized,
              Authorized, Download, Convert
<1>3. CASE Environment
  BY <1>3 DEF Environment, Next
<1>4. CASE UNCHANGED pathVars
  BY <1>4 DEF pathVars
<1> QED BY <1>1, <1>2, <1>3, <1>4 DEF PathNext

LEMMA PathCounts ==
  ASSUME SlotsHoldRequests, PathNext, NEW c \in Clients, accepted'[c] # accepted[c]
  PROVE  \E s \in Slots : conn'[s] # conn[s] /\ (~IsTrusted(Req(s).sender) => Req(s).sender = c)
<1>1. PICK s \in Slots : Passes(s)
  <2>1. ASSUME Environment PROVE accepted' = accepted
    BY <2>1 DEF Environment, Tick, ClockJumps, CleanBatch
  <2>2. ASSUME NEW s \in Slots,
               \/ \E r \in Requests : Arrive(s, r)
               \/ TooLargeAsDeclared(s) \/ Route(s) \/ ReadChunk(s) \/ TooLargeAsRead(s) \/ BodyRead(s)
               \/ Unauthorized(s) \/ Authorized(s) \/ Limited(s) \/ Download(s) \/ Convert(s)
        PROVE  accepted' = accepted
    BY <2>2 DEF Arrive, TooLargeAsDeclared, Route, ReadChunk, TooLargeAsRead, BodyRead, Unauthorized,
                Authorized, Limited, Refuse, Download, Convert, vars
  <2> QED BY <2>1, <2>2 DEF PathNext
<1>2. Req(s) \in Requests /\ conn[s].stage = "limit"
  BY <1>1 DEF SlotsHoldRequests, Passes, At, Req
<1>3. c = ClientIp(Req(s))
  BY <1>1 DEF Passes, Admit
<1>4. conn'[s] # conn[s]
  <2>1. conn[s] \in Connections /\ s \in DOMAIN conn
    BY DEF SlotsHoldRequests
  <2>2. conn'[s].stage = "handling"
    BY <1>1, <2>1, KeyThenLimit DEF Passes, Goes, Connections
  <2> QED BY <1>2, <2>2
<1>5. ~IsTrusted(Req(s).sender) => Req(s).sender = c
  BY <1>2, <1>3, SenderIsCounted
<1> QED BY <1>4, <1>5

-----------------------------------------------------------------------------
(* Induction over the natural numbers, for a set of them.                     *)
LEMMA Induction ==
  ASSUME NEW A \in SUBSET Nat, 0 \in A, \A n \in A : n + 1 \in A
  PROVE  A = Nat
<1> SUFFICES ASSUME Nat \ A # {} PROVE FALSE
  OBVIOUS
<1>1. PICK m \in Nat \ A : \A y \in Nat \ A : m <= y
  BY LeastIndex
<1>2. m # 0 /\ m - 1 \in Nat /\ ~(m <= m - 1) /\ (m - 1) + 1 = m
  BY <1>1
<1>3. m - 1 \in A
  BY <1>1, <1>2
<1> QED BY <1>1, <1>2, <1>3

(* f[k] is the length of the first k chunks of c, for each k up to n.          *)
Totals(f, c, n) ==
  /\ f \in [0..n -> Nat] /\ f[0] = 0
  /\ \A k \in 1..n : f[k] = f[k - 1] + c[k]

LEMMA TotalsExist ==
  ASSUME NEW c \in Seq(Nat), NEW n \in 0..Len(c)
  PROVE  \E f : Totals(f, c, n)
<1> DEFINE A == {m \in Nat : m <= Len(c) => \E f : Totals(f, c, m)}
<1>1. Len(c) \in Nat /\ \A k \in 1..Len(c) : c[k] \in Nat
  BY LenProperties, ElementOfSeq
<1>2. 0 \in A
  <2> DEFINE f == [k \in 0..0 |-> 0]
  <2>1. Totals(f, c, 0)
    BY DEF Totals
  <2> QED BY <2>1
<1>3. ASSUME NEW m \in A PROVE m + 1 \in A
  <2> SUFFICES ASSUME m + 1 <= Len(c) PROVE \E f : Totals(f, c, m + 1)
    OBVIOUS
  <2>1. m \in Nat /\ m <= Len(c) /\ c[m + 1] \in Nat
    BY <1>1
  <2>2. PICK f : Totals(f, c, m)
    BY <2>1
  <2> DEFINE g == [k \in 0..m + 1 |-> IF k = m + 1 THEN f[m] + c[m + 1] ELSE f[k]]
  <2>3. g \in [0..m + 1 -> Nat] /\ g[0] = 0
    <3>1. f \in [0..m -> Nat] /\ f[0] = 0 /\ f[m] \in Nat
      BY <2>1, <2>2 DEF Totals
    <3>2. ASSUME NEW k \in 0..m + 1 PROVE g[k] \in Nat
      BY <2>1, <3>1
    <3>3. 0 \in 0..m + 1 /\ 0 # m + 1
      BY <2>1
    <3> QED BY <3>1, <3>2, <3>3
  <2>4. ASSUME NEW k \in 1..m + 1 PROVE g[k] = g[k - 1] + c[k]
    <3>1. k \in 0..m + 1 /\ k - 1 \in 0..m + 1 /\ k - 1 # m + 1
      BY <2>1
    <3>2. CASE k = m + 1
      <4>1. k - 1 = m
        BY <2>1, <3>2
      <4> QED BY <3>1, <3>2, <4>1
    <3>3. CASE k # m + 1
      <4>1. k \in 1..m
        BY <2>1, <3>3
      <4>2. f[k] = f[k - 1] + c[k]
        BY <2>2, <4>1 DEF Totals
      <4> QED BY <3>1, <3>3, <4>2
    <3> QED BY <3>2, <3>3
  <2> HIDE DEF g
  <2> QED BY <2>3, <2>4 DEF Totals
<1> HIDE DEF A
<1>4. A = Nat
  BY <1>2, <1>3, Induction DEF A
<1> QED BY <1>1, <1>4 DEF A

(* What BodyLen adds up.                                                       *)
Sums(f, c) == f = [k \in 0..Len(c) |-> IF k = 0 THEN 0 ELSE f[k - 1] + c[k]]

RunningLen(c) == CHOOSE f : Sums(f, c)

LEMMA RunningLenTotals ==
  ASSUME NEW c \in Seq(Nat)
  PROVE  Totals(RunningLen(c), c, Len(c)) /\ BodyLen(c) = RunningLen(c)[Len(c)]
<1>1. Len(c) \in Nat /\ \A k \in 1..Len(c) : c[k] \in Nat
  BY LenProperties, ElementOfSeq
<1>2. PICK g : Totals(g, c, Len(c))
  BY <1>1, TotalsExist
<1>3. Sums(g, c)
  BY <1>1, <1>2 DEF Totals, Sums
<1>4. Sums(RunningLen(c), c)
  BY <1>3 DEF RunningLen
<1> DEFINE f == RunningLen(c)
<1> HIDE DEF f
<1>5. /\ f = [k \in 0..Len(c) |-> IF k = 0 THEN 0 ELSE f[k - 1] + c[k]]
  BY <1>4 DEF Sums, f
<1>6. DOMAIN f = 0..Len(c)
  BY <1>5
<1>6a. \A k \in 0..Len(c) : f[k] = IF k = 0 THEN 0 ELSE f[k - 1] + c[k]
  BY <1>5
<1>7. \A k \in 0..Len(c) : f[k] \in Nat
  <2> DEFINE A == {k \in Nat : k <= Len(c) => f[k] \in Nat}
  <2>1. 0 \in A
    BY <1>1, <1>6a
  <2>2. ASSUME NEW k \in A PROVE k + 1 \in A
    BY <1>1, <1>6a
  <2> HIDE DEF A
  <2>3. A = Nat
    BY <2>1, <2>2, Induction DEF A
  <2> QED BY <1>1, <2>3 DEF A
<1>7a. f = [k \in 0..Len(c) |-> f[k]]
  BY <1>5
<1>8. f \in [0..Len(c) -> Nat]
  BY <1>7, <1>7a
<1>9. BodyLen(c) = f[Len(c)]
  BY DEF BodyLen, f, RunningLen, Sums
<1> QED BY <1>1, <1>6a, <1>8, <1>9 DEF Totals, f

(* What has been read of a body is the length of the chunks that have come,    *)
(* within the limit; a conversion leaves the reading with all of them; and      *)
(* there is no status before the answer.                                         *)
SlotInv(slot) ==
  LET c == slot.request.chunks IN
    /\ slot.stage # "answered" => slot.status = 0
    /\ slot.stage = "arrived" => slot.read = 0 /\ slot.chunk = 1
    /\ slot.stage = "reading" => /\ slot.chunk <= Len(c) + 1
                                 /\ slot.read = RunningLen(c)[slot.chunk - 1]
                                 /\ slot.read <= MaxBody
    /\ slot.stage \in {"key", "limit", "handling"} /\ slot.request.route = "convert" =>
         BodyLen(c) <= MaxBody

SlotsInv == \A s \in Slots : SlotInv(conn[s])

LEMMA SlotsInvChanges ==
  ASSUME SlotsHoldRequests, SlotsInv, NEW s \in Slots, NEW to,
         conn' = [conn EXCEPT ![s] = to], SlotInv(to)
  PROVE  SlotsInv'
BY DEF SlotsHoldRequests, SlotsInv

LEMMA AnswersKeepSlotsInv ==
  ASSUME SlotsHoldRequests, SlotsInv, NEW s \in Slots, NEW code \in Nat, Answer(s, code)
  PROVE  SlotsInv'
<1> DEFINE to == [conn[s] EXCEPT !.stage = "answered", !.status = code]
<1>1. conn[s] \in Connections
  BY DEF SlotsHoldRequests
<1>2. conn' = [conn EXCEPT ![s] = to] /\ to.stage = "answered"
  BY <1>1 DEF Answer, Connections
<1> HIDE DEF to
<1>3. SlotInv(to)
  BY <1>2 DEF SlotInv
<1> QED BY <1>2, <1>3, SlotsInvChanges

LEMMA BodyStep ==
  ASSUME SlotsHoldRequests, SlotsInv, [PathNext]_pathVars
  PROVE  SlotsInv'
<1>0. ASSUME NEW s \in Slots
      PROVE  /\ conn[s] \in Connections /\ SlotInv(conn[s])
             /\ conn[s].stage # "idle" => Req(s) \in Requests /\ Req(s).chunks \in Seq(Nat)
  BY RequestParameters DEF SlotsHoldRequests, SlotsInv, Req
<1>1. ASSUME NEW s \in Slots, NEW r \in Requests, Arrive(s, r) PROVE SlotsInv'
  <2> DEFINE to == [Idle EXCEPT !.request = r, !.stage = "arrived"]
  <2>1. to.stage = "arrived" /\ to.read = 0 /\ to.chunk = 1 /\ to.status = 0
    BY DEF Idle
  <2>2. conn' = [conn EXCEPT ![s] = to]
    BY <1>1 DEF Arrive
  <2> HIDE DEF to
  <2>3. SlotInv(to)
    BY <2>1 DEF SlotInv
  <2> QED BY <2>2, <2>3, SlotsInvChanges
<1>2. ASSUME NEW s \in Slots, TooLargeAsDeclared(s) \/ TooLargeAsRead(s) \/ Unauthorized(s)
                              \/ Limited(s) \/ Download(s) \/ Convert(s)
      PROVE  SlotsInv'
  <2>1. \E code \in Nat : Answer(s, code)
    BY <1>2 DEF TooLargeAsDeclared, TooLargeAsRead, Unauthorized, Limited, Download, DownloadStatus,
                Convert
  <2> QED BY <2>1, AnswersKeepSlotsInv
<1>3. ASSUME NEW s \in Slots, NEW stage, conn[s].stage # "idle", Goes(s, stage),
             stage = "key" =>
               (Req(s).route = "convert" => BodyLen(Req(s).chunks) <= MaxBody),
             conn[s].stage # "answered",
             stage = "reading" => conn[s].read = 0 /\ conn[s].chunk = 1,
             stage \in {"limit", "handling"} => conn[s].stage \in {"key", "limit"},
             stage \in {"reading", "key", "limit", "handling"}
      PROVE  SlotsInv'
  <2> DEFINE to == [conn[s] EXCEPT !.stage = stage]
  <2>1. /\ to.stage = stage /\ to.request = conn[s].request
        /\ to.read = conn[s].read /\ to.chunk = conn[s].chunk /\ to.status = conn[s].status
    BY <1>0 DEF Connections
  <2>2. conn' = [conn EXCEPT ![s] = to]
    BY <1>0, <1>3 DEF Goes
  <2> HIDE DEF to
  <2>3. Len(Req(s).chunks) \in Nat /\ RunningLen(Req(s).chunks)[0] = 0
    BY <1>0, <1>3, LenProperties, RunningLenTotals DEF Totals
  <2>4. SlotInv(to)
    BY <1>0, <1>3, <2>1, <2>3, RequestParameters DEF SlotInv, Req
  <2> QED BY <2>2, <2>4, SlotsInvChanges
<1>4. ASSUME NEW s \in Slots, Route(s) PROVE SlotsInv'
  <2>1. conn[s].stage = "arrived" /\ conn[s].read = 0 /\ conn[s].chunk = 1
    BY <1>0, <1>4 DEF Route, At, SlotInv
  <2>2. \/ \E code \in Nat : Answer(s, code)
        \/ Goes(s, "reading")
        \/ Goes(s, "key") /\ Req(s).route # "convert"
    BY <1>4, KeyThenLimit DEF Route
  <2> QED BY <1>3, <2>1, <2>2, AnswersKeepSlotsInv
<1>5. ASSUME NEW s \in Slots, ReadChunk(s) PROVE SlotsInv'
  <2> DEFINE c == Req(s).chunks
             i == conn[s].chunk
             to == [conn[s] EXCEPT !.read = @ + ChunkLen(s), !.chunk = @ + 1]
  <2>1. conn[s].stage = "reading" /\ i \in Nat \ {0} /\ c \in Seq(Nat) /\ conn[s].read \in Nat
    BY <1>0, <1>5 DEF ReadChunk, Reads, At, Connections
  <2>2. i \in 1..Len(c) /\ ChunkLen(s) = c[i] /\ conn[s].read + ChunkLen(s) <= MaxBody
    <3>1. i <= Len(c) /\ ~(conn[s].read + ChunkLen(s) > MaxBody)
      BY <1>5 DEF ReadChunk, Reads, Overflows
    <3>2. ChunkLen(s) \in Nat /\ MaxBody \in Nat
      BY <2>1, <3>1, RequestParameters, ElementOfSeq, LenProperties DEF ChunkLen
    <3> QED BY <2>1, <3>1, <3>2, LenProperties DEF ChunkLen
  <2>3. conn[s].read = RunningLen(c)[i - 1]
    BY <1>0, <2>1 DEF SlotInv, Req
  <2>4. RunningLen(c)[i] = RunningLen(c)[i - 1] + c[i]
    BY <2>1, <2>2, RunningLenTotals DEF Totals
  <2>5. conn' = [conn EXCEPT ![s] = to]
    <3>1. conn' = [conn EXCEPT ![s].read = @ + ChunkLen(s), ![s].chunk = @ + 1]
      BY <1>5 DEF ReadChunk
    <3> QED BY <1>0, <3>1 DEF SlotsHoldRequests, Connections
  <2>6. /\ to.stage = "reading" /\ to.request = Req(s)
        /\ to.read = conn[s].read + ChunkLen(s) /\ to.chunk = i + 1 /\ to.status = 0
    BY <1>0, <2>1 DEF Connections, Req, SlotInv
  <2> HIDE DEF to, i, ChunkLen
  <2>7. (i + 1) - 1 = i /\ i + 1 <= Len(c) + 1
    BY <2>1, <2>2, LenProperties
  <2>8. SlotInv(to)
    BY <2>2, <2>3, <2>4, <2>6, <2>7 DEF SlotInv
  <2> QED BY <2>5, <2>8, SlotsInvChanges
<1>6. ASSUME NEW s \in Slots, BodyRead(s) PROVE SlotsInv'
  <2> DEFINE c == Req(s).chunks
  <2>1. conn[s].stage = "reading" /\ c \in Seq(Nat) /\ conn[s].chunk \in Nat
    BY <1>0, <1>6 DEF BodyRead, At, Connections
  <2>2. conn[s].chunk - 1 = Len(c)
    BY <1>0, <1>6, <2>1, LenProperties DEF BodyRead, SlotInv, Req
  <2>3. BodyLen(c) <= MaxBody
    BY <1>0, <2>1, <2>2, RunningLenTotals DEF SlotInv, Req
  <2> QED BY <1>3, <1>6, <2>1, <2>3, KeyThenLimit DEF BodyRead
<1>7. ASSUME NEW s \in Slots, Authorized(s) \/ Passes(s) PROVE SlotsInv'
  BY <1>3, <1>7, KeyThenLimit DEF Authorized, Passes, At
<1>8. CASE UNCHANGED conn
  BY <1>8 DEF SlotsInv
<1> QED BY <1>1, <1>2, <1>4, <1>5, <1>6, <1>7, <1>8 DEF PathNext, Environment, pathVars

(* The slots in which a handler is at work for a client. *)
HandledIn(cn, c) == {s \in Slots : cn[s].stage = "handling" /\ ClientIp(cn[s].request) = c}

LimitInv ==
  /\ real \in Nat /\ accepted \in [Clients -> Seq(Nat)] /\ served \in [Clients -> Nat]
  /\ LimitIsSpentOnHandling

LEMMA HandledAre ==
  ASSUME NEW c \in Clients
  PROVE  {s \in Slots : At(s, "handling") /\ ClientIp(Req(s)) = c} = HandledIn(conn, c)
BY DEF HandledIn, At, Req

(* A slot that changes is counted once more, once less, or as before.          *)
LEMMA HandledChange ==
  ASSUME NEW f, NEW g, NEW s \in Slots, \A t \in Slots : t # s => g[t] = f[t], NEW c
  PROVE  /\ Cardinality(HandledIn(f, c)) \in Nat /\ Cardinality(HandledIn(g, c)) \in Nat
         /\ (s \in HandledIn(f, c) <=> s \in HandledIn(g, c)) => HandledIn(g, c) = HandledIn(f, c)
         /\ s \notin HandledIn(f, c) /\ s \in HandledIn(g, c) =>
              Cardinality(HandledIn(g, c)) = Cardinality(HandledIn(f, c)) + 1
<1> DEFINE F == HandledIn(f, c)
           G == HandledIn(g, c)
<1>1. F \in SUBSET Slots /\ G \in SUBSET Slots
  BY DEF HandledIn
<1>2. IsFiniteSet(F) /\ IsFiniteSet(G)
  BY <1>1, FiniteSlots, FS_Subset
<1>3. \A t \in Slots : t # s => (t \in F <=> t \in G)
  BY DEF HandledIn
<1> HIDE DEF F, G
<1>4. (s \in F <=> s \in G) => G = F
  BY <1>1, <1>3
<1>5. s \notin F /\ s \in G => G = F \cup {s}
  BY <1>1, <1>3
<1>6. Cardinality(F) \in Nat /\ Cardinality(G) \in Nat
  BY <1>2, FS_CardinalityType
<1>7. s \notin F /\ s \in G => Cardinality(G) = Cardinality(F) + 1
  BY <1>2, <1>5, FS_AddElement
<1> QED BY <1>4, <1>6, <1>7 DEF F, G

(* Only Passes adds to what was accepted, and starts to handle; only an answer *)
(* of a handler adds to what was served, and ends it.                            *)
LEMMA LimitStep ==
  ASSUME SlotsHoldRequests, LimitInv, [PathNext]_pathVars
  PROVE  LimitInv'
<1>0. /\ conn \in [Slots -> Connections]
      /\ \A s \in Slots : conn[s] \in Connections
      /\ \A s \in Slots : conn[s].stage # "idle" => Req(s) \in Requests /\ ClientIp(Req(s)) \in Clients
      /\ \A c \in Clients : /\ Len(accepted[c]) \in Nat /\ served[c] \in Nat
                             /\ Len(accepted[c]) = served[c] + Cardinality(HandledIn(conn, c))
  BY AddressesAreClients, HandledAre, LenProperties
     DEF SlotsHoldRequests, LimitInv, LimitIsSpentOnHandling, Req
<1>1. real' \in Nat /\ (UNCHANGED accepted \/ \E s \in Slots : Passes(s))
  <2>1. [Next]_vars
    BY PathStep
  <2>2. real' \in Nat
    <3>1. real \in Nat
      BY DEF LimitInv
    <3>2. real' = real \/ real' = real + 1
      BY <2>1 DEF Next, Admit, Refuse, CleanBatch, Tick, ClockJumps, vars
    <3> QED BY <3>1, <3>2
  <2>3. ASSUME NEW c \in Clients, Refuse(c) PROVE UNCHANGED accepted
    BY <2>3 DEF Refuse
  <2>4. ASSUME Environment PROVE UNCHANGED accepted
    BY <2>4 DEF Environment, Tick, ClockJumps, CleanBatch
  <2>5. ASSUME NEW s \in Slots, Limited(s) PROVE UNCHANGED accepted
    BY <2>5 DEF Limited, Refuse
  <2>6. ASSUME NEW s \in Slots,
               \/ \E r \in Requests : Arrive(s, r)
               \/ TooLargeAsDeclared(s) \/ Route(s) \/ ReadChunk(s) \/ TooLargeAsRead(s) \/ BodyRead(s)
               \/ Unauthorized(s) \/ Authorized(s) \/ Download(s) \/ Convert(s)
        PROVE  UNCHANGED accepted
    BY <2>6 DEF Arrive, TooLargeAsDeclared, Route, ReadChunk, TooLargeAsRead, BodyRead, Unauthorized,
                Authorized, Download, Convert, vars
  <2> QED BY <2>2, <2>4, <2>5, <2>6 DEF PathNext, pathVars, vars
<1>2. ASSUME NEW s \in Slots, NEW to \in Connections, conn' = [conn EXCEPT ![s] = to],
             UNCHANGED <<accepted, served>>, conn[s].stage # "handling", to.stage # "handling"
      PROVE  LimitInv'
  <2>1. conn'[s] = to /\ \A t \in Slots : t # s => conn'[t] = conn[t]
    BY <1>0, <1>2
  <2>2. ASSUME NEW c \in Clients PROVE HandledIn(conn', c) = HandledIn(conn, c)
    <3>1. s \notin HandledIn(conn, c) /\ s \notin HandledIn(conn', c)
      BY <1>2, <2>1 DEF HandledIn
    <3>2. \A t \in Slots : t # s => conn'[t] = conn[t]
      BY <2>1
    <3> QED BY ONLY s \in Slots, <3>1, <3>2, HandledChange
  <2> QED BY <1>0, <1>1, <1>2, <2>2 DEF LimitInv, LimitIsSpentOnHandling, HandledIn, At, Req
<1>3. ASSUME NEW s \in Slots, NEW code \in Nat, Answer(s, code), conn[s].stage # "handling",
             UNCHANGED <<accepted, served>>
      PROVE  LimitInv'
  <2> DEFINE to == [conn[s] EXCEPT !.stage = "answered", !.status = code]
  <2>1. to \in Connections /\ conn' = [conn EXCEPT ![s] = to] /\ to.stage # "handling"
    BY <1>0, <1>3 DEF Answer, Connections, Stages
  <2> HIDE DEF to
  <2> QED BY <1>2, <1>3, <2>1
<1>4. ASSUME NEW s \in Slots, NEW stage \in Stages \ {"handling"}, Goes(s, stage),
             conn[s].stage # "handling", UNCHANGED <<accepted, served>>
      PROVE  LimitInv'
  <2> DEFINE to == [conn[s] EXCEPT !.stage = stage]
  <2>1. to \in Connections /\ conn' = [conn EXCEPT ![s] = to] /\ to.stage # "handling"
    BY <1>0, <1>4 DEF Goes, Connections
  <2> HIDE DEF to
  <2> QED BY <1>2, <1>4, <2>1
<1>5. ASSUME NEW s \in Slots, NEW r \in Requests, Arrive(s, r), UNCHANGED served PROVE LimitInv'
  <2> DEFINE to == [Idle EXCEPT !.request = r, !.stage = "arrived"]
  <2>1. to \in Connections /\ conn' = [conn EXCEPT ![s] = to] /\ to.stage # "handling"
    <3>1. Idle \in Connections
      BY DEF Idle, Connections, Stages
    <3> QED BY <1>5, <3>1 DEF Arrive, Connections, Stages
  <2>2. conn[s].stage # "handling" /\ UNCHANGED accepted
    BY <1>5 DEF Arrive, vars
  <2> HIDE DEF to
  <2> QED BY <1>2, <1>5, <2>1, <2>2
<1>6. ASSUME NEW s \in Slots, UNCHANGED served,
             \/ TooLargeAsDeclared(s) \/ Route(s) \/ TooLargeAsRead(s) \/ BodyRead(s)
             \/ Unauthorized(s) \/ Authorized(s) \/ Limited(s)
      PROVE  LimitInv'
  <2>1. UNCHANGED accepted /\ conn[s].stage # "handling"
    BY <1>6 DEF TooLargeAsDeclared, Route, TooLargeAsRead, Reads, BodyRead, Unauthorized, Authorized,
                Limited, Refuse, At, vars
  <2>2. \/ \E code \in Nat : Answer(s, code)
        \/ \E stage \in {"reading", "key", "limit"} : Goes(s, stage)
    BY <1>6, KeyThenLimit DEF TooLargeAsDeclared, Route, TooLargeAsRead, BodyRead, Unauthorized,
                              Authorized, Limited
  <2> QED BY <1>3, <1>4, <1>6, <2>1, <2>2 DEF Stages
<1>7. ASSUME NEW s \in Slots, ReadChunk(s), UNCHANGED served PROVE LimitInv'
  <2>1. conn' = [conn EXCEPT ![s] = conn'[s]] /\ conn'[s] \in Connections
    <3>1. SlotsHoldRequests'
      BY SlotsStep
    <3>2. conn'[s] \in Connections
      BY <3>1 DEF SlotsHoldRequests
    <3> QED BY <1>0, <1>7, <3>2 DEF ReadChunk
  <2>2. conn[s].stage = "reading" /\ conn'[s].stage = "reading" /\ UNCHANGED accepted
    BY <1>0, <1>7 DEF ReadChunk, Reads, At, Connections, vars
  <2> QED BY <1>2, <1>7, <2>1, <2>2
<1>8. ASSUME NEW s \in Slots, Passes(s), UNCHANGED served PROVE LimitInv'
  <2> DEFINE ip == ClientIp(Req(s))
             to == [conn[s] EXCEPT !.stage = "handling"]
  <2>1. /\ conn[s].stage = "limit" /\ ip \in Clients
        /\ accepted' = [accepted EXCEPT ![ip] = Append(@, real)]
    BY <1>0, <1>8 DEF Passes, Admit, At
  <2>2. /\ to \in Connections /\ conn' = [conn EXCEPT ![s] = to]
        /\ to.stage = "handling" /\ ClientIp(to.request) = ip
    BY <1>0, <1>8, KeyThenLimit DEF Passes, Goes, Connections, Stages, Req
  <2>3. Append(accepted[ip], real) \in Seq(Nat) /\ Len(Append(accepted[ip], real)) = Len(accepted[ip]) + 1
    BY <2>1, AppendProperties DEF LimitInv
  <2> HIDE DEF ip, to
  <2>4. accepted' \in [Clients -> Seq(Nat)]
    BY <2>1, <2>3 DEF LimitInv
  <2>5. ASSUME NEW c \in Clients
        PROVE  Len(accepted'[c]) = served[c] + Cardinality(HandledIn(conn', c))
    <3>0. /\ s \notin HandledIn(conn, c) /\ (s \in HandledIn(conn', c) <=> c = ip)
          /\ \A t \in Slots : t # s => conn'[t] = conn[t]
      BY <1>0, <2>1, <2>2 DEF HandledIn
    <3>1. CASE c = ip
      <4>1. /\ Cardinality(HandledIn(conn', c)) = Cardinality(HandledIn(conn, c)) + 1
            /\ Cardinality(HandledIn(conn, c)) \in Nat
        BY <3>0, <3>1, HandledChange
      <4>2. Len(accepted'[c]) = Len(accepted[c]) + 1
        BY <2>1, <2>3, <3>1 DEF LimitInv
      <4>3. Len(accepted[c]) = served[c] + Cardinality(HandledIn(conn, c)) /\ served[c] \in Nat
        BY <1>0
      <4> QED BY <4>1, <4>2, <4>3
    <3>2. CASE c # ip
      <4>1. HandledIn(conn', c) = HandledIn(conn, c)
        BY <3>0, <3>2, HandledChange
      <4>2. accepted'[c] = accepted[c]
        BY <2>1, <3>2 DEF LimitInv
      <4> QED BY <1>0, <4>1, <4>2
    <3> QED BY <3>1, <3>2
  <2> QED BY <1>1, <1>8, <2>4, <2>5 DEF LimitInv, LimitIsSpentOnHandling, HandledIn, At, Req
<1>9. ASSUME NEW s \in Slots, Download(s) \/ Convert(s) PROVE LimitInv'
  <2> DEFINE ip == ClientIp(Req(s))
  <2>1. /\ conn[s].stage = "handling" /\ ip \in Clients /\ UNCHANGED accepted
        /\ served' = [served EXCEPT ![ip] = @ + 1]
    BY <1>0, <1>9 DEF Download, Convert, Served, At, vars
  <2>2. PICK code \in Nat : Answer(s, code)
    BY <1>9 DEF Download, DownloadStatus, Convert
  <2> DEFINE to == [conn[s] EXCEPT !.stage = "answered", !.status = code]
  <2>3. to \in Connections /\ conn' = [conn EXCEPT ![s] = to] /\ to.stage # "handling"
    BY <1>0, <2>2 DEF Answer, Connections, Stages
  <2>4. ClientIp(conn[s].request) = ip
    BY DEF Req
  <2> HIDE DEF ip, to
  <2>5. served' \in [Clients -> Nat]
    BY <1>0, <2>1 DEF LimitInv
  <2>6. ASSUME NEW c \in Clients
        PROVE  Len(accepted[c]) = served'[c] + Cardinality(HandledIn(conn', c))
    <3>0. /\ s \notin HandledIn(conn', c) /\ (s \in HandledIn(conn, c) <=> c = ip)
          /\ \A t \in Slots : t # s => conn[t] = conn'[t]
      BY <1>0, <2>1, <2>3, <2>4 DEF HandledIn
    <3>1. CASE c = ip
      <4>1. /\ Cardinality(HandledIn(conn, c)) = Cardinality(HandledIn(conn', c)) + 1
            /\ Cardinality(HandledIn(conn', c)) \in Nat
        BY <3>0, <3>1, HandledChange
      <4>2. served'[c] = served[c] + 1
        BY <2>1, <3>1 DEF LimitInv
      <4>3. Len(accepted[c]) = served[c] + Cardinality(HandledIn(conn, c)) /\ served[c] \in Nat
        BY <1>0
      <4> QED BY <4>1, <4>2, <4>3
    <3>2. CASE c # ip
      <4>1. HandledIn(conn', c) = HandledIn(conn, c)
        BY <3>0, <3>2, HandledChange
      <4>2. served'[c] = served[c]
        BY <2>1, <3>2 DEF LimitInv
      <4> QED BY <1>0, <4>1, <4>2
    <3> QED BY <3>1, <3>2
  <2> QED BY <1>1, <2>1, <2>5, <2>6 DEF LimitInv, LimitIsSpentOnHandling, HandledIn, At, Req
<1>10. CASE UNCHANGED <<conn, served>> /\ UNCHANGED accepted
  BY <1>1, <1>10 DEF LimitInv, LimitIsSpentOnHandling, At, Req
<1>11. ASSUME Environment, UNCHANGED served PROVE LimitInv'
  <2>1. UNCHANGED accepted /\ UNCHANGED conn
    BY <1>11 DEF Environment, Tick, ClockJumps, CleanBatch
  <2> QED BY <1>10, <1>11, <2>1
<1>12. CASE UNCHANGED pathVars
  BY <1>10, <1>12 DEF pathVars, vars
<1> QED BY <1>5, <1>6, <1>7, <1>8, <1>9, <1>11, <1>12 DEF PathNext

-----------------------------------------------------------------------------
(* Together with the middleware, the router and the key, the rate limiter     *)
(* behaves as it does alone: every step of a request is one of its steps, for  *)
(* the address found for the request, or leaves it as it is.                    *)
THEOREM PathImplementsLimiter == PathSpec => Spec
<1>1. PathInit => Init /\ SlotsHoldRequests
  BY SlotsStart DEF PathInit
<1>2. SlotsHoldRequests /\ [PathNext]_pathVars => SlotsHoldRequests' /\ [Next]_vars
  BY SlotsStep, PathStep
<1> QED BY <1>1, <1>2, PTL DEF PathSpec, Spec

(* So no window of time holds more than Limit requests counted under an        *)
(* address, whatever else arrives.                                              *)
THEOREM PathLimit == ASSUME SmallStepsBack PROVE PathSpec => []AtMostLimitPerWindow
<1> QED BY PathImplementsLimiter, LimiterCorrect, PTL

(* The deque is the live end of what came through the whole path. *)
THEOREM PathLog == ASSUME SmallStepsBack PROVE PathSpec => []LogIsLiveSuffix
<1> QED BY PathImplementsLimiter, LimiterCorrect, PTL

(* And a request is answered 429 only if Limit of its client's passed lately.  *)
THEOREM PathRefusals == ASSUME SmallStepsBack PROVE PathSpec => RefusalsAreDeserved
<1> QED BY PathImplementsLimiter, RefusalsDeserved, PTL

(* An untrusted sender is counted under its own address, whatever it writes     *)
(* into the header and however many trusted proxies there are.                   *)
THEOREM SendersCounted == PathSpec => CountedAtTheSender
<1> DEFINE Counts ==
      \A c \in Clients : accepted'[c] # accepted[c] =>
        \E s \in Slots : conn'[s] # conn[s] /\ (~IsTrusted(Req(s).sender) => Req(s).sender = c)
<1>1. PathInit => SlotsHoldRequests
  BY SlotsStart
<1>2. SlotsHoldRequests /\ [PathNext]_pathVars => SlotsHoldRequests'
  BY SlotsStep
<1>3. SlotsHoldRequests /\ [PathNext]_pathVars => [Counts]_pathVars
  <2>1. SlotsHoldRequests /\ PathNext => Counts
    BY PathCounts
  <2> HIDE DEF Counts
  <2> QED BY <2>1
<1>4. PathSpec => [][Counts]_pathVars
  <2> HIDE DEF Counts
  <2> QED BY <1>1, <1>2, <1>3, PTL DEF PathSpec
<1> QED BY <1>4 DEF CountedAtTheSender, Counts

(* No conversion of more than MAX_UPLOAD_SIZE gets as far as the key, the limit  *)
(* or the handler, however its body is cut into chunks and whatever it declares. *)
THEOREM OversizedStops == PathSpec => []OversizedStopsEarly
<1>1. PathInit => SlotsHoldRequests /\ SlotsInv
  BY SlotsStart DEF PathInit, Idle, SlotsInv, SlotInv
<1>2. SlotsHoldRequests /\ SlotsInv /\ [PathNext]_pathVars => SlotsHoldRequests' /\ SlotsInv'
  BY SlotsStep, BodyStep
<1>3. SlotsInv => OversizedStopsEarly
  BY DEF SlotsInv, SlotInv, OversizedStopsEarly, Req
<1> QED BY <1>1, <1>2, <1>3, PTL DEF PathSpec

(* What an address has used up of its limit is what handlers answered it or    *)
(* are at work on: nothing that was refused ahead of them cost anything.         *)
THEOREM LimitSpentOnHandling == PathSpec => []LimitIsSpentOnHandling
<1>1. PathInit => SlotsHoldRequests /\ LimitInv
  <2> SUFFICES ASSUME PathInit PROVE LimitInv
    BY SlotsStart
  <2>1. /\ real \in Nat /\ accepted \in [Clients -> Seq(Nat)] /\ served \in [Clients -> Nat]
        /\ \A c \in Clients : Len(accepted[c]) = 0 /\ served[c] = 0
    <3>1. <<>> \in Seq(Nat) /\ Len(<<>>) = 0
      OBVIOUS
    <3>2. real = Interval /\ Interval \in Nat /\ accepted = [c \in Clients |-> <<>>] /\ served = [c \in Clients |-> 0]
      BY LimiterParameters DEF PathInit, Init
    <3>3. accepted \in [Clients -> Seq(Nat)] /\ served \in [Clients -> Nat]
      BY ONLY <3>1, <3>2
    <3> QED BY <3>1, <3>2, <3>3
  <2>2. \A c \in Clients : {s \in Slots : At(s, "handling") /\ ClientIp(Req(s)) = c} = {}
    BY DEF PathInit, At, Idle
  <2>3. \A c \in Clients : Len(accepted[c]) = served[c] + Cardinality({})
    BY <2>1, FS_EmptySet
  <2> QED BY <2>1, <2>2, <2>3 DEF LimitInv, LimitIsSpentOnHandling
<1>2. SlotsHoldRequests /\ LimitInv /\ [PathNext]_pathVars => SlotsHoldRequests' /\ LimitInv'
  BY SlotsStep, LimitStep
<1>3. LimitInv => LimitIsSpentOnHandling
  BY DEF LimitInv
<1> QED BY <1>1, <1>2, <1>3, PTL DEF PathSpec

=============================================================================
