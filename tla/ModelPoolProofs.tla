--------------------------- MODULE ModelPoolProofs ---------------------------
(***************************************************************************)
(* The model pool of pool.py keeps its dictionary and its access list in   *)
(* step and implements an indivisible least recently used cache, for any   *)
(* number of threads, settings and entries.                                 *)
(***************************************************************************)
EXTENDS ModelPool, SequenceTheorems, FiniteSetTheorems, TLAPS

KeysMatch == \A k \in DOMAIN pool : Key(pool[k].options) = k

(* A thread that is inserting relies on all of these: its key is absent, so *)
(* whoever still has an earlier converter of that key saw it evicted.        *)
IInv == TypeOK /\ OrderMatchesPool /\ KeysMatch /\ OneConverterPerKey

-----------------------------------------------------------------------------
LEMMA OrderLength ==
  ASSUME TypeOK, OrderMatchesPool
  PROVE  /\ Len(order) \in Nat
         /\ \A i \in 1..Len(order) : order[i] \in Settings /\ order[i] \in DOMAIN pool
         /\ IsFiniteSet(DOMAIN pool) /\ Cardinality(DOMAIN pool) = Len(order)
<1>1. Len(order) \in Nat /\ \A i \in 1..Len(order) : order[i] \in Settings
  BY LenProperties, ElementOfSeq DEF TypeOK
<1>2. \A i \in 1..Len(order) : order[i] \in DOMAIN pool
  BY DEF OrderMatchesPool
<1>3. IsFiniteSet(1..Len(order)) /\ Cardinality(1..Len(order)) = Len(order)
  BY <1>1, FS_Interval
<1> DEFINE f == [i \in 1..Len(order) |-> order[i]]
<1>4. f \in Bijection(1..Len(order), DOMAIN pool)
  <2>1. f \in Injection(1..Len(order), DOMAIN pool)
    BY <1>2 DEF OrderMatchesPool, Injection, IsInjective
  <2>2. f \in Surjection(1..Len(order), DOMAIN pool)
    BY <1>2 DEF OrderMatchesPool, Surjection
  <2> QED BY <2>1, <2>2 DEF Bijection
<1>5. ExistsBijection(1..Len(order), DOMAIN pool)
  BY <1>4 DEF ExistsBijection
<1>6. IsFiniteSet(DOMAIN pool) /\ Cardinality(DOMAIN pool) = Cardinality(1..Len(order))
  BY <1>3, <1>5, FS_Bijection
<1> QED BY <1>1, <1>2, <1>3, <1>6

LEMMA PositionIsOne ==
  ASSUME TypeOK, OrderMatchesPool, NEW k \in DOMAIN pool
  PROVE  PositionOf(k) \in 1..Len(order) /\ order[PositionOf(k)] = k
<1>1. \E p \in 1..Len(order) : order[p] = k
  BY DEF OrderMatchesPool
<1> QED BY <1>1 DEF PositionOf

(* Moving a key to the end permutes the list. *)
LEMMA TouchedProperties ==
  ASSUME TypeOK, OrderMatchesPool, NEW k \in DOMAIN pool
  PROVE  /\ Touched(k) \in Seq(Settings) /\ Len(Touched(k)) = Len(order)
         /\ \A i, j \in 1..Len(order) : Touched(k)[i] = Touched(k)[j] => i = j
         /\ {Touched(k)[i] : i \in 1..Len(order)} = DOMAIN pool
<1> DEFINE n == Len(order)
           p == PositionOf(k)
           s == Touched(k)
<1>1. /\ n \in Nat /\ \A i \in 1..n : order[i] \in Settings /\ order[i] \in DOMAIN pool
      /\ \A i, j \in 1..n : order[i] = order[j] => i = j
      /\ {order[i] : i \in 1..n} = DOMAIN pool
  BY OrderLength DEF OrderMatchesPool
<1>2. p \in 1..n /\ order[p] = k
  BY PositionIsOne
<1>3. s = [i \in 1..n |-> IF i < p THEN order[i] ELSE IF i < n THEN order[i + 1] ELSE order[p]]
  BY <1>2 DEF Touched
<1> DEFINE q == [i \in 1..n |-> IF i < p THEN i ELSE IF i < n THEN i + 1 ELSE p]
<1> HIDE DEF n, p, s
<1>4. \A i \in 1..n : q[i] \in 1..n /\ s[i] = order[q[i]]
  <2>1. \A i \in 1..n : q[i] \in 1..n
    BY <1>1, <1>2
  <2>2. \A i \in 1..n : s[i] = order[q[i]]
    BY <1>1, <1>2, <1>3
  <2> QED BY <2>1, <2>2
<1>5. \A i, j \in 1..n : q[i] = q[j] => i = j
  BY <1>1, <1>2
<1>6. \A j \in 1..n : \E i \in 1..n : q[i] = j
  <2> SUFFICES ASSUME NEW j \in 1..n PROVE \E i \in 1..n : q[i] = j
    OBVIOUS
  <2>1. CASE j < p
    BY <1>1, <1>2, <2>1
  <2>2. CASE j = p
    <3>1. n \in 1..n /\ q[n] = p
      BY <1>1, <1>2
    <3> QED BY <2>2, <3>1
  <2>3. CASE j > p
    <3>1. j - 1 \in 1..n /\ ~(j - 1 < p) /\ j - 1 < n /\ (j - 1) + 1 = j
      BY <1>1, <1>2, <2>3
    <3>2. q[j - 1] = j
      BY <3>1
    <3> QED BY <3>1, <3>2
  <2> QED BY <1>1, <1>2, <2>1, <2>2, <2>3
<1> HIDE DEF q
<1>7. \A i \in 1..n : s[i] \in Settings /\ s[i] \in DOMAIN pool
  BY <1>1, <1>4
<1>8. s \in Seq(Settings) /\ Len(s) = n
  <2>1. s = [i \in 1..n |-> s[i]]
    BY <1>3
  <2>2. s \in [1..n -> Settings]
    BY <1>7, <2>1
  <2>3. s \in Seq(Settings)
    BY <1>1, <2>2
  <2>4. DOMAIN s = 1..n /\ DOMAIN s = 1..Len(s) /\ Len(s) \in Nat
    BY <2>1, <2>3, LenProperties
  <2>5. Len(s) = n
    BY <1>1, <2>4
  <2> QED BY <2>3, <2>5
<1>9. \A i, j \in 1..n : s[i] = s[j] => i = j
  BY <1>1, <1>4, <1>5
<1>10. {s[i] : i \in 1..n} = DOMAIN pool
  <2>1. \A x \in DOMAIN pool : \E i \in 1..n : s[i] = x
    <3> SUFFICES ASSUME NEW x \in DOMAIN pool PROVE \E i \in 1..n : s[i] = x
      OBVIOUS
    <3>1. PICK j \in 1..n : order[j] = x
      BY <1>1
    <3>2. PICK i \in 1..n : q[i] = j
      BY <1>6
    <3>3. s[i] = x
      BY <1>4, <3>1, <3>2
    <3> QED BY <3>3
  <2> QED BY <1>7, <2>1
<1> QED BY <1>8, <1>9, <1>10 DEF s, n

-----------------------------------------------------------------------------
LEMMA ReturnType ==
  ASSUME TypeOK, NEW t \in Threads, NEW o \in Options,
         NEW c \in Converter \cup {NoConverter}, Return(t, o, c)
  PROVE  /\ call' \in [Threads -> [building : BOOLEAN, options : Options]]
         /\ got' \in [Threads -> Converter \cup {NoConverter}]
         /\ got'[t] = c /\ \A u \in Threads \ {t} : got'[u] = got[u]
BY DEF TypeOK, Return

LEMMA CallOptions ==
  ASSUME TypeOK, NEW t \in Threads
  PROVE  call[t].options \in Options /\ Key(call[t].options) \in Settings
BY DEF TypeOK, Options, Key

LEMMA InitIInv == ASSUME Init PROVE IInv
<1> USE DEF Init
<1>1. <<>> \in Seq(Settings) /\ Len(<<>>) = 0
  OBVIOUS
<1>2. call \in [Threads -> [building : BOOLEAN, options : Options]]
  OBVIOUS
<1>3. DOMAIN pool = {}
  OBVIOUS
<1>4. TypeOK
  BY <1>1, <1>2, <1>3, PoolParameters DEF TypeOK
<1>5. OrderMatchesPool
  BY <1>1, <1>3 DEF OrderMatchesPool
<1> QED BY <1>3, <1>4, <1>5 DEF IInv, KeysMatch, OneConverterPerKey

LEMMA TakeCachedIInv ==
  ASSUME IInv, NEW t \in Threads, NEW o \in Options, TakeCached(t, o)
  PROVE  IInv'
<1>1. /\ TypeOK /\ OrderMatchesPool /\ Key(o) \in DOMAIN pool
      /\ order' = Touched(Key(o)) /\ UNCHANGED <<pool, built, evicted>>
      /\ Return(t, o, pool[Key(o)]) /\ pool[Key(o)] \in Converter
  BY DEF IInv, TakeCached, TypeOK
<1>2. /\ order' \in Seq(Settings) /\ Len(order') = Len(order)
      /\ \A i, j \in 1..Len(order) : order'[i] = order'[j] => i = j
      /\ {order'[i] : i \in 1..Len(order)} = DOMAIN pool
  BY <1>1, TouchedProperties
<1>3. TypeOK'
  BY <1>1, <1>2, ReturnType DEF TypeOK
<1>4. OrderMatchesPool'
  BY <1>1, <1>2 DEF OrderMatchesPool
<1>5. KeysMatch'
  BY <1>1 DEF IInv, KeysMatch
<1>6. OneConverterPerKey'
  <2> SUFFICES ASSUME NEW u \in Threads, got'[u] # NoConverter, got'[u] \notin evicted
               PROVE  /\ Key(got'[u].options) \in DOMAIN pool
                      /\ pool[Key(got'[u].options)] = got'[u]
    BY <1>1 DEF OneConverterPerKey
  <2>1. CASE u = t
    <3>1. got'[u] = pool[Key(o)]
      BY <1>1, <2>1, ReturnType
    <3>2. Key(pool[Key(o)].options) = Key(o)
      BY <1>1 DEF IInv, KeysMatch
    <3> QED BY <1>1, <3>1, <3>2
  <2>2. CASE u # t
    BY <1>1, <2>2, ReturnType DEF IInv, OneConverterPerKey
  <2> QED BY <2>1, <2>2
<1> QED BY <1>3, <1>4, <1>5, <1>6 DEF IInv

(* What is left of the pool gets one new entry. *)
LEMMA PutProperties ==
  ASSUME IInv, NEW t \in Threads, NEW rest \in SUBSET DOMAIN pool, Put(t, rest),
         Key(call[t].options) \notin DOMAIN pool
  PROVE  LET k == Key(call[t].options)
             c == [id |-> built + 1, options |-> call[t].options]
         IN  /\ k \in Settings /\ c \in Converter /\ Key(c.options) = k
             /\ DOMAIN pool' = rest \cup {k}
             /\ pool'[k] = c /\ \A j \in rest : pool'[j] = pool[j]
             /\ built' \in 0..MaxBuilds
             /\ Return(t, call[t].options, c)
<1> DEFINE k == Key(call[t].options)
           c == [id |-> built + 1, options |-> call[t].options]
<1>1. /\ pool' = [j \in rest \cup {k} |-> IF j = k THEN c ELSE pool[j]]
      /\ built' = built + 1 /\ built < MaxBuilds /\ Return(t, call[t].options, c)
  BY DEF Put
<1>2. built \in Nat /\ MaxBuilds \in Nat /\ TypeOK
  BY PoolParameters DEF IInv, TypeOK
<1>3. k \in Settings /\ call[t].options \in Options
  BY <1>2, CallOptions
<1>4. c \in Converter /\ built' \in 0..MaxBuilds
  BY <1>1, <1>2, <1>3 DEF Converter
<1>5. Key(c.options) = k
  OBVIOUS
<1> HIDE DEF k, c
<1>6. DOMAIN pool' = rest \cup {k} /\ pool'[k] = c
  BY <1>1
<1>7. k \notin rest
  BY DEF k
<1>8. \A j \in rest : pool'[j] = pool[j]
  BY <1>1, <1>7
<1> QED BY <1>1, <1>3, <1>4, <1>5, <1>6, <1>8 DEF k, c

(* Whichever key goes, the entries that stay and the new one are consistent. *)
LEMMA PutIInv ==
  ASSUME IInv, NEW t \in Threads, NEW rest \in SUBSET DOMAIN pool, Put(t, rest),
         Key(call[t].options) \notin DOMAIN pool,
         evicted' = evicted \cup {pool[j] : j \in DOMAIN pool \ rest}
  PROVE  /\ DOMAIN pool' \subseteq Settings /\ \A j \in DOMAIN pool' : pool'[j] \in Converter
         /\ call' \in [Threads -> [building : BOOLEAN, options : Options]]
         /\ got' \in [Threads -> Converter \cup {NoConverter}]
         /\ built' \in 0..MaxBuilds /\ evicted' \subseteq Converter
         /\ KeysMatch' /\ OneConverterPerKey'
<1> DEFINE k == Key(call[t].options)
           c == [id |-> built + 1, options |-> call[t].options]
<1>1. /\ k \in Settings /\ c \in Converter /\ Key(c.options) = k
      /\ DOMAIN pool' = rest \cup {k}
      /\ pool'[k] = c /\ \A j \in rest : pool'[j] = pool[j]
      /\ built' \in 0..MaxBuilds
      /\ Return(t, call[t].options, c)
  BY PutProperties
<1>2. /\ TypeOK /\ call[t].options \in Options /\ DOMAIN pool \subseteq Settings
      /\ \A j \in DOMAIN pool : pool[j] \in Converter /\ Key(pool[j].options) = j
      /\ evicted \subseteq Converter
  BY CallOptions DEF IInv, TypeOK, KeysMatch
<1> HIDE DEF k, c
<1>3. /\ call' \in [Threads -> [building : BOOLEAN, options : Options]]
      /\ got' \in [Threads -> Converter \cup {NoConverter}]
      /\ got'[t] = c /\ \A u \in Threads \ {t} : got'[u] = got[u]
  BY <1>1, <1>2, ReturnType
<1>4. DOMAIN pool' \subseteq Settings /\ \A j \in DOMAIN pool' : pool'[j] \in Converter
  BY <1>1, <1>2
<1>5. KeysMatch'
  BY <1>1, <1>2 DEF KeysMatch
<1>6. OneConverterPerKey'
  <2> SUFFICES ASSUME NEW u \in Threads, got'[u] # NoConverter, got'[u] \notin evicted'
               PROVE  /\ Key(got'[u].options) \in DOMAIN pool'
                      /\ pool'[Key(got'[u].options)] = got'[u]
    BY DEF OneConverterPerKey
  <2>1. CASE u = t
    BY <1>1, <1>3, <2>1
  <2>2. CASE u # t
    <3>1. got'[u] = got[u] /\ got[u] \notin evicted
      BY <1>3, <2>2
    <3>2. Key(got[u].options) \in DOMAIN pool /\ pool[Key(got[u].options)] = got[u]
      BY <3>1 DEF IInv, OneConverterPerKey
    <3>3. Key(got[u].options) \in rest
      BY <3>1, <3>2
    <3> QED BY <1>1, <3>1, <3>2, <3>3
  <2> QED BY <2>1, <2>2
<1>7. evicted' \subseteq Converter
  BY <1>2
<1> QED BY <1>1, <1>3, <1>4, <1>5, <1>6, <1>7

LEMMA InsertIInv == ASSUME IInv, NEW t \in Threads, Insert(t) PROVE IInv'
<1> DEFINE k == Key(call[t].options)
<1>1. /\ TypeOK /\ OrderMatchesPool /\ k \in Settings /\ k \notin DOMAIN pool
      /\ Put(t, DOMAIN pool) /\ order' = Append(order, k)
      /\ evicted' = evicted \cup {pool[j] : j \in DOMAIN pool \ DOMAIN pool}
      /\ Cardinality(DOMAIN pool) < MaxSize
  BY CallOptions DEF IInv, Insert
<1>2. DOMAIN pool' = DOMAIN pool \cup {k}
  BY <1>1, PutProperties
<1>3. /\ DOMAIN pool' \subseteq Settings /\ \A j \in DOMAIN pool' : pool'[j] \in Converter
      /\ call' \in [Threads -> [building : BOOLEAN, options : Options]]
      /\ got' \in [Threads -> Converter \cup {NoConverter}]
      /\ built' \in 0..MaxBuilds /\ evicted' \subseteq Converter
      /\ KeysMatch' /\ OneConverterPerKey'
  BY <1>1, PutIInv
<1> HIDE DEF k
<1>4. /\ order' \in Seq(Settings) /\ Len(order') = Len(order) + 1
      /\ order'[Len(order) + 1] = k
      /\ \A i \in 1..Len(order) : order'[i] = order[i]
  <2>1. order \in Seq(Settings)
    BY <1>1 DEF TypeOK
  <2> QED BY <1>1, <2>1, AppendProperties
<1>5. /\ Len(order) \in Nat /\ Len(order) < MaxSize /\ MaxSize \in Nat
      /\ \A i \in 1..Len(order) : order[i] \in DOMAIN pool
  BY <1>1, OrderLength, PoolParameters
<1>6. TypeOK'
  BY <1>3, <1>4, <1>5 DEF TypeOK
<1>7. OrderMatchesPool'
  <2>1. ASSUME NEW x \in DOMAIN pool' PROVE \E i \in 1..Len(order') : order'[i] = x
    <3>1. CASE x = k
      BY <1>4, <1>5, <3>1
    <3>2. CASE x # k
      <4>1. PICK i \in 1..Len(order) : order[i] = x
        BY <1>1, <1>2, <3>2 DEF OrderMatchesPool
      <4>2. i \in 1..Len(order') /\ order'[i] = x
        BY <1>4, <1>5, <4>1
      <4> QED BY <4>2
    <3> QED BY <3>1, <3>2
  <2>2. \A i \in 1..Len(order') : i \in 1..Len(order) \/ i = Len(order) + 1
    BY <1>4, <1>5
  <2>3. \A i \in 1..Len(order') : order'[i] \in DOMAIN pool'
    BY <1>2, <1>4, <1>5, <2>2
  <2>4. \A i, j \in 1..Len(order') : order'[i] = order'[j] => i = j
    BY <1>1, <1>4, <1>5, <2>2 DEF OrderMatchesPool
  <2>5. {order'[i] : i \in 1..Len(order')} = DOMAIN pool'
    BY <2>1, <2>3
  <2> QED BY <2>4, <2>5 DEF OrderMatchesPool
<1> QED BY <1>3, <1>6, <1>7 DEF IInv

LEMMA ReplaceOldestIInv == ASSUME IInv, NEW t \in Threads, ReplaceOldest(t) PROVE IInv'
<1> DEFINE k == Key(call[t].options)
           h == Head(order)
           rest == DOMAIN pool \ {h}
           n == Len(order)
<1>1. /\ TypeOK /\ OrderMatchesPool /\ k \in Settings /\ k \notin DOMAIN pool
      /\ Put(t, rest) /\ order' = Append(Tail(order), k)
      /\ evicted' = evicted \cup {pool[h]}
      /\ Cardinality(DOMAIN pool) >= MaxSize
  BY CallOptions DEF IInv, ReplaceOldest
<1>2. /\ n \in Nat /\ n >= MaxSize /\ MaxSize \in Nat /\ MaxSize >= 1
      /\ \A i \in 1..n : order[i] \in DOMAIN pool
      /\ n <= MaxSize /\ order \in Seq(Settings)
  BY <1>1, OrderLength, PoolParameters DEF TypeOK
<1>3. n \in Nat /\ n >= 1 /\ order # <<>> /\ h = order[1]
  BY <1>2
<1>4. h \in DOMAIN pool
  BY <1>2, <1>3
<1>5. evicted' = evicted \cup {pool[j] : j \in DOMAIN pool \ rest}
  BY <1>1, <1>4
<1>6. DOMAIN pool' = rest \cup {k}
  BY <1>1, PutProperties
<1>7. /\ DOMAIN pool' \subseteq Settings /\ \A j \in DOMAIN pool' : pool'[j] \in Converter
      /\ call' \in [Threads -> [building : BOOLEAN, options : Options]]
      /\ got' \in [Threads -> Converter \cup {NoConverter}]
      /\ built' \in 0..MaxBuilds /\ evicted' \subseteq Converter
      /\ KeysMatch' /\ OneConverterPerKey'
  <2>1. rest \in SUBSET DOMAIN pool
    OBVIOUS
  <2> QED BY <1>1, <1>5, <2>1, PutIInv
<1> HIDE DEF k, h, n
<1>8. /\ Tail(order) \in Seq(Settings) /\ Len(Tail(order)) = n - 1
      /\ \A i \in 1..n - 1 : Tail(order)[i] = order[i + 1]
  BY <1>2, <1>3, HeadTailProperties DEF n
<1>9. /\ order' \in Seq(Settings) /\ Len(order') = n
      /\ order'[n] = k
      /\ \A i \in 1..n - 1 : order'[i] = order[i + 1]
  BY <1>1, <1>3, <1>8, AppendProperties
<1>10. TypeOK'
  BY <1>2, <1>7, <1>9 DEF TypeOK
<1>11. OrderMatchesPool'
  <2>0. /\ \A i, j \in 1..n : order[i] = order[j] => i = j
        /\ {order[i] : i \in 1..n} = DOMAIN pool
    BY <1>1 DEF OrderMatchesPool, n
  <2>1. ASSUME NEW x \in DOMAIN pool' PROVE \E i \in 1..n : order'[i] = x
    <3>1. CASE x = k
      BY <1>3, <1>9, <3>1
    <3>2. CASE x # k
      <4>1. PICK i \in 1..n : order[i] = x
        BY <1>6, <2>0, <3>2
      <4>2. i # 1
        BY <1>3, <1>6, <3>2, <4>1
      <4>3. i - 1 \in 1..n /\ i - 1 \in 1..n - 1 /\ (i - 1) + 1 = i
        BY <1>3, <4>2
      <4>4. order'[i - 1] = x
        BY <1>9, <4>1, <4>3
      <4> QED BY <4>3, <4>4
    <3> QED BY <3>1, <3>2
  <2>2. \A i \in 1..n : i = n \/ (i \in 1..n - 1 /\ i + 1 \in 1..n /\ i + 1 # 1)
    BY <1>3
  <2>3. \A i \in 1..n - 1 : order'[i] \in DOMAIN pool /\ order'[i] # h
    BY <1>2, <1>3, <1>9, <2>0, <2>2
  <2>4. \A i \in 1..n : order'[i] \in DOMAIN pool'
    BY <1>6, <1>9, <2>2, <2>3
  <2>5. \A i, j \in 1..n : order'[i] = order'[j] => i = j
    <3> SUFFICES ASSUME NEW i \in 1..n, NEW j \in 1..n, order'[i] = order'[j]
                 PROVE  i = j
      OBVIOUS
    <3>1. CASE i = n /\ j # n
      BY <1>1, <1>9, <2>2, <2>3, <3>1
    <3>2. CASE i # n /\ j = n
      BY <1>1, <1>9, <2>2, <2>3, <3>2
    <3>3. CASE i # n /\ j # n
      <4>1. i + 1 \in 1..n /\ j + 1 \in 1..n /\ order[i + 1] = order[j + 1]
        BY <1>9, <2>2, <3>3
      <4>2. i + 1 = j + 1
        BY <2>0, <4>1
      <4> QED BY <1>3, <4>2
    <3> QED BY <3>1, <3>2, <3>3
  <2>6. {order'[i] : i \in 1..n} = DOMAIN pool'
    BY <2>1, <2>4
  <2> QED BY <1>9, <2>5, <2>6 DEF OrderMatchesPool
<1> QED BY <1>7, <1>10, <1>11 DEF IInv

LEMMA StepIInv == ASSUME IInv, [Next]_vars PROVE IInv'
<1>1. ASSUME NEW t \in Threads, NEW o \in Options, Hit(t, o) PROVE IInv'
  BY <1>1, TakeCachedIInv DEF Hit
<1>2. ASSUME NEW t \in Threads, NEW o \in Options, Miss(t, o) PROVE IInv'
  <2>1. call' \in [Threads -> [building : BOOLEAN, options : Options]]
    BY <1>2 DEF IInv, TypeOK, Miss
  <2>2. UNCHANGED <<pool, order, got, built, evicted>>
    BY <1>2 DEF Miss
  <2> QED BY <2>1, <2>2 DEF IInv, TypeOK, OrderMatchesPool, KeysMatch, OneConverterPerKey
<1>3. ASSUME NEW t \in Threads, BuildFails(t) PROVE IInv'
  <2>1. call[t].options \in Options /\ TypeOK
    BY CallOptions DEF IInv
  <2>2. /\ UNCHANGED <<pool, order, built, evicted>>
        /\ Return(t, call[t].options, NoConverter)
    BY <1>3 DEF BuildFails
  <2>3. /\ call' \in [Threads -> [building : BOOLEAN, options : Options]]
        /\ got' \in [Threads -> Converter \cup {NoConverter}]
        /\ got'[t] = NoConverter /\ \A u \in Threads \ {t} : got'[u] = got[u]
    BY <2>1, <2>2, ReturnType
  <2>4. TypeOK' /\ OrderMatchesPool' /\ KeysMatch'
    BY <2>2, <2>3 DEF IInv, TypeOK, OrderMatchesPool, KeysMatch
  <2>5. OneConverterPerKey'
    BY <2>2, <2>3 DEF IInv, OneConverterPerKey
  <2> QED BY <2>4, <2>5 DEF IInv
<1>4. ASSUME NEW t \in Threads, LostTheRace(t) PROVE IInv'
  <2>1. call[t].options \in Options
    BY CallOptions DEF IInv
  <2> QED BY <1>4, <2>1, TakeCachedIInv DEF LostTheRace
<1>5. CASE UNCHANGED vars
  BY <1>5 DEF vars, IInv, TypeOK, OrderMatchesPool, KeysMatch, OneConverterPerKey
<1> QED BY <1>1, <1>2, <1>3, <1>4, <1>5, InsertIInv, ReplaceOldestIInv DEF Next

-----------------------------------------------------------------------------
(* The dictionary and the access list stay in step, and no thread keeps a    *)
(* private converter of a key that the pool holds.                            *)
THEOREM PoolCorrect == Spec => [](TypeOK /\ OrderMatchesPool /\ OneConverterPerKey)
<1>1. Init => IInv
  BY InitIInv
<1>2. IInv /\ [Next]_vars => IInv'
  BY StepIInv
<1>3. IInv => TypeOK /\ OrderMatchesPool /\ OneConverterPerKey
  BY DEF IInv
<1> QED BY <1>1, <1>2, <1>3, PTL DEF Spec

-----------------------------------------------------------------------------
(* The refinement: the list read through the dictionary is the cache's line. *)
Line == [i \in 1..Len(order) |-> pool[order[i]]]
Asked == [t \in Threads |-> Key(call[t].options)]
KeyOfConverter == [c \in Converter |-> Key(c.options)]

LEMMA LineFacts ==
  ASSUME IInv
  PROVE  /\ Line \in Seq(Converter) /\ Len(Line) = Len(order)
         /\ \A i \in 1..Len(order) : Line[i] = pool[order[i]] /\ KeyOfConverter[Line[i]] = order[i]
<1>1. /\ Len(order) \in Nat
      /\ \A i \in 1..Len(order) : order[i] \in DOMAIN pool
  BY OrderLength DEF IInv
<1>2. \A i \in 1..Len(order) : /\ pool[order[i]] \in Converter
                               /\ KeyOfConverter[pool[order[i]]] = order[i]
  BY <1>1 DEF IInv, TypeOK, KeysMatch, KeyOfConverter
<1>3. Line \in [1..Len(order) -> Converter]
  BY <1>2 DEF Line
<1>4. Line \in Seq(Converter) /\ DOMAIN Line = 1..Len(order)
  BY <1>1, <1>3
<1>5. DOMAIN Line = 1..Len(Line) /\ Len(Line) \in Nat
  BY <1>4, LenProperties
<1>6. Len(Line) = Len(order)
  BY <1>1, <1>4, <1>5
<1> QED BY <1>2, <1>4, <1>6 DEF Line

LEMMA InitRefines == ASSUME Init PROVE Cache!Init
<1>1. <<>> = [i \in 1..Len(order) |-> pool[order[i]]]
  BY DEF Init
<1>2. Asked \in [Threads -> Settings]
  BY DEF Init, Asked, Options, Key
<1> QED BY <1>1, <1>2 DEF Init, Cache!Init, Asked

LEMMA ReturnRefines ==
  ASSUME IInv, NEW t \in Threads, NEW o \in Options, NEW c \in Converter,
         Return(t, o, c), Key(c.options) = Key(o)
  PROVE  Cache!Serve(t, c)
<1>1. Asked' = [Asked EXCEPT ![t] = KeyOfConverter[c]]
  BY DEF IInv, TypeOK, Return, Asked, KeyOfConverter
<1> QED BY <1>1 DEF Return, Cache!Serve, Asked, KeyOfConverter

LEMMA TakeCachedRefines ==
  ASSUME IInv, NEW t \in Threads, NEW o \in Options, TakeCached(t, o)
  PROVE  Cache!Next
<1> DEFINE k == Key(o)
           p == PositionOf(k)
<1>1. /\ k \in DOMAIN pool /\ order' = Touched(k) /\ pool' = pool
      /\ Return(t, o, pool[k]) /\ pool[k] \in Converter /\ Key(pool[k].options) = k
  BY DEF IInv, TakeCached, TypeOK, KeysMatch
<1>2. p \in 1..Len(order) /\ order[p] = k
  BY <1>1, PositionIsOne DEF IInv
<1>3. /\ Line \in Seq(Converter) /\ Len(Line) = Len(order) /\ Len(order) \in Nat
      /\ \A i \in 1..Len(order) : Line[i] = pool[order[i]]
  BY LineFacts, OrderLength DEF IInv
<1>4. /\ Len(order') = Len(order)
      /\ order' = [i \in 1..Len(order) |->
                     IF i < p THEN order[i] ELSE IF i < Len(order) THEN order[i + 1] ELSE k]
  BY <1>1, TouchedProperties DEF IInv, Touched
<1>5. Cache!Serve(t, Line[p])
  BY <1>1, <1>2, <1>3, ReturnRefines
<1> HIDE DEF p, k
<1>6. Line' = [i \in 1..Len(Line) |->
                 IF i < p THEN Line[i] ELSE IF i < Len(Line) THEN Line[i + 1] ELSE Line[p]]
  <2>1. Line' = [i \in 1..Len(order) |-> pool[order'[i]]]
    BY <1>1, <1>4 DEF Line
  <2>2. ASSUME NEW i \in 1..Len(order)
        PROVE  pool[order'[i]] =
                 IF i < p THEN Line[i] ELSE IF i < Len(Line) THEN Line[i + 1] ELSE Line[p]
    <3>1. CASE i < p
      BY <1>3, <1>4, <3>1
    <3>2. CASE ~(i < p) /\ i < Len(order)
      <4>1. i + 1 \in 1..Len(order)
        BY <1>3, <3>2
      <4> QED BY <1>3, <1>4, <3>2, <4>1
    <3>3. CASE ~(i < p) /\ ~(i < Len(order))
      BY <1>2, <1>3, <1>4, <3>3
    <3> QED BY <3>1, <3>2, <3>3
  <2> QED BY <1>3, <2>1, <2>2
<1>7. Cache!Hit(t, p)
  BY <1>5, <1>6 DEF Cache!Hit, Cache!MovedToEnd, Line
<1>8. p \in 1..Len(Line)
  BY <1>2, <1>3
<1>9. \E q \in 1..Len([i \in 1..Len(order) |-> pool[order[i]]]) : Cache!Hit(t, q)
  <2>1. p \in 1..Len([i \in 1..Len(order) |-> pool[order[i]]])
    BY <1>8 DEF Line
  <2> QED BY <1>7, <2>1 DEF Cache!Hit, Cache!MovedToEnd, Cache!Serve
<1> QED BY <1>9 DEF Cache!Next

(* What both ways to insert do to the line: the entries of s stay, in order, *)
(* and the new converter comes last.                                          *)
LEMMA PutRefines ==
  ASSUME IInv, IInv', NEW t \in Threads, NEW rest \in SUBSET DOMAIN pool, Put(t, rest),
         Key(call[t].options) \notin DOMAIN pool,
         NEW s \in Seq(Converter), NEW d \in 0..1,
         Len(order') = Len(order) - d + 1, Len(s) = Len(order) - d,
         order'[Len(order) - d + 1] = Key(call[t].options),
         \A i \in 1..Len(order) - d : order'[i] = order[i + d] /\ order[i + d] \in rest,
         \A i \in 1..Len(order) - d : s[i] = Line[i + d],
         s = IF Len(Line) < MaxSize THEN Line ELSE Tail(Line)
  PROVE  Cache!Next
<1> DEFINE k == Key(call[t].options)
           c == [id |-> built + 1, options |-> call[t].options]
           m == Len(order) - d
<1>1. /\ c \in Converter /\ Key(c.options) = k /\ pool'[k] = c
      /\ \A j \in rest : pool'[j] = pool[j]
      /\ Return(t, call[t].options, c)
  BY PutProperties
<1>2. call[t].options \in Options
  BY CallOptions DEF IInv
<1>3. Cache!Serve(t, c)
  BY <1>1, <1>2, ReturnRefines
<1>4. /\ Len(Line) = Len(order) /\ Len(order) \in Nat
      /\ \A i \in 1..Len(order) : /\ Line[i] = pool[order[i]] /\ order[i] \in DOMAIN pool
                                  /\ KeyOfConverter[Line[i]] = order[i]
  BY LineFacts, OrderLength DEF IInv
<1>5. /\ Line' \in Seq(Converter) /\ Len(Line') = Len(order')
      /\ \A i \in 1..Len(order') : Line'[i] = pool'[order'[i]]
  <2>1. LET L == [i \in 1..Len(order') |-> pool'[order'[i]]]
        IN  /\ L \in Seq(Converter) /\ Len(L) = Len(order')
            /\ \A i \in 1..Len(order') : L[i] = pool'[order'[i]]
    <3>1. /\ Len(order') \in Nat
          /\ \A i \in 1..Len(order') : order'[i] \in DOMAIN pool' /\ pool'[order'[i]] \in Converter
      <4>1. Len(order') \in Nat /\ DOMAIN pool' = {order'[i] : i \in 1..Len(order')}
        BY LenProperties DEF IInv, TypeOK, OrderMatchesPool
      <4>2. \A j \in DOMAIN pool' : pool'[j] \in Converter
        BY DEF IInv, TypeOK
      <4> QED BY <4>1, <4>2
    <3> DEFINE L == [i \in 1..Len(order') |-> pool'[order'[i]]]
    <3>2. L \in Seq(Converter) /\ DOMAIN L = 1..Len(order')
      <4>1. L \in [1..Len(order') -> Converter]
        BY <3>1
      <4>2. DOMAIN L = 1..Len(order')
        OBVIOUS
      <4> DEFINE n == Len(order')
      <4>3. n \in Nat /\ L \in [1..n -> Converter]
        BY <3>1, <4>1
      <4> HIDE DEF L, n
      <4>4. L \in Seq(Converter)
        BY <4>3
      <4> QED BY <4>2, <4>4
    <3>3. \A i \in 1..Len(order') : L[i] = pool'[order'[i]]
      OBVIOUS
    <3> HIDE DEF L
    <3>4. DOMAIN L = 1..Len(L) /\ Len(L) \in Nat
      BY <3>2, LenProperties
    <3>5. Len(L) = Len(order')
      BY <3>1, <3>2, <3>4
    <3> QED BY <3>2, <3>3, <3>5 DEF L
  <2> QED BY <2>1 DEF Line
<1> HIDE DEF k, c
<1>6. /\ Append(s, c) \in Seq(Converter) /\ Len(Append(s, c)) = m + 1
      /\ Append(s, c)[m + 1] = c
      /\ \A i \in 1..m : Append(s, c)[i] = s[i]
  BY <1>1, AppendProperties
<1>7. m \in Int /\ \A i \in 1..m + 1 : i \in 1..m \/ i = m + 1
  BY <1>4
<1>8. \A i \in 1..m + 1 : Line'[i] = Append(s, c)[i]
  <2> SUFFICES ASSUME NEW i \in 1..m + 1 PROVE Line'[i] = Append(s, c)[i]
    OBVIOUS
  <2>1. CASE i = m + 1
    <3>1. order'[m + 1] = k
      BY DEF k
    <3>2. Line'[i] = pool'[k]
      BY <1>5, <2>1, <3>1
    <3> QED BY <1>1, <1>6, <2>1, <3>2
  <2>2. CASE i \in 1..m
    <3>1. i + d \in 1..Len(order)
      BY <1>4, <2>2
    <3>2. Line'[i] = pool'[order[i + d]] /\ order[i + d] \in rest
      BY <1>5, <2>2
    <3>3. Line'[i] = Line[i + d]
      BY <1>1, <1>4, <3>1, <3>2
    <3> QED BY <1>6, <2>2, <3>3
  <2> QED BY <1>7, <2>1, <2>2
<1>9. Line' = Append(s, c)
  BY <1>5, <1>6, <1>8, SeqEqual
<1>10. \A p \in 1..Len(Line) : KeyOfConverter[Line[p]] # KeyOfConverter[c]
  BY <1>1, <1>4 DEF KeyOfConverter, k
<1>11. Cache!Fill(t, c)
  BY <1>3, <1>9, <1>10 DEF Cache!Fill, Line, KeyOfConverter
<1>12. \E converter \in Converter : Cache!Fill(t, converter)
  <2>1. c \in Converter
    BY <1>1
  <2> QED BY <1>11, <2>1 DEF Cache!Fill, Cache!Serve
<1> QED BY <1>12 DEF Cache!Next

LEMMA InsertRefines ==
  ASSUME IInv, IInv', NEW t \in Threads, Insert(t) PROVE Cache!Next
<1> DEFINE k == Key(call[t].options)
<1>1. /\ k \in Settings /\ k \notin DOMAIN pool /\ Put(t, DOMAIN pool)
      /\ order' = Append(order, k) /\ Cardinality(DOMAIN pool) < MaxSize
      /\ order \in Seq(Settings)
  BY CallOptions DEF IInv, Insert, TypeOK
<1>2. /\ Len(order) \in Nat /\ Len(order) < MaxSize
      /\ \A i \in 1..Len(order) : order[i] \in DOMAIN pool
  BY <1>1, OrderLength DEF IInv
<1>3. Line \in Seq(Converter) /\ Len(Line) = Len(order)
  BY LineFacts
<1>4. /\ Len(order') = Len(order) + 1 /\ order'[Len(order) + 1] = k
      /\ \A i \in 1..Len(order) : order'[i] = order[i]
  BY <1>1, AppendProperties
<1>5. DOMAIN pool \in SUBSET DOMAIN pool /\ 0 \in 0..1
  OBVIOUS
<1>6. /\ Len(order) - 0 = Len(order) /\ Len(order) - 0 + 1 = Len(order) + 1
      /\ \A i \in 1..Len(order) : i + 0 = i
  BY <1>2
<1>7. /\ Len(order') = Len(order) - 0 + 1 /\ Len(Line) = Len(order) - 0
      /\ order'[Len(order) - 0 + 1] = k
      /\ \A i \in 1..Len(order) - 0 : order'[i] = order[i + 0] /\ order[i + 0] \in DOMAIN pool
      /\ \A i \in 1..Len(order) - 0 : Line[i] = Line[i + 0]
      /\ Line = IF Len(Line) < MaxSize THEN Line ELSE Tail(Line)
  BY <1>2, <1>3, <1>4, <1>6
<1> QED BY <1>1, <1>3, <1>5, <1>7, PutRefines

LEMMA ReplaceOldestRefines ==
  ASSUME IInv, IInv', NEW t \in Threads, ReplaceOldest(t) PROVE Cache!Next
<1> DEFINE k == Key(call[t].options)
           rest == DOMAIN pool \ {Head(order)}
           n == Len(order)
<1>1. /\ k \in Settings /\ k \notin DOMAIN pool /\ Put(t, rest)
      /\ order' = Append(Tail(order), k) /\ Cardinality(DOMAIN pool) >= MaxSize
      /\ order \in Seq(Settings) /\ MaxSize \in Nat /\ MaxSize >= 1
  BY CallOptions, PoolParameters DEF IInv, ReplaceOldest, TypeOK
<1>2. /\ n \in Nat /\ n >= MaxSize /\ n >= 1
      /\ \A i \in 1..n : order[i] \in DOMAIN pool
  BY <1>1, OrderLength DEF IInv
<1>3. Line \in Seq(Converter) /\ Len(Line) = n
  BY LineFacts
<1>4. order # <<>> /\ Line # <<>> /\ Head(order) = order[1]
  BY <1>1, <1>2, <1>3
<1> HIDE DEF n, k
<1>5. /\ Tail(order) \in Seq(Settings) /\ Len(Tail(order)) = n - 1
      /\ \A i \in 1..n - 1 : Tail(order)[i] = order[i + 1]
  BY <1>1, <1>4, HeadTailProperties DEF n
<1>6. /\ Tail(Line) \in Seq(Converter) /\ Len(Tail(Line)) = n - 1
      /\ \A i \in 1..n - 1 : Tail(Line)[i] = Line[i + 1]
  BY <1>3, <1>4, HeadTailProperties
<1>7. /\ Len(order') = n - 1 + 1 /\ order'[n - 1 + 1] = k
      /\ \A i \in 1..n - 1 : order'[i] = order[i + 1]
  BY <1>1, <1>5, AppendProperties
<1>8. \A i \in 1..n - 1 : order[i + 1] \in rest
  <2> SUFFICES ASSUME NEW i \in 1..n - 1 PROVE order[i + 1] \in rest
    OBVIOUS
  <2>1. i + 1 \in 1..n /\ 1 \in 1..n /\ i + 1 # 1
    BY <1>2
  <2>2. order[i + 1] # order[1]
    BY <2>1 DEF IInv, OrderMatchesPool, n
  <2> QED BY <1>2, <1>4, <2>1, <2>2
<1>9. Tail(Line) = IF Len(Line) < MaxSize THEN Line ELSE Tail(Line)
  BY <1>1, <1>2, <1>3
<1>10. rest \in SUBSET DOMAIN pool /\ 1 \in 0..1
  OBVIOUS
<1> HIDE DEF rest
<1> QED BY <1>1, <1>6, <1>7, <1>8, <1>9, <1>10, PutRefines DEF n, k

(* get_converter, with the lock given up to build, implements an indivisible *)
(* call on a least recently used cache.                                       *)
THEOREM PoolImplementsLRU == Spec => ImplementsLRU
<1>1. Init => IInv /\ Cache!Init
  BY InitIInv, InitRefines
<1>2. IInv /\ [Next]_vars => IInv'
  BY StepIInv
<1>3. IInv /\ IInv' /\ [Next]_vars => [Cache!Next]_(Cache!cvars)
  <2> SUFFICES ASSUME IInv, IInv', [Next]_vars PROVE [Cache!Next]_(Cache!cvars)
    OBVIOUS
  <2>1. ASSUME NEW t \in Threads, NEW o \in Options, Hit(t, o) PROVE Cache!Next
    BY <2>1, TakeCachedRefines DEF Hit
  <2>2. ASSUME NEW t \in Threads, NEW o \in Options, Miss(t, o) PROVE Cache!Next
    <3>1. /\ Asked' = [Asked EXCEPT ![t] = Key(o)] /\ Key(o) \in Settings
          /\ UNCHANGED <<pool, order, got>>
      BY <2>2 DEF IInv, TypeOK, Miss, Asked, Options, Key
    <3>2. Cache!Ask(t, Key(o))
      BY <3>1 DEF Cache!Ask, Asked
    <3> QED BY <3>1, <3>2 DEF Cache!Next
  <2>3. ASSUME NEW t \in Threads, BuildFails(t) PROVE Cache!Next
    <3>1. /\ UNCHANGED <<pool, order>> /\ Asked' = Asked
          /\ got' = [got EXCEPT ![t] = NoConverter]
      BY <2>3, CallOptions DEF IInv, TypeOK, BuildFails, Return, Asked
    <3>2. Cache!Fail(t)
      BY <3>1 DEF Cache!Fail, Asked
    <3> QED BY <3>2 DEF Cache!Next
  <2>4. ASSUME NEW t \in Threads, LostTheRace(t) PROVE Cache!Next
    <3>1. call[t].options \in Options
      BY CallOptions DEF IInv
    <3> QED BY <2>4, <3>1, TakeCachedRefines DEF LostTheRace
  <2>5. CASE UNCHANGED vars
    BY <2>5 DEF vars, Cache!cvars
  <2> QED BY <2>1, <2>2, <2>3, <2>4, <2>5, InsertRefines, ReplaceOldestRefines DEF Next
<1> QED BY <1>1, <1>2, <1>3, PTL DEF Spec, ImplementsLRU, Cache!Spec
=============================================================================
