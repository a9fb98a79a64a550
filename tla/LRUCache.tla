------------------------------ MODULE LRUCache ------------------------------
(***************************************************************************)
(* What ThreadSafeModelPool promises its callers: one indivisible          *)
(* get_converter on a cache that holds a converter per key and drops the   *)
(* least recently used one.                                                 *)
(***************************************************************************)
EXTENDS Naturals, Sequences

CONSTANTS Threads, Keys, Converters, KeyOf, NoConverter, MaxSize

VARIABLES line,  \* cached converters, the least recently used first
          asked, \* key of each thread's last call
          got    \* what it returned

cvars == <<line, asked, got>>

Init ==
  /\ line = <<>>
  /\ asked \in [Threads -> Keys]
  /\ got = [t \in Threads |-> NoConverter]

(* line with its p-th converter moved to the end. *)
MovedToEnd(p) ==
  [i \in 1..Len(line) |->
     IF i < p THEN line[i] ELSE IF i < Len(line) THEN line[i + 1] ELSE line[p]]

Ask(t, k) ==
  /\ asked' = [asked EXCEPT ![t] = k]
  /\ UNCHANGED <<line, got>>

Serve(t, converter) ==
  /\ asked' = [asked EXCEPT ![t] = KeyOf[converter]]
  /\ got' = [got EXCEPT ![t] = converter]

Hit(t, p) ==
  /\ line' = MovedToEnd(p)
  /\ Serve(t, line[p])

Fill(t, converter) ==
  /\ \A p \in 1..Len(line) : KeyOf[line[p]] # KeyOf[converter]
  /\ line' = Append(IF Len(line) < MaxSize THEN line ELSE Tail(line), converter)
  /\ Serve(t, converter)

Fail(t) ==  \* the constructor raised
  /\ got' = [got EXCEPT ![t] = NoConverter]
  /\ UNCHANGED <<line, asked>>

Next ==
  \E t \in Threads :
    \/ \E k \in Keys : Ask(t, k)
    \/ \E p \in 1..Len(line) : Hit(t, p)
    \/ \E converter \in Converters : Fill(t, converter)
    \/ Fail(t)

Spec == Init /\ [][Next]_cvars
=============================================================================
