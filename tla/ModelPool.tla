------------------------------ MODULE ModelPool ------------------------------
(***************************************************************************)
(* ThreadSafeModelPool of pool.py: get_converter looks its key up under    *)
(* the lock, builds a missing converter outside it, and looks again before *)
(* it inserts its own.                                                      *)
(***************************************************************************)
EXTENDS Naturals, Sequences, FiniteSets

CONSTANTS Threads,   \* threads that call get_converter
          Settings,  \* values of the eight options get_converter puts in its key
          MaxSize,   \* max_size
          MaxBuilds  \* bound: converters ever put into the pool

ASSUME PoolParameters ==
  /\ MaxSize \in Nat \ {0} /\ MaxBuilds \in Nat \ {0}
  /\ Settings # {}

VARIABLES pool,     \* _pool: key -> converter
          order,    \* _access_order
          call,     \* per thread: between the two locked sections or not
          got,      \* per thread: what its last call returned
          built,    \* history: number of converters put into the pool
          evicted   \* history: converters dropped from it

vars == <<pool, order, call, got, built, evicted>>

(* Of the options PDFConverter reads, pages (include_page_breaks, with       *)
(* artifacts_path) is not part of the key.                                   *)
Options == [setting : Settings, pages : BOOLEAN]
Key(o) == o.setting

Converter == [id : 1..MaxBuilds, options : Options]
NoConverter == [id |-> 0]

Init ==
  /\ pool = [k \in {} |-> NoConverter] /\ order = <<>>
  /\ call \in [Threads -> [building : {FALSE}, options : Options]]
  /\ got = [t \in Threads |-> NoConverter]
  /\ built = 0 /\ evicted = {}

PositionOf(k) == CHOOSE p \in 1..Len(order) : order[p] = k

(* _access_order.remove(key); _access_order.append(key) *)
Touched(k) ==
  [i \in 1..Len(order) |->
     IF i < PositionOf(k) THEN order[i] ELSE IF i < Len(order) THEN order[i + 1] ELSE k]

Return(t, o, converter) ==
  /\ call' = [call EXCEPT ![t] = [building |-> FALSE, options |-> o]]
  /\ got' = [got EXCEPT ![t] = converter]

TakeCached_NoTouch(t, o) ==  \* faulty: a hit does not count as a use
  /\ Key(o) \in DOMAIN pool
  /\ Return(t, o, pool[Key(o)])
  /\ UNCHANGED <<pool, order, built, evicted>>

TakeCached(t, o) ==
  /\ Key(o) \in DOMAIN pool
  /\ order' = Touched(Key(o))
  /\ Return(t, o, pool[Key(o)])
  /\ UNCHANGED <<pool, built, evicted>>

Hit(t, o) == ~call[t].building /\ TakeCached(t, o)

Miss(t, o) ==
  /\ ~call[t].building
  /\ Key(o) \notin DOMAIN pool
  /\ call' = [call EXCEPT ![t] = [building |-> TRUE, options |-> o]]
  /\ UNCHANGED <<pool, order, got, built, evicted>>

BuildFails(t) ==  \* PDFConverter(...) raises: the caller gets no converter
  /\ call[t].building
  /\ Return(t, call[t].options, NoConverter)
  /\ UNCHANGED <<pool, order, built, evicted>>

LostTheRace(t) == call[t].building /\ TakeCached(t, call[t].options)

Put(t, rest) ==
  LET o == call[t].options
      converter == [id |-> built + 1, options |-> o]
  IN  /\ built < MaxBuilds
      /\ built' = built + 1
      /\ pool' = [k \in rest \cup {Key(o)} |-> IF k = Key(o) THEN converter ELSE pool[k]]
      /\ Return(t, o, converter)

Insert_Unchecked(t) ==  \* faulty: the pool is not looked at again
  /\ call[t].building
  /\ Len(order) < MaxSize
  /\ Put(t, DOMAIN pool)
  /\ order' = Append(order, Key(call[t].options))
  /\ UNCHANGED evicted

Insert(t) ==
  /\ call[t].building /\ Key(call[t].options) \notin DOMAIN pool
  /\ Cardinality(DOMAIN pool) < MaxSize
  /\ Put(t, DOMAIN pool)
  /\ order' = Append(order, Key(call[t].options))
  /\ UNCHANGED evicted

ReplaceOldest(t) ==
  /\ call[t].building /\ Key(call[t].options) \notin DOMAIN pool
  /\ Cardinality(DOMAIN pool) >= MaxSize
  /\ Put(t, DOMAIN pool \ {Head(order)})
  /\ order' = Append(Tail(order), Key(call[t].options))
  /\ evicted' = evicted \cup {pool[Head(order)]}

Next ==
  \E t \in Threads :
    \/ \E o \in Options : Hit(t, o) \/ Miss(t, o)
    \/ BuildFails(t) \/ LostTheRace(t) \/ Insert(t) \/ ReplaceOldest(t)

Spec == Init /\ [][Next]_vars

-----------------------------------------------------------------------------
TypeOK ==
  /\ DOMAIN pool \subseteq Settings /\ \A k \in DOMAIN pool : pool[k] \in Converter
  /\ order \in Seq(Settings) /\ Len(order) <= MaxSize
  /\ call \in [Threads -> [building : BOOLEAN, options : Options]]
  /\ got \in [Threads -> Converter \cup {NoConverter}]
  /\ built \in 0..MaxBuilds /\ evicted \subseteq Converter

(* The dictionary and the access list, kept in step by hand in two locked   *)
(* sections, hold the same keys, each once: pop(0) finds the key to drop,   *)
(* and no converter outlives its entry.                                      *)
OrderMatchesPool ==
  /\ {order[i] : i \in 1..Len(order)} = DOMAIN pool
  /\ \A i, j \in 1..Len(order) : order[i] = order[j] => i = j

(* test_thread_safe_model_pool_concurrent_access: threads that ask for the  *)
(* same key share one converter.  None keeps a private one: what a thread   *)
(* got is in the pool for its key or has been evicted.                       *)
OneConverterPerKey ==
  \A t \in Threads : got[t] # NoConverter =>
    \/ got[t] \in evicted
    \/ /\ Key(got[t].options) \in DOMAIN pool
       /\ pool[Key(got[t].options)] = got[t]

(* pool.py: the cache key is "the heavy converter configuration variables": *)
(* a caller gets a converter that was configured as it asked.                *)
ServesRequestedConfiguration ==
  \A t \in Threads : ~call[t].building /\ got[t] # NoConverter =>
    got[t].options = call[t].options

-----------------------------------------------------------------------------
(* The calls are indivisible for their callers. *)
Cache == INSTANCE LRUCache WITH
  Keys <- Settings, asked <- [t \in Threads |-> Key(call[t].options)],
  Converters <- Converter, KeyOf <- [c \in Converter |-> Key(c.options)],
  line <- [i \in 1..Len(order) |-> pool[order[i]]]

(* get_converter behaves as one indivisible call on a least recently used   *)
(* cache, although it gives the lock up to build.                            *)
ImplementsLRU == Cache!Spec
=============================================================================
