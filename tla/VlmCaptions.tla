----------------------------- MODULE VlmCaptions -----------------------------
(***************************************************************************)
(* The captions of one document's pictures, in each worker process: a      *)
(* thread pool prefetches them (converter.py), every call takes a permit   *)
(* of the process's semaphore and retries transient failures (vlm.py), and *)
(* the serializer asks again, one picture at a time, for those that are    *)
(* missing (serializers.py).  A worker converts one document at a time.    *)
(***************************************************************************)
EXTENDS Integers, FiniteSets

CONSTANTS Processes,     \* worker processes
          Count,         \* pictures in a document, in document order
          Missing,       \* pictures without image data
          Damages,       \* which pictures' image data may not be loadable
          Limits,        \* values requests give to vlm_max_concurrent
          ThreadCap,     \* 32
          MaxRetries     \* max_retries of generate_caption_sync

ASSUME CaptionParameters ==
  /\ Count \in Nat /\ Limits \subseteq Nat /\ MaxRetries \in Nat
  /\ ThreadCap \in Nat \ {0} /\ IsFiniteSet(Processes)
  /\ \A broken \in Damages : broken \cap Missing = {}

Pictures == 1..Count

VARIABLES limit,    \* vlm_max_concurrent of the document in each process
          damage,   \* that document's pictures that cannot be loaded
          phase,    \* what has become of that document
          next,     \* the picture the serializer comes to next
          stage,    \* of generate_caption_sync for each picture
          attempt,  \* its loop variable
          permits,  \* value of the process's threading.Semaphore
          captions, \* pictures with an entry in vlm_captions
          calls,    \* history: calls of generate_caption_sync
          posts     \* history: requests sent

vars == <<limit, damage, phase, next, stage, attempt, permits, captions, calls, posts>>

Stages == {"idle", "queued", "waiting", "posting", "backoff"}
In(p, stages) == {i \in Pictures : stage[p][i] \in stages}
AllIdle(p) == In(p, Stages \ {"idle"}) = {}

Valid(p) == Pictures \ (Missing \cup damage[p])  \* what is_valid_image lets through

Init ==
  /\ limit \in [Processes -> Limits] /\ damage \in [Processes -> Damages]
  /\ phase = [p \in Processes |-> "parsed"]
  /\ next = [p \in Processes |-> 1]
  /\ stage = [p \in Processes |-> [i \in Pictures |-> "idle"]]
  /\ attempt = [p \in Processes |-> [i \in Pictures |-> 0]]
  /\ permits = limit
  /\ captions = [p \in Processes |-> {}]
  /\ calls = [p \in Processes |-> [i \in Pictures |-> 0]]
  /\ posts = [p \in Processes |-> [i \in Pictures |-> 0]]

SmallerOf(a, b) == IF a <= b THEN a ELSE b

(* Threads that fetch: the caller's own for a single picture. *)
Width(p) ==
  IF Cardinality(Valid(p)) = 1 THEN 1
  ELSE SmallerOf(SmallerOf(Cardinality(Valid(p)), limit[p]), ThreadCap)

Becomes(p, i, s) == stage' = [stage EXCEPT ![p][i] = s]
Moves(p, to) == phase' = [phase EXCEPT ![p] = to]

Prefetch(p) ==
  /\ phase[p] = "parsed" /\ (Valid(p) # {} => Width(p) > 0)
  /\ Moves(p, "prefetch")
  /\ stage' = [stage EXCEPT ![p] = [i \in Pictures |-> IF i \in Valid(p) THEN "queued" ELSE "idle"]]
  /\ UNCHANGED <<limit, damage, next, attempt, permits, captions, calls, posts>>

PrefetchRaises(p) ==  \* ThreadPoolExecutor(max_workers=0): ValueError
  /\ phase[p] = "parsed" /\ Valid(p) # {} /\ Width(p) = 0
  /\ Moves(p, "failed")
  /\ UNCHANGED <<limit, damage, next, stage, attempt, permits, captions, calls, posts>>

(* A pool thread is free and this is the first task still queued. *)
Runnable(p, i) ==
  /\ stage[p][i] = "queued"
  /\ \A j \in In(p, {"queued"}) : i <= j
  /\ phase[p] = "prefetch" => Cardinality(In(p, {"waiting", "posting", "backoff"})) < Width(p)

Call(p, i) ==
  /\ Runnable(p, i)
  /\ Becomes(p, i, "waiting")
  /\ attempt' = [attempt EXCEPT ![p][i] = 0]
  /\ calls' = [calls EXCEPT ![p][i] = @ + 1]
  /\ UNCHANGED <<limit, damage, phase, next, permits, captions, posts>>

CallUnprepared(p, i) ==  \* the image or the endpoint is no good: ""
  /\ Runnable(p, i)
  /\ Becomes(p, i, "idle")
  /\ calls' = [calls EXCEPT ![p][i] = @ + 1]
  /\ UNCHANGED <<limit, damage, phase, next, attempt, permits, captions, posts>>

Acquire(p, i) ==
  /\ stage[p][i] = "waiting" /\ permits[p] > 0
  /\ permits' = [permits EXCEPT ![p] = @ - 1]
  /\ Becomes(p, i, "posting")
  /\ posts' = [posts EXCEPT ![p][i] = @ + 1]
  /\ UNCHANGED <<limit, damage, phase, next, attempt, captions, calls>>

Release(p, i) ==
  /\ Becomes(p, i, "idle")
  /\ permits' = [permits EXCEPT ![p] = @ + 1]

Caption(p, i) ==
  /\ stage[p][i] = "posting"
  /\ captions' = [captions EXCEPT ![p] = @ \cup {i}]
  /\ Release(p, i)
  /\ UNCHANGED <<limit, damage, phase, next, attempt, calls, posts>>

GiveUp_KeepsPermit(p, i) ==  \* faulty: the permit is released on success only
  /\ stage[p][i] = "posting"
  /\ Becomes(p, i, "idle")
  /\ UNCHANGED <<limit, damage, phase, next, attempt, permits, captions, calls, posts>>

(* An empty caption, a permanent error, or the last attempt has failed. *)
GiveUp(p, i) ==
  /\ stage[p][i] = "posting"
  /\ Release(p, i)
  /\ UNCHANGED <<limit, damage, phase, next, attempt, captions, calls, posts>>

BackOff_OneMore(p, i) ==  \* faulty: <= instead of <
  /\ stage[p][i] = "posting" /\ attempt[p][i] <= MaxRetries
  /\ Becomes(p, i, "backoff")
  /\ attempt' = [attempt EXCEPT ![p][i] = @ + 1]
  /\ UNCHANGED <<limit, damage, phase, next, permits, captions, calls, posts>>

BackOff(p, i) ==  \* 429, 502, 503, 504 or a network error: sleep, permit held
  /\ stage[p][i] = "posting" /\ attempt[p][i] < MaxRetries
  /\ Becomes(p, i, "backoff")
  /\ attempt' = [attempt EXCEPT ![p][i] = @ + 1]
  /\ UNCHANGED <<limit, damage, phase, next, permits, captions, calls, posts>>

Retry_TakesAnother(p, i) ==  \* faulty: each attempt takes a permit
  /\ stage[p][i] = "backoff"
  /\ Becomes(p, i, "waiting")
  /\ UNCHANGED <<limit, damage, phase, next, attempt, permits, captions, calls, posts>>

Retry(p, i) ==
  /\ stage[p][i] = "backoff"
  /\ Becomes(p, i, "posting")
  /\ posts' = [posts EXCEPT ![p][i] = @ + 1]
  /\ UNCHANGED <<limit, damage, phase, next, attempt, permits, captions, calls>>

Collect(p) ==  \* all results are in and the pool is shut down
  /\ phase[p] = "prefetch" /\ AllIdle(p)
  /\ Moves(p, "serialize")
  /\ UNCHANGED <<limit, damage, next, stage, attempt, permits, captions, calls, posts>>

AtPicture(p) == phase[p] = "serialize" /\ AllIdle(p) /\ next[p] <= Count

Pass(p) ==  \* the caption is cached, or there is no image to ask about
  /\ AtPicture(p) /\ next[p] \in captions[p] \cup Missing
  /\ next' = [next EXCEPT ![p] = @ + 1]
  /\ UNCHANGED <<limit, damage, phase, stage, attempt, permits, captions, calls, posts>>

Fallback_Always(p) ==  \* faulty: the prefetched caption is not looked up
  /\ AtPicture(p) /\ next[p] \in Valid(p)
  /\ Becomes(p, next[p], "queued")
  /\ next' = [next EXCEPT ![p] = @ + 1]
  /\ UNCHANGED <<limit, damage, phase, attempt, permits, captions, calls, posts>>

Fallback(p) ==
  /\ AtPicture(p) /\ next[p] \in Valid(p) \ captions[p]
  /\ Becomes(p, next[p], "queued")
  /\ next' = [next EXCEPT ![p] = @ + 1]
  /\ UNCHANGED <<limit, damage, phase, attempt, permits, captions, calls, posts>>

SerializeRaises(p) ==  \* only the prefetch guards the loading of the image
  /\ AtPicture(p) /\ next[p] \in damage[p]
  /\ Moves(p, "failed")
  /\ UNCHANGED <<limit, damage, next, stage, attempt, permits, captions, calls, posts>>

Finish(p) ==
  /\ phase[p] = "serialize" /\ AllIdle(p) /\ next[p] > Count
  /\ Moves(p, "serialized")
  /\ UNCHANGED <<limit, damage, next, stage, attempt, permits, captions, calls, posts>>

Ended(p) == phase[p] \in {"serialized", "failed"}

(* A call waits for a permit that no other call has to give back. *)
WaitsForNone(p) == permits[p] = 0 /\ In(p, {"waiting"}) # {} /\ In(p, {"posting", "backoff"}) = {}

Stopped == (\A p \in Processes : Ended(p) \/ WaitsForNone(p)) /\ UNCHANGED vars

CallStep(p, i) ==
  \/ Call(p, i) \/ CallUnprepared(p, i) \/ Acquire(p, i)
  \/ Caption(p, i) \/ GiveUp(p, i) \/ BackOff(p, i) \/ Retry(p, i)

DocumentStep(p) ==
  \/ Prefetch(p) \/ PrefetchRaises(p) \/ Collect(p)
  \/ Pass(p) \/ Fallback(p) \/ SerializeRaises(p) \/ Finish(p)

Next ==
  \/ \E p \in Processes : DocumentStep(p) \/ \E i \in Pictures : CallStep(p, i)
  \/ Stopped

Spec == Init /\ [][Next]_vars

(* Each thread of a process goes on, and every request ends: the client has *)
(* a timeout of 300 seconds.                                                 *)
FairSpec ==
  /\ Spec
  /\ \A p \in Processes : /\ WF_vars(DocumentStep(p))
                          /\ \A i \in Pictures : WF_vars(CallStep(p, i))

-----------------------------------------------------------------------------
TypeOK ==
  /\ phase \in [Processes -> {"parsed", "prefetch", "serialize", "serialized", "failed"}]
  /\ next \in [Processes -> 1..Count + 1]
  /\ stage \in [Processes -> [Pictures -> Stages]]
  /\ attempt \in [Processes -> [Pictures -> 0..MaxRetries]]
  /\ limit \in [Processes -> Limits] /\ damage \in [Processes -> Damages]
  /\ \A p \in Processes : permits[p] \in 0..limit[p]
  /\ \A p \in Processes : captions[p] \subseteq Valid(p)
  /\ calls \in [Processes -> [Pictures -> Nat]]
  /\ posts \in [Processes -> [Pictures -> Nat]]

(* vlm.py: a permit is held exactly while a request or the pause before its *)
(* retry is under way, whatever way the call ends.                           *)
PermitsMatchCalls ==
  \A p \in Processes : permits[p] + Cardinality(In(p, {"posting", "backoff"})) = limit[p]

(* converter.py sizes the pool by vlm_max_concurrent: no pool thread, nor   *)
(* the serializer after it, waits on the semaphore beside the others.        *)
NobodyWaitsForAPermit ==
  \A p \in Processes : limit[p] > 0 =>
    \A i \in In(p, {"waiting"}) : permits[p] > 0

(* A call sends max_retries + 1 requests at most, and a picture costs two   *)
(* calls at most: its prefetch and the serializer's fallback.                *)
RequestsAreBounded ==
  \A p \in Processes, i \in Pictures :
    calls[p][i] <= 2 /\ posts[p][i] <= calls[p][i] * (MaxRetries + 1)

(* serializers.py, "check prefetch cache first": no request is sent for a   *)
(* picture that has its caption.                                             *)
CaptionedIsNotAskedAgain ==
  [][\A p \in Processes : \A i \in captions[p] : posts'[p][i] = posts[p][i]]_vars

(* A loadable picture is left without a caption only after both its calls   *)
(* failed.                                                                   *)
UncaptionedWasAskedTwice ==
  \A p \in Processes : phase[p] \in {"serialize", "serialized"} =>
    \A i \in Valid(p) \ captions[p] : i < next[p] /\ stage[p][i] = "idle" => calls[p][i] = 2

(* Every document is serialized or fails, with one exception: given           *)
(* vlm_max_concurrent = 0 and a single picture that can be loaded, no pool is  *)
(* made that would refuse that size, and the call may wait on Semaphore(0),    *)
(* which nobody ever releases.                                                 *)
EveryDocumentEnds ==
  \A p \in Processes : (limit[p] = 0 /\ Cardinality(Valid(p)) = 1) \/ <>Ended(p)
=============================================================================
