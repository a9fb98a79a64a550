---------------------------- MODULE AsyncCaptions ----------------------------
(***************************************************************************)
(* generate_caption of vlm.py, the asynchronous twin: calls on one event   *)
(* loop leave the encoding of the image and the acquisition of a permit to *)
(* the threads of the loop's default executor, and may be cancelled at any *)
(* await.  With it, what a call's arguments make of its request: endpoint,  *)
(* format, and the semaphore it shares.                                     *)
(***************************************************************************)
EXTENDS Integers, Sequences, FiniteSets

CONSTANTS Calls,
          Args,        \* arguments of a call: see the assumption
          Mixes,       \* which arguments the calls may have together
          Lower,       \* .strip().lower() of the providers and endpoints in Args
          Workers,     \* threads of the default executor
          MaxRetries,  \* max_retries
          Faults       \* "cancel": tasks may be cancelled

Local == "http://localhost:11434"
OpenAI == "https://api.openai.com/v1"
Anthropic == "https://api.anthropic.com"
Google == "https://generativelanguage.googleapis.com"

ASSUME CallParameters ==
  /\ IsFiniteSet(Calls) /\ Workers \in Nat \ {0} /\ MaxRetries \in Nat
  /\ Faults \subseteq {"cancel"}
  /\ Args \subseteq [provider : STRING, endpoint : STRING, limit : Nat, image : BOOLEAN]
  /\ Mixes \subseteq [Calls -> Args]

VARIABLES args,    \* of each call
          stage,   \* at which await of generate_caption it is
          attempt, \* its loop variable
          job,     \* its work in the executor; "granted": a permit, not yet seen
          queue,   \* of the executor
          value,   \* of the semaphores, by key
          outcome  \* what became of its request, if a service took it in

vars == <<args, stage, attempt, job, queue, value, outcome>>

-----------------------------------------------------------------------------
(* What becomes of the arguments: three tables by provider. *)
Folded(name) == IF name \in DOMAIN Lower THEN Lower[name] ELSE name

Provider(a) == IF a.provider = "" THEN "ollama" ELSE Folded(a.provider)

Endpoint(a) ==
  LET p == Provider(a) IN
    IF a.endpoint \notin {"", Local} \/ (p = "ollama" /\ a.endpoint = Local) THEN a.endpoint
    ELSE CASE p = "ollama" -> Local
           [] p \in {"openai", "vllm", "llama.cpp"} -> OpenAI
           [] p = "anthropic" -> Anthropic
           [] p \in {"google", "gemini"} -> Google
           [] OTHER -> a.endpoint

Format_WithoutAlias(p) ==  \* faulty: an alias is missing in the dictionary
  CASE p \in {"openai", "vllm"} -> "openai"
    [] p = "anthropic" -> "anthropic"
    [] p \in {"google", "gemini"} -> "google"
    [] OTHER -> "ollama"

Format(p) ==  \* _PROVIDER_BUILDERS
  CASE p \in {"openai", "vllm", "llama.cpp"} -> "openai"
    [] p = "anthropic" -> "anthropic"
    [] p \in {"google", "gemini"} -> "google"
    [] OTHER -> "ollama"

Reader(p) ==  \* the branches of _extract_response_content
  CASE p \in {"openai", "vllm", "llama.cpp"} -> "openai"
    [] p = "anthropic" -> "anthropic"
    [] p \in {"google", "gemini"} -> "google"
    [] OTHER -> "ollama"

(* The formats a service at an address may speak; there is none at "".       *)
Spoken(e) ==
  CASE e = "" -> {}
    [] e = Local -> {"ollama"}
    [] e = OpenAI -> {"openai"}
    [] e = Anthropic -> {"anthropic"}
    [] e = Google -> {"google"}
    [] OTHER -> {"ollama", "openai", "anthropic", "google"}

Key_AsSpelled(a) == <<a.provider, Endpoint(a), a.limit>>  \* faulty: not normalised

Key(a) == <<Provider(a), Folded(Endpoint(a)), a.limit>>

Keys == {Key(a) : a \in Args}

-----------------------------------------------------------------------------
Init ==
  /\ args \in Mixes
  /\ stage = [c \in Calls |-> "idle"]
  /\ attempt = [c \in Calls |-> 0]
  /\ job = [c \in Calls |-> "none"]
  /\ queue = <<>>
  /\ value = [k \in Keys |-> k[3]]
  /\ outcome = [c \in Calls |-> "none"]

Becomes(c, s) == stage' = [stage EXCEPT ![c] = s]
Works(c, j) == job' = [job EXCEPT ![c] = j]

(* await asyncio.to_thread(...) *)
ToThread(c, s) == Becomes(c, s) /\ Works(c, "queued") /\ queue' = Append(queue, c)

Start(c) ==
  /\ stage[c] = "idle"
  /\ ToThread(c, IF args[c].image THEN "encoding" ELSE "acquiring")
  /\ UNCHANGED <<args, attempt, value, outcome>>

Dequeue ==  \* a free thread begins to encode or to wait, or skips a cancelled job
  /\ queue # <<>> /\ Cardinality({c \in Calls : job[c] \in {"encode", "acquire"}}) < Workers
  /\ job' = [job EXCEPT ![Head(queue)] =
               CASE stage[Head(queue)] = "encoding" -> "encode"
                 [] stage[Head(queue)] = "acquiring" -> "acquire"
                 [] OTHER -> @]
  /\ queue' = Tail(queue)
  /\ UNCHANGED <<args, stage, attempt, value, outcome>>

Encoded(c) ==
  /\ job[c] = "encode" /\ stage[c] = "encoding"
  /\ ToThread(c, "acquiring")
  /\ UNCHANGED <<args, attempt, value, outcome>>

EncodeFails(c) ==  \* ""
  /\ job[c] = "encode" /\ stage[c] = "encoding"
  /\ Becomes(c, "ended") /\ Works(c, "none")
  /\ UNCHANGED <<args, attempt, queue, value, outcome>>

EncodedForNobody(c) ==
  /\ job[c] = "encode" /\ stage[c] = "cancelled"
  /\ Works(c, "none")
  /\ UNCHANGED <<args, stage, attempt, queue, value, outcome>>

Acquire(c) ==  \* in the thread, whether or not the call still waits for it
  /\ job[c] = "acquire" /\ value[Key(args[c])] > 0
  /\ value' = [value EXCEPT ![Key(args[c])] = @ - 1]
  /\ Works(c, "granted")
  /\ UNCHANGED <<args, stage, attempt, queue, outcome>>

Acquired(c) ==  \* on the loop: acquired = True, and the first request
  /\ job[c] = "granted" /\ stage[c] = "acquiring"
  /\ Becomes(c, "posting") /\ Works(c, "none")
  /\ UNCHANGED <<args, attempt, queue, value, outcome>>

Release(c) == value' = [value EXCEPT ![Key(args[c])] = @ + 1]

End_KeepsPermit(c) ==  \* faulty: no finally
  /\ stage[c] = "posting"
  /\ Becomes(c, "ended")
  /\ UNCHANGED <<args, attempt, job, queue, value>>

End(c) ==
  /\ stage[c] = "posting"
  /\ Becomes(c, "ended") /\ Release(c)
  /\ UNCHANGED <<args, attempt, job, queue>>

(* A service answers in the format it was asked in, and the answer is read as *)
(* the provider's branch reads it; what cannot be read is an empty caption.    *)
Answered(c) ==
  LET p == Provider(args[c]) IN
    /\ End(c) /\ Format(p) \in Spoken(Endpoint(args[c]))
    /\ outcome' = [outcome EXCEPT ![c] = IF Reader(p) = Format(p) THEN "caption" ELSE "unread"]

Refused(c) ==  \* 4xx: it does not speak the format of the request
  /\ End(c) /\ Spoken(Endpoint(args[c])) \ {Format(Provider(args[c]))} # {}
  /\ outcome' = [outcome EXCEPT ![c] = "refused"]

GiveUp(c) ==  \* another permanent error, or the last attempt has failed
  /\ End(c)
  /\ UNCHANGED outcome

BackOff(c) ==
  /\ stage[c] = "posting" /\ attempt[c] < MaxRetries
  /\ Becomes(c, "pausing")
  /\ attempt' = [attempt EXCEPT ![c] = @ + 1]
  /\ UNCHANGED <<args, job, queue, value, outcome>>

Retry(c) ==
  /\ stage[c] = "pausing"
  /\ Becomes(c, "posting")
  /\ UNCHANGED <<args, attempt, job, queue, value, outcome>>

(* CancelledError at an await.  A job in the queue will be skipped, one that *)
(* runs goes on; the permit is given back if acquired is set.                *)
CancelWaiting_Releases(c) ==  \* faulty: acquired is set before the await
  /\ "cancel" \in Faults /\ stage[c] \in {"encoding", "acquiring"}
  /\ Becomes(c, "cancelled")
  /\ job' = [job EXCEPT ![c] = IF @ = "queued" THEN "none" ELSE @]
  /\ IF stage[c] = "acquiring" THEN Release(c) ELSE UNCHANGED value
  /\ UNCHANGED <<args, attempt, queue, outcome>>

CancelWaiting(c) ==
  /\ "cancel" \in Faults /\ stage[c] \in {"encoding", "acquiring"}
  /\ Becomes(c, "cancelled")
  /\ job' = [job EXCEPT ![c] = IF @ = "queued" THEN "none" ELSE @]
  /\ UNCHANGED <<args, attempt, queue, value, outcome>>

CancelAsking(c) ==
  /\ "cancel" \in Faults /\ stage[c] \in {"posting", "pausing"}
  /\ Becomes(c, "cancelled") /\ Release(c)
  /\ UNCHANGED <<args, attempt, job, queue, outcome>>

-----------------------------------------------------------------------------
Done(c) == stage[c] \in {"ended", "cancelled"}

CallStep(c) ==
  \/ Encoded(c) \/ EncodeFails(c) \/ EncodedForNobody(c) \/ Acquire(c) \/ Acquired(c)
  \/ Answered(c) \/ Refused(c) \/ GiveUp(c) \/ BackOff(c) \/ Retry(c)

Stopped ==  \* calls that wait for a lost permit wait for ever
  /\ \A c \in Calls : Done(c) \/ job[c] \in {"queued", "acquire"}
  /\ UNCHANGED vars

Next ==
  \/ Dequeue \/ Stopped
  \/ \E c \in Calls : Start(c) \/ CallStep(c) \/ CancelWaiting(c) \/ CancelAsking(c)

Spec == Init /\ [][Next]_vars

(* Threads and the loop go on; a request ends by its timeout. *)
FairSpec == Spec /\ WF_vars(Dequeue) /\ \A c \in Calls : WF_vars(CallStep(c))

-----------------------------------------------------------------------------
TypeOK ==
  /\ args \in [Calls -> Args]
  /\ stage \in [Calls -> {"idle", "encoding", "acquiring", "posting", "pausing", "ended", "cancelled"}]
  /\ attempt \in [Calls -> 0..MaxRetries]
  /\ job \in [Calls -> {"none", "queued", "encode", "acquire", "granted"}]
  /\ queue \in Seq(Calls)
  /\ value \in [Keys -> Nat]
  /\ outcome \in [Calls -> {"none", "caption", "unread", "refused"}]

Owners(k) ==
  {c \in Calls : Key(args[c]) = k /\ (stage[c] \in {"posting", "pausing"} \/ job[c] = "granted")}

(* vlm.py, the finally of generate_caption: a permit is free, or of a call  *)
(* that asks, or of one whose thread got it for a task that was already      *)
(* cancelled; only that last one is lost, and none is given back twice.      *)
PermitsAccounted == \A k \in Keys : value[k] + Cardinality(Owners(k)) = k[3]

SameService(a, b) ==
  Provider(a) = Provider(b) /\ Folded(Endpoint(a)) = Folded(Endpoint(b)) /\ a.limit = b.limit

(* get_semaphore, "isolated per provider, endpoint, and concurrency limit": *)
(* however they spell or default the service they ask, the calls that name   *)
(* the same limit keep it together.                                          *)
LimitIsKept ==
  \A c \in Calls : stage[c] \in {"posting", "pausing"} =>
    Cardinality({d \in Calls : stage[d] \in {"posting", "pausing"} /\ SameService(args[c], args[d])})
      <= args[c].limit

(* A call that leaves the address to its provider, whichever and however it is *)
(* spelled, asks a service that speaks the format of its request, and gets the  *)
(* text of the answer: the three tables of vlm.py name the same providers.       *)
DefaultServiceUnderstands ==
  \A c \in Calls : args[c].endpoint \in {"", Local} => outcome[c] \notin {"refused", "unread"}

PermitLost == \E c \in Calls : stage[c] = "cancelled" /\ job[c] = "granted"

(* Calls do not block each other in the executor: every one ends, unless a   *)
(* cancellation has lost a permit.                                           *)
EveryCallEnds == \A c \in Calls : stage[c] # "idle" ~> Done(c) \/ PermitLost
=============================================================================
