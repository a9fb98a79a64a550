---------------------------- MODULE RateLimiter ----------------------------
(***************************************************************************)
(* The per-client rate limit of server.py: the dependency rate_limiter,    *)
(* which runs without an await, and the clean-up task it starts every ten  *)
(* minutes, which yields to other requests between batches of clients and  *)
(* goes on with the clock reading it was started with.                      *)
(***************************************************************************)
EXTENDS Integers, Sequences, FiniteSets

CONSTANTS Clients,     \* results of _get_client_ip
          Limit,       \* RATE_LIMIT_REQUESTS
          Window,      \* RATE_LIMIT_WINDOW, in ticks
          Interval,    \* 600 seconds between clean-ups, in ticks
          Batch,       \* clients cleaned between two yields (100)
          ClockSteps,  \* jumps time.time() may make; {} for a steady clock
          MaxTime      \* bound: elapsed time

ASSUME LimiterParameters ==
  /\ Limit \in Nat /\ Window \in Nat
  /\ Interval \in Nat \ {0} /\ Batch \in Nat \ {0}
  /\ ClockSteps \subseteq Int /\ MaxTime \in Nat

VARIABLES real,        \* elapsed time; the process starts long after the epoch
          wall,        \* time.time()
          log,         \* _rate_limit_data[client]: the deque of wall stamps
          known,       \* keys of _rate_limit_data
          lastCleanup, \* _last_rate_limit_cleanup
          sweeps,      \* clean-up tasks created and not finished
          accepted     \* history: when each client's requests were let through

vars == <<real, wall, log, known, lastCleanup, sweeps, accepted>>

Sweep == [now : Int, started : BOOLEAN, todo : SUBSET Clients]

Init ==
  /\ real = Interval /\ wall = Interval
  /\ log = [c \in Clients |-> <<>>] /\ known = {}
  /\ lastCleanup = 0 /\ sweeps = {}
  /\ accepted = [c \in Clients |-> <<>>]

(* while dq and now - dq[0] >= RATE_LIMIT_WINDOW: dq.popleft() *)
Live(dq, now) ==
  SubSeq(dq, 1 + Cardinality({i \in 1..Len(dq) :
                                \A j \in 1..i : now - dq[j] >= Window}), Len(dq))

(* The clean-up is scheduled before the caller's own limit is looked at.    *)
StartSweepIfDue ==
  IF wall - lastCleanup >= Interval
    THEN /\ lastCleanup' = wall
         /\ sweeps' = sweeps \cup {[now |-> wall, started |-> FALSE, todo |-> {}]}
    ELSE UNCHANGED <<lastCleanup, sweeps>>

Admit(c) ==
  /\ Len(Live(log[c], wall)) < Limit
  /\ log' = [log EXCEPT ![c] = Append(Live(@, wall), wall)]
  /\ known' = known \cup {c}
  /\ accepted' = [accepted EXCEPT ![c] = Append(@, real)]
  /\ StartSweepIfDue
  /\ UNCHANGED <<real, wall>>

Refuse_KeepsExpired(c) ==  \* faulty: expired stamps are counted
  /\ Len(log[c]) >= Limit
  /\ log' = [log EXCEPT ![c] = Live(@, wall)]
  /\ known' = known \cup {c}
  /\ StartSweepIfDue
  /\ UNCHANGED <<real, wall, accepted>>

Refuse(c) ==  \* 429
  /\ Len(Live(log[c], wall)) >= Limit
  /\ log' = [log EXCEPT ![c] = Live(@, wall)]
  /\ known' = known \cup {c}
  /\ StartSweepIfDue
  /\ UNCHANGED <<real, wall, accepted>>

(* One run of the clean-up task up to its next sleep(0) or its end: it       *)
(* lists the keys when it first runs and looks each one up again.            *)
CleanBatch_DropsListed(s, batch) ==  \* faulty: a listed client is popped unseen
  LET todo == IF s.started THEN s.todo ELSE known
  IN  /\ batch \subseteq todo
      /\ Cardinality(batch) = IF Batch < Cardinality(todo) THEN Batch ELSE Cardinality(todo)
      /\ log' = [c \in Clients |-> IF c \in batch THEN <<>> ELSE log[c]]
      /\ known' = known \ batch
      /\ sweeps' = (sweeps \ {s}) \cup
           (IF batch = todo THEN {} ELSE {[s EXCEPT !.started = TRUE, !.todo = todo \ batch]})
      /\ UNCHANGED <<real, wall, lastCleanup, accepted>>

CleanBatch(s, batch) ==
  LET todo == IF s.started THEN s.todo ELSE known
  IN  /\ batch \subseteq todo
      /\ Cardinality(batch) = IF Batch < Cardinality(todo) THEN Batch ELSE Cardinality(todo)
      /\ log' = [c \in Clients |-> IF c \in batch THEN Live(log[c], s.now) ELSE log[c]]
      /\ known' = known \ {c \in batch : Live(log[c], s.now) = <<>>}
      /\ sweeps' = (sweeps \ {s}) \cup
           (IF batch = todo THEN {} ELSE {[s EXCEPT !.started = TRUE, !.todo = todo \ batch]})
      /\ UNCHANGED <<real, wall, lastCleanup, accepted>>

Tick ==
  /\ real < MaxTime
  /\ real' = real + 1 /\ wall' = wall + 1
  /\ UNCHANGED <<log, known, lastCleanup, sweeps, accepted>>

ClockJumps(d) ==
  /\ wall = real  \* bound: one jump
  /\ wall' = wall + d
  /\ UNCHANGED <<real, log, known, lastCleanup, sweeps, accepted>>

Next ==
  \/ \E c \in Clients : Admit(c) \/ Refuse(c)
  \/ \E s \in sweeps, batch \in SUBSET Clients : CleanBatch(s, batch)
  \/ Tick
  \/ \E d \in ClockSteps : ClockJumps(d)

Spec == Init /\ [][Next]_vars

-----------------------------------------------------------------------------
TypeOK ==
  /\ real \in Nat /\ wall \in Int /\ lastCleanup \in Int
  /\ log \in [Clients -> Seq(Int)] /\ known \subseteq Clients
  /\ sweeps \subseteq Sweep
  /\ accepted \in [Clients -> Seq(Nat)]
  /\ \A c \in Clients : Len(log[c]) <= Limit

(* DEPLOYMENT.md, RATE_LIMIT_REQUESTS: "maximum allowed requests per IP     *)
(* address within window", for every position of the window and however     *)
(* requests, refusals and clean-up batches interleave.                      *)
AtMostLimitPerWindow ==
  \A c \in Clients : \A i \in 1..Len(accepted[c]) - Limit :
    accepted[c][i + Limit] - accepted[c][i] >= Window

(* While the clock is steady, the deque never loses a stamp that still      *)
(* counts and holds no other client's: it is the end of what was accepted,  *)
(* and all before it expired.                                                *)
LogIsLiveSuffix ==
  wall = real => \A c \in Clients : \E k \in 0..Len(accepted[c]) :
    /\ log[c] = SubSeq(accepted[c], k + 1, Len(accepted[c]))
    /\ \A i \in 1..k : wall - accepted[c][i] >= Window

(* API_REFERENCE.md, 429: "wait for window reset" before retrying.  While   *)
(* the clock is steady, a client is refused only if Limit of its requests    *)
(* were let through within the last Window of elapsed time.                  *)
RefusalsAreDeserved ==
  [][\A c \in Clients : wall = real /\ Refuse(c) =>
       Cardinality({i \in 1..Len(accepted[c]) : real - accepted[c][i] < Window}) >= Limit]_vars
=============================================================================
