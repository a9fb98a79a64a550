----------------------------- MODULE RequestPath -----------------------------
(***************************************************************************)
(* What a request meets before its handler: the upload limit of            *)
(* ContentSizeLimitMiddleware, the router, the reading of the body,        *)
(* api_key_auth, and the rate limit of RateLimiter, under the address       *)
(* that _get_client_ip finds for it; and the handler of the download        *)
(* endpoint.  FastAPI reads a form before it calls the dependencies, calls   *)
(* these in the order they are listed in, and looks at the parameters of the *)
(* handler only then.                                                         *)
(***************************************************************************)
EXTENDS RateLimiter

CONSTANTS Slots,      \* connections with a request under way
          Requests,   \* see the assumption
          Nothing,    \* a header that is missing; no request
          Trusted,    \* TRUSTED_PROXIES, its networks expanded
          Wildcard,   \* whether "*" is among them
          MaxBody,    \* MAX_UPLOAD_SIZE, in units that bodies are counted in
          Published   \* files in the output directory: directories and name

(* A request comes from sender over proxies, each of which adds the address *)
(* it was called from to X-Forwarded-For, after what the sender wrote there. *)
(* The path of a download is the output's id and the file's.                 *)
ASSUME RequestParameters ==
  /\ Wildcard \in BOOLEAN /\ MaxBody \in Nat
  /\ \A r \in Requests :
       /\ r.route \in {"convert", "download", "open"} /\ r.key \in BOOLEAN
       /\ r.declared \in Nat \cup {Nothing} /\ r.chunks \in Seq(Nat)
       /\ r.proxies \in Seq(Trusted) /\ r.written \in Seq(Clients)
       /\ r.sender \in Clients /\ r.realIp \in Clients \cup {Nothing} /\ r.safe \in BOOLEAN

(* Slots are finitely many. *)
ASSUME FiniteSlots == IsFiniteSet(Slots)

VARIABLES conn,   \* of each slot: the request, where it is, bytes read, the answer
          served  \* history: answers a client got from behind the dependencies

pathVars == <<vars, conn, served>>

Idle == [request |-> Nothing, stage |-> "idle", read |-> 0, chunk |-> 1, status |-> 0]

PathInit == Init /\ conn = [s \in Slots |-> Idle] /\ served = [c \in Clients |-> 0]

-----------------------------------------------------------------------------
Peer(r) == IF r.proxies = <<>> THEN r.sender ELSE r.proxies[Len(r.proxies)]

(* X-Forwarded-For as the server receives it. *)
Hops(r) ==
  r.written \o IF r.proxies = <<>> THEN <<>>
               ELSE <<r.sender>> \o SubSeq(r.proxies, 1, Len(r.proxies) - 1)

IsTrusted(ip) == Wildcard \/ ip \in Trusted

ClientIp_Leftmost(r) ==  \* faulty: the first address of the header
  IF IsTrusted(Peer(r)) /\ Hops(r) # <<>> THEN Hops(r)[1] ELSE Peer(r)

ClientIp(r) ==
  LET ips == Hops(r)
      untrusted == {i \in DOMAIN ips : ~IsTrusted(ips[i])}
  IN  IF ~IsTrusted(Peer(r)) THEN Peer(r)
      ELSE IF untrusted # {} THEN ips[CHOOSE i \in untrusted : \A j \in untrusted : j <= i]
      ELSE IF ips # <<>> THEN ips[1]
      ELSE IF r.realIp # Nothing THEN r.realIp ELSE Peer(r)

(* Clients are the addresses that requests are counted under. *)
ASSUME AddressesAreClients == \A r \in Requests : ClientIp(r) \in Clients

Routed(r) == r.route # "download" \/ Len(r.path) = 1  \* {filename} is one segment

(* A Content-Length that is no number is as good as none. *)
DeclaredTooLarge(r) == IF r.declared = Nothing THEN FALSE ELSE r.declared > MaxBody

(* dependencies=[...] of both routes. *)
Dependencies_LimitFirst == <<"limit", "key">>  \* faulty: the order of the list

Dependencies == <<"key", "limit">>

(* Where a request goes after a dependency let it through. *)
After(d) ==
  LET i == CHOOSE k \in DOMAIN Dependencies : Dependencies[k] = d
  IN  IF i = Len(Dependencies) THEN "handling" ELSE Dependencies[i + 1]

Answer(s, code) == conn' = [conn EXCEPT ![s].stage = "answered", ![s].status = code]
Goes(s, stage) == conn' = [conn EXCEPT ![s].stage = stage]
At(s, stage) == conn[s].stage = stage
Req(s) == conn[s].request

-----------------------------------------------------------------------------
Arrive(s, r) ==  \* the next request on an open connection, or on a new one
  /\ conn[s].stage \in {"idle", "answered"}
  /\ conn' = [conn EXCEPT ![s] = [Idle EXCEPT !.request = r, !.stage = "arrived"]]
  /\ UNCHANGED vars

TooLargeAsDeclared(s) ==  \* 413 of the middleware, before the application
  /\ At(s, "arrived") /\ DeclaredTooLarge(Req(s))
  /\ Answer(s, 413)
  /\ UNCHANGED vars

(* Only the conversion has a body that is read. *)
Route(s) ==
  /\ At(s, "arrived") /\ ~DeclaredTooLarge(Req(s))
  /\ IF ~Routed(Req(s)) THEN Answer(s, 404)
     ELSE IF Req(s).route = "open" THEN Answer(s, 200)
     ELSE Goes(s, IF Req(s).route = "convert" THEN "reading" ELSE Dependencies[1])
  /\ UNCHANGED vars

Reads(s) == At(s, "reading") /\ conn[s].chunk <= Len(Req(s).chunks)
ChunkLen(s) == Req(s).chunks[conn[s].chunk]

Overflows_EachChunk(s) == ChunkLen(s) > MaxBody  \* faulty: chunks are not added up

Overflows(s) == conn[s].read + ChunkLen(s) > MaxBody

ReadChunk(s) ==
  /\ Reads(s) /\ ~Overflows(s)
  /\ conn' = [conn EXCEPT ![s].read = @ + ChunkLen(s), ![s].chunk = @ + 1]
  /\ UNCHANGED vars

(* RequestBodyTooLarge: 413 of the middleware, or the 400 that FastAPI makes *)
(* of an exception while it reads a form.                                     *)
TooLargeAsRead(s) ==
  /\ Reads(s) /\ Overflows(s)
  /\ \E code \in {400, 413} : Answer(s, code)
  /\ UNCHANGED vars

BodyRead(s) ==
  /\ At(s, "reading") /\ conn[s].chunk > Len(Req(s).chunks)
  /\ Goes(s, Dependencies[1])
  /\ UNCHANGED vars

Unauthorized(s) ==
  /\ At(s, "key") /\ ~Req(s).key
  /\ Answer(s, 401)
  /\ UNCHANGED vars

Authorized(s) ==
  /\ At(s, "key") /\ Req(s).key
  /\ Goes(s, After("key"))
  /\ UNCHANGED vars

Limited(s) ==
  /\ At(s, "limit")
  /\ Refuse(ClientIp(Req(s)))
  /\ Answer(s, 429)

Passes(s) ==
  /\ At(s, "limit")
  /\ Admit(ClientIp(Req(s)))
  /\ Goes(s, After("limit"))

(* _get_safe_path, and the look at the file. *)
DownloadStatus(r) ==
  IF ~r.safe THEN 400 ELSE IF r.path \in Published THEN 200 ELSE 404

Served(s) == served' = [served EXCEPT ![ClientIp(Req(s))] = @ + 1]

Download(s) ==
  /\ At(s, "handling") /\ Req(s).route = "download"
  /\ Answer(s, DownloadStatus(Req(s)))
  /\ Served(s) /\ UNCHANGED vars

(* convert_file, see ConversionServer; 422 is the framework's answer to form  *)
(* fields and headers it cannot use.                                           *)
Convert(s) ==
  /\ At(s, "handling") /\ Req(s).route = "convert"
  /\ \E code \in {200, 400, 413, 422, 500} : Answer(s, code)
  /\ Served(s) /\ UNCHANGED vars

-----------------------------------------------------------------------------
Environment ==
  /\ \/ Tick
     \/ \E d \in ClockSteps : ClockJumps(d)
     \/ \E w \in sweeps, batch \in SUBSET Clients : CleanBatch(w, batch)
  /\ UNCHANGED conn

PathNext ==
  \/ /\ \/ \E s \in Slots :
             \/ \E r \in Requests : Arrive(s, r)
             \/ TooLargeAsDeclared(s) \/ Route(s)
             \/ ReadChunk(s) \/ TooLargeAsRead(s) \/ BodyRead(s)
             \/ Unauthorized(s) \/ Authorized(s) \/ Limited(s) \/ Passes(s)
        \/ Environment
     /\ UNCHANGED served
  \/ \E s \in Slots : Download(s) \/ Convert(s)

PathSpec == PathInit /\ [][PathNext]_pathVars

-----------------------------------------------------------------------------
(* API_REFERENCE.md, "Evaluates X-Forwarded-For proxy chains only when      *)
(* requests originate from verified trusted proxies": behind proxies that    *)
(* are trusted, a sender that is not is counted under its own address,       *)
(* whatever it wrote into the header itself; without one, also.              *)
CountedAtTheSender ==
  [][\A c \in Clients : accepted'[c] # accepted[c] =>
       \E s \in Slots : conn'[s] # conn[s] /\ (~IsTrusted(Req(s).sender) => Req(s).sender = c)]_pathVars

BodyLen(chunks) ==
  LET upTo[k \in 0..Len(chunks)] == IF k = 0 THEN 0 ELSE upTo[k - 1] + chunks[k]
  IN  upTo[Len(chunks)]

(* server.py, "Enforces the MAX_UPLOAD_SIZE limit at the ASGI level": no     *)
(* body beyond the limit gets as far as the key, the rate limit or the       *)
(* handler, declared or not.                                                  *)
OversizedStopsEarly ==
  \A s \in Slots : conn[s].stage \in {"key", "limit", "handling"} /\ Req(s).route = "convert" =>
    BodyLen(Req(s).chunks) <= MaxBody

(* What a client has used up of its limit is what the handlers answered it, or *)
(* are about to, 200 or not: a request without the key, with too long a body,  *)
(* or that the limit itself refused cost nothing, whatever came before it on    *)
(* its connection and whatever order these are looked at in.                    *)
LimitIsSpentOnHandling ==
  \A c \in Clients :
    Len(accepted[c]) =
      served[c] + Cardinality({s \in Slots : At(s, "handling") /\ ClientIp(Req(s)) = c})

(* API_REFERENCE.md on the file name of a download: "processed_document.md or *)
(* images/picture_1.png, etc.": what is published can be downloaded.           *)
DocumentedFilesAreServed ==
  \A s \in Slots : At(s, "answered") /\ Req(s).route = "download" =>
    (Req(s).safe /\ Req(s).path \in Published => conn[s].status \in {200, 401, 429})
=============================================================================
