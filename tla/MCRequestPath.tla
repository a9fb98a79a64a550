--------------------------- MODULE MCRequestPath ---------------------------
(* Values and symmetry for the runs of RequestPath. *)
EXTENDS RequestPath, TLC

CONSTANTS c1, c2, proxy, s1, none

OneSlot == {s1}
Senders == {c1, c2}
Everybody == {c1, c2, proxy}
OneProxy == {proxy}
SmallStepBack == {-1}
Interchangeable == Permutations(Senders)

Request ==
  [sender |-> c1, proxies |-> <<>>, written |-> <<>>, realIp |-> none, key |-> TRUE, safe |-> TRUE,
   route |-> "convert", path |-> <<"doc.md">>, declared |-> none, chunks |-> <<>>]
Get(path) == [Request EXCEPT !.route = "download", !.path = path]

From(c, other) ==
  { [Get(<<"doc.md">>) EXCEPT !.sender = c, !.written = <<other>>],
    [Get(<<"images", "p1.png">>) EXCEPT !.sender = c, !.proxies = <<proxy>>],
    [Get(<<"none.md">>) EXCEPT !.sender = proxy, !.realIp = c, !.safe = FALSE],
    [Get(<<"none.md">>) EXCEPT !.sender = c, !.key = FALSE],
    [Request EXCEPT !.sender = c, !.proxies = <<proxy, proxy>>, !.written = <<other>>, !.chunks = <<1, 1>>],
    [Request EXCEPT !.sender = proxy, !.written = <<c, proxy>>, !.chunks = <<2, 1>>],
    [Request EXCEPT !.sender = c, !.route = "open"],
    [Request EXCEPT !.sender = c, !.declared = 3, !.chunks = <<3>>] }

SomeRequests == From(c1, c2) \cup From(c2, c1)
Files == {<<"doc.md">>, <<"images", "p1.png">>}
============================================================================
