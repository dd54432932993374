--------------------------- MODULE ProxyBalancer ---------------------------
(***************************************************************************)
(* The balancers of the global proxy (omni/accelerators/sched/             *)
(* global_proxy): nginx modules that send the prefill of a request to one  *)
(* upstream and then its decode to another.  The workers of nginx choose   *)
(* by counters in shared memory: a balancer charges the peer it chooses    *)
(* when the upstream request begins (peer.init) and releases it when nginx *)
(* gives the peer up (peer.free).  The modules:                            *)
(*   pd_score           both stages: least total length for a prefill; for *)
(*                      a decode, the queued prefills are dealt out first  *)
(*   prefill_score      prefill: cost weighted by the peer's requests      *)
(*   least_total_load   prefill: a score read without the lock             *)
(*   weighted_least_active  decode: least requests, then least tokens      *)
(*   auto_balance       decode: least length among peers that are not full *)
(* The body filters of pd_score and weighted_least_active see the answers  *)
(* of every upstream, those of another balancer's peers too.               *)
(*                                                                         *)
(* nginx is external: it connects to the peer it got, asks again after a   *)
(* refused connection while it has tries left, does not send a POST twice, *)
(* and calls free exactly when it has a peer (sockaddr).                   *)
(***************************************************************************)
EXTENDS Integers, Sequences, FiniteSets, SequencesExt, TLC

CONSTANTS
    Request,
    Worker, WorkerOf,   \* the workers of nginx, the one that serves a request
    Length,             \* [Request -> request_length]
    Address,            \* [Request -> where its prefill's pdata is allocated]
    NumPeers,           \* [Stage -> number of upstream servers]
    Configurations,     \* balancer per stage, peers marked down, and the stages whose
                        \* answers report tokens (num_token_for_proxy.patch: a stream's)
    ReqLimit,           \* pd_score_balance_decode_req_limit
    MaxActive,          \* MAX_ACTIVE_REQ_PER_PEER
    BatchSize,          \* batch_size of least_total_load and auto_balance
    CounterSize,        \* a word holds 0 .. CounterSize - 1
    MaxTokens,          \* bound on the tokens counted for a request
    MaxFailures         \* bound on refused connections and crashes of workers

Stage == {"prefill", "decode"}
Peers(s) == 0 .. NumPeers[s] - 1
NoPeer == -1            \* an index that is no server's: the largest word, or number

PrefillBalancers == {"pd_score", "prefill_score", "least_total_load"}
DecodeBalancers  == {"pd_score", "weighted_least_active", "auto_balance"}

ASSUME ProxyAssumption ==
    /\ IsFiniteSet(Request)
    /\ WorkerOf \in [Request -> Worker]
    /\ Length \in [Request -> Nat \ {0}]
    /\ DOMAIN Address = Request
    /\ \A q, r \in Request :  \* the workers are forks and use the same addresses
        q # r /\ WorkerOf[q] = WorkerOf[r] => Address[q] # Address[r]
    /\ NumPeers \in [Stage -> Nat \ {0}]
    /\ \A c \in Configurations :
        /\ c.prefill \in PrefillBalancers /\ c.decode \in DecodeBalancers
        /\ c.down \subseteq Stage \X Nat /\ c.reported \subseteq Stage
    /\ {ReqLimit, MaxActive, MaxTokens, MaxFailures} \subseteq Nat
    /\ {BatchSize, CounterSize} \subseteq Nat \ {0}

VARIABLES
    balancer,   \* the configuration nginx was started with
    stage, state,  \* of a request
    seen,       \* counters its peer.init has read, one record per peer
    pdata,      \* its peer data
    tries, peer,\* u->peer.tries and the peer nginx has (sockaddr) or NoPeer
    shm,        \* [Stage -> [peer -> counters]]
    queue,      \* active_request_lengths and _ptrs of pd_score
    charged,    \* history: requests whose charge was not released
    early,      \* history: peers released although the request goes back to them
    failures

nginx   == <<stage, state, tries, peer>>
shared  == <<shm, queue>>
history == <<charged, early>>
vars == <<balancer, nginx, seen, pdata, shared, history, failures>>

Word(n) == n % CounterSize

NoLoad == [requests |-> 0, cost |-> 0, length |-> 0, tokens |-> 0]
NoData == [chosen |-> NoPeer, decode_token_count |-> 0, last_total_tokens |-> 0]

Init ==
    /\ balancer \in Configurations
    /\ stage = [r \in Request |-> "prefill"]
    /\ state = [r \in Request |-> "begin"]
    /\ seen = [r \in Request |-> <<>>]
    /\ pdata = [r \in Request |-> NoData]
    /\ tries = [r \in Request |-> 0]
    /\ peer = [r \in Request |-> NoPeer]
    /\ shm = [s \in Stage |-> [p \in Peers(s) |-> NoLoad]]
    /\ queue = <<>>
    /\ charged = {} /\ early = {}
    /\ failures = 0

(* A request arrives when a balancer looks for its prefill's peer.         *)
Arrived(r) == state[r] # "begin" \/ stage[r] = "decode" \/ seen[r] # <<>>
Live(r) == Arrived(r) /\ state[r] # "done"

Up(s) == {p \in Peers(s) : <<s, p>> \notin balancer.down}

---------------------------------------------------------------------------
(* peer.get: the chosen peer; without one nginx takes any by round robin,  *)
(* or none if they failed too often lately.  A peer that is down is        *)
(* NGX_BUSY: the request ends, and nginx, having no peer, calls no free.   *)
Get(r, chosen) ==
    \/ \E p \in IF chosen = NoPeer THEN Up(stage[r]) ELSE {chosen} \cap Up(stage[r]) :
        /\ peer' = [peer EXCEPT ![r] = p]
        /\ state' = [state EXCEPT ![r] = "connect"]
    \/ /\ chosen \notin Up(stage[r])
       /\ peer' = [peer EXCEPT ![r] = NoPeer]
       /\ state' = [state EXCEPT ![r] = "done"]

(* peer.init: a balancer chooses a peer and charges it; then nginx asks    *)
(* for it.                                                                 *)
Begins(r, s, b) == state[r] = "begin" /\ stage[r] = s /\ balancer[s] = b

Least(load, P) == {p \in P : \A q \in P : load[p] <= load[q]}
First(P) == {p \in P : \A q \in P : p <= q}

(* The first of the least loaded peers.                                    *)
FirstLeast(load, P) ==
    {p \in P : \A q \in P : load[p] < load[q] \/ (load[p] = load[q] /\ p <= q)}

Load(s, counter) == [p \in Peers(s) |-> shm[s][p][counter]]

(* What a balancer adds to its peer's total: the length of the request     *)
(* (prefill_score: a time that grows with it), or nothing.                 *)
Cost(r) ==
    IF balancer[stage[r]] \in {"pd_score", "weighted_least_active"} /\ stage[r] = "decode"
    THEN 0 ELSE Length[r]

(* total_request_length of pd_score, which no balancer reads: it is added  *)
(* for a decode only (523), but subtracted for a prefill too (611).        *)
LengthAdded(r) ==
    IF balancer[stage[r]] = "pd_score" /\ stage[r] = "decode" THEN Length[r] ELSE 0
LengthTaken(r) == IF balancer[stage[r]] = "pd_score" THEN Length[r] ELSE 0

Charge(r, p) ==
    /\ Get(r, p)
    /\ tries' = [tries EXCEPT ![r] = Cardinality(Up(stage[r]))]
    /\ pdata' = [pdata EXCEPT ![r] = [NoData EXCEPT !.chosen = p]]
    /\ seen' = [seen EXCEPT ![r] = <<>>]
    /\ charged' = IF p = NoPeer THEN charged ELSE charged \cup {r}
    /\ shm' = IF p = NoPeer THEN shm
              ELSE [shm EXCEPT ![stage[r]][p] =
                        [requests |-> Word(@.requests + 1),
                         cost     |-> Word(@.cost + Cost(r)),
                         length   |-> Word(@.length + LengthAdded(r)),
                         tokens   |-> @.tokens]]
    /\ UNCHANGED <<balancer, stage, early, failures>>

(* Faulty: the arrays are written without a look at their size.            *)
EnqueuedAlways(r) == Append(queue, [length |-> Length[r], ptr |-> Address[r]])

Enqueued(r) ==
    IF Len(queue) < MaxActive
    THEN Append(queue, [length |-> Length[r], ptr |-> Address[r]]) ELSE queue

PrefillStrategy(r) ==
    /\ Begins(r, "prefill", "pd_score")
    /\ \E p \in FirstLeast(Load("prefill", "cost"), Peers("prefill")) : Charge(r, p)
    /\ queue' = Enqueued(r)

(* Faulty: without an open peer the least loaded of all is charged.        *)
OpenElseAll ==
    LET within == {p \in Peers("decode") : shm["decode"][p].requests <= ReqLimit}
    IN  IF within = {} THEN Peers("decode") ELSE within

Open == {p \in Peers("decode") : shm["decode"][p].requests <= ReqLimit}

(* The loads of the decode peers once the queued prefills that are longer  *)
(* than r, longest first, have gone to the least loaded peers.  Peers      *)
(* above the limit take part only if there are no others.                  *)
Dealt(r) ==
    LET peers   == Peers("decode")
        lengths == [i \in DOMAIN queue |-> queue[i].length]
        longer  == SortSeq(SelectSeq(lengths, LAMBDA n : n > Length[r]),
                           LAMBDA m, n : m > n)
        Deal(loads, n) ==
            LET min_peer == CHOOSE p \in FirstLeast(loads, IF Open = {} THEN peers ELSE Open) : TRUE
            IN  [loads EXCEPT ![min_peer] = @ + n]
    IN  FoldLeft(Deal, [p \in peers |-> Word(4 * shm["decode"][p].tokens)], longer)

(* r takes the next turn.  With no peer within the limit its index stays   *)
(* unset: the array entry before the first peer is charged, no server's.   *)
DecodeStrategy(r) ==
    /\ Begins(r, "decode", "pd_score")
    /\ LET dealt == Dealt(r)
       IN  \E p \in IF Open = {} THEN {NoPeer} ELSE FirstLeast(dealt, Open) : Charge(r, p)
    /\ UNCHANGED queue

(* prefill_score: what the sum of cost times requests grows by.            *)
PrefillScore(r) ==
    /\ Begins(r, "prefill", "prefill_score")
    /\ LET Grows(l) == (l.cost + Cost(r)) * (l.requests + 1) - l.cost * l.requests
           grows == [p \in Peers("prefill") |-> Grows(shm["prefill"][p])]
       IN  \E p \in FirstLeast(grows, Peers("prefill")) : Charge(r, p)
    /\ UNCHANGED queue

WeightedLeastActive(r) ==
    /\ Begins(r, "decode", "weighted_least_active")
    /\ LET candidate == Least(Load("decode", "requests"), Peers("decode"))
       IN  \E p \in FirstLeast(Load("decode", "tokens"), candidate) : Charge(r, p)
    /\ UNCHANGED queue

(* least_total_load reads one peer after the other, without the lock;      *)
(* auto_balance reads all of them under the lock and then unlocks.         *)
Read(r, loads) ==
    /\ seen' = [seen EXCEPT ![r] = @ \o loads]
    /\ UNCHANGED <<balancer, nginx, pdata, shared, history, failures>>

ReadLoad(r) ==
    /\ Begins(r, "prefill", "least_total_load")
    /\ Len(seen[r]) < NumPeers["prefill"]
    /\ Read(r, <<shm["prefill"][Len(seen[r])]>>)

ReadLoads(r) ==
    /\ Begins(r, "decode", "auto_balance")
    /\ seen[r] = <<>>
    /\ Read(r, [i \in 1 .. NumPeers["decode"] |-> shm["decode"][i - 1]])

Seen(r, counter) == [p \in Peers(stage[r]) |-> seen[r][p + 1][counter]]
CeilDiv(n, d) == (n + d - 1) \div d

(* Peers of the least score; a random one of them is charged.              *)
LeastTotalLoad(r) ==
    LET Score(l) == l.cost * (CeilDiv(l.requests, BatchSize) + 1)
    IN  Least([p \in Peers(stage[r]) |-> Score(seen[r][p + 1])], Peers(stage[r]))

NotFull(r) ==
    LET free == {p \in Peers(stage[r]) : seen[r][p + 1].requests < BatchSize}
    IN  IF free = {} THEN Least(Seen(r, "requests"), Peers(stage[r]))
        ELSE Least(Seen(r, "cost"), free)

ChargeSeen(r) ==
    /\ Begins(r, "prefill", "least_total_load") \/ Begins(r, "decode", "auto_balance")
    /\ Len(seen[r]) = NumPeers[stage[r]]
    /\ \E p \in IF stage[r] = "prefill" THEN LeastTotalLoad(r) ELSE NotFull(r) : Charge(r, p)
    /\ UNCHANGED queue

---------------------------------------------------------------------------
(* Faulty: the peer stays chosen.                                          *)
RemembersNever(r) == FALSE

(* peer.free: the charge is taken back.  Only least_total_load remembers   *)
(* that it was, by forgetting the peer.                                    *)
Remembers(r) == balancer[stage[r]] = "least_total_load"

(* Faulty: the length moves into its place, the pointer does not.          *)
WithoutPointer(entries, i) ==
    LET n == Len(entries)
    IN  [j \in 1 .. n - 1 |-> IF j = i THEN [entries[j] EXCEPT !.length = entries[n].length]
                              ELSE entries[j]]

(* free_peer_P takes the first entry of its pointer out of the queue: the  *)
(* last entry moves into its place.                                        *)
Without(entries, i) ==
    LET n == Len(entries)
    IN  [j \in 1 .. n - 1 |-> IF j = i THEN entries[n] ELSE entries[j]]

Dequeue(r) ==
    LET mine == {i \in DOMAIN queue : queue[i].ptr = Address[r]}
    IN  IF balancer[stage[r]] = "pd_score" /\ stage[r] = "prefill" /\ mine # {}
        THEN \E i \in First(mine) : queue' = Without(queue, i)
        ELSE queue' = queue

(* The tokens counted in the peer data, of the balancers that count them.  *)
Counted(r) ==
    IF balancer[stage[r]] \in {"pd_score", "weighted_least_active"}
    THEN pdata[r].decode_token_count ELSE 0

Uncharge(r, p) ==
    [shm EXCEPT ![stage[r]][p] =
        [requests |-> Word(@.requests - 1),
         cost     |-> Word(@.cost - Cost(r)),
         length   |-> Word(@.length - LengthTaken(r)),
         tokens   |-> Word(@.tokens - Counted(r))]]

Release(r) ==
    LET p == pdata[r].chosen
    IN  /\ shm' = IF p = NoPeer THEN shm ELSE Uncharge(r, p)
        /\ charged' = charged \ {r}

(* free of the module, then of the round robin it wraps.  The peer data    *)
(* has no use but for a retry, and is reset without one.                   *)
Free(r) ==
    /\ Release(r)
    /\ Dequeue(r)
    /\ tries' = [tries EXCEPT ![r] = IF NumPeers[stage[r]] = 1 \/ @ = 0 THEN 0 ELSE @ - 1]
    /\ UNCHANGED <<balancer, seen>>

Ends(r) ==
    /\ peer' = [peer EXCEPT ![r] = NoPeer]
    /\ state' = [state EXCEPT ![r] = "done"]

Connected(r) ==
    /\ state[r] = "connect"
    /\ state' = [state EXCEPT ![r] = "sent"]
    /\ UNCHANGED <<balancer, stage, tries, peer, seen, pdata, shared, history, failures>>

(* The connection is refused or timed out: free, then get again.           *)
Refused(r) ==
    /\ state[r] = "connect"
    /\ failures < MaxFailures
    /\ failures' = failures + 1
    /\ Free(r)
    /\ pdata' = IF Remembers(r) THEN [pdata EXCEPT ![r].chosen = NoPeer] ELSE pdata
    /\ IF tries'[r] = 0 THEN Ends(r) ELSE Get(r, pdata'[r].chosen)
    /\ early' = IF tries'[r] = 0 \/ balancer[stage[r]] = "least_total_load" THEN early
                ELSE early \cup {<<stage[r], pdata[r].chosen>>}
    /\ UNCHANGED stage

(* Faulty: the handler does not see that its prefill is done.              *)
PrefilledAgain(r) ==
    /\ state[r] = "sent" /\ stage[r] = "prefill"
    /\ Free(r)
    /\ pdata' = [pdata EXCEPT ![r] = NoData]
    /\ state' = [state EXCEPT ![r] = "begin"]
    /\ peer' = [peer EXCEPT ![r] = NoPeer]
    /\ UNCHANGED <<stage, early, failures>>

(* The prefill's response is complete: the subrequest frees its peer and   *)
(* subrequest_done resumes the request, whose decode begins.               *)
Prefilled(r) ==
    /\ state[r] = "sent" /\ stage[r] = "prefill"
    /\ Free(r)
    /\ pdata' = [pdata EXCEPT ![r] = NoData]
    /\ state' = [state EXCEPT ![r] = "begin"]
    /\ peer' = [peer EXCEPT ![r] = NoPeer]
    /\ stage' = [stage EXCEPT ![r] = "decode"]
    /\ UNCHANGED <<early, failures>>

(* The decode's response is complete, a peer fails after the request was   *)
(* sent, the prefill is answered with an error, or the client leaves.      *)
End(r) ==
    /\ state[r] \in {"connect", "sent"}
    /\ Free(r)
    /\ pdata' = [pdata EXCEPT ![r] = NoData]
    /\ Ends(r)
    /\ UNCHANGED <<stage, early, failures>>

---------------------------------------------------------------------------
(* The body filters count the tokens that the chunks of an answer report.  *)
(* A filter is there for all upstreams once its balancer has one; only     *)
(* that of pd_score leaves out some, the prefill upstreams of pd_score.    *)
Filters(s) ==
    {b \in {"pd_score", "weighted_least_active"} :
        /\ \E t \in Stage : balancer[t] = b
        /\ ~(b = "pd_score" /\ s = "prefill" /\ balancer[s] = b)}

(* A filter adds the tokens to the counter of its own decode peer with the *)
(* index chosen, of whatever upstream chosen is, and to the peer data: the *)
(* count is at the same place in the data of both.  In the data of another *)
(* balancer that place is past the end, and nothing reads it.              *)
AddDecodedTokens(r, b, added) ==
    /\ state[r] = "sent"
    /\ pdata[r].decode_token_count + added <= MaxTokens
    /\ shm' = IF balancer["decode"] = b /\ pdata[r].chosen \in Peers("decode")
              THEN [shm EXCEPT !["decode"][pdata[r].chosen].tokens = Word(@ + added)]
              ELSE shm
    /\ UNCHANGED <<balancer, nginx, seen, queue, history, failures>>

Added(r, total) ==
    IF total > pdata[r].last_total_tokens THEN total - pdata[r].last_total_tokens ELSE 0

(* pd_score reads a total (0 if the chunk has none) and adds what it grew  *)
(* by.  last_total_tokens is past the end of another balancer's data: what *)
(* it holds there is anything.                                             *)
TotalChunk(r, total) ==
    /\ "pd_score" \in Filters(stage[r])
    /\ IF balancer[stage[r]] = "pd_score"
       THEN /\ AddDecodedTokens(r, "pd_score", Added(r, total))
            /\ pdata' = [pdata EXCEPT ![r].decode_token_count = @ + Added(r, total),
                                      ![r].last_total_tokens = total]
       ELSE \E added \in 0 .. total :
            /\ AddDecodedTokens(r, "pd_score", added)
            /\ pdata' = [pdata EXCEPT ![r].decode_token_count = @ + added]

(* weighted_least_active adds the tokens of the chunk.                     *)
TokenChunk(r, tokens) ==
    /\ "weighted_least_active" \in Filters(stage[r])
    /\ tokens = 0 \/ stage[r] \in balancer.reported
    /\ AddDecodedTokens(r, "weighted_least_active", tokens)
    /\ pdata' = [pdata EXCEPT ![r].decode_token_count = @ + tokens]

(* A worker crashes and is started again: its requests are gone, what they *)
(* put into the shared memory stays.                                       *)
Crash(w) ==
    LET lost == {r \in Request : WorkerOf[r] = w /\ Live(r)}
    IN  /\ failures < MaxFailures
        /\ lost # {}
        /\ failures' = failures + 1
        /\ state' = [r \in Request |-> IF r \in lost THEN "done" ELSE state[r]]
        /\ peer' = [r \in Request |-> IF r \in lost THEN NoPeer ELSE peer[r]]
        /\ seen' = [r \in Request |-> IF r \in lost THEN <<>> ELSE seen[r]]
        /\ UNCHANGED <<balancer, stage, tries, pdata, shared, history>>

Choose(r) ==
    \/ PrefillStrategy(r) \/ DecodeStrategy(r) \/ PrefillScore(r) \/ WeightedLeastActive(r)
    \/ ReadLoad(r) \/ ReadLoads(r) \/ ChargeSeen(r)

Step(r) == End(r) \/ Connected(r) \/ Prefilled(r) \/ Refused(r) \/ Choose(r)

Next ==
    \/ \E r \in Request :
        \/ Step(r)
        \/ \E n \in 0 .. MaxTokens : TotalChunk(r, n) \/ TokenChunk(r, n)
    \/ \E w \in Worker : Crash(w)

Spec == Init /\ [][Next]_vars

(* The event loops of nginx go on while there is a request to serve, and   *)
(* the timeouts answer for a peer that does not.                           *)
FairSpec == Spec /\ WF_vars(\E r \in Request : Arrived(r) /\ Step(r))

---------------------------------------------------------------------------
Counters == [requests : 0 .. CounterSize - 1, cost : 0 .. CounterSize - 1,
             length : 0 .. CounterSize - 1, tokens : 0 .. CounterSize - 1]
PeerData == [chosen : Nat \cup {NoPeer}, decode_token_count : 0 .. MaxTokens,
             last_total_tokens : 0 .. MaxTokens]

(* Every variable has its type: the counters never leave a word, the queue *)
(* never outgrows its arrays (pd_score 416), a peer has an index.          *)
TypeOK ==
    /\ balancer \in Configurations
    /\ stage \in [Request -> Stage]
    /\ state \in [Request -> {"begin", "connect", "sent", "done"}]
    /\ seen \in [Request -> Seq(Counters)]
    /\ pdata \in [Request -> PeerData]
    /\ \A r \in Request : state[r] \in {"connect", "sent"} =>
           pdata[r].chosen \in Peers(stage[r]) \cup {NoPeer}
    /\ tries \in [Request -> Nat]
    /\ peer \in [Request -> Nat \cup {NoPeer}]
    /\ DOMAIN shm = Stage /\ \A s \in Stage : shm[s] \in [Peers(s) -> Counters]
    /\ queue \in Seq([length : Nat, ptr : Range(Address)])
    /\ Len(queue) <= MaxActive
    /\ charged \subseteq Request
    /\ early \subseteq Stage \X (Nat \cup {NoPeer})
    /\ failures \in 0 .. MaxFailures

ChargedTo(s, p) == {r \in charged : stage[r] = s /\ pdata[r].chosen = p}

(* No filter counts tokens of requests whose peer data is another's.       *)
OwnData ==
    \A s \in Stage : \A b \in Filters(s) :
        b = balancer[s] \/ (b = "weighted_least_active" /\ s \notin balancer.reported)

(* The counters of a peer that balancers choose by are the sums over the   *)
(* requests charged to it, those in flight and those whose worker crashed  *)
(* or whose peer was down (they are never taken back), whatever the        *)
(* workers interleave.  Not of a peer that was released before a retry     *)
(* went to it again (see InFlightVisible); and the tokens only where no    *)
(* filter counts the requests of another balancer: with pd_score or        *)
(* weighted_least_active for one stage only, what the filter adds for the  *)
(* other one is never taken back, or is taken from the wrong counter.  The *)
(* lengths of pd_score are the sums for its decode peers only: for its     *)
(* prefill peers free_peer_P subtracts what was never added.               *)
CountersExact ==
    \A s \in Stage : \A p \in Peers(s) : <<s, p>> \notin early =>
        LET here == ChargedTo(s, p)
        IN  /\ shm[s][p].requests = Word(Cardinality(here))
            /\ shm[s][p].cost = Word(MapThenSumSet(LAMBDA r : Cost(r), here))
            /\ ~(s = "prefill" /\ balancer[s] = "pd_score") =>
                  shm[s][p].length = Word(MapThenSumSet(LAMBDA r : LengthAdded(r), here))
            /\ OwnData =>
                  shm[s][p].tokens = Word(MapThenSumSet(LAMBDA r : Counted(r), here))

(* free_peer_P leaves nothing behind: for each address the queue has at    *)
(* most as many entries as there are prefills with their peer data there.  *)
(* A stale entry would weigh on the choice of every later decode.          *)
NoStaleEntries ==
    \A a \in Range(Address) :
        Cardinality({i \in DOMAIN queue : queue[i].ptr = a})
            <= Cardinality({r \in charged : stage[r] = "prefill" /\ Address[r] = a})

(* pd_score_balance_decode_req_limit: workers that choose at the same time *)
(* do not push a decode peer more than one request beyond the limit        *)
(* (pd_score 485 compares with <=); a request that finds no peer within it *)
(* is charged to none.                                                     *)
LimitHolds ==
    balancer["decode"] = "pd_score" =>
        \A p \in Peers("decode") : <<"decode", p>> \notin early =>
            shm["decode"][p].requests <= ReqLimit + 1

(* Every request is answered, refused or given up.                         *)
EveryRequestEnds == \A r \in Request : Arrived(r) ~> state[r] = "done"

(* README.md 42: each side sees the other's load at once.  A peer counts   *)
(* at least the requests that were sent to it and not answered yet.        *)
InFlightVisible ==
    \A s \in Stage : \A p \in Peers(s) :
        Cardinality({r \in Request : state[r] = "sent" /\ stage[r] = s /\ peer[r] = p})
            <= shm[s][p].requests
=============================================================================
