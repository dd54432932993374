# Formal models of omni-infer

omni-infer serves large mixture-of-experts models on Ascend NPUs: accelerators
around vLLM for expert placement, prefill/decode disaggregation, KV caches and
request proxying. This directory holds TLA+ models of its concurrent and
algorithmic core, the TLC configurations that check them and proofs that TLAPS
checks. Paths below are relative to `src/`; `cpp/` stands for
`omni/accelerators/placement/omni_planner/cpp/`.

## 1. Inventory

| component | state | operations | talks to | hard behaviour |
|---|---|---|---|---|
| placement workers (`cpp/placement_manager.cpp`) | index into the round's list, `sub_thread_is_changing_`, `is_layer_update`, `should_stop_` | one thread per rank: collect, optimize, handshake, update mapping, exchange, retry, end-of-round barrier; `do_placement_optimizer` on the inference thread | all other ranks by collectives and send/recv; the inference thread by mutex, flag and queue | ranks out of step, failed handshakes and retries, lock released before the update, starvation |
| distribution (`cpp/distribution.cpp`, `.h`) | ring of 5 descriptors, receive buffers, last handshake status | `performGlobalHandshake`, `enqueue`, `swap`, copying to HBM | HCCL, worker, inference thread | full ring, stale reads of its size, reuse of buffers, rendezvous order |
| placement mapping (`cpp/placement_mapping.cpp`) | position -> expert of all ranks, replica counts, selector | updates from the handshake status, consistency check, selector refresh | worker writes, inference thread and optimizer read | agreement of the ranks' copies, incremental counts, partial refresh |
| expert weights (`cpp/moe_weights.cpp`) | HBM tensors per position | `replacement` | distribution | weights in HBM or still queued |
| greedy optimizer (`cpp/dynamic_eplb_greedy.*`, `cpp/placement_optimizer.cpp`) | per rank and per expert loads, across rounds | per layer: observe, remove replicas, swap/add | mapping, activation counters | two books to keep in step, termination, integer arithmetic |
| activation counters (`cpp/expert_activation.cpp`) | counts per position, deltas, windows | `collect` (allgather), dumps | NPU kernels, optimizer | wrap-around |
| Python planner (`omni_planner/*.py`) | pattern and handles | load, forward to C++ | workers | none |
| PD KV transfer (`omni/accelerators/pd`) | prefill: blocks waiting for a pull; decode: requests waiting for KV; ZeroMQ sockets, link registry | `request_finished`, `update_state_after_alloc`, `start_load_kv`, pull with 3 tries, "pulled" message, `get_finished` | scheduler, other cluster | lost or early confirmations, two half pulls, links re-registered, no timeout |
| scheduler (`omni/adaptors/vllm/worker/npu_schedule.py`) | waiting and running queues, names of the requests in flight | schedule (admit, skip, ignore, decode, preempt), update from output, finish | engine loop, KV cache manager, connector | batches that overlap with scheduling, preemption, aborts of requests in flight, starvation |
| omni attention cache (`omni/accelerators/cache`) | two block pools, request -> blocks | `allocate_slots`, free, omni pull | scheduler, connector | all-or-nothing over two pools; not usable at this commit (section 8) |
| global proxy (`omni/accelerators/sched/global_proxy`) | peer data of a request, counters and a queue of prefills in shared memory | prefill subrequest, then decode; 7 balancers with `init`, `get`, `free` and a body filter | nginx, clients, engines | workers that choose at the same time, retries, crashes that leave charges behind |
| models, operators, quantization, vLLM patches, CLI, tools | - | numerical or glue code | - | outside the aim of this project |

What makes the components correct: the placement workers keep one placement
although no two of them execute the list in the same order, never lose weights,
never leave an expert without a position and finish every round; the optimizer
only decides what the workers can carry out and believes what they reached; a
prefill node's blocks live until they have been pulled completely, and for ever
only in the cases that `ReleaseIsComing` names; the scheduler keeps every open request in exactly one queue, never loses or
shares a block, never has a request in two batches, and closes every request; the
counters by which balancers choose are the sums over the requests that are charged,
and what is charged is released once.

## 2. Plan

1. `ThreadQueue`, `ExpertSelector`, `ChangeInstructions`, `ExpertPlacement`: the
   dynamic expert placement - concurrent on every rank and distributed over the
   ranks, the hardest code of the repository. *Done.*
2. `WeightQueues`, `PlacementRounds`: what it promises, as abstract
   specifications it refines. *Done.*
3. `SelectorScan`: the selector's scan against its closed form. *Done.*
4. `ExpertPlacementProofs`, `WeightQueueProofs`, `SelectorScanProofs`: types,
   mutual exclusion, agreement, counts; a round as one machine; the refinement of
   the queues, the weights behind the mapping and what the selector finds
   there; the selector's scan. *Done.*
5. `GreedyOptimizer`: the decisions, and that they are what `ExpertPlacement`
   assumes. *Done.*
6. `GreedyOptimizerProofs`: every safety property of the optimizer, from the two
   books to the legality of its decisions. *Done.*
7. `KVTransfer`, `KVTransferProofs`: prefill scheduler and worker, decode
   scheduler and worker, the confirmation messages; blocks outlive the pull.
   *Done*, but for the fast path of `async_pull_kv`, where the input thread and
   the engine thread share `_reqs_need_recv`, and an abstract specification
   (blocks of a request are freed once, after the whole pull).
8. `NPUScheduler`, `NPUSchedulerProofs`: admission, preemption, overlap of
   batches, aborts; no lost request, conservation of blocks. *Done.* The two
   pools of the omni attention cache were planned with it and left out
   (section 8).
9. `ProxyBalancer`, `ProxyBalancerProofs`: choice and release of the balancers
   and the prefill-then-decode life of a request. *Done.*
10. Left: the fast path of item 7; blocks of the decode side one by one (a request
    that was refused once is computed locally and pulled into the same blocks);
    stopping a worker in the middle of a round; activation counters with
    wrap-around modulo `max_activation_count_`; the composition of `NPUScheduler`
    with `KVTransfer`, and of `GreedyOptimizer` with `ExpertPlacement`, which so
    far meet in `ChangeInstructions`.

## 3. Modules

**`ThreadQueue`** - the ring of `distribution.h`: front, rear, size and slots as a
record, `Enqueue`, `Dequeue`, `GetFront` and the scan of `GetRear` for the newest
descriptor of a position. `QUEUE_SIZE` is 5 in the code and any positive
number here.

**`ExpertSelector`** - geometry (flat offsets of positions and experts, owner and
host) and `SelectPosition`, the closed form of `update_selector_layer`.
The selector of the code holds positions within a layer, the model's holds flat
offsets.

**`SelectorScan`** - the loop of `update_selector_layer` step by step, on every
mapping of one layer.

**`ChangeInstructions`** - the instruction record, `LegalMove` (what the optimizer
lets itself decide), `AfterMove` (what it does to a placement), `InListOrder`.
`ExpertPlacement` assumes them, `GreedyOptimizer` is shown to keep to them.

**`ExpertPlacement`** - all ranks with two threads each:

| action | code |
|---|---|
| `Collect` | `activations_->collect` at the end of a round and the start of the next |
| `Decide`, `Dispatch` | `optimizer_->optimize()`, one instruction at a time; the filter by rank |
| `Announce` | head of the `while (idx < ...)` loop up to the allgather of `performGlobalHandshake`, and the loop of the end-of-round barrier |
| `Gather` | the allgather, which returns when all ranks have entered it |
| `BeginChange` | consistency check (throws: `pc = "failed"`), lock, flag up, unlock |
| `UpdateMapping` | entering the status in the mapping; then REMOVE, retry, barrier or exchange |
| `Transfer` | one `HcclSend` meeting its `HcclRecv` |
| `Finish` | `Enqueue` (waits while the ring is full), flag down, next instruction |
| `MainSkip`, `MainEnter`, `MainCopy`, `MainSelect` | `do_placement_optimizer`: flag seen up, flag seen down, one descriptor copied, selector refreshed |
| `Forward` | the forward pass: a collective of all inference threads (external) |

State variables carry the names given in the comments of the declaration. All
ranks compute the same list from the same mapping and the same gathered
counts, so the list is one variable; that the mappings are the same is
`MappingAgreement`. Weights of a position are represented by the expert they
belong to; the several tensors of an expert travel together. The mapping update
is one action: the inference thread is kept out meanwhile
(`MutualExclusion`) and nobody else reads it.

**`WeightQueues`**, **`PlacementRounds`** - the abstract specifications:
per rank a bounded FIFO queue of weights; one placement machine whose
instructions take effect once each, at one instant.

**`GreedyOptimizer`** - one rank's `GreedyExpertLoadBalancer`, an action per turn
of its loops: `Observe` (`init_infomation`; `Blend` takes the smoothed counts
from a small set, `Ignore` is the early return for a ratio of 1 or above 300),
`PickRank`, `RemoveReplica`, `KeepReplica`, `LeaveRank` (the removal phase),
`SwapOrAdd` (with all candidate moves and forecasts of
`optimizeTheHighestOffload`/`...LowestOffload`), `EndLayer`, `NextRound`.
The ratio is kept as the fraction max/min and compared exactly where the code
compares floats. `Believe` is `update(instruction)` on both books. The throw of
`getActivateValue` needs an expert without a share at a position, which
`BeliefsAgree` excludes; the null pointer of `getTheHighestOffloadRank` is the
phase `"failed"`.

**`KVTransfer`** - one decode rank and the prefill nodes whose prompts it goes on
with. Per prompt the prefill side is `"computing"`, `"held"` or `"freed"`.

| action | code |
|---|---|
| `PrefillFinished` | `PrefillConnectorScheduler.request_finished`: blocks of a prompt that ended at its length are kept |
| `ReceivePulled`, `PrefillStep` | the ZeroMQ thread extends `receive_req_list`; `get_finished` drains it and the scheduler frees the blocks |
| `AddRequest`, `AbortRequest` | requests of clients, between two steps of the engine |
| `Schedule` | the waiting loop of `schedule()`: `_update_waiting_for_remote_kv`, `get_num_new_matched_tokens`, `allocate_slots` that may refuse, `update_state_after_alloc`; preemption |
| `BuildMetadata` | `build_connector_metadata`, which takes the parameters from the requests |
| `LoadKV` | `start_load_kv` for one request: a task for each part, or none if there is no local block (537-540) |
| `LoadRaises` | its `RuntimeError` when the answer names fewer blocks than there are locally (541-544): the engine core ends with it (`phase = "failed"`), the pull threads go on |
| `PullCache`, `RetryPull`, `PullFails` | `pull_kv` cache by cache, `_pull_blocks`, its exceptions in `worker` or in the executor's future |
| `ConfirmPull`, `MarkReceived` | `_read_blocks` after the pull: the message to the prefill node, then `_recving_transfers` |
| `UpdateFromOutput` | the end of a step: `get_finished` and `_update_from_kv_xfer_finished`, requests that end |

`config` says how the decode worker is configured: one executor thread, a thread
per prefill node (`multi_thread_pull_kv`), or a thread per prefill rank, each
pulling half of the blocks (`multi_rank_pull_kv`). Tasks of a thread are a
sequence. `wire` is a set: each part of a request is confirmed at most once, all
confirmations to a node go through one socket (`zmq_socket_map` is keyed by the
path), and the node handles them alike in any order, so order is left free. Of the
blocks of a request the model has the numbers that `start_load_kv` compares: those
the answer names (`remoteBlocks`) and those `update_state_after_alloc` names
(`LocalBlocks`: all that were allocated for the remote KV; of a request that is
admitted to compute here while it still has its parameters, the ones that are not
full yet, any number from 0). What is pulled is followed by parts, a whole request or
the halves of it. How many requests are admitted, refused or preempted in a step is
free, because it depends on the pools.
vLLM's scheduler is modelled by the lines that the repository's patches change
and by the calls they make. Its step runs as one action up to the metadata,
as a step of the engine is one thread; pull threads and ZeroMQ interleave with
its three phases.

**`NPUScheduler`** - `NpuHybridScheduler` of one engine, an action per turn of a loop.

| action | code |
|---|---|
| `AddRequest`, `Abort`, `AbortIgnored` | `add_request` and `finish_requests`, which the engine calls between two steps |
| `BeginSchedule`, `EndSchedule` | head and tail of `schedule()`; the engine then waits for a batch or goes on |
| `SkipHead`, `IgnoreHead`, `AdmitHead`, `EndPrefill` | the `while self.waiting` loop: no adapter or budget left, longer than can ever be scheduled, admitted, no blocks; then the skipped ones return to the front |
| `DecodeNext`, `PreemptLast`, `EndDecode` | the loop over `running`, entered only if no request is in a batch |
| `BeginUpdate`, `PassOver`, `TakeToken`, `EndUpdate` | `update_from_output` for the oldest batch, request by request |

Requests arrive in the order of their numbers; a token is counted, not named, and
whether it ends its request is free unless `check_stop` decides it. vLLM's
KV cache manager hands out members of a set of blocks, all that are missing or
none; its queue of batches holds up to `MaxBatches`, so that `schedule()` runs
while older batches are on the device.

**`ProxyBalancer`** - the upstream modules of the proxy; requests, served by the
workers of nginx, go through a prefill and a decode. `balancer` says which
module nginx is configured with for each stage, which peers are down, and in the
answers of which stages the engines report tokens (a patch of the engine adds
`output_num_token` to streams).

| action | code |
|---|---|
| `PrefillStrategy`, `DecodeStrategy` | `peer.init` of `pd_score_balance`: `prefill_strategy`, `decode_strategy` (whose dealing out of the queued prefills is `Dealt`) |
| `PrefillScore`, `WeightedLeastActive` | `peer.init` of these modules, under the lock |
| `ReadLoad`, `ReadLoads`, `ChargeSeen` | `peer.init` of `least_total_load`, which reads peer by peer without the lock, and of `auto_balance`, which unlocks between reading and charging |
| `Connected`, `Refused` | nginx connects to the peer `get` gave it, or frees it and asks again while it has tries |
| `Prefilled`, `End` | the end of the prefill subrequest and of the request: `free` |
| `TotalChunk`, `TokenChunk` | the body filters of `pd_score_balance` and `weighted_least_active` that count decoded tokens, on the answers of all upstreams (`Filters`) |
| `Crash` | a worker ends and is started again; the shared memory stays |

nginx is external, modelled by the calls it makes to the modules. An index that
`decode_strategy` leaves unset is kept as `NoPeer`: the code then adds to the
entry before the first decode peer, which is the last one of the array in front
of it and belongs to no server. The counters are words (`CounterSize`) and wrap.

A body filter is put before the answers of every upstream as soon as one upstream
uses its module. That of `pd_score_balance` leaves out its own prefill upstreams, that of
`weighted_least_active` none, and both take the peer data they find for their own. So
with one of the modules for one stage only, a filter meets the peer data of the other
stage's balancer: it adds the tokens to the decode counter of the peer with the same
index (`AddDecodedTokens`), and to `decode_token_count` in peer data that is read, or
not, by another module's `free` (`Counted`). `OwnData` names the configurations without
this; only there are the token counters the sums over the charged requests.
`total_request_length` of `pd_score_balance`, which no balancer reads, is added for
decodes only and subtracted for prefills as well: that of a prefill peer wraps below
zero with the first release (`LengthAdded`, `LengthTaken`), which `CountersExact`
excepts.

**`MCExpertPlacement`**, **`MCGreedyOptimizer`**, **`MCKVTransfer`**,
**`MCNPUScheduler`**, **`MCProxyBalancer`** - initial mappings, moves, nodes,
prompts and configurations for TLC.

**`ExpertPlacementProofs`**, **`WeightQueueProofs`**, which extends it,
**`SelectorScanProofs`**, **`GreedyOptimizerProofs`**, **`KVTransferProofs`**,
**`NPUSchedulerProofs`**, **`ProxyBalancerProofs`** - theorems, and
**`FiniteLemmas`**, facts about finite sets and the sums of module `Functions`
that several of them need.

Operators commented "Faulty" are versions of their neighbour with a plausible
bug; they show for each property a bug that it catches, and no specification
uses them.

## 4. Runs

| run | instance | shows |
|---|---|---|
| `three_ranks` | 3 ranks, 4 moves that share ranks and positions, lists of 2, ring of 2 | `MappingAgreement`, `EveryExpertDeployed`, `NeverThrows`, `OneCollective`, `QueuesAreFifo`, `RoundsAreAtomic` |
| `two_layers` | 2 ranks, 2 layers, 2 rounds, 5 moves of every kind, ring of 1 | `TypeOK`, `MutualExclusion`, `CountsExact`, `RoundReachesPlan`, `LatestIsMapped`, `LocalTokensServed` |
| `liveness` | 3 ranks, an expert handed on from rank 0 to 1 to 2, ring of 1 | `RoundEnds` under `FairSpec` |
| `selector_scan` | 4 ranks on 2 hosts, all mappings of 2 experts | `ScanSelects` |
| `greedy` | 3 ranks, 3 experts, all patterns, loads {0, 1, 20} | `BeliefsAgree`, `ReplicasInBounds`, `NeverExhausted`, `DecisionsAreLegal`, `LoadNeverGrows` |
| `greedy_rounds` | 2 ranks, 2 layers, 2 rounds, loads {0, 9} | `BelievesPlacement`, `RemovalEnds` |
| `kv_transfer` | 2 requests of 1 or 2 nodes, 2 and 1 blocks, enough or too few named, 2 caches, 2 tries, 1 failing request, executor or thread per node | `TypeOK`, `BlocksOutliveThePull`, `DoneMeansDone`, `NobodyWaitsInVain`, `ReleaseIsComing`, `WakesWithItsKV`, `PullEnds` |
| `kv_ranks` | as `kv_transfer`, thread per rank, no failures | violation, section 6 |
| `scheduler` | 4 requests, 3 blocks of 2 tokens, 1 adapter at a time, 2 batches in flight | `TypeOK`, `RequestsInOnePlace`, `BlocksConserved`, `ScheduledIsInFlight`, `AssertionsHold`, `QueueOrder`, `EveryRequestCloses` under `FairSpec` |
| `aborts` | as `scheduler`, one batch at a time | violation, section 6 |
| `proxy` | 3 requests, 2 workers, 2 peers for each stage, 4 configurations of balancers, 1 refusal or crash | `TypeOK`, `CountersExact`, `NoStaleEntries`, `LimitHolds`, `EveryRequestEnds` under `FairSpec` |
| `proxy_retry` | as `proxy`, `pd_score` for both stages | violation, section 6 |

Bounds. Two ranks already show every interleaving of two workers and two
inference threads in one exchange; a third rank is needed for a bystander, for
two exchanges that compete for a rank, and for out-of-order execution of a
list; lists of two give the dependences (same position, same expert, same
rank) between an instruction and the next. Rings of one and two wrap around
and run full within a round. Two layers and two rounds separate offsets,
marks and leftovers of one from the other. Of loads, what matters is which
ranks lie above and below the mean and whether a share can pay its part:
three or four values, among them 0 and one that dominates, give all of that.
`MaxSwapAdds` is 32 in the code; the search ends through the threshold or two
misses well before in these instances, or is cut at a bound that the loop has, too.

Two requests share a thread, or have one each; they are what is needed for one
that fails while another is queued behind it, or is refused, preempted or aborted
meanwhile. Two caches and two tries let a pull fail in its middle and after
a retry. One failing or unconfirmed request (`MaxFailures`) suffices to end the
only thread of a node; the proofs do without these bounds. The answer for the first
request names two blocks or one: one is too few for a pull of both, so that the engine
fails, but enough for a request that has filled one of them, or both, by computing.

The four requests of the scheduler are one that is ignored (longer than the
budget), two that need different adapters, and one more; three blocks of two
tokens hold any one of them to its end, but not two: two that run drive
each other out. Two batches in flight are the least with which a request can be
missing from the batch that is being updated. Of the proxy, requests 1 and 2 are served by
different workers and share an address, 1 and 3 share a worker; with a limit of
0 two decode peers are full after two requests and the third finds none; a queue
of 2 is full with the third prefill. Words of 32 values wrap with three
requests only where something is taken back that was not added: the lengths of
`pd_score`'s prefill peers, peers that were released before a retry, tokens that
another module's filter counted. Of the four configurations two have filters that
meet their own data only, one has no filter, and in the last one (`pd_score` for
prefills, `weighted_least_active` for decodes, tokens reported by both) each filter
also meets the other's. One refused connection or crash
may come at any point; `proxy_retry` shows what a refusal does to the counters.

In the runs of `GreedyOptimizer`, `SelectorScan`, `KVTransfer`, `NPUScheduler` and
`ProxyBalancer` deadlock is not an error: the algorithms end, an engine or a
proxy without requests is at rest, and a decode engine whose `start_load_kv` raised
stops for good. `ExpertPlacement` must not deadlock and is
checked for it: when the last round is over the inference threads go on.

## 5. Fairness

`ExpertPlacement!Fairness`: worker and inference threads keep running and a
collective that everybody has entered returns (weak fairness). Taking the
mutex needs strong fairness, as it is free and taken in turn; the inference
thread holds it only while copying, once per forward pass. Inference threads
keep calling: an idle data-parallel rank executes dummy batches that call
`place_experts` as well (`npu_worker.py` 311). `NotTurnedAwayForEver` is an
assumption about timing: the flag is up for a mapping update or one exchange and
the worker sleeps 10 ms after a failed handshake, so while the worker lowers the
flag over and over, an inference thread that calls over and over does not meet it
up every time. It says nothing of a flag that stays up, so an exchange that
hangs is not assumed away. The code does not
enforce it - without the assumption TLC shows a full queue that is never
drained and a round that never ends - and it is listed as a hazard.

`KVTransfer!FairSpec`: pull threads go on with their task (weak fairness for each
thread that has not ended), the decode engine goes on stepping - it has a
request that waits, or an idle step is taken with the other data-parallel ranks,
and `kv_connector_no_forward` drains the lists as well - and ZeroMQ delivers what
was sent. That a pull succeeds is not assumed, nor anything of clients or
of the steps of a prefill node.

`GreedyOptimizer!FairSpec`: weak fairness of `Next`, the code being sequential.

`NPUScheduler!FairSpec`: the engine's loop goes on while there are requests (weak
fairness of the steps of `schedule()`), and the batches it waits for end (weak
fairness of the steps of `update_from_output`). Nothing is assumed of clients.

`ProxyBalancer!FairSpec`: while there is a request that arrived and is not at its
end, some such request is served - event loops go on, and timeouts answer for a
peer that does not. It does not say which one; nothing is assumed of arrivals,
chunks or crashes.

## 6. Findings

* **`kv_ranks`.** With `multi_rank_pull_kv` the two halves of a pull are
  independent tasks, and each confirms the whole request to the prefill node and
  marks it as received. After the first half the prefill node frees blocks that
  are still to be read and the decode scheduler may run the request;
  `_done_recving_count` looks like the counter meant for this and is not used.
* **`aborts`.** A request that is longer than `prompt_limit` leaves the waiting
  queue as ignored but stays in `self.requests`, and no output tells its client.
  If the client then disconnects, `finish_requests` looks for the request in the
  waiting queue, since it is not running, and `deque.remove` raises in the engine's loop.
* **`proxy_retry`.** When a connection is refused nginx calls `free` and then `get`
  again. `free` gives the charge back, but the peer stays chosen and only
  `peer.init` charges, so the retried request is not counted, and its second
  `free` takes a charge that is not its own: the counters wrap below zero.

Two more disagreements were met and have no run. The comment at
`placement_manager.cpp` 369-370 has the mapping locked from its update until the
weights are queued, while a rank that takes no part in an exchange enters it in
its mapping and lowers its flag before the two partners have queued anything.
`LogitExpertInformation::update()` zeroes a share that is smaller than the part it
should give before adding it to the new one, so that shares of 1 and 20 become
0, 17 and 3 with a third replica.

## 7. Proofs

Assumed are only the named assumptions on constants (`GeometryAssumption`,
`QueueSizeAssumption`, `LimitAssumption`, `PlacementAssumption`,
`OneLayerAssumption`, `GreedyAssumption`, `TransferAssumption`,
`SchedulerAssumption`, `ProxyAssumption`), so the theorems hold for all numbers of
ranks, layers, experts, positions, ring sizes, initial mappings and moves, of
requests, blocks, batches, budgets, workers and peers. Some theorems state a
hypothesis on the constants of their own; the instances of the runs satisfy each:

| hypothesis | theorems | what it says of the code |
|---|---|---|
| `EveryExpertIn`, `Layered` of the initial mappings | `NoExpertIsLost`, `OwnTokensMeetTheirExpert` | a placement pattern is an array per layer and deploys each expert of the layer |
| `PatternsSound` | the six of `GreedyOptimizerProofs` | the same, and an expert has at most `ExpertRedundantLimit + 1` replicas: the mapping asserts that its pattern has fewer than `max_redundant_per_expert_` (`placement_mapping.cpp` 237-240), and the limit is one below that number (`placement_optimizer.cpp` 31) |
| `OneThread` | `BlocksAreHeld`, `DoneIsDone`, `WakesLoaded` | no `multi_rank_pull_kv`; `kv_ranks` shows that it is needed |
| `ReqLimit + 1 < CounterSize` | `DecodeLimitHolds` | a counter of the shared memory can hold the limit |

`ExpertPlacementProofs` - `TypesHold`, `MainNeverMeetsChange`, `RanksAgree` rest
on one inductive invariant,
`CoreInv == TypeOK /\ FlagInv /\ MutualExclusion /\ ExchangeInv`.
`FlagInv` says that the flag is up at exactly the control points between raising
and dropping it: together with the lock that `BeginChange` waits for, this is why
`MainEnter` never meets a change. `ExchangeInv` says that a worker in an
exchange has an instruction left that is no REMOVE; the types of what it sends,
receives and queues need it. `RanksAgree` is inductive relative to `CoreInv`, one
lemma step per action: the mapping of a rank, with the gathered status entered
where that is outstanding, is untouched by the rank's own `UpdateMapping` and by
everything that other ranks do. `CountsStayExact` is inductive likewise: counts
change by the positions that lose and gain an expert, a fact about cardinalities
proved at its head.

Its second half - `NobodyLeavesAlone`, `InstructionsFit`, `PlanIsReached` and the
refinement `WorkersAreOneMachine`: `Spec => RoundsAreAtomic`. Each rank works off its
own share of the list at its own pace, and at any moment the ranks have entered
different parts of it. Two facts make the order irrelevant. The instructions that
touch a position all concern the position's owner (`TouchesConcerns`), who carries
them out in list order; and the two ranks of an instruction have the same next
instruction in the handshake in which it takes effect, and leave it together
(`Paired`). So the settled mapping - a rank's mapping with the gathered announcements
entered - holds at each position what the next instruction left for it was decided
on, and what was planned when none is left (`PlaceInv`): the consistency check
finds what it looks for (`CheckInv`), and with all lists worked off the settled
mapping is the plan. The inductive invariant is `RoundInv == CoreInv /\
MappingAgreement /\ ListInv /\ HandshakeInv /\ Paired /\ PlaceInv /\ CheckInv`.
`HandshakeInv`, on which `OneCollective` rests, says which announcements are
gathered in which phase. `NoExpertIsLost`: the
placement decided so far deploys every expert, the moves being legal. Were one of
its experts nowhere in the settled mapping, then the first instruction left that
was decided on it would have found it left there by an instruction before, itself
decided on it; so the settled mapping deploys every expert too, and a rank's
mapping changes only by becoming the settled one.

`WeightQueueProofs` - `QueuesImplementFifo`: `Spec => QueuesAreFifo`. The
strengthening is `FifoInv == PlanInv /\ RoomInv /\ SlotInv`: no rank exchanges
with itself; between the handshake and `Finish` the ring of a receiver has
room, although it was looked at without the lock; the slots in use are the
`size` ones from the front, so the buffer being received into is none of
them. Every step is then a `Put`, a `Take` or a stutter of `WeightQueues`.
`WeightsAreRightful`: `Spec => []LatestIsMapped`. The invariant `WeightInv` follows a
change through its control points: outside an exchange the newest weights of every
position are the mapping's; from the update of the mapping until `Finish` those of
the exchanged position are still the ones it had before, and after the
transfer the receive buffer holds the ones it is to have. Which they are on the
sender's side is known from `RoundInv` (the partner's positions hold what the
instruction was decided on); that copying an entry to HBM and dequeuing it leaves the
newest weights as they were is algebra of `GetRear`'s scan (`LatestIsNewest`).
`OwnTokensMeetTheirExpert`: `Spec => []LocalTokensServed`, if the initial mappings
deploy every expert, in its layer. Outside the layers marked as changed, the
selector names a position to which the rank's mapping gives the expert
(`SelectInv`). When the inference thread refreshes it, the queue is drained and the
worker is between two changes, so that what the mapping puts on the rank lies in
its HBM; from then on only a copy writes there, and copies end with a refresh.

`SelectorScanProofs` - `ScanMeetsItsRule`: `Spec => []ScanSelects`, for every mapping,
number of ranks and hosts. The invariant (`ScanInv`) says of each expert what the
selector and the lists of candidates are for the replicas seen so far: with one
on the rank, the first of these; else the lists hold exactly the replicas on the
host, or exactly all of them, in ascending order (`Enumerates`), and the selector
is the rule's choice among them. That the k-th entry of such a list is `Nth` of
the set needs that no two members have as many below them.

`GreedyOptimizerProofs` - all six theorems rest on one inductive invariant, `GreedyInv ==
Beliefs /\ BelievesPlacement /\ Layered(view) /\ InBounds(view) /\ PhaseInv /\ ListInv
/\ SearchInv`. A decision is made on what is believed, and the theorems are about
the placement. The bridge is that a decision names an expert, so its layer has been
observed in some round, and of such a layer the belief is the placement
(`BelievesPlacement`): hence what is legal on the one is legal on the other (`Fits`,
`DecisionsStayLegal`, `ReplicasStayInBounds`). `Agreeing` is `BeliefsAgree` for any pair of
books; `ShareOut`, `Moved`, `Split` and their compositions are shown to keep it
(`BeliefsStayInStep`, `BeliefIsThePlacement`) and to take from the replicas of an
expert at least what they give (`Reshared`), so that the sum of the loads does not
grow (`NoLoadAppears`). `SomeRankRemains` rests on that sum: `best` is the mean of the
ranks rounded down, an excluded rank lies above it, and if all ranks were excluded
their loads would add up to more than there is (`SearchInv`, `SumOfGroups`).

`KVTransferProofs` - `BlocksAreHeld`, `DoneIsDone`: without `multi_rank_pull_kv`
(`OneThread`, which `kv_ranks` shows to be necessary) the blocks of a prompt are
held as long as a pull of them is to come. The invariant
`KVInv == KVType /\ Tokens` treats a request's right to pull as a token: it is
its parameters (`BeforePull`), then the metadata, then one task in one queue
(`OneTask`), and until the task has sent its confirmation the blocks are held
and no list or message names the request (`WhilePulled`); a task that has
confirmed has pulled all caches (`ToldIsPulled`). Parameters are cleared when the
metadata is built, so nothing that happens later makes a second token. `KVType`
types what the argument needs.

In its second half `KVTypes` is the whole `TypeOK`. `WaitersArePursued` and
`ReleasesAreComing` hold in every configuration, with a thread per rank too, and
follow a request from hand to hand: at each step of the engine and of a pulling
thread it is put into the next list before, or in the same step as, it leaves the
last (`HandInv`). A task counts as under way only in the queue of a living thread
(`Outstanding`). What is left are the ends the code leaves loose, and both theorems
name them one by one: a task behind a thread that has ended with the exception of
another pull (`Stranded`), a pull that raised, an engine that is gone; for the release
also a request that was skipped for want of a local block and a confirmation that
was lost, while a pull that raised in a thread is confirmed all the same. A waiting
request is never skipped, as it was admitted with blocks for its remote KV
(`LocalBlocks`), so `WaitersArePursued` has no such case. `WakesLoaded` needs `OneThread` again: `finished_recving` names a
request only after its one task has pulled all its caches (`DoneIsDone`).

`NPUSchedulerProofs` - `SchedulerTypes`, `RequestsPlaced`, `BlocksStay`,
`ScheduledNamed`, `ScheduleAssertions` rest on one inductive invariant,
`SchedInv == TypeOK /\ Phases /\ RequestsInOnePlace /\ Names /\ Apart /\ InStep /\ Blocks`.
`Phases` says which locals are empty in which phase and what the decode loop has
scheduled so far. `Names` is `ScheduledIsInFlight` over the batches in flight and
the one being built, and `Apart` adds that a request that waits is in none of
them, so that admitting it again puts it into one batch only. `InStep` ties the
computed tokens of a running request to that: all but one when no batch names
it, all when one does; this is why a decode has exactly one token to
compute, after any preemption, and the request's blocks suffice for them.
`Blocks` is conservation. Each action is one lemma. `QueueStaysFair` needs one more
view of the queue: `Line`, the skipped requests in their old order followed by the
waiting ones, is what the queue would be if `schedule()` ended now. Skipping a
request and ending the prefill leave the line as it is, everything else takes
one request out, puts one before all others as preempted, or puts the last to
arrive at its end (`Arrivals`); so `LineInv`, the order of the line, is inductive
together with `SchedInv`.

`ProxyBalancerProofs` - every step leaves the charges alone, charges one request or
releases one (`Steps`). `QueueHasNoStaleEntries`: an entry of `pd_score`'s queue
appears together with the charge of its prefill (`BeginUncharged`: a request that
begins has none), and a release removes an entry of its address if there is one;
that moving the last entry into the gap loses no other is an injection between
what was left and what is (`WithoutEntries`). `DecodeLimitHolds`: requests of a
decode peer are counted exactly (`DecodeCharges`), because whoever holds a
peer is charged there (`HoldersCharged`), unless the peer was released before a
retry; a peer is charged only within the limit. It needs `ReqLimit + 1 <
CounterSize`: a counter that cannot hold the limit wraps. `CountersAreCharges`:
`Spec => []CountersExact`, sums included, modulo the word, of every peer that was not
released before a retry. `ExactInv` adds that
whoever holds a peer that was not released early is charged there (`Holders`), so what
a release takes back is what is in the sum; a charge or a release changes one sum
by one summand (`HoldsJoin`, `HoldsLeave`). A body filter changes the tokens of a decode
peer and of a request's peer data. Where filters meet only data of their own module
(`OwnData`) that request is a decode charged to this peer, and its summand grows by
what the peer's counter does (`FiltersCountTheirOwn`, `ChunkCounts`); elsewhere nothing
is claimed of the tokens, and the other counters do not change. The lengths are added
and taken back alike by decodes only (`OwnLengths`), so those of `pd_score`'s prefill
peers are left out.

`FiniteLemmas` - what a fold or a sum over a finite set does is a matter of induction,
and the induction theorems of the library take an operator as a parameter, which the
provers cannot instantiate. Here the property is given as a set of sets instead
(`LeastOfNaturals` and the lemmas after it), from which follow the sums that
the optimizer and the proxy need: of one element more or less, of two disjoint
sets, of smaller functions, of the groups of a partition.

Every invariant and action property that a passing run checks is a theorem. Model-checked
only: the liveness properties `RoundEnds`, `RemovalEnds`, `PullEnds`,
`EveryRequestCloses` and `EveryRequestEnds`, as liveness under fairness is out of the
prover's reach. The properties of section 6 are false of the code.

## 8. Not modelled

*Placement*: stopping and starting the worker (`stop_thread`, which may leave the
other ranks in a collective); the device's streams; tokens sent by other ranks;
the counters behind the loads, their wrap-around and truncation to 32 bits; float
rounding; the assertion of the mapping's constructor on initial patterns.

*KV transfer*: the fast path, registration of memory and links, restarts (also that of
an engine that failed) and aborts on a prefill node after its answer was sent. How many
blocks of a request are full when it is admitted to compute with its parameters still
set is any number, instead of what its tokens come to.

*Scheduler*: drafts of speculative decoding (with one, the assertion that a decode
has one new token fails), prefix caching, encoder caches, log probabilities,
`long_prefill_token_threshold`, the remote KV of the connector
(`KVTransfer` has its part of the waiting loop), and the chunked path, which is
vLLM's own.

*Omni attention cache* (`omni/accelerators/cache`): at this commit no execution
reaches its core. Both connectors construct its manager from a
`kv_transfer_config` (`llmdatadist_connector_v1.py` 254, 419) while the
constructor reads `additional_config` of a `vllm_config`
(`llmdatadist_manager.py` 132-139), and the metadata it computes rejects every
local prefill (`cache/utils.py` 19-20). A model would describe what might be meant.

*Proxy*: `length_balance` and `greedy_timeout`; nginx's own balancers; request ids,
rewriting of bodies, parsing of the configuration and its limits on the numbers of
peers; a balancer for a stage it was not written for (`PrefillBalancers`,
`DecodeBalancers`). In the peer data of another module `last_total_tokens` of
`pd_score_balance` lies past the end: the filter may read any number there, which the
model gives it, and what it writes there is left out.

The remaining components of section 1 are numerical, glue or deployment code
without a protocol of their own, and stay out.
