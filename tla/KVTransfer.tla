----------------------------- MODULE KVTransfer -----------------------------
(***************************************************************************)
(* The KV cache of a prompt moves from the prefill node that computed it   *)
(* to the decode rank that goes on with the request.  The prefill          *)
(* scheduler keeps the blocks of a finished prompt; the decode engine      *)
(* allocates blocks and hands pull tasks to its threads; a thread pulls    *)
(* the blocks, tells the prefill node over ZeroMQ and marks the request    *)
(* received; both workers report what is done at the end of a step, and    *)
(* the prefill node then frees the blocks, the decode engine runs on.      *)
(*                                                                         *)
(* One decode rank (its engine thread and its pull threads) and several    *)
(* prefill nodes.  The vLLM scheduler is modelled by the calls it makes.   *)
(***************************************************************************)
EXTENDS Integers, Sequences, FiniteSets

CONSTANTS
    Requests,
    Clusters,        \* prefill nodes
    Homes,           \* which node computes the prompt of a request: the proxy's choices
    NumBlocks,       \* blocks the decode rank allocates for the remote KV of a request
    RemoteCounts,    \* how many blocks of a request the answer of its node may name
    Configurations,  \* "executor", "threads" (multi_thread_pull_kv), "ranks" (multi_rank_pull_kv)
    NumCaches,       \* len(registerd_kv_caches): pulled one after the other
    RetryTimes,      \* KV_CACHE_RETRY_TIMES
    MaxFailures      \* bound: requests with a failing pull or a lost confirmation

ASSUME TransferAssumption ==
    /\ Clusters # {}
    /\ Homes \subseteq [Requests -> Clusters]
    /\ NumBlocks \in [Requests -> Nat \ {0}]
    /\ RemoteCounts \subseteq [Requests -> Nat \ {0}]
    /\ Configurations \subseteq {"executor", "threads", "ranks"}
    /\ NumCaches \in Nat \ {0}
    /\ RetryTimes \in Nat \ {0}
    /\ MaxFailures \in Nat

VARIABLES
    config,          \* how the decode worker is configured
    home,            \* the node that computes the prompt of a request
    remoteBlocks,    \* len(remote_block_ids) of a request
    prefill,         \* per request: "computing", its blocks "held", or "freed"
    received,        \* receive_req_list of the prefill workers
    params,          \* requests whose kv_transfer_params is not None
    status,          \* per request: its state in the decode scheduler
    processed,       \* processed_request
    needRecv,        \* _reqs_need_recv
    metadata,        \* requests of the metadata on its way to the worker
    phase,           \* where the step of the decode engine is, or that it has failed
    queues,          \* tasks of the pull threads, the one being served first
    progress,        \* how far a thread is with its task
    alive,           \* pull threads that have not ended with an exception
    loaded,          \* per request: parts of its KV that are in its blocks
    recving,         \* _recving_transfers
    finishedRecving, \* finished_recving_kv_req_ids of the scheduler
    wire,            \* confirmations sent and not yet read
    skipped,         \* history: requests that had no block to pull into
    failed,          \* history: requests whose pull raised an exception
    unsent           \* history: requests whose confirmation was lost

prefillVars == <<prefill, received>>
schedVars   == <<params, status, processed, needRecv>>
metaVars    == <<metadata, phase, skipped>>
workerVars  == <<queues, progress, alive, loaded, failed, unsent>>
doneVars    == <<recving, finishedRecving>>
setting == <<config, home, remoteBlocks>>
vars == <<setting, prefillVars, schedVars, metaVars, workerVars, doneVars, wire>>

-----------------------------------------------------------------------------
(* Parts, queues and tasks.                                                *)

(* multi_rank_pull_kv splits n blocks at half their number, over two ranks *)
(* of the prefill node, and skips an empty half.                           *)
PartsOf(n) == IF config # "ranks" THEN {1} ELSE IF n \div 2 > 0 THEN {1, 2} ELSE {2}
Parts(r)   == PartsOf(NumBlocks[r])

Halves == IF "ranks" \in Configurations THEN {1, 2} ELSE {1}
Queues == Clusters \X Halves

(* The executor has one thread for all nodes; it stands for this queue.    *)
Single == CHOOSE c \in Clusters : TRUE

Task(r, i)  == [request |-> r, part |-> i]
QueueOf(t)  == IF config = "executor" THEN <<Single, 1>> ELSE <<home[t.request], t.part>>
Fresh       == [caches |-> 0, tries |-> 0, told |-> FALSE]

(* The tasks that a living thread serves or will serve ...                 *)
Outstanding == UNION {{queues[q][i] : i \in DOMAIN queues[q]} : q \in {x \in Queues : alive[x]}}

(* ... and a request with a task behind a thread that has ended: nobody    *)
(* takes it out of the queue any more.                                     *)
Stranded(r) ==
    \E q \in Queues : ~alive[q] /\ \E i \in DOMAIN queues[q] : queues[q][i].request = r

(* Faulty: the last cache is not pulled.                                   *)
PullingAllButOne(q) == queues[q] # <<>> /\ progress[q].caches < NumCaches - 1

(* The task being served still has caches to pull.                         *)
Pulling(q) == queues[q] # <<>> /\ progress[q].caches < NumCaches

(* Some of its KV is still to be pulled.                                   *)
ToPull(r) ==
    \E q \in Queues : \E i \in DOMAIN queues[q] :
        /\ queues[q][i].request = r
        /\ i = 1 => progress[q].caches < NumCaches

-----------------------------------------------------------------------------
Init ==
    /\ config \in Configurations
    /\ home \in Homes
    /\ remoteBlocks \in RemoteCounts
    /\ prefill = [r \in Requests |-> "computing"]
    /\ status = [r \in Requests |-> "none"]
    /\ params = {} /\ processed = {} /\ needRecv = {} /\ metadata = {}
    /\ phase = "input"
    /\ queues = [q \in Queues |-> <<>>]
    /\ progress = [q \in Queues |-> Fresh]
    /\ alive = [q \in Queues |-> TRUE]
    /\ loaded = [r \in Requests |-> {}]
    /\ received = {} /\ recving = {} /\ finishedRecving = {}
    /\ wire = {} /\ skipped = {} /\ failed = {} /\ unsent = {}

-----------------------------------------------------------------------------
(* The prefill node.                                                       *)

(* PrefillConnectorScheduler.request_finished: the blocks of a prompt that *)
(* ended at its first token are kept, and its answer names them.           *)
PrefillFinished(r) ==
    /\ prefill[r] = "computing"
    /\ \E capped \in BOOLEAN :
        /\ prefill' = [prefill EXCEPT ![r] = IF capped THEN "held" ELSE "freed"]
        /\ params' = IF capped THEN params \cup {r} ELSE params
    /\ UNCHANGED <<setting, received, status, processed, needRecv, metaVars,
                   workerVars, doneVars, wire>>

(* Faulty: the list is replaced, not extended.                             *)
ReceivePulledOnly(m) ==
    /\ m \in wire
    /\ wire' = wire \ {m}
    /\ received' = {m.request}
    /\ UNCHANGED <<setting, prefill, schedVars, metaVars, workerVars, doneVars>>

(* get_pulled_kv_req_list: the ZeroMQ thread reads a confirmation.         *)
ReceivePulled(m) ==
    /\ m \in wire
    /\ wire' = wire \ {m}
    /\ received' = received \cup {m.request}
    /\ UNCHANGED <<setting, prefill, schedVars, metaVars, workerVars, doneVars>>

(* A step of a prefill node: get_finished drains the list, the scheduler   *)
(* frees the blocks of what it still knows.                                *)
PrefillStep(c) ==
    LET done == {r \in received : home[r] = c}
    IN  /\ done # {}
        /\ received' = received \ done
        /\ prefill' = [r \in Requests |->
                          IF r \in done /\ prefill[r] = "held" THEN "freed" ELSE prefill[r]]
        /\ UNCHANGED <<setting, schedVars, metaVars, workerVars, doneVars, wire>>

-----------------------------------------------------------------------------
(* The decode engine: requests come in, are scheduled, executed, updated.  *)

(* The decode scheduler forgets requests: request_finished keeps no block. *)
Finished(S) ==
    /\ status' = [r \in Requests |-> IF r \in S THEN "finished" ELSE status[r]]
    /\ processed' = processed \ S
    /\ loaded' = [r \in Requests |-> IF r \in S THEN {} ELSE loaded[r]]

(* The proxy hands the request on, with the answer of the prefill node.    *)
AddRequest(r) ==
    /\ phase = "input"
    /\ prefill[r] # "computing" /\ status[r] = "none"
    /\ status' = [status EXCEPT ![r] = "waiting"]
    /\ UNCHANGED <<setting, prefillVars, params, processed, needRecv, metaVars,
                   workerVars, doneVars, wire>>

(* A client goes away.                                                     *)
AbortRequest(r) ==
    /\ phase = "input"
    /\ status[r] \in {"waiting", "remote", "running"}
    /\ Finished({r})
    /\ UNCHANGED <<setting, prefillVars, params, needRecv, metaVars, queues,
                   progress, alive, failed, unsent, doneVars, wire>>

(* get_num_new_matched_tokens: it offers the remote KV once.               *)
Matched(r) == r \notin processed /\ r \in params

Ready(r)    == status[r] = "remote" /\ r \in finishedRecving
Eligible(r) == status[r] = "waiting" \/ Ready(r)

(* schedule(): some waiting requests get blocks; the first that gets none  *)
(* ends the loop; running ones may be preempted, and recompute later.      *)
(* A request admitted without remote KV is recomputed here; one that waits *)
(* for it is registered by update_state_after_alloc, as is every admitted  *)
(* request that still has its parameters.                                  *)
Schedule ==
    /\ phase = "input"
    /\ \E admitted \in SUBSET {r \in Requests : Eligible(r)},
          refused \in {{}} \cup {{r} : r \in {x \in Requests : Eligible(x)}},
          preempted \in SUBSET {r \in Requests : status[r] = "running"} :
        LET remote == {r \in admitted : status[r] = "waiting" /\ Matched(r)}
            local  == {r \in admitted : status[r] = "waiting" /\ ~Matched(r)}
        IN  /\ admitted \cap refused = {}
            /\ status' = [r \in Requests |->
                             CASE r \in remote               -> "remote"
                               [] r \in admitted \ remote    -> "running"
                               [] r \in refused \cup preempted -> "waiting"
                               [] OTHER                      -> status[r]]
            /\ processed' = processed \cup admitted \cup refused
            /\ needRecv' = needRecv \cup (admitted \cap params)
            /\ finishedRecving' = finishedRecving
                                    \ {r \in admitted \cup refused : status[r] = "remote"}
            /\ loaded' = [r \in Requests |->
                             CASE r \in local     -> Parts(r)
                               [] r \in preempted -> {}
                               [] OTHER           -> loaded[r]]
    /\ phase' = "meta"
    /\ UNCHANGED <<setting, prefillVars, params, metadata, skipped, queues, progress,
                   alive, failed, unsent, recving, wire>>

(* Faulty: the parameters of the request are left in place.                *)
BuildMetadataKeepParams ==
    /\ phase = "meta"
    /\ metadata' = needRecv \cap params
    /\ needRecv' = {}
    /\ phase' = "load"
    /\ UNCHANGED <<setting, prefillVars, params, status, processed, skipped,
                   workerVars, doneVars, wire>>

(* build_connector_metadata                                                *)
BuildMetadata ==
    /\ phase = "meta"
    /\ metadata' = needRecv \cap params
    /\ params' = params \ needRecv
    /\ needRecv' = {}
    /\ phase' = "load"
    /\ UNCHANGED <<setting, prefillVars, status, processed, skipped, workerVars, doneVars, wire>>

(* The blocks update_state_after_alloc names: all that were allocated for  *)
(* the remote KV; of a request that is computed here, those not full yet.  *)
LocalBlocks(r) == IF status[r] = "remote" THEN {NumBlocks[r]} ELSE 0 .. NumBlocks[r]

(* start_load_kv, for one request of the metadata: a task for each part,   *)
(* to the thread that serves it.  Without a local block it is skipped:     *)
(* nothing is pulled and nothing confirmed.                                *)
LoadKV(r) ==
    /\ phase = "load" /\ r \in metadata
    /\ \E n \in LocalBlocks(r) :
        /\ n <= remoteBlocks[r]
        /\ LET parts == IF n = 0 THEN {} ELSE PartsOf(n)
           IN  queues' = [q \in Queues |->
                             IF \E i \in parts : QueueOf(Task(r, i)) = q
                             THEN Append(queues[q],
                                         Task(r, CHOOSE i \in parts : QueueOf(Task(r, i)) = q))
                             ELSE queues[q]]
        /\ skipped' = IF n = 0 THEN skipped \cup {r} ELSE skipped
    /\ metadata' = metadata \ {r}
    /\ UNCHANGED <<setting, prefillVars, schedVars, phase, progress, alive, loaded,
                   failed, unsent, doneVars, wire>>

(* It raises when the answer names fewer blocks than there are here.  The  *)
(* engine core ends with the exception; what it had not handed over is     *)
(* lost, and the threads go on until the process is gone.                  *)
LoadRaises(r) ==
    /\ phase = "load" /\ r \in metadata
    /\ \E n \in LocalBlocks(r) : n > remoteBlocks[r]
    /\ phase' = "failed"
    /\ UNCHANGED <<setting, prefillVars, schedVars, metadata, skipped, workerVars,
                   doneVars, wire>>

(* Faulty: what is done replaces what earlier steps reported.              *)
UpdateFromLastOutput ==
    /\ phase = "load" /\ metadata = {}
    /\ finishedRecving' = recving
    /\ recving' = {}
    /\ phase' = "input"
    /\ \E S \in SUBSET {r \in Requests : status[r] = "running"} : Finished(S)
    /\ UNCHANGED <<setting, prefillVars, params, needRecv, metadata, skipped, queues,
                   progress, alive, failed, unsent, wire>>

(* The end of a step: get_finished drains the list after the forward pass, *)
(* update_from_output hands it to the scheduler.  Running requests may     *)
(* have produced their last token.                                         *)
UpdateFromOutput ==
    /\ phase = "load" /\ metadata = {}
    /\ finishedRecving' = finishedRecving \cup recving
    /\ recving' = {}
    /\ phase' = "input"
    /\ \E S \in SUBSET {r \in Requests : status[r] = "running"} : Finished(S)
    /\ UNCHANGED <<setting, prefillVars, params, needRecv, metadata, skipped, queues,
                   progress, alive, failed, unsent, wire>>

-----------------------------------------------------------------------------
(* A pull thread of the decode worker.                                     *)
Serving(q) == alive[q] /\ queues[q] # <<>>
Current(q) == Head(queues[q])

(* Faulty: the next task goes on where this one stopped.                   *)
NextTaskStale(q) ==
    /\ queues' = [queues EXCEPT ![q] = Tail(@)]
    /\ UNCHANGED progress

(* The task is over; the thread takes the next.                            *)
NextTask(q) ==
    /\ queues' = [queues EXCEPT ![q] = Tail(@)]
    /\ progress' = [progress EXCEPT ![q] = Fresh]

(* _send_pulled_kv_req_list: an exception of the socket is only logged.    *)
SendPulled(t) ==
    \/ wire' = wire \cup {t} /\ UNCHANGED unsent
    \/ /\ Cardinality(failed' \cup unsent \cup {t.request}) <= MaxFailures
       /\ unsent' = unsent \cup {t.request}
       /\ UNCHANGED wire

threadElse == <<setting, prefillVars, schedVars, metaVars, finishedRecving>>

(* pull_kv: one registered cache after the other.                          *)
PullCache(q) ==
    /\ Serving(q) /\ Pulling(q)
    /\ progress' = [progress EXCEPT ![q] = [Fresh EXCEPT !.caches = progress[q].caches + 1]]
    /\ loaded' = IF progress[q].caches + 1 = NumCaches
                 THEN [loaded EXCEPT ![Current(q).request] = @ \cup {Current(q).part}]
                 ELSE loaded
    /\ UNCHANGED <<threadElse, queues, alive, failed, unsent, recving, wire>>

(* Faulty: the tries are counted from the start again.                     *)
RetryPullForEver(q) ==
    /\ Serving(q) /\ Pulling(q)
    /\ progress' = [progress EXCEPT ![q].tries = (@ + 1) % RetryTimes]
    /\ UNCHANGED <<threadElse, queues, alive, loaded, failed, unsent, recving, wire>>

(* _pull_blocks: a retryable error, and a try left.                        *)
RetryPull(q) ==
    /\ Serving(q) /\ Pulling(q)
    /\ progress[q].tries + 1 < RetryTimes
    /\ progress' = [progress EXCEPT ![q].tries = @ + 1]
    /\ UNCHANGED <<threadElse, queues, alive, loaded, failed, unsent, recving, wire>>

(* Faulty: the request counts as received in any case.                     *)
PullFailsReceived(q) ==
    /\ Serving(q) /\ Pulling(q)
    /\ Cardinality(failed \cup unsent \cup {Current(q).request}) <= MaxFailures
    /\ failed' = failed \cup {Current(q).request}
    /\ recving' = recving \cup {Current(q).request}
    /\ NextTask(q)
    /\ IF config = "executor"
       THEN UNCHANGED <<alive, wire, unsent>>
       ELSE alive' = [alive EXCEPT ![q] = FALSE] /\ SendPulled(Current(q))
    /\ UNCHANGED <<threadElse, loaded>>

(* Another error, or no try left.  A thread of the worker confirms the     *)
(* pull all the same, and ends; the executor keeps the exception in the    *)
(* future of the task.                                                     *)
PullFails(q) ==
    /\ Serving(q) /\ Pulling(q)
    /\ Cardinality(failed \cup unsent \cup {Current(q).request}) <= MaxFailures
    /\ failed' = failed \cup {Current(q).request}
    /\ NextTask(q)
    /\ IF config = "executor"
       THEN UNCHANGED <<alive, wire, unsent>>
       ELSE alive' = [alive EXCEPT ![q] = FALSE] /\ SendPulled(Current(q))
    /\ UNCHANGED <<threadElse, loaded, recving>>

(* _read_blocks, after the pull: confirm it ...                            *)
ConfirmPull(q) ==
    /\ Serving(q) /\ ~Pulling(q) /\ ~progress[q].told
    /\ progress' = [progress EXCEPT ![q].told = TRUE]
    /\ UNCHANGED failed
    /\ SendPulled(Current(q))
    /\ UNCHANGED <<threadElse, queues, alive, loaded, recving>>

(* ... and mark the request as received, under the lock.                   *)
MarkReceived(q) ==
    /\ Serving(q) /\ progress[q].told
    /\ recving' = recving \cup {Current(q).request}
    /\ NextTask(q)
    /\ UNCHANGED <<threadElse, alive, loaded, failed, unsent, wire>>

-----------------------------------------------------------------------------
Prefill == \/ \E r \in Requests : PrefillFinished(r)
           \/ \E c \in Clusters : PrefillStep(c)
Engine  == \/ Schedule \/ BuildMetadata \/ UpdateFromOutput
           \/ \E r \in Requests : LoadKV(r) \/ LoadRaises(r)
Client  == \E r \in Requests : AddRequest(r) \/ AbortRequest(r)
Thread(q) == PullCache(q) \/ RetryPull(q) \/ PullFails(q) \/ ConfirmPull(q) \/ MarkReceived(q)

Next == \/ Prefill \/ Client \/ Engine
        \/ \E m \in wire : ReceivePulled(m)
        \/ \E q \in Queues : Thread(q)

Spec == Init /\ [][Next]_vars

(* The threads run, the decode engine steps as long as it has a request,   *)
(* and ZeroMQ delivers.  Nothing is assumed of clients, of the outcome of  *)
(* a pull, or of the prefill node, which may be idle.                      *)
FairSpec ==
    /\ Spec
    /\ WF_vars(Engine)
    /\ \A q \in Queues : WF_vars(Thread(q))
    /\ \A m \in [request : Requests, part : Halves] : WF_vars(ReceivePulled(m))

-----------------------------------------------------------------------------
TypeOK ==
    /\ config \in Configurations /\ home \in Homes /\ remoteBlocks \in RemoteCounts
    /\ prefill \in [Requests -> {"computing", "held", "freed"}]
    /\ status \in [Requests -> {"none", "waiting", "remote", "running", "finished"}]
    /\ phase \in {"input", "meta", "load", "failed"}
    /\ \A q \in Queues :
        /\ queues[q] \in Seq([request : Requests, part : Halves])
        /\ progress[q] \in [caches : 0 .. NumCaches, tries : 0 .. RetryTimes - 1, told : BOOLEAN]
        /\ queues[q] = <<>> \/ ~alive[q] => progress[q] = Fresh
    /\ loaded \in [Requests -> SUBSET Halves]
    /\ Cardinality(failed \cup unsent) <= MaxFailures

(* A prefill node keeps the blocks of a prompt as long as a pull of them   *)
(* is asked for or under way: no thread reads blocks that were freed and   *)
(* may hold another prompt by then, whatever is retried, refused,          *)
(* preempted or aborted on the decode side (request_finished, _read_blocks). *)
BlocksOutliveThePull ==
    \A r \in Requests : r \in metadata \/ ToPull(r) => prefill[r] = "held"

(* What the workers report as done is done: no part of a request that is   *)
(* confirmed to the prefill node, or marked as received, is still to be    *)
(* pulled (get_finished: "requests that are done sending or recving").     *)
DoneMeansDone ==
    \A r \in received \cup recving \cup finishedRecving : ~ToPull(r)

(* A request that waits for remote KV waits for something that comes: its  *)
(* pull is registered, on its way, queued to a living thread, done and     *)
(* marked, or reported (_reqs_need_recv, the metadata, the queues,         *)
(* _recving_transfers, finished_recving_kv_req_ids: every hand-over).  It  *)
(* waits for ever only where the code gives it up: its pull raised, or its *)
(* task is behind a thread that ended (worker), or the engine is gone.     *)
NobodyWaitsInVain ==
    phase # "failed" =>
        \A r \in Requests : status[r] = "remote" =>
            \/ r \in needRecv \cup metadata \cup recving \cup finishedRecving
            \/ \E t \in Outstanding : t.request = r
            \/ r \in failed \/ Stranded(r)

(* Of the blocks that a prefill node keeps for a pull that was asked for,  *)
(* the release is coming: the pull is queued to a living thread, or its    *)
(* confirmation is on its way.  There is no timeout, so they are kept for  *)
(* ever in the cases named here, and in no other: the request had no local *)
(* block to pull into (start_load_kv skips it), its task is behind a       *)
(* thread that ended (worker), the confirmation was lost                   *)
(* (_send_pulled_kv_req_list), the executor's pull raised, or the engine   *)
(* is gone.                                                                *)
ReleaseIsComing ==
    phase # "failed" =>
        \A r \in Requests : prefill[r] = "held" /\ r \notin params =>
            \/ r \in metadata \cup received
            \/ \E t \in Outstanding \cup wire : t.request = r
            \/ r \in skipped \cup unsent \/ Stranded(r)
            \/ config = "executor" /\ r \in failed

(* A request leaves its wait for remote KV only with all of its KV in its  *)
(* blocks, or because it was aborted (_update_waiting_for_remote_kv).      *)
WakesWithItsKV ==
    [][\A r \in Requests :
        status[r] = "remote" /\ status'[r] \in {"waiting", "running"}
            => loaded'[r] = Parts(r)]_vars

ThreadEnded(r) == \E i \in Parts(r) : ~alive[QueueOf(Task(r, i))]

Confirmed(r) ==
    \/ r \in received \cup unsent \/ prefill[r] = "freed"
    \/ (r \in failed /\ config = "executor")

(* A pull that was handed to the worker comes to an end that both sides    *)
(* learn of, unless there was no block to pull into, it failed or its      *)
(* thread has ended: a failing pull holds up nobody else in the executor,  *)
(* and only requests to the same prefill node where each node has a thread *)
(* (worker, start_load_kv).                                                *)
PullEnds ==
    \A r \in Requests :
        /\ r \in metadata ~> \/ r \in finishedRecving \cup failed \cup skipped
                             \/ ThreadEnded(r) \/ phase = "failed"
        /\ r \in metadata ~> \/ Confirmed(r) \/ r \in skipped
                             \/ ThreadEnded(r) \/ phase = "failed"
=============================================================================
