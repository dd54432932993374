--------------------------- MODULE NPUScheduler ---------------------------
(***************************************************************************)
(* NpuHybridScheduler (omni/adaptors/vllm/worker/npu_schedule.py): the     *)
(* scheduler of an engine that prefills and decodes.  A call of schedule() *)
(* admits waiting requests with their whole prompt; only if no request is  *)
(* in a batch it lets the running ones decode one token each, and takes    *)
(* the blocks of the last one when the KV cache is full.  The engine runs  *)
(* the batches (external) and hands their tokens to update_from_output().  *)
(* One action is one turn of a loop of these two, or another call.         *)
(*                                                                         *)
(* Requests arrive in the order of their numbers.  The KV cache manager    *)
(* and the queue of batches are vLLM's: blocks are members of a set, there *)
(* is no prefix caching, and up to MaxBatches batches are in flight.       *)
(***************************************************************************)
EXTENDS Integers, Sequences, FiniteSets, SequencesExt

CONSTANTS
    NumRequests,   \* requests 1 .. NumRequests arrive in this order
    PromptLen,     \* [Request -> prompt tokens]
    MaxTokens,     \* [Request -> sampling_params.max_tokens]
    Lora,          \* [Request -> lora_int_id of its adapter, 0 without one]
    MaxLoras,      \* lora_config.max_loras
    Block,         \* blocks of the KV cache
    BlockSize,
    MaxRunning,    \* max_num_running_reqs
    TokenBudget,   \* max_num_scheduled_tokens = max_num_batched_tokens
    MaxModelLen,
    MaxBatches     \* max_concurrent_batches of the executor

Request == 1 .. NumRequests

ASSUME SchedulerAssumption ==
    /\ NumRequests \in Nat
    /\ PromptLen \in [Request -> Nat \ {0}]
    /\ MaxTokens \in [Request -> Nat \ {0}]
    /\ Lora \in [Request -> Nat]
    /\ MaxLoras \in Nat \ {0}
    /\ IsFiniteSet(Block)
    /\ {BlockSize, MaxRunning, TokenBudget, MaxModelLen, MaxBatches} \subseteq Nat \ {0}

VARIABLES
    waiting,            \* deque of requests that wait for their prefill
    running,            \* list of requests that hold blocks
    status,             \* [Request -> Status]
    num_output_tokens,  \* [Request -> tokens generated, each handed to the client]
    num_computed_tokens,
    held,               \* [Request -> its blocks]
    free_blocks,
    scheduled_req_ids,  \* requests of the batches in flight
    finished_req_ids,   \* finished since the last schedule()
    in_flight,          \* batches that the workers execute, oldest first
    pc,                 \* where the engine is in its step
    token_budget, skipped, num_scheduled_tokens,  \* locals of schedule()
    new_running,        \* local of update_from_output()
    req_index           \* the turn of a loop over running

queues  == <<waiting, running, skipped, new_running>>
memory  == <<num_computed_tokens, held, free_blocks>>
locals  == <<token_budget, req_index, num_scheduled_tokens>>
vars == <<queues, memory, locals, status, num_output_tokens,
          scheduled_req_ids, finished_req_ids, in_flight, pc>>

Status == {"unknown", "waiting", "running", "preempted",
           "stopped", "aborted", "ignored"}

(* A batch is a function from its requests to their numbers of tokens.     *)
EmptyBatch == [r \in {} |-> 0]

num_tokens(r) == PromptLen[r] + num_output_tokens[r]
CeilDiv(n, d) == (n + d - 1) \div d
Smaller(m, n) == IF m < n THEN m ELSE n

Init ==
    /\ waiting = <<>> /\ running = <<>> /\ skipped = <<>> /\ new_running = <<>>
    /\ status = [r \in Request |-> "unknown"]
    /\ num_output_tokens = [r \in Request |-> 0]
    /\ num_computed_tokens = [r \in Request |-> 0]
    /\ held = [r \in Request |-> {}]
    /\ free_blocks = Block
    /\ scheduled_req_ids = {} /\ finished_req_ids = {} /\ in_flight = <<>>
    /\ pc = "idle"
    /\ token_budget = 0 /\ req_index = 0 /\ num_scheduled_tokens = EmptyBatch

---------------------------------------------------------------------------
(* allocate_slots of the KV cache manager (external): blocks for n more    *)
(* tokens of r beyond the c computed ones, all or none.                    *)
Missing(r, c, n) == CeilDiv(c + n, BlockSize) - Cardinality(held[r])
CanAllocate(r, c, n) == Missing(r, c, n) <= Cardinality(free_blocks)

Allocate(r, c, n) ==
    LET new == IF Missing(r, c, n) <= 0 THEN {}
               ELSE CHOOSE S \in SUBSET free_blocks : Cardinality(S) = Missing(r, c, n)
    IN  /\ held' = [held EXCEPT ![r] = @ \cup new]
        /\ free_blocks' = free_blocks \ new

Free(r) ==
    /\ held' = [held EXCEPT ![r] = {}]
    /\ free_blocks' = free_blocks \cup held[r]

---------------------------------------------------------------------------
(* Between two steps the engine takes requests and aborts from its input   *)
(* queue.                                                                  *)
BetweenSteps == pc = "idle"

AddRequest(r) ==
    /\ BetweenSteps
    /\ status[r] = "unknown"
    /\ \A q \in 1 .. r - 1 : status[q] # "unknown"
    /\ status' = [status EXCEPT ![r] = "waiting"]
    /\ waiting' = Append(waiting, r)
    /\ UNCHANGED <<running, skipped, new_running, memory, locals, num_output_tokens,
                   scheduled_req_ids, finished_req_ids, in_flight, pc>>

(* schedule() begins, unless the queue of batches is full; an engine with  *)
(* neither requests nor news of finished ones does not call it.            *)
BeginSchedule ==
    /\ pc = "idle"
    /\ waiting # <<>> \/ running # <<>> \/ finished_req_ids # {}
    /\ Len(in_flight) < MaxBatches
    /\ pc' = "prefill"
    /\ token_budget' = TokenBudget
    /\ num_scheduled_tokens' = EmptyBatch
    /\ UNCHANGED <<queues, memory, status, num_output_tokens, req_index,
                   scheduled_req_ids, finished_req_ids, in_flight>>

MorePrefills ==
    waiting # <<>> /\ token_budget > 0 /\ Len(running) # MaxRunning

(* max_loras adapters are taken and r needs another one.                   *)
LoraRefused(r) ==
    LET taken == {Lora[q] : q \in DOMAIN num_scheduled_tokens} \ {0}
    IN  /\ Lora[r] # 0
        /\ Cardinality(taken) = MaxLoras
        /\ Lora[r] \notin taken

prompt_limit ==
    Smaller(Smaller(MaxModelLen, TokenBudget), Cardinality(Block) * BlockSize)

SkipHead ==
    /\ pc = "prefill" /\ MorePrefills
    /\ LET r == Head(waiting)
       IN  \/ LoraRefused(r)
           \/ /\ num_tokens(r) <= prompt_limit
              /\ num_tokens(r) > token_budget
    /\ waiting' = Tail(waiting)
    /\ skipped' = <<Head(waiting)>> \o skipped
    /\ UNCHANGED <<running, new_running, memory, locals, status, num_output_tokens,
                   scheduled_req_ids, finished_req_ids, in_flight, pc>>

(* A request of more tokens than can ever be scheduled leaves the queue    *)
(* for good; it stays known to the scheduler and gets no output.           *)
IgnoreHead ==
    /\ pc = "prefill" /\ MorePrefills
    /\ LET r == Head(waiting)
       IN  /\ ~LoraRefused(r)
           /\ num_tokens(r) > prompt_limit
           /\ status' = [status EXCEPT ![r] = "ignored"]
           /\ finished_req_ids' = finished_req_ids \cup {r}
    /\ waiting' = Tail(waiting)
    /\ UNCHANGED <<running, skipped, new_running, memory, locals, num_output_tokens,
                   scheduled_req_ids, in_flight, pc>>

(* Faulty: what is left of the budget is not compared.                     *)
HeadFitsLimit ==
    /\ MorePrefills
    /\ ~LoraRefused(Head(waiting))
    /\ num_tokens(Head(waiting)) <= prompt_limit

(* The request at the head is neither skipped nor ignored.                 *)
HeadFits ==
    /\ MorePrefills
    /\ ~LoraRefused(Head(waiting))
    /\ num_tokens(Head(waiting)) <= Smaller(prompt_limit, token_budget)

(* r gets n tokens of the batch.                                           *)
Scheduled(r, n) ==
    [q \in DOMAIN num_scheduled_tokens \cup {r} |->
        IF q = r THEN n ELSE num_scheduled_tokens[q]]

AdmitHead ==
    /\ pc = "prefill" /\ HeadFits
    /\ LET r == Head(waiting)
           n == num_tokens(r)
       IN  /\ CanAllocate(r, 0, n)
           /\ Allocate(r, 0, n)
           /\ running' = Append(running, r)
           /\ scheduled_req_ids' = scheduled_req_ids \cup {r}
           /\ num_scheduled_tokens' = Scheduled(r, n)
           /\ token_budget' = token_budget - n
           /\ status' = [status EXCEPT ![r] = "running"]
           /\ num_computed_tokens' = [num_computed_tokens EXCEPT ![r] = 0]
    /\ waiting' = Tail(waiting)
    /\ UNCHANGED <<skipped, new_running, num_output_tokens, req_index,
                   finished_req_ids, in_flight, pc>>

(* What was skipped goes back to the front, in its old order.              *)
SkippedReversed == skipped \o waiting   \* faulty: the other way round
SkippedFirst    == Reverse(skipped) \o waiting

NothingInThisBatch == num_scheduled_tokens = EmptyBatch   \* faulty: of this batch alone
NothingScheduled   == scheduled_req_ids = {}

(* The loop ends, or breaks at a head for which there are no blocks.       *)
EndPrefill ==
    /\ pc = "prefill"
    /\ \/ ~MorePrefills
       \/ HeadFits /\ ~CanAllocate(Head(waiting), 0, num_tokens(Head(waiting)))
    /\ waiting' = SkippedFirst
    /\ skipped' = <<>>
    /\ req_index' = 1
    /\ pc' = IF NothingScheduled THEN "decode" ELSE "output"
    /\ UNCHANGED <<running, new_running, memory, token_budget, num_scheduled_tokens,
                   status, num_output_tokens, scheduled_req_ids, finished_req_ids, in_flight>>

---------------------------------------------------------------------------
MoreDecodes == req_index <= Len(running) /\ token_budget > 0

(* num_new_tokens of a decode, which the code asserts to be 1.             *)
DecodeTokens(r) == num_tokens(r) - num_computed_tokens[r]

DecodeNext ==
    /\ pc = "decode" /\ MoreDecodes
    /\ LET r == running[req_index]
       IN  /\ CanAllocate(r, num_computed_tokens[r], 1)
           /\ Allocate(r, num_computed_tokens[r], 1)
           /\ scheduled_req_ids' = scheduled_req_ids \cup {r}
           /\ num_scheduled_tokens' = Scheduled(r, 1)
    /\ token_budget' = token_budget - 1
    /\ req_index' = req_index + 1
    /\ UNCHANGED <<queues, num_computed_tokens, status, num_output_tokens,
                   finished_req_ids, in_flight, pc>>

(* Faulty: the victim keeps its blocks.                                    *)
PreemptInPlace(victim) ==
    /\ UNCHANGED <<held, free_blocks>>
    /\ status' = [status EXCEPT ![victim] = "preempted"]
    /\ num_computed_tokens' = [num_computed_tokens EXCEPT ![victim] = 0]

Preempt(victim) ==
    /\ Free(victim)
    /\ status' = [status EXCEPT ![victim] = "preempted"]
    /\ num_computed_tokens' = [num_computed_tokens EXCEPT ![victim] = 0]

(* No block for the next one: the last running request goes back to the    *)
(* head of the waiting queue; if that is the next one itself, that is all. *)
PreemptLast ==
    /\ pc = "decode" /\ MoreDecodes
    /\ LET r == running[req_index]
           victim == running[Len(running)]
       IN  /\ ~CanAllocate(r, num_computed_tokens[r], 1)
           /\ Preempt(victim)
           /\ waiting' = <<victim>> \o waiting
           /\ pc' = IF victim = r THEN "output" ELSE pc
    /\ running' = SubSeq(running, 1, Len(running) - 1)
    /\ UNCHANGED <<skipped, new_running, locals, num_output_tokens,
                   scheduled_req_ids, finished_req_ids, in_flight>>

EndDecode ==
    /\ pc = "decode" /\ ~MoreDecodes
    /\ pc' = "output"
    /\ UNCHANGED <<queues, memory, locals, status, num_output_tokens,
                   scheduled_req_ids, finished_req_ids, in_flight>>

(* The output is built and computed tokens are counted in advance.  The    *)
(* engine waits for the oldest batch if this one is empty, or if it does   *)
(* one batch at a time; else it goes on to its next step.                  *)
EndSchedule ==
    /\ pc = "output"
    /\ num_computed_tokens' =
           [r \in Request |-> num_computed_tokens[r]
                + IF r \in DOMAIN num_scheduled_tokens THEN num_scheduled_tokens[r] ELSE 0]
    /\ in_flight' = IF num_scheduled_tokens = EmptyBatch THEN in_flight
                    ELSE Append(in_flight, num_scheduled_tokens)
    /\ finished_req_ids' = {}
    /\ pc' = IF (num_scheduled_tokens = EmptyBatch \/ MaxBatches = 1) /\ in_flight' # <<>>
             THEN "await" ELSE "idle"
    /\ UNCHANGED <<queues, held, free_blocks, locals, status,
                   num_output_tokens, scheduled_req_ids>>

---------------------------------------------------------------------------
(* check_stop (external): r has all its tokens, or is as long as the model *)
(* allows.                                                                 *)
AtLimit(r, n) == n >= MaxTokens[r] \/ PromptLen[r] + n >= MaxModelLen

(* update_from_output() for the oldest batch goes over the requests that   *)
(* run by now; the batch may name some that do not, and miss some that do. *)
BeginUpdate ==
    /\ pc = "await" \/ (pc = "idle" /\ Len(in_flight) = MaxBatches)
    /\ pc' = "update"
    /\ req_index' = 1
    /\ new_running' = <<>>
    /\ UNCHANGED <<waiting, running, skipped, memory, token_budget, num_scheduled_tokens,
                   status, num_output_tokens, scheduled_req_ids, finished_req_ids, in_flight>>

PassOver ==
    /\ pc = "update" /\ req_index <= Len(running)
    /\ running[req_index] \notin DOMAIN Head(in_flight)
    /\ new_running' = Append(new_running, running[req_index])
    /\ req_index' = req_index + 1
    /\ UNCHANGED <<waiting, running, skipped, memory, token_budget, num_scheduled_tokens,
                   status, num_output_tokens, scheduled_req_ids, finished_req_ids, in_flight, pc>>

(* Faulty: a request that ends keeps its name.                             *)
ForgetRunning(r, ends) == IF ends THEN scheduled_req_ids ELSE scheduled_req_ids \ {r}
Forget(r, ends) == scheduled_req_ids \ {r}

(* The next request gets a token; it may be one that ends the request.     *)
TakeToken(ends) ==
    /\ pc = "update" /\ req_index <= Len(running)
    /\ LET r == running[req_index]
       IN  /\ r \in DOMAIN Head(in_flight)
           /\ AtLimit(r, num_output_tokens[r] + 1) => ends
           /\ num_output_tokens' = [num_output_tokens EXCEPT ![r] = @ + 1]
           /\ scheduled_req_ids' = Forget(r, ends)
           /\ IF ends
              THEN /\ status' = [status EXCEPT ![r] = "stopped"]
                   /\ Free(r)
                   /\ finished_req_ids' = finished_req_ids \cup {r}
                   /\ UNCHANGED new_running
              ELSE /\ new_running' = Append(new_running, r)
                   /\ UNCHANGED <<status, held, free_blocks, finished_req_ids>>
    /\ req_index' = req_index + 1
    /\ UNCHANGED <<waiting, running, skipped, num_computed_tokens, token_budget,
                   num_scheduled_tokens, in_flight, pc>>

EndUpdate ==
    /\ pc = "update" /\ req_index > Len(running)
    /\ running' = new_running
    /\ in_flight' = Tail(in_flight)
    /\ new_running' = <<>>
    /\ pc' = "idle"
    /\ UNCHANGED <<waiting, skipped, memory, locals, status, num_output_tokens,
                   scheduled_req_ids, finished_req_ids>>

---------------------------------------------------------------------------
(* list.remove and deque.remove of a member.                               *)
Removed(s, r) == RemoveAt(s, CHOOSE i \in DOMAIN s : s[i] = r)

(* Faulty: a request that waits stays in the queue.                        *)
LeaveRunning(r) ==
    IF status[r] = "running"
    THEN /\ running' = Removed(running, r)
         /\ scheduled_req_ids' = scheduled_req_ids \ {r}
         /\ UNCHANGED waiting
    ELSE UNCHANGED <<waiting, running, scheduled_req_ids>>

(* Faulty: a request in flight keeps its name.                             *)
LeaveScheduled(r) ==
    IF status[r] = "running"
    THEN running' = Removed(running, r) /\ UNCHANGED <<waiting, scheduled_req_ids>>
    ELSE waiting' = Removed(waiting, r) /\ UNCHANGED <<running, scheduled_req_ids>>

Leave(r) ==
    IF status[r] = "running"
    THEN /\ running' = Removed(running, r)
         /\ scheduled_req_ids' = scheduled_req_ids \ {r}
         /\ UNCHANGED waiting
    ELSE /\ waiting' = Removed(waiting, r)
         /\ UNCHANGED <<running, scheduled_req_ids>>

(* finish_requests(): the client of r went away.                           *)
Abort(r) ==
    /\ BetweenSteps
    /\ status[r] \in {"waiting", "preempted", "running"}
    /\ Leave(r)
    /\ status' = [status EXCEPT ![r] = "aborted"]
    /\ Free(r)
    /\ finished_req_ids' = finished_req_ids \cup {r}
    /\ UNCHANGED <<skipped, new_running, num_computed_tokens, locals, num_output_tokens,
                   in_flight, pc>>

(* An ignored request is still known but in no queue: removing it from the *)
(* waiting queue raises ValueError in the engine's loop.                   *)
AbortIgnored(r) ==
    /\ BetweenSteps
    /\ status[r] = "ignored"
    /\ pc' = "failed"
    /\ UNCHANGED <<queues, memory, locals, status, num_output_tokens,
                   scheduled_req_ids, finished_req_ids, in_flight>>

---------------------------------------------------------------------------
Schedule ==
    BeginSchedule \/ SkipHead \/ IgnoreHead \/ AdmitHead \/ EndPrefill
        \/ DecodeNext \/ PreemptLast \/ EndDecode \/ EndSchedule

Update ==
    BeginUpdate \/ PassOver \/ (\E ends \in BOOLEAN : TakeToken(ends)) \/ EndUpdate

Next ==
    \/ Schedule \/ Update
    \/ \E r \in Request : AddRequest(r) \/ Abort(r) \/ AbortIgnored(r)

Spec == Init /\ [][Next]_vars

(* The engine's loop goes on while there are requests, and batches end.    *)
FairSpec == Spec /\ WF_vars(Schedule) /\ WF_vars(Update)

---------------------------------------------------------------------------
Waiting == {"waiting", "preempted"}
Closed  == {"stopped", "aborted", "ignored"}
InSchedule == pc \in {"prefill", "decode", "output"}

(* The batches under way: those in flight and the one schedule() builds.   *)
Batches == in_flight \o IF InSchedule THEN <<num_scheduled_tokens>> ELSE <<>>

IsBatch(b) == DOMAIN b \subseteq Request /\ b \in [DOMAIN b -> Nat \ {0}]

(* Types of the variables.                                                 *)
TypeOK ==
    /\ {waiting, skipped, running, new_running} \subseteq Seq(Request)
    /\ status \in [Request -> Status]
    /\ num_output_tokens \in [Request -> Nat]
    /\ num_computed_tokens \in [Request -> Nat]
    /\ held \in [Request -> SUBSET Block]
    /\ free_blocks \in SUBSET Block
    /\ scheduled_req_ids \in SUBSET Request
    /\ finished_req_ids \in SUBSET Request
    /\ in_flight \in Seq(Range(in_flight)) /\ \A b \in Range(in_flight) : IsBatch(b)
    /\ pc \in {"idle", "prefill", "decode", "output", "await", "update", "failed"}
    /\ token_budget \in Nat /\ req_index \in Nat
    /\ IsBatch(num_scheduled_tokens)

(* The requests that run: those update_from_output() keeps and has to see. *)
Live == IF pc = "update" THEN new_running \o SubSeq(running, req_index, Len(running))
                         ELSE running

(* A request that is not closed is in one place, once, as its status says: *)
(* among the waiting or skipped ones, or among the running ones.  Three    *)
(* loops move it between queues, and an abort looks for it in the queue    *)
(* that its status names.                                                  *)
RequestsInOnePlace ==
    /\ IsInjective(waiting) /\ IsInjective(skipped) /\ IsInjective(Live)
    /\ Range(waiting) \cap Range(skipped) = {}
    /\ Range(waiting) \cup Range(skipped) = {r \in Request : status[r] \in Waiting}
    /\ Range(Live) = {r \in Request : status[r] = "running"}

(* No block is lost, shared, or kept by a request that does not run, and a *)
(* running request has blocks for all its tokens, computed or under way,   *)
(* through preemptions, aborts and ends of requests in flight.             *)
BlocksConserved ==
    /\ \A r \in Request : held[r] \cap free_blocks = {}
    /\ \A q, r \in Request : q # r => held[q] \cap held[r] = {}
    /\ free_blocks \cup UNION {held[r] : r \in Request} = Block
    /\ \A r \in Request : status[r] # "running" => held[r] = {}
    /\ \A r \in Request : status[r] = "running" =>
           num_computed_tokens[r] <= Cardinality(held[r]) * BlockSize

(* r waits for its token of the i-th batch.                                *)
UnderWay(r, i) ==
    /\ r \in DOMAIN Batches[i]
    /\ ~(pc = "update" /\ i = 1 /\ r \in Range(new_running))

(* scheduled_req_ids names the running requests of the batches under way,  *)
(* each of them in one batch.  One name too many, and no request decodes   *)
(* any more; one too few, and a request is in two batches at once.         *)
ScheduledIsInFlight ==
    /\ scheduled_req_ids =
           {r \in Request : status[r] = "running" /\ \E i \in DOMAIN Batches : UnderWay(r, i)}
    /\ \A r \in scheduled_req_ids : \A i, j \in DOMAIN Batches :
           r \in DOMAIN Batches[i] \cap DOMAIN Batches[j] => i = j

(* The assertions of schedule() hold: a request that decodes has exactly   *)
(* one token to compute, whatever preemptions and batches came before, and *)
(* neither more tokens nor more requests than allowed are scheduled.       *)
AssertionsHold ==
    /\ pc = "decode" =>
           \A i \in req_index .. Len(running) : DecodeTokens(running[i]) = 1
    /\ pc = "output" =>
           /\ token_budget >= 0
           /\ Len(running) <= MaxRunning
           /\ DOMAIN num_scheduled_tokens \subseteq Range(running)

(* Between two calls of schedule() the queue is fair: preempted requests   *)
(* come before newcomers, and newcomers in the order of their arrival,     *)
(* whoever was skipped for want of budget or of an adapter.                *)
QueueOrder ==
    ~InSchedule =>
        \A i, j \in DOMAIN waiting : i < j /\ status[waiting[i]] = "waiting" =>
            /\ status[waiting[j]] = "waiting"
            /\ waiting[i] < waiting[j]

(* A client that waits gets an end: every request that arrives is stopped, *)
(* aborted or ignored, or the engine has failed.  Preemption throws away   *)
(* work again and again, but each round gives some request a token.        *)
EveryRequestCloses ==
    \A r \in Request :
        status[r] = "waiting" ~> (status[r] \in Closed \/ pc = "failed")

(* An abort for a client that disconnects does not bring down the engine.  *)
AbortsNeverFail == pc # "failed"
=============================================================================
