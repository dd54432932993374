-------------------------- MODULE KVTransferProofs --------------------------
(***************************************************************************)
(* A pull of KV blocks, for every number of requests, nodes, caches and    *)
(* tries, whatever fails, is lost, refused, preempted or aborted.          *)
(*                                                                         *)
(* Without multi_rank_pull_kv, the blocks of a prompt outlive the pull of  *)
(* them.  The argument: a request has one token that moves from its        *)
(* parameters to the metadata, to one task, to a confirmation; until the   *)
(* confirmation is sent, its blocks are held and nobody was told that it   *)
(* is done.                                                                *)
(*                                                                         *)
(* The hand-overs of a pull: the state keeps its type, a request that      *)
(* waits for remote KV waits for something, blocks that are held will be   *)
(* released, and no request wakes before its KV is there.  All but the     *)
(* last hold with multi_rank_pull_kv too.                                  *)
(***************************************************************************)
EXTENDS KVTransfer, SequenceTheorems, FiniteSetTheorems, TLAPS

-----------------------------------------------------------------------------
(* The inductive invariant.                                                *)

PullTask == [request : Requests, part : Halves]

KVType ==
    /\ config \in Configurations /\ home \in Homes /\ remoteBlocks \in RemoteCounts
    /\ prefill \in [Requests -> {"computing", "held", "freed"}]
    /\ params \subseteq Requests /\ metadata \subseteq Requests
    /\ phase \in {"input", "meta"} => metadata = {}
    /\ queues \in [Queues -> Seq(PullTask)]
    /\ progress \in [Queues -> [caches : 0 .. NumCaches, tries : Nat, told : BOOLEAN]]
    /\ wire \subseteq PullTask

InQueue(r) == \E q \in Queues : \E i \in DOMAIN queues[q] : queues[q][i].request = r
Done       == received \cup recving \cup finishedRecving
Quiet(r)   == r \notin Done /\ \A m \in wire : m.request # r

(* A request whose pull was not handed to a thread: no thread and no       *)
(* message is about it.                                                    *)
BeforePull ==
    /\ \A r \in params \cup metadata : prefill[r] = "held"
    /\ params \cap metadata = {}
    /\ \A r \in Requests :
        r \in params \cup metadata \/ prefill[r] = "computing" => ~InQueue(r) /\ Quiet(r)

OneTask ==
    \A p, q \in Queues : \A i \in DOMAIN queues[p], j \in DOMAIN queues[q] :
        queues[p][i].request = queues[q][j].request => p = q /\ i = j

WhilePulled ==
    \A q \in Queues : \A i \in DOMAIN queues[q] :
        ~(i = 1 /\ progress[q].told)
            => prefill[queues[q][i].request] = "held" /\ Quiet(queues[q][i].request)

ToldIsPulled ==
    \A q \in Queues :
        progress[q].told => queues[q] # <<>> /\ progress[q].caches = NumCaches

Tokens == BeforePull /\ OneTask /\ WhilePulled /\ ToldIsPulled
KVInv  == KVType /\ Tokens

OneThread == "ranks" \notin Configurations

-----------------------------------------------------------------------------
LEMMA KVInit == Init => KVInv
<1> SUFFICES ASSUME Init PROVE KVInv
  OBVIOUS
<1>1. KVType
  BY TransferAssumption DEF Init, KVType, Fresh
<1>2. BeforePull
  BY DEF Init, BeforePull, InQueue, Quiet, Done
<1>3. OneTask /\ WhilePulled /\ ToldIsPulled
  BY DEF Init, OneTask, WhilePulled, ToldIsPulled, Fresh
<1> QED BY <1>1, <1>2, <1>3 DEF KVInv, Tokens

(* Without multi_rank_pull_kv a request has one part, and its task goes to *)
(* one queue.                                                              *)
LEMMA OnePart ==
    ASSUME OneThread, KVType, NEW r \in Requests
    PROVE  /\ \A n \in Nat : PartsOf(n) = {1}
           /\ Parts(r) = {1}
           /\ Task(r, 1) \in PullTask
           /\ QueueOf(Task(r, 1)) \in Queues
<1>1. config # "ranks" /\ Halves = {1}
  BY DEF OneThread, KVType, Halves
<1>2. Single \in Clusters /\ home[r] \in Clusters
  BY TransferAssumption DEF Single, KVType
<1> QED BY <1>1, <1>2 DEF PartsOf, Parts, Task, PullTask, QueueOf, Queues

(* What a step leaves to the threads and to the messages.                  *)
LEMMA TokensKept ==
    ASSUME Tokens,
           UNCHANGED <<prefill, queues, wire>>,
           Done' \subseteq Done,
           params' \cup metadata' \subseteq params \cup metadata,
           params' \cap metadata' = {},
           \A q \in Queues : /\ progress'[q].told = progress[q].told
                             /\ progress[q].told => progress'[q].caches = progress[q].caches
    PROVE  Tokens'
<1>1. BeforePull'
  BY DEF Tokens, BeforePull, InQueue, Quiet
<1>2. OneTask'
  BY DEF Tokens, OneTask
<1>3. WhilePulled'
  BY DEF Tokens, WhilePulled, Quiet
<1>4. ToldIsPulled'
  BY DEF Tokens, ToldIsPulled
<1> QED BY <1>1, <1>2, <1>3, <1>4 DEF Tokens

LEMMA TaskType ==
    ASSUME KVType, NEW q \in Queues, NEW i \in DOMAIN queues[q]
    PROVE  queues[q][i] \in PullTask /\ queues[q][i].request \in Requests
<1>1. queues[q] \in Seq(PullTask)
  BY DEF KVType
<1>2. queues[q][i] \in PullTask
  BY <1>1, ElementOfSeq, LenProperties
<1> QED BY <1>2 DEF PullTask

(* A task leaves its queue: the others move up.                            *)
LEMMA NextTaskShifts ==
    ASSUME KVType, NEW q \in Queues, queues[q] # <<>>, NextTask(q)
    PROVE  /\ queues' \in [Queues -> Seq(PullTask)]
           /\ progress' \in [Queues -> [caches : 0 .. NumCaches, tries : Nat, told : BOOLEAN]]
           /\ \A p \in Queues \ {q} : queues'[p] = queues[p] /\ progress'[p] = progress[p]
           /\ ~progress'[q].told
           /\ \A i \in DOMAIN queues'[q] : /\ i + 1 \in DOMAIN queues[q]
                                           /\ i + 1 # 1
                                           /\ queues'[q][i] = queues[q][i + 1]
           /\ Current(q) \in PullTask /\ 1 \in DOMAIN queues[q]
           /\ Current(q) = queues[q][1]
<1>1. queues[q] \in Seq(PullTask)
  BY DEF KVType
<1>2. /\ queues'[q] = Tail(queues[q])
      /\ progress'[q] = Fresh
      /\ \A p \in Queues \ {q} : queues'[p] = queues[p] /\ progress'[p] = progress[p]
  BY DEF NextTask, KVType
<1>3. /\ Tail(queues[q]) \in Seq(PullTask)
      /\ Len(Tail(queues[q])) = Len(queues[q]) - 1
      /\ \A i \in 1 .. Len(Tail(queues[q])) : Tail(queues[q])[i] = queues[q][i + 1]
      /\ Len(queues[q]) \in Nat \ {0}
  BY <1>1, HeadTailProperties, EmptySeq
<1>4. Fresh \in [caches : 0 .. NumCaches, tries : Nat, told : BOOLEAN] /\ ~Fresh.told
  BY TransferAssumption DEF Fresh
<1>5. /\ queues' \in [Queues -> Seq(PullTask)]
      /\ progress' \in [Queues -> [caches : 0 .. NumCaches, tries : Nat, told : BOOLEAN]]
  BY <1>2, <1>3, <1>4 DEF NextTask, KVType
<1>6. \A i \in DOMAIN queues'[q] : /\ i + 1 \in DOMAIN queues[q]
                                   /\ i + 1 # 1
                                   /\ queues'[q][i] = queues[q][i + 1]
  <2>1. DOMAIN queues'[q] = 1 .. Len(queues[q]) - 1 /\ DOMAIN queues[q] = 1 .. Len(queues[q])
    BY <1>1, <1>2, <1>3
  <2> QED BY <1>2, <1>3, <2>1
<1>7. Current(q) \in PullTask /\ 1 \in DOMAIN queues[q] /\ Current(q) = queues[q][1]
  BY <1>1, <1>3 DEF Current
<1> QED BY <1>2, <1>4, <1>5, <1>6, <1>7

(* A task that is over leaves nothing of its request behind: it was the    *)
(* only one.  Only then may somebody be told that the request is done.     *)
LEMMA TaskGone ==
    ASSUME KVInv, NEW q \in Queues, queues[q] # <<>>, NextTask(q),
           UNCHANGED <<prefill, params, metadata>>,
           \A m \in wire' : m \in wire \/ m.request = Current(q).request,
           Done' \subseteq Done \cup {Current(q).request}
    PROVE  Tokens'
<1> DEFINE gone == queues[q][1].request
           Old(p, i) == IF p = q THEN i + 1 ELSE i
<1>1. /\ \A p \in Queues \ {q} : queues'[p] = queues[p] /\ progress'[p] = progress[p]
      /\ ~progress'[q].told
      /\ 1 \in DOMAIN queues[q] /\ Current(q).request = gone
  BY NextTaskShifts DEF KVInv
<1>2. ASSUME NEW p \in Queues, NEW i \in DOMAIN queues'[p]
      PROVE  /\ Old(p, i) \in DOMAIN queues[p]
             /\ queues'[p][i] = queues[p][Old(p, i)]
             /\ p = q => Old(p, i) # 1
  BY <1>1, NextTaskShifts DEF KVInv
<1>3. ASSUME NEW p \in Queues, NEW i \in DOMAIN queues'[p]
      PROVE  queues'[p][i].request # gone
  BY <1>1, <1>2 DEF KVInv, Tokens, OneTask
<1>4. ASSUME NEW r, r # gone, Quiet(r) PROVE Quiet(r)'
  BY <1>1, <1>4 DEF Quiet
<1>5. BeforePull'
  <2>1. ASSUME NEW r \in Requests, r \in params \cup metadata \/ prefill[r] = "computing"
        PROVE  ~InQueue(r)' /\ Quiet(r)'
    <3>1. ~InQueue(r) /\ Quiet(r)
      BY <2>1 DEF KVInv, Tokens, BeforePull
    <3>2. r # gone
      BY <1>1, <3>1 DEF InQueue
    <3>3. ~InQueue(r)'
      BY <1>2, <3>1 DEF InQueue
    <3> QED BY <1>4, <3>1, <3>2, <3>3
  <2> QED BY <2>1 DEF KVInv, Tokens, BeforePull
<1>6. OneTask'
  <2> SUFFICES ASSUME NEW p1 \in Queues, NEW p2 \in Queues,
                      NEW i \in DOMAIN queues'[p1], NEW j \in DOMAIN queues'[p2],
                      queues'[p1][i].request = queues'[p2][j].request
               PROVE  p1 = p2 /\ i = j
    BY DEF OneTask
  <2>1. p1 = p2 /\ Old(p1, i) = Old(p2, j)
    BY <1>2 DEF KVInv, Tokens, OneTask
  <2>2. i \in Int /\ j \in Int
    BY NextTaskShifts DEF KVInv
  <2> QED BY <2>1, <2>2
<1>7. WhilePulled'
  <2> SUFFICES ASSUME NEW p \in Queues, NEW i \in DOMAIN queues'[p], NEW r,
                      r = queues'[p][i].request, ~(i = 1 /\ progress'[p].told)
               PROVE  prefill'[r] = "held" /\ Quiet(r)'
    BY DEF WhilePulled
  <2>1. ~(Old(p, i) = 1 /\ progress[p].told)
    BY <1>1, <1>2
  <2>2. r = queues[p][Old(p, i)].request /\ Old(p, i) \in DOMAIN queues[p]
    BY <1>2
  <2>3. prefill[r] = "held" /\ Quiet(r)
    BY <2>1, <2>2 DEF KVInv, Tokens, WhilePulled
  <2> QED BY <1>3, <1>4, <2>3
<1>8. ToldIsPulled'
  BY <1>1 DEF KVInv, Tokens, ToldIsPulled
<1> QED BY <1>5, <1>6, <1>7, <1>8 DEF Tokens

-----------------------------------------------------------------------------
(* The steps of the prefill node.                                          *)

LEMMA PrefillFinishedStep ==
    ASSUME KVInv, NEW r \in Requests, PrefillFinished(r) PROVE KVInv'
<1> USE DEF KVInv, Tokens
<1>1. /\ UNCHANGED <<setting, metadata, phase, queues, progress, wire>> /\ Done' = Done
      /\ \A s \in Requests \ {r} : prefill'[s] = prefill[s]
      /\ prefill[r] = "computing" /\ prefill'[r] \in {"held", "freed"}
      /\ prefill' \in [Requests -> {"computing", "held", "freed"}]
      /\ params' = params \/ (params' = params \cup {r} /\ prefill'[r] = "held")
  BY DEF PrefillFinished, workerVars, metaVars, doneVars, Done, KVType
<1>2. ~InQueue(r) /\ Quiet(r) /\ r \notin params \cup metadata
  BY <1>1 DEF BeforePull
<1>3. \A s \in Requests : InQueue(s)' = InQueue(s) /\ Quiet(s)' = Quiet(s)
  BY <1>1 DEF InQueue, Quiet
<1>4. KVType'
  BY <1>1 DEF KVType, setting
<1>5. BeforePull'
  BY <1>1, <1>2, <1>3 DEF BeforePull, KVType
<1>6. OneTask' /\ ToldIsPulled'
  BY <1>1 DEF OneTask, ToldIsPulled
<1>7. WhilePulled'
  <2> SUFFICES ASSUME NEW q \in Queues, NEW i \in DOMAIN queues[q], NEW s,
                      s = queues[q][i].request, ~(i = 1 /\ progress[q].told)
               PROVE  prefill'[s] = "held" /\ Quiet(s)'
    BY <1>1 DEF WhilePulled
  <2>1. s \in Requests \ {r}
    BY <1>2, TaskType DEF InQueue
  <2> QED BY <1>1, <1>3, <2>1 DEF WhilePulled
<1> QED BY <1>4, <1>5, <1>6, <1>7

LEMMA ReceivePulledStep ==
    ASSUME KVInv, NEW m, ReceivePulled(m) PROVE KVInv'
<1> USE DEF KVInv, Tokens
<1>1. /\ UNCHANGED <<setting, prefill, params, metadata, phase, queues, progress>>
      /\ m \in wire /\ wire' \subseteq wire /\ Done' = Done \cup {m.request}
  BY DEF ReceivePulled, workerVars, metaVars, doneVars, schedVars, Done
<1>2. \A s \in Requests : InQueue(s)' = InQueue(s) /\ (Quiet(s) => Quiet(s)')
  BY <1>1 DEF InQueue, Quiet
<1>3. KVType'
  BY <1>1 DEF KVType, setting
<1>4. BeforePull'
  BY <1>1, <1>2 DEF BeforePull
<1>5. OneTask' /\ ToldIsPulled'
  BY <1>1 DEF OneTask, ToldIsPulled
<1>6. WhilePulled'
  BY <1>1 DEF WhilePulled, Quiet
<1> QED BY <1>3, <1>4, <1>5, <1>6

LEMMA PrefillStepStep ==
    ASSUME KVInv, NEW c \in Clusters, PrefillStep(c) PROVE KVInv'
<1> USE DEF KVInv, Tokens
<1>1. /\ UNCHANGED <<setting, params, metadata, phase, queues, progress, wire>>
      /\ Done' \subseteq Done
      /\ prefill' \in [Requests -> {"computing", "held", "freed"}]
      /\ \A r \in Requests : r \notin Done => prefill'[r] = prefill[r]
      /\ \A r \in Requests : prefill'[r] = "computing" => prefill[r] = "computing"
  BY DEF PrefillStep, workerVars, metaVars, doneVars, schedVars, Done, KVType
<1>2. \A r \in Requests : InQueue(r)' = InQueue(r) /\ (Quiet(r) => Quiet(r)')
  BY <1>1 DEF InQueue, Quiet
<1>3. KVType'
  BY <1>1 DEF KVType, setting
<1>4. BeforePull'
  <2>1. \A r \in params' \cup metadata' : prefill'[r] = "held"
    BY <1>1 DEF BeforePull, KVType, Quiet
  <2> QED BY <1>1, <1>2, <2>1 DEF BeforePull
<1>5. OneTask' /\ ToldIsPulled'
  BY <1>1 DEF OneTask, ToldIsPulled
<1>6. WhilePulled'
  <2> SUFFICES ASSUME NEW q \in Queues, NEW i \in DOMAIN queues[q], NEW r,
                      r = queues[q][i].request, ~(i = 1 /\ progress[q].told)
               PROVE  prefill'[r] = "held" /\ Quiet(r)'
    BY <1>1 DEF WhilePulled
  <2>1. r \in Requests
    BY TaskType
  <2> QED BY <1>1, <1>2, <2>1 DEF WhilePulled, Quiet
<1> QED BY <1>3, <1>4, <1>5, <1>6

-----------------------------------------------------------------------------
(* The steps of the decode engine.                                         *)

(* Clients and most of the engine leave the threads alone.                 *)
LEMMA EngineKeeps ==
    ASSUME KVInv,
           \/ \E r \in Requests : AddRequest(r) \/ AbortRequest(r)
           \/ Schedule \/ BuildMetadata \/ UpdateFromOutput \/ \E r \in Requests : LoadRaises(r)
    PROVE  KVInv'
<1> USE DEF KVInv, Tokens
<1>1. UNCHANGED <<setting, prefill, queues, progress, wire>>
  BY DEF AddRequest, AbortRequest, Schedule, BuildMetadata, UpdateFromOutput, LoadRaises,
         prefillVars, workerVars, metaVars
<1>2. Done' \subseteq Done
  BY DEF AddRequest, AbortRequest, Schedule, BuildMetadata, UpdateFromOutput, LoadRaises,
         prefillVars, metaVars, doneVars, Done
<1>3. /\ params' \cup metadata' \subseteq params \cup metadata
      /\ params' \cap metadata' = {}
      /\ phase' \in {"input", "meta"} => metadata' = {}
  <2>1. CASE \E r \in Requests : LoadRaises(r)
    BY <2>1 DEF LoadRaises, schedVars, BeforePull
  <2>2. CASE ~\E r \in Requests : LoadRaises(r)
    BY <2>2 DEF AddRequest, AbortRequest, Schedule, BuildMetadata, UpdateFromOutput,
                KVType, BeforePull, metaVars
  <2> QED BY <2>1, <2>2
<1>4. KVType'
  BY <1>1, <1>3 DEF KVType, setting
<1> QED BY <1>1, <1>2, <1>3, <1>4, TokensKept

(* start_load_kv: a queue is left alone, or gets a task of the request at  *)
(* its end; if none does, the request is skipped.                          *)
LoadsParts(r, parts) ==
    queues' = [q \in Queues |->
                  IF \E i \in parts : QueueOf(Task(r, i)) = q
                  THEN Append(queues[q], Task(r, CHOOSE i \in parts : QueueOf(Task(r, i)) = q))
                  ELSE queues[q]]

LEMMA LoadKVParts ==
    ASSUME KVType, NEW r \in Requests, LoadKV(r)
    PROVE  \/ queues' = queues /\ r \in skipped' /\ status[r] # "remote"
           \/ \E n \in Nat \ {0} : LoadsParts(r, PartsOf(n))
<1>1. PICK n \in LocalBlocks(r) :
          /\ LoadsParts(r, IF n = 0 THEN {} ELSE PartsOf(n))
          /\ skipped' = IF n = 0 THEN skipped \cup {r} ELSE skipped
  BY DEF LoadKV, LoadsParts
<1>2. n \in Nat /\ (status[r] = "remote" => n # 0)
  BY TransferAssumption DEF LocalBlocks
<1>3. CASE n = 0
  <2>1. queues' = [q \in Queues |-> queues[q]]
    BY <1>1, <1>3 DEF LoadsParts
  <2> QED BY <1>1, <1>2, <1>3, <2>1 DEF KVType
<1>4. CASE n # 0
  BY <1>1, <1>2, <1>4
<1> QED BY <1>3, <1>4

LEMMA LoadKVStep ==
    ASSUME OneThread, KVInv, NEW r \in Requests, LoadKV(r) PROVE KVInv'
<1> USE DEF KVInv, Tokens
<1> DEFINE q0 == QueueOf(Task(r, 1))
           last == Len(queues[q0]) + 1
<1>1. /\ UNCHANGED <<setting, prefill, params, phase, progress, wire>> /\ Done' = Done
      /\ r \in metadata /\ metadata' = metadata \ {r} /\ phase = "load"
  BY DEF LoadKV, prefillVars, schedVars, doneVars, Done
<1>2. Task(r, 1) \in PullTask /\ q0 \in Queues
  BY OnePart
<1>17. CASE queues' = queues
  <2>1. KVType'
    BY <1>1, <1>17 DEF KVType, setting
  <2>2. params' \cup metadata' \subseteq params \cup metadata /\ params' \cap metadata' = {}
    BY <1>1 DEF BeforePull
  <2> QED BY <1>1, <1>17, <2>1, <2>2, TokensKept
<1> SUFFICES ASSUME queues' # queues PROVE KVInv'
  BY <1>17
<1>3. queues' = [q \in Queues |-> IF q = q0 THEN Append(queues[q], Task(r, 1)) ELSE queues[q]]
  <2>1. PICK n \in Nat : LoadsParts(r, PartsOf(n))
    BY LoadKVParts
  <2>2. LoadsParts(r, {1})
    BY <2>1, OnePart
  <2> QED BY <2>2 DEF LoadsParts
<1>4. queues[q0] \in Seq(PullTask)
  BY <1>2 DEF KVType
<1>5. /\ queues'[q0] \in Seq(PullTask)
      /\ last \in Nat \ {0} /\ last \in DOMAIN queues'[q0]
      /\ queues'[q0][last] = Task(r, 1)
      /\ \A i \in DOMAIN queues'[q0] :
            i # last => i \in DOMAIN queues[q0] /\ queues'[q0][i] = queues[q0][i]
  BY <1>2, <1>3, <1>4, AppendProperties, LenProperties
<1>6. \A q \in Queues \ {q0} : queues'[q] = queues[q]
  BY <1>3
<1>7. KVType'
  BY <1>1, <1>3, <1>5 DEF KVType, setting
<1>8. ~InQueue(r) /\ Quiet(r) /\ prefill[r] = "held" /\ r \notin params
  BY <1>1 DEF BeforePull
<1>9. Task(r, 1).request = r
  BY DEF Task
<1>10. ASSUME NEW q \in Queues, NEW i \in DOMAIN queues'[q], queues'[q][i].request # r
       PROVE  i \in DOMAIN queues[q] /\ queues'[q][i] = queues[q][i]
  BY <1>5, <1>6, <1>9, <1>10
<1>11. ASSUME NEW q \in Queues, NEW i \in DOMAIN queues'[q], queues'[q][i].request = r
       PROVE  q = q0 /\ i = last
  BY <1>5, <1>6, <1>8, <1>11 DEF InQueue
<1>12. \A s : Quiet(s)' = Quiet(s)
  BY <1>1 DEF Quiet
<1>13. BeforePull'
  <2>1. \A s \in Requests \ {r} : InQueue(s)' => InQueue(s)
    BY <1>10 DEF InQueue
  <2> QED BY <1>1, <1>8, <1>12, <2>1 DEF BeforePull
<1>14. OneTask'
  BY <1>10, <1>11 DEF OneTask
<1>15. WhilePulled'
  <2> SUFFICES ASSUME NEW q \in Queues, NEW i \in DOMAIN queues'[q], NEW s,
                      s = queues'[q][i].request, ~(i = 1 /\ progress'[q].told)
               PROVE  prefill'[s] = "held" /\ Quiet(s)'
    BY DEF WhilePulled
  <2>1. CASE s = r
    BY <1>1, <1>8, <1>12, <2>1
  <2>2. CASE s # r
    BY <1>1, <1>10, <1>12, <2>2 DEF WhilePulled
  <2> QED BY <2>1, <2>2
<1>16. ToldIsPulled'
  <2> SUFFICES ASSUME NEW q \in Queues, progress[q].told
               PROVE  queues'[q] # <<>> /\ progress[q].caches = NumCaches
    BY <1>1 DEF ToldIsPulled
  <2>1. CASE q = q0
    BY <1>5, <2>1, EmptySeq DEF ToldIsPulled
  <2>2. CASE q # q0
    BY <1>6, <2>2 DEF ToldIsPulled
  <2> QED BY <2>1, <2>2
<1> QED BY <1>7, <1>13, <1>14, <1>15, <1>16

-----------------------------------------------------------------------------
(* The steps of a thread.                                                  *)

LEMMA PullCacheStep ==
    ASSUME KVInv, NEW q \in Queues, PullCache(q) \/ RetryPull(q) PROVE KVInv'
<1> USE DEF KVInv, Tokens
<1>1. /\ UNCHANGED <<setting, prefill, params, metadata, phase, queues, wire>>
      /\ Done' = Done
  BY DEF PullCache, RetryPull, threadElse, metaVars, prefillVars, schedVars, Done
<1>2. progress[q] \in [caches : 0 .. NumCaches, tries : Nat, told : BOOLEAN]
  BY DEF KVType
<1>3. ~progress[q].told /\ progress[q].caches + 1 \in 0 .. NumCaches
  BY <1>2, TransferAssumption DEF PullCache, RetryPull, Pulling, ToldIsPulled
<1>4. /\ progress' \in [Queues -> [caches : 0 .. NumCaches, tries : Nat, told : BOOLEAN]]
      /\ \A p \in Queues : progress'[p].told = progress[p].told
      /\ \A p \in Queues : p # q => progress'[p] = progress[p]
  <2>1. CASE PullCache(q)
    <3> DEFINE next == [Fresh EXCEPT !.caches = progress[q].caches + 1]
    <3>1. Fresh \in [caches : 0 .. NumCaches, tries : Nat, told : BOOLEAN] /\ ~Fresh.told
      BY TransferAssumption DEF Fresh
    <3>2. next \in [caches : 0 .. NumCaches, tries : Nat, told : BOOLEAN] /\ next.told = Fresh.told
      BY <1>3, <3>1
    <3>3. progress' = [progress EXCEPT ![q] = next]
      BY <2>1 DEF PullCache
    <3> HIDE DEF next
    <3> QED BY <1>2, <1>3, <3>1, <3>2, <3>3 DEF KVType
  <2>2. CASE RetryPull(q)
    <3>1. progress' = [progress EXCEPT ![q].tries = progress[q].tries + 1]
      BY <2>2 DEF RetryPull
    <3>2. [progress[q] EXCEPT !.tries = progress[q].tries + 1]
              = [caches |-> progress[q].caches, tries |-> progress[q].tries + 1,
                 told |-> progress[q].told]
      BY <1>2
    <3> QED BY <1>2, <3>1, <3>2 DEF KVType
  <2> QED BY <2>1, <2>2
<1>5. KVType'
  BY <1>1, <1>4 DEF KVType, setting
<1>6. params' \cup metadata' \subseteq params \cup metadata /\ params' \cap metadata' = {}
  BY <1>1 DEF BeforePull
<1>7. \A p \in Queues : /\ progress'[p].told = progress[p].told
                        /\ progress[p].told => progress'[p].caches = progress[p].caches
  BY <1>3, <1>4
<1>8. Tokens'
  BY <1>1, <1>6, <1>7, TokensKept
<1> QED BY <1>5, <1>8

LEMMA ConfirmPullStep ==
    ASSUME KVInv, NEW q \in Queues, ConfirmPull(q) PROVE KVInv'
<1> USE DEF KVInv, Tokens
<1> DEFINE t == queues[q][1]
<1>1. /\ UNCHANGED <<setting, prefill, params, metadata, phase, queues>> /\ Done' = Done
      /\ progress' = [progress EXCEPT ![q].told = TRUE]
      /\ queues[q] # <<>> /\ progress[q].caches = NumCaches
  <2>1. progress[q].caches \in 0 .. NumCaches
    BY DEF KVType
  <2> QED BY <2>1, TransferAssumption
          DEF ConfirmPull, Serving, Pulling, threadElse, metaVars, prefillVars, schedVars, Done
<1>2. 1 \in DOMAIN queues[q] /\ Current(q) = t /\ t \in PullTask
  <2>1. queues[q] \in Seq(PullTask)
    BY DEF KVType
  <2>2. 1 \in DOMAIN queues[q]
    BY <1>1, <2>1, EmptySeq, LenProperties
  <2> QED BY <2>1, <2>2, TaskType DEF Current
<1>3. wire' = wire \/ wire' = wire \cup {t}
  BY <1>2 DEF ConfirmPull, SendPulled
<1>4. progress' \in [Queues -> [caches : 0 .. NumCaches, tries : Nat, told : BOOLEAN]]
  BY <1>1 DEF KVType
<1>5. \A p \in Queues : p # q => progress'[p] = progress[p]
  BY <1>1 DEF KVType
<1>6. progress'[q].told /\ progress'[q].caches = NumCaches
  BY <1>1 DEF KVType
<1>7. \A r : r # t.request => (Quiet(r) => Quiet(r)')
  BY <1>1, <1>3 DEF Quiet
<1>8. KVType'
  BY <1>1, <1>2, <1>3, <1>4 DEF KVType, setting
<1>9. BeforePull'
  <2>1. \A r \in Requests : InQueue(r)' = InQueue(r) /\ (~InQueue(r) => r # t.request)
    BY <1>1, <1>2 DEF InQueue
  <2> QED BY <1>1, <1>7, <2>1 DEF BeforePull
<1>10. OneTask'
  BY <1>1 DEF OneTask
<1>11. WhilePulled'
  <2> SUFFICES ASSUME NEW p \in Queues, NEW i \in DOMAIN queues[p], NEW r,
                      r = queues[p][i].request, ~(i = 1 /\ progress'[p].told)
               PROVE  prefill'[r] = "held" /\ Quiet(r)'
    BY <1>1 DEF WhilePulled
  <2>1. ~(p = q /\ i = 1)
    BY <1>6
  <2>2. r # t.request
    BY <1>2, <2>1 DEF OneTask
  <2>3. ~(i = 1 /\ progress[p].told)
    <3>1. CASE p = q
      BY <2>1, <3>1
    <3>2. CASE p # q
      BY <1>5, <3>2
    <3> QED BY <3>1, <3>2
  <2>4. prefill[r] = "held" /\ Quiet(r)
    BY <2>3 DEF WhilePulled
  <2> QED BY <1>1, <1>7, <2>2, <2>4
<1>12. ToldIsPulled'
  BY <1>1, <1>5, <1>6 DEF ToldIsPulled
<1> QED BY <1>8, <1>9, <1>10, <1>11, <1>12

LEMMA TaskOverStep ==
    ASSUME KVInv, NEW q \in Queues, PullFails(q) \/ MarkReceived(q) PROVE KVInv'
<1> USE DEF KVInv
<1>1. /\ UNCHANGED <<setting, prefill, params, metadata, phase>>
      /\ queues[q] # <<>> /\ NextTask(q)
      /\ Done' \subseteq Done \cup {Current(q).request}
      /\ wire' = wire \/ wire' = wire \cup {Current(q)}
  BY DEF PullFails, MarkReceived, Serving, SendPulled, threadElse, metaVars, prefillVars, schedVars, Done
<1>2. KVType'
  BY <1>1, NextTaskShifts DEF KVType, setting
<1>3. \A m \in wire' : m \in wire \/ m.request = Current(q).request
  BY <1>1
<1> QED BY <1>1, <1>2, <1>3, TaskGone

-----------------------------------------------------------------------------
LEMMA KVStep ==
    ASSUME OneThread, KVInv, [Next]_vars PROVE KVInv'
<1>1. ASSUME NEW r \in Requests, PrefillFinished(r) PROVE KVInv'
  BY <1>1, PrefillFinishedStep
<1>2. ASSUME NEW c \in Clusters, PrefillStep(c) PROVE KVInv'
  BY <1>2, PrefillStepStep
<1>3. CASE \/ Client \/ Schedule \/ BuildMetadata \/ UpdateFromOutput
           \/ \E r \in Requests : LoadRaises(r)
  BY <1>3, EngineKeeps DEF Client
<1>4. ASSUME NEW r \in Requests, LoadKV(r) PROVE KVInv'
  BY <1>4, LoadKVStep
<1>5. ASSUME NEW m \in wire, ReceivePulled(m) PROVE KVInv'
  BY <1>5, ReceivePulledStep
<1>6. ASSUME NEW q \in Queues, Thread(q) PROVE KVInv'
  BY <1>6, PullCacheStep, ConfirmPullStep, TaskOverStep DEF Thread
<1>7. CASE UNCHANGED vars
  <2>1. UNCHANGED <<setting, prefill, params, metadata, phase, queues, progress, wire>>
        /\ Done' = Done
    BY <1>7 DEF vars, prefillVars, schedVars, workerVars, metaVars, doneVars, Done
  <2>2. KVType'
    BY <2>1 DEF KVInv, KVType, setting
  <2>3. params \cap metadata = {}
    BY DEF KVInv, Tokens, BeforePull
  <2> QED BY <2>1, <2>2, <2>3, TokensKept DEF KVInv
<1> QED BY <1>1, <1>2, <1>3, <1>4, <1>5, <1>6, <1>7 DEF Next, Prefill, Engine

(* BlocksOutliveThePull: without multi_rank_pull_kv no thread reads, or    *)
(* will read, blocks that the prefill node has freed (_read_blocks         *)
(* 601-615, get_finished 267-283, build_connector_metadata 360-384).       *)
THEOREM BlocksAreHeld == ASSUME OneThread PROVE Spec => []BlocksOutliveThePull
<1>1. KVInv => BlocksOutliveThePull
  <2> SUFFICES ASSUME KVInv, NEW r \in Requests, r \in metadata \/ ToPull(r)
               PROVE  prefill[r] = "held"
    BY DEF BlocksOutliveThePull
  <2>1. CASE r \in metadata
    BY <2>1 DEF KVInv, Tokens, BeforePull
  <2>2. CASE ToPull(r)
    <3>1. PICK q \in Queues : \E i \in DOMAIN queues[q] :
                /\ queues[q][i].request = r
                /\ i = 1 => progress[q].caches < NumCaches
      BY <2>2 DEF ToPull
    <3> QED BY <3>1, TransferAssumption DEF KVInv, Tokens, WhilePulled, ToldIsPulled
  <2> QED BY <2>1, <2>2
<1> QED BY <1>1, KVInit, KVStep, PTL DEF Spec

(* DoneMeansDone: without multi_rank_pull_kv what the workers of either    *)
(* side report as done has no part left to pull (get_finished 267-283 and  *)
(* 634-650).                                                               *)
THEOREM DoneIsDone == ASSUME OneThread PROVE Spec => []DoneMeansDone
<1>1. KVInv => DoneMeansDone
  <2> SUFFICES ASSUME KVInv, NEW r \in Done, ToPull(r) PROVE FALSE
    BY DEF DoneMeansDone, Done
  <2>1. PICK q \in Queues : \E i \in DOMAIN queues[q] :
              /\ queues[q][i].request = r
              /\ i = 1 => progress[q].caches < NumCaches
    BY DEF ToPull
  <2> QED BY <2>1, TransferAssumption DEF KVInv, Tokens, WhilePulled, ToldIsPulled, Quiet
<1> QED BY <1>1, KVInit, KVStep, PTL DEF Spec

-----------------------------------------------------------------------------
(* Types.                                                                  *)

Progress == [caches : 0 .. NumCaches, tries : 0 .. RetryTimes - 1, told : BOOLEAN]

(* What the threads write.                                                 *)
ThreadType ==
    /\ queues \in [Queues -> Seq(PullTask)]
    /\ progress \in [Queues -> Progress]
    /\ alive \in [Queues -> BOOLEAN]
    /\ \A q \in Queues : queues[q] = <<>> \/ ~alive[q] => progress[q] = Fresh
    /\ ToldIsPulled
    /\ wire \subseteq PullTask
    /\ Cardinality(failed \cup unsent) <= MaxFailures

OtherType ==
    /\ config \in Configurations /\ home \in Homes /\ remoteBlocks \in RemoteCounts
    /\ prefill \in [Requests -> {"computing", "held", "freed"}]
    /\ status \in [Requests -> {"none", "waiting", "remote", "running", "finished"}]
    /\ phase \in {"input", "meta", "load", "failed"}
    /\ loaded \in [Requests -> SUBSET Halves]
    /\ params \subseteq Requests /\ metadata \subseteq Requests
    /\ phase \in {"input", "meta"} => metadata = {}

Typed == ThreadType /\ OtherType

LEMMA FreshType == Fresh \in Progress /\ ~Fresh.told
BY TransferAssumption DEF Fresh, Progress

LEMMA TypedParts == Typed => KVType /\ TypeOK /\ ToldIsPulled
<1> SUFFICES ASSUME Typed PROVE KVType /\ TypeOK /\ ToldIsPulled
  OBVIOUS
<1>1. progress \in [Queues -> [caches : 0 .. NumCaches, tries : Nat, told : BOOLEAN]]
  BY TransferAssumption DEF Typed, ThreadType, Progress
<1> QED BY <1>1 DEF Typed, KVType, TypeOK, ThreadType, OtherType, Progress, PullTask

LEMMA TypedInit == Init => Typed
<1> SUFFICES ASSUME Init PROVE Typed
  OBVIOUS
<1>1. Cardinality(failed \cup unsent) <= MaxFailures
  BY FS_EmptySet, TransferAssumption DEF Init
<1>2. ThreadType
  BY <1>1, FreshType DEF Init, ThreadType, ToldIsPulled
<1>3. OtherType
  BY DEF Init, OtherType
<1> QED BY <1>2, <1>3 DEF Typed

(* The parts of a request, and the queues of their tasks.                  *)
LEMMA PartsType ==
    ASSUME KVType, NEW r \in Requests
    PROVE  /\ \A n \in Nat : PartsOf(n) \subseteq Halves /\ PartsOf(n) # {}
           /\ Parts(r) \subseteq Halves
           /\ \A i \in Halves : QueueOf(Task(r, i)) \in Queues /\ Task(r, i) \in PullTask
<1>1. 1 \in Halves /\ \A n \in Nat : PartsOf(n) \subseteq Halves /\ PartsOf(n) # {}
  BY DEF PartsOf, Halves, KVType
<1>3. Parts(r) \subseteq Halves
  BY <1>1, TransferAssumption DEF Parts, PartsOf, setting
<1>2. Single \in Clusters /\ home[r] \in Clusters
  BY TransferAssumption DEF Single, KVType
<1> QED BY <1>1, <1>2, <1>3 DEF Task, PullTask, QueueOf, Queues

LEMMA LoadKVAppends ==
    ASSUME KVType, NEW r \in Requests, LoadKV(r)
    PROVE  /\ queues' \in [Queues -> Seq(PullTask)]
           /\ \A q \in Queues :
                \/ queues'[q] = queues[q]
                \/ \E t \in PullTask : t.request = r /\ queues'[q] = Append(queues[q], t)
           /\ \/ \E q \in Queues : \E t \in PullTask :
                    t.request = r /\ queues'[q] = Append(queues[q], t)
              \/ r \in skipped' /\ status[r] # "remote"
<1>1. CASE queues' = queues /\ r \in skipped' /\ status[r] # "remote"
  BY <1>1 DEF KVType
<1>2. ASSUME NEW n \in Nat \ {0}, LoadsParts(r, PartsOf(n))
      PROVE  /\ queues' \in [Queues -> Seq(PullTask)]
             /\ \A q \in Queues :
                  \/ queues'[q] = queues[q]
                  \/ \E t \in PullTask : t.request = r /\ queues'[q] = Append(queues[q], t)
             /\ \E q \in Queues : \E t \in PullTask :
                  t.request = r /\ queues'[q] = Append(queues[q], t)
  <2> DEFINE T(q) == Task(r, CHOOSE i \in PartsOf(n) : QueueOf(Task(r, i)) = q)
             Gets(q) == \E i \in PartsOf(n) : QueueOf(Task(r, i)) = q
  <2>1. queues' = [q \in Queues |-> IF Gets(q) THEN Append(queues[q], T(q)) ELSE queues[q]]
    BY <1>2 DEF LoadsParts
  <2>2. ASSUME NEW q \in Queues, Gets(q) PROVE T(q) \in PullTask /\ T(q).request = r
    <3>1. (CHOOSE i \in PartsOf(n) : QueueOf(Task(r, i)) = q) \in PartsOf(n)
      BY <2>2
    <3> QED BY <3>1, PartsType DEF Task
  <2>3. \E q \in Queues : Gets(q)
    BY PartsType
  <2> HIDE DEF T, Gets
  <2>4. \A q \in Queues : queues'[q] = IF Gets(q) THEN Append(queues[q], T(q)) ELSE queues[q]
    BY <2>1
  <2>5. \A q \in Queues : queues[q] \in Seq(PullTask)
    BY DEF KVType
  <2>6. ASSUME NEW q \in Queues PROVE queues'[q] \in Seq(PullTask)
    <3>1. CASE Gets(q)
      <4>1. PICK t \in PullTask : t = T(q)
        BY <2>2, <3>1
      <4>2. queues[q] \in Seq(PullTask)
        BY <2>5
      <4>3. Append(queues[q], t) \in Seq(PullTask)
        BY <4>2, AppendProperties
      <4> QED BY <2>4, <3>1, <4>1, <4>3
    <3>2. CASE ~Gets(q)
      BY <2>4, <2>5, <3>2
    <3> QED BY <3>1, <3>2
  <2> QED BY <2>1, <2>2, <2>3, <2>4, <2>6
<1> QED BY <1>1, <1>2, LoadKVParts

(* The prefill node, the client and the engine but for start_load_kv.      *)
LEMMA OutsideKeepsThreadType ==
    ASSUME ThreadType, UNCHANGED <<queues, progress, alive, failed, unsent>>, wire' \subseteq wire
    PROVE  ThreadType'
BY DEF ThreadType, ToldIsPulled

LEMMA PrefillTyped ==
    ASSUME Typed, Prefill \/ \E m \in wire : ReceivePulled(m) PROVE Typed'
<1> USE TypedParts DEF Typed
<1>1. ASSUME NEW r \in Requests, PrefillFinished(r) PROVE Typed'
  <2>1. OtherType'
    BY <1>1 DEF PrefillFinished, OtherType, setting, workerVars, metaVars
  <2>2. ThreadType'
    BY <1>1, OutsideKeepsThreadType DEF PrefillFinished, workerVars, metaVars
  <2> QED BY <2>1, <2>2
<1>2. ASSUME NEW c \in Clusters, PrefillStep(c) PROVE Typed'
  <2>1. OtherType'
    BY <1>2 DEF PrefillStep, OtherType, setting, workerVars, metaVars, schedVars
  <2>2. ThreadType'
    BY <1>2, OutsideKeepsThreadType DEF PrefillStep, workerVars, metaVars
  <2> QED BY <2>1, <2>2
<1>3. ASSUME NEW m \in wire, ReceivePulled(m) PROVE Typed'
  <2>1. OtherType'
    BY <1>3 DEF ReceivePulled, OtherType, setting, workerVars, metaVars, schedVars
  <2>2. ThreadType'
    BY <1>3, OutsideKeepsThreadType DEF ReceivePulled, workerVars, metaVars
  <2> QED BY <2>1, <2>2
<1> QED BY <1>1, <1>2, <1>3 DEF Prefill

LEMMA FinishedType ==
    ASSUME OtherType, NEW S \in SUBSET Requests, Finished(S)
    PROVE  /\ status' \in [Requests -> {"none", "waiting", "remote", "running", "finished"}]
           /\ loaded' \in [Requests -> SUBSET Halves]
BY DEF OtherType, Finished

LEMMA EngineTyped ==
    ASSUME Typed, \/ Client \/ Schedule \/ BuildMetadata \/ UpdateFromOutput
                  \/ \E r \in Requests : LoadRaises(r)
    PROVE  Typed'
<1> USE TypedParts DEF Typed
<1>1. ASSUME NEW r \in Requests, AddRequest(r) PROVE OtherType'
  BY <1>1 DEF AddRequest, OtherType, setting, workerVars, metaVars, prefillVars
<1>2. ASSUME NEW r \in Requests, AbortRequest(r) PROVE OtherType'
  BY <1>2, FinishedType DEF AbortRequest, OtherType, setting, prefillVars, metaVars
<1>3. ASSUME Schedule PROVE OtherType'
  <2>1. \A r \in Requests : Parts(r) \subseteq Halves
    BY PartsType DEF Typed
  <2> QED BY <1>3, <2>1 DEF Schedule, OtherType, setting, prefillVars
<1>4. ASSUME BuildMetadata PROVE OtherType'
  BY <1>4 DEF BuildMetadata, OtherType, setting, workerVars, metaVars, prefillVars
<1>5. ASSUME UpdateFromOutput PROVE OtherType'
  <2>1. PICK S \in SUBSET {r \in Requests : status[r] = "running"} : Finished(S)
    BY <1>5 DEF UpdateFromOutput
  <2> QED BY <1>5, <2>1, FinishedType DEF UpdateFromOutput, OtherType, setting, prefillVars
<1>8. ASSUME NEW r \in Requests, LoadRaises(r) PROVE OtherType'
  BY <1>8 DEF LoadRaises, OtherType, setting, workerVars, prefillVars, schedVars
<1>6. UNCHANGED <<queues, progress, alive, failed, unsent, wire>>
  BY DEF Client, AddRequest, AbortRequest, Schedule, BuildMetadata, UpdateFromOutput, LoadRaises,
         workerVars, metaVars
<1>7. ThreadType'
  BY <1>6, OutsideKeepsThreadType
<1> QED BY <1>1, <1>2, <1>3, <1>4, <1>5, <1>7, <1>8 DEF Client

LEMMA LoadKVTyped ==
    ASSUME Typed, NEW r \in Requests, LoadKV(r) PROVE Typed'
<1> USE TypedParts DEF Typed
<1>1. OtherType'
  BY DEF LoadKV, OtherType, setting, schedVars, prefillVars
<1>2. /\ queues' \in [Queues -> Seq(PullTask)]
      /\ \A q \in Queues : queues'[q] = queues[q] \/ queues'[q] # <<>>
      /\ \A q \in Queues : queues'[q] = <<>> => queues[q] = <<>>
  <2>1. \A q \in Queues : queues[q] \in Seq(PullTask)
    BY DEF ThreadType
  <2>2. \A q \in Queues : \A t \in PullTask : Append(queues[q], t) # <<>>
    BY <2>1, AppendProperties
  <2>3. KVType
    OBVIOUS
  <2>4. queues' \in [Queues -> Seq(PullTask)]
    BY <2>3, LoadKVAppends
  <2>5. \A q \in Queues :
            queues'[q] = queues[q] \/ \E t \in PullTask : queues'[q] = Append(queues[q], t)
    BY <2>3, LoadKVAppends
  <2> QED BY <2>2, <2>4, <2>5
<1>3. ThreadType'
  BY <1>2 DEF LoadKV, ThreadType, ToldIsPulled, doneVars
<1> QED BY <1>1, <1>3

LEMMA ThreadTyped ==
    ASSUME Typed, NEW q \in Queues, Thread(q) PROVE Typed'
<1> USE TypedParts DEF Typed
<1>1. ASSUME PullCache(q) PROVE Typed'
  <2> DEFINE next == [Fresh EXCEPT !.caches = progress[q].caches + 1]
  <2>1. progress[q] \in Progress /\ progress[q].caches + 1 \in 0 .. NumCaches
    BY <1>1, TransferAssumption DEF PullCache, Pulling, ThreadType, Progress
  <2>2. next \in Progress /\ ~next.told
    BY <2>1, FreshType DEF Progress
  <2>3. /\ UNCHANGED <<queues, alive, failed, unsent, wire>>
        /\ progress' = [progress EXCEPT ![q] = next]
        /\ alive[q] /\ queues[q] # <<>>
    BY <1>1 DEF PullCache, Serving
  <2> HIDE DEF next
  <2>4. ThreadType'
    BY <2>2, <2>3 DEF ThreadType, ToldIsPulled
  <2>5. loaded' \in [Requests -> SUBSET Halves]
    <3>1. Current(q) \in PullTask
      BY <2>3, TaskType, EmptySeq, LenProperties DEF ThreadType, Current
    <3> QED BY <1>1, <3>1 DEF PullCache, OtherType, PullTask
  <2> QED BY <1>1, <2>4, <2>5 DEF PullCache, threadElse, metaVars, setting, prefillVars, schedVars, OtherType
<1>2. ASSUME RetryPull(q) PROVE Typed'
  <2> DEFINE next == [progress[q] EXCEPT !.tries = progress[q].tries + 1]
  <2>1. progress[q] \in Progress /\ progress[q].tries + 1 \in 0 .. RetryTimes - 1
    BY <1>2, TransferAssumption DEF RetryPull, ThreadType, Progress
  <2>2. next \in Progress /\ next.told = progress[q].told /\ next.caches = progress[q].caches
    BY <2>1 DEF Progress
  <2>3. /\ UNCHANGED <<queues, alive, failed, unsent, wire>>
        /\ progress' = [progress EXCEPT ![q] = next]
        /\ alive[q] /\ queues[q] # <<>>
    BY <1>2 DEF RetryPull, Serving
  <2> HIDE DEF next
  <2>4. ThreadType'
    BY <2>2, <2>3 DEF ThreadType, ToldIsPulled
  <2> QED BY <1>2, <2>4 DEF RetryPull, threadElse, metaVars, setting, prefillVars, schedVars, OtherType
<1>3. ASSUME queues[q] # <<>>, NextTask(q), alive' = alive \/ alive' = [alive EXCEPT ![q] = FALSE],
             wire' \subseteq PullTask, Cardinality(failed' \cup unsent') <= MaxFailures
      PROVE  ThreadType'
  <2>1. KVType
    OBVIOUS
  <2>2. queues' \in [Queues -> Seq(PullTask)]
    BY <1>3, <2>1, NextTaskShifts DEF ThreadType
  <2>3. progress' = [progress EXCEPT ![q] = Fresh]
    BY <1>3 DEF NextTask
  <2>4. \A p \in Queues \ {q} : queues'[p] = queues[p] /\ alive'[p] = alive[p]
    BY <1>3, <2>1, NextTaskShifts DEF ThreadType
  <2> QED BY <1>3, <2>2, <2>3, <2>4, FreshType DEF ThreadType, ToldIsPulled
<1>4. ASSUME queues[q] # <<>> PROVE Current(q) \in PullTask
  BY <1>4, TaskType, EmptySeq, LenProperties DEF ThreadType, Current
<1>5. ASSUME PullFails(q) PROVE Typed'
  <2>1. wire' \subseteq PullTask
    BY <1>4, <1>5 DEF PullFails, Serving, SendPulled, ThreadType
  <2>2. Cardinality(failed' \cup unsent') <= MaxFailures
    <3>1. failed' = failed \cup {Current(q).request}
      BY <1>5 DEF PullFails
    <3>2. CASE unsent' = unsent
      <4>1. failed' \cup unsent' = failed \cup unsent \cup {Current(q).request}
        BY <3>1, <3>2
      <4> QED BY <1>5, <4>1 DEF PullFails
    <3>3. CASE /\ unsent' = unsent \cup {Current(q).request}
               /\ Cardinality(failed' \cup unsent \cup {Current(q).request}) <= MaxFailures
      <4>1. failed' \cup unsent' = failed' \cup unsent \cup {Current(q).request}
        BY <3>3
      <4> QED BY <3>3, <4>1
    <3> QED BY <1>5, <3>2, <3>3 DEF PullFails, SendPulled
  <2>3. ThreadType'
    BY <1>3, <1>5, <2>1, <2>2 DEF PullFails, Serving
  <2> QED BY <1>5, <2>3 DEF PullFails, threadElse, metaVars, setting, prefillVars, schedVars, OtherType
<1>6. ASSUME MarkReceived(q) PROVE Typed'
  <2>1. ThreadType'
    BY <1>3, <1>6 DEF MarkReceived, Serving, ThreadType
  <2> QED BY <1>6, <2>1 DEF MarkReceived, threadElse, metaVars, setting, prefillVars, schedVars, OtherType
<1>7. ASSUME ConfirmPull(q) PROVE Typed'
  <2> DEFINE next == [progress[q] EXCEPT !.told = TRUE]
  <2>1. progress[q] \in Progress
    BY DEF ThreadType
  <2>2. next \in Progress /\ next.caches = progress[q].caches
    BY <2>1 DEF Progress
  <2>3. progress[q].caches = NumCaches
    BY <1>7, <2>1, TransferAssumption DEF ConfirmPull, Serving, Pulling, Progress
  <2>4. /\ UNCHANGED <<queues, alive, failed>>
        /\ progress' = [progress EXCEPT ![q] = next]
        /\ alive[q] /\ queues[q] # <<>>
    BY <1>7 DEF ConfirmPull, Serving
  <2>5. wire' \subseteq PullTask
    BY <1>4, <1>7 DEF ConfirmPull, Serving, SendPulled, ThreadType
  <2>6. Cardinality(failed' \cup unsent') <= MaxFailures
    <3>1. CASE unsent' = unsent
      BY <2>4, <3>1 DEF ThreadType
    <3>2. CASE /\ unsent' = unsent \cup {Current(q).request}
               /\ Cardinality(failed' \cup unsent \cup {Current(q).request}) <= MaxFailures
      <4>1. failed' \cup unsent' = failed' \cup unsent \cup {Current(q).request}
        BY <3>2
      <4> QED BY <3>2, <4>1
    <3> QED BY <1>7, <3>1, <3>2 DEF ConfirmPull, SendPulled
  <2> HIDE DEF next
  <2>7. ThreadType'
    BY <2>2, <2>3, <2>4, <2>5, <2>6 DEF ThreadType, ToldIsPulled
  <2> QED BY <1>7, <2>7 DEF ConfirmPull, threadElse, metaVars, setting, prefillVars, schedVars, OtherType
<1> QED BY <1>1, <1>2, <1>5, <1>6, <1>7 DEF Thread

LEMMA TypedStep == ASSUME Typed, [Next]_vars PROVE Typed'
<1>1. CASE UNCHANGED vars
  BY <1>1 DEF vars, setting, prefillVars, schedVars, workerVars, metaVars, doneVars,
              Typed, ThreadType, ToldIsPulled, OtherType
<1>2. CASE Next
  BY <1>2, PrefillTyped, EngineTyped, LoadKVTyped, ThreadTyped DEF Next, Engine
<1> QED BY <1>1, <1>2

(* TypeOK: in particular a thread starts each task afresh, whatever the    *)
(* last one came to (start_load_kv 470-546, _read_blocks 601-615).         *)
THEOREM KVTypes == Spec => []TypeOK
BY TypedInit, TypedStep, TypedParts, PTL DEF Spec

-----------------------------------------------------------------------------
(* The queues: what start_load_kv adds and what the end of a task takes.   *)

LEMMA InQueueOutstanding ==
    ASSUME NEW r, InQueue(r)
    PROVE  (\E t \in Outstanding : t.request = r) \/ Stranded(r)
<1>1. PICK q \in Queues : \E i \in DOMAIN queues[q] : queues[q][i].request = r
  BY DEF InQueue
<1> QED BY <1>1 DEF Outstanding, Stranded

LEMMA LoadKVQueues ==
    ASSUME Typed, NEW r \in Requests, LoadKV(r)
    PROVE  /\ InQueue(r)' \/ (r \in skipped' /\ status[r] # "remote")
           /\ \A s : InQueue(s) => InQueue(s)'
           /\ \A s : InQueue(s)' => InQueue(s) \/ s = r
           /\ \A q \in Queues : queues[q] # <<>> =>
                  queues'[q] # <<>> /\ queues'[q][1] = queues[q][1]
<1>1. ASSUME NEW q \in Queues, NEW t \in PullTask,
             t.request = r, queues'[q] = Append(queues[q], t)
      PROVE  /\ InQueue(r)'
             /\ DOMAIN queues[q] \subseteq DOMAIN queues'[q]
             /\ \A i \in DOMAIN queues[q] : queues'[q][i] = queues[q][i]
             /\ \A i \in DOMAIN queues'[q] \ DOMAIN queues[q] : queues'[q][i].request = r
             /\ queues[q] # <<>> => queues'[q] # <<>> /\ queues'[q][1] = queues[q][1]
  <2>1. queues[q] \in Seq(PullTask)
    BY DEF Typed, ThreadType
  <2>2. /\ DOMAIN queues[q] = 1 .. Len(queues[q]) /\ Len(queues[q]) \in Nat
        /\ DOMAIN queues'[q] = 1 .. Len(queues[q]) + 1
        /\ \A i \in 1 .. Len(queues[q]) : queues'[q][i] = queues[q][i]
        /\ queues'[q][Len(queues[q]) + 1] = t
    BY <1>1, <2>1, AppendProperties, LenProperties
  <2>3. queues[q] # <<>> => 1 \in DOMAIN queues[q]
    BY <2>1, <2>2, EmptySeq
  <2>4. \A i \in DOMAIN queues'[q] \ DOMAIN queues[q] : queues'[q][i] = t
    BY <2>2
  <2>5. InQueue(r)'
    BY <1>1, <2>2 DEF InQueue
  <2>6. queues'[q] # <<>>
    BY <1>1, <2>1, AppendProperties
  <2> QED BY <1>1, <2>2, <2>3, <2>4, <2>5, <2>6
<1>2. KVType
  BY TypedParts
<1>3. \A q \in Queues :
        \/ queues'[q] = queues[q]
        \/ \E t \in PullTask : t.request = r /\ queues'[q] = Append(queues[q], t)
  BY <1>2, LoadKVAppends
<1>4. InQueue(r)' \/ (r \in skipped' /\ status[r] # "remote")
  BY <1>1, <1>2, LoadKVAppends
<1>5. \A q \in Queues :
        /\ DOMAIN queues[q] \subseteq DOMAIN queues'[q]
        /\ \A i \in DOMAIN queues[q] : queues'[q][i] = queues[q][i]
        /\ \A i \in DOMAIN queues'[q] \ DOMAIN queues[q] : queues'[q][i].request = r
        /\ queues[q] # <<>> => queues'[q] # <<>> /\ queues'[q][1] = queues[q][1]
  BY <1>1, <1>3
<1>6. \A s : InQueue(s) => InQueue(s)'
  BY <1>5 DEF InQueue
<1>7. \A s : InQueue(s)' => InQueue(s) \/ s = r
  BY <1>5 DEF InQueue
<1> QED BY <1>4, <1>5, <1>6, <1>7

LEMMA NextTaskQueues ==
    ASSUME Typed, NEW q \in Queues, queues[q] # <<>>, NextTask(q)
    PROVE  /\ InQueue(Current(q).request)
           /\ \A s : InQueue(s)' => InQueue(s)
           /\ \A s : InQueue(s) => InQueue(s)' \/ s = Current(q).request
           /\ progress'[q] = Fresh
           /\ \A p \in Queues \ {q} : queues'[p] = queues[p] /\ progress'[p] = progress[p]
           /\ Current(q) = queues[q][1] /\ Current(q) \in PullTask
<1>1. KVType
  BY TypedParts
<1>2. /\ progress'[q] = Fresh
      /\ \A p \in Queues \ {q} : queues'[p] = queues[p] /\ progress'[p] = progress[p]
      /\ queues'[q] = Tail(queues[q])
  BY <1>1 DEF NextTask, KVType
<1>3. /\ Current(q) = queues[q][1] /\ Current(q) \in PullTask /\ 1 \in DOMAIN queues[q]
      /\ \A i \in DOMAIN queues'[q] : i + 1 \in DOMAIN queues[q]
                                       /\ queues'[q][i] = queues[q][i + 1]
  BY <1>1, NextTaskShifts
<1>4. \A i \in DOMAIN queues[q] \ {1} : i - 1 \in DOMAIN queues'[q]
                                         /\ queues'[q][i - 1] = queues[q][i]
  <2>1. queues[q] \in Seq(PullTask)
    BY <1>1 DEF KVType
  <2>2. /\ Tail(queues[q]) \in Seq(PullTask)
        /\ Len(Tail(queues[q])) = Len(queues[q]) - 1
        /\ \A i \in 1 .. Len(Tail(queues[q])) : Tail(queues[q])[i] = queues[q][i + 1]
        /\ Len(queues[q]) \in Nat
    BY <2>1, HeadTailProperties, LenProperties
  <2>3. DOMAIN queues[q] = 1 .. Len(queues[q]) /\ DOMAIN queues'[q] = 1 .. Len(queues[q]) - 1
    BY <1>2, <2>1, <2>2
  <2> QED BY <1>2, <2>2, <2>3
<1>5. InQueue(Current(q).request)
  BY <1>3 DEF InQueue
<1>6. \A s : InQueue(s)' => InQueue(s)
  <2> SUFFICES ASSUME NEW s, NEW p \in Queues, NEW i \in DOMAIN queues'[p],
                      queues'[p][i].request = s
               PROVE  InQueue(s)
    BY DEF InQueue
  <2>1. CASE p = q
    BY <1>3, <2>1 DEF InQueue
  <2>2. CASE p # q
    BY <1>2, <2>2 DEF InQueue
  <2> QED BY <2>1, <2>2
<1>7. \A s : InQueue(s) => InQueue(s)' \/ s = Current(q).request
  <2> SUFFICES ASSUME NEW s, NEW p \in Queues, NEW i \in DOMAIN queues[p],
                      queues[p][i].request = s, s # Current(q).request
               PROVE  InQueue(s)'
    BY DEF InQueue
  <2>1. CASE p = q
    <3>1. i # 1
      BY <1>3, <2>1
    <3>2. i - 1 \in DOMAIN queues'[q] /\ queues'[q][i - 1].request = s
      BY <1>4, <2>1, <3>1
    <3> QED BY <3>2 DEF InQueue
  <2>2. CASE p # q
    BY <1>2, <2>2 DEF InQueue
  <2> QED BY <2>1, <2>2
<1> QED BY <1>2, <1>3, <1>5, <1>6, <1>7

-----------------------------------------------------------------------------
(* The hand-overs.  A request is asked for at one place at a time; a       *)
(* confirmed task was sent, lost, or its blocks are not held.              *)

Wired(r) == \E m \in wire : m.request = r

Asked ==
    /\ needRecv \subseteq params
    /\ params \cap metadata = {}
    /\ \A r \in Requests : prefill[r] = "computing" => r \notin params \cup metadata
    /\ \A r \in Requests :
        r \in params \cup metadata \/ prefill[r] = "computing" => ~InQueue(r)

Sent(r) == prefill[r] = "held" => r \in received \cup unsent \/ Wired(r)

ToldIsSent == \A q \in Queues : progress[q].told => Sent(queues[q][1].request)

Pursued ==
    \A r \in Requests : status[r] = "remote" =>
        r \in needRecv \cup metadata \cup recving \cup finishedRecving \cup failed \/ InQueue(r)

Releasing ==
    \A r \in Requests : prefill[r] = "held" /\ r \notin params =>
        \/ r \in metadata \cup received \cup skipped \cup unsent
        \/ InQueue(r) \/ Wired(r)
        \/ config = "executor" /\ r \in failed

HandOver == Asked /\ ToldIsSent /\ Pursued /\ Releasing
HandInv  == Typed /\ HandOver

LEMMA HandInit == Init => HandInv
<1> SUFFICES ASSUME Init PROVE HandInv
  OBVIOUS
<1>1. Asked
  BY DEF Init, Asked, InQueue
<1>2. ToldIsSent
  BY DEF Init, ToldIsSent, Fresh
<1>3. Pursued /\ Releasing
  BY DEF Init, Pursued, Releasing
<1> QED BY <1>1, <1>2, <1>3, TypedInit DEF HandInv, HandOver

LEMMA PrefillFinishedHands ==
    ASSUME HandInv, NEW r \in Requests, PrefillFinished(r) PROVE HandOver'
<1> USE DEF HandInv, HandOver
<1>1. /\ UNCHANGED <<config, received, status, needRecv, metadata, queues, progress,
                     skipped, failed, unsent, recving,
                     finishedRecving, wire>>
      /\ \A s \in Requests \ {r} : prefill'[s] = prefill[s]
      /\ prefill[r] = "computing" /\ prefill'[r] \in {"held", "freed"}
      /\ params' = params \/ params' = params \cup {r}
      /\ prefill'[r] = "held" => r \in params'
  BY DEF PrefillFinished, setting, workerVars, metaVars, doneVars, Typed, OtherType
<1>2. r \notin params \cup metadata /\ ~InQueue(r)
  BY <1>1 DEF Asked
<1>3. \A s : InQueue(s)' = InQueue(s) /\ Wired(s)' = Wired(s)
  BY <1>1 DEF InQueue, Wired
<1>4. Asked'
  BY <1>1, <1>2, <1>3 DEF Asked
<1>5. ToldIsSent'
  <2> SUFFICES ASSUME NEW q \in Queues, progress[q].told PROVE Sent(queues[q][1].request)'
    BY <1>1 DEF ToldIsSent
  <2>1. 1 \in DOMAIN queues[q]
    BY TypedParts, EmptySeq, LenProperties DEF Typed, ThreadType, ToldIsPulled
  <2>2. queues[q][1].request \in Requests /\ InQueue(queues[q][1].request)
    BY <2>1, TypedParts, TaskType DEF InQueue
  <2>3. queues[q][1].request # r
    BY <1>2, <2>2
  <2> QED BY <1>1, <1>3, <2>2, <2>3 DEF ToldIsSent, Sent
<1>6. Pursued'
  BY <1>1, <1>3 DEF Pursued
<1>7. Releasing'
  BY <1>1, <1>3 DEF Releasing
<1> QED BY <1>4, <1>5, <1>6, <1>7

(* The confirmed blocks are freed.                                         *)
LEMMA PrefillStepHands ==
    ASSUME HandInv, NEW c \in Clusters, PrefillStep(c) PROVE HandOver'
<1> USE DEF HandInv, HandOver
<1>1. /\ UNCHANGED <<config, params, status, needRecv, metadata, queues, progress,
                     skipped, failed, unsent, recving,
                     finishedRecving, wire>>
      /\ \A s \in Requests : prefill'[s] = prefill[s] \/ prefill'[s] = "freed"
      /\ \A s \in Requests : s \in received => s \in received' \/ prefill'[s] # "held"
  BY DEF PrefillStep, setting, schedVars, workerVars, metaVars, doneVars, Typed, OtherType
<1>2. \A s : InQueue(s)' = InQueue(s) /\ Wired(s)' = Wired(s)
  BY <1>1 DEF InQueue, Wired
<1>3. Asked'
  BY <1>1, <1>2 DEF Asked
<1>4. ToldIsSent'
  <2> SUFFICES ASSUME NEW q \in Queues, progress[q].told PROVE Sent(queues[q][1].request)'
    BY <1>1 DEF ToldIsSent
  <2>1. 1 \in DOMAIN queues[q]
    BY EmptySeq, LenProperties DEF Typed, ThreadType, ToldIsPulled
  <2>2. queues[q][1].request \in Requests
    BY <2>1, TypedParts, TaskType
  <2> QED BY <1>1, <1>2, <2>2 DEF ToldIsSent, Sent
<1>5. Pursued'
  BY <1>1, <1>2 DEF Pursued
<1>6. Releasing'
  BY <1>1, <1>2 DEF Releasing
<1> QED BY <1>3, <1>4, <1>5, <1>6

LEMMA ReceivePulledHands ==
    ASSUME HandInv, NEW m \in wire, ReceivePulled(m) PROVE HandOver'
<1> USE DEF HandInv, HandOver
<1>1. /\ UNCHANGED <<config, prefill, params, status, needRecv, metadata, queues, progress,
                     skipped, failed, unsent, recving,
                     finishedRecving>>
      /\ wire' = wire \ {m} /\ received' = received \cup {m.request}
  BY DEF ReceivePulled, setting, schedVars, workerVars, metaVars, doneVars
<1>2. \A s : /\ InQueue(s)' = InQueue(s)
             /\ s \in received \/ Wired(s) => s \in received' \/ Wired(s)'
  BY <1>1 DEF InQueue, Wired
<1>3. Asked'
  BY <1>1, <1>2 DEF Asked
<1>4. ToldIsSent'
  BY <1>1, <1>2 DEF ToldIsSent, Sent
<1>5. Pursued'
  BY <1>1, <1>2 DEF Pursued
<1>6. Releasing'
  BY <1>1, <1>2 DEF Releasing
<1> QED BY <1>3, <1>4, <1>5, <1>6

(* A request that waits for remote KV after schedule() waited for it       *)
(* before, or is registered now; its blocks are as they were.              *)
LEMMA ScheduleMoves ==
    ASSUME OtherType, Schedule, NEW r \in Requests, status'[r] = "remote"
    PROVE  /\ \/ status[r] = "waiting" /\ Matched(r) /\ r \in needRecv'
              \/ status[r] = "remote" /\ (r \in finishedRecving => r \in finishedRecving')
           /\ loaded'[r] = loaded[r]
<1>1. PICK admitted \in SUBSET {x \in Requests : Eligible(x)},
           refused \in {{}} \cup {{x} : x \in {y \in Requests : Eligible(y)}},
           preempted \in SUBSET {x \in Requests : status[x] = "running"} :
        LET remote == {x \in admitted : status[x] = "waiting" /\ Matched(x)}
            local  == {x \in admitted : status[x] = "waiting" /\ ~Matched(x)}
        IN  /\ admitted \cap refused = {}
            /\ status' = [x \in Requests |->
                             CASE x \in remote               -> "remote"
                               [] x \in admitted \ remote    -> "running"
                               [] x \in refused \cup preempted -> "waiting"
                               [] OTHER                      -> status[x]]
            /\ needRecv' = needRecv \cup (admitted \cap params)
            /\ finishedRecving' = finishedRecving
                                    \ {x \in admitted \cup refused : status[x] = "remote"}
            /\ loaded' = [x \in Requests |->
                             CASE x \in local     -> Parts(x)
                               [] x \in preempted -> {}
                               [] OTHER           -> loaded[x]]
  BY DEF Schedule
<1> DEFINE remote == {x \in admitted : status[x] = "waiting" /\ Matched(x)}
<1>2. status'[r] = CASE r \in remote               -> "remote"
                     [] r \in admitted \ remote    -> "running"
                     [] r \in refused \cup preempted -> "waiting"
                     [] OTHER                      -> status[r]
  BY <1>1
<1>3. r \in remote \/ (r \notin admitted \cup refused \cup preempted /\ status[r] = "remote")
  BY <1>2
<1>4. CASE r \in remote
  BY <1>1, <1>4 DEF Matched
<1>5. CASE r \notin admitted \cup refused \cup preempted /\ status[r] = "remote"
  BY <1>1, <1>5
<1> QED BY <1>3, <1>4, <1>5

(* The client and the engine but for start_load_kv: whoever waits is       *)
(* handed from one list to the next.                                       *)
LEMMA EngineHands ==
    ASSUME HandInv, \/ Client \/ Schedule \/ BuildMetadata \/ UpdateFromOutput
                    \/ \E r \in Requests : LoadRaises(r)
    PROVE  HandOver'
<1> USE DEF HandInv, HandOver
<1>1. /\ UNCHANGED <<config, prefill, received, queues, progress, skipped, failed, unsent, wire>>
      /\ recving \cup finishedRecving = recving' \cup finishedRecving' \/ Schedule
  BY DEF Client, AddRequest, AbortRequest, Schedule, BuildMetadata, UpdateFromOutput, LoadRaises,
         setting, prefillVars, workerVars, metaVars, doneVars
<1>2. /\ needRecv' \subseteq params'
      /\ params' \cup metadata' = params \cup metadata
      /\ params' \cap metadata' = {}
      /\ needRecv \cup metadata \subseteq needRecv' \cup metadata'
      /\ params \ params' \subseteq metadata'
      /\ metadata \subseteq metadata'
  <2>1. CASE Client \/ Schedule \/ UpdateFromOutput
    BY <2>1 DEF Client, AddRequest, AbortRequest, Schedule, UpdateFromOutput, Asked, metaVars
  <2>3. CASE \E r \in Requests : LoadRaises(r)
    BY <2>3 DEF LoadRaises, schedVars, Asked
  <2>2. CASE BuildMetadata
    <3>1. metadata = {}
      BY <2>2 DEF BuildMetadata, Typed, OtherType
    <3> QED BY <2>2, <3>1 DEF BuildMetadata, Asked
  <2> QED BY <2>1, <2>2, <2>3
<1>3. \A s : InQueue(s)' = InQueue(s) /\ Wired(s)' = Wired(s)
  BY <1>1 DEF InQueue, Wired
<1>4. Asked'
  BY <1>1, <1>2, <1>3 DEF Asked
<1>5. ToldIsSent'
  BY <1>1, <1>3 DEF ToldIsSent, Sent
<1>6. Releasing'
  BY <1>1, <1>2, <1>3 DEF Releasing
<1>7. Pursued'
  <2>1. CASE Schedule
    <3> SUFFICES ASSUME NEW r \in Requests, status'[r] = "remote"
                 PROVE  \/ r \in needRecv' \cup metadata' \cup recving' \cup finishedRecving'
                        \/ r \in failed \/ InQueue(r)
      BY <1>1, <1>3 DEF Pursued
    <3>1. CASE status[r] = "waiting"
      BY <2>1, <3>1, ScheduleMoves DEF Typed
    <3>2. CASE status[r] = "remote"
      <4>1. r \in finishedRecving => r \in finishedRecving'
        BY <2>1, <3>2, ScheduleMoves DEF Typed
      <4>2. recving' = recving
        BY <2>1 DEF Schedule
      <4> QED BY <1>2, <3>2, <4>1, <4>2 DEF Pursued
    <3> QED BY <2>1, <3>1, <3>2, ScheduleMoves DEF Typed
  <2>2. CASE ~Schedule
    <3>1. \A r \in Requests : status'[r] = "remote" => status[r] = "remote"
      BY <2>2 DEF Client, AddRequest, AbortRequest, BuildMetadata, UpdateFromOutput, Finished,
                  LoadRaises, schedVars, Typed, OtherType
    <3> QED BY <1>1, <1>2, <1>3, <2>2, <3>1 DEF Pursued
  <2> QED BY <2>1, <2>2
<1> QED BY <1>4, <1>5, <1>6, <1>7

LEMMA LoadKVHands ==
    ASSUME HandInv, NEW r \in Requests, LoadKV(r) PROVE HandOver'
<1> USE DEF HandInv, HandOver
<1>1. /\ UNCHANGED <<config, prefill, received, params, status, needRecv, progress,
                     failed, unsent, recving, finishedRecving, wire>>
      /\ r \in metadata /\ metadata' = metadata \ {r} /\ skipped \subseteq skipped'
  BY DEF LoadKV, setting, prefillVars, schedVars, doneVars
<1>2. /\ InQueue(r)' \/ (r \in skipped' /\ status[r] # "remote")
      /\ \A s : InQueue(s) => InQueue(s)'
      /\ \A s : InQueue(s)' => InQueue(s) \/ s = r
      /\ \A q \in Queues : queues[q] # <<>> =>
             queues'[q] # <<>> /\ queues'[q][1] = queues[q][1]
  BY LoadKVQueues
<1>3. \A s : Wired(s)' = Wired(s)
  BY <1>1 DEF Wired
<1>4. Asked'
  BY <1>1, <1>2 DEF Asked
<1>5. ToldIsSent'
  BY <1>1, <1>2, <1>3 DEF ToldIsSent, Sent, Typed, ThreadType, ToldIsPulled
<1>6. Pursued'
  BY <1>1, <1>2 DEF Pursued
<1>7. Releasing'
  BY <1>1, <1>2, <1>3 DEF Releasing
<1> QED BY <1>4, <1>5, <1>6, <1>7

LEMMA PullHands ==
    ASSUME HandInv, NEW q \in Queues, PullCache(q) \/ RetryPull(q) PROVE HandOver'
<1> USE DEF HandInv, HandOver
<1>1. /\ UNCHANGED <<config, prefill, received, params, status, needRecv, metadata, queues,
                     skipped, failed, unsent, recving,
                     finishedRecving, wire>>
  BY DEF PullCache, RetryPull, threadElse, metaVars, setting, prefillVars, schedVars
<1>2. \A s : InQueue(s)' = InQueue(s) /\ Wired(s)' = Wired(s)
  BY <1>1 DEF InQueue, Wired
<1>3. \A p \in Queues : progress'[p].told => progress[p].told
  <2>1. progress[q] \in Progress
    BY DEF Typed, ThreadType
  <2>2. CASE PullCache(q)
    <3> DEFINE next == [Fresh EXCEPT !.caches = progress[q].caches + 1]
    <3>1. ~next.told
      BY FreshType DEF Progress
    <3>2. progress' = [progress EXCEPT ![q] = next]
      BY <2>2 DEF PullCache
    <3> HIDE DEF next
    <3> QED BY <3>1, <3>2 DEF Typed, ThreadType
  <2>3. CASE RetryPull(q)
    <3> DEFINE next == [progress[q] EXCEPT !.tries = progress[q].tries + 1]
    <3>1. next.told = progress[q].told
      BY <2>1 DEF Progress
    <3>2. progress' = [progress EXCEPT ![q] = next]
      BY <2>3 DEF RetryPull
    <3> HIDE DEF next
    <3> QED BY <3>1, <3>2 DEF Typed, ThreadType
  <2> QED BY <2>2, <2>3
<1>4. Asked'
  BY <1>1, <1>2 DEF Asked
<1>5. ToldIsSent'
  BY <1>1, <1>2, <1>3 DEF ToldIsSent, Sent
<1>6. Pursued'
  BY <1>1, <1>2 DEF Pursued
<1>7. Releasing'
  BY <1>1, <1>2 DEF Releasing
<1> QED BY <1>4, <1>5, <1>6, <1>7

LEMMA ConfirmHands ==
    ASSUME HandInv, NEW q \in Queues, ConfirmPull(q) PROVE HandOver'
<1> USE DEF HandInv, HandOver
<1>1. /\ UNCHANGED <<config, prefill, received, params, status, needRecv, metadata, queues,
                     skipped, failed, recving, finishedRecving>>
      /\ progress' = [progress EXCEPT ![q].told = TRUE]
      /\ wire \subseteq wire' /\ unsent \subseteq unsent'
      /\ Current(q) \in wire' \/ Current(q).request \in unsent'
      /\ queues[q] # <<>>
  BY DEF ConfirmPull, Serving, SendPulled, threadElse, metaVars, setting, prefillVars, schedVars
<1>2. \A s : InQueue(s)' = InQueue(s) /\ (Wired(s) => Wired(s)')
  BY <1>1 DEF InQueue, Wired
<1>3. Asked'
  BY <1>1, <1>2 DEF Asked
<1>4. Sent(queues[q][1].request)'
  BY <1>1 DEF Sent, Wired, Current
<1>5. ToldIsSent'
  <2>1. \A p \in Queues \ {q} : progress'[p] = progress[p]
    BY <1>1 DEF Typed, ThreadType
  <2> QED BY <1>1, <1>2, <1>4, <2>1 DEF ToldIsSent, Sent
<1>6. Pursued'
  BY <1>1, <1>2 DEF Pursued
<1>7. Releasing'
  BY <1>1, <1>2 DEF Releasing
<1> QED BY <1>3, <1>5, <1>6, <1>7

(* The end of a task: what it was for has been handed on.                  *)
LEMMA TaskOverHands ==
    ASSUME HandInv, NEW q \in Queues, PullFails(q) \/ MarkReceived(q) PROVE HandOver'
<1> USE DEF HandInv, HandOver
<1> PICK gone : gone = Current(q).request
  OBVIOUS
<1>1. /\ UNCHANGED <<config, prefill, received, params, status, needRecv, metadata, skipped,
                     finishedRecving>>
      /\ wire \subseteq wire' /\ unsent \subseteq unsent'
      /\ failed \subseteq failed' /\ recving \subseteq recving'
      /\ gone \in failed' \cup recving'
      /\ queues[q] # <<>> /\ NextTask(q)
  BY DEF PullFails, MarkReceived, Serving, SendPulled, threadElse, metaVars, setting, prefillVars, schedVars
<1>2. /\ InQueue(gone)
      /\ \A s : InQueue(s)' => InQueue(s)
      /\ \A s : InQueue(s) => InQueue(s)' \/ s = gone
      /\ progress'[q] = Fresh
      /\ \A p \in Queues \ {q} : queues'[p] = queues[p] /\ progress'[p] = progress[p]
      /\ gone = queues[q][1].request
  BY <1>1, NextTaskQueues
<1>3. \A s : Wired(s) => Wired(s)'
  BY <1>1 DEF Wired
<1>4. Asked'
  BY <1>1, <1>2 DEF Asked
<1>5. ToldIsSent'
  BY <1>1, <1>2, <1>3, FreshType DEF ToldIsSent, Sent
<1>6. Pursued'
  BY <1>1, <1>2 DEF Pursued
<1>7. prefill[gone] = "held" =>
        gone \in received' \cup unsent' \/ Wired(gone)' \/ (config = "executor" /\ gone \in failed')
  <2>1. CASE MarkReceived(q)
    BY <1>1, <1>2, <1>3, <2>1 DEF MarkReceived, ToldIsSent, Sent
  <2>2. CASE PullFails(q)
    BY <2>2 DEF PullFails, SendPulled, Wired
  <2> QED BY <2>1, <2>2
<1>8. Releasing'
  BY <1>1, <1>2, <1>3, <1>7 DEF Releasing
<1> QED BY <1>4, <1>5, <1>6, <1>8

LEMMA HandStep == ASSUME HandInv, [Next]_vars PROVE HandInv'
<1>1. Typed'
  BY TypedStep DEF HandInv
<1>2. ASSUME UNCHANGED vars PROVE HandOver'
  <2>1. UNCHANGED <<config, prefill, received, params, status, needRecv, metadata, queues,
                    progress, skipped, failed, unsent, recving,
                     finishedRecving, wire>>
    BY <1>2 DEF vars, setting, prefillVars, schedVars, workerVars, metaVars, doneVars
  <2>2. \A s : InQueue(s)' = InQueue(s) /\ Wired(s)' = Wired(s)
    BY <2>1 DEF InQueue, Wired
  <2>3. Asked' /\ ToldIsSent'
    BY <2>1, <2>2 DEF HandInv, HandOver, Asked, ToldIsSent, Sent
  <2>4. Pursued' /\ Releasing'
    BY <2>1, <2>2 DEF HandInv, HandOver, Pursued, Releasing
  <2> QED BY <2>3, <2>4 DEF HandOver
<1>3. ASSUME Prefill \/ \E m \in wire : ReceivePulled(m) PROVE HandOver'
  BY <1>3, PrefillFinishedHands, PrefillStepHands, ReceivePulledHands DEF Prefill
<1>4. ASSUME Client \/ Engine PROVE HandOver'
  BY <1>4, EngineHands, LoadKVHands DEF Engine
<1>5. ASSUME NEW q \in Queues, Thread(q) PROVE HandOver'
  BY <1>5, PullHands, ConfirmHands, TaskOverHands DEF Thread
<1> QED BY <1>1, <1>2, <1>3, <1>4, <1>5 DEF HandInv, Next

(* NobodyWaitsInVain: between two of its lists (_reqs_need_recv, the       *)
(* metadata, the queues, _recving_transfers, finished_recving_kv_req_ids)  *)
(* the decode side never drops a request that waits.  What it waits for    *)
(* fails to come only where its pull raised, its task is behind a thread   *)
(* that ended, or the engine is gone (schedule, start_load_kv and worker   *)
(* 492-599, get_finished 634-650).                                         *)
THEOREM WaitersArePursued == Spec => []NobodyWaitsInVain
<1>1. HandInv => NobodyWaitsInVain
  BY InQueueOutstanding DEF HandInv, HandOver, Pursued, NobodyWaitsInVain
<1> QED BY <1>1, HandInit, HandStep, PTL DEF Spec

(* ReleaseIsComing: blocks kept for a pull that was asked for are on their *)
(* way to be freed, or kept for ever in one of the ways its statement      *)
(* names: no local block to pull into, a thread that ended before the      *)
(* task, a lost confirmation, an executor's pull that raised, an engine    *)
(* that is gone (get_finished 267-283, start_load_kv and worker 492-599,   *)
(* _read_blocks 601-632).                                                  *)
THEOREM ReleasesAreComing == Spec => []ReleaseIsComing
<1>1. HandInv => ReleaseIsComing
  <2>1. \A r : InQueue(r) => (\E t \in Outstanding \cup wire : t.request = r) \/ Stranded(r)
    BY InQueueOutstanding
  <2>2. \A r : Wired(r) => \E t \in Outstanding \cup wire : t.request = r
    BY DEF Wired
  <2> QED BY <2>1, <2>2 DEF HandInv, HandOver, Releasing, ReleaseIsComing
<1> QED BY <1>1, HandInit, HandStep, PTL DEF Spec

-----------------------------------------------------------------------------
(* The KV of a request that waits for it, without multi_rank_pull_kv.      *)

Pulled(q) == queues[q] # <<>> /\ progress[q].caches = NumCaches

Loads ==
    \A r \in Requests : status[r] = "remote" =>
        /\ r \in recving \cup finishedRecving => loaded[r] = Parts(r)
        /\ \A q \in Queues : Pulled(q) /\ queues[q][1].request = r => loaded[r] = Parts(r)

WakeInv == KVInv /\ Typed /\ Loads

LEMMA WakeInit == Init => WakeInv
BY KVInit, TypedInit DEF WakeInv, Init, Loads

(* What leaves the threads alone, and lets requests stop to wait.          *)
LEMMA LoadsKept ==
    ASSUME WakeInv, UNCHANGED <<config, queues, progress>>,
           recving' \cup finishedRecving' \subseteq recving \cup finishedRecving,
           \A r \in Requests : status'[r] = "remote" =>
                status[r] = "remote" /\ loaded'[r] = loaded[r]
    PROVE  Loads'
BY DEF WakeInv, Loads, Pulled, Parts, PartsOf

LEMMA EngineLoads ==
    ASSUME WakeInv, \/ Prefill \/ Client \/ BuildMetadata \/ UpdateFromOutput
                    \/ \E r \in Requests : LoadRaises(r)
                    \/ \E m \in wire : ReceivePulled(m)
    PROVE  Loads'
<1> USE DEF WakeInv
<1>1. CASE \/ Prefill \/ BuildMetadata \/ \E r \in Requests : LoadRaises(r)
           \/ \E m \in wire : ReceivePulled(m)
  BY <1>1, LoadsKept DEF Prefill, PrefillFinished, PrefillStep, BuildMetadata, ReceivePulled,
        LoadRaises,
        setting, schedVars, workerVars, metaVars, doneVars
<1>2. ASSUME NEW r \in Requests, AddRequest(r) PROVE Loads'
  <2>1. \A s \in Requests : status'[s] = "remote" => status[s] = "remote"
    BY <1>2 DEF AddRequest, Typed, OtherType
  <2> QED BY <1>2, <2>1, LoadsKept DEF AddRequest, setting, workerVars, metaVars, doneVars
<1>3. ASSUME NEW S \in SUBSET Requests, Finished(S), NEW r \in Requests, status'[r] = "remote"
      PROVE  status[r] = "remote" /\ loaded'[r] = loaded[r]
  BY <1>3 DEF Finished
<1>4. ASSUME NEW r \in Requests, AbortRequest(r) PROVE Loads'
  BY <1>3, <1>4, LoadsKept DEF AbortRequest, setting, doneVars
<1>5. CASE UpdateFromOutput
  <2>1. PICK S \in SUBSET {r \in Requests : status[r] = "running"} : Finished(S)
    BY <1>5 DEF UpdateFromOutput
  <2>2. \A r \in Requests : status'[r] = "remote" => status[r] = "remote" /\ loaded'[r] = loaded[r]
    BY <1>3, <2>1
  <2> QED BY <1>5, <2>2, LoadsKept DEF UpdateFromOutput, setting
<1> QED BY <1>1, <1>2, <1>4, <1>5 DEF Client

(* schedule(): nothing was pulled or reported yet for a request that       *)
(* starts to wait.                                                         *)
LEMMA ScheduleLoads == ASSUME WakeInv, Schedule PROVE Loads'
<1> USE DEF WakeInv
<1>1. UNCHANGED <<config, queues, progress, recving>> /\ finishedRecving' \subseteq finishedRecving
  BY DEF Schedule, setting
<1>2. \A r : Parts(r)' = Parts(r)
  BY <1>1 DEF Parts, PartsOf, setting
<1> SUFFICES ASSUME NEW r \in Requests, status'[r] = "remote"
             PROVE  /\ r \in recving \cup finishedRecving => loaded'[r] = Parts(r)
                    /\ \A q \in Queues : Pulled(q) /\ queues[q][1].request = r
                                                => loaded'[r] = Parts(r)
  BY <1>1, <1>2 DEF Loads, Pulled
<1>3. loaded'[r] = loaded[r]
  BY ScheduleMoves DEF Typed
<1>4. CASE status[r] = "remote"
  BY <1>3, <1>4 DEF Loads
<1>5. CASE status[r] # "remote"
  <2>1. r \in params
    BY <1>5, ScheduleMoves DEF Typed, Matched
  <2>2. ~InQueue(r) /\ Quiet(r)
    BY <2>1 DEF KVInv, Tokens, BeforePull
  <2>3. \A q \in Queues : queues[q] # <<>> => queues[q][1].request # r
    <3>1. \A q \in Queues : queues[q] # <<>> => 1 \in DOMAIN queues[q]
      BY EmptySeq, LenProperties DEF Typed, ThreadType
    <3> QED BY <2>2, <3>1 DEF InQueue
  <2> QED BY <2>2, <2>3 DEF Quiet, Done, Pulled
<1> QED BY <1>4, <1>5

LEMMA LoadKVLoads == ASSUME WakeInv, NEW r \in Requests, LoadKV(r) PROVE Loads'
<1> USE DEF WakeInv
<1>1. UNCHANGED <<config, progress, status, loaded, recving, finishedRecving>>
  BY DEF LoadKV, setting, schedVars, doneVars
<1>2. \A q \in Queues : Pulled(q)' => Pulled(q) /\ queues'[q][1] = queues[q][1]
  <2>1. Fresh.caches # NumCaches
    BY TransferAssumption DEF Fresh
  <2>2. \A q \in Queues : queues[q] = <<>> => ~Pulled(q)'
    BY <1>1, <2>1 DEF Typed, ThreadType, Pulled
  <2> QED BY <1>1, <2>2, LoadKVQueues DEF Pulled
<1> QED BY <1>1, <1>2 DEF Loads, Parts, PartsOf

(* The task that was the last of its request leaves it loaded.             *)
LEMMA ThreadLoads ==
    ASSUME OneThread, WakeInv, NEW q \in Queues, Thread(q) PROVE Loads'
<1> USE DEF WakeInv
<1>1. UNCHANGED <<config, status, finishedRecving>>
  BY DEF Thread, PullCache, RetryPull, PullFails, ConfirmPull, MarkReceived, threadElse, metaVars,
         setting, schedVars
<1>2. \A r : Parts(r)' = Parts(r)
  BY <1>1 DEF Parts, PartsOf, setting
<1>3. ASSUME PullCache(q) PROVE Loads'
  <2> DEFINE next == [Fresh EXCEPT !.caches = progress[q].caches + 1]
  <2>1. Current(q) = queues[q][1] /\ Current(q) \in PullTask /\ queues[q] # <<>>
    BY <1>3, TypedParts, TaskType, EmptySeq, LenProperties
    DEF PullCache, Serving, Typed, ThreadType, Current
  <2>2. next.caches = progress[q].caches + 1
    BY FreshType DEF Progress
  <2>3. progress' = [progress EXCEPT ![q] = next] /\ UNCHANGED <<queues, recving>>
    BY <1>3 DEF PullCache
  <2> HIDE DEF next
  <2>4. /\ progress'[q].caches = progress[q].caches + 1
        /\ \A p \in Queues \ {q} : progress'[p] = progress[p]
    BY <2>2, <2>3 DEF Typed, ThreadType
  <2>5. PICK r \in Requests : r = Current(q).request
    BY <2>1 DEF PullTask
  <2>6. Parts(r) = {1} /\ Halves = {1} /\ Current(q).part = 1
    BY <2>1, OnePart DEF OneThread, Halves, PullTask, KVInv
  <2>7. \A s \in Requests \ {r} : loaded'[s] = loaded[s]
    BY <1>3, <2>5 DEF PullCache, Typed, OtherType
  <2>8. loaded[r] = Parts(r) \/ progress'[q].caches = NumCaches => loaded'[r] = Parts(r)
    <3>1. loaded[r] \subseteq {1}
      BY <2>6 DEF Typed, OtherType
    <3>2. CASE progress[q].caches + 1 = NumCaches
      <4>1. loaded'[r] = loaded[r] \cup {1}
        BY <1>3, <2>5, <2>6, <3>2 DEF PullCache, Typed, OtherType
      <4> QED BY <2>6, <3>1, <4>1
    <3>3. CASE progress[q].caches + 1 # NumCaches
      BY <1>3, <2>4, <3>3 DEF PullCache
    <3> QED BY <3>2, <3>3
  <2> SUFFICES ASSUME NEW s \in Requests, status[s] = "remote"
               PROVE  /\ s \in recving \cup finishedRecving => loaded'[s] = Parts(s)
                      /\ \A p \in Queues : Pulled(p)' /\ queues[p][1].request = s
                                                  => loaded'[s] = Parts(s)
    BY <1>1, <1>2, <2>3 DEF Loads
  <2>9. loaded[s] = Parts(s) => loaded'[s] = Parts(s)
    BY <2>7, <2>8
  <2>10. ASSUME NEW p \in Queues, Pulled(p)', queues[p][1].request = s
         PROVE  loaded'[s] = Parts(s)
    <3>1. CASE p = q
      BY <2>1, <2>5, <2>8, <2>10, <3>1 DEF Pulled
    <3>2. CASE p # q
      BY <2>3, <2>4, <2>9, <2>10, <3>2 DEF Pulled, Loads
    <3> QED BY <3>1, <3>2
  <2> QED BY <2>9, <2>10 DEF Loads
<1>4. ASSUME UNCHANGED <<queues, loaded, recving>>,
             \A p \in Queues : progress'[p].caches = progress[p].caches
      PROVE  Loads'
  BY <1>1, <1>2, <1>4 DEF Loads, Pulled
<1>5. ASSUME RetryPull(q) \/ ConfirmPull(q) PROVE Loads'
  <2>1. progress[q] \in Progress
    BY DEF Typed, ThreadType
  <2>2. progress'[q].caches = progress[q].caches /\ \A p \in Queues \ {q} : progress'[p] = progress[p]
    <3>1. CASE RetryPull(q)
      <4> DEFINE next == [progress[q] EXCEPT !.tries = progress[q].tries + 1]
      <4>1. next.caches = progress[q].caches /\ progress' = [progress EXCEPT ![q] = next]
        BY <2>1, <3>1 DEF RetryPull, Progress
      <4> HIDE DEF next
      <4> QED BY <4>1 DEF Typed, ThreadType
    <3>2. CASE ConfirmPull(q)
      <4> DEFINE next == [progress[q] EXCEPT !.told = TRUE]
      <4>1. next.caches = progress[q].caches /\ progress' = [progress EXCEPT ![q] = next]
        BY <2>1, <3>2 DEF ConfirmPull, Progress
      <4> HIDE DEF next
      <4> QED BY <4>1 DEF Typed, ThreadType
    <3> QED BY <1>5, <3>1, <3>2
  <2> QED BY <1>4, <1>5, <2>2 DEF RetryPull, ConfirmPull
<1>6. ASSUME PullFails(q) \/ MarkReceived(q) PROVE Loads'
  <2>1. /\ queues[q] # <<>> /\ NextTask(q) /\ loaded' = loaded
        /\ recving' = recving \/ (progress[q].told /\ recving' = recving \cup {Current(q).request})
    BY <1>6 DEF PullFails, MarkReceived, Serving
  <2>2. /\ progress'[q] = Fresh /\ Current(q) = queues[q][1]
        /\ \A p \in Queues \ {q} : queues'[p] = queues[p] /\ progress'[p] = progress[p]
    BY <2>1, NextTaskQueues
  <2>3. Fresh.caches # NumCaches
    BY TransferAssumption DEF Fresh
  <2>4. \A p \in Queues : Pulled(p)' => Pulled(p) /\ queues'[p] = queues[p]
    BY <2>2, <2>3 DEF Pulled
  <2>5. progress[q].told => Pulled(q)
    BY DEF Typed, ThreadType, ToldIsPulled, Pulled
  <2>6. ASSUME NEW s \in Requests, status[s] = "remote", s \in recving' \cup finishedRecving
        PROVE  loaded[s] = Parts(s)
    BY <2>1, <2>2, <2>5, <2>6 DEF Loads
  <2> QED BY <1>1, <1>2, <2>1, <2>4, <2>6 DEF Loads
<1> QED BY <1>3, <1>5, <1>6 DEF Thread

LEMMA WakeStep == ASSUME OneThread, WakeInv, [Next]_vars PROVE WakeInv'
<1>1. KVInv' /\ Typed'
  BY KVStep, TypedStep DEF WakeInv
<1>2. ASSUME UNCHANGED vars PROVE Loads'
  BY <1>2, LoadsKept DEF vars, setting, schedVars, workerVars, metaVars, doneVars
<1>3. ASSUME Next PROVE Loads'
  BY <1>3, EngineLoads, ScheduleLoads, LoadKVLoads, ThreadLoads DEF Next, Engine
<1> QED BY <1>1, <1>2, <1>3 DEF WakeInv

(* schedule() wakes only what get_finished reported, and leaves its blocks *)
(* as they are.                                                            *)
LEMMA ScheduleWakes ==
    ASSUME Schedule, NEW r \in Requests,
           status[r] = "remote", status'[r] \in {"waiting", "running"}
    PROVE  r \in finishedRecving /\ loaded'[r] = loaded[r]
<1>1. PICK admitted \in SUBSET {x \in Requests : Eligible(x)},
           refused \in {{}} \cup {{x} : x \in {y \in Requests : Eligible(y)}},
           preempted \in SUBSET {x \in Requests : status[x] = "running"} :
        LET remote == {x \in admitted : status[x] = "waiting" /\ Matched(x)}
            local  == {x \in admitted : status[x] = "waiting" /\ ~Matched(x)}
        IN  /\ status' = [x \in Requests |->
                             CASE x \in remote               -> "remote"
                               [] x \in admitted \ remote    -> "running"
                               [] x \in refused \cup preempted -> "waiting"
                               [] OTHER                      -> status[x]]
            /\ loaded' = [x \in Requests |->
                             CASE x \in local     -> Parts(x)
                               [] x \in preempted -> {}
                               [] OTHER           -> loaded[x]]
  BY DEF Schedule
<1>2. r \in admitted \cup refused
  BY <1>1
<1>3. r \in finishedRecving
  BY <1>2 DEF Eligible, Ready
<1> QED BY <1>1, <1>3

(* WakesWithItsKV: without multi_rank_pull_kv a request goes on only with  *)
(* all of its KV in its blocks (_update_waiting_for_remote_kv, get_finished *)
(* 634-650).                                                               *)
THEOREM WakesLoaded == ASSUME OneThread PROVE Spec => WakesWithItsKV
<1> DEFINE Wakes == \A r \in Requests :
                      status[r] = "remote" /\ status'[r] \in {"waiting", "running"}
                          => loaded'[r] = Parts(r)
<1>1. ASSUME WakeInv, [Next]_vars PROVE [Wakes]_vars
  <2> SUFFICES ASSUME Next, NEW r \in Requests,
                      status[r] = "remote", status'[r] \in {"waiting", "running"}
               PROVE  loaded'[r] = Parts(r)
    BY <1>1
  <2>1. Schedule
    <3>1. status[r] # status'[r]
      OBVIOUS
    <3>2. \A S \in SUBSET Requests : Finished(S) => status'[r] \in {status[r], "finished"}
      BY DEF Finished
    <3>3. ~Prefill /\ ~BuildMetadata /\ (\A m \in wire : ~ReceivePulled(m))
          /\ (\A s \in Requests : ~LoadKV(s) /\ ~LoadRaises(s)) /\ (\A q \in Queues : ~Thread(q))
      BY <3>1 DEF Prefill, PrefillFinished, PrefillStep, BuildMetadata, ReceivePulled, LoadKV,
              LoadRaises, Thread, PullCache, RetryPull, PullFails, ConfirmPull, MarkReceived,
              threadElse, metaVars, schedVars
    <3>4. ~UpdateFromOutput
      BY <3>1, <3>2 DEF UpdateFromOutput
    <3>5. ~Client
      <4>1. \A s \in Requests : ~AddRequest(s)
        <5> SUFFICES ASSUME NEW s \in Requests, AddRequest(s) PROVE FALSE
          OBVIOUS
        <5>1. r # s /\ status' = [status EXCEPT ![s] = "waiting"]
          BY DEF AddRequest
        <5>2. status'[r] = status[r]
          BY <1>1, <5>1 DEF WakeInv, Typed, OtherType
        <5> QED BY <3>1, <5>2
      <4>2. \A s \in Requests : ~AbortRequest(s)
        BY <3>1, <3>2 DEF AbortRequest
      <4> QED BY <4>1, <4>2 DEF Client
    <3> QED BY <3>3, <3>4, <3>5 DEF Next, Engine
  <2> QED BY <1>1, <2>1, ScheduleWakes DEF WakeInv, Loads
<1> QED BY <1>1, WakeInit, WakeStep, PTL DEF Spec, WakesWithItsKV

=============================================================================
