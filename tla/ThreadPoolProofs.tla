-------------------------- MODULE ThreadPoolProofs --------------------------
(* The calls of the VCPU thread and the callbacks keep PoolInv; what follows *)
(* from it, and the types.                                                   *)
EXTENDS ThreadPoolLemmas, NaturalsInduction, WellFoundedInduction

-----------------------------------------------------------------------------
(* Calls of the VCPU thread                                                *)

LEMMA SubmitStep ==
  ASSUME PoolInv, NEW r \in Reqs, Submit(r)
  PROVE  PoolInv'
  <1> USE DEF PoolInv, ctxVars, loopVars, pollVars, bhVars, counters
  <1> DEFINE spawn == MaySpawn
  <1>a. /\ ~InList(r, request_list) /\ ~InList(r, head) /\ state[r] = "free" /\ call = "none"
        /\ ~stopping
    BY Zenon DEF Submit, Calling, ListsHold, CallsHold
  <1>b. /\ request_list' \in Seq(Reqs) /\ Len(request_list') = Len(request_list) + 1
        /\ NoRepeats(request_list')
        /\ \A x : InList(x, request_list') <=> InList(x, request_list) \/ x = r
    <2>1. request_list \in Seq(Reqs) /\ NoRepeats(request_list) /\ request_list' = Append(request_list, r)
      BY Zenon DEF PoolTypes, ListsHold, Submit, Enqueue
    <2> QED BY <1>a, <2>1, AppendList, ZenonT(30)
  <1>c. /\ head' \in Seq(Reqs) /\ NoRepeats(head')
        /\ \A x : InList(x, head') <=> InList(x, head) \/ x = r
    <2>1. head \in Seq(Reqs) /\ NoRepeats(head) /\ head' = <<r>> \o head
      BY Zenon DEF PoolTypes, ListsHold, Submit
    <2> QED BY <1>a, <2>1, PrependList, ZenonT(30)
  <1>d. /\ cur_threads' \in Nat /\ new_threads' \in Nat /\ cur_threads' <= max_threads
        /\ \/ spawn /\ cur_threads' = cur_threads + 1 /\ new_threads' = new_threads + 1
           \/ ~spawn /\ cur_threads' = cur_threads /\ new_threads' = new_threads
    <2>1. cur_threads \in Nat /\ new_threads \in Nat /\ max_threads \in Nat /\ cur_threads <= max_threads
      BY CountFacts, Zenon DEF PoolTypes, CountsHold
    <2>2. CASE spawn
      BY <2>1, <2>2 DEF Submit, MaySpawn
    <2>3. CASE ~spawn
      BY <2>1, <2>3, SMTT(30) DEF Submit
    <2> QED BY <2>2, <2>3, Zenon
  <1> HIDE DEF spawn
  <1>1. PoolTypes'
    BY <1>b, <1>c, <1>d, Zenon DEF PoolTypes, Calls, States, Submit
  <1>2. ListsHold'
    <2>1. \A x \in Reqs : state'[x] = IF x = r THEN "queued" ELSE state[x]
      BY Zenon DEF Submit, PoolTypes
    <2> QED BY <1>a, <1>b, <1>c, <2>1, ZenonT(30) DEF ListsHold
  <1>3. JobsHold'
    BY Zenon DEF JobsHold, PoolTypes, Submit, Calling
  <1>4. CallsHold'
    BY Zenon DEF CallsHold, PoolTypes, Submit, Calling
  <1>5. CountsHold'
    <2>1. Len(request_list') = Len(request_list) + 1 /\ Len(request_list) \in Nat
      BY <1>b DEF PoolTypes
    <2>2. /\ UNCHANGED <<pc, sem, stopping, pending_threads, idle_threads>>
          /\ call = "none" /\ call' = "post"
      BY <1>a, Zenon DEF Submit, Calling
    <2>3. /\ Count(pc, {"woken"}) \in Nat /\ Count(pc, Live) \in Nat /\ sem \in Nat
          /\ ~stopping => Len(request_list) = sem + Count(pc, {"woken"}) + 0
          /\ cur_threads = new_threads + Count(pc, Live) /\ new_threads \in Nat
      BY <2>2, CountFacts, Zenon DEF CountsHold, PoolTypes
    <2>4. ~stopping => Len(request_list') = sem + Count(pc, {"woken"}) + 1
      BY <2>1, <2>3
    <2>5. cur_threads' = new_threads' + Count(pc, Live)
      BY <1>d, <2>3
    <2>6. /\ pending_threads' = Count(pc', {"pending"}) /\ idle_threads' = Count(pc', Idle)
      BY <2>2, Zenon DEF CountsHold
    <2> QED BY <1>d, <2>2, <2>4, <2>5, <2>6, Zenon DEF CountsHold
  <1>6. QueueHasWorker'
    <2>1. cur_threads' > 0
      <3>1. SUFFICES ASSUME cur_threads = 0 PROVE spawn
        BY <1>d DEF PoolTypes
      <3>2. Count(pc, Live) \in Nat /\ Count(pc, Idle) \in Nat /\ max_threads \in Nat \ {0}
        BY CountFacts, Zenon
      <3>3. Count(pc, Idle) <= Count(pc, Live)
        BY CountOrder, Zenon DEF Idle, Live, WorkerPcs
      <3>4. Count(pc, Live) = 0
        BY <3>1, <3>2 DEF CountsHold, PoolTypes
      <3>5. idle_threads = 0
        BY <3>2, <3>3, <3>4 DEF CountsHold
      <3> QED BY <3>1, <3>2, <3>5 DEF spawn, MaySpawn
    <2>2. new_threads' > 0 => pending_threads' > 0 \/ SpawnBh \in scheduled'
      <3>1. pending_threads' = pending_threads /\ pending_threads \in Nat
        BY Zenon DEF Submit, PoolTypes
      <3>2. CASE spawn /\ pending_threads = 0
        BY <3>2, Zenon DEF spawn, Submit, BhSchedule, NeedsBh
      <3>3. CASE ~spawn
        BY <1>d, <3>1, <3>3, Zenon DEF Submit, BhSchedule, QueueHasWorker, PoolTypes
      <3> QED BY <3>1, <3>2, <3>3, SMTT(30)
    <2> QED BY <2>1, <2>2, Zenon DEF QueueHasWorker
  <1>7. CompletionIsSeen'
    <2>1. /\ UNCHANGED <<scan, pc, job>> /\ (PoolFd \in ready => PoolFd \in ready')
          /\ \A x \in Reqs : state'[x] = IF x = r THEN "queued" ELSE state[x]
      BY Zenon DEF Submit, BhSchedule, PoolTypes
    <2> QED BY <2>1, ZenonT(30) DEF CompletionIsSeen, Finished
  <1>8. WaitersAreWoken'
    BY Zenon DEF WaitersAreWoken, CallsHold, PoolTypes, Submit, Calling
  <1> QED BY <1>1, <1>2, <1>3, <1>4, <1>5, <1>6, <1>7, <1>8 DEF PoolInv

LEMMA PostStep ==
  ASSUME PoolInv, SubmitPost
  PROVE  PoolInv'
  <1> USE DEF PoolInv, ctxVars, loopVars, pollVars, bhVars, counters
  <1>1. PoolTypes'
    BY SMTT(30) DEF PoolTypes, WorkerPcs, Calls, States, SubmitPost
  <1>2. ListsHold'
    BY Zenon DEF ListsHold, PoolTypes, SubmitPost
  <1>3. JobsHold'
    BY Zenon DEF JobsHold, PoolTypes, SubmitPost
  <1>4. CallsHold'
    BY Zenon DEF CallsHold, PoolTypes, SubmitPost
  <1>5. CountsHold'
    <2>1. /\ sem' = sem + 1 /\ call = "post" /\ call' = "none"
          /\ UNCHANGED <<pc, stopping, cur_threads, new_threads, pending_threads, idle_threads, request_list>>
      BY Zenon DEF SubmitPost
    <2>2. /\ Count(pc, {"woken"}) \in Nat /\ sem \in Nat
          /\ ~stopping => Len(request_list) = sem + Count(pc, {"woken"}) + 1
      BY <2>1, CountFacts, Zenon DEF CountsHold, PoolTypes
    <2>3. ~stopping => Len(request_list) = (sem + 1) + Count(pc, {"woken"}) + 0
      BY <2>2
    <2> QED BY <2>1, <2>3, Zenon DEF CountsHold
  <1>6. QueueHasWorker'
    BY Zenon DEF QueueHasWorker, PoolTypes, SubmitPost
  <1>7. CompletionIsSeen'
    BY SMTT(30) DEF CompletionIsSeen, Finished, PoolTypes, SubmitPost
  <1>8. WaitersAreWoken'
    BY Zenon DEF WaitersAreWoken, CallsHold, PoolTypes, SubmitPost
  <1> QED BY <1>1, <1>2, <1>3, <1>4, <1>5, <1>6, <1>7, <1>8, Zenon DEF PoolInv

LEMMA StealStep ==
  ASSUME PoolInv, NEW r \in Reqs, CancelSteal(r)
  PROVE  PoolInv'
  <1> USE DEF PoolInv, ctxVars, loopVars, pollVars, bhVars, counters
  <1>a. /\ request_list' \in Seq(Reqs) /\ Len(request_list') = Len(request_list) - 1
        /\ NoRepeats(request_list')
        /\ \A x : InList(x, request_list') <=> InList(x, request_list) /\ x # r
    <2>1. /\ request_list \in Seq(Reqs) /\ NoRepeats(request_list) /\ InList(r, request_list)
          /\ request_list' = Unlink(request_list, r)
      BY Zenon DEF PoolTypes, ListsHold, CancelSteal
    <2> QED BY <2>1, UnlinkList, Zenon
  <1>1. PoolTypes'
    BY <1>a DEF PoolTypes, Calls, States, CancelSteal
  <1>2. ListsHold'
    <2>1. \A x \in Reqs : state'[x] = IF x = r THEN "canceled" ELSE state[x]
      BY Zenon DEF CancelSteal, PoolTypes
    <2>2. head' = head /\ state[r] = "queued"
      BY Zenon DEF CancelSteal
    <2> QED BY <1>a, <2>1, <2>2, ZenonT(30) DEF ListsHold
  <1>3. JobsHold'
    BY Zenon DEF JobsHold, PoolTypes, CancelSteal, Calling
  <1>4. CallsHold'
    BY Zenon DEF CallsHold, PoolTypes, CancelSteal, Calling
  <1>5. CountsHold'
    <2>1. /\ sem' = sem - 1 /\ sem > 0
          /\ UNCHANGED <<pc, call, stopping, cur_threads, new_threads, pending_threads, idle_threads>>
      BY Zenon DEF CancelSteal
    <2>2. /\ Count(pc, {"woken"}) \in Nat /\ sem \in Nat /\ Len(request_list) \in Nat
          /\ ~stopping => Len(request_list) = sem + Count(pc, {"woken"}) + 0
      BY CountFacts DEF CountsHold, PoolTypes, CancelSteal, Calling
    <2>3. ~stopping => Len(request_list') = (sem - 1) + Count(pc, {"woken"}) + 0
      BY <1>a, <2>1, <2>2
    <2> QED BY <2>1, <2>3 DEF CountsHold, CancelSteal, Calling
  <1>6. QueueHasWorker'
    <2>1. request_list' # <<>> => request_list # <<>>
      BY <1>a, SMTT(30) DEF PoolTypes
    <2> QED BY <2>1, Zenon DEF QueueHasWorker, CancelSteal
  <1>7. CompletionIsSeen'
    BY Zenon DEF CompletionIsSeen, Finished, PoolTypes, CancelSteal, Calling
  <1>8. WaitersAreWoken'
    BY Zenon DEF WaitersAreWoken, CallsHold, PoolTypes, CancelSteal, Calling
  <1> QED BY <1>1, <1>2, <1>3, <1>4, <1>5, <1>6, <1>7, <1>8, Zenon DEF PoolInv

\* Somebody has, or will take, a request that is not finished yet.
LEMMA StillComing ==
  ASSUME PoolInv, NEW r \in Reqs, state[r] \in {"queued", "active"}
  PROVE  \/ \E i \in DOMAIN request_list : request_list[i] = r
         \/ \E w \in Workers : pc[w] \in {"run", "finished"} /\ job[w] = r
  BY ZenonT(30) DEF PoolInv, ListsHold, JobsHold, InList

LEMMA CancelWaitStep ==
  ASSUME PoolInv, NEW r \in Reqs, CancelWait(r)
  PROVE  PoolInv'
  <1> USE DEF PoolInv, ctxVars, loopVars, pollVars, bhVars, counters
  <1>1. PoolTypes'
    BY Zenon DEF PoolTypes, WorkerPcs, Calls, States, CancelWait, Calling
  <1>2. ListsHold'
    BY Zenon DEF ListsHold, PoolTypes, CancelWait, Calling
  <1>3. JobsHold'
    BY Zenon DEF JobsHold, PoolTypes, CancelWait, Calling
  <1>4. CallsHold'
    BY SMTT(30) DEF CallsHold, PoolTypes, CancelWait, Calling
  <1>5. CountsHold'
    BY Zenon DEF CountsHold, CancelWait, Calling
  <1>6. QueueHasWorker'
    BY Zenon DEF QueueHasWorker, PoolTypes, CancelWait, Calling
  <1>7. CompletionIsSeen'
    BY Zenon DEF CompletionIsSeen, Finished, PoolTypes, CancelWait, Calling
  <1>8. WaitersAreWoken'
    <2>1. state[r] \in {"queued", "active"} /\ target' = r /\ call' = "cancelwait"
      BY Zenon DEF CancelWait
    <2>2. pending_cancellations' > 0 /\ UNCHANGED <<request_list, pc, job>>
      BY SMTT(30) DEF CancelWait, CallsHold, Calling
    <2> QED BY <2>1, <2>2, StillComing, ZenonT(30) DEF WaitersAreWoken
  <1> QED BY <1>1, <1>2, <1>3, <1>4, <1>5, <1>6, <1>7, <1>8, Zenon DEF PoolInv

LEMMA CancelCheckStep ==
  ASSUME PoolInv, CancelCheck
  PROVE  PoolInv'
  <1> USE DEF PoolInv, ctxVars, loopVars, pollVars, bhVars, counters
  <1>1. PoolTypes'
    BY Zenon DEF PoolTypes, WorkerPcs, Calls, States, CancelCheck
  <1>2. ListsHold'
    BY Zenon DEF ListsHold, PoolTypes, CancelCheck
  <1>3. JobsHold'
    BY Zenon DEF JobsHold, PoolTypes, CancelCheck
  <1>4. CallsHold'
    BY SMTT(30) DEF CallsHold, PoolTypes, CancelCheck
  <1>5. CountsHold'
    BY Zenon DEF CountsHold, CancelCheck
  <1>6. QueueHasWorker'
    BY Zenon DEF QueueHasWorker, PoolTypes, CancelCheck
  <1>7. CompletionIsSeen'
    BY Zenon DEF CompletionIsSeen, Finished, PoolTypes, CancelCheck
  <1>8. WaitersAreWoken'
    <2>1. target \in Reqs /\ state[target] # "free" /\ pending_cancellations = 1
      BY Zenon DEF CallsHold, CancelCheck
    <2>2. CASE Finished(target)
      BY <2>2, Zenon DEF WaitersAreWoken, CancelCheck
    <2>3. CASE ~Finished(target)
      <3>1. state[target] \in {"queued", "active"}
        BY <2>1, <2>3, Zenon DEF Finished, PoolTypes, States
      <3>2. call' = "cancelwait" /\ UNCHANGED <<target, pending_cancellations, request_list, pc, job>>
        BY <2>3, Zenon DEF CancelCheck
      <3> QED BY <2>1, <3>1, <3>2, StillComing DEF WaitersAreWoken
    <2> QED BY <2>2, <2>3, Zenon
  <1> QED BY <1>1, <1>2, <1>3, <1>4, <1>5, <1>6, <1>7, <1>8, Zenon DEF PoolInv

LEMMA FreeStep ==
  ASSUME PoolInv, Free
  PROVE  PoolInv'
  <1> USE DEF PoolInv, ctxVars, loopVars, pollVars, bhVars, counters
  <1>a. /\ cur_threads' = Count(pc, Live) /\ new_threads' = 0 /\ cur_threads' \in Nat
        /\ cur_threads' <= max_threads
    <2>1. Count(pc, Live) \in Nat /\ Count(pc, Live) <= max_threads
      BY CountFacts, Zenon
    <2>2. /\ cur_threads = new_threads + Count(pc, Live) /\ new_threads \in Nat
          /\ cur_threads' = cur_threads - new_threads /\ new_threads' = 0
      BY Zenon DEF CountsHold, PoolTypes, Free
    <2> QED BY <2>1, <2>2
  <1>1. PoolTypes'
    BY <1>a, SMTT(30) DEF PoolTypes, Calls, Free, FreeTurn
  <1>2. ListsHold'
    BY Zenon DEF ListsHold, PoolTypes, Free, Calling, FreeTurn, RemoveNotifier, BhDelete
  <1>3. JobsHold'
    BY Zenon DEF JobsHold, PoolTypes, Free, Calling, FreeTurn, RemoveNotifier, BhDelete
  <1>4. CallsHold'
    BY Zenon DEF CallsHold, PoolTypes, Free, Calling, FreeTurn, RemoveNotifier, BhDelete
  <1>5. CountsHold'
    BY <1>a DEF CountsHold, Free
  <1>6. QueueHasWorker'
    BY NothingQueued DEF QueueHasWorker, Free
  <1>7. CompletionIsSeen'
    <2>1. \A r \in Reqs : ~InList(r, head)
      BY DEF Free, InList
    <2>2. state' = state
      BY Zenon DEF Free
    <2> QED BY <2>1, <2>2, ZenonT(30) DEF CompletionIsSeen, Finished, ListsHold
  <1>8. WaitersAreWoken'
    <2>1. CASE cur_threads' > 0
      <3>1. Count(pc, Live) > 0
        BY <1>a, <2>1, Zenon
      <3>2. PICK w \in Workers : pc[w] # "none"
        BY <3>1, CountFacts, SMTT(30) DEF Live
      <3>3. sem' > 0 /\ pc' = pc /\ call' = "freewait"
        BY <2>1 DEF Free, FreeTurn, PoolTypes
      <3> QED BY <3>2, <3>3, Zenon DEF WaitersAreWoken
    <2>2. CASE ~(cur_threads' > 0)
      BY <2>2, ZenonT(30) DEF WaitersAreWoken, Free, FreeTurn
    <2> QED BY <2>1, <2>2, Zenon
  <1> QED BY <1>1, <1>2, <1>3, <1>4, <1>5, <1>6, <1>7, <1>8, Zenon DEF PoolInv

LEMMA FreeCheckStep ==
  ASSUME PoolInv, FreeCheck
  PROVE  PoolInv'
  <1> USE DEF PoolInv, ctxVars, loopVars, pollVars, bhVars, counters
  <1>a. stopping /\ head = <<>> /\ cur_threads' = Count(pc, Live) /\ cur_threads' = cur_threads
    <2>1. stopping /\ head = <<>> /\ new_threads = 0 /\ cur_threads' = cur_threads
      BY Zenon DEF CallsHold, FreeCheck
    <2>2. Count(pc, Live) \in Nat /\ cur_threads = new_threads + Count(pc, Live)
      BY CountFacts, Zenon DEF CountsHold
    <2> QED BY <2>1, <2>2, SMTT(30)
  <1>1. PoolTypes'
    BY SMTT(30) DEF PoolTypes, WorkerPcs, Calls, States, FreeCheck, FreeTurn, RemoveNotifier
  <1>2. ListsHold'
    BY Zenon DEF ListsHold, PoolTypes, FreeCheck, FreeTurn, RemoveNotifier
  <1>3. JobsHold'
    BY Zenon DEF JobsHold, PoolTypes, FreeCheck, FreeTurn, RemoveNotifier
  <1>4. CallsHold'
    BY Zenon DEF CallsHold, PoolTypes, FreeCheck, FreeTurn, RemoveNotifier
  <1>5. CountsHold'
    BY <1>a, Zenon DEF CountsHold, FreeCheck
  <1>6. QueueHasWorker'
    BY Zenon DEF QueueHasWorker, FreeCheck
  <1>7. CompletionIsSeen'
    <2>1. \A r \in Reqs : ~InList(r, head)
      BY <1>a DEF InList
    <2>2. state' = state
      BY Zenon DEF FreeCheck
    <2> QED BY <2>1, <2>2, Zenon DEF CompletionIsSeen, Finished, ListsHold
  <1>8. WaitersAreWoken'
    <2>1. CASE cur_threads' > 0
      <3>1. Count(pc, Live) > 0
        BY <1>a, <2>1, Zenon
      <3>2. PICK w \in Workers : pc[w] # "none"
        BY <3>1, CountFacts DEF Live
      <3>3. sem' > 0 /\ pc' = pc /\ call' = "freewait"
        BY <2>1 DEF FreeCheck, FreeTurn, PoolTypes
      <3> QED BY <3>2, <3>3, Zenon DEF WaitersAreWoken
    <2>2. CASE ~(cur_threads' > 0)
      BY <2>2, ZenonT(30) DEF WaitersAreWoken, FreeCheck, FreeTurn
    <2> QED BY <2>1, <2>2, Zenon
  <1> QED BY <1>1, <1>2, <1>3, <1>4, <1>5, <1>6, <1>7, <1>8, Zenon DEF PoolInv

-----------------------------------------------------------------------------
(* Callbacks of the event loop                                             *)

LEMMA SpawnBhStep ==
  ASSUME PoolInv, SpawnThreadBh
  PROVE  PoolInv'
  <1> USE DEF PoolInv, ctxVars, loopVars, pollVars, bhVars, counters
  <1>a. /\ pc \in [Workers -> WorkerPcs] /\ pending_threads \in Nat /\ new_threads \in Nat
        /\ SpawnInto(pc, pending_threads) /\ \A t \in AtPc("none") : pc[t] = "none"
    BY Zenon DEF PoolTypes, SpawnThreadBh, AtPc
  <1>b. /\ pc' \in [Workers -> WorkerPcs] /\ new_threads' \in Nat /\ pending_threads' \in Nat
        /\ new_threads' > 0 => pending_threads' > 0
        /\ new_threads = 0 => new_threads' = 0 /\ pc' = pc
        /\ \A v \in Workers : pc'[v] = pc[v] \/ (pc[v] = "none" /\ pc'[v] = "pending")
        /\ new_threads' + Count(pc', Live) = new_threads + Count(pc, Live)
        /\ pending_threads = Count(pc, {"pending"}) => pending_threads' = Count(pc', {"pending"})
        /\ Count(pc', Idle) = Count(pc, Idle) /\ Count(pc', {"woken"}) = Count(pc, {"woken"})
    BY <1>a, SpawnKeeps, Zenon
  <1>1. PoolTypes'
    BY <1>b, Zenon DEF PoolTypes, SpawnThreadBh
  <1>2. ListsHold'
    BY Zenon DEF ListsHold, PoolTypes, SpawnThreadBh, BhRun
  <1>3. JobsHold'
    <2>1. /\ \A v \in Workers : pc'[v] = "run" <=> pc[v] = "run"
          /\ UNCHANGED <<state, job>>
      BY <1>b, Zenon DEF SpawnThreadBh
    <2> QED BY <2>1, ZenonT(30) DEF JobsHold
  <1>4. CallsHold'
    BY <1>b, ZenonT(30) DEF CallsHold, PoolTypes, SpawnThreadBh, BhRun
  <1>5. CountsHold'
    <2>1. UNCHANGED <<cur_threads, idle_threads, stopping, request_list, sem, call>>
      BY Zenon DEF SpawnThreadBh
    <2>2. /\ cur_threads = new_threads + Count(pc, Live) /\ pending_threads = Count(pc, {"pending"})
      BY Zenon DEF CountsHold
    <2> QED BY <1>b, <2>1, <2>2, Zenon DEF CountsHold
  <1>6. QueueHasWorker'
    BY <1>b, Zenon DEF QueueHasWorker, SpawnThreadBh
  <1>7. CompletionIsSeen'
    <2>1. /\ \A v \in Workers : pc'[v] = "finished" <=> pc[v] = "finished"
          /\ UNCHANGED <<state, job, scan, ready>>
      BY <1>b, Zenon DEF SpawnThreadBh
    <2> QED BY <2>1, Zenon DEF CompletionIsSeen, Finished
  <1>8. WaitersAreWoken'
    BY ZenonT(30) DEF WaitersAreWoken, CallsHold, PoolTypes, SpawnThreadBh, BhRun
  <1> QED BY <1>1, <1>2, <1>3, <1>4, <1>5, <1>6, <1>7, <1>8, Zenon DEF PoolInv

LEMMA ReadyStep ==
  ASSUME PoolInv, PoolReady
  PROVE  PoolInv'
  <1> USE DEF PoolInv, ctxVars, loopVars, pollVars, bhVars, counters
  <1>1. PoolTypes'
    BY Zenon DEF PoolTypes, WorkerPcs, Calls, States, PoolReady, HandlerRun
  <1>2. ListsHold'
    BY Zenon DEF ListsHold, PoolTypes, PoolReady, HandlerRun
  <1>3. JobsHold'
    BY Zenon DEF JobsHold, PoolTypes, PoolReady, HandlerRun
  <1>4. CallsHold'
    BY Zenon DEF CallsHold, PoolTypes, PoolReady, HandlerRun
  <1>5. CountsHold'
    BY ZenonT(30) DEF CountsHold, PoolReady, HandlerRun
  <1>6. QueueHasWorker'
    BY Zenon DEF QueueHasWorker, PoolTypes, PoolReady, HandlerRun
  <1>7. CompletionIsSeen'
    <2>1. scan' = head /\ state' = state
      BY Zenon DEF PoolReady
    <2>2. \A r \in Reqs : InList(r, head) => r \in Elems(head)
      BY DEF InList, Elems
    <2> QED BY <2>1, <2>2, ZenonT(30) DEF CompletionIsSeen, Finished, ListsHold
  <1>8. WaitersAreWoken'
    BY Zenon DEF WaitersAreWoken, CallsHold, PoolTypes, PoolReady, HandlerRun
  <1> QED BY <1>1, <1>2, <1>3, <1>4, <1>5, <1>6, <1>7, <1>8, Zenon DEF PoolInv

\* Elements that event_notifier_ready passes over, and the one it releases.
LEMMA ScanStep ==
  ASSUME PoolInv, ScanElement
  PROVE  PoolInv'
  <1> USE DEF PoolInv, ctxVars, loopVars, pollVars, bhVars, counters
  <1> DEFINE e == Head(scan)
             complete == state[e] = "done" /\ e \notin NoCb
  <1>a. /\ e \in Reqs /\ Tail(scan) \in Seq(Reqs)
        /\ \A r : InList(r, scan) <=> InList(r, Tail(scan)) \/ r = e
    BY TailList, ZenonT(30) DEF PoolTypes, ScanElement
  <1>b. /\ PoolFd \in ready => PoolFd \in ready'
        /\ SpawnBh \in scheduled => SpawnBh \in scheduled'
    BY Zenon DEF ScanElement, BhSchedule
  <1>c. ~Finished(e) => scan' = Tail(scan) /\ UNCHANGED <<state, head>>
    BY Zenon DEF ScanElement
  <1>d. ASSUME Finished(e)
        PROVE  /\ head' = Unlink(head, e) /\ head' \in Seq(Reqs) /\ NoRepeats(head')
               /\ InList(e, head)
               /\ \A r : InList(r, head') <=> InList(r, head) /\ r # e
               /\ scan' = IF complete THEN Unlink(head, e) ELSE Tail(scan)
               /\ state' = [state EXCEPT ![e] = "free"]
    <2>1. /\ head' = Unlink(head, e) /\ state' = [state EXCEPT ![e] = "free"]
          /\ scan' = IF complete THEN Unlink(head, e) ELSE Tail(scan)
      BY <1>d, SMTT(30) DEF ScanElement
    <2>2. head \in Seq(Reqs) /\ NoRepeats(head) /\ InList(e, head)
      BY <1>a, <1>d, Zenon DEF PoolTypes, ListsHold, Finished
    <2>3. /\ Unlink(head, e) \in Seq(Reqs) /\ NoRepeats(Unlink(head, e))
          /\ \A r : InList(r, Unlink(head, e)) <=> InList(r, head) /\ r # e
      BY <2>2, UnlinkList, Zenon
    <2> QED BY <2>1, <2>2, <2>3, Zenon
  <1> HIDE DEF e, complete
  <1>1. PoolTypes'
    BY <1>a, <1>c, <1>d, Zenon DEF PoolTypes, States, ScanElement
  <1>2. ListsHold'
    <2>1. CASE Finished(e)
      <3>1. \A r \in Reqs : state'[r] = IF r = e THEN "free" ELSE state[r]
        BY <1>a, <1>d, <2>1, SMTT(30) DEF PoolTypes
      <3>2. request_list' = request_list /\ state[e] # "queued"
        BY <2>1, Zenon DEF ScanElement, Finished
      <3> QED BY <1>a, <1>d, <2>1, <3>1, <3>2, Zenon DEF ListsHold
    <2>2. CASE ~Finished(e)
      BY <1>c, <2>2, Zenon DEF ListsHold, ScanElement
    <2> QED BY <2>1, <2>2, Zenon
  <1>3. JobsHold'
    <2>1. CASE Finished(e)
      <3>1. \A r \in Reqs : state'[r] = IF r = e THEN "free" ELSE state[r]
        BY <1>a, <1>d, <2>1, Zenon DEF PoolTypes
      <3>2. UNCHANGED <<pc, job>> /\ state[e] # "active"
        BY <2>1, Zenon DEF ScanElement, Finished
      <3> QED BY <1>a, <3>1, <3>2, ZenonT(30) DEF JobsHold
    <2>2. CASE ~Finished(e)
      BY <1>c, <2>2, ZenonT(30) DEF JobsHold, ScanElement
    <2> QED BY <2>1, <2>2
  <1>4. CallsHold'
    <2>1. /\ UNCHANGED <<call, target, pending_cancellations, stopping, new_threads, bql, at, main>>
          /\ scan # <<>>
      BY Zenon DEF ScanElement, ctxVars
    <2>2. call \notin {"cancelwait", "cancel"}
      BY <2>1, Zenon DEF CallsHold
    <2>3. stopping => head' = <<>>
      BY <1>c, <1>d DEF CallsHold, InList
    <2> QED BY <2>1, <2>2, <2>3, Zenon DEF CallsHold
  <1>5. CountsHold'
    BY ZenonT(30) DEF CountsHold, ScanElement
  <1>6. QueueHasWorker'
    BY <1>b, Zenon DEF QueueHasWorker, ScanElement
  <1>7. CompletionIsSeen'
    <2> SUFFICES ASSUME NEW r \in Reqs, Finished(r)'
                 PROVE  \/ r \in Elems(scan') \/ PoolFd \in ready'
                        \/ \E w \in Workers : pc'[w] = "finished" /\ job'[w] = r
      BY Zenon DEF CompletionIsSeen
    <2>1. Finished(r) /\ UNCHANGED <<pc, job>> /\ r # e
      BY <1>a, <1>c, <1>d, Zenon DEF Finished, ScanElement, PoolTypes
    <2>2. r \in Elems(scan) => r \in Elems(Tail(scan))
      BY <1>a, <2>1, Zenon DEF Elems, InList
    <2>3. Finished(e) /\ complete => r \in Elems(Unlink(head, e))
      <3>1. InList(r, head)
        BY <2>1, Zenon DEF ListsHold, Finished
      <3> QED BY <1>d, <2>1, <3>1, Zenon DEF InList, Elems
    <2> QED BY <1>b, <1>c, <1>d, <2>1, <2>2, <2>3, ZenonT(30) DEF CompletionIsSeen
  <1>8. WaitersAreWoken'
    BY ZenonT(30) DEF WaitersAreWoken, CallsHold, ScanElement
  <1> QED BY <1>1, <1>2, <1>3, <1>4, <1>5, <1>6, <1>7, <1>8, Zenon DEF PoolInv

-----------------------------------------------------------------------------
(* The theorems                                                            *)

LEMMA PoolStep == PoolInv /\ [Next]_vars => PoolInv'
  <1> SUFFICES ASSUME PoolInv, [Next]_vars PROVE PoolInv'
    BY Zenon
  <1>1. ASSUME NEW w \in Workers, Worker(w) \/ WorkerTimeout(w) PROVE PoolInv'
    BY <1>1, StartStep, TokenStep, DequeueStep, StopStep, RetryStep, DoneStep, NotifyStep,
       TimeoutStep, Zenon DEF Worker
  <1>2. CASE Vcpu
    BY <1>2, SubmitStep, StealStep, CancelWaitStep, FreeStep, LoopStep DEF Vcpu, LoopOnly
  <1>3. CASE VcpuReturns
    BY <1>3, PostStep, CancelCheckStep, FreeCheckStep, LoopStep DEF VcpuReturns, LoopOnly
  <1>4. CASE Polling
    BY <1>4, SpawnBhStep, ReadyStep, ScanStep, LoopStep, Zenon DEF Polling, LoopOnly
  <1>5. CASE MainThread \/ MainRelock \/ UNCHANGED vars
    BY <1>5, LoopStep, Zenon DEF LoopOnly
  <1> QED BY <1>1, <1>2, <1>3, <1>4, <1>5, Zenon DEF Next

\* PoolInv is an invariant of the pool, whatever the numbers of worker threads
\* and of requests.
THEOREM PoolInvariant == Spec => []PoolInv
  <1>1. Init => PoolInv
    BY InitPool, Zenon
  <1>2. PoolInv /\ [Next]_vars => PoolInv'
    BY PoolStep, Zenon
  <1> QED BY <1>1, <1>2, PTL DEF Spec

\* qemu_sem_timedwait's tokens are the queued requests less those that workers
\* are on their way to fetch: a worker that got a token finds a request, so
\* worker_thread never follows a NULL request.
THEOREM TokenPerRequest == Spec => []TokensMatch
BY CountsAreTheCounters, PoolInvariant, PTL

\* No thread is counted twice or not at all by cur_threads, idle_threads,
\* new_threads and pending_threads, whatever starts, times out and stops.
THEOREM CountersExact == Spec => []ThreadsCounted
BY CountsAreTheCounters, PoolInvariant, PTL

\* No queued request is left without a worker that will take it, a worker that
\* times out at the moment of the submission included.
THEOREM RequestsHaveWorkers == Spec => []QueueHasWorker
  <1>1. PoolInv => QueueHasWorker
    BY Zenon DEF PoolInv
  <1> QED BY <1>1, PoolInvariant, PTL

\* No completion is lost between the worker that sets THREAD_DONE and the
\* callback that event_notifier_ready scans for.
THEOREM CompletionsReachLoop == Spec => []CompletionIsSeen
  <1>1. PoolInv => CompletionIsSeen
    BY Zenon DEF PoolInv
  <1> QED BY <1>1, PoolInvariant, PTL

\* No wait of thread_pool_cancel or thread_pool_free misses its signal.
THEOREM NoSignalMissed == Spec => []WaitersAreWoken
  <1>1. PoolInv => WaitersAreWoken
    BY Zenon DEF PoolInv
  <1> QED BY <1>1, PoolInvariant, PTL

\* thread_pool_cancel returns only for a request that is finished, and what it
\* has canceled is never run.
THEOREM CancelTheorem == Spec => CancelIsFinal
  <1> DEFINE Final == /\ (target # None /\ target' = None) => Finished(target)
                      /\ \A r \in Reqs : state[r] = "canceled" => state'[r] \in {"canceled", "free"}
  <1>1. PoolInv /\ [Next]_vars => [Final]_vars
    <2> SUFFICES ASSUME PoolInv, Next PROVE Final
      BY ZenonT(30)
    <2> USE DEF PoolInv, PoolTypes, States, ctxVars, poolVars, counters
    <2>1. ASSUME NEW w \in Workers, Worker(w) \/ WorkerTimeout(w) PROVE Final
      <3>1. target' = target
        BY <2>1, ZenonT(30) DEF Worker, WorkerStart, WorkerToken, WorkerDequeue, WorkerStop, WorkerRetry,
                    WorkerDone, WorkerNotify, WorkerTimeout
      <3>2. CASE WorkerDequeue(w)
        <4>1. \A r \in Reqs : state[r] = "canceled" => ~InList(r, request_list)
          BY Zenon DEF ListsHold
        <4>2. request_list # <<>> => InList(Head(request_list), request_list)
          BY TailList, SMTT(30)
        <4> QED BY <3>1, <3>2, <4>1, <4>2, ReqsAssumption, Zenon DEF WorkerDequeue
      <3>3. CASE WorkerDone(w)
        BY <3>1, <3>3 DEF WorkerDone, JobsHold
      <3>4. CASE ~WorkerDequeue(w) /\ ~WorkerDone(w)
        BY <2>1, <3>1, <3>4, Zenon DEF Worker, WorkerStart, WorkerToken, WorkerStop, WorkerRetry,
                                WorkerNotify, WorkerTimeout
      <3> QED BY <3>2, <3>3, <3>4, Zenon
    <2>2. ASSUME NEW r \in Reqs, Submit(r) \/ CancelSteal(r) \/ CancelWait(r) PROVE Final
      BY <2>2, ReqsAssumption, Zenon DEF Submit, CancelSteal, CancelWait
    <2>3. CASE Free \/ SubmitPost \/ FreeCheck
      BY <2>3, ZenonT(30) DEF Free, SubmitPost, FreeCheck
    <2>4. CASE CancelCheck
      BY <2>4, Zenon DEF CancelCheck
    <2>5. CASE SpawnThreadBh \/ PoolReady
      BY <2>5, SMTT(30) DEF SpawnThreadBh, PoolReady
    <2>6. CASE ScanElement
      <3>1. Head(scan) \in Reqs
        BY <2>6, TailList, Zenon DEF ScanElement
      <3> QED BY <2>6, <3>1, Zenon DEF ScanElement
    <2>7. CASE LoopOnly
      <3>1. UNCHANGED poolVars
        BY <2>7, LoopKeeps, Zenon
      <3> QED BY <3>1, Zenon
    <2> QED BY <2>1, <2>2, <2>3, <2>4, <2>5, <2>6, <2>7, Zenon
            DEF Next, Vcpu, VcpuReturns, Polling, LoopOnly
  <1> QED BY <1>1, PoolInvariant, PTL DEF Spec, CancelIsFinal


-----------------------------------------------------------------------------
(* Types.  CtxTypeOK needs to know which bottom halves are still there when *)
(* they are scheduled, and which handlers are when the pool's is removed.   *)

LoopInv ==
  /\ CtxTypeOK
  /\ AppBh \in Elems(bhs) \ deleted
  /\ ~stopping => SpawnBh \in Elems(bhs) \ deleted
  /\ handlers = IF call = "freed" THEN <<Notifier>> ELSE <<PoolFd, Notifier>>

LEMMA NatMin == ASSUME NEW T \in SUBSET Nat, T # {} PROVE \E n \in T : \A m \in T : n <= m
  <1> DEFINE R == OpToRel(<, Nat)
  <1>1. IsWellFoundedOn(R, Nat)
    BY NatLessThanWellFounded, Zenon
  <1>2. ASSUME NEW x \in Nat, NEW y \in Nat, y < x PROVE <<y, x>> \in R
    BY <1>2, Zenon DEF OpToRel
  <1> HIDE DEF R
  <1>3. PICK n \in T : \A m \in T : ~(<<m, n>> \in R)
    BY <1>1, WFMin, Zenon
  <1>4. ASSUME NEW m \in T PROVE n <= m
    <2>1. n \in Nat /\ m \in Nat /\ ~(<<m, n>> \in R)
      BY <1>3, Zenon
    <2>2. ~(m < n)
      BY <2>1, <1>2, Zenon
    <2> QED BY <2>1, <2>2
  <1> QED BY <1>4, Zenon

\* f is what Without computes for the first k nodes of s
Left(f, s, S, n) ==
  IF n = 0 THEN <<>> ELSE IF s[n] \in S THEN f[n - 1] ELSE Append(f[n - 1], s[n])
Lefts(f, s, S, k) == f = [n \in 0..k |-> Left(f, s, S, n)]

LEMMA LeftsExist == ASSUME NEW s, NEW S, NEW k \in Nat PROVE \E f : Lefts(f, s, S, k)
  <1> DEFINE T == {n \in Nat : ~\E f : Lefts(f, s, S, n)}
  <1> SUFFICES ASSUME T # {} PROVE FALSE
    BY Zenon
  <1>1. PICK n \in T : \A m \in T : n <= m
    BY NatMin, Zenon
  <1>2. n \in Nat /\ ~\E f : Lefts(f, s, S, n)
    BY Zenon
  <1>3. CASE n = 0
    <2> DEFINE f == [m \in 0..0 |-> <<>>]
    <2>1. Lefts(f, s, S, 0)
      BY DEF Lefts, Left
    <2> QED BY <1>2, <1>3, <2>1, Zenon
  <1>4. CASE n # 0
    <2>1. n - 1 \in Nat /\ n - 1 \notin T
      BY <1>1, <1>2, <1>4
    <2>2. PICK f : Lefts(f, s, S, n - 1)
      BY <2>1, Zenon
    <2> DEFINE g == [m \in 0..n |-> IF m = n THEN Left(f, s, S, n) ELSE f[m]]
    <2>3. ASSUME NEW m \in 0..n PROVE g[m] = Left(g, s, S, m)
      <3>1. m = 0 \/ (m # 0 /\ m - 1 \in 0..n /\ m - 1 # n)
        BY <1>2, <1>4
      <3>2. m # 0 => g[m - 1] = f[m - 1]
        BY <3>1, Zenon
      <3>3. Left(g, s, S, m) = Left(f, s, S, m)
        <4>1. PICK q : q = g
          BY Zenon
        <4>2. m = 0 \/ q[m - 1] = f[m - 1]
          BY <3>2, <4>1, Zenon
        <4>3. Left(q, s, S, m) = Left(f, s, S, m)
          BY ONLY <4>2, Zenon DEF Left
        <4> QED BY <4>1, <4>3, Zenon
      <3>4. m # n => m \in 0..n - 1
        BY <1>2, <1>4
      <3>5. m # n => f[m] = Left(f, s, S, m)
        BY <2>2, <3>4, Zenon DEF Lefts
      <3> QED BY <3>3, <3>5, Zenon
    <2>4. Lefts(g, s, S, n)
      BY <2>3, Zenon DEF Lefts
    <2> QED BY <1>2, <2>4, Zenon
  <1> QED BY <1>3, <1>4, Zenon

\* What is left of a list are its nodes that are not in S.
LEMMA WithoutList ==
  ASSUME NEW A, NEW s \in Seq(A), NEW S
  PROVE  Without(s, S) \in Seq(A) /\ Elems(Without(s, S)) = Elems(s) \ S
  <1> DEFINE f == CHOOSE f : Lefts(f, s, S, Len(s))
             Good(n) == f[n] \in Seq(A) /\ Elems(f[n]) = {s[i] : i \in 1..n} \ S
  <1>1. Lefts(f, s, S, Len(s))
    BY LeftsExist
  <1>2. Without(s, S) = f[Len(s)]
    BY Zenon DEF Without, Lefts, Left
  <1>3. \A n \in 0..Len(s) : f[n] = Left(f, s, S, n)
    BY <1>1, Zenon DEF Lefts
  <1> HIDE DEF f
  <1>4. Good(0)
    <2>1. f[0] = <<>>
      BY <1>3 DEF Left
    <2>2. Elems(<<>>) = {} /\ {s[i] : i \in 1..0} = {}
      BY DEF Elems
    <2>3. <<>> \in Seq(A)
      OBVIOUS
    <2> QED BY <2>1, <2>2, <2>3, Zenon
  <1>5. ASSUME NEW n \in 1..Len(s), Good(n - 1) PROVE Good(n)
    <2>1. PICK g : g = f[n - 1]
      BY Zenon
    <2>2. f[n] = IF s[n] \in S THEN g ELSE Append(g, s[n])
      BY <1>3, <2>1 DEF Left
    <2>3. {s[i] : i \in 1..n} = {s[i] : i \in 1..(n - 1)} \union {s[n]}
      BY SMT
    <2>4. g \in Seq(A) /\ Elems(g) = {s[i] : i \in 1..(n - 1)} \ S /\ s[n] \in A
      BY <1>5, <2>1
    <2>5. Append(g, s[n]) \in Seq(A) /\ Elems(Append(g, s[n])) = Elems(g) \union {s[n]}
      <3>1. PICK x \in A : x = s[n]
        BY <2>4, Zenon
      <3>2. /\ Append(g, x) \in Seq(A) /\ DOMAIN Append(g, x) = 1..(Len(g) + 1)
            /\ DOMAIN g = 1..Len(g) /\ Len(g) \in Nat
            /\ \A i \in 1..Len(g) : Append(g, x)[i] = g[i]
            /\ Append(g, x)[Len(g) + 1] = x
        BY ONLY <2>4, x \in A
      <3>3. PICK h : h = Append(g, x)
        BY Zenon
      <3>4. {h[i] : i \in DOMAIN h} = {g[i] : i \in DOMAIN g} \union {x}
        <4>1. ASSUME NEW i \in DOMAIN h PROVE h[i] \in {g[j] : j \in DOMAIN g} \union {x}
          <5>1. i \in DOMAIN g \/ i = Len(g) + 1
            BY <3>2, <3>3
          <5> QED BY <3>2, <3>3, <5>1, Zenon
        <4>2. ASSUME NEW i \in DOMAIN g PROVE \E j \in DOMAIN h : h[j] = g[i]
          <5>1. i \in DOMAIN h /\ h[i] = g[i]
            BY <3>2, <3>3
          <5> QED BY <5>1, Zenon
        <4>3. \E j \in DOMAIN h : h[j] = x
          <5>1. Len(g) + 1 \in DOMAIN h /\ h[Len(g) + 1] = x
            BY <3>2, <3>3
          <5> QED BY <5>1, Zenon
        <4> QED BY ONLY <4>1, <4>2, <4>3
      <3> QED BY <3>1, <3>2, <3>3, <3>4, Zenon DEF Elems
    <2> QED BY <2>2, <2>3, <2>4, <2>5
  <1> HIDE DEF Good
  <1>6. Good(Len(s))
    <2> DEFINE T == {n \in 0..Len(s) : ~Good(n)}
    <2> SUFFICES ASSUME T # {} PROVE FALSE
      OBVIOUS
    <2>0. T \in SUBSET Nat
      OBVIOUS
    <2>1. PICK n \in T : \A m \in T : n <= m
      BY <2>0, NatMin, Zenon
    <2>2. n # 0
      BY <2>1, <1>4, Zenon
    <2>3. n \in 1..Len(s) /\ n - 1 \in 0..Len(s) /\ ~(n <= n - 1)
      BY <2>1, <2>2
    <2>4. Good(n - 1)
      BY <2>1, <2>3, Zenon
    <2> QED BY <1>5, <2>1, <2>3, <2>4, Zenon
  <1>7. {s[i] : i \in 1..Len(s)} = Elems(s)
    BY DEF Elems
  <1> QED BY <1>2, <1>6, <1>7, Zenon DEF Good

\* LoopInv by the parts of the loop's state.
MainOK == /\ bql \in {"main", "vcpu", "none"} /\ main \in {"prepare", "ppoll", "lock", "check"}
          /\ prepared \in BOOLEAN /\ polled \subseteq CtxDescriptors
WalkOK == /\ at \in {"out", "bh", "dispatch", "poll", "redispatch"}
          /\ walk \in Seq(Elems(Bhs) \union CtxDescriptors)
          /\ blocking \in BOOLEAN /\ progress \in BOOLEAN
BhsOK == /\ bhs \in Seq(Elems(Bhs))
         /\ scheduled \subseteq Elems(bhs) \ deleted /\ deleted \subseteq Elems(bhs)
         /\ AppBh \in Elems(bhs) \ deleted
         /\ ~stopping => SpawnBh \in Elems(bhs) \ deleted
FdsOK == /\ handlers \in Seq(CtxDescriptors)
         /\ ready \subseteq CtxDescriptors /\ revents \subseteq CtxDescriptors
         /\ handlers = IF call = "freed" THEN <<Notifier>> ELSE <<PoolFd, Notifier>>

LEMMA LoopParts ==
  /\ LoopInv <=> MainOK /\ WalkOK /\ BhsOK /\ FdsOK
  /\ LoopInv' <=> MainOK' /\ WalkOK' /\ BhsOK' /\ FdsOK'
BY Zenon DEF LoopInv, CtxTypeOK, MainOK, WalkOK, BhsOK, FdsOK

LEMMA Descriptors == CtxDescriptors = {PoolFd, Notifier}
  <1>1. Elems(<<PoolFd>>) = {PoolFd}
    BY DEF Elems
  <1> QED BY <1>1, HandlersAssumption, Zenon DEF CtxDescriptors

LEMMA WiderSeq == ASSUME NEW A, NEW B, A \subseteq B, NEW s \in Seq(A) PROVE s \in Seq(B)
OBVIOUS

LEMMA ElemsIn == ASSUME NEW A, NEW s \in Seq(A) PROVE Elems(s) \subseteq A
BY DEF Elems

\* The nodes behind the one that a walk is at.
LEMMA RestOK ==
  ASSUME NEW A, walk \in Seq(A), NEW S, Hits(S) # {}
  PROVE  Rest(Next1(S)) \in Seq(A)
  <1>1. Hits(S) \in SUBSET Nat
    BY DEF Hits
  <1>2. \E i \in Hits(S) : \A j \in Hits(S) : i <= j
    BY <1>1, NatMin, Zenon
  <1>3. Next1(S) \in Hits(S)
    BY <1>2, Zenon DEF Next1
  <1>4. PICK i \in 1..Len(walk) : i = Next1(S)
    BY <1>3 DEF Hits
  <1>5. SubSeq(walk, i + 1, Len(walk)) \in Seq(A)
    OBVIOUS
  <1> QED BY <1>4, <1>5, Zenon DEF Rest

LEMMA InitLoop == Init => LoopInv
  <1> SUFFICES ASSUME Init PROVE LoopInv
    BY Zenon
  <1>1. MainOK
    BY Zenon DEF Init, CtxInit, MainOK
  <1>2. WalkOK
    <2>1. <<>> \in Seq(Elems(Bhs) \union CtxDescriptors)
      OBVIOUS
    <2> QED BY <2>1, Zenon DEF Init, CtxInit, WalkOK
  <1>3. BhsOK
    <2>1. Bhs \in Seq(Elems(Bhs))
      BY BhsAssumption, Zenon
    <2> QED BY <2>1, BhsAssumption, Zenon DEF Init, CtxInit, BhsOK
  <1>4. FdsOK
    <2>1. handlers = <<PoolFd, Notifier>> /\ call = "none" /\ ready = {Notifier} /\ revents = {}
      <3>1. <<PoolFd>> \o <<Notifier>> = <<PoolFd, Notifier>>
        <4>1. PICK a, b : a = PoolFd /\ b = Notifier
          BY Zenon
        <4>2. PICK s, t : s = <<a>> \o <<b>> /\ t = <<a, b>>
          BY Zenon
        <4>3. s \in Seq({a, b}) /\ t \in Seq({a, b}) /\ Len(s) = 2 /\ Len(t) = 2
          BY ONLY <4>2
        <4>4. s[1] = a /\ t[1] = a /\ s[2] = b /\ t[2] = b
          BY ONLY <4>2
        <4>5. s = t
          BY ONLY <4>3, <4>4
        <4> QED BY <4>1, <4>2, <4>5, Zenon
      <3> QED BY <3>1, HandlersAssumption, Zenon DEF Init, CtxInit
    <2>2. <<PoolFd, Notifier>> \in Seq(CtxDescriptors)
      BY Descriptors
    <2> QED BY <2>1, <2>2, Descriptors, Zenon DEF FdsOK
  <1> QED BY <1>1, <1>2, <1>3, <1>4, LoopParts, Zenon

\* Steps of the pool leave the loop alone but for ready, scheduled and deleted.
LEMMA StillOK ==
  /\ MainOK /\ UNCHANGED <<bql, loopVars>> => MainOK'
  /\ WalkOK /\ UNCHANGED pollVars => WalkOK'
  /\ BhsOK /\ UNCHANGED <<bhVars, stopping>> => BhsOK'
  /\ FdsOK /\ UNCHANGED fdVars /\ (call' = "freed" <=> call = "freed") => FdsOK'
  <1>1. MainOK /\ UNCHANGED <<bql, loopVars>> => MainOK'
    BY Zenon DEF MainOK, loopVars
  <1>2. WalkOK /\ UNCHANGED pollVars => WalkOK'
    BY Zenon DEF WalkOK, pollVars
  <1>3. BhsOK /\ UNCHANGED <<bhVars, stopping>> => BhsOK'
    BY DEF BhsOK, bhVars
  <1>4. FdsOK /\ UNCHANGED fdVars /\ (call' = "freed" <=> call = "freed") => FdsOK'
    BY Zenon DEF FdsOK, fdVars
  <1> QED BY <1>1, <1>2, <1>3, <1>4, Zenon

LEMMA NotifyOK ==
  ASSUME FdsOK, UNCHANGED <<handlers, revents>>, call' = "freed" <=> call = "freed",
         NEW fd \in CtxDescriptors, ready' = ready \union {fd} \/ ready' = ready
  PROVE  FdsOK'
BY Zenon DEF FdsOK

LEMMA ScheduleOK ==
  ASSUME BhsOK, FdsOK, NEW b \in Elems(bhs) \ deleted, NEW want, BhSchedule(b, want),
         UNCHANGED <<bhs, deleted, stopping, handlers, revents>>,
         call' = "freed" <=> call = "freed"
  PROVE  BhsOK' /\ FdsOK'
  <1>1. \/ scheduled' = scheduled \union {b} /\ ready' = ready \union {Notifier}
        \/ UNCHANGED <<scheduled, ready>>
    BY Zenon DEF BhSchedule
  <1>2. BhsOK'
    BY <1>1, Zenon DEF BhsOK
  <1> QED BY <1>1, <1>2, NotifyOK, Descriptors, Zenon

LEMMA WorkerOK ==
  ASSUME PoolInv, LoopInv, NEW w \in Workers, Worker(w) \/ WorkerTimeout(w)
  PROVE  LoopInv'
  <1>0. MainOK /\ WalkOK /\ BhsOK /\ FdsOK
    BY LoopParts, Zenon
  <1>1. CASE WorkerNotify(w)
    <2>1. /\ UNCHANGED <<bql, loopVars, pollVars, bhVars, stopping, handlers, revents>>
          /\ ready' = ready \union {PoolFd}
      BY <1>1, Zenon DEF WorkerNotify
    <2>2. call' = "freed" <=> call = "freed"
      BY <1>1, Zenon DEF WorkerNotify, WorkerStopped
    <2>3. FdsOK'
      BY <1>0, <2>1, <2>2, NotifyOK, Descriptors
    <2> QED BY <1>0, <2>1, <2>3, StillOK, LoopParts
  <1>2. CASE ~WorkerNotify(w)
    <2>1. UNCHANGED <<ctxVars, stopping>> /\ (call' = "freed" <=> call = "freed")
      BY <1>2, Zenon DEF Worker, WorkerStart, WorkerToken, WorkerDequeue, WorkerStop, WorkerRetry,
                  WorkerDone, WorkerTimeout, WorkerStopped
    <2> QED BY <1>0, <2>1, StillOK, LoopParts, Zenon DEF ctxVars, loopVars, pollVars, bhVars, fdVars
  <1> QED BY <1>1, <1>2, Zenon

LEMMA CallOK ==
  ASSUME PoolInv, LoopInv, NEW r \in Reqs, Submit(r) \/ CancelSteal(r) \/ CancelWait(r)
  PROVE  LoopInv'
  <1>0. MainOK /\ WalkOK /\ BhsOK /\ FdsOK
    BY LoopParts, Zenon
  <1>1. CASE Submit(r)
    <2>1. /\ UNCHANGED <<bql, loopVars, pollVars, bhs, deleted, stopping, handlers, revents>>
          /\ BhSchedule(SpawnBh, MaySpawn /\ NeedsBh) /\ call = "none" /\ call' = "post"
      BY <1>1 DEF Submit, Calling
    <2>2. SpawnBh \in Elems(bhs) \ deleted
      BY <1>0, <2>1, Zenon DEF PoolInv, CallsHold, BhsOK
    <2>3. BhsOK' /\ FdsOK'
      BY <1>0, <2>1, <2>2, ScheduleOK, Zenon
    <2> QED BY <1>0, <2>1, <2>3, StillOK, LoopParts, Zenon
  <1>2. CASE CancelSteal(r)
    <2>1. /\ UNCHANGED <<bql, loopVars, pollVars, bhVars, stopping, call, handlers, revents>>
          /\ ready' = ready \union {PoolFd}
      BY <1>2, Zenon DEF CancelSteal
    <2>2. FdsOK'
      BY <1>0, <2>1, NotifyOK, Descriptors, Zenon
    <2> QED BY <1>0, <2>1, <2>2, StillOK, LoopParts
  <1>3. CASE CancelWait(r)
    <2>1. UNCHANGED <<ctxVars, stopping>> /\ call = "none" /\ call' = "cancelwait"
      BY <1>3, Zenon DEF CancelWait, Calling
    <2> QED BY <1>0, <2>1, StillOK, LoopParts DEF ctxVars, loopVars, pollVars, bhVars, fdVars
  <1> QED BY <1>1, <1>2, <1>3

LEMMA ReturnOK ==
  ASSUME PoolInv, LoopInv, SubmitPost \/ CancelCheck
  PROVE  LoopInv'
  <1>0. MainOK /\ WalkOK /\ BhsOK /\ FdsOK
    BY LoopParts, Zenon
  <1>1. UNCHANGED <<ctxVars, stopping>> /\ (call' = "freed" <=> call = "freed")
    BY Zenon DEF SubmitPost, CancelCheck
  <1> QED BY <1>0, <1>1, StillOK, LoopParts, Zenon DEF ctxVars, loopVars, pollVars, bhVars, fdVars

\* The pool's handler is in the list until thread_pool_free removes it.
LEMMA FreeTurnOK ==
  ASSUME FdsOK, call # "freed", NEW n, FreeTurn(n)
  PROVE  FdsOK'
  <1>1. CASE n > 0
    BY <1>1 DEF FreeTurn, FdsOK
  <1>2. CASE ~(n > 0)
    <2>1. RemoveNotifier(PoolFd) /\ call' = "freed" /\ handlers = <<PoolFd, Notifier>>
      BY <1>2, Zenon DEF FreeTurn, FdsOK
    <2>2. Unlink(<<PoolFd, Notifier>>, PoolFd) = <<Notifier>>
      <3>1. PICK s : s = <<PoolFd, Notifier>>
        BY Zenon
      <3>2. s[1] = PoolFd /\ s[2] = Notifier /\ Len(s) = 2 /\ DOMAIN s = 1..2
        BY <3>1
      <3>3. PICK k : k = CHOOSE i \in DOMAIN s : s[i] = PoolFd
        BY Zenon
      <3>4. k = 1
        BY <3>2, <3>3 DEF PoolFd, Notifier
      <3>5. Unlink(s, PoolFd) = [i \in 1..1 |-> s[i + 1]]
        BY <3>2, <3>3, <3>4 DEF Unlink
      <3>6. [i \in 1..1 |-> s[i + 1]] = <<Notifier>>
        BY <3>2
      <3> QED BY <3>1, <3>5, <3>6, Zenon
    <2>3. handlers' = <<Notifier>>
      BY <2>1, <2>2, Zenon DEF RemoveNotifier
    <2>4. <<Notifier>> \in Seq(CtxDescriptors)
      BY Descriptors
    <2>5. ready' \subseteq CtxDescriptors /\ revents' \subseteq CtxDescriptors
      BY <2>1, Descriptors, Zenon DEF RemoveNotifier, FdsOK
    <2> QED BY <2>1, <2>3, <2>4, <2>5, Zenon DEF FdsOK
  <1> QED BY <1>1, <1>2, Zenon

LEMMA FreeOK ==
  ASSUME PoolInv, LoopInv, Free \/ FreeCheck
  PROVE  LoopInv'
  <1>0. MainOK /\ WalkOK /\ BhsOK /\ FdsOK
    BY LoopParts, Zenon
  <1>1. CASE Free
    <2>1. /\ UNCHANGED <<bql, loopVars, pollVars, bhs>> /\ BhDelete(SpawnBh)
          /\ FreeTurn(cur_threads') /\ call = "none" /\ ~stopping /\ stopping'
      BY <1>1 DEF Free, Calling
    <2>2. BhsOK'
      BY <1>0, <2>1, Zenon DEF BhsOK, BhDelete, AppBh, SpawnBh
    <2>3. FdsOK'
      BY <1>0, <2>1, FreeTurnOK, Zenon
    <2> QED BY <1>0, <2>1, <2>2, <2>3, StillOK, LoopParts, Zenon
  <1>2. CASE FreeCheck
    <2>1. /\ UNCHANGED <<bql, loopVars, pollVars, bhVars, stopping>>
          /\ FreeTurn(cur_threads) /\ call = "free"
      BY <1>2, Zenon DEF FreeCheck
    <2>2. FdsOK'
      BY <1>0, <2>1, FreeTurnOK, Zenon
    <2> QED BY <1>0, <2>1, <2>2, StillOK, LoopParts
  <1> QED BY <1>1, <1>2, Zenon

LEMMA PollOK ==
  ASSUME WalkOK, BhsOK, NEW block \in BOOLEAN, AioPoll(block)
  PROVE  WalkOK'
  <1>1. at' = "bh" /\ walk' = bhs /\ blocking' = block /\ progress' = FALSE
    BY Zenon DEF AioPoll
  <1>2. bhs \in Seq(Elems(Bhs) \union CtxDescriptors)
    BY WiderSeq, Zenon DEF BhsOK
  <1> QED BY <1>1, <1>2, Zenon DEF WalkOK

LEMMA MainLoopOK ==
  ASSUME LoopInv, MainThread \/ MainRelock
  PROVE  LoopInv'
  <1>0. MainOK /\ WalkOK /\ BhsOK /\ FdsOK /\ UNCHANGED <<stopping, call>>
    BY LoopParts, Zenon DEF MainThread, MainRelock, poolVars
  <1>1. CASE MainPrepare
    <2>1. /\ prepared' \in BOOLEAN /\ main' = "ppoll" /\ bql' \in {"main", "none"}
          /\ UNCHANGED <<polled, pollVars, bhVars, fdVars>>
      BY <1>1 DEF MainPrepare
    <2>2. MainOK'
      BY <1>0, <2>1, Zenon DEF MainOK
    <2> QED BY <1>0, <2>1, <2>2, StillOK, LoopParts, Zenon
  <1>2. CASE MainPpoll
    <2>1. /\ polled' = ready /\ main' \in {"check", "lock"}
          /\ UNCHANGED <<bql, prepared, pollVars, bhVars, fdVars>>
      BY <1>2, Zenon DEF MainPpoll
    <2>2. MainOK'
      BY <1>0, <2>1, Zenon DEF MainOK, FdsOK
    <2> QED BY <1>0, <2>1, <2>2, StillOK, LoopParts, Zenon
  <1>3. CASE MainLock
    <2>1. bql' = "main" /\ main' = "check" /\ UNCHANGED <<prepared, polled, pollVars, bhVars, fdVars>>
      BY <1>3, Zenon DEF MainLock
    <2>2. MainOK'
      BY <1>0, <2>1, Zenon DEF MainOK
    <2> QED BY <1>0, <2>1, <2>2, StillOK, LoopParts, Zenon
  <1>4. CASE MainCheck
    <2>1. /\ main' = "prepare" /\ prepared' = FALSE /\ revents' = polled \intersect Elems(handlers)
          /\ UNCHANGED <<bql, polled, handlers, ready, bhVars>>
          /\ AioPoll(FALSE) \/ UNCHANGED pollVars
      BY <1>4, Zenon DEF MainCheck, AioPoll
    <2>2. MainOK'
      BY <1>0, <2>1, Zenon DEF MainOK
    <2>3. FdsOK'
      BY <1>0, <2>1, Zenon DEF MainOK, FdsOK
    <2>4. WalkOK'
      BY <1>0, <2>1, PollOK, StillOK
    <2> QED BY <1>0, <2>1, <2>2, <2>3, <2>4, StillOK, LoopParts, Zenon
  <1> QED BY <1>1, <1>2, <1>3, <1>4 DEF MainThread, MainRelock, MainStep

LEMMA VcpuOK ==
  ASSUME LoopInv, VcpuEnter \/ VcpuWait \/ VcpuLeave
  PROVE  LoopInv'
  <1>0. MainOK /\ WalkOK /\ BhsOK /\ FdsOK /\ UNCHANGED <<stopping, call>>
    BY LoopParts, Zenon DEF VcpuEnter, VcpuWait, VcpuLeave, poolVars
  <1>1. CASE VcpuLock \/ VcpuUnlock
    <2>1. bql' \in {"vcpu", "none"} /\ UNCHANGED <<loopVars, pollVars, bhVars, fdVars>>
      BY <1>1, Zenon DEF VcpuLock, VcpuUnlock
    <2>2. MainOK'
      BY <1>0, <2>1, Zenon DEF MainOK, loopVars
    <2> QED BY <1>0, <2>1, <2>2, StillOK, LoopParts
  <1>2. CASE VcpuPoll
    <2>1. AioPoll(TRUE) /\ UNCHANGED <<loopVars, bql, fdVars, bhVars>>
      BY <1>2, Zenon DEF VcpuPoll, AioPoll
    <2>2. WalkOK'
      BY <1>0, <2>1, PollOK, Zenon
    <2> QED BY <1>0, <2>1, <2>2, StillOK, LoopParts
  <1> QED BY <1>1, <1>2, Zenon DEF VcpuEnter, VcpuWait, VcpuLeave

\* Callbacks: of a bottom half, of the pool's handler, of ctx->notifier.
LEMMA RunOK ==
  ASSUME LoopInv, UNCHANGED <<stopping, call>>,
         \/ \E b : BhRun(b) /\ scheduled' = scheduled \ {b} /\ ready' = ready
         \/ \E fd : HandlerRun(fd) /\ ready' = ready \ {fd} /\ scheduled' = scheduled
  PROVE  LoopInv'
  <1>0. MainOK /\ WalkOK /\ BhsOK /\ FdsOK
    BY LoopParts, Zenon
  <1>1. /\ UNCHANGED <<loopVars, bql, at, bhs, deleted, handlers>>
        /\ \E S : Hits(S) # {} /\ walk' = Rest(Next1(S))
        /\ blocking' \in BOOLEAN /\ progress' \in BOOLEAN
    BY <1>0, Zenon DEF BhRun, HandlerRun, WalkOK
  <1>2. scheduled' \subseteq scheduled /\ ready' \subseteq ready /\ revents' \subseteq revents
    BY DEF BhRun, HandlerRun
  <1>3. walk' \in Seq(Elems(Bhs) \union CtxDescriptors)
    BY <1>0, <1>1, RestOK DEF WalkOK
  <1>4. WalkOK'
    BY <1>0, <1>1, <1>3, Zenon DEF WalkOK
  <1>5. BhsOK'
    BY <1>0, <1>1, <1>2 DEF BhsOK
  <1>6. FdsOK'
    BY <1>0, <1>1, <1>2 DEF FdsOK
  <1> QED BY <1>0, <1>1, <1>4, <1>5, <1>6, StillOK, LoopParts

LEMMA PollStepOK ==
  ASSUME LoopInv, PollStep, UNCHANGED poolVars
  PROVE  LoopInv'
  <1>0. /\ MainOK /\ WalkOK /\ BhsOK /\ FdsOK /\ UNCHANGED <<stopping, call>>
        /\ handlers \in Seq(Elems(Bhs) \union CtxDescriptors)
    <2>1. MainOK /\ WalkOK /\ BhsOK /\ FdsOK /\ UNCHANGED <<stopping, call>>
      BY LoopParts DEF poolVars
    <2> QED BY <2>1, WiderSeq DEF FdsOK
  <1>1. CASE BhEnd
    <2>1. /\ UNCHANGED <<loopVars, bql, blocking, progress, scheduled, fdVars>>
          /\ at' = "dispatch" /\ walk' = handlers /\ bhs' = Without(bhs, deleted) /\ deleted' = {}
      BY <1>1, Zenon DEF BhEnd
    <2>2. WalkOK'
      BY <1>0, <2>1, Zenon DEF WalkOK
    <2>3. bhs' \in Seq(Elems(Bhs)) /\ Elems(bhs') = Elems(bhs) \ deleted
      BY <1>0, <2>1, WithoutList, Zenon DEF BhsOK
    <2>4. BhsOK'
      BY <1>0, <2>1, <2>3 DEF BhsOK
    <2> QED BY <1>0, <2>1, <2>2, <2>4, StillOK, LoopParts, Zenon
  <1>2. CASE NotifierRun
    BY <1>0, <1>2, RunOK DEF NotifierRun
  <1>3. CASE DispatchEnd
    <2>1. /\ UNCHANGED <<loopVars, bql, bhVars, fdVars>>
          /\ at' \in {"out", "poll"} /\ walk' = <<>>
          /\ blocking' \in BOOLEAN /\ progress' \in BOOLEAN
      BY <1>3, Zenon DEF DispatchEnd
    <2>2. <<>> \in Seq(Elems(Bhs) \union CtxDescriptors)
      OBVIOUS
    <2>3. WalkOK'
      BY <2>1, <2>2, Zenon DEF WalkOK
    <2> QED BY <1>0, <2>1, <2>3, StillOK, LoopParts, Zenon
  <1>4. CASE Poll
    <2>1. /\ UNCHANGED <<loopVars, bql, blocking, progress, bhVars, handlers, ready>>
          /\ at' = "redispatch" /\ walk' = handlers
          /\ revents' = revents \/ revents' = ready \intersect Elems(handlers)
      BY <1>4, Zenon DEF Poll
    <2>2. WalkOK'
      BY <1>0, <2>1, Zenon DEF WalkOK
    <2>3. FdsOK'
      BY <1>0, <2>1 DEF FdsOK
    <2> QED BY <1>0, <2>1, <2>2, <2>3, StillOK, LoopParts
  <1> QED BY <1>1, <1>2, <1>3, <1>4, Zenon DEF PollStep

LEMMA ScanOK ==
  ASSUME LoopInv, ScanElement
  PROVE  LoopInv'
  <1>0. MainOK /\ WalkOK /\ BhsOK /\ FdsOK
    BY LoopParts, Zenon
  <1>1. /\ UNCHANGED <<bql, loopVars, pollVars, bhs, deleted, handlers, revents, stopping, call>>
        /\ UNCHANGED <<scheduled, ready>> \/ \E want : BhSchedule(AppBh, want)
    BY Zenon DEF ScanElement
  <1>2. AppBh \in Elems(bhs) \ deleted
    BY <1>0, Zenon DEF BhsOK
  <1>3. BhsOK' /\ FdsOK'
    <2>1. CASE UNCHANGED <<scheduled, ready>>
      BY <1>0, <1>1, <2>1, StillOK DEF bhVars, fdVars
    <2>2. CASE \E want : BhSchedule(AppBh, want)
      BY <1>0, <1>1, <1>2, <2>2, ScheduleOK, Zenon
    <2> QED BY <1>1, <2>1, <2>2
  <1> QED BY <1>0, <1>1, <1>3, StillOK, LoopParts, Zenon

LEMMA TypesStep == PoolInv /\ LoopInv /\ [Next]_vars => LoopInv'
  <1> SUFFICES ASSUME PoolInv, LoopInv, [Next]_vars PROVE LoopInv'
    BY Zenon
  <1>1. ASSUME NEW w \in Workers, Worker(w) \/ WorkerTimeout(w) PROVE LoopInv'
    BY <1>1, WorkerOK, Zenon
  <1>2. CASE Vcpu
    BY <1>2, CallOK, FreeOK, VcpuOK DEF Vcpu
  <1>3. CASE VcpuReturns
    BY <1>3, ReturnOK, FreeOK, VcpuOK, Zenon DEF VcpuReturns
  <1>4. CASE MainThread \/ MainRelock
    BY <1>4, MainLoopOK, Zenon
  <1>5. CASE SpawnThreadBh \/ CompletionBh \/ PoolReady
    <2>1. UNCHANGED <<stopping, call>>
      BY <1>5, Zenon DEF SpawnThreadBh, CompletionBh, PoolReady, poolVars
    <2>2. \/ \E b : BhRun(b) /\ scheduled' = scheduled \ {b} /\ ready' = ready
          \/ \E fd : HandlerRun(fd) /\ ready' = ready \ {fd} /\ scheduled' = scheduled
      BY <1>5, Zenon DEF SpawnThreadBh, CompletionBh, PoolReady
    <2> QED BY <2>1, <2>2, RunOK
  <1>6. CASE Polling
    BY <1>5, <1>6, ScanOK, PollStepOK DEF Polling
  <1>7. CASE UNCHANGED vars
    <2>1. UNCHANGED <<ctxVars, stopping, call>>
      BY <1>7, Zenon DEF vars, poolVars
    <2> QED BY <2>1, StillOK, LoopParts, Zenon DEF ctxVars, loopVars, pollVars, bhVars, fdVars
  <1> QED BY <1>1, <1>2, <1>3, <1>4, <1>6, <1>7 DEF Next

LEMMA CountersInRange == PoolInv /\ LoopInv => TypeOK
  <1> SUFFICES ASSUME PoolInv, LoopInv PROVE TypeOK
    BY Zenon
  <1>1. CtxTypeOK
    BY Zenon DEF LoopInv
  <1>2. PoolTypes /\ CallsHold /\ CountsHold
    BY Zenon DEF PoolInv
  <1>3. target \in Reqs \union {None} /\ pending_cancellations \in {0, 1}
    BY <1>2, Zenon DEF CallsHold
  <1>4. max_threads \in Nat /\ \A L : Count(pc, L) \in Nat /\ Count(pc, L) <= max_threads
    BY CountFacts, Zenon
  <1>5. idle_threads <= max_threads /\ pending_threads <= max_threads
    BY <1>2, <1>4, Zenon DEF CountsHold
  <1>6. cur_threads <= max_threads /\ new_threads <= max_threads
    BY <1>2, <1>4 DEF CountsHold, PoolTypes
  <1> QED BY <1>1, <1>2, <1>3, <1>4, <1>5, <1>6 DEF TypeOK, PoolTypes

\* Types of the event loop and of the pool, for any workers, requests and order of the
\* bottom halves: no counter of thread-pool.c passes max_threads or goes below zero,
\* qemu_bh_schedule never sets the flag of a bottom half that was deleted or freed, and
\* aio_bh_poll and aio_dispatch only meet nodes of their lists.
THEOREM PoolTypeCorrect == Spec => []TypeOK
  <1>1. Init => LoopInv
    BY InitLoop, Zenon
  <1> QED BY <1>1, PoolInvariant, TypesStep, CountersInRange, PTL DEF Spec
=============================================================================
