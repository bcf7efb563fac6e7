----------------------------- MODULE ThreadPool -----------------------------
(***************************************************************************)
(* The thread pool of the block layer, thread-pool.c, on the event loop of *)
(* AioContext.                                                             *)
(*                                                                         *)
(* Device code submits a request with the iothread mutex held; a worker    *)
(* thread runs it; event_notifier_ready, called from the event loop, calls *)
(* the completion.  Every section under pool->lock is one step, because    *)
(* none of them blocks except in a condition wait, which gives the lock    *)
(* up.  What happens outside the lock is a step of its own: the post of    *)
(* the semaphore, the waits for it, the request's function, the write of   *)
(* THREAD_DONE, and every element that event_notifier_ready looks at.      *)
(***************************************************************************)
EXTENDS AioContext, FiniteSets

CONSTANTS
  Workers,      \* as many as max_threads allows
  Reqs,         \* elements that can be submitted at the same time
  NoCb,         \* those of thread_pool_submit, which has no completion
  None

SpawnBh == "new_thread_bh"
AppBh == "completion_bh"      \* a bottom half that completions schedule
PoolFd == "pool->notifier"

max_threads == Cardinality(Workers)

ASSUME BhsAssumption == Bhs \in Seq({SpawnBh, AppBh}) /\ Elems(Bhs) = {SpawnBh, AppBh}
ASSUME HandlersAssumption == Handlers = <<PoolFd>>
ASSUME WorkersAssumption == IsFiniteSet(Workers) /\ Workers # {}
ASSUME ReqsAssumption == NoCb \subseteq Reqs /\ None \notin Reqs

VARIABLES
  state,        \* state of each element, or "free"
  head,         \* pool->head, under the iothread mutex
  scan,         \* elements that event_notifier_ready has left to look at
  request_list, sem,
  cur_threads, idle_threads, new_threads, pending_threads,
  pending_cancellations, stopping,
  call, target, \* the call that the VCPU thread is in, and its element
  pc, job       \* of each worker: where it is, and the request it has

counters == <<cur_threads, idle_threads, new_threads, pending_threads>>
poolVars == <<state, head, scan, request_list, sem, counters,
              pending_cancellations, stopping, call, target, pc, job>>
vars == <<ctxVars, poolVars>>

Alive == {w \in Workers : pc[w] # "none"}
AtPc(l) == {w \in Workers : pc[w] = l}
Finished(r) == state[r] \in {"done", "canceled"}

States == {"free", "queued", "active", "done", "canceled"}
Calls == {"none", "post", "cancelwait", "cancel", "freewait", "free", "freed"}
WorkerPcs == {"none", "pending", "wait", "woken", "timedout", "run", "finished"}

\* The counters stay in range, and every list holds elements.
TypeOK ==
  /\ CtxTypeOK
  /\ state \in [Reqs -> States]
  /\ head \in Seq(Reqs) /\ scan \in Seq(Reqs) /\ request_list \in Seq(Reqs)
  /\ sem \in Nat
  /\ cur_threads \in 0..max_threads /\ idle_threads \in 0..max_threads
  /\ new_threads \in 0..max_threads /\ pending_threads \in 0..max_threads
  /\ pending_cancellations \in {0, 1} /\ stopping \in BOOLEAN
  /\ call \in Calls
  /\ target \in Reqs \union {None}
  /\ pc \in [Workers -> WorkerPcs]
  /\ job \in [Workers -> Reqs \union {None}]

Init ==
  /\ CtxInit
  /\ state = [r \in Reqs |-> "free"]
  /\ head = <<>> /\ scan = <<>> /\ request_list = <<>> /\ sem = 0
  /\ cur_threads = 0 /\ idle_threads = 0 /\ new_threads = 0 /\ pending_threads = 0
  /\ pending_cancellations = 0 /\ stopping = FALSE
  /\ call = "none" /\ target = None
  /\ pc = [w \in Workers |-> "none"] /\ job = [w \in Workers |-> None]

-----------------------------------------------------------------------------
(* Worker threads.  A worker that leaves signals worker_stopped; one that  *)
(* has finished a request broadcasts check_cancel to those that wait.      *)

\* do_spawn_thread: the new thread, if there is a backlog, is not running yet
SpawnInto(pcs, pending) ==
  IF new_threads = 0
  THEN /\ pc' = pcs /\ pending_threads' = pending
       /\ UNCHANGED new_threads
  ELSE /\ new_threads' = new_threads - 1 /\ pending_threads' = pending + 1
       /\ \E t \in AtPc("none") : pc' = [pcs EXCEPT ![t] = "pending"]

WorkerStopped_NoSignal == call
WorkerStopped == IF call = "freewait" THEN "free" ELSE call

\* the test at the top of worker_thread's loop, idle workers being n
EnterLoop_KeepsCount(n) ==
  /\ idle_threads' = IF stopping THEN n ELSE n + 1
  /\ UNCHANGED cur_threads
EnterLoop(n) ==
  /\ idle_threads' = IF stopping THEN n ELSE n + 1
  /\ cur_threads' = IF stopping THEN cur_threads - 1 ELSE cur_threads
LoopPc == IF stopping THEN "none" ELSE "wait"

WorkerStart(w) ==
  /\ pc[w] = "pending"
  /\ SpawnInto([pc EXCEPT ![w] = LoopPc], pending_threads - 1)
  /\ EnterLoop(idle_threads)
  /\ call' = IF stopping THEN WorkerStopped ELSE call
  /\ UNCHANGED <<ctxVars, state, head, scan, request_list, sem,
                 pending_cancellations, stopping, target, job>>

WorkerToken(w) ==
  /\ pc[w] = "wait" /\ sem > 0
  /\ sem' = sem - 1
  /\ pc' = [pc EXCEPT ![w] = "woken"]
  /\ UNCHANGED <<ctxVars, state, head, scan, request_list, counters,
                 pending_cancellations, stopping, call, target, job>>

WorkerTimeout(w) ==
  /\ pc[w] = "wait" /\ sem = 0
  /\ pc' = [pc EXCEPT ![w] = "timedout"]
  /\ UNCHANGED <<ctxVars, state, head, scan, request_list, sem, counters,
                 pending_cancellations, stopping, call, target, job>>

\* the first request leaves the list; with none the code would follow NULL
WorkerDequeue(w) ==
  LET req == IF request_list = <<>> THEN None ELSE Head(request_list)
  IN /\ pc[w] = "woken" /\ ~stopping
     /\ idle_threads' = idle_threads - 1
     /\ request_list' = IF req = None THEN <<>> ELSE Tail(request_list)
     /\ state' = [r \in Reqs |-> IF r = req THEN "active" ELSE state[r]]
     /\ job' = [job EXCEPT ![w] = req]
     /\ pc' = [pc EXCEPT ![w] = "run"]
     /\ UNCHANGED <<ctxVars, head, scan, sem, cur_threads, new_threads, pending_threads,
                    pending_cancellations, stopping, call, target>>

WorkerStop(w) ==
  /\ \/ pc[w] = "woken" /\ stopping
     \/ pc[w] = "timedout" /\ request_list = <<>>
  /\ idle_threads' = idle_threads - 1 /\ cur_threads' = cur_threads - 1
  /\ pc' = [pc EXCEPT ![w] = "none"]
  /\ call' = WorkerStopped
  /\ UNCHANGED <<ctxVars, state, head, scan, request_list, sem, new_threads,
                 pending_threads, pending_cancellations, stopping, target, job>>

\* a request came while the wait timed out: wait again
WorkerRetry(w) ==
  /\ pc[w] = "timedout" /\ request_list # <<>>
  /\ pc' = [pc EXCEPT ![w] = "wait"]
  /\ UNCHANGED <<ctxVars, state, head, scan, request_list, sem, counters,
                 pending_cancellations, stopping, call, target, job>>

\* req->func returns and the state is written, without the lock
WorkerDone(w) ==
  /\ pc[w] = "run"
  /\ state' = [r \in Reqs |-> IF r = job[w] THEN "done" ELSE state[r]]
  /\ pc' = [pc EXCEPT ![w] = "finished"]
  /\ UNCHANGED <<ctxVars, head, scan, request_list, sem, counters,
                 pending_cancellations, stopping, call, target, job>>

WorkerNotify(w) ==
  /\ pc[w] = "finished"
  /\ ready' = ready \union {PoolFd}
  /\ EnterLoop(idle_threads)
  /\ pc' = [pc EXCEPT ![w] = LoopPc]
  /\ job' = [job EXCEPT ![w] = None]
  /\ call' = IF pending_cancellations > 0 /\ call = "cancelwait" THEN "cancel"
             ELSE IF stopping THEN WorkerStopped ELSE call
  /\ UNCHANGED <<bql, loopVars, pollVars, bhVars, handlers, revents, state, head, scan,
                 request_list, sem, new_threads, pending_threads,
                 pending_cancellations, stopping, target>>

Worker(w) ==
  \/ WorkerStart(w) \/ WorkerToken(w) \/ WorkerDequeue(w) \/ WorkerStop(w)
  \/ WorkerRetry(w) \/ WorkerDone(w) \/ WorkerNotify(w)

-----------------------------------------------------------------------------
(* Calls of the VCPU thread                                                *)

Calling == bql = "vcpu" /\ at = "out" /\ call = "none"

MaySpawn_OffByOne == idle_threads = 0 /\ cur_threads <= max_threads
MaySpawn == idle_threads = 0 /\ cur_threads < max_threads

\* spawn_thread leaves the backlog to a thread that is being created
NeedsBh_FirstOnly == cur_threads = 0
NeedsBh == pending_threads = 0

Enqueue_AtHead(r) == <<r>> \o request_list
Enqueue(r) == Append(request_list, r)

\* thread_pool_submit_aio up to the post of the semaphore
Submit(r) ==
  LET spawn == MaySpawn
  IN /\ Calling /\ state[r] = "free"
     /\ state' = [state EXCEPT ![r] = "queued"]
     /\ head' = <<r>> \o head
     /\ cur_threads' = cur_threads + (IF spawn THEN 1 ELSE 0)
     /\ new_threads' = new_threads + (IF spawn THEN 1 ELSE 0)
     /\ BhSchedule(SpawnBh, spawn /\ NeedsBh)
     /\ request_list' = Enqueue(r)
     /\ call' = "post"
     /\ UNCHANGED <<bql, loopVars, pollVars, bhs, deleted, handlers, revents, scan, sem,
                    idle_threads, pending_threads, pending_cancellations, stopping,
                    target, pc, job>>

SubmitPost ==
  /\ call = "post"
  /\ sem' = sem + 1 /\ call' = "none"
  /\ UNCHANGED <<ctxVars, state, head, scan, request_list, counters,
                 pending_cancellations, stopping, target, pc, job>>

CancelSteal_KeepsToken(r) ==
  /\ Calling /\ state[r] = "queued"
  /\ request_list' = Unlink(request_list, r)
  /\ state' = [state EXCEPT ![r] = "canceled"]
  /\ ready' = ready \union {PoolFd}
  /\ UNCHANGED <<bql, loopVars, pollVars, bhVars, handlers, revents, head, scan, counters,
                 sem, pending_cancellations, stopping, call, target, pc, job>>

CancelSteal_Silent(r) ==
  /\ Calling /\ state[r] = "queued" /\ sem > 0
  /\ sem' = sem - 1
  /\ request_list' = Unlink(request_list, r)
  /\ state' = [state EXCEPT ![r] = "canceled"]
  /\ UNCHANGED <<ctxVars, head, scan, counters,
                 pending_cancellations, stopping, call, target, pc, job>>

\* thread_pool_cancel steals the element if the semaphore can be had
CancelSteal(r) ==
  /\ Calling /\ state[r] = "queued" /\ sem > 0
  /\ sem' = sem - 1
  /\ request_list' = Unlink(request_list, r)
  /\ state' = [state EXCEPT ![r] = "canceled"]
  /\ ready' = ready \union {PoolFd}
  /\ UNCHANGED <<bql, loopVars, pollVars, bhVars, handlers, revents, head, scan, counters,
                 pending_cancellations, stopping, call, target, pc, job>>

\* ... and otherwise waits until a worker is through with it
CancelWait(r) ==
  /\ Calling /\ state[r] \in {"queued", "active"} /\ ~(state[r] = "queued" /\ sem > 0)
  /\ pending_cancellations' = pending_cancellations + 1
  /\ call' = "cancelwait" /\ target' = r
  /\ UNCHANGED <<ctxVars, state, head, scan, request_list, sem, counters, stopping,
                 pc, job>>

CancelCheck_IfForWhile ==
  /\ call = "cancel"
  /\ pending_cancellations' = pending_cancellations - 1
  /\ call' = "none" /\ target' = None
  /\ UNCHANGED <<ctxVars, state, head, scan, request_list, sem, counters, stopping,
                 pc, job>>

CancelCheck ==
  /\ call = "cancel"
  /\ IF Finished(target)
     THEN /\ pending_cancellations' = pending_cancellations - 1
          /\ call' = "none" /\ target' = None
     ELSE /\ call' = "cancelwait"
          /\ UNCHANGED <<pending_cancellations, target>>
  /\ UNCHANGED <<ctxVars, state, head, scan, request_list, sem, counters, stopping,
                 pc, job>>

\* thread_pool_free: one turn of its loop, with cur threads left
FreeTurn(cur) ==
  IF cur > 0
  THEN /\ sem' = sem + 1 /\ call' = "freewait"
       /\ UNCHANGED <<handlers, revents, ready>>
  ELSE /\ RemoveNotifier(PoolFd) /\ call' = "freed"
       /\ UNCHANGED sem

Free ==
  /\ Calling /\ head = <<>> /\ ~stopping
  /\ BhDelete(SpawnBh)
  /\ cur_threads' = cur_threads - new_threads /\ new_threads' = 0
  /\ stopping' = TRUE
  /\ FreeTurn(cur_threads')
  /\ UNCHANGED <<bql, loopVars, pollVars, bhs, state, head, scan, request_list,
                 idle_threads, pending_threads, pending_cancellations, target, pc, job>>

FreeCheck ==
  /\ call = "free"
  /\ FreeTurn(cur_threads)
  /\ UNCHANGED <<bql, loopVars, pollVars, bhVars, state, head, scan, request_list, counters,
                 pending_cancellations, stopping, target, pc, job>>

\* the thread takes the mutex for an access, waits for I/O of its own, returns
VcpuEnter == VcpuLock /\ UNCHANGED poolVars
VcpuWait == call = "none" /\ head # <<>> /\ VcpuPoll /\ UNCHANGED poolVars
VcpuLeave == call \in {"none", "freed"} /\ VcpuUnlock /\ UNCHANGED poolVars

-----------------------------------------------------------------------------
(* Callbacks of the event loop                                             *)

\* spawn_thread_bh_fn
SpawnThreadBh ==
  /\ BhRun(SpawnBh)
  /\ scheduled' = scheduled \ {SpawnBh}
  /\ SpawnInto(pc, pending_threads)
  /\ UNCHANGED <<ready, state, head, scan, request_list, sem, cur_threads, idle_threads,
                 pending_cancellations, stopping, call, target, job>>

CompletionBh ==
  /\ BhRun(AppBh)
  /\ scheduled' = scheduled \ {AppBh}
  /\ UNCHANGED <<ready, poolVars>>

\* event_notifier_ready clears the notifier and starts at the list's head
PoolReady ==
  /\ HandlerRun(PoolFd)
  /\ ready' = ready \ {PoolFd}
  /\ scan' = head
  /\ UNCHANGED <<scheduled, state, head, request_list, sem, counters,
                 pending_cancellations, stopping, call, target, pc, job>>

\* ... and looks at one element: a completion is called and the walk restarts
ScanElement ==
  LET e == Head(scan)
      others == Unlink(head, e)
      complete == state[e] = "done" /\ e \notin NoCb
  IN /\ scan # <<>>
     /\ IF ~Finished(e)
        THEN /\ scan' = Tail(scan)
             /\ UNCHANGED <<state, head, scheduled, ready>>
        ELSE /\ head' = others
             /\ scan' = IF complete THEN others ELSE Tail(scan)
             /\ state' = [state EXCEPT ![e] = "free"]
             /\ \E bh \in BOOLEAN : BhSchedule(AppBh, complete /\ bh)
     /\ UNCHANGED <<bql, loopVars, pollVars, bhs, deleted, handlers, revents, request_list,
                    sem, counters, pending_cancellations, stopping, call, target, pc, job>>

MainThread == MainStep /\ UNCHANGED poolVars
MainRelock == MainLock /\ UNCHANGED poolVars
Polling ==
  \/ SpawnThreadBh \/ CompletionBh \/ PoolReady \/ ScanElement
  \/ scan = <<>> /\ PollStep /\ UNCHANGED poolVars

Vcpu ==
  \/ \E r \in Reqs : Submit(r) \/ CancelSteal(r) \/ CancelWait(r)
  \/ Free \/ VcpuEnter \/ VcpuWait

VcpuReturns == SubmitPost \/ CancelCheck \/ FreeCheck \/ VcpuLeave

Next ==
  \/ \E w \in Workers : Worker(w) \/ WorkerTimeout(w)
  \/ Vcpu \/ VcpuReturns
  \/ MainThread \/ MainRelock \/ Polling

Spec == Init /\ [][Next]_vars

\* Every thread that can run does; functions of requests end.  Main's ppoll
\* has the deadline of a timer (PIT, display refresh), and the thread gets
\* the mutex although the VCPU thread keeps taking it: qemu_tcg_wait_io_event
\* waits while iothread_requesting_mutex is set.
FairSpec ==
  /\ Spec
  /\ \A w \in Workers : WF_vars(Worker(w))
  /\ WF_vars(VcpuReturns) /\ WF_vars(Polling)
  /\ WF_vars(MainThread) /\ SF_vars(MainRelock)

-----------------------------------------------------------------------------
(* Properties                                                              *)

\* Every queued request has exactly one token: in the semaphore, taken by a
\* worker that has yet to lock, or about to be posted.  So worker_thread
\* never finds request_list empty after sem_timedwait, and the element that
\* thread_pool_cancel steals leaves no token behind.
TokensMatch ==
  ~stopping => Len(request_list)
               = sem + Cardinality(AtPc("woken")) + (IF call = "post" THEN 1 ELSE 0)

\* The counters are the threads they count: a thread that times out, starts
\* while the pool stops, or is still in the backlog is counted once.
ThreadsCounted ==
  /\ cur_threads = new_threads + Cardinality(Alive)
  /\ pending_threads = Cardinality(AtPc("pending"))
  /\ idle_threads = Cardinality(AtPc("wait") \union AtPc("woken") \union AtPc("timedout"))

\* A queued request is not left without a worker: some thread is there or is
\* in the backlog, and the backlog has a starting thread or the bottom half
\* of spawn_thread to work it off.
QueueHasWorker ==
  /\ request_list # <<>> => cur_threads > 0
  /\ new_threads > 0 => pending_threads > 0 \/ SpawnBh \in scheduled

\* No completion is lost: a finished request is in the part of the list that
\* event_notifier_ready has yet to see, or the notifier is set, or the worker
\* that finished it is about to set it.
CompletionIsSeen ==
  \A r \in Reqs : Finished(r) =>
    \/ r \in Elems(scan) \/ PoolFd \in ready
    \/ \E w \in Workers : pc[w] = "finished" /\ job[w] = r

\* No wait of the VCPU thread misses its signal.  In thread_pool_cancel the
\* request is still to be finished, or the worker that finished it has yet to
\* take the lock and broadcast; in thread_pool_free some worker is on its way
\* out or has a token to be woken by.
WaitersAreWoken ==
  /\ call = "cancelwait" =>
       /\ pending_cancellations > 0
       /\ \/ \E i \in DOMAIN request_list : request_list[i] = target
          \/ \E w \in Workers : pc[w] \in {"run", "finished"} /\ job[w] = target
  /\ call = "freewait" => \E w \in Workers : pc[w] # "none" /\ (pc[w] = "wait" => sem > 0)

\* thread_pool_cancel returns only when no worker will touch the request any
\* more, and a canceled request is never run.
CancelIsFinal ==
  [][/\ (target # None /\ target' = None) => Finished(target)
     /\ \A r \in Reqs : state[r] = "canceled" => state'[r] \in {"canceled", "free"}]_vars

\* A main loop asleep in ppoll, with nobody else in the loop, has a readable
\* notifier if a bottom half is scheduled.
BhInterruptsMain ==
  main = "ppoll" /\ bql = "none" /\ scheduled # {} => Notifier \in ready

\* Every submitted request is completed or canceled, and its element released:
\* whatever thread_pool_submit_aio took is free again later.
RequestsComplete == \A r \in Reqs : []<>(state[r] = "free")
=============================================================================
