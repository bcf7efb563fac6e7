-------------------------- MODULE ThreadPoolLemmas --------------------------
(***************************************************************************)
(* Proofs about ThreadPool, for any finite set of workers and any requests.*)
(*                                                                         *)
(* TokensMatch, QueueHasWorker and the rest are not inductive alone: a     *)
(* worker finds a request only if tokens match, the tokens match after a   *)
(* cancellation only if a queued element is in request_list exactly once,  *)
(* and nobody is in event_notifier_ready while a call of the VCPU thread   *)
(* waits.  PoolInv is their conjunction with these facts.                  *)
(***************************************************************************)
EXTENDS ThreadPool, TLAPS, FiniteSetTheorems

InList(r, s) == \E i \in DOMAIN s : s[i] = r
NoRepeats(s) == \A i, j \in DOMAIN s : s[i] = s[j] => i = j

PoolTypes ==
  /\ state \in [Reqs -> States]
  /\ head \in Seq(Reqs) /\ scan \in Seq(Reqs) /\ request_list \in Seq(Reqs)
  /\ sem \in Nat
  /\ cur_threads \in Nat /\ idle_threads \in Nat
  /\ new_threads \in Nat /\ pending_threads \in Nat
  /\ stopping \in BOOLEAN /\ call \in Calls
  /\ pc \in [Workers -> WorkerPcs]
  /\ job \in [Workers -> Reqs \union {None}]

\* The lists hold the elements that their states say, once each.
ListsHold ==
  /\ \A r \in Reqs : InList(r, request_list) <=> state[r] = "queued"
  /\ \A r \in Reqs : InList(r, head) <=> state[r] # "free"
  /\ NoRepeats(request_list) /\ NoRepeats(head)

\* An active request is run by one worker.
JobsHold ==
  /\ \A w \in Workers : pc[w] = "run" => job[w] \in Reqs /\ state[job[w]] = "active"
  /\ \A v, w \in Workers : pc[v] = "run" /\ pc[w] = "run" /\ job[v] = job[w] => v = w
  /\ \A r \in Reqs : state[r] = "active" => \E w \in Workers : pc[w] = "run" /\ job[w] = r

\* A call that waits has the iothread mutex, so the loop stands still.
CallsHold ==
  /\ IF call \in {"cancelwait", "cancel"}
     THEN target \in Reqs /\ state[target] # "free" /\ pending_cancellations = 1
     ELSE target = None /\ pending_cancellations = 0
  /\ stopping <=> call \in {"freewait", "free", "freed"}
  /\ stopping => head = <<>> /\ new_threads = 0
  /\ call \notin {"none", "freed"} => bql = "vcpu" /\ at = "out"
  /\ main = "check" => bql = "main"
  /\ scan # <<>> => at \in {"dispatch", "redispatch"}

\* ThreadsCounted and TokensMatch, with one way of counting threads.
Count(p, L) == Cardinality({w \in Workers : p[w] \in L})
In(x, L) == IF x \in L THEN 1 ELSE 0
Live == WorkerPcs \ {"none"}
Idle == {"wait", "woken", "timedout"}
CountsHold ==
  /\ cur_threads = new_threads + Count(pc, Live) /\ cur_threads <= max_threads
  /\ pending_threads = Count(pc, {"pending"})
  /\ idle_threads = Count(pc, Idle)
  /\ ~stopping => Len(request_list)
                  = sem + Count(pc, {"woken"}) + (IF call = "post" THEN 1 ELSE 0)

PoolInv ==
  /\ PoolTypes /\ ListsHold /\ JobsHold /\ CallsHold /\ CountsHold
  /\ QueueHasWorker /\ CompletionIsSeen /\ WaitersAreWoken

-----------------------------------------------------------------------------
(* Lists                                                                   *)

LEMMA UnlinkList ==
  ASSUME NEW S, NEW s \in Seq(S), NoRepeats(s), NEW e, InList(e, s)
  PROVE  /\ Unlink(s, e) \in Seq(S) /\ Len(Unlink(s, e)) = Len(s) - 1
         /\ NoRepeats(Unlink(s, e))
         /\ \A r : InList(r, Unlink(s, e)) <=> InList(r, s) /\ r # e
  <1> DEFINE k == CHOOSE i \in DOMAIN s : s[i] = e
             u == Unlink(s, e)
  <1>1. k \in 1..Len(s) /\ s[k] = e
    BY DEF InList
  <1>2. u = [i \in 1..(Len(s) - 1) |-> IF i < k THEN s[i] ELSE s[i + 1]]
    BY Zenon DEF Unlink
  <1> HIDE DEF k
  <1>3. u \in Seq(S) /\ Len(u) = Len(s) - 1 /\ DOMAIN u = 1..(Len(s) - 1)
    <2>1. Len(s) - 1 \in Nat
      BY <1>1
    <2>2. \A i \in 1..(Len(s) - 1) : u[i] \in S
      BY <1>1, <1>2
    <2> QED BY <1>2, <2>1, <2>2
  <1> HIDE DEF u
  <1>4. \A i \in DOMAIN u : u[i] # e /\ \E j \in DOMAIN s : s[j] = u[i]
    BY <1>1, <1>2, <1>3 DEF NoRepeats
  <1>5. \A j \in DOMAIN s : s[j] # e => \E i \in DOMAIN u : u[i] = s[j]
    <2> TAKE j \in DOMAIN s
    <2> HAVE s[j] # e
    <2>1. CASE j < k
      <3>1. j \in DOMAIN u /\ u[j] = s[j]
        BY <1>1, <1>2, <1>3, <2>1
      <3> QED BY <3>1, Zenon
    <2>2. CASE j > k
      <3>1. j - 1 \in DOMAIN u /\ u[j - 1] = s[j]
        BY <1>1, <1>2, <1>3, <2>2
      <3> QED BY <3>1, Zenon
    <2> QED BY <1>1, <2>1, <2>2
  <1>6. NoRepeats(u)
    <2> SUFFICES ASSUME NEW i \in DOMAIN u, NEW j \in DOMAIN u, u[i] = u[j] PROVE i = j
      BY Zenon DEF NoRepeats
    <2>1. CASE i < k /\ j < k
      BY <1>1, <1>2, <1>3, <2>1 DEF NoRepeats
    <2>2. CASE i < k /\ ~(j < k)
      BY <1>1, <1>2, <1>3, <2>2 DEF NoRepeats
    <2>3. CASE ~(i < k) /\ j < k
      BY <1>1, <1>2, <1>3, <2>3 DEF NoRepeats
    <2>4. CASE ~(i < k) /\ ~(j < k)
      BY <1>1, <1>2, <1>3, <2>4 DEF NoRepeats
    <2> QED BY <2>1, <2>2, <2>3, <2>4, Zenon
  <1>7. \A r : InList(r, u) <=> InList(r, s) /\ r # e
    BY <1>4, <1>5 DEF InList
  <1> QED BY <1>3, <1>6, <1>7, Zenon DEF u

LEMMA AppendList ==
  ASSUME NEW S, NEW s \in Seq(S), NoRepeats(s), NEW e \in S, ~InList(e, s)
  PROVE  /\ Append(s, e) \in Seq(S) /\ Len(Append(s, e)) = Len(s) + 1
         /\ NoRepeats(Append(s, e))
         /\ \A r : InList(r, Append(s, e)) <=> InList(r, s) \/ r = e
  <1> DEFINE t == Append(s, e)
  <1>1. /\ t \in Seq(S) /\ Len(t) = Len(s) + 1 /\ DOMAIN t = 1..(Len(s) + 1)
        /\ t[Len(s) + 1] = e /\ \A i \in 1..Len(s) : t[i] = s[i]
        /\ Len(s) \in Nat /\ DOMAIN s = 1..Len(s)
    OBVIOUS
  <1> HIDE DEF t
  <1>2. NoRepeats(t)
    BY <1>1 DEF NoRepeats, InList
  <1>3. ASSUME NEW r PROVE InList(r, t) <=> InList(r, s) \/ r = e
    <2>1. InList(r, t) => InList(r, s) \/ r = e
      BY <1>1 DEF InList
    <2>2. InList(r, s) => InList(r, t)
      BY <1>1 DEF InList
    <2>3. InList(e, t)
      <3>1. Len(s) + 1 \in DOMAIN t
        BY <1>1
      <3> QED BY <1>1, <3>1, Zenon DEF InList
    <2> QED BY <2>1, <2>2, <2>3, Zenon
  <1> QED BY <1>1, <1>2, <1>3, Zenon DEF t

LEMMA PrependList ==
  ASSUME NEW S, NEW s \in Seq(S), NoRepeats(s), NEW e \in S, ~InList(e, s)
  PROVE  /\ <<e>> \o s \in Seq(S) /\ NoRepeats(<<e>> \o s)
         /\ \A r : InList(r, <<e>> \o s) <=> InList(r, s) \/ r = e
  <1> DEFINE t == <<e>> \o s
  <1>1. /\ t \in Seq(S) /\ Len(t) = Len(s) + 1 /\ t[1] = e
        /\ \A i \in 2..Len(t) : t[i] = s[i - 1]
    OBVIOUS
  <1>2. \A i \in 1..Len(s) : t[i + 1] = s[i]
    BY <1>1
  <1> HIDE DEF t
  <1>3. NoRepeats(t)
    <2> SUFFICES ASSUME NEW i \in DOMAIN t, NEW j \in DOMAIN t, t[i] = t[j], i < j PROVE FALSE
      BY <1>1 DEF NoRepeats
    <2>1. CASE i = 1
      BY <1>1, <2>1 DEF InList
    <2>2. CASE i > 1
      <3>1. /\ i - 1 \in DOMAIN s /\ j - 1 \in DOMAIN s /\ i - 1 # j - 1
            /\ s[i - 1] = t[i] /\ s[j - 1] = t[j]
        BY <1>1, <2>2
      <3> QED BY <3>1, Zenon DEF NoRepeats
    <2> QED BY <1>1, <2>1, <2>2
  <1>4. ASSUME NEW r PROVE InList(r, t) <=> InList(r, s) \/ r = e
    <2>1. InList(r, t) => InList(r, s) \/ r = e
      BY <1>1 DEF InList
    <2>2. ASSUME NEW i \in DOMAIN s, s[i] = r PROVE InList(r, t)
      <3>1. i + 1 \in DOMAIN t /\ t[i + 1] = r
        BY <1>1, <1>2, <2>2
      <3> QED BY <3>1, Zenon DEF InList
    <2>3. InList(e, t)
      <3>1. 1 \in DOMAIN t
        BY <1>1
      <3> QED BY <1>1, <3>1, Zenon DEF InList
    <2> QED BY <2>1, <2>2, <2>3, Zenon DEF InList
  <1> QED BY <1>1, <1>3, <1>4, Zenon DEF t

LEMMA TailList ==
  ASSUME NEW S, NEW s \in Seq(S), s # <<>>
  PROVE  /\ Tail(s) \in Seq(S) /\ Len(Tail(s)) = Len(s) - 1 /\ Head(s) \in S
         /\ InList(Head(s), s)
         /\ \A r : InList(r, s) <=> InList(r, Tail(s)) \/ r = Head(s)
         /\ NoRepeats(s) => NoRepeats(Tail(s)) /\ ~InList(Head(s), Tail(s))
  <1>1. /\ Tail(s) \in Seq(S) /\ Len(Tail(s)) = Len(s) - 1 /\ Len(s) \in Nat \ {0}
        /\ Head(s) = s[1] /\ s[1] \in S /\ 1 \in DOMAIN s
        /\ \A i \in 1..(Len(s) - 1) : Tail(s)[i] = s[i + 1]
    OBVIOUS
  <1>2. \A i \in 2..Len(s) : s[i] = Tail(s)[i - 1]
    BY <1>1
  <1>3. ASSUME NEW r PROVE InList(r, s) <=> InList(r, Tail(s)) \/ r = Head(s)
    <2>1. ASSUME NEW i \in DOMAIN s, s[i] = r PROVE InList(r, Tail(s)) \/ r = Head(s)
      <3>1. i = 1 \/ i - 1 \in DOMAIN Tail(s)
        BY <1>1
      <3> QED BY <1>1, <1>2, <2>1, <3>1 DEF InList
    <2>2. ASSUME NEW i \in DOMAIN Tail(s), Tail(s)[i] = r PROVE InList(r, s)
      <3>1. i + 1 \in DOMAIN s
        BY <1>1
      <3> QED BY <1>1, <2>2, <3>1 DEF InList
    <2> QED BY <1>1, <2>1, <2>2, Zenon DEF InList
  <1>4. NoRepeats(s) => NoRepeats(Tail(s)) /\ ~InList(Head(s), Tail(s))
    BY <1>1, SMTT(30) DEF NoRepeats, InList
  <1> QED BY <1>1, <1>3, <1>4, Zenon DEF InList

-----------------------------------------------------------------------------
(* Counting threads                                                        *)

LEMMA CountFacts ==
  ASSUME NEW p, NEW L
  PROVE  /\ Count(p, L) \in Nat /\ Count(p, L) <= max_threads /\ max_threads \in Nat \ {0}
         /\ Count(p, L) > 0 <=> \E w \in Workers : p[w] \in L
  <1> DEFINE S == {w \in Workers : p[w] \in L}
  <1>1. IsFiniteSet(Workers) /\ S \in SUBSET Workers
    BY WorkersAssumption, Zenon
  <1>2. IsFiniteSet(S) /\ Cardinality(S) <= Cardinality(Workers)
    BY <1>1, FS_Subset, Zenon
  <1>3. Cardinality(S) \in Nat /\ Cardinality(Workers) \in Nat
    BY <1>1, <1>2, FS_CardinalityType, Zenon
  <1>4. /\ Cardinality(S) = 0 <=> S = {}
        /\ Cardinality(Workers) # 0
    BY <1>1, <1>2, FS_EmptySet, WorkersAssumption, Zenon
  <1> QED BY <1>2, <1>3, <1>4 DEF Count, max_threads

\* How a count changes when thread w alone moves, from p[w] to q[w].
Shift(p, q, w, L) == Count(q, L) = Count(p, L) - In(p[w], L) + In(q[w], L)

LEMMA CountMoves ==
  ASSUME NEW p, NEW q, NEW w \in Workers, \A v \in Workers \ {w} : q[v] = p[v], NEW L
  PROVE  Shift(p, q, w, L)
  <1> DEFINE S == {v \in Workers : p[v] \in L}
             T == {v \in Workers : q[v] \in L}
  <1>1. IsFiniteSet(S) /\ Cardinality(S) \in Nat
    BY WorkersAssumption, FS_Subset, FS_CardinalityType, Zenon
  <1>2. w \in S <=> p[w] \in L
    BY Zenon
  <1>3. CASE q[w] \in L
    <2>1. T = S \union {w}
      BY <1>3
    <2>2. Cardinality(T) = IF w \in S THEN Cardinality(S) ELSE Cardinality(S) + 1
      BY <1>1, <2>1, FS_AddElement, Zenon
    <2> HIDE DEF S, T
    <2> QED BY <1>1, <1>2, <1>3, <2>2 DEF Count, S, T, In, Shift
  <1>4. CASE q[w] \notin L
    <2>1. T = S \ {w}
      BY <1>4
    <2>2. Cardinality(T) = IF w \in S THEN Cardinality(S) - 1 ELSE Cardinality(S)
      BY <1>1, <2>1, FS_RemoveElement, Zenon
    <2> HIDE DEF S, T
    <2> QED BY <1>1, <1>2, <1>4, <2>2 DEF Count, S, T, In, Shift
  <1> QED BY <1>3, <1>4, Zenon

\* The same for the four counts that matter, for an EXCEPT.
Moves(p, q, w, l) ==
  /\ Count(q, Live) = Count(p, Live) - In(p[w], Live) + In(l, Live)
  /\ Count(q, {"pending"}) = Count(p, {"pending"}) - In(p[w], {"pending"}) + In(l, {"pending"})
  /\ Count(q, Idle) = Count(p, Idle) - In(p[w], Idle) + In(l, Idle)
  /\ Count(q, {"woken"}) = Count(p, {"woken"}) - In(p[w], {"woken"}) + In(l, {"woken"})
  /\ Count(p, Live) \in Nat /\ Count(p, {"pending"}) \in Nat
  /\ Count(p, Idle) \in Nat /\ Count(p, {"woken"}) \in Nat
  /\ Count(q, Live) \in Nat /\ Count(q, {"pending"}) \in Nat
  /\ Count(q, Idle) \in Nat /\ Count(q, {"woken"}) \in Nat

LEMMA CountsMove ==
  ASSUME NEW p \in [Workers -> WorkerPcs], NEW w \in Workers, NEW l \in WorkerPcs
  PROVE  Moves(p, [p EXCEPT ![w] = l], w, l)
  <1> DEFINE q == [p EXCEPT ![w] = l]
  <1>1. \A L : Count(p, L) \in Nat /\ Count(q, L) \in Nat
    BY CountFacts, Zenon
  <1>2. q[w] = l /\ \A v \in Workers \ {w} : q[v] = p[v]
    BY Zenon
  <1> HIDE DEF q
  <1>3. \A L : Shift(p, q, w, L)
    BY <1>2, CountMoves, Zenon
  <1>4. Moves(p, q, w, l)
    BY <1>1, <1>2, <1>3, Zenon DEF Moves, Shift
  <1> QED BY <1>4, Zenon DEF q

LEMMA CountOrder ==
  ASSUME NEW p, NEW L, NEW M, L \subseteq M
  PROVE  Count(p, L) <= Count(p, M)
  <1> DEFINE S == {w \in Workers : p[w] \in L}
             T == {w \in Workers : p[w] \in M}
  <1>1. IsFiniteSet(T) /\ S \in SUBSET T
    BY WorkersAssumption, FS_Subset, Zenon
  <1> QED BY <1>1, FS_Subset, Zenon DEF Count

LEMMA CountsAreTheCounters == PoolInv => ThreadsCounted /\ TokensMatch
  <1> SUFFICES ASSUME PoolInv PROVE ThreadsCounted /\ TokensMatch
    BY Zenon
  <1>1. /\ Alive = {w \in Workers : pc[w] \in Live}
        /\ AtPc("pending") = {w \in Workers : pc[w] \in {"pending"}}
        /\ AtPc("woken") = {w \in Workers : pc[w] \in {"woken"}}
        /\ AtPc("wait") \union AtPc("woken") \union AtPc("timedout")
           = {w \in Workers : pc[w] \in Idle}
    BY Zenon DEF PoolInv, PoolTypes, Alive, AtPc, Live, Idle
  <1> QED BY <1>1, Zenon DEF PoolInv, CountsHold, ThreadsCounted, TokensMatch, Count

LEMMA InitPool == Init => PoolInv
  <1> SUFFICES ASSUME Init PROVE PoolInv
    BY Zenon
  <1>1. \A L \in SUBSET Live : Count(pc, L) = 0
    <2> TAKE L \in SUBSET Live
    <2>1. ~ \E w \in Workers : pc[w] \in L
      BY Zenon DEF Init, Live
    <2>2. Count(pc, L) \in Nat /\ ~(Count(pc, L) > 0)
      BY <2>1, CountFacts, Zenon
    <2> QED BY <2>2
  <1>2. CountsHold
    <2>1. {"pending"} \in SUBSET Live /\ Idle \in SUBSET Live /\ {"woken"} \in SUBSET Live
      BY Zenon DEF Live, Idle, WorkerPcs
    <2>2. max_threads \in Nat
      BY CountFacts, Zenon
    <2> QED BY <1>1, <2>1, <2>2 DEF Init, CountsHold
  <1>3. PoolTypes
    <2>1. <<>> \in Seq(Reqs)
      OBVIOUS
    <2> QED BY <2>1, ZenonT(30) DEF Init, PoolTypes, States, Calls, WorkerPcs
  <1>4. ListsHold
    BY DEF Init, ListsHold, InList, NoRepeats
  <1>5. JobsHold /\ CallsHold
    BY Zenon DEF Init, CtxInit, JobsHold, CallsHold
  <1>6. QueueHasWorker /\ CompletionIsSeen /\ WaitersAreWoken
    BY Zenon DEF Init, QueueHasWorker, CompletionIsSeen, WaitersAreWoken, Finished
  <1> QED BY <1>2, <1>3, <1>4, <1>5, <1>6, Zenon DEF PoolInv

-----------------------------------------------------------------------------
(* Steps of the event loop that touch nothing of the pool                  *)

LoopOnly ==
  \/ MainThread \/ MainRelock \/ VcpuEnter \/ VcpuWait \/ VcpuLeave \/ CompletionBh
  \/ scan = <<>> /\ PollStep /\ UNCHANGED poolVars
  \/ UNCHANGED vars

LEMMA LoopKeeps ==
  ASSUME CallsHold, LoopOnly
  PROVE  /\ UNCHANGED poolVars /\ CallsHold'
         /\ PoolFd \in ready => PoolFd \in ready'
         /\ SpawnBh \in scheduled => SpawnBh \in scheduled'
  <1> USE DEF loopVars, pollVars, bhVars, fdVars, CallsHold
  <1>1. CASE MainThread
    <2>1. UNCHANGED <<poolVars, ready, scheduled>>
      BY <1>1, Zenon DEF MainThread, MainStep, MainPrepare, MainPpoll, MainCheck, AioPoll
    <2>2. CASE MainPrepare
      BY <2>1, <2>2, Zenon DEF MainPrepare, poolVars, counters
    <2>3. CASE MainPpoll
      BY <2>1, <2>3, Zenon DEF MainPpoll, poolVars, counters
    <2>4. CASE MainCheck
      BY <2>1, <2>4, Zenon DEF MainCheck, AioPoll, poolVars, counters
    <2> QED BY <1>1, <2>1, <2>2, <2>3, <2>4, Zenon DEF MainThread, MainStep
  <1>2. CASE MainRelock
    BY <1>2, Zenon DEF MainRelock, MainLock, poolVars, counters
  <1>3. CASE VcpuEnter
    BY <1>3, Zenon DEF VcpuEnter, VcpuLock, poolVars, counters
  <1>4. CASE VcpuWait
    BY <1>4, Zenon DEF VcpuWait, VcpuPoll, AioPoll, poolVars, counters
  <1>5. CASE VcpuLeave
    BY <1>5, Zenon DEF VcpuLeave, VcpuUnlock, poolVars, counters
  <1>6. CASE CompletionBh
    BY <1>6, Zenon DEF CompletionBh, BhRun, poolVars, counters, SpawnBh, AppBh
  <1>7. CASE scan = <<>> /\ PollStep /\ UNCHANGED poolVars
    <2>1. /\ UNCHANGED <<bql, main, scheduled>> /\ at \in {"bh", "dispatch", "redispatch", "poll"}
          /\ PoolFd \in ready => PoolFd \in ready'
      BY <1>7, Zenon DEF PollStep, BhEnd, NotifierRun, HandlerRun, DispatchEnd, Poll, PoolFd, Notifier
    <2> QED BY <1>7, <2>1, Zenon DEF poolVars, counters
  <1>8. CASE UNCHANGED vars
    BY <1>8, Zenon DEF vars, ctxVars, poolVars, counters
  <1> QED BY <1>1, <1>2, <1>3, <1>4, <1>5, <1>6, <1>7, <1>8, Zenon DEF LoopOnly

LEMMA LoopStep == PoolInv /\ LoopOnly => PoolInv'
  <1> SUFFICES ASSUME PoolInv, LoopOnly PROVE PoolInv'
    BY Zenon
  <1>1. /\ UNCHANGED poolVars /\ CallsHold'
        /\ PoolFd \in ready => PoolFd \in ready'
        /\ SpawnBh \in scheduled => SpawnBh \in scheduled'
    BY LoopKeeps, Zenon DEF PoolInv
  <1>2. PoolTypes' /\ ListsHold' /\ JobsHold'
    BY <1>1, Zenon DEF PoolInv, PoolTypes, ListsHold, JobsHold, poolVars, counters
  <1>3. CountsHold'
    BY <1>1, Zenon DEF PoolInv, CountsHold, poolVars, counters
  <1>4. QueueHasWorker'
    BY <1>1, Zenon DEF PoolInv, QueueHasWorker, poolVars, counters
  <1>5. CompletionIsSeen'
    BY <1>1, Zenon DEF PoolInv, CompletionIsSeen, Finished, poolVars, counters
  <1>6. WaitersAreWoken'
    BY <1>1, Zenon DEF PoolInv, WaitersAreWoken, poolVars, counters
  <1> QED BY <1>1, <1>2, <1>3, <1>4, <1>5, <1>6, Zenon DEF PoolInv

-----------------------------------------------------------------------------
(* Steps of a worker                                                       *)

LEMMA NothingQueued == PoolInv /\ head = <<>> => request_list = <<>>
  <1> SUFFICES ASSUME PoolInv, head = <<>>, request_list # <<>> PROVE FALSE
    BY Zenon
  <1>1. head = <<>> /\ request_list \in Seq(Reqs)
    BY Zenon DEF PoolInv, PoolTypes
  <1>2. 1 \in DOMAIN request_list /\ request_list[1] \in Reqs
    BY <1>1
  <1>3. InList(request_list[1], request_list)
    BY <1>2, Zenon DEF InList
  <1>4. InList(request_list[1], head)
    BY <1>2, <1>3, Zenon DEF PoolInv, ListsHold
  <1> QED BY <1>1, <1>4 DEF InList

LEMMA TokenStep ==
  ASSUME PoolInv, NEW w \in Workers, WorkerToken(w)
  PROVE  PoolInv'
  <1> USE DEF PoolInv, ctxVars, loopVars, pollVars, bhVars, counters
  <1>1. PoolTypes'
    BY DEF PoolTypes, WorkerPcs, Calls, States, WorkerToken
  <1>2. ListsHold'
    BY Zenon DEF ListsHold, PoolTypes, WorkerToken
  <1>3. JobsHold'
    BY Zenon DEF JobsHold, PoolTypes, WorkerToken
  <1>4. CallsHold'
    BY Zenon DEF CallsHold, PoolTypes, WorkerToken
  <1>5. CountsHold'
    <2>1. pc' = [pc EXCEPT ![w] = "woken"] /\ pc \in [Workers -> WorkerPcs] /\ "woken" \in WorkerPcs
      BY Zenon DEF WorkerToken, PoolTypes, WorkerPcs
    <2>2. Moves(pc, pc', w, "woken")
      BY <2>1, CountsMove, ZenonT(30)
    <2>3. /\ In(pc[w], Live) = 1 /\ In("woken", Live) = 1
          /\ In(pc[w], {"pending"}) = 0 /\ In("woken", {"pending"}) = 0
          /\ In(pc[w], Idle) = 1 /\ In("woken", Idle) = 1
          /\ In(pc[w], {"woken"}) = 0 /\ In("woken", {"woken"}) = 1
      BY Zenon DEF WorkerToken, In, Live, Idle, WorkerPcs
    <2>4. /\ Count(pc', Live) = Count(pc, Live)
          /\ Count(pc', {"pending"}) = Count(pc, {"pending"})
          /\ Count(pc', Idle) = Count(pc, Idle)
          /\ Count(pc', {"woken"}) = Count(pc, {"woken"}) + 1
          /\ Count(pc, Live) \in Nat /\ Count(pc, {"pending"}) \in Nat
          /\ Count(pc, Idle) \in Nat /\ Count(pc, {"woken"}) \in Nat
          /\ max_threads \in Nat
      BY <2>2, <2>3, CountFacts DEF Moves
    <2>5. sem' + Count(pc', {"woken"}) = sem + Count(pc, {"woken"})
      BY <2>4 DEF WorkerToken, PoolTypes
    <2> QED BY <2>4, <2>5, Zenon DEF WorkerToken, CountsHold, PoolTypes
  <1>6. QueueHasWorker'
    BY Zenon DEF QueueHasWorker, PoolTypes, WorkerToken
  <1>7. CompletionIsSeen'
    BY Zenon DEF CompletionIsSeen, Finished, PoolTypes, WorkerToken
  <1>8. WaitersAreWoken'
    BY Zenon DEF WaitersAreWoken, CallsHold, PoolTypes, WorkerToken
  <1> QED BY <1>1, <1>2, <1>3, <1>4, <1>5, <1>6, <1>7, <1>8, Zenon DEF PoolInv

LEMMA TimeoutStep ==
  ASSUME PoolInv, NEW w \in Workers, WorkerTimeout(w)
  PROVE  PoolInv'
  <1> USE DEF PoolInv, ctxVars, loopVars, pollVars, bhVars, counters
  <1>1. PoolTypes'
    BY Zenon DEF PoolTypes, WorkerPcs, Calls, States, WorkerTimeout
  <1>2. ListsHold'
    BY Zenon DEF ListsHold, PoolTypes, WorkerTimeout
  <1>3. JobsHold'
    BY Zenon DEF JobsHold, PoolTypes, WorkerTimeout
  <1>4. CallsHold'
    BY Zenon DEF CallsHold, PoolTypes, WorkerTimeout
  <1>5. CountsHold'
    <2>1. pc' = [pc EXCEPT ![w] = "timedout"] /\ pc \in [Workers -> WorkerPcs] /\ "timedout" \in WorkerPcs
      BY Zenon DEF WorkerTimeout, PoolTypes, WorkerPcs
    <2>2. Moves(pc, pc', w, "timedout")
      BY <2>1, CountsMove, ZenonT(30)
    <2>3. /\ In(pc[w], Live) = 1 /\ In("timedout", Live) = 1
          /\ In(pc[w], {"pending"}) = 0 /\ In("timedout", {"pending"}) = 0
          /\ In(pc[w], Idle) = 1 /\ In("timedout", Idle) = 1
          /\ In(pc[w], {"woken"}) = 0 /\ In("timedout", {"woken"}) = 0
      BY Zenon DEF WorkerTimeout, In, Live, Idle, WorkerPcs
    <2>4. /\ Count(pc', Live) = Count(pc, Live)
          /\ Count(pc', {"pending"}) = Count(pc, {"pending"})
          /\ Count(pc', Idle) = Count(pc, Idle)
          /\ Count(pc', {"woken"}) = Count(pc, {"woken"})
          /\ Count(pc, Live) \in Nat /\ Count(pc, {"pending"}) \in Nat
          /\ Count(pc, Idle) \in Nat /\ Count(pc, {"woken"}) \in Nat
          /\ max_threads \in Nat
      BY <2>2, <2>3, CountFacts DEF Moves
    <2> QED BY <2>4, Zenon DEF WorkerTimeout, CountsHold, PoolTypes
  <1>6. QueueHasWorker'
    BY Zenon DEF QueueHasWorker, PoolTypes, WorkerTimeout
  <1>7. CompletionIsSeen'
    BY Zenon DEF CompletionIsSeen, Finished, PoolTypes, WorkerTimeout
  <1>8. WaitersAreWoken'
    BY Zenon DEF WaitersAreWoken, CallsHold, PoolTypes, WorkerTimeout
  <1> QED BY <1>1, <1>2, <1>3, <1>4, <1>5, <1>6, <1>7, <1>8, Zenon DEF PoolInv

LEMMA RetryStep ==
  ASSUME PoolInv, NEW w \in Workers, WorkerRetry(w)
  PROVE  PoolInv'
  <1> USE DEF PoolInv, ctxVars, loopVars, pollVars, bhVars, counters
  <1>1. PoolTypes'
    BY Zenon DEF PoolTypes, WorkerPcs, Calls, States, WorkerRetry
  <1>2. ListsHold'
    BY Zenon DEF ListsHold, PoolTypes, WorkerRetry
  <1>3. JobsHold'
    BY Zenon DEF JobsHold, PoolTypes, WorkerRetry
  <1>4. CallsHold'
    BY Zenon DEF CallsHold, PoolTypes, WorkerRetry
  <1>5. CountsHold'
    <2>1. pc' = [pc EXCEPT ![w] = "wait"] /\ pc \in [Workers -> WorkerPcs] /\ "wait" \in WorkerPcs
      BY Zenon DEF WorkerRetry, PoolTypes, WorkerPcs
    <2>2. Moves(pc, pc', w, "wait")
      BY <2>1, CountsMove, ZenonT(30)
    <2>3. /\ In(pc[w], Live) = 1 /\ In("wait", Live) = 1
          /\ In(pc[w], {"pending"}) = 0 /\ In("wait", {"pending"}) = 0
          /\ In(pc[w], Idle) = 1 /\ In("wait", Idle) = 1
          /\ In(pc[w], {"woken"}) = 0 /\ In("wait", {"woken"}) = 0
      BY Zenon DEF WorkerRetry, In, Live, Idle, WorkerPcs
    <2>4. /\ Count(pc', Live) = Count(pc, Live)
          /\ Count(pc', {"pending"}) = Count(pc, {"pending"})
          /\ Count(pc', Idle) = Count(pc, Idle)
          /\ Count(pc', {"woken"}) = Count(pc, {"woken"})
          /\ Count(pc, Live) \in Nat /\ Count(pc, {"pending"}) \in Nat
          /\ Count(pc, Idle) \in Nat /\ Count(pc, {"woken"}) \in Nat
          /\ max_threads \in Nat
      BY <2>2, <2>3, CountFacts DEF Moves
    <2> QED BY <2>4, Zenon DEF WorkerRetry, CountsHold, PoolTypes
  <1>6. QueueHasWorker'
    BY Zenon DEF QueueHasWorker, PoolTypes, WorkerRetry
  <1>7. CompletionIsSeen'
    BY Zenon DEF CompletionIsSeen, Finished, PoolTypes, WorkerRetry
  <1>8. WaitersAreWoken'
    BY NothingQueued, Zenon DEF WaitersAreWoken, CallsHold, PoolTypes, WorkerRetry
  <1> QED BY <1>1, <1>2, <1>3, <1>4, <1>5, <1>6, <1>7, <1>8, Zenon DEF PoolInv

LEMMA DoneStep ==
  ASSUME PoolInv, NEW w \in Workers, WorkerDone(w)
  PROVE  PoolInv'
  <1> USE DEF PoolInv, ctxVars, loopVars, pollVars, bhVars, counters
  <1>1. PoolTypes'
    BY Zenon DEF PoolTypes, WorkerPcs, Calls, States, WorkerDone
  <1>2. ListsHold'
    <2>1. job[w] \in Reqs /\ state[job[w]] = "active"
      BY Zenon DEF JobsHold, WorkerDone
    <2>2. \A r \in Reqs : state'[r] = IF r = job[w] THEN "done" ELSE state[r]
      BY Zenon DEF WorkerDone
    <2>3. request_list' = request_list /\ head' = head
      BY Zenon DEF WorkerDone
    <2> QED BY <2>1, <2>2, <2>3, Zenon DEF ListsHold
  <1>3. JobsHold'
    BY DEF JobsHold, PoolTypes, WorkerDone
  <1>4. CallsHold'
    BY Zenon DEF CallsHold, PoolTypes, WorkerDone
  <1>5. CountsHold'
    <2>1. pc' = [pc EXCEPT ![w] = "finished"] /\ pc \in [Workers -> WorkerPcs] /\ "finished" \in WorkerPcs
      BY Zenon DEF WorkerDone, PoolTypes, WorkerPcs
    <2>2. Moves(pc, pc', w, "finished")
      BY <2>1, CountsMove, ZenonT(30)
    <2>3. /\ In(pc[w], Live) = 1 /\ In("finished", Live) = 1
          /\ In(pc[w], {"pending"}) = 0 /\ In("finished", {"pending"}) = 0
          /\ In(pc[w], Idle) = 0 /\ In("finished", Idle) = 0
          /\ In(pc[w], {"woken"}) = 0 /\ In("finished", {"woken"}) = 0
      BY Zenon DEF WorkerDone, In, Live, Idle, WorkerPcs
    <2>4. /\ Count(pc', Live) = Count(pc, Live)
          /\ Count(pc', {"pending"}) = Count(pc, {"pending"})
          /\ Count(pc', Idle) = Count(pc, Idle)
          /\ Count(pc', {"woken"}) = Count(pc, {"woken"})
          /\ Count(pc, Live) \in Nat /\ Count(pc, {"pending"}) \in Nat
          /\ Count(pc, Idle) \in Nat /\ Count(pc, {"woken"}) \in Nat
          /\ max_threads \in Nat
      BY <2>2, <2>3, CountFacts DEF Moves
    <2> QED BY <2>4, Zenon DEF WorkerDone, CountsHold, PoolTypes
  <1>6. QueueHasWorker'
    BY Zenon DEF QueueHasWorker, PoolTypes, WorkerDone
  <1>7. CompletionIsSeen'
    BY DEF CompletionIsSeen, Finished, PoolTypes, WorkerDone
  <1>8. WaitersAreWoken'
    BY Zenon DEF WaitersAreWoken, CallsHold, PoolTypes, WorkerDone
  <1> QED BY <1>1, <1>2, <1>3, <1>4, <1>5, <1>6, <1>7, <1>8, Zenon DEF PoolInv

LEMMA DequeueStep ==
  ASSUME PoolInv, NEW w \in Workers, WorkerDequeue(w)
  PROVE  PoolInv'
  <1> USE DEF PoolInv, ctxVars, loopVars, pollVars, bhVars, counters
  <1> DEFINE q == Head(request_list)
  <1>a. /\ request_list # <<>> /\ request_list \in Seq(Reqs) /\ idle_threads > 0
    <2>1. Count(pc, {"woken"}) > 0 /\ Count(pc, Idle) > 0 /\ Count(pc, {"woken"}) \in Nat
      BY CountFacts, Zenon DEF WorkerDequeue, Idle
    <2>2. Len(request_list) > 0
      BY <2>1, SMTT(30) DEF CountsHold, WorkerDequeue, PoolTypes
    <2> QED BY <2>1, <2>2 DEF CountsHold, PoolTypes
  <1>b. /\ q \in Reqs /\ InList(q, request_list) /\ request_list' = Tail(request_list)
        /\ request_list' \in Seq(Reqs) /\ Len(request_list') = Len(request_list) - 1
        /\ NoRepeats(request_list') /\ ~InList(q, request_list')
        /\ \A r : InList(r, request_list) <=> InList(r, request_list') \/ r = q
        /\ state' = [r \in Reqs |-> IF r = q THEN "active" ELSE state[r]]
        /\ job' = [job EXCEPT ![w] = q]
    <2>1. q \in Reqs /\ request_list' = Tail(request_list)
      BY <1>a, TailList, ReqsAssumption DEF WorkerDequeue
    <2>2. /\ state' = [r \in Reqs |-> IF r = q THEN "active" ELSE state[r]]
          /\ job' = [job EXCEPT ![w] = q]
      BY <1>a, <2>1, Zenon DEF WorkerDequeue
    <2> QED BY <1>a, <2>1, <2>2, TailList, Zenon DEF ListsHold
  <1>1. PoolTypes'
    <2>1. idle_threads > 0
      BY <1>a, Zenon
    <2> QED BY <1>a, <1>b, <2>1 DEF PoolTypes, WorkerPcs, Calls, States, WorkerDequeue
  <1>2. ListsHold'
    BY <1>a, <1>b, Zenon DEF ListsHold, PoolTypes, WorkerDequeue
  <1>3. JobsHold'
    <2>1. state[q] = "queued"
      BY <1>b, Zenon DEF ListsHold
    <2>2. /\ pc' = [pc EXCEPT ![w] = "run"] /\ job' = [job EXCEPT ![w] = q]
          /\ \A r \in Reqs : state'[r] = IF r = q THEN "active" ELSE state[r]
      BY <1>b, ZenonT(30) DEF WorkerDequeue
    <2>3. pc[w] = "woken" /\ pc \in [Workers -> WorkerPcs] /\ job \in [Workers -> Reqs \union {None}]
      BY Zenon DEF WorkerDequeue, PoolTypes
    <2> HIDE DEF q
    <2> QED BY <1>b, <2>1, <2>2, <2>3 DEF JobsHold
  <1>4. CallsHold'
    BY <1>b, Zenon DEF CallsHold, PoolTypes, WorkerDequeue
  <1>5. CountsHold'
    <2>1. pc' = [pc EXCEPT ![w] = "run"] /\ pc \in [Workers -> WorkerPcs] /\ "run" \in WorkerPcs
      BY Zenon DEF WorkerDequeue, PoolTypes, WorkerPcs
    <2>2. Moves(pc, pc', w, "run")
      BY <2>1, CountsMove, Zenon
    <2>3. /\ In(pc[w], Live) = 1 /\ In("run", Live) = 1
          /\ In(pc[w], {"pending"}) = 0 /\ In("run", {"pending"}) = 0
          /\ In(pc[w], Idle) = 1 /\ In("run", Idle) = 0
          /\ In(pc[w], {"woken"}) = 1 /\ In("run", {"woken"}) = 0
      BY Zenon DEF WorkerDequeue, In, Live, Idle, WorkerPcs
    <2>4. /\ Count(pc', Live) = Count(pc, Live)
          /\ Count(pc', {"pending"}) = Count(pc, {"pending"})
          /\ Count(pc', Idle) = Count(pc, Idle) - 1
          /\ Count(pc', {"woken"}) = Count(pc, {"woken"}) - 1
          /\ Count(pc, Live) \in Nat /\ Count(pc, {"pending"}) \in Nat
          /\ Count(pc, Idle) \in Nat /\ Count(pc, {"woken"}) \in Nat
          /\ max_threads \in Nat
      BY <2>2, <2>3, CountFacts DEF Moves
    <2>5. Len(request_list') = Len(request_list) - 1
      BY <1>b, Zenon
    <2>6. /\ UNCHANGED <<cur_threads, new_threads, pending_threads, sem, stopping, call>>
          /\ idle_threads' = idle_threads - 1 /\ ~stopping
      BY Zenon DEF WorkerDequeue
    <2>7. (IF call = "post" THEN 1 ELSE 0) \in Nat /\ sem \in Nat /\ Len(request_list) \in Nat
      BY DEF PoolTypes
    <2>8. Len(request_list') = sem' + Count(pc', {"woken"}) + (IF call' = "post" THEN 1 ELSE 0)
      BY <2>4, <2>5, <2>6, <2>7, SMTT(30) DEF CountsHold
    <2> QED BY <2>4, <2>6, <2>8, Zenon DEF CountsHold
  <1>6. QueueHasWorker'
    BY <1>a, Zenon DEF QueueHasWorker, PoolTypes, WorkerDequeue
  <1>7. CompletionIsSeen'
    <2>1. \A r \in Reqs : Finished(r)' => Finished(r)
      BY <1>b, Zenon DEF Finished, WorkerDequeue
    <2>2. /\ UNCHANGED <<scan, ready>>
          /\ \A v \in Workers : pc[v] = "finished" => pc'[v] = pc[v] /\ job'[v] = job[v]
      BY Zenon DEF WorkerDequeue, PoolTypes
    <2> HIDE DEF q
    <2> QED BY <2>1, <2>2, ZenonT(30) DEF CompletionIsSeen
  <1>8. WaitersAreWoken'
    <2>1. /\ UNCHANGED <<call, target, pending_cancellations, stopping, sem>> /\ ~stopping
          /\ pc' = [pc EXCEPT ![w] = "run"] /\ job' = [job EXCEPT ![w] = q]
          /\ pc[w] = "woken" /\ pc \in [Workers -> WorkerPcs] /\ job \in [Workers -> Reqs \union {None}]
      BY <1>b, ZenonT(30) DEF WorkerDequeue, PoolTypes
    <2>2. call # "freewait"
      BY <2>1, Zenon DEF CallsHold
    <2>3. SUFFICES ASSUME call = "cancelwait"
                   PROVE  \/ InList(target, request_list')
                          \/ \E v \in Workers : pc'[v] \in {"run", "finished"} /\ job'[v] = target
      BY <2>1, <2>2, Zenon DEF WaitersAreWoken, InList
    <2>4. CASE InList(target, request_list)
      BY <1>b, <2>1, <2>4, Zenon
    <2>5. CASE \E v \in Workers : pc[v] \in {"run", "finished"} /\ job[v] = target
      BY <2>1, <2>5, Zenon
    <2> QED BY <2>3, <2>4, <2>5, Zenon DEF WaitersAreWoken, InList
  <1> QED BY <1>1, <1>2, <1>3, <1>4, <1>5, <1>6, <1>7, <1>8, Zenon DEF PoolInv

LEMMA StopStep ==
  ASSUME PoolInv, NEW w \in Workers, WorkerStop(w)
  PROVE  PoolInv'
  <1> USE DEF PoolInv, ctxVars, loopVars, pollVars, bhVars, counters
  <1>a. idle_threads > 0 /\ cur_threads > 0
    <2>1. Count(pc, Idle) > 0 /\ Count(pc, Live) > 0 /\ Count(pc, Live) \in Nat
      BY CountFacts, Zenon DEF WorkerStop, Idle, Live, WorkerPcs
    <2> QED BY <2>1 DEF CountsHold, PoolTypes
  <1>1. PoolTypes'
    BY <1>a DEF PoolTypes, WorkerPcs, Calls, States, WorkerStop, WorkerStopped
  <1>2. ListsHold'
    BY Zenon DEF ListsHold, PoolTypes, WorkerStop
  <1>3. JobsHold'
    BY SMTT(30) DEF JobsHold, PoolTypes, WorkerStop
  <1>4. CallsHold'
    BY Zenon DEF CallsHold, PoolTypes, WorkerStop, WorkerStopped
  <1>5. CountsHold'
    <2>a. CASE pc[w] = "woken" /\ stopping
      <3>1. pc' = [pc EXCEPT ![w] = "none"] /\ pc \in [Workers -> WorkerPcs] /\ "none" \in WorkerPcs
        BY <2>a, Zenon DEF WorkerStop, PoolTypes, WorkerPcs
      <3>2. Moves(pc, pc', w, "none")
        BY <3>1, CountsMove, ZenonT(30)
      <3>3. /\ In(pc[w], Live) = 1 /\ In("none", Live) = 0
            /\ In(pc[w], {"pending"}) = 0 /\ In("none", {"pending"}) = 0
            /\ In(pc[w], Idle) = 1 /\ In("none", Idle) = 0
            /\ In(pc[w], {"woken"}) = 1 /\ In("none", {"woken"}) = 0
        BY <2>a, Zenon DEF WorkerStop, In, Live, Idle, WorkerPcs
      <3>4. /\ Count(pc', Live) = Count(pc, Live) - 1
            /\ Count(pc', {"pending"}) = Count(pc, {"pending"})
            /\ Count(pc', Idle) = Count(pc, Idle) - 1
            /\ Count(pc', {"woken"}) = Count(pc, {"woken"}) - 1
            /\ Count(pc, Live) \in Nat /\ Count(pc, {"pending"}) \in Nat
            /\ Count(pc, Idle) \in Nat /\ Count(pc, {"woken"}) \in Nat
            /\ max_threads \in Nat
        BY <3>2, <3>3, CountFacts DEF Moves
      <3>5. /\ UNCHANGED <<new_threads, pending_threads, sem, stopping, request_list>>
            /\ idle_threads' = idle_threads - 1 /\ cur_threads' = cur_threads - 1
            /\ ~stopping => call' = call
        BY Zenon DEF WorkerStop, WorkerStopped, CallsHold
      <3>6. cur_threads' = new_threads' + Count(pc', Live) /\ cur_threads' <= max_threads
        <4>1. /\ cur_threads = new_threads + Count(pc, Live) /\ cur_threads <= max_threads
              /\ cur_threads \in Nat /\ new_threads \in Nat
          BY Zenon DEF CountsHold, PoolTypes
        <4>2. cur_threads' = new_threads' + Count(pc', Live)
          BY <3>4, <3>5, <4>1
        <4> QED BY <3>4, <3>5, <4>1, <4>2
      <3>7. pending_threads' = Count(pc', {"pending"}) /\ idle_threads' = Count(pc', Idle)
        BY <3>4, <3>5, Zenon DEF CountsHold, PoolTypes
      <3>8. ~stopping' => Len(request_list')
                          = sem' + Count(pc', {"woken"}) + (IF call' = "post" THEN 1 ELSE 0)
        BY <2>a, <3>4, <3>5, Zenon DEF CountsHold, PoolTypes
      <3> QED BY <3>6, <3>7, <3>8, Zenon DEF CountsHold
    <2>b. CASE pc[w] = "timedout"
      <3>1. pc' = [pc EXCEPT ![w] = "none"] /\ pc \in [Workers -> WorkerPcs] /\ "none" \in WorkerPcs
        BY <2>b, Zenon DEF WorkerStop, PoolTypes, WorkerPcs
      <3>2. Moves(pc, pc', w, "none")
        BY <3>1, CountsMove, Zenon
      <3>3. /\ In(pc[w], Live) = 1 /\ In("none", Live) = 0
            /\ In(pc[w], {"pending"}) = 0 /\ In("none", {"pending"}) = 0
            /\ In(pc[w], Idle) = 1 /\ In("none", Idle) = 0
            /\ In(pc[w], {"woken"}) = 0 /\ In("none", {"woken"}) = 0
        BY <2>b, Zenon DEF WorkerStop, In, Live, Idle, WorkerPcs
      <3>4. /\ Count(pc', Live) = Count(pc, Live) - 1
            /\ Count(pc', {"pending"}) = Count(pc, {"pending"})
            /\ Count(pc', Idle) = Count(pc, Idle) - 1
            /\ Count(pc', {"woken"}) = Count(pc, {"woken"})
            /\ Count(pc, Live) \in Nat /\ Count(pc, {"pending"}) \in Nat
            /\ Count(pc, Idle) \in Nat /\ Count(pc, {"woken"}) \in Nat
            /\ max_threads \in Nat
        BY <3>2, <3>3, CountFacts DEF Moves
      <3>5. /\ UNCHANGED <<new_threads, pending_threads, sem, stopping, request_list>>
            /\ idle_threads' = idle_threads - 1 /\ cur_threads' = cur_threads - 1
            /\ ~stopping => call' = call
        BY Zenon DEF WorkerStop, WorkerStopped, CallsHold
      <3>6. cur_threads' = new_threads' + Count(pc', Live) /\ cur_threads' <= max_threads
        <4>1. /\ cur_threads = new_threads + Count(pc, Live) /\ cur_threads <= max_threads
              /\ cur_threads \in Nat /\ new_threads \in Nat
          BY Zenon DEF CountsHold, PoolTypes
        <4>2. cur_threads' = new_threads' + Count(pc', Live)
          BY <3>4, <3>5, <4>1
        <4> QED BY <3>4, <3>5, <4>1, <4>2
      <3>7. pending_threads' = Count(pc', {"pending"}) /\ idle_threads' = Count(pc', Idle)
        BY <3>4, <3>5, Zenon DEF CountsHold, PoolTypes
      <3>8. ~stopping' => Len(request_list')
                          = sem' + Count(pc', {"woken"}) + (IF call' = "post" THEN 1 ELSE 0)
        BY <2>b, <3>4, <3>5, Zenon DEF CountsHold, PoolTypes
      <3> QED BY <3>6, <3>7, <3>8, Zenon DEF CountsHold
    <2> QED BY <2>a, <2>b, Zenon DEF WorkerStop
  <1>6. QueueHasWorker'
    BY NothingQueued, Zenon DEF QueueHasWorker, CallsHold, PoolTypes, WorkerStop
  <1>7. CompletionIsSeen'
    BY Zenon DEF CompletionIsSeen, Finished, PoolTypes, WorkerStop
  <1>8. WaitersAreWoken'
    BY Zenon DEF WaitersAreWoken, CallsHold, PoolTypes, WorkerStop, WorkerStopped
  <1> QED BY <1>1, <1>2, <1>3, <1>4, <1>5, <1>6, <1>7, <1>8, Zenon DEF PoolInv

LEMMA NotifyStep ==
  ASSUME PoolInv, NEW w \in Workers, WorkerNotify(w)
  PROVE  PoolInv'
  <1> USE DEF PoolInv, ctxVars, loopVars, pollVars, bhVars, counters
  <1>a. cur_threads > 0
    <2>1. Count(pc, Live) > 0 /\ Count(pc, Live) \in Nat
      BY CountFacts, Zenon DEF WorkerNotify, Live, WorkerPcs
    <2> QED BY <2>1 DEF CountsHold, PoolTypes
  <1>1. PoolTypes'
    BY <1>a, SMTT(30) DEF PoolTypes, WorkerPcs, Calls, States, WorkerNotify, EnterLoop, LoopPc, WorkerStopped
  <1>2. ListsHold'
    BY Zenon DEF ListsHold, PoolTypes, WorkerNotify, EnterLoop, LoopPc, WorkerStopped
  <1>3. JobsHold'
    BY SMTT(30) DEF JobsHold, PoolTypes, WorkerNotify, EnterLoop, LoopPc, WorkerStopped
  <1>4. CallsHold'
    BY Zenon DEF CallsHold, PoolTypes, WorkerNotify, EnterLoop, LoopPc, WorkerStopped
  <1>5. CountsHold'
    <2>a. CASE stopping
      <3>1. pc' = [pc EXCEPT ![w] = "none"] /\ pc \in [Workers -> WorkerPcs] /\ "none" \in WorkerPcs
        BY <2>a, Zenon DEF WorkerNotify, EnterLoop, LoopPc, WorkerStopped, PoolTypes, WorkerPcs
      <3>2. Moves(pc, pc', w, "none")
        BY <3>1, CountsMove, Zenon
      <3>3. /\ In(pc[w], Live) = 1 /\ In("none", Live) = 0
            /\ In(pc[w], {"pending"}) = 0 /\ In("none", {"pending"}) = 0
            /\ In(pc[w], Idle) = 0 /\ In("none", Idle) = 0
            /\ In(pc[w], {"woken"}) = 0 /\ In("none", {"woken"}) = 0
        BY <2>a, Zenon DEF WorkerNotify, EnterLoop, LoopPc, WorkerStopped, In, Live, Idle, WorkerPcs
      <3>4. /\ Count(pc', Live) = Count(pc, Live) - 1
            /\ Count(pc', {"pending"}) = Count(pc, {"pending"})
            /\ Count(pc', Idle) = Count(pc, Idle)
            /\ Count(pc', {"woken"}) = Count(pc, {"woken"})
            /\ Count(pc, Live) \in Nat /\ Count(pc, {"pending"}) \in Nat
            /\ Count(pc, Idle) \in Nat /\ Count(pc, {"woken"}) \in Nat
            /\ max_threads \in Nat
        BY <3>2, <3>3, CountFacts, SMTT(30) DEF Moves
      <3> QED BY <2>a, <3>4, SMTT(30) DEF WorkerNotify, EnterLoop, LoopPc, WorkerStopped, CountsHold, PoolTypes
    <2>b. CASE ~stopping
      <3>1. pc' = [pc EXCEPT ![w] = "wait"] /\ pc \in [Workers -> WorkerPcs] /\ "wait" \in WorkerPcs
        BY <2>b, Zenon DEF WorkerNotify, EnterLoop, LoopPc, WorkerStopped, PoolTypes, WorkerPcs
      <3>2. Moves(pc, pc', w, "wait")
        BY <3>1, CountsMove, Zenon
      <3>3. /\ In(pc[w], Live) = 1 /\ In("wait", Live) = 1
            /\ In(pc[w], {"pending"}) = 0 /\ In("wait", {"pending"}) = 0
            /\ In(pc[w], Idle) = 0 /\ In("wait", Idle) = 1
            /\ In(pc[w], {"woken"}) = 0 /\ In("wait", {"woken"}) = 0
        BY <2>b, Zenon DEF WorkerNotify, EnterLoop, LoopPc, WorkerStopped, In, Live, Idle, WorkerPcs
      <3>4. /\ Count(pc', Live) = Count(pc, Live)
            /\ Count(pc', {"pending"}) = Count(pc, {"pending"})
            /\ Count(pc', Idle) = Count(pc, Idle) + 1
            /\ Count(pc', {"woken"}) = Count(pc, {"woken"})
            /\ Count(pc, Live) \in Nat /\ Count(pc, {"pending"}) \in Nat
            /\ Count(pc, Idle) \in Nat /\ Count(pc, {"woken"}) \in Nat
            /\ max_threads \in Nat
        BY <3>2, <3>3, CountFacts, SMTT(30) DEF Moves
      <3> QED BY <2>b, <3>4, Zenon DEF WorkerNotify, EnterLoop, LoopPc, WorkerStopped, CountsHold, PoolTypes, CallsHold
    <2> QED BY <2>a, <2>b, Zenon DEF WorkerNotify
  <1>6. QueueHasWorker'
    BY NothingQueued, Zenon DEF QueueHasWorker, CallsHold, PoolTypes, WorkerNotify, EnterLoop
  <1>7. CompletionIsSeen'
    BY Zenon DEF CompletionIsSeen, Finished, PoolTypes, WorkerNotify, EnterLoop, LoopPc, WorkerStopped
  <1>8. WaitersAreWoken'
    BY Zenon DEF WaitersAreWoken, CallsHold, PoolTypes, WorkerNotify, EnterLoop, LoopPc, WorkerStopped
  <1> QED BY <1>1, <1>2, <1>3, <1>4, <1>5, <1>6, <1>7, <1>8, Zenon DEF PoolInv

\* do_spawn_thread moves one thread of the backlog to the starting ones.
LEMMA SpawnKeeps ==
  ASSUME NEW p \in [Workers -> WorkerPcs], NEW n \in Nat, new_threads \in Nat,
         \A t \in AtPc("none") : p[t] = "none", SpawnInto(p, n)
  PROVE  /\ pc' \in [Workers -> WorkerPcs] /\ new_threads' \in Nat /\ pending_threads' \in Nat
         /\ new_threads' > 0 => pending_threads' > 0
         /\ new_threads = 0 => new_threads' = 0 /\ pc' = p
         /\ \A v \in Workers : pc'[v] = p[v] \/ (p[v] = "none" /\ pc'[v] = "pending")
         /\ new_threads' + Count(pc', Live) = new_threads + Count(p, Live)
         /\ n = Count(p, {"pending"}) => pending_threads' = Count(pc', {"pending"})
         /\ Count(pc', Idle) = Count(p, Idle) /\ Count(pc', {"woken"}) = Count(p, {"woken"})
  <1>1. CASE new_threads = 0
    <2>1. pc' = p /\ pending_threads' = n /\ new_threads' = new_threads
      BY <1>1, Zenon DEF SpawnInto
    <2> QED BY <1>1, <2>1
  <1>2. CASE new_threads # 0
    <2>1. PICK t \in AtPc("none") : pc' = [p EXCEPT ![t] = "pending"]
      BY <1>2, Zenon DEF SpawnInto
    <2>2. t \in Workers /\ p[t] = "none" /\ "pending" \in WorkerPcs
      BY Zenon DEF AtPc, WorkerPcs
    <2>3. Moves(p, pc', t, "pending")
      BY <2>1, <2>2, CountsMove, ZenonT(30)
    <2>4. /\ In(p[t], Live) = 0 /\ In("pending", Live) = 1
          /\ In(p[t], {"pending"}) = 0 /\ In("pending", {"pending"}) = 1
          /\ In(p[t], Idle) = 0 /\ In("pending", Idle) = 0
          /\ In(p[t], {"woken"}) = 0 /\ In("pending", {"woken"}) = 0
      BY <2>2, Zenon DEF In, Live, Idle, WorkerPcs
    <2>5. /\ Count(pc', Live) = Count(p, Live) + 1
          /\ Count(pc', {"pending"}) = Count(p, {"pending"}) + 1
          /\ Count(pc', Idle) = Count(p, Idle) /\ Count(pc', {"woken"}) = Count(p, {"woken"})
          /\ Count(p, Live) \in Nat /\ Count(p, {"pending"}) \in Nat
      BY <2>3, <2>4 DEF Moves
    <2>6. new_threads' = new_threads - 1 /\ pending_threads' = n + 1
      BY <1>2, Zenon DEF SpawnInto
    <2>7. /\ pc' \in [Workers -> WorkerPcs]
          /\ \A v \in Workers : pc'[v] = p[v] \/ (p[v] = "none" /\ pc'[v] = "pending")
      BY <2>1, <2>2, Zenon
    <2>8. new_threads' + Count(pc', Live) = new_threads + Count(p, Live)
      <3>1. new_threads \in Nat /\ Count(p, Live) \in Nat
        BY <2>5, Zenon
      <3>2. (new_threads - 1) + (Count(p, Live) + 1) = new_threads + Count(p, Live)
        BY <3>1
      <3> QED BY <2>5, <2>6, <3>2, Zenon
    <2> QED BY <1>2, <2>5, <2>6, <2>7, <2>8
  <1> QED BY <1>1, <1>2, Zenon

LEMMA StartStep ==
  ASSUME PoolInv, NEW w \in Workers, WorkerStart(w)
  PROVE  PoolInv'
  <1> USE DEF PoolInv, ctxVars, loopVars, pollVars, bhVars, counters
  <1> DEFINE p == [pc EXCEPT ![w] = LoopPc]
  <1>a. /\ pending_threads > 0 /\ cur_threads > 0
        /\ p \in [Workers -> WorkerPcs] /\ pending_threads - 1 \in Nat /\ LoopPc \in WorkerPcs
    <2>1. Count(pc, {"pending"}) > 0 /\ Count(pc, Live) > 0 /\ Count(pc, Live) \in Nat
      BY CountFacts, Zenon DEF WorkerStart, Live, WorkerPcs
    <2>2. LoopPc \in WorkerPcs
      BY Zenon DEF LoopPc, WorkerPcs
    <2> QED BY <2>1, <2>2, SMTT(30) DEF CountsHold, PoolTypes
  <1>c. /\ pc \in [Workers -> WorkerPcs] /\ pc[w] = "pending" /\ LoopPc \in {"none", "wait"}
        /\ p[w] = LoopPc /\ \A v \in Workers : v # w => p[v] = pc[v]
    BY Zenon DEF PoolTypes, WorkerStart, LoopPc
  <1>d. Moves(pc, p, w, LoopPc)
    BY <1>a, <1>c, CountsMove, ZenonT(30)
  <1>e. SpawnInto(p, pending_threads - 1) /\ \A t \in AtPc("none") : p[t] = "none"
    BY <1>c, Zenon DEF WorkerStart, AtPc
  <1> HIDE DEF p
  <1>b. /\ pc' \in [Workers -> WorkerPcs] /\ new_threads' \in Nat /\ pending_threads' \in Nat
        /\ new_threads' > 0 => pending_threads' > 0
        /\ new_threads = 0 => new_threads' = 0 /\ pc' = p
        /\ \A v \in Workers : pc'[v] = p[v] \/ (p[v] = "none" /\ pc'[v] = "pending")
        /\ new_threads' + Count(pc', Live) = new_threads + Count(p, Live)
        /\ pending_threads - 1 = Count(p, {"pending"}) => pending_threads' = Count(pc', {"pending"})
        /\ Count(pc', Idle) = Count(p, Idle) /\ Count(pc', {"woken"}) = Count(p, {"woken"})
    <2>1. new_threads \in Nat
      BY Zenon DEF PoolTypes
    <2> QED BY <1>a, <1>e, <2>1, SpawnKeeps, Zenon
  <1>1. PoolTypes'
    BY <1>a, <1>b, SMTT(30) DEF PoolTypes, Calls, States, WorkerStart, EnterLoop, WorkerStopped
  <1>2. ListsHold'
    BY Zenon DEF ListsHold, PoolTypes, WorkerStart, EnterLoop, LoopPc, WorkerStopped
  <1>3. JobsHold'
    <2>1. /\ \A v \in Workers : pc'[v] = "run" <=> pc[v] = "run"
          /\ UNCHANGED <<state, job>>
      BY <1>b, <1>c, Zenon DEF WorkerStart
    <2> QED BY <2>1, ZenonT(30) DEF JobsHold
  <1>4. CallsHold'
    BY <1>b, Zenon DEF CallsHold, PoolTypes, WorkerStart, WorkerStopped
  <1>5. CountsHold'
    <2>a. CASE stopping
      <3>1. /\ In(pc[w], Live) = 1 /\ In("none", Live) = 0
            /\ In(pc[w], {"pending"}) = 1 /\ In("none", {"pending"}) = 0
            /\ In(pc[w], Idle) = 0 /\ In("none", Idle) = 0
            /\ In(pc[w], {"woken"}) = 0 /\ In("none", {"woken"}) = 0
        BY Zenon DEF WorkerStart, In, Live, Idle, WorkerPcs
      <3>2. /\ Count(p, Live) = Count(pc, Live) - 1 /\ Count(p, {"pending"}) = Count(pc, {"pending"}) - 1
            /\ Count(p, Idle) = Count(pc, Idle)
        BY <1>d, <2>a, <3>1 DEF Moves, LoopPc
      <3>3. /\ cur_threads' = cur_threads - 1 /\ idle_threads' = idle_threads /\ stopping'
        BY <2>a, Zenon DEF WorkerStart, EnterLoop
      <3>4. cur_threads' = new_threads' + Count(pc', Live) /\ cur_threads' <= max_threads
        <4>1. /\ cur_threads \in Nat /\ new_threads \in Nat /\ Count(pc, Live) \in Nat
              /\ cur_threads = new_threads + Count(pc, Live) /\ cur_threads <= max_threads
              /\ max_threads \in Nat
          BY CountFacts, Zenon DEF CountsHold, PoolTypes
        <4>2. cur_threads - 1 = new_threads + (Count(pc, Live) - 1) /\ cur_threads - 1 <= max_threads
          BY <4>1
        <4> QED BY <1>b, <3>2, <3>3, <4>2, Zenon
      <3>5. pending_threads' = Count(pc', {"pending"}) /\ idle_threads' = Count(pc', Idle)
        BY <1>b, <3>2, <3>3, ZenonT(30) DEF CountsHold
      <3> QED BY <3>3, <3>4, <3>5, Zenon DEF CountsHold
    <2>b. CASE ~stopping
      <3>1. /\ In(pc[w], Live) = 1 /\ In("wait", Live) = 1
            /\ In(pc[w], {"pending"}) = 1 /\ In("wait", {"pending"}) = 0
            /\ In(pc[w], Idle) = 0 /\ In("wait", Idle) = 1
            /\ In(pc[w], {"woken"}) = 0 /\ In("wait", {"woken"}) = 0
        BY Zenon DEF WorkerStart, In, Live, Idle, WorkerPcs
      <3>2. /\ Count(p, Live) = Count(pc, Live) /\ Count(p, {"pending"}) = Count(pc, {"pending"}) - 1
            /\ Count(p, Idle) = Count(pc, Idle) + 1 /\ Count(p, {"woken"}) = Count(pc, {"woken"})
        BY <1>d, <2>b, <3>1 DEF Moves, LoopPc
      <3>3. /\ cur_threads' = cur_threads /\ idle_threads' = idle_threads + 1
            /\ UNCHANGED <<stopping, sem, request_list, call>>
        BY <2>b, Zenon DEF WorkerStart, EnterLoop
      <3>4. cur_threads' = new_threads' + Count(pc', Live) /\ cur_threads' <= max_threads
        BY <1>b, <3>2, <3>3, ZenonT(30) DEF CountsHold
      <3>5. pending_threads' = Count(pc', {"pending"}) /\ idle_threads' = Count(pc', Idle)
        BY <1>b, <3>2, <3>3, ZenonT(30) DEF CountsHold
      <3>6. Count(pc', {"woken"}) = Count(pc, {"woken"})
        BY <1>b, <3>2
      <3> QED BY <3>3, <3>4, <3>5, <3>6, Zenon DEF CountsHold
    <2> QED BY <2>a, <2>b, Zenon
  <1>6. QueueHasWorker'
    BY <1>b, NothingQueued, ZenonT(30) DEF QueueHasWorker, CallsHold, PoolTypes, WorkerStart, EnterLoop
  <1>7. CompletionIsSeen'
    <2>1. /\ \A v \in Workers : pc'[v] = "finished" <=> pc[v] = "finished"
          /\ UNCHANGED <<state, job, scan, ready>>
      BY <1>b, <1>c, Zenon DEF WorkerStart
    <2> QED BY <2>1, Zenon DEF CompletionIsSeen, Finished
  <1>8. WaitersAreWoken'
    <2>1. /\ \A v \in Workers : pc'[v] \in {"run", "finished"} <=> pc[v] \in {"run", "finished"}
          /\ UNCHANGED <<job, request_list, target, pending_cancellations>>
      BY <1>b, <1>c, Zenon DEF WorkerStart
    <2>2. call' # "freewait" /\ (call' = "cancelwait" => call = "cancelwait")
      BY Zenon DEF WorkerStart, WorkerStopped, CallsHold
    <2> QED BY <2>1, <2>2, Zenon DEF WaitersAreWoken
  <1> QED BY <1>1, <1>2, <1>3, <1>4, <1>5, <1>6, <1>7, <1>8, Zenon DEF PoolInv

=============================================================================
