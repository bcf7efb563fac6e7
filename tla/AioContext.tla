----------------------------- MODULE AioContext -----------------------------
(***************************************************************************)
(* The event loop: async.c, aio-posix.c and the main loop of main-loop.c.  *)
(*                                                                         *)
(* Two threads run the callbacks of the main AioContext: the main thread,  *)
(* from the glib main loop, and the VCPU thread, when a device does        *)
(* synchronous I/O and calls qemu_aio_wait.  Both hold the iothread mutex  *)
(* (bql) all through aio_poll, so there is one aio_poll at a time and one  *)
(* copy of its local variables.  The main thread gives the mutex up only   *)
(* while it sleeps in ppoll.                                               *)
(*                                                                         *)
(* The module has the steps of the loop; what a bottom half or a handler   *)
(* does is conjoined to BhRun and HandlerRun by the module that owns it.   *)
(* Idle bottom halves and timers of the context are left out: no device of *)
(* the Xbox schedules the first, and the context has none of the second.   *)
(***************************************************************************)
EXTENDS Naturals, Sequences

CONSTANTS
  Bhs,          \* ctx->first_bh, in the order of the list
  Handlers,     \* ctx->aio_handlers without the last one, ctx->notifier
  MaySpin       \* whether the main loop can spin MAX_MAIN_LOOP_SPIN times

Notifier == "ctx->notifier"

VARIABLES
  bql,                 \* who holds the iothread mutex: "main", "vcpu", "none"
  main,                \* where the main loop is
  prepared, polled,    \* what aio_ctx_prepare and ppoll returned to it
  at, walk,            \* where aio_poll is, and the list nodes it has left
  blocking, progress,  \* its variables
  bhs, scheduled, deleted,     \* the bottom halves and their flags
  handlers,            \* ctx->aio_handlers
  ready,               \* descriptors that read() would not block on
  revents              \* handlers with pfd.revents set

ctxVars == <<bql, main, prepared, polled, at, walk, blocking, progress,
             bhs, scheduled, deleted, handlers, ready, revents>>

loopVars == <<main, prepared, polled>>
pollVars == <<at, walk, blocking, progress>>
bhVars == <<bhs, scheduled, deleted>>
fdVars == <<handlers, ready, revents>>

Elems(s) == {s[i] : i \in DOMAIN s}

\* QTAILQ_REMOVE and QLIST_REMOVE of an element that is in the list
Unlink(s, e) ==
  LET at_e == CHOOSE i \in DOMAIN s : s[i] = e
  IN [i \in 1..(Len(s) - 1) |-> IF i < at_e THEN s[i] ELSE s[i + 1]]

\* The list s once the nodes of S are unlinked
Without(s, S) ==
  LET first[n \in 0..Len(s)] ==    \* what is left of the first n nodes
        IF n = 0 THEN <<>>
        ELSE IF s[n] \in S THEN first[n - 1] ELSE Append(first[n - 1], s[n])
  IN first[Len(s)]

CtxDescriptors == Elems(Handlers) \union {Notifier}

CtxTypeOK ==
  /\ bql \in {"main", "vcpu", "none"}
  /\ main \in {"prepare", "ppoll", "lock", "check"}
  /\ prepared \in BOOLEAN /\ polled \subseteq CtxDescriptors
  /\ at \in {"out", "bh", "dispatch", "poll", "redispatch"}
  /\ walk \in Seq(Elems(Bhs) \union CtxDescriptors)
  /\ blocking \in BOOLEAN /\ progress \in BOOLEAN
  /\ bhs \in Seq(Elems(Bhs))
  /\ scheduled \subseteq Elems(bhs) \ deleted /\ deleted \subseteq Elems(bhs)
  /\ handlers \in Seq(CtxDescriptors)
  /\ ready \subseteq CtxDescriptors /\ revents \subseteq CtxDescriptors

CtxInit ==
  /\ bql = "main" /\ main = "prepare"
  /\ prepared = FALSE /\ polled = {}
  /\ at = "out" /\ walk = <<>>
  /\ blocking = FALSE /\ progress = FALSE
  /\ bhs = Bhs /\ scheduled = {} /\ deleted = {}
  /\ handlers = Handlers \o <<Notifier>>
  /\ ready = {Notifier}       \* aio_set_fd_handler has notified
  /\ revents = {}

-----------------------------------------------------------------------------
(* Bottom halves and notifiers.                                            *)

\* qemu_bh_schedule, when `want' says that it is called
BhSchedule(b, want) ==
  IF want /\ b \notin scheduled
  THEN /\ scheduled' = scheduled \union {b}
       /\ ready' = ready \union {Notifier}
  ELSE UNCHANGED <<scheduled, ready>>

BhDelete(b) ==
  /\ scheduled' = scheduled \ {b}
  /\ deleted' = deleted \union {b}

\* aio_set_event_notifier(fd, NULL) outside a walk, and the close of fd
RemoveNotifier(fd) ==
  /\ handlers' = Unlink(handlers, fd)
  /\ revents' = revents \ {fd}
  /\ ready' = (ready \ {fd}) \union {Notifier}

-----------------------------------------------------------------------------
(* aio_poll                                                                *)

\* The first node of the walk that is in S, and the nodes behind it.
Hits(S) == {i \in DOMAIN walk : walk[i] \in S}
Next1(S) == CHOOSE i \in Hits(S) : \A j \in Hits(S) : i <= j
Rest(i) == SubSeq(walk, i + 1, Len(walk))

AioPoll(block) ==
  /\ at = "out"
  /\ at' = "bh" /\ walk' = bhs
  /\ blocking' = block /\ progress' = FALSE
  /\ UNCHANGED bhVars

\* aio_bh_poll calls bottom half b; its callback may schedule others
BhRun(b) ==
  /\ at = "bh" /\ Hits(scheduled) # {} /\ b = walk[Next1(scheduled)]
  /\ walk' = Rest(Next1(scheduled))
  /\ blocking' = FALSE /\ progress' = TRUE
  /\ UNCHANGED <<loopVars, bql, at, bhs, deleted, handlers, revents>>

\* ... has seen them all, and frees the deleted ones
BhEnd ==
  /\ at = "bh" /\ Hits(scheduled) = {}
  /\ bhs' = Without(bhs, deleted)
  /\ deleted' = {}
  /\ at' = "dispatch" /\ walk' = handlers
  /\ UNCHANGED <<loopVars, bql, blocking, progress, scheduled, fdVars>>

\* aio_dispatch calls the handler of fd
HandlerRun(fd) ==
  /\ at \in {"dispatch", "redispatch"}
  /\ Hits(revents) # {} /\ fd = walk[Next1(revents)]
  /\ walk' = Rest(Next1(revents))
  /\ revents' = revents \ {fd}
  /\ progress' = (progress \/ fd # Notifier)
  /\ UNCHANGED <<loopVars, bql, at, blocking, bhs, deleted, handlers>>

\* event_notifier_test_and_clear, the handler of ctx->notifier
NotifierRun ==
  /\ HandlerRun(Notifier)
  /\ ready' = ready \ {Notifier}
  /\ UNCHANGED scheduled

DispatchEnd ==
  /\ at \in {"dispatch", "redispatch"} /\ Hits(revents) = {}
  /\ at' = IF at = "redispatch" \/ (progress /\ ~blocking) THEN "out" ELSE "poll"
  /\ walk' = <<>>
  /\ blocking' = (blocking /\ at' # "out")
  /\ progress' = (progress /\ at' # "out")
  /\ UNCHANGED <<loopVars, bql, bhVars, fdVars>>

\* qemu_poll_ns, and the copy of its result to the handlers
Poll ==
  LET fds == ready \intersect Elems(handlers)
  IN /\ at = "poll"
     /\ blocking => fds # {}
     /\ revents' = IF fds = {} THEN revents ELSE fds
     /\ at' = "redispatch" /\ walk' = handlers
     /\ UNCHANGED <<loopVars, bql, blocking, progress, bhVars, handlers, ready>>

-----------------------------------------------------------------------------
(* The main thread                                                         *)

\* main_loop_wait up to ppoll.  The timeout is zero after an iteration that
\* saw I/O and when aio_ctx_prepare finds a bottom half; the mutex is kept
\* then, unless the loop has spun too often.
MainPrepare ==
  /\ main = "prepare" /\ bql = "main" /\ at = "out"
  /\ prepared' = (scheduled # {})
  /\ main' = "ppoll"
  /\ \/ polled = {} /\ scheduled = {} /\ bql' = "none"
     \/ (polled # {} \/ scheduled # {}) /\ bql' \in {"main"} \union (IF MaySpin THEN {"none"} ELSE {})
  /\ UNCHANGED <<polled, pollVars, bhVars, fdVars>>

\* ppoll returns: a descriptor is ready or the nearest timer has expired
MainPpoll ==
  /\ main = "ppoll"
  /\ polled' = ready
  /\ main' = IF bql = "main" THEN "check" ELSE "lock"
  /\ UNCHANGED <<bql, prepared, pollVars, bhVars, fdVars>>

MainLock ==
  /\ main = "lock" /\ bql = "none"
  /\ bql' = "main" /\ main' = "check"
  /\ UNCHANGED <<prepared, polled, pollVars, bhVars, fdVars>>

\* glib_pollfds_poll: aio_ctx_check and, if it is true, aio_ctx_dispatch
MainCheck ==
  /\ main = "check"
  /\ main' = "prepare"
  /\ revents' = polled \intersect Elems(handlers)
  /\ IF prepared \/ scheduled # {} \/ revents' # {}
     THEN AioPoll(FALSE)
     ELSE UNCHANGED <<pollVars, bhVars>>
  /\ prepared' = FALSE
  /\ UNCHANGED <<bql, polled, handlers, ready>>

-----------------------------------------------------------------------------
(* The VCPU thread                                                         *)

VcpuLock ==
  /\ bql = "none" /\ bql' = "vcpu"
  /\ UNCHANGED <<loopVars, pollVars, bhVars, fdVars>>

VcpuUnlock ==
  /\ bql = "vcpu" /\ at = "out" /\ bql' = "none"
  /\ UNCHANGED <<loopVars, pollVars, bhVars, fdVars>>

\* qemu_aio_wait
VcpuPoll ==
  /\ bql = "vcpu" /\ AioPoll(TRUE)
  /\ UNCHANGED <<loopVars, bql, fdVars>>

MainStep == MainPrepare \/ MainPpoll \/ MainCheck

\* The steps of aio_poll that call nothing outside the loop
PollStep == BhEnd \/ NotifierRun \/ DispatchEnd \/ Poll
=============================================================================
