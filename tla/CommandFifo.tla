---------------------------- MODULE CommandFifo ----------------------------
(***************************************************************************)
(* What CACHE1 promises the guest: the commands of the pushbuffer reach    *)
(* the engine once each, in the order in which they were pushed.           *)
(***************************************************************************)
EXTENDS Sequences

CONSTANT Command

VARIABLES
  queue,  \* commands pushed and not done
  done    \* commands done

Init == queue = <<>> /\ done = <<>>

Push == \E c \in Command : queue' = Append(queue, c) /\ UNCHANGED done

Retire ==
  /\ queue # <<>>
  /\ done' = Append(done, Head(queue))
  /\ queue' = Tail(queue)

Spec == Init /\ [][Push \/ Retire]_<<queue, done>>
=============================================================================
