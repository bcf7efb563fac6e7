----------------------------- MODULE MCPusher -----------------------------
(* Two pushbuffers for PusherMeaning.                                      *)
EXTENDS PusherMeaning, TLC

\* Words as a driver writes them.
Inc(m, sub, n) == n * 2^18 + sub * 2^13 + m
NonInc(m, sub, n) == 2^30 + Inc(m, sub, n)
Jmp(i) == 4 * i + 1
OldJmp(i) == 2^29 + 4 * i
Call(i) == 4 * i + 2
Ret == 2^17

\* Channel 0: a call to a subroutine that holds a non-increasing command, a jump
\* over a reserved word, and a command at the end of the method range.
\* Channel 1: an old jump over a reserved word and an increasing command, then
\* a return outside any subroutine.
MCBuffer ==
  0 :> <<Call(5), Inc(8188, 1, 1), 11, Jmp(9), 3, NonInc(384, 2, 2), 12, 13, Ret>>
  @@ 1 :> <<OldJmp(2), 3, Inc(256, 0, 2), 21, 22, Ret>>

\* What a guest that writes DMA_STATE as it likes writes to it.
MCRegs == {[nonincreasing |-> FALSE, method |-> 2^11 - 1, subchannel |-> 7,
            method_count |-> 2^11 - 1, error |-> e, subroutine_return |-> 0,
            subroutine_active |-> FALSE] : e \in {NoError, "CALL"}}

MCCommands == 0 .. 6

MCDmaLen == [c \in Channels |-> 4 * Len(Buffer[c])]

=============================================================================
