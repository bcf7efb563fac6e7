--------------------------- MODULE PusherMeaning ---------------------------
(***************************************************************************)
(* What the pushbuffers of Pusher mean, and two guests: a driver, and one  *)
(* that runs the pusher on whole pushbuffers and writes GET, the channel,  *)
(* DMA_STATE and DMA_SUBROUTINE as it likes.                               *)
(*                                                                         *)
(* The meaning is read off a pushbuffer a command at a time and channel by *)
(* channel, by the forms that pfifo_run_pusher matches; nothing of the     *)
(* loop's state, of PUT or of channel switches is in it.                   *)
(***************************************************************************)
EXTENDS Pusher

CONSTANT Commands  \* how many commands of a pushbuffer can be read

ASSUME CommandsAssumption == Commands \subseteq Nat

\* The entries of the command whose header is word i, as far as the buffer goes.
Entries(c, i) ==
  LET w == Buffer[c][i]
      size == IF i + Count(w) <= Len(Buffer[c]) THEN Count(w) ELSE Len(Buffer[c]) - i
  IN [k \in 1 .. size |->
        Entry(IF IsNonIncreasing(w) THEN Method(w) ELSE Method(w) + 4 * (k - 1),
              Subchannel(w), IsNonIncreasing(w), Buffer[c][i + k])]

\* A reading is the index of the next word, where a return goes to (-1 outside
\* a subroutine), and the entries so far.  It is over outside the buffer.
Over(c, m) == m.at \notin 0 .. Len(Buffer[c]) - 1

Obey(c, m) ==
  LET w == Buffer[c][m.at + 1] IN
  CASE IsJump(w) -> [m EXCEPT !.at = w \div 4]
    [] IsOldJump(w) -> [m EXCEPT !.at = OldJumpTarget(w) \div 4]
    [] IsCall(w) /\ m.ret = -1 -> [m EXCEPT !.at = w \div 4, !.ret = m.at + 1]
    [] IsReturn(w) -> [m EXCEPT !.at = m.ret, !.ret = -1]
    [] IsIncreasing(w) \/ IsNonIncreasing(w) ->
         [m EXCEPT !.at = @ + 1 + Count(w), !.out = @ \o Entries(c, m.at + 1)]
    [] OTHER -> [m EXCEPT !.at = -1]

\* Read[n][c]: channel c's pushbuffer after its first n commands
Read[n \in Nat] ==
  [c \in Channels |->
     IF n = 0 THEN [at |-> 0, ret |-> -1, out |-> <<>>]
     ELSE IF Over(c, Read[n - 1][c]) THEN Read[n - 1][c] ELSE Obey(c, Read[n - 1][c])]

Readings == [c \in Channels |-> {Read[n][c] : n \in Commands}]

\* A driver's commands stay within the 13 bits of a method, so DMA_STATE holds
\* what is left of one, and its pushbuffers below what DMA_SUBROUTINE can hold.
ASSUME CommandsFit ==
  \A c \in Channels : \A m \in Readings[c] :
    LET w == Buffer[c][m.at + 1] IN
    ~Over(c, m) /\ IsIncreasing(w) => Method(w) + 4 * Count(w) <= 2^13
ASSUME BuffersFit == \A c \in Channels : DmaLen[c] + 4 <= 2^29

-----------------------------------------------------------------------------
VARIABLE wild

WildNext ==
  \/ /\ ~aborted
     /\ \/ Loop
        \/ \E c \in Channels : user_write_DMA_PUT(c, 4 * Len(Buffer[c]))
        \/ pfifo_write_PUSH0(TRUE)
        \/ \E status \in BOOLEAN : pfifo_write_DMA_PUSH(TRUE, status)
        \/ \E get \in Offsets(chid) : pfifo_write_DMA_GET(get)
        \/ \E c \in Channels : pfifo_write_PUSH1(c)
        \/ \E r \in RegValues : pfifo_write_DMA_STATE(r)
  \/ Halted

GuestsInit == Init /\ wild \in BOOLEAN
GuestsNext == ((wild /\ WildNext) \/ (~wild /\ DriverNext)) /\ UNCHANGED wild
GuestsSpec == GuestsInit /\ [][GuestsNext]_<<vars, wild>>
-----------------------------------------------------------------------------
\* What the pusher appends for a channel is the beginning of what its
\* pushbuffer means, however a driver's PUT writes, suspensions and channel
\* switches cut commands and subroutines into pieces.
StreamIsDecoded ==
  ~wild => \A c \in Channels : \E m \in Readings[c] :
    Len(emitted[c]) <= Len(m.out) /\ emitted[c] = SubSeq(m.out, 1, Len(emitted[c]))

\* ...and all of it once the channel's GET is at the end of its pushbuffer.
EndMeansAll ==
  ~wild => \A c \in Channels : ctl[c].get = 4 * Len(Buffer[c]) =>
    \E m \in Readings[c] : Over(c, m) /\ emitted[c] = m.out
=============================================================================
