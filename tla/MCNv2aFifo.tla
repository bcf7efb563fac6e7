---------------------------- MODULE MCNv2aFifo ----------------------------
(* Small pushbuffers for Nv2aFifo.                                         *)
EXTENDS Nv2aFifo

C(k, c) == [kind |-> k, sub |-> 0, chan |-> c]

\* Every kind of wait of the puller, on one channel.
StreamWaits ==
  [c \in Channels |-> IF c = 0 THEN <<C("ignored", 0), C("bind", 0), C("notify", 0), C("flip", 0)>>
                               ELSE <<>>]

\* Two channels that bind objects of their own.
StreamSwitch ==
  [c \in Channels |-> IF c = 0 THEN <<C("bind", 0), C("method", 0)>>
                               ELSE <<C("bind", 1), C("object", 1), C("bind", 1)>>]

\* A command that needs a context switch.
StreamBind == [c \in Channels |-> <<C("bind", c)>>]

\* No commands at all.
StreamNone == [c \in Channels |-> <<>>]
=============================================================================
