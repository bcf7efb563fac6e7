----------------------------- MODULE VoiceLists -----------------------------
(***************************************************************************)
(* What the voice lists of the audio processor are meant to be: sequences  *)
(* of voices, no voice twice.  A voice is turned on at the top of a list   *)
(* or after a voice that is in one; the driver takes a voice out.          *)
(***************************************************************************)
EXTENDS Naturals, Sequences

CONSTANTS Lists, Voice

VARIABLE lists  \* lists[l]: the voices of list l, first to last

Elements(s) == {s[i] : i \in DOMAIN s}
Members == UNION {Elements(lists[l]) : l \in Lists}

Init == lists = [l \in Lists |-> <<>>]

On(l, v) ==
  /\ v \notin Members
  /\ lists' = [lists EXCEPT ![l] = <<v>> \o @]

OnAfter(l, i, v) ==
  /\ v \notin Members
  /\ lists' = [lists EXCEPT ![l] = SubSeq(@, 1, i) \o <<v>> \o SubSeq(@, i + 1, Len(@))]

TakeOut(l, i) ==
  lists' = [lists EXCEPT ![l] = SubSeq(@, 1, i - 1) \o SubSeq(@, i + 1, Len(@))]

\* Every step changes a list.
Next ==
  /\ lists' # lists
  /\ \E l \in Lists :
       \/ \E v \in Voice : On(l, v)
       \/ \E i \in DOMAIN lists[l] : TakeOut(l, i) \/ \E v \in Voice : OnAfter(l, i, v)

Spec == Init /\ [][Next]_lists
=============================================================================
