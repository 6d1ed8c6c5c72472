---------------------------- MODULE SampleWindow ----------------------------
(***************************************************************************)
(* What the ring buffers of the tracked connections promise: each key has  *)
(* a window on its most recent Size samples, oldest first, emptied only    *)
(* when its connection is dropped.                                         *)
(***************************************************************************)
EXTENDS Naturals, Sequences

CONSTANTS Key, Sample, Size

VARIABLE window

Init == window = [k \in Key |-> <<>>]

Slide(w, s) == IF Len(w) < Size THEN Append(w, s) ELSE Append(Tail(w), s)

\* The newest sample of the new window is the one added.
Add(k) ==
    LET w == window'[k] IN
    /\ w # <<>> /\ w[Len(w)] \in Sample
    /\ w = Slide(window[k], w[Len(w)])
    /\ \A j \in Key \ {k} : window'[j] = window[j]
    /\ DOMAIN window' = Key

\* Any connections are dropped together.
Forget ==
    /\ \A k \in Key : window'[k] \in {window[k], <<>>}
    /\ DOMAIN window' = Key

Next ==
    \/ Forget
    \/ \E k \in Key : Add(k)

Spec == Init /\ [][Next]_window
=============================================================================
