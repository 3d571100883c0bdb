---------------------------- MODULE AtomicFrame ----------------------------
(***************************************************************************)
(* What the shared file promises to its two users, with the protocol       *)
(* hidden: the daemon replaces a whole frame in one step and the overlay   *)
(* takes a whole frame in one step, never an older one than it has shown.  *)
(***************************************************************************)
EXTENDS Naturals

CONSTANT Words      \* the words of radar_shared_t other than the sequence

VARIABLES frame,    \* the frame the daemon last published
          shown     \* the frame the overlay last took (g_snapshot)

\* The frame every word of which belongs to publication n; 0 is a file that
\* no daemon has published to.
Whole(n) == [w \in Words |-> n]

Init == /\ frame = Whole(0)
        /\ shown = Whole(0)

Publish == /\ frame' \in [Words -> Nat]
           /\ \A v, w \in Words : /\ frame'[v] = frame'[w]
                                  /\ frame'[w] > frame[w]
           /\ UNCHANGED shown

Take == /\ frame # Whole(0)
        /\ shown' = frame
        /\ UNCHANGED frame

Next == Publish \/ Take

Spec == Init /\ [][Next]_<<frame, shown>>
=============================================================================
