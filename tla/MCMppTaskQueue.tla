--------------------------- MODULE MCMppTaskQueue ---------------------------
(* Instances of MppTaskQueue for TLC. *)
EXTENDS MppTaskQueue, TLC

\* Sessions, devices and tasks are only compared for equality, so they may be
\* permuted in the runs that check safety.
Symmetry == Permutations(Sessions) \cup Permutations(Devices) \cup Permutations(Tasks)

\* Every session has opened its file and chosen a device, the same one or two
\* different ones: where a run about tasks starts.
ClientsReady ==
  \E devs \in [Sessions -> Devices] :
    /\ InitFrom([s \in Sessions |-> "open"], devs)
    /\ devs[CHOOSE s \in Sessions : TRUE] = CHOOSE d \in Devices : TRUE

ReadySpec == ClientsReady /\ [][Next]_vars

\* All threads and the hardware make progress.
ReadyFairSpec == ReadySpec /\ ThreadFairness /\ HwFairness

\* The hardware may never answer.
SilentHwSpec == ReadySpec /\ ThreadFairness
=============================================================================
