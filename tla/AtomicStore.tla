----------------------------- MODULE AtomicStore -----------------------------
(***************************************************************************)
(* What a vendor storage promises: a write that has returned survives a    *)
(* power failure, and one that was interrupted is there as a whole or not  *)
(* at all.  A value stands for the contents of all items.                  *)
(***************************************************************************)
CONSTANTS
  Values,    \* contents of the storage
  Empty,     \* the one of them in a storage that was never written
  Nothing    \* none of them: a medium that holds nothing, a driver that is not up

VARIABLES
  durable,   \* what a start would find on the medium
  serving,   \* what a read returns
  busy       \* a write has not returned

vars == <<durable, serving, busy>>

Init == durable \in {Nothing, Empty} /\ serving = Nothing /\ busy = FALSE

\* The driver finds the durable contents, or starts to write empty ones.
Start ==
  /\ serving = Nothing
  /\ serving' = IF durable = Nothing THEN Empty ELSE durable
  /\ busy' = (durable = Nothing)
  /\ UNCHANGED durable

Write(v) ==
  /\ serving # Nothing /\ ~busy
  /\ serving' = v
  /\ busy' = TRUE
  /\ UNCHANGED durable

Commit ==
  /\ busy
  /\ durable' = serving
  /\ UNCHANGED <<serving, busy>>

\* A write returns when its contents are durable, if only from this step on.
Return ==
  /\ busy
  /\ durable' = serving
  /\ busy' = FALSE
  /\ UNCHANGED serving

\* Power fails.
Stop ==
  /\ serving' = Nothing
  /\ busy' = FALSE
  /\ UNCHANGED durable

Next == Start \/ (\E v \in Values : Write(v)) \/ Commit \/ Return \/ Stop

Spec == Init /\ [][Next]_vars
=============================================================================
