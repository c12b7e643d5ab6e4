---------------------------- MODULE MCRgaScheduler ----------------------------
(* A synchronous job with a priority and an asynchronous one, which may wait *)
(* for a fence.  Both copy from one handle to the other.                     *)
EXTENDS RgaScheduler

CONSTANTS s1, f1, rga3, rga2, h1, h2

MCSrc == [j \in Jobs |-> h1]
MCDst == [j \in Jobs |-> h2]
MCPriority == [j \in Jobs |-> IF j = s1 THEN 1 ELSE 0]
OneCore == <<rga3>>
TwoCores == <<rga3, rga2>>

\* The loop of rga_job_assign (rga_policy.c:288-311), turn by turn.
LoopChoice(order, usable, run, count) ==
    LET Load(acc, c) == IF acc.min > count[c] \/ acc.min = 0
                        THEN [core |-> c, min |-> count[c]] ELSE acc
        cores == SelectSeq(order, LAMBDA c : c \in usable)
        idle  == SelectSeq(cores, LAMBDA c : run[c] = None)
    IN  IF idle # <<>> THEN Head(idle)
        ELSE FoldLeft(Load, [core |-> None, min |-> 0], cores).core

\* Choice is what the loop computes, for four cores and up to two jobs in each list.
ASSUME ChoiceIsLoop ==
    LET order == <<1, 2, 3, 4>>
    IN  \A usable \in SUBSET (1..4) \ {{}}, run \in [1..4 -> {None, s1}], count \in [1..4 -> 0..2] :
            Choice(order, usable, run, count) = LoopChoice(order, usable, run, count)
=============================================================================
