------------------------------ MODULE MCKernel ------------------------------
(***************************************************************************)
(* Instances of Kmod and MainLoop for TLC.  The main loop never reads      *)
(* mirage_kthread_state, and the kernel thread reads it only between two   *)
(* calls of OS.Main.run: nothing is lost if one of the two moves while the *)
(* other rests, the module not loaded or the program ended.  Together they *)
(* would have the product of their states.                                 *)
(***************************************************************************)
EXTENDS Kmod, MainLoop

VARIABLE part   \* the one that moves

kernelVars == <<kmodVars, loopVars, part>>

LoopRests ==
  /\ now = MaxTime
  /\ thread = [t \in Sleepers |-> "done"]
  /\ sleep = [s \in Sleeps |-> None]
  /\ loop = "done"
  /\ until = 0
  /\ cancels = 0

Init ==
  /\ KmodInit
  /\ \/ part = "module" /\ LoopRests
     \/ part = "loop" /\ LoopInit /\ ~ngEther

Next ==
  \/ part = "module" /\ KmodNext /\ UNCHANGED <<loopVars, part>>
  \/ part = "loop" /\ LoopNext /\ UNCHANGED <<kmodVars, part>>

\* At rest neither enables what it is fair to.
Spec == Init /\ [][Next]_kernelVars /\ Fairness /\ LoopFairness
=============================================================================
