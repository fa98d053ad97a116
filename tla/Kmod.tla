-------------------------------- MODULE Kmod --------------------------------
(***************************************************************************)
(* Life cycle of the kernel module, from                                   *)
(* mirage-platform/runtime/kernel/kmod.c.  Three kinds of actors share the *)
(* unprotected word mirage_kthread_state and sleep on its address:         *)
(*   - the kernel thread that runs the OCaml program                       *)
(*     (mirage_kthread_body);                                              *)
(*   - the writers of the sysctl kern.mirage.run                           *)
(*     (sysctl_kern_mirage_run, mirage_kthread_init, _launch);             *)
(*   - the loader thread that delivers module events                       *)
(*     (event_handler, mirage_kthread_deinit).                             *)
(* A fourth party, the kernel's own module ng_ether(4), takes and clears   *)
(* the hooks of the Ethernet input and output that event_handler steals.   *)
(* A step is one access to the shared word, or one call that can block.    *)
(***************************************************************************)
EXTENDS Naturals, FiniteSets

CONSTANTS
  Writers,   \* processes that may write kern.mirage.run
  Threads,   \* kernel threads kthread_add can hand out, each of them once
  NoThread   \* the NULL thread pointer

ASSUME ThreadsAssumption == NoThread \notin Threads /\ IsFiniteSet(Threads)

VARIABLES
  state,     \* mirage_kthread_state
  kthread,   \* mirage_kthread
  pc,        \* where each kernel thread is
  wpc,       \* where each writer of the sysctl is
  mod,       \* where the loader thread is
  hooks,     \* whose functions the ng_ether hooks point to
  ngEther,   \* ng_ether(4) is loaded
  panicked   \* the machine is down

kmodVars == <<state, kthread, pc, wpc, mod, hooks, ngEther, panicked>>

\* The program is executing: from the store of THR_RUNNING to that of THR_NONE.
InBody == {"startup", "loop", "call", "done", "wake", "clear"}

\* The thread needs the text of the module.
Alive == {"suspended", "ready", "exit"} \cup InBody

KmodInit ==
  /\ state = "THR_NONE"
  /\ kthread = NoThread
  /\ pc = [t \in Threads |-> "absent"]
  /\ wpc = [w \in Writers |-> "idle"]
  /\ mod = "unloaded"
  /\ ngEther \in BOOLEAN
  /\ hooks = IF ngEther THEN "ng_ether" ELSE "none"
  /\ panicked = FALSE

Goto(t, from, to) == pc[t] = from /\ pc' = [pc EXCEPT ![t] = to]

-----------------------------------------------------------------------------
(* mirage_kthread_body *)

\* The scheduler picks the thread up and the body stores THR_RUNNING.
BodyStart(t) ==
  /\ Goto(t, "ready", "startup")
  /\ state' = "THR_RUNNING"
  /\ UNCHANGED <<kthread, wpc, mod, hooks, ngEther, panicked>>

\* caml_startup, then the look-up of OS.Main.run, which may not be there.
BodyStartup(t) ==
  /\ \/ Goto(t, "startup", "loop")
     \/ Goto(t, "startup", "done")
  /\ UNCHANGED <<state, kthread, wpc, mod, hooks, ngEther, panicked>>

\* Mutant: the loop tests only the answer of OS.Main.run.
BodyLoopIgnoresStop(t) ==
  /\ Goto(t, "loop", "call")
  /\ UNCHANGED <<state, kthread, wpc, mod, hooks, ngEther, panicked>>

\* The loop test.
BodyLoop(t) ==
  /\ Goto(t, "loop", IF state = "THR_RUNNING" THEN "call" ELSE "done")
  /\ UNCHANGED <<state, kthread, wpc, mod, hooks, ngEther, panicked>>

\* One call of OS.Main.run: the program is complete, or is called again.
BodyCall(t) ==
  /\ Goto(t, "call", "loop") \/ Goto(t, "call", "done")
  /\ UNCHANGED <<state, kthread, wpc, mod, hooks, ngEther, panicked>>

\* done: OS.Main.finalize, then the test of the shared word.
BodyFinalize(t) ==
  /\ Goto(t, "done", IF state = "THR_STOPPED" THEN "wake" ELSE "clear")
  /\ UNCHANGED <<state, kthread, wpc, mod, hooks, ngEther, panicked>>

\* wakeup(&mirage_kthread_state) reaches only a thread that is asleep now.
BodyWakeup(t) ==
  /\ Goto(t, "wake", "clear")
  /\ mod' = IF mod = "sleeping" THEN "pausing" ELSE mod
  /\ UNCHANGED <<state, kthread, wpc, hooks, ngEther, panicked>>

\* Store THR_NONE, then kthread_exit.
BodyClear(t) ==
  /\ Goto(t, "clear", "exit")
  /\ state' = "THR_NONE"
  /\ UNCHANGED <<kthread, wpc, mod, hooks, ngEther, panicked>>

BodyExit(t) ==
  /\ Goto(t, "exit", "gone")
  /\ UNCHANGED <<state, kthread, wpc, mod, hooks, ngEther, panicked>>

\* The text of the module is gone under the thread.
BodyFault(t) ==
  /\ pc[t] = "orphan"
  /\ panicked' = TRUE
  /\ UNCHANGED <<state, kthread, pc, wpc, mod, hooks, ngEther>>

Body(t) ==
  \/ BodyStart(t)  \/ BodyStartup(t) \/ BodyLoop(t) \/ BodyCall(t) \/ BodyFinalize(t)
  \/ BodyWakeup(t) \/ BodyClear(t)   \/ BodyExit(t)
  \/ BodyFault(t)

-----------------------------------------------------------------------------
(* sysctl_kern_mirage_run *)

\* Mutant: the handler does not test the word.
RunCheckNoTest(w) ==
  /\ wpc[w] = "idle"
  /\ mod # "unloaded"
  /\ wpc' = [wpc EXCEPT ![w] = "init"]
  /\ UNCHANGED <<state, kthread, pc, mod, hooks, ngEther, panicked>>

\* The handler is entered while the module is loaded, and tests the word.
RunCheck(w) ==
  /\ wpc[w] \in {"idle", "already"}
  /\ mod # "unloaded"
  /\ wpc' = [wpc EXCEPT ![w] = IF state = "THR_NONE" THEN "init" ELSE "already"]
  /\ UNCHANGED <<state, kthread, pc, mod, hooks, ngEther, panicked>>

\* mirage_kthread_init: the word becomes THR_STOPPED whether or not
\* kthread_add, which may sleep and may fail, made a thread.
RunInit(w) ==
  /\ wpc[w] = "init"
  /\ wpc' = [wpc EXCEPT ![w] = "launch"]
  /\ state' = "THR_STOPPED"
  /\ \/ \E t \in Threads :
          /\ Goto(t, "absent", "suspended")
          /\ kthread' = t
     \/ UNCHANGED <<pc, kthread>>
  /\ UNCHANGED <<mod, hooks, ngEther, panicked>>

\* mirage_kthread_launch: called whatever mirage_kthread_init returned.  A
\* NULL pointer is a fault; a thread that has run before is undefined
\* behaviour, which takes the machine down or passes unnoticed.
RunLaunch(w) ==
  /\ wpc[w] = "launch"
  /\ wpc' = [wpc EXCEPT ![w] = "idle"]
  /\ \/ /\ kthread # NoThread
        /\ Goto(kthread, "suspended", "ready")
        /\ UNCHANGED panicked
     \/ /\ kthread # NoThread
        /\ pc[kthread] # "suspended"
        /\ panicked' \in BOOLEAN
        /\ UNCHANGED pc
     \/ /\ kthread = NoThread
        /\ panicked' = TRUE
        /\ UNCHANGED pc
  /\ UNCHANGED <<state, kthread, mod, hooks, ngEther>>

SysctlRun(w) == RunCheck(w) \/ RunInit(w) \/ RunLaunch(w)

-----------------------------------------------------------------------------
(* event_handler *)

\* MOD_LOAD: the statics are fresh.  The hooks are taken even when they are
\* in use, where the handler goes on to return EEXIST.
ModLoad ==
  /\ mod = "unloaded"
  /\ state' = "THR_NONE"
  /\ kthread' = NoThread
  /\ mod' = IF hooks = "none" THEN "loaded" ELSE "failed"
  /\ hooks' = "mirage"
  /\ UNCHANGED <<pc, wpc, ngEther, panicked>>

\* MOD_UNLOAD, mirage_kthread_deinit: the test.  The kernel also delivers it
\* to a module whose MOD_LOAD failed, and the sysctl may be written before.
UnloadCheck ==
  /\ mod \in {"loaded", "failed"}
  /\ mod' = IF state = "THR_RUNNING" THEN "stopping" ELSE "unhook"
  /\ UNCHANGED <<state, kthread, pc, wpc, hooks, ngEther, panicked>>

\* The store of THR_STOPPED.
UnloadStop ==
  /\ mod = "stopping"
  /\ state' = "THR_STOPPED"
  /\ mod' = "tsleep"
  /\ UNCHANGED <<kthread, pc, wpc, hooks, ngEther, panicked>>

\* tsleep without a timeout: from here only a wakeup continues it.
UnloadSleep ==
  /\ mod = "tsleep"
  /\ mod' = "sleeping"
  /\ UNCHANGED <<state, kthread, pc, wpc, hooks, ngEther, panicked>>

\* The pause of one tick ends.
UnloadPause ==
  /\ mod = "pausing"
  /\ mod' = "unhook"
  /\ UNCHANGED <<state, kthread, pc, wpc, hooks, ngEther, panicked>>

\* Mutant: MOD_UNLOAD takes the hooks for those of ng_ether when it is there.
UnloadLeavesNgEther ==
  /\ mod = "unhook"
  /\ hooks' = IF ngEther THEN hooks ELSE "none"
  /\ mod' = "draining"
  /\ UNCHANGED <<state, kthread, pc, wpc, ngEther, panicked>>

\* MOD_UNLOAD clears the hooks, whoever has them, and returns.
UnloadUnhook ==
  /\ mod = "unhook"
  /\ hooks' = "none"
  /\ mod' = "draining"
  /\ UNCHANGED <<state, kthread, pc, wpc, ngEther, panicked>>

\* The kernel withdraws the sysctls, which waits for their handlers, and
\* unmaps the module.  It does not know of the threads the module made.
UnloadUnmap ==
  /\ mod = "draining"
  /\ \A w \in Writers : wpc[w] \notin {"init", "launch"}
  /\ mod' = "unloaded"
  /\ wpc' = [w \in Writers |-> "idle"]
  /\ pc' = [t \in Threads |-> IF pc[t] \in Alive THEN "orphan" ELSE pc[t]]
  /\ UNCHANGED <<state, kthread, hooks, ngEther, panicked>>

Unload ==
  \/ UnloadStop \/ UnloadSleep \/ UnloadPause \/ UnloadUnhook \/ UnloadUnmap
  \/ mod = "failed" /\ UnloadCheck

-----------------------------------------------------------------------------
(* ng_ether(4): it looks only whether it is there itself. *)

NgEtherLoad ==
  /\ ~ngEther
  /\ ngEther' = TRUE
  /\ hooks' = "ng_ether"
  /\ UNCHANGED <<state, kthread, pc, wpc, mod, panicked>>

NgEtherUnload ==
  /\ ngEther
  /\ ngEther' = FALSE
  /\ hooks' = "none"
  /\ UNCHANGED <<state, kthread, pc, wpc, mod, panicked>>

-----------------------------------------------------------------------------
KmodNext ==
  /\ ~panicked
  /\ \/ \E t \in Threads : Body(t)
     \/ \E w \in Writers : SysctlRun(w)
     \/ ModLoad
     \/ UnloadCheck
     \/ Unload
     \/ NgEtherLoad \/ NgEtherUnload

KmodSpec == KmodInit /\ [][KmodNext]_kmodVars

(***************************************************************************)
(* The scheduler runs every runnable thread, and a handler that has been   *)
(* entered goes on.  Nobody has to write the sysctl or to unload.          *)
(***************************************************************************)
Fairness ==
  /\ \A t \in Threads : WF_kmodVars(~panicked /\ Body(t))
  /\ \A w \in Writers : WF_kmodVars(~panicked /\ (RunInit(w) \/ RunLaunch(w)))
  /\ WF_kmodVars(~panicked /\ Unload)

FairSpec == KmodSpec /\ Fairness

-----------------------------------------------------------------------------
KmodTypeOK ==
  /\ state \in {"THR_NONE", "THR_RUNNING", "THR_STOPPED"}
  /\ kthread \in Threads \cup {NoThread}
  /\ pc \in [Threads -> Alive \cup {"absent", "gone", "orphan"}]
  /\ wpc \in [Writers -> {"idle", "init", "launch", "already"}]
  /\ mod \in {"unloaded", "loaded", "failed", "stopping", "tsleep", "sleeping",
              "pausing", "unhook", "draining"}
  /\ hooks \in {"none", "ng_ether", "mirage"}
  /\ ngEther \in BOOLEAN
  /\ panicked \in BOOLEAN

(***************************************************************************)
(* Two programs never run at the same time (kmod.c:167, the test that      *)
(* keeps a second start out): the OCaml run-time has one heap.             *)
(***************************************************************************)
AtMostOneProgram ==
  \A t, u \in Threads : pc[t] \in InBody /\ pc[u] \in InBody => t = u

(***************************************************************************)
(* mirage_kthread_deinit comes back from its sleep only when the program   *)
(* it stopped has been finalised (kmod.c:103-110).                         *)
(***************************************************************************)
WokenAfterFinalize ==
  [][mod = "sleeping" /\ mod' = "pausing" =>
       \A t \in Threads : pc'[t] \notin {"startup", "loop", "call", "done", "wake"}]_kmodVars

(***************************************************************************)
(* Why: the thread that runs, or is about to, keeps the word away from     *)
(* THR_NONE, so the handler that read THR_NONE found no such thread, and   *)
(* nobody but that handler makes one.  An unloaded module has none either. *)
(***************************************************************************)
Busy(t) == pc[t] \in {"suspended", "ready"} \cup InBody

BusyThread ==
  /\ \A t, u \in Threads : Busy(t) /\ Busy(u) => t = u
  /\ \A t \in Threads : Busy(t) => state # "THR_NONE"
  /\ \A w \in Writers : wpc[w] = "init" => \A t \in Threads : ~Busy(t)
  /\ mod = "unloaded" =>
       /\ \A t \in Threads : ~Busy(t)
       /\ \A w \in Writers : wpc[w] \notin {"init", "launch"}

(***************************************************************************)
(* The two modules that share the hooks never leave them pointing to text  *)
(* that is gone, so that no frame jumps there: not after a load that took  *)
(* them from ng_ether and failed (kmod.c:193-198), whatever was started,   *)
(* stopped, loaded and unloaded before the unload that answers it, nor     *)
(* after ng_ether took them back (kmod.c:200-204).                         *)
(***************************************************************************)
HooksPointToCode ==
  /\ hooks = "mirage" => mod # "unloaded"
  /\ hooks = "ng_ether" => ngEther

\* Why: MOD_UNLOAD is delivered for every MOD_LOAD, before the text goes.
HooksInv == HooksPointToCode /\ (mod = "draining" => hooks # "mirage")

(***************************************************************************)
(* A program that is asked to stop leaves its loop (kmod.c:96), whatever   *)
(* OS.Main.run answers.                                                    *)
(***************************************************************************)
StopIsHonoured ==
  \A t \in Threads :
    (state = "THR_STOPPED" /\ pc[t] \in {"loop", "call"})
      ~> (panicked \/ pc[t] \notin {"loop", "call"})

(***************************************************************************)
(* A stop goes its course: the program leaves its loop and is finalised,   *)
(* and only then is the unloader woken.                                    *)
(***************************************************************************)
StopIsOrderly == StopIsHonoured /\ WokenAfterFinalize

(***************************************************************************)
(* Once the module has begun to unload it does unload (README.md:113       *)
(* recommends to reload the module before a new run).                      *)
(***************************************************************************)
UnloadCompletes ==
  (mod \in {"stopping", "tsleep", "sleeping"}) ~> (panicked \/ mod = "unloaded")

=============================================================================
