---------------------------- MODULE KernelProofs ----------------------------
(***************************************************************************)
(* Proofs about the program as a part of the kernel: the life of the       *)
(* module, for any number of kernel threads, restarts and reloads (Kmod),  *)
(* the loop that runs its threads, for any delays, clock rate and width of *)
(* a C int (MainLoop), and who owns a page that the kernel and the program *)
(* share, and the order in which frames reach the program, for any number  *)
(* of interfaces, pages, views and calls (Netif).                          *)
(***************************************************************************)
EXTENDS Kmod, MainLoop, Netif, FiniteSetTheorems, SequenceTheorems, WellFoundedInduction, TLAPS

(***************************************************************************)
(* The life of the module (Kmod)                                           *)
(***************************************************************************)

(***************************************************************************)
(* Every variable of the module keeps its type (kmod.c:64-71).             *)
(***************************************************************************)
THEOREM TypeCorrect == KmodSpec => []KmodTypeOK
<1>1. KmodInit => KmodTypeOK
  BY DEF KmodInit, KmodTypeOK, Alive, InBody
<1>2. KmodTypeOK /\ [KmodNext]_kmodVars => KmodTypeOK'
  <2> SUFFICES ASSUME KmodTypeOK, [KmodNext]_kmodVars PROVE KmodTypeOK'
    OBVIOUS
  <2> USE DEF KmodTypeOK, Alive, InBody
  <2>1. ASSUME NEW t \in Threads, Body(t) PROVE KmodTypeOK'
    <3>1. CASE BodyStart(t) \/ BodyStartup(t) \/ BodyLoop(t) \/ BodyCall(t)
      BY <3>1 DEF BodyStart, BodyStartup, BodyLoop, BodyCall, Goto
    <3>2. CASE BodyFinalize(t) \/ BodyWakeup(t)
      BY <3>2 DEF BodyFinalize, BodyWakeup, Goto
    <3>3. CASE BodyClear(t) \/ BodyExit(t) \/ BodyFault(t)
      BY <3>3 DEF BodyClear, BodyExit, BodyFault, Goto
    <3> QED
      BY <2>1, <3>1, <3>2, <3>3 DEF Body
  <2>2. ASSUME NEW w \in Writers, RunCheck(w) PROVE KmodTypeOK'
    BY <2>2 DEF RunCheck
  <2>3. ASSUME NEW w \in Writers, RunInit(w) PROVE KmodTypeOK'
    BY <2>3 DEF RunInit, Goto
  <2>4. ASSUME NEW w \in Writers, RunLaunch(w) PROVE KmodTypeOK'
    BY <2>4 DEF RunLaunch, Goto
  <2>5. CASE ModLoad \/ UnloadCheck
    BY <2>5 DEF ModLoad, UnloadCheck
  <2>6. CASE Unload
    BY <2>6 DEF Unload, UnloadStop, UnloadSleep, UnloadPause, UnloadUnhook, UnloadUnmap, UnloadCheck
  <2>7. CASE NgEtherLoad \/ NgEtherUnload
    BY <2>7 DEF NgEtherLoad, NgEtherUnload
  <2>8. CASE UNCHANGED kmodVars
    BY <2>8 DEF kmodVars
  <2> QED
    BY <2>1, <2>2, <2>3, <2>4, <2>5, <2>6, <2>7, <2>8 DEF KmodNext, SysctlRun
<1> QED
  BY <1>1, <1>2, PTL DEF KmodSpec

(***************************************************************************)
(* When a single process writes kern.mirage.run, a step of the module      *)
(* keeps BusyThread.  Two writers can break it: kthread_add may sleep      *)
(* between the test of the word (kmod.c:167) and the store of THR_STOPPED  *)
(* (kmod.c:122).                                                           *)
(***************************************************************************)
LEMMA BusyThreadStep ==
  ASSUME \A v, w \in Writers : v = w, KmodTypeOK, BusyThread, [KmodNext]_kmodVars
  PROVE  BusyThread'
<1> USE DEF KmodTypeOK, Busy, InBody, BusyThread
<1>1. ASSUME NEW t \in Threads, BodyStart(t) PROVE BusyThread'
  BY <1>1 DEF BodyStart, Goto
<1>2. ASSUME NEW t \in Threads, BodyStartup(t) \/ BodyLoop(t) \/ BodyCall(t)
                               \/ BodyFinalize(t)
      PROVE  BusyThread'
  BY <1>2 DEF BodyStartup, BodyLoop, BodyCall, BodyFinalize, Goto
<1>3. ASSUME NEW t \in Threads, BodyWakeup(t) PROVE BusyThread'
  BY <1>3 DEF BodyWakeup, Goto
<1>4. ASSUME NEW t \in Threads, BodyClear(t) PROVE BusyThread'
  \* The thread that clears the word was the only busy one.
  BY <1>4 DEF BodyClear, Goto
<1>5. ASSUME NEW t \in Threads, BodyExit(t) \/ BodyFault(t) PROVE BusyThread'
  BY <1>5 DEF BodyExit, BodyFault, Goto
<1>6. ASSUME NEW w \in Writers, RunCheck(w) PROVE BusyThread'
  BY <1>6 DEF RunCheck
<1>7. ASSUME NEW w \in Writers, RunInit(w) PROVE BusyThread'
  BY <1>7 DEF RunInit, Goto
<1>8. ASSUME NEW w \in Writers, RunLaunch(w) PROVE BusyThread'
  BY <1>8 DEF RunLaunch, Goto
<1>9. CASE ModLoad \/ UnloadCheck
  BY <1>9 DEF ModLoad, UnloadCheck
<1>10. CASE Unload
  BY <1>10 DEF Unload, UnloadStop, UnloadSleep, UnloadPause, UnloadUnhook, UnloadUnmap,
               UnloadCheck, Alive
<1>11. CASE NgEtherLoad \/ NgEtherUnload
  BY <1>11 DEF NgEtherLoad, NgEtherUnload
<1>12. CASE UNCHANGED kmodVars
  BY <1>12 DEF kmodVars
<1> QED
  BY <1>1, <1>2, <1>3, <1>4, <1>5, <1>6, <1>7, <1>8, <1>9, <1>10, <1>11, <1>12
     DEF KmodNext, Body, SysctlRun

(***************************************************************************)
(* One writer of the sysctl never gets two programs to run at once,        *)
(* however restarts, unloads and reloads interleave (kmod.c:167).          *)
(***************************************************************************)
THEOREM OneProgram ==
  ASSUME \A v, w \in Writers : v = w
  PROVE  KmodSpec => []AtMostOneProgram
<1>1. KmodInit => BusyThread
  BY DEF KmodInit, BusyThread, Busy, InBody
<1>2. KmodTypeOK /\ BusyThread /\ [KmodNext]_kmodVars => BusyThread'
  BY BusyThreadStep
<1>3. BusyThread => AtMostOneProgram
  BY DEF BusyThread, Busy, AtMostOneProgram
<1> QED
  BY <1>1, <1>2, <1>3, TypeCorrect, PTL DEF KmodSpec

(***************************************************************************)
(* The hooks never point to text that is gone, for any threads, writers    *)
(* and failures, and however the two modules that share them are loaded    *)
(* and unloaded (kmod.c:193-204).  The load that fails leaves them in the  *)
(* module that failed; they are cleared because that module still gets its *)
(* MOD_UNLOAD, which the program it may have started meanwhile can delay,  *)
(* and nothing takes them between there and the unmapping.                 *)
(***************************************************************************)
THEOREM SpecHooksPointToCode == KmodSpec => []HooksPointToCode
<1>1. KmodInit => HooksInv
  BY DEF KmodInit, HooksInv, HooksPointToCode
<1>2. HooksInv /\ [KmodNext]_kmodVars => HooksInv'
  <2> SUFFICES ASSUME HooksInv, [KmodNext]_kmodVars PROVE HooksInv'
    OBVIOUS
  <2> USE DEF HooksInv, HooksPointToCode
  <2>1. ASSUME NEW t \in Threads, Body(t) PROVE HooksInv'
    \* Only the wakeup moves the unloader, which is then not past the unhooking.
    BY <2>1 DEF Body, BodyStart, BodyStartup, BodyLoop, BodyCall, BodyFinalize,
                BodyWakeup, BodyClear, BodyExit, BodyFault
  <2>2. ASSUME NEW w \in Writers, SysctlRun(w) PROVE HooksInv'
    BY <2>2 DEF SysctlRun, RunCheck, RunInit, RunLaunch
  <2>3. CASE ModLoad
    BY <2>3 DEF ModLoad
  <2>4. CASE UnloadCheck
    BY <2>4 DEF UnloadCheck
  <2>5. CASE UnloadStop \/ UnloadSleep \/ UnloadPause
    BY <2>5 DEF UnloadStop, UnloadSleep, UnloadPause
  <2>6. CASE UnloadUnhook
    BY <2>6 DEF UnloadUnhook
  <2>7. CASE UnloadUnmap
    BY <2>7 DEF UnloadUnmap
  <2>8. CASE NgEtherLoad \/ NgEtherUnload
    BY <2>8 DEF NgEtherLoad, NgEtherUnload
  <2>9. CASE UNCHANGED kmodVars
    BY <2>9 DEF kmodVars
  <2> QED
    BY <2>1, <2>2, <2>3, <2>4, <2>5, <2>6, <2>7, <2>8, <2>9 DEF KmodNext, Unload
<1>3. HooksInv => HooksPointToCode
  BY DEF HooksInv
<1> QED
  BY <1>1, <1>2, <1>3, PTL DEF KmodSpec

(***************************************************************************)
(* With one writer of the sysctl, mirage_kthread_deinit comes back from    *)
(* its sleep only when no program runs that is not finalised               *)
(* (kmod.c:103-110).  The thread that wakes it is the only busy one, and   *)
(* is past OS.Main.finalize.                                               *)
(***************************************************************************)
THEOREM SpecWokenAfterFinalize ==
  ASSUME \A v, w \in Writers : v = w
  PROVE  KmodSpec => WokenAfterFinalize
<1> DEFINE Woken == mod = "sleeping" /\ mod' = "pausing" =>
                      \A t \in Threads : pc'[t] \notin {"startup", "loop", "call", "done", "wake"}
<1>1. KmodInit => BusyThread
  BY DEF KmodInit, BusyThread, Busy, InBody
<1>2. KmodTypeOK /\ BusyThread /\ [KmodNext]_kmodVars => BusyThread'
  BY BusyThreadStep
<1>3. KmodTypeOK /\ BusyThread /\ [KmodNext]_kmodVars => [Woken]_kmodVars
  <2> SUFFICES ASSUME KmodTypeOK, BusyThread, KmodNext, mod = "sleeping", mod' = "pausing"
               PROVE  \A t \in Threads : pc'[t] \notin {"startup", "loop", "call", "done", "wake"}
    BY DEF Woken
  <2>1. PICK t \in Threads : BodyWakeup(t)
    <3>1. ASSUME NEW t \in Threads, Body(t), ~BodyWakeup(t) PROVE FALSE
      BY <3>1 DEF Body, BodyStart, BodyStartup, BodyLoop, BodyCall, BodyFinalize, BodyClear, BodyExit, BodyFault
    <3>2. ASSUME NEW w \in Writers, SysctlRun(w) PROVE FALSE
      BY <3>2 DEF SysctlRun, RunCheck, RunInit, RunLaunch
    <3>3. ~(ModLoad \/ UnloadCheck \/ Unload \/ NgEtherLoad \/ NgEtherUnload)
      BY DEF ModLoad, UnloadCheck, Unload, UnloadStop, UnloadSleep, UnloadPause, UnloadUnhook,
             UnloadUnmap, NgEtherLoad, NgEtherUnload
    <3> QED
      BY <3>1, <3>2, <3>3 DEF KmodNext
  <2>2. \A u \in Threads : u # t => ~Busy(u)
    BY <2>1 DEF BodyWakeup, Goto, BusyThread, Busy, InBody
  <2> QED
    BY <2>1, <2>2 DEF BodyWakeup, Goto, KmodTypeOK, Busy, InBody
<1> QED
  BY <1>1, <1>2, <1>3, TypeCorrect, PTL DEF KmodSpec, WokenAfterFinalize

-----------------------------------------------------------------------------
(***************************************************************************)
(* The main loop and the threads that sleep (MainLoop)                     *)
(***************************************************************************)

(* Arithmetic of caml_block_kernel *)

(***************************************************************************)
(* A quotient, and a remainder that is within its range.                   *)
(***************************************************************************)
LEMMA Division ==
  ASSUME NEW a \in Int, NEW b \in Nat \ {0}
  PROVE  /\ a \div b \in Int /\ a % b \in 0 .. b - 1
         /\ a = b * (a \div b) + (a % b)
  OBVIOUS

LEMMA ProductMonotone ==
  ASSUME NEW a \in Int, NEW b \in Int, NEW c \in Nat, a <= b
  PROVE  a * c <= b * c
  OBVIOUS

LEMMA ProductCancel ==
  ASSUME NEW a \in Int, NEW b \in Int, NEW c \in Nat \ {0}, a * c <= b * c
  PROVE  a <= b
  <1> SUFFICES ASSUME a >= b + 1 PROVE FALSE
    OBVIOUS
  <1>1. (b + 1) * c <= a * c
    BY ProductMonotone
  <1>2. (b + 1) * c = b * c + c
    OBVIOUS
  <1> QED
    BY <1>1, <1>2

(***************************************************************************)
(* A C int is less than IntHalf, and no more than a natural it holds.      *)
(***************************************************************************)
LEMMA ToIntBounds ==
  ASSUME NEW z \in Int
  PROVE  /\ ToInt(z) \in -IntHalf .. IntHalf - 1
         /\ z >= 0 => ToInt(z) <= z
         /\ z >= 0 /\ z < IntHalf => ToInt(z) = z
  <1> DEFINE a == z + IntHalf
             b == 2 * IntHalf
             q == a \div b
             r == a % b
  <1>1. a \in Int /\ b \in Nat \ {0} /\ IntHalf \in Nat \ {0}
    BY MainLoopAssumption
  <1>2. q \in Int /\ r \in 0 .. b - 1 /\ a = b * q + r
    <2> HIDE DEF a, b
    <2> QED
      BY <1>1, Division
  <1>3. ToInt(z) = r - IntHalf
    BY DEF ToInt
  <1> HIDE DEF q, r
  <1>4. z >= 0 => q >= 0
    <2> SUFFICES ASSUME z >= 0, q <= -1 PROVE FALSE
      BY <1>2
    <2>1. q * b <= (-1) * b
      BY <1>1, <1>2, ProductMonotone
    <2> QED
      BY <1>1, <1>2, <2>1
  <1>5. z >= 0 /\ z < IntHalf => q <= 0
    <2> SUFFICES ASSUME z >= 0, z < IntHalf, q >= 1 PROVE FALSE
      BY <1>2
    <2>1. 1 * b <= q * b
      BY <1>1, <1>2, ProductMonotone
    <2> QED
      BY <1>1, <1>2, <2>1
  <1>6. z >= 0 => 0 * b <= q * b
    BY <1>1, <1>2, <1>4, ProductMonotone
  <1>7. z >= 0 => r <= a
    BY <1>1, <1>2, <1>6
  <1>8. z >= 0 /\ z < IntHalf => r = a
    BY <1>1, <1>2, <1>4, <1>5
  <1> QED
    BY <1>1, <1>2, <1>3, <1>7, <1>8

(***************************************************************************)
(* The kernel thread never asks pause for more than the timeout, rounded   *)
(* up to a tick (kmod.c:229-231).                                          *)
(***************************************************************************)
LEMMA TicksBound ==
  ASSUME NEW t \in Nat
  PROVE  /\ Ticks(t) \in Nat \ {0}
         /\ Ticks(t) * Tick <= t \/ Ticks(t) = 1
  <1> DEFINE m == ToInt(t)
             x == ToInt(m * Hz)
             n == x \div Second
  <1>0. /\ Hz \in Nat \ {0} /\ Tick \in Nat \ {0} /\ IntHalf \in Nat \ {0}
        /\ Second \in Nat \ {0}
    BY MainLoopAssumption DEF Second
  <1>1. m \in Int /\ m < IntHalf /\ m <= t /\ (t < IntHalf => m = t)
    BY <1>0, ToIntBounds
  <1>2. m * Hz \in Int
    BY <1>0, <1>1
  <1>3. x \in Int /\ x < IntHalf /\ (m * Hz >= 0 => x <= m * Hz)
    BY <1>0, <1>2, ToIntBounds
  <1> HIDE DEF m, x
  <1>4. x <= t * Hz
    <2>1. CASE m >= 0
      <3>1. 0 * Hz <= m * Hz /\ m * Hz <= t * Hz
        BY <1>0, <1>1, <2>1, ProductMonotone
      <3> QED
        BY <1>0, <1>2, <1>3, <3>1
    <2>2. CASE m < 0
      <3>1. IntHalf <= t
        BY <1>0, <1>1, <2>2
      <3>2. 1 * t <= Hz * t
        BY <1>0, ProductMonotone
      <3> QED
        BY <1>0, <1>3, <3>1, <3>2
    <2> QED
      BY <1>1, <2>1, <2>2
  <1>5. /\ n \in Int /\ x % Second \in 0 .. Second - 1
        /\ x = Second * n + (x % Second)
    BY <1>0, <1>3, Division
  <1>6. Ticks(t) = IF n < 1 THEN 1 ELSE n
    BY DEF Ticks, m, x
  <1> HIDE DEF n
  <1>7. Second * n <= t * Hz
    BY <1>0, <1>3, <1>4, <1>5
  <1>8. n * Tick <= t
    <2>1. (n * Tick) * Hz = Second * n
      BY <1>0, <1>5 DEF Second
    <2> QED
      BY <1>0, <1>5, <1>7, <2>1, ProductCancel
  <1> QED
    BY <1>5, <1>6, <1>8

-----------------------------------------------------------------------------
(* The inductive invariant *)

Live(s) == Used(s) /\ ~sleep[s].canceled

Typed ==
  /\ now \in Nat
  /\ thread \in [Sleepers -> {"ready", "sleeping", "done"}]
  /\ sleep \in [Sleeps -> Sleep \cup {None}]
  /\ loop \in {"restart", "select", "next", "blocked", "returned", "done"}
  /\ until \in Nat

\* The sleeps that are not canceled and the threads that sleep, one to one.
Found ==
  /\ \A s \in Sleeps : Live(s) => thread[sleep[s].thread] = "sleeping"
  /\ \A r, s \in Sleeps : Live(r) /\ Live(s) /\ sleep[r].thread = sleep[s].thread => r = s
  /\ \A t \in Sleepers : thread[t] = "sleeping" => \E s \in Sleeps : Waits(s, t)

\* Once the loop goes on nothing runs, and then nothing new sleeps.
QuietInv ==
  /\ loop # "restart" => Quiet
  /\ loop = "next" => \A s \in Sleeps : Used(s) => Queued(s)

LoopInv == Typed /\ Found /\ QuietInv

(***************************************************************************)
(* What the invariant says of sleeping threads is what is claimed of them. *)
(***************************************************************************)
LEMMA FoundOnce == LoopInv => SleeperIsFoundOnce
  <1> SUFFICES ASSUME LoopInv, NEW t \in Sleepers
               PROVE  LET mine == {s \in Sleeps : Waits(s, t)}
                      IN  IF thread[t] = "sleeping"
                          THEN \E s \in Sleeps : mine = {s} ELSE mine = {}
    BY DEF SleeperIsFoundOnce
  <1>1. CASE thread[t] = "sleeping"
    <2>1. PICK s \in Sleeps : Waits(s, t)
      BY <1>1 DEF LoopInv, Found
    <2>2. \A r \in Sleeps : Waits(r, t) => r = s
      BY <2>1 DEF LoopInv, Found, Live, Waits
    <2>3. {r \in Sleeps : Waits(r, t)} = {s}
      BY <2>1, <2>2
    <2> QED
      BY <1>1, <2>3
  <1>2. CASE thread[t] # "sleeping"
    BY <1>2 DEF LoopInv, Found, Live, Waits
  <1> QED
    BY <1>1, <1>2

LEMMA InitInv == LoopInit => LoopInv
  BY DEF LoopInit, LoopInv, Typed, Found, QuietInv, Live, Waits, Used

(***************************************************************************)
(* A new sleep is a record that was not in use (time.ml, sleep).           *)
(***************************************************************************)
LEMMA SleepInv ==
  ASSUME LoopInv, NEW t \in Sleepers, NEW d \in Delays, TimeSleep(t, d)
  PROVE  LoopInv'
  <1> DEFINE n == CHOOSE s \in Unused : TRUE
  <1>1. n \in Sleeps /\ ~Used(n)
    BY DEF TimeSleep, Unused
  <1>2. /\ thread[t] = "ready"
        /\ sleep' = [sleep EXCEPT ![n] = NewSleep(t, d, "new")]
        /\ thread' = [thread EXCEPT ![t] = "sleeping"]
        /\ UNCHANGED <<now, loop, until>>
    BY DEF TimeSleep
  <1> HIDE DEF n
  <1>3. NewSleep(t, d, "new") \in Sleep
    BY MainLoopAssumption DEF LoopInv, Typed, NewSleep, Sleep
  <1>4. /\ NewSleep(t, d, "new").thread = t /\ ~NewSleep(t, d, "new").canceled
        /\ NewSleep(t, d, "new") # None
    BY <1>3, NoneAssumption DEF NewSleep
  <1>5. Typed'
    BY <1>1, <1>2, <1>3 DEF LoopInv, Typed
  <1>6. /\ sleep'[n] = NewSleep(t, d, "new")
        /\ \A s \in Sleeps \ {n} : sleep'[s] = sleep[s]
        /\ thread'[t] = "sleeping"
        /\ \A u \in Sleepers \ {t} : thread'[u] = thread[u]
    BY <1>1, <1>2 DEF LoopInv, Typed
  <1>7. \A s \in Sleeps : Live(s) => s # n /\ sleep[s].thread # t
    BY <1>1, <1>2 DEF LoopInv, Found, Live
  <1>8. \A s \in Sleeps : Used(s) => sleep[s].thread \in Sleepers
    BY DEF LoopInv, Typed, Used, Sleep
  <1>9. Found'
    <2>1. \A s \in Sleeps : Live(s)' => s = n \/ Live(s)
      BY <1>6 DEF Live, Used
    <2>2. ASSUME NEW s \in Sleeps, Live(s)'
          PROVE  thread'[sleep'[s].thread] = "sleeping"
      BY <1>4, <1>6, <1>7, <1>8, <2>1, <2>2 DEF LoopInv, Found, Live
    <2>3. ASSUME NEW r \in Sleeps, NEW s \in Sleeps, Live(r)', Live(s)',
                 sleep'[r].thread = sleep'[s].thread
          PROVE  r = s
      BY <1>4, <1>6, <1>7, <2>1, <2>3 DEF LoopInv, Found
    <2>4. ASSUME NEW u \in Sleepers, thread'[u] = "sleeping"
          PROVE  \E s \in Sleeps : Waits(s, u)'
      <3>1. CASE u = t
        BY <1>1, <1>4, <1>6, <3>1 DEF Waits, Used
      <3>2. CASE u # t
        BY <1>1, <1>6, <2>4, <3>2 DEF LoopInv, Found, Waits, Used
      <3> QED
        BY <3>1, <3>2
    <2> QED
      BY <2>2, <2>3, <2>4 DEF Found
  <1>10. QuietInv'
    BY <1>2 DEF LoopInv, QuietInv, Quiet
  <1> QED
    BY <1>5, <1>9, <1>10 DEF LoopInv

(***************************************************************************)
(* What wakes a sleeping thread also ends its sleep: the record is gone    *)
(* (Restart) or marked (Cancel), and the thread is ready.                  *)
(***************************************************************************)
LEMMA WakeInv ==
  ASSUME LoopInv, NEW s \in Sleeps, Live(s), NEW x \in Sleep \cup {None},
         x = None \/ x.canceled,
         sleep' = [sleep EXCEPT ![s] = x],
         thread' = [thread EXCEPT ![sleep[s].thread] = "ready"],
         UNCHANGED <<now, loop, until>>, loop = "restart"
  PROVE  LoopInv'
  <1> DEFINE t == sleep[s].thread
  <1>1. t \in Sleepers /\ thread[t] = "sleeping"
    BY DEF LoopInv, Typed, Found, Live, Used, Sleep
  <1>2. /\ sleep'[s] = x /\ ~Live(s)'
        /\ \A r \in Sleeps \ {s} : sleep'[r] = sleep[r]
        /\ thread'[t] = "ready"
        /\ \A u \in Sleepers \ {t} : thread'[u] = thread[u]
    BY <1>1 DEF LoopInv, Typed, Live, Used
  <1>3. \A r \in Sleeps : Live(r) => sleep[r].thread \in Sleepers
    BY DEF LoopInv, Typed, Live, Used, Sleep
  <1>4. Typed'
    BY <1>1 DEF LoopInv, Typed
  <1> HIDE DEF t
  <1>5. \A r \in Sleeps : Live(r)' => r # s /\ Live(r) /\ sleep'[r] = sleep[r]
    BY <1>2 DEF Live, Used
  <1>6. \A r \in Sleeps : Live(r)' => sleep[r].thread # t
    BY <1>5 DEF LoopInv, Found, t
  <1>7. Found'
    <2>1. ASSUME NEW r \in Sleeps, Live(r)'
          PROVE  thread'[sleep'[r].thread] = "sleeping"
      BY <1>2, <1>3, <1>5, <1>6, <2>1 DEF LoopInv, Found
    <2>2. ASSUME NEW u \in Sleepers, thread'[u] = "sleeping"
          PROVE  \E r \in Sleeps : Waits(r, u)'
      <3>1. u # t /\ thread[u] = "sleeping"
        BY <1>2, <2>2
      <3>2. PICK r \in Sleeps : Waits(r, u)
        BY <3>1 DEF LoopInv, Found
      <3>3. r # s
        BY <3>1, <3>2 DEF Waits, t
      <3> QED
        BY <1>2, <3>2, <3>3 DEF Waits, Used
    <2> QED
      BY <1>5, <2>1, <2>2 DEF LoopInv, Found
  <1> QED
    BY <1>4, <1>7 DEF LoopInv, QuietInv

LEMMA NextInv == LoopInv /\ [LoopNext]_loopVars => LoopInv'
  <1> SUFFICES ASSUME LoopInv, [LoopNext]_loopVars PROVE LoopInv'
    OBVIOUS
  <1>1. CASE UNCHANGED loopVars
    BY <1>1 DEF loopVars, LoopInv, Typed, Found, QuietInv, Quiet, Live, Waits, Used, Queued
  <1>2. ASSUME NEW t \in Sleepers, Finish(t) PROVE LoopInv'
    <2>1. /\ thread[t] = "ready" /\ loop = "restart"
          /\ thread' = [thread EXCEPT ![t] = "done"]
          /\ UNCHANGED <<now, sleep, loop, until>>
      BY <1>2 DEF Finish, LoopInv, QuietInv, Quiet
    <2>2. thread'[t] = "done" /\ \A u \in Sleepers \ {t} : thread'[u] = thread[u]
      BY <2>1 DEF LoopInv, Typed
    <2>3. Typed'
      BY <2>1 DEF LoopInv, Typed
    <2>4. \A s \in Sleeps : Live(s) => sleep[s].thread \in Sleepers
      BY DEF LoopInv, Typed, Live, Used, Sleep
    <2>5. Found'
      BY <2>1, <2>2, <2>4 DEF LoopInv, Found, Live, Waits, Used
    <2> QED
      BY <2>1, <2>3, <2>5 DEF LoopInv, QuietInv
  <1>3. ASSUME NEW t \in Sleepers, NEW d \in Delays, TimeSleep(t, d) PROVE LoopInv'
    BY <1>3, SleepInv
  <1>4. ASSUME NEW t \in Sleepers, NEW s \in Sleeps, Cancel(t, s) PROVE LoopInv'
    <2> DEFINE x == [sleep[s] EXCEPT !.canceled = TRUE]
    <2>1. /\ thread[t] = "ready" /\ loop = "restart" /\ Live(s)
          /\ sleep' = [sleep EXCEPT ![s].canceled = TRUE]
          /\ thread' = [thread EXCEPT ![sleep[s].thread] = "ready"]
          /\ UNCHANGED <<now, loop, until>>
      BY <1>4 DEF Cancel, LoopInv, QuietInv, Quiet, Live
    <2>2. sleep[s] \in Sleep
      BY <2>1 DEF LoopInv, Typed, Live, Used
    <2>3. x \in Sleep /\ x.canceled
      BY <2>2 DEF Sleep
    <2>4. sleep' = [sleep EXCEPT ![s] = x]
      BY <2>1
    <2> HIDE DEF x
    <2> QED
      BY <2>1, <2>3, <2>4, WakeInv
  <1>5. ASSUME NEW s \in Sleeps, Restart(s) PROVE LoopInv'
    <2>1. /\ loop = "restart" /\ Live(s)
          /\ sleep' = [sleep EXCEPT ![s] = None]
          /\ thread' = [thread EXCEPT ![sleep[s].thread] = "ready"]
          /\ UNCHANGED <<now, loop, until>>
      BY <1>5 DEF Restart, FirstSleep, Queued, Live
    <2> QED
      BY <2>1, WakeInv
  <1>6. ASSUME NEW s \in Sleeps, DropCanceled(s) PROVE LoopInv'
    <2>1. /\ Used(s) /\ ~Live(s)
          /\ sleep' = [sleep EXCEPT ![s] = None]
          /\ UNCHANGED <<now, thread, loop, until>>
      BY <1>6 DEF DropCanceled, FirstSleep, Queued, Live
    <2>2. sleep'[s] = None /\ \A r \in Sleeps \ {s} : sleep'[r] = sleep[r]
      BY <2>1 DEF LoopInv, Typed
    <2>3. Typed'
      BY <2>1 DEF LoopInv, Typed
    <2>4. Found'
      BY <2>1, <2>2 DEF LoopInv, Found, Live, Waits, Used
    <2>5. QuietInv'
      BY <2>1, <2>2 DEF LoopInv, QuietInv, Quiet, Used, Queued
    <2> QED
      BY <2>3, <2>4, <2>5 DEF LoopInv
  <1>7. ASSUME RestartEnd PROVE LoopInv'
    BY <1>7 DEF RestartEnd, LoopInv, Typed, Found, QuietInv, Quiet, Live, Waits, Used, Queued
  <1>8. ASSUME Select PROVE LoopInv'
    <2>1. /\ loop = "select" /\ loop' = "next" /\ UNCHANGED <<now, thread, until>>
          /\ sleep' = [s \in Sleeps |->
                         IF Used(s) THEN [sleep[s] EXCEPT !.in = "queue"] ELSE None]
      BY <1>8 DEF Select
    <2>2. ASSUME NEW s \in Sleeps, Used(s)
          PROVE  /\ sleep'[s] \in Sleep /\ sleep'[s].in = "queue"
                 /\ sleep'[s].thread = sleep[s].thread
                 /\ sleep'[s].canceled = sleep[s].canceled
      <3>1. sleep'[s] = [sleep[s] EXCEPT !.in = "queue"] /\ sleep[s] \in Sleep
        BY <2>1, <2>2 DEF LoopInv, Typed, Used
      <3> QED
        BY <3>1 DEF Sleep
    <2>3. \A s \in Sleeps : ~Used(s) => sleep'[s] = None
      BY <2>1
    <2>4. Typed'
      <3>1. \A s \in Sleeps : sleep'[s] \in Sleep \cup {None}
        BY <2>2, <2>3
      <3>2. sleep' \in [Sleeps -> Sleep \cup {None}]
        BY <2>1, <3>1
      <3> QED
        BY <2>1, <3>2 DEF LoopInv, Typed
    <2>5. \A s \in Sleeps : Used(s)' <=> Used(s)
      BY <2>2, <2>3, NoneAssumption DEF Used
    <2>6. \A s \in Sleeps : Live(s)' <=> Live(s)
      BY <2>2, <2>5 DEF Live
    <2>7. Found'
      BY <2>1, <2>2, <2>5, <2>6 DEF LoopInv, Found, Live, Waits
    <2>8. QuietInv'
      BY <2>1, <2>2, <2>5 DEF LoopInv, QuietInv, Quiet, Queued
    <2> QED
      BY <2>4, <2>7, <2>8 DEF LoopInv
  <1>9. ASSUME BlockKernel PROVE LoopInv'
    <2>1. /\ loop = "next" /\ loop' = "blocked" /\ UNCHANGED <<now, thread, sleep>>
          /\ \E x \in Nat : Block(x)
      <3>1. CASE \E s \in Sleeps : Block(IF sleep[s].time <= now THEN 0 ELSE sleep[s].time - now)
                                   /\ FirstSleep(s)
        BY <1>9, <3>1 DEF BlockKernel, LoopInv, Typed, FirstSleep, Queued, Used, Sleep
      <3>2. CASE Block(Day)
        BY <1>9, <3>2, MainLoopAssumption DEF BlockKernel
      <3> QED
        BY <1>9, <3>1, <3>2 DEF BlockKernel
    <2>2. PICK x \in Nat : Block(x)
      BY <2>1
    <2>3. until' \in Nat
      BY <2>2, TicksBound, MainLoopAssumption DEF Block, LoopInv, Typed
    <2>4. Found'
      BY <2>1 DEF LoopInv, Found, Live, Waits, Used
    <2> QED
      BY <2>1, <2>3, <2>4 DEF LoopInv, Typed, QuietInv, Quiet, Used, Queued
  <1>10. ASSUME Unblock PROVE LoopInv'
    BY <1>10 DEF Unblock, LoopInv, Typed, Found, QuietInv, Quiet, Live, Waits, Used, Queued
  <1>11. ASSUME Call PROVE LoopInv'
    BY <1>11 DEF Call, LoopInv, Typed, Found, QuietInv, Quiet, Live, Waits, Used, Queued
  <1>12. ASSUME ClockTick PROVE LoopInv'
    BY <1>12 DEF ClockTick, LoopInv, Typed, Found, QuietInv, Quiet, Live, Waits, Used, Queued
  <1> QED
    BY <1>1, <1>2, <1>3, <1>4, <1>5, <1>6, <1>7, <1>8, <1>9, <1>10, <1>11, <1>12
       DEF LoopNext, Program, Loop

(***************************************************************************)
(* The loop sleeps up to the first deadline, and any deadline is no sooner *)
(* than that one.                                                          *)
(***************************************************************************)
LEMMA BlocksStep ==
  ASSUME LoopInv, [LoopNext]_loopVars, loop = "next", loop' = "blocked", NEW r \in Sleeps, Live(r)
  PROVE  until' <= Tick + IF sleep[r].time <= now THEN now ELSE sleep[r].time
  <1>1. BlockKernel
    BY DEF LoopNext, loopVars, Program, Finish, TimeSleep, Cancel, Loop, Restart, DropCanceled,
           RestartEnd, Select, Unblock, Call, ClockTick
  <1>2. Queued(r)
    BY DEF LoopInv, QuietInv, Live
  <1>3. PICK s \in Sleeps :
          FirstSleep(s) /\ Block(IF sleep[s].time <= now THEN 0 ELSE sleep[s].time - now)
    BY <1>1, <1>2 DEF BlockKernel
  <1> DEFINE x == IF sleep[s].time <= now THEN 0 ELSE sleep[s].time - now
  <1>4. sleep[s].time \in Nat /\ sleep[r].time \in Nat /\ now \in Nat
    BY <1>2, <1>3 DEF LoopInv, Typed, FirstSleep, Queued, Used, Sleep
  <1>5. sleep[s].time <= sleep[r].time
    BY <1>2, <1>3 DEF FirstSleep
  <1>6. x \in Nat /\ until' = now + Ticks(x) * Tick
    BY <1>3, <1>4 DEF Block
  <1>7. Ticks(x) \in Nat \ {0} /\ (Ticks(x) * Tick <= x \/ Ticks(x) = 1)
    <2> HIDE DEF x
    <2> QED
      BY <1>6, TicksBound
  <1>8. Tick \in Nat \ {0}
    BY MainLoopAssumption
  <1>9. Ticks(x) * Tick \in Nat /\ Ticks(x) * Tick <= x + Tick
    <2> HIDE DEF x
    <2> QED
      BY <1>6, <1>7, <1>8
  <1> QED
    BY <1>4, <1>5, <1>6, <1>8, <1>9

-----------------------------------------------------------------------------
(* Theorems *)

THEOREM SpecLoopInv == LoopSpec => []LoopInv
  BY InitInv, NextInv, PTL DEF LoopSpec

(***************************************************************************)
(* Every variable keeps its type, the bounded ones their bounds.           *)
(***************************************************************************)
THEOREM LoopTypesHold == LoopSpec => []LoopTypeOK
  <1> DEFINE Bounded == now \in 0 .. MaxTime /\ cancels \in 0 .. MaxCancels
  <1>1. LoopInit => Bounded
    BY MainLoopAssumption DEF LoopInit
  <1>2. Bounded /\ [LoopNext]_loopVars => Bounded'
    BY MainLoopAssumption
       DEF LoopNext, loopVars, Program, Finish, TimeSleep, Cancel, Loop, Restart, DropCanceled,
           RestartEnd, Select, BlockKernel, Unblock, Call, ClockTick
  <1>3. LoopInv /\ Bounded => LoopTypeOK
    BY DEF LoopInv, Typed, LoopTypeOK
  <1> QED
    BY <1>1, <1>2, <1>3, SpecLoopInv, PTL DEF LoopSpec

(***************************************************************************)
(* A sleeping thread is found by the loop exactly once, and one that does  *)
(* not sleep is not found, for any number of threads and sleeps (time.ml). *)
(***************************************************************************)
THEOREM SpecSleeperIsFoundOnce == LoopSpec => []SleeperIsFoundOnce
  BY SpecLoopInv, FoundOnce, PTL

(***************************************************************************)
(* The loop never sleeps past a deadline by a tick, for any clock rate and *)
(* any width of the int in which the product overflows (kmod.c:229-231).   *)
(***************************************************************************)
THEOREM SpecBlocksUpToDeadline == LoopSpec => BlocksUpToDeadline
  <1>1. LoopInv /\ [LoopNext]_loopVars =>
          [loop = "next" /\ loop' = "blocked" =>
             \A s \in Sleeps : Used(s) /\ ~sleep[s].canceled =>
               until' <= Tick + IF sleep[s].time <= now THEN now ELSE sleep[s].time]_loopVars
    BY BlocksStep DEF Live
  <1> QED
    BY <1>1, SpecLoopInv, PTL DEF LoopSpec, BlocksUpToDeadline

-----------------------------------------------------------------------------
(***************************************************************************)
(* The pages (Netif): what it promises of the count u[0] and of            *)
(* contigfree.                                                             *)
(*                                                                         *)
(* The counts alone do not carry the proof. Of a page that is held, every  *)
(* dead view is over-counted by one, since its finaliser stopped at the    *)
(* proxy. Of a page that nobody holds any more, all but the view that died *)
(* last are: only the count of that one can come to zero, and whichever of *)
(* its finaliser and its last mbuf comes second frees the page, once.      *)
(***************************************************************************)
ViewT == [page: Nat, off: Nat, len: Nat, u0: Nat, u1: Nat, live: BOOLEAN]
PageT == [cut: BOOLEAN, proxy: Int, freed: Seq([off: Nat, len: Nat])]
MbufT == [pkt: Nat, n: Nat, v: Nat, off: Nat]
CallT == [at: {"map", "inc"}, todo: Seq(Nat), left: Nat, n: Nat, u0: Nat,
          frag: SUBSET MbufT, pkt: SUBSET MbufT, rest: SUBSET MbufT]
MainT == {Idle} \cup [at: {"dec"}, v: Nat, u0: Nat] \cup CallT

\* The program is mapping the views of a packet.
Mapping == main.at \in {"map", "inc"}

\* The types of the memory.
TypeInv ==
    /\ view \in Seq(ViewT) /\ page \in Seq(PageT)
    /\ main \in MainT /\ flight \in SUBSET MbufT /\ IsFiniteSet(Mbufs) /\ calls \in Nat

\* More than the mbufs of a view count on it.
Over(v) == view[v].u0 >= Uses(v) + 1

\* An mbuf shows a view that there is.
Shown == \A m \in Mbufs: m.v \in DOMAIN view
\* A view lies in its page, and a page that was not cut has one view, the whole page.
ViewInv == \A v \in DOMAIN view:
    /\ view[v].page \in DOMAIN page
    /\ view[v].off + view[v].u1 <= PageSize /\ view[v].off + view[v].len <= PageSize
    /\ ~ page[view[v].page].cut => /\ view[v].off = 0 /\ view[v].u1 = PageSize
                                   /\ \A w \in DOMAIN view: view[w].page = view[v].page => w = v

\* So do the mbufs that show a part of it.
MbufInv == \A m \in Mbufs:
    /\ m.off + view[m.v].u1 <= PageSize
    /\ ~ page[view[m.v].page].cut => m.off = 0

\* A page is held by its views, and by the finaliser of the last one until it writes.
LiveOf(p) == {v \in DOMAIN view: view[v].page = p /\ view[v].live}
Held(p) == LiveOf(p) # {} \/ (main.at = "dec" /\ view[main.v].page = p)
\* contigfree was given the page, or for a cut page a part of it, once.
FreedOnce(p) ==
    /\ Len(page[p].freed) = 1 /\ page[p].freed[1].off + page[p].freed[1].len <= PageSize
    /\ ~ page[p].cut => page[p].freed[1] = [off |-> 0, len |-> PageSize]
\* A page that nobody holds was left by the view that died last: only that one's count
\* can come to zero, all others stay above their uses.
LeftBy(p, last) ==
    /\ last \in DOMAIN view /\ view[last].page = p
    /\ \A v \in DOMAIN view: view[v].page = p /\ v # last => Over(v)
    /\ page[p].freed = <<>> \/ (view[last].u0 = 0 /\ FreedOnce(p))
\* The finaliser goes on to the count of the last view only (caml_ba_finalize).
DecInv == main.at = "dec" => LiveOf(view[main.v].page) = {}
\* The proxy counts the views that live (caml_ba_update_proxy).
ProxyInv == \A p \in DOMAIN page: page[p].proxy = IF page[p].cut THEN Cardinality(LiveOf(p)) ELSE 0
\* No part of a held page was given back, and its dead views are over-counted: their
\* finalisers stopped at the proxy.
HeldInv == \A p \in DOMAIN page: Held(p) =>
    page[p].freed = <<>> /\ \A v \in DOMAIN view: view[v].page = p /\ ~ view[v].live => Over(v)
\* And a page that is not held was left.
LeftInv == \A p \in DOMAIN page: ~ Held(p) => \E last \in DOMAIN view: LeftBy(p, last)

PageInv == ViewInv /\ MbufInv /\ DecInv /\ ProxyInv /\ HeldInv /\ LeftInv

\* The packet in the making is newer than those that were sent.
Sent == \A m \in flight: m.pkt <= calls /\ (Mapping => m.pkt < calls)
\* What the finaliser has read may have fallen since, and never below the uses and one.
Releasing == main.at = "dec" => /\ main.v \in DOMAIN view /\ ~ view[main.v].live
                                /\ main.u0 >= view[main.v].u0 /\ Over(main.v)
\* What caml_put_mbufs has still to map, and what it has mapped.
Sending == Mapping =>
    /\ \A k \in DOMAIN main.todo: main.todo[k] \in DOMAIN view /\ view[main.todo[k]].live /\ view[main.todo[k]].u1 > 0
    /\ main.todo # <<>> => main.left \in 1..view[Head(main.todo)].u1
    /\ main.todo = <<>> => main.frag = {}
    /\ \A m \in main.frag: m.v = Head(main.todo)
    /\ \A m \in main.frag \cup main.pkt \cup main.rest: m.pkt = calls
\* What netif_map_to_mbuf has read may have fallen since.
Counting == main.at = "inc" => main.todo # <<>> /\ main.u0 >= view[Head(main.todo)].u0

FrameT == [at: Places, frags: Nat]
\* The types of the driver, and the bound of the calls.
DriverInv ==
    /\ pip \in [Ifaces -> [times: Nat, plugged: BOOLEAN]] /\ \A i \in Ifaces: pip[i].times <= calls
    /\ frame \in Seq(FrameT) /\ calls + Len(frame) <= MaxEvents

\* What a count can be after k packets, and n mbufs of the next one.
Ceiling(k, n) == 1 + (2 * PageSize) * k + n
Top == IF Mapping THEN Ceiling(calls - 1, main.n) ELSE Ceiling(calls, 0)
\* No count is above what the calls so far can have brought it to.
CountInv ==
    /\ Len(view) <= MaxViews
    /\ \A v \in DOMAIN view: view[v].u0 <= Top
    /\ main.at \in {"inc", "dec"} => main.u0 <= Top
    /\ Mapping => /\ calls >= 1 /\ Len(main.todo) <= 2
                  /\ main.todo = <<>> => main.left = 0
                  /\ main.n + main.left + (IF Len(main.todo) = 2 THEN PageSize ELSE 0) <= 2 * PageSize

\* The counts cover the uses, also between a read of a count and its write.
UseInv == CountCoversUses /\ Shown /\ Sent /\ Releasing /\ Sending /\ Counting

-----------------------------------------------------------------------------
\* The inductive invariant.
IInv == TypeInv /\ UseInv /\ PageInv /\ DriverInv /\ CountInv

\* Where the program is, and what it then carries.
LEMMA MainKinds ==
  ASSUME TypeInv
  PROVE  /\ main.at = "idle" <=> main = Idle
         /\ main.at \in {"idle", "dec", "map", "inc"}
         /\ main.at = "dec" => main \in [at: {"dec"}, v: Nat, u0: Nat]
         /\ Mapping => main \in CallT
  BY DEF TypeInv, MainT, CallT, Idle, Mapping

\* A count of a view changes, and nothing else of any view.
LEMMA SetU0 ==
  ASSUME view \in Seq(ViewT), NEW v \in DOMAIN view, NEW x \in Nat,
         view' = [view EXCEPT ![v].u0 = x]
  PROVE  /\ view' \in Seq(ViewT) /\ Len(view') = Len(view) /\ DOMAIN view' = DOMAIN view
         /\ view'[v].u0 = x
         /\ \A w \in DOMAIN view: w # v => view'[w] = view[w]
         /\ \A w \in DOMAIN view: /\ view'[w].page = view[w].page /\ view'[w].off = view[w].off
                                  /\ view'[w].len = view[w].len /\ view'[w].u1 = view[w].u1
                                  /\ view'[w].live = view[w].live
<1>1. v \in 1..Len(view) /\ view[v] \in ViewT
  OBVIOUS
<1> DEFINE e == [view[v] EXCEPT !.u0 = x]
<1>2. /\ e \in ViewT /\ e.u0 = x /\ e.page = view[v].page /\ e.off = view[v].off /\ e.len = view[v].len
      /\ e.u1 = view[v].u1 /\ e.live = view[v].live
  BY <1>1 DEF ViewT
<1>3. view' = [view EXCEPT ![v] = e]
  OBVIOUS
<1> HIDE DEF e
<1>4. /\ view' \in Seq(ViewT) /\ Len(view') = Len(view)
      /\ \A w \in 1..Len(view): view'[w] = IF w = v THEN e ELSE view[w]
  BY <1>1, <1>2, <1>3, ExceptSeq
<1>5. DOMAIN view = 1..Len(view) /\ DOMAIN view' = 1..Len(view)
  BY <1>4
<1> QED
  BY <1>1, <1>2, <1>4, <1>5

\* A part is given to contigfree.
LEMMA Frees1 ==
  ASSUME page \in Seq(PageT), NEW p \in DOMAIN page, NEW off \in Nat, NEW len \in Nat,
         page' = Contigfree(p, off, len)
  PROVE  /\ page' \in Seq(PageT) /\ Len(page') = Len(page) /\ DOMAIN page' = DOMAIN page
         /\ page'[p].cut = page[p].cut /\ page'[p].proxy = page[p].proxy
         /\ page'[p].freed = Append(page[p].freed, [off |-> off, len |-> len])
         /\ \A r \in DOMAIN page: r # p => page'[r] = page[r]
<1>1. p \in 1..Len(page) /\ page[p] \in PageT
  OBVIOUS
<1> DEFINE e == [page[p] EXCEPT !.freed = Append(@, [off |-> off, len |-> len])]
<1>2. /\ e \in PageT /\ e.cut = page[p].cut /\ e.proxy = page[p].proxy
      /\ e.freed = Append(page[p].freed, [off |-> off, len |-> len])
  <2>1. page[p].freed \in Seq([off: Nat, len: Nat])
    BY <1>1 DEF PageT
  <2>2. Append(page[p].freed, [off |-> off, len |-> len]) \in Seq([off: Nat, len: Nat])
    BY <2>1
  <2> QED
    BY <1>1, <2>2 DEF PageT
<1>3. page' = [page EXCEPT ![p] = e]
  BY DEF Contigfree
<1> HIDE DEF e
<1>4. /\ page' \in Seq(PageT) /\ Len(page') = Len(page)
      /\ \A r \in 1..Len(page): page'[r] = IF r = p THEN e ELSE page[r]
  BY <1>1, <1>2, <1>3, ExceptSeq
<1>5. DOMAIN page = 1..Len(page) /\ DOMAIN page' = 1..Len(page)
  BY <1>4
<1> QED
  BY <1>1, <1>2, <1>4, <1>5

\* Counting mbufs.
LEMMA UsesType ==
  ASSUME TypeInv, NEW v
  PROVE  /\ IsFiniteSet(MbufsOf(v)) /\ Cardinality(MbufsOf(v)) \in Nat /\ Uses(v) \in Nat
         /\ \A m \in Mbufs: m.v = v => Cardinality(MbufsOf(v)) >= 1
<1>1. IsFiniteSet(MbufsOf(v))
  BY FS_Subset DEF MbufsOf, TypeInv
<1>2. Cardinality(MbufsOf(v)) \in Nat
  BY <1>1, FS_CardinalityType
<1>3. ASSUME NEW m \in Mbufs, m.v = v PROVE Cardinality(MbufsOf(v)) >= 1
  <2>1. MbufsOf(v) # {}
    BY <1>3 DEF MbufsOf
  <2>2. Cardinality(MbufsOf(v)) # 0
    BY <1>1, <2>1, FS_EmptySet
  <2> QED
    BY <1>2, <2>2
<1> QED
  BY <1>1, <1>2, <1>3 DEF Uses

\* The same after a step.
LEMMA UsesTypeNext ==
  ASSUME IsFiniteSet(Mbufs'), NEW v
  PROVE  IsFiniteSet((MbufsOf(v))') /\ Cardinality((MbufsOf(v))') \in Nat /\ Uses(v)' \in Nat
<1>1. IsFiniteSet((MbufsOf(v))')
  BY FS_Subset DEF MbufsOf
<1>2. Cardinality((MbufsOf(v))') \in Nat
  BY <1>1, FS_CardinalityType
<1> QED
  BY <1>1, <1>2 DEF Uses

\* Mbufs of a view that are no more than before.
LEMMA UsesShrink ==
  ASSUME TypeInv, NEW v, \A m \in Mbufs': m.v = v => m \in Mbufs,
         view'[v].live = view[v].live
  PROVE  Uses(v)' <= Uses(v) /\ Uses(v)' \in Nat
<1>1. (MbufsOf(v))' \subseteq MbufsOf(v)
  BY DEF MbufsOf
<1>2. IsFiniteSet(MbufsOf(v)) /\ Cardinality(MbufsOf(v)) \in Nat
  BY UsesType
<1> DEFINE B == MbufsOf(v)
           A == (MbufsOf(v))'
<1> HIDE DEF A, B
<1>3. IsFiniteSet(A) /\ Cardinality(A) <= Cardinality(B)
  BY <1>1, <1>2, FS_Subset DEF A, B
<1>4. Cardinality(A) \in Nat
  BY <1>3, FS_CardinalityType
<1>5. Cardinality((MbufsOf(v))') <= Cardinality(MbufsOf(v)) /\ Cardinality((MbufsOf(v))') \in Nat
  BY <1>3, <1>4 DEF A, B
<1> QED
  BY <1>2, <1>5 DEF Uses

\* A step that leaves the mbufs and the view alone.
LEMMA UsesSame ==
  ASSUME NEW v, Mbufs' = Mbufs, view'[v].live = view[v].live
  PROVE  Uses(v)' = Uses(v)
  BY DEF Uses, MbufsOf

\* The uses of a view, by whether it lives.
LEMMA UsesNow ==
  ASSUME NEW v, NEW c \in Nat, Cardinality(MbufsOf(v)) = c
  PROVE  (view[v].live => Uses(v) = 1 + c) /\ (~ view[v].live => Uses(v) = c)
<1>1. Uses(v) = (IF view[v].live THEN 1 ELSE 0) + c
  BY Zenon DEF Uses
<1>2. (view[v].live => (IF view[v].live THEN 1 ELSE 0) = 1) /\ (~ view[v].live => (IF view[v].live THEN 1 ELSE 0) = 0)
  BY Zenon
<1>3. PICK a: a = IF view[v].live THEN 1 ELSE 0
  OBVIOUS
<1>4. Uses(v) = a + c /\ (view[v].live => a = 1) /\ (~ view[v].live => a = 0)
  BY <1>1, <1>2, <1>3, Zenon
<1>5. CASE a = 1
  BY <1>4, <1>5
<1>6. CASE a = 0
  BY <1>4, <1>6
<1> QED
  BY <1>4, <1>5, <1>6, Zenon

\* The same after a step.
LEMMA UsesNext ==
  ASSUME NEW v, NEW c \in Nat, Cardinality((MbufsOf(v))') = c
  PROVE  (view'[v].live => Uses(v)' = 1 + c) /\ (~ view'[v].live => Uses(v)' = c)
<1>1. Uses(v)' = (IF view'[v].live THEN 1 ELSE 0) + c
  BY Zenon DEF Uses
<1>2. (view'[v].live => (IF view'[v].live THEN 1 ELSE 0) = 1)
      /\ (~ view'[v].live => (IF view'[v].live THEN 1 ELSE 0) = 0)
  BY Zenon
<1>3. PICK a: a = IF view'[v].live THEN 1 ELSE 0
  OBVIOUS
<1>4. Uses(v)' = a + c /\ (view'[v].live => a = 1) /\ (~ view'[v].live => a = 0)
  BY <1>1, <1>2, <1>3, Zenon
<1>5. CASE a = 1
  BY <1>4, <1>5
<1>6. CASE a = 0
  BY <1>4, <1>6
<1> QED
  BY <1>4, <1>5, <1>6, Zenon

\* A view is replaced.
LEMMA SetView ==
  ASSUME view \in Seq(ViewT), NEW v \in DOMAIN view, NEW e \in ViewT, view' = [view EXCEPT ![v] = e]
  PROVE  /\ view' \in Seq(ViewT) /\ Len(view') = Len(view) /\ DOMAIN view' = DOMAIN view
         /\ view'[v] = e
         /\ \A w \in DOMAIN view: w # v => view'[w] = view[w]
<1>1. v \in 1..Len(view)
  OBVIOUS
<1>2. /\ view' \in Seq(ViewT) /\ Len(view') = Len(view)
      /\ \A w \in 1..Len(view): view'[w] = IF w = v THEN e ELSE view[w]
  BY <1>1, ExceptSeq
<1>3. DOMAIN view = 1..Len(view) /\ DOMAIN view' = 1..Len(view)
  BY <1>2
<1> QED
  BY <1>1, <1>2, <1>3

\* A view is added.
LEMMA AddView ==
  ASSUME view \in Seq(ViewT), NEW e \in ViewT, view' = Append(view, e)
  PROVE  /\ view' \in Seq(ViewT) /\ Len(view') = Len(view) + 1
         /\ DOMAIN view' = DOMAIN view \cup {Len(view) + 1} /\ Len(view) + 1 \notin DOMAIN view
         /\ view'[Len(view) + 1] = e
         /\ \A w \in DOMAIN view: view'[w] = view[w]
  OBVIOUS

\* The views and the pages by their types.
LEMMA ViewType ==
  ASSUME TypeInv
  PROVE  /\ view \in Seq(ViewT) /\ DOMAIN view = 1..Len(view) /\ Len(view) \in Nat
         /\ \A v \in DOMAIN view: view[v] \in ViewT
         /\ page \in Seq(PageT) /\ DOMAIN page = 1..Len(page) /\ Len(page) \in Nat
         /\ \A p \in DOMAIN page: page[p] \in PageT
<1>1. view \in Seq(ViewT) /\ page \in Seq(PageT)
  BY DEF TypeInv
<1> QED
  BY <1>1

\* What covers a view covers it still.
LEMMA StillCovered ==
  ASSUME TypeInv, CountCoversUses, NEW v \in DOMAIN view, \A m \in Mbufs': m.v = v => m \in Mbufs,
         view'[v].live = view[v].live, view'[v].u0 \in Nat, view'[v].u0 >= view[v].u0
  PROVE  view'[v].u0 >= Uses(v)'
<1>1. Uses(v)' <= Uses(v) /\ Uses(v)' \in Nat /\ Uses(v) \in Nat
  BY UsesShrink, UsesType
<1>2. view[v].u0 \in Nat /\ view[v].u0 >= Uses(v)
  BY ViewType DEF CountCoversUses, ViewT
<1> QED
  BY <1>1, <1>2

\* And what is more than covered stays so.
LEMMA StillOver ==
  ASSUME TypeInv, NEW v \in DOMAIN view, Over(v), \A m \in Mbufs': m.v = v => m \in Mbufs,
         view'[v].live = view[v].live, view'[v].u0 \in Nat, view'[v].u0 >= view[v].u0
  PROVE  Over(v)'
<1>1. Uses(v)' <= Uses(v) /\ Uses(v)' \in Nat /\ Uses(v) \in Nat
  BY UsesShrink, UsesType
<1>2. view[v].u0 \in Nat /\ view[v].u0 >= Uses(v) + 1
  BY ViewType DEF Over, ViewT
<1> QED
  BY <1>1, <1>2 DEF Over

-----------------------------------------------------------------------------
(* Steps that leave the memory alone *)

\* A step of the driver, and the start of a call that leaves the memory alone.
LEMMA QuietUses ==
  ASSUME TypeInv, UseInv, memory' = memory, calls' \in Nat,
         calls' = calls \/ (main = Idle /\ calls' >= calls)
  PROVE  TypeInv' /\ UseInv'
<1>1. page' = page /\ view' = view /\ main' = main /\ flight' = flight
  BY DEF memory
<1>2. Mbufs' = Mbufs
  BY <1>1 DEF Mbufs
<1>3. \A v: Uses(v)' = Uses(v)
  BY <1>1, <1>2 DEF Uses, MbufsOf
<1>4. TypeInv'
  BY <1>1, <1>2 DEF TypeInv
<1>5. Mapping => calls' = calls
  BY DEF Mapping, Idle
<1>6. CountCoversUses' /\ Shown' /\ Releasing'
  BY <1>1, <1>2, <1>3 DEF UseInv, CountCoversUses, Shown, Releasing, Over
<1>7. calls' >= calls /\ calls \in Nat
  BY DEF TypeInv
<1>8. \A m \in flight: m.pkt \in Nat
  BY DEF TypeInv, MbufT
<1>9. Sent'
  BY <1>1, <1>5, <1>7, <1>8 DEF UseInv, Sent, Mapping
<1>10. Sending' /\ Counting'
  BY <1>1, <1>5 DEF UseInv, Sending, Counting, Mapping
<1> QED
  BY <1>4, <1>6, <1>9, <1>10 DEF UseInv

-----------------------------------------------------------------------------
(* The views and their counts: calls of the program *)

\* A view is added that nothing shows yet.
LEMMA AddUses ==
  ASSUME TypeInv, UseInv, main = Idle, main' = Idle, flight' = flight, calls' = calls + 1,
         page' \in Seq(PageT),
         NEW e \in ViewT, e.u0 = 1, e.live = TRUE, view' = Append(view, e)
  PROVE  TypeInv' /\ UseInv'
<1>0. PICK new: new = Len(view) + 1
  OBVIOUS
<1>1. /\ view' \in Seq(ViewT) /\ DOMAIN view' = DOMAIN view \cup {new} /\ new \notin DOMAIN view
      /\ view'[new] = e /\ \A w \in DOMAIN view: view'[w] = view[w]
  BY <1>0, ViewType, AddView
<1>2. Mbufs = flight /\ Mbufs' = flight
  BY DEF Mbufs, Idle
<1>3. TypeInv'
  BY <1>1, <1>2 DEF TypeInv, MainT
<1>4. \A v \in DOMAIN view: Uses(v)' = Uses(v)
  BY <1>1, <1>2, UsesSame
<1>5. (MbufsOf(new))' = {}
  BY <1>1, <1>2 DEF MbufsOf, UseInv, Shown
<1>6. Uses(new)' = 1
  <2>1. Cardinality((MbufsOf(new))') = 0
    BY <1>5, FS_EmptySet
  <2>2. view'[new].live
    BY <1>1
  <2>3. Uses(new)' = 1 + 0
    BY <2>1, <2>2, UsesNext
  <2> QED
    BY <2>3
<1>7. CountCoversUses'
  <2>1. \A v \in DOMAIN view: view[v].u0 >= Uses(v)
    BY DEF UseInv, CountCoversUses
  <2>2. \A v \in DOMAIN view: view'[v].u0 >= Uses(v)'
    BY <1>1, <1>4, <2>1
  <2>3. view'[new].u0 >= Uses(new)'
    BY <1>1, <1>6
  <2> QED
    BY <1>1, <2>2, <2>3 DEF CountCoversUses
<1>8. Shown'
  BY <1>1, <1>2 DEF UseInv, Shown
<1>9. Sent'
  <2>1. \A m \in flight: m.pkt \in Nat /\ m.pkt <= calls
    BY DEF TypeInv, MbufT, UseInv, Sent
  <2>2. calls \in Nat
    BY DEF TypeInv
  <2> QED
    BY <2>1, <2>2 DEF Sent, Mapping, Idle
<1>10. Releasing' /\ Sending' /\ Counting'
  BY DEF Releasing, Sending, Counting, Mapping, Idle
<1> QED
  BY <1>3, <1>7, <1>8, <1>9, <1>10 DEF UseInv

\* Io_page.get: the first view of the page counts itself.
LEMMA AllocPagesUses ==
  ASSUME TypeInv, UseInv, AllocPages
  PROVE  TypeInv' /\ UseInv'
<1> DEFINE e == [page |-> Len(page) + 1, off |-> 0, len |-> PageSize, u0 |-> 1, u1 |-> PageSize, live |-> TRUE]
           q == [cut |-> FALSE, proxy |-> 0, freed |-> <<>>]
<1>1. e \in ViewT /\ e.u0 = 1 /\ e.live = TRUE
  BY ViewType, Sizes DEF ViewT
<1>2. q \in PageT
  BY DEF PageT
<1>3. /\ main = Idle /\ main' = Idle /\ flight' = flight /\ calls' = calls + 1
      /\ page' = Append(page, q) /\ view' = Append(view, e)
  BY DEF AllocPages, Calls
<1> HIDE DEF e, q
<1>4. page' \in Seq(PageT)
  BY <1>2, <1>3, ViewType
<1> QED
  BY <1>1, <1>3, <1>4, AddUses

\* Bigarray.Array1.sub: the new view counts itself.
LEMMA SubUses ==
  ASSUME TypeInv, UseInv, NEW v \in DOMAIN view, view[v].page \in DOMAIN page,
         NEW ofs \in Nat, NEW len \in Nat, Sub(v, ofs, len)
  PROVE  TypeInv' /\ UseInv'
<1> DEFINE e == [view[v] EXCEPT !.off = @ + ofs, !.len = len, !.u0 = 1, !.u1 = len]
           p == view[v].page
           q == UpdateProxy(page[p])
<1>1. e \in ViewT /\ e.u0 = 1 /\ e.live = TRUE
  <2>1. view[v] \in ViewT /\ view[v].live
    BY ViewType DEF Sub
  <2>2. PICK x \in ViewT: x = view[v]
    BY <2>1
  <2>3. e = [page |-> x.page, off |-> x.off + ofs, len |-> len, u0 |-> 1, u1 |-> len, live |-> x.live]
    <3>1. e = [x EXCEPT !.off = @ + ofs, !.len = len, !.u0 = 1, !.u1 = len]
      BY <2>2
    <3> HIDE DEF e
    <3> QED
      BY <3>1 DEF ViewT
  <2>4. x.live = TRUE
    BY <2>1, <2>2 DEF ViewT
  <2> HIDE DEF e
  <2> QED
    BY <2>3, <2>4 DEF ViewT
<1>2. q \in PageT
  <2>1. PICK x \in PageT: x = page[p]
    BY ViewType
  <2>2. q = [cut |-> TRUE, proxy |-> IF x.cut THEN x.proxy + 1 ELSE 2, freed |-> x.freed]
    BY <2>1 DEF PageT, UpdateProxy
  <2> HIDE DEF q
  <2> QED
    BY <2>2 DEF PageT
<1>3. /\ main = Idle /\ main' = Idle /\ flight' = flight /\ calls' = calls + 1
      /\ page' = [page EXCEPT ![p] = q] /\ view' = Append(view, e)
  BY DEF Sub, Calls
<1>5. p \in 1..Len(page)
  BY ViewType
<1> HIDE DEF e, q, p
<1>4. page' \in Seq(PageT)
  BY <1>2, <1>3, <1>5, ViewType, ExceptSeq
<1> QED
  BY <1>1, <1>3, <1>4, AddUses

\* caml_bigarray_shift_left moves the view, and no count.
LEMMA ShiftLeftUses ==
  ASSUME TypeInv, UseInv, NEW v \in DOMAIN view, NEW n \in Nat, ShiftLeft(v, n)
  PROVE  TypeInv' /\ UseInv'
<1>1. PICK x \in ViewT: x = view[v]
  BY ViewType
<1>2. n <= x.off /\ x.live /\ main = Idle /\ calls' = calls + 1
      /\ page' = page /\ main' = main /\ flight' = flight
  BY <1>1 DEF ShiftLeft, Calls
<1> DEFINE e == [page |-> x.page, off |-> x.off - n, len |-> x.len + n, u0 |-> x.u0, u1 |-> x.u1, live |-> x.live]
<1>3. e \in ViewT
  <2>1. x.off - n \in Nat /\ x.len + n \in Nat
    BY <1>2 DEF ViewT
  <2> QED
    BY <2>1 DEF ViewT
<1>4. view' = [view EXCEPT ![v] = e]
  <2>1. view' = [view EXCEPT ![v] = [[view[v] EXCEPT !.off = @ - n] EXCEPT !.len = @ + n]]
    BY DEF ShiftLeft
  <2>2. [[x EXCEPT !.off = @ - n] EXCEPT !.len = @ + n] = e
    <3> DEFINE y == [page |-> x.page, off |-> x.off - n, len |-> x.len, u0 |-> x.u0, u1 |-> x.u1, live |-> x.live]
    <3>1. [x EXCEPT !.off = @ - n] = y
      BY DEF ViewT
    <3>2. y.len = x.len /\ [y EXCEPT !.len = x.len + n] = e
      OBVIOUS
    <3> HIDE DEF y, e
    <3> QED
      BY <3>1, <3>2
  <2> QED
    BY <1>1, <2>1, <2>2
<1>5. e.live = x.live /\ e.u0 = x.u0
  OBVIOUS
<1> HIDE DEF e
<1>6. /\ view' \in Seq(ViewT) /\ DOMAIN view' = DOMAIN view
      /\ \A w \in DOMAIN view: view'[w].live = view[w].live /\ view'[w].u0 = view[w].u0
  BY <1>1, <1>3, <1>4, <1>5, ViewType, SetView
<1>7. Mbufs' = flight /\ Mbufs = flight
  BY <1>2 DEF Mbufs, Idle
<1>8. TypeInv'
  BY <1>2, <1>6, <1>7 DEF TypeInv
<1>9. \A w \in DOMAIN view: Uses(w)' = Uses(w)
  BY <1>6, <1>7, UsesSame
<1>10. CountCoversUses'
  BY <1>6, <1>9 DEF UseInv, CountCoversUses
<1>11. Shown'
  BY <1>6, <1>7 DEF UseInv, Shown
<1>12. Sent'
  <2>1. \A m \in flight: m.pkt \in Nat /\ m.pkt <= calls
    BY DEF TypeInv, MbufT, UseInv, Sent
  <2>2. calls \in Nat
    BY DEF TypeInv
  <2> QED
    BY <1>2, <2>1, <2>2 DEF Sent, Mapping, Idle
<1>13. Releasing' /\ Sending' /\ Counting'
  BY <1>2 DEF Releasing, Sending, Counting, Mapping, Idle
<1> QED
  BY <1>8, <1>10, <1>11, <1>12, <1>13 DEF UseInv

-----------------------------------------------------------------------------
(* The finaliser *)

\* A page is replaced.
LEMMA SetPage ==
  ASSUME page \in Seq(PageT), NEW p \in DOMAIN page, NEW e \in PageT, page' = [page EXCEPT ![p] = e]
  PROVE  /\ page' \in Seq(PageT) /\ Len(page') = Len(page) /\ DOMAIN page' = DOMAIN page
         /\ page'[p] = e
         /\ \A r \in DOMAIN page: r # p => page'[r] = page[r]
<1>1. p \in 1..Len(page)
  OBVIOUS
<1>2. /\ page' \in Seq(PageT) /\ Len(page') = Len(page)
      /\ \A w \in 1..Len(page): page'[w] = IF w = p THEN e ELSE page[w]
  BY <1>1, ExceptSeq
<1>3. DOMAIN page = 1..Len(page) /\ DOMAIN page' = 1..Len(page)
  BY <1>2
<1> QED
  BY <1>1, <1>2, <1>3

\* The proxy of a page changes.
LEMMA SetProxy ==
  ASSUME page \in Seq(PageT), NEW p \in DOMAIN page, NEW x \in Int, page' = [page EXCEPT ![p].proxy = x]
  PROVE  /\ page' \in Seq(PageT) /\ Len(page') = Len(page) /\ DOMAIN page' = DOMAIN page
         /\ page'[p].proxy = x
         /\ \A r \in DOMAIN page: r # p => page'[r] = page[r]
         /\ \A r \in DOMAIN page: page'[r].cut = page[r].cut /\ page'[r].freed = page[r].freed
<1>1. p \in 1..Len(page) /\ page[p] \in PageT
  OBVIOUS
<1> DEFINE e == [page[p] EXCEPT !.proxy = x]
<1>2. e \in PageT /\ e.cut = page[p].cut /\ e.proxy = x /\ e.freed = page[p].freed
  BY <1>1 DEF PageT
<1>3. page' = [page EXCEPT ![p] = e]
  OBVIOUS
<1> HIDE DEF e
<1> QED
  BY <1>1, <1>2, <1>3, SetPage

\* A view dies.
LEMMA SetDead ==
  ASSUME view \in Seq(ViewT), NEW v \in DOMAIN view, view' = [view EXCEPT ![v].live = FALSE]
  PROVE  /\ view' \in Seq(ViewT) /\ Len(view') = Len(view) /\ DOMAIN view' = DOMAIN view
         /\ ~ view'[v].live
         /\ \A w \in DOMAIN view: w # v => view'[w] = view[w]
         /\ \A w \in DOMAIN view: /\ view'[w].page = view[w].page /\ view'[w].off = view[w].off
                                  /\ view'[w].len = view[w].len /\ view'[w].u1 = view[w].u1
                                  /\ view'[w].u0 = view[w].u0
<1>1. v \in 1..Len(view) /\ view[v] \in ViewT
  OBVIOUS
<1> DEFINE e == [view[v] EXCEPT !.live = FALSE]
<1>2. /\ e \in ViewT /\ e.u0 = view[v].u0 /\ e.page = view[v].page /\ e.off = view[v].off /\ e.len = view[v].len
      /\ e.u1 = view[v].u1 /\ ~ e.live
  BY <1>1 DEF ViewT
<1>3. view' = [view EXCEPT ![v] = e]
  OBVIOUS
<1> HIDE DEF e
<1> QED
  BY <1>1, <1>2, <1>3, SetView

\* What the finalizer does to the views and to the pages.
LEMMA FinalizeEffect ==
  ASSUME TypeInv, NEW v \in DOMAIN view, view[v].page \in DOMAIN page, Finalize(v)
  PROVE  /\ view' \in Seq(ViewT) /\ DOMAIN view' = DOMAIN view /\ Len(view') = Len(view)
         /\ view[v].live /\ ~ view'[v].live
         /\ \A w \in DOMAIN view: w # v => view'[w] = view[w]
         /\ \A w \in DOMAIN view: /\ view'[w].page = view[w].page /\ view'[w].off = view[w].off
                                  /\ view'[w].len = view[w].len /\ view'[w].u1 = view[w].u1
                                  /\ view'[w].u0 = view[w].u0
         /\ page' \in Seq(PageT) /\ DOMAIN page' = DOMAIN page
         /\ page'[view[v].page].proxy = IF page[view[v].page].cut THEN page[view[v].page].proxy - 1
                                        ELSE page[view[v].page].proxy
         /\ \A r \in DOMAIN page: r # view[v].page => page'[r] = page[r]
         /\ \A r \in DOMAIN page: page'[r].cut = page[r].cut /\ page'[r].freed = page[r].freed
         /\ main = Idle /\ flight' = flight /\ calls' = calls + 1
         /\ Mbufs = flight /\ Mbufs' = flight
<1>1. view' = [view EXCEPT ![v].live = FALSE] /\ view[v].live
  BY DEF Finalize
<1>2. main = Idle /\ flight' = flight /\ calls' = calls + 1
  BY DEF Finalize, Calls
<1>3. PICK p \in DOMAIN page: p = view[v].page
  OBVIOUS
<1>4. PICK x: x = IF page[p].cut THEN page[p].proxy - 1 ELSE page[p].proxy
  OBVIOUS
<1>5. x \in Int
  <2>1. page[p] \in PageT
    BY ViewType
  <2> QED
    BY <1>4, <2>1 DEF PageT
<1>6. page' = [page EXCEPT ![p].proxy = x]
  BY <1>3, <1>4 DEF Finalize
<1>7. Mbufs = flight
  BY <1>2 DEF Mbufs, Idle
<1>8. main'.at \notin {"map", "inc"}
  BY DEF Finalize, Idle
<1>9. Mbufs' = flight
  BY <1>2, <1>8 DEF Mbufs
<1>10. /\ page' \in Seq(PageT) /\ DOMAIN page' = DOMAIN page
       /\ page'[p].proxy = x
       /\ \A r \in DOMAIN page: r # p => page'[r] = page[r]
       /\ \A r \in DOMAIN page: page'[r].cut = page[r].cut /\ page'[r].freed = page[r].freed
  BY <1>5, <1>6, SetProxy, ViewType
<1>11. /\ view' \in Seq(ViewT) /\ DOMAIN view' = DOMAIN view /\ Len(view') = Len(view)
       /\ ~ view'[v].live
       /\ \A w \in DOMAIN view: w # v => view'[w] = view[w]
       /\ \A w \in DOMAIN view: /\ view'[w].page = view[w].page /\ view'[w].off = view[w].off
                                /\ view'[w].len = view[w].len /\ view'[w].u1 = view[w].u1
                                /\ view'[w].u0 = view[w].u0
  BY <1>1, SetDead, ViewType
<1> QED
  BY <1>1, <1>2, <1>3, <1>4, <1>7, <1>9, <1>10, <1>11

\* The view that dies no longer uses its count.
LEMMA FinalizeOver ==
  ASSUME TypeInv, UseInv, NEW v \in DOMAIN view, view[v].page \in DOMAIN page, Finalize(v)
  PROVE  Over(v)'
<1>1. /\ view[v].live /\ ~ view'[v].live /\ view'[v].u0 = view[v].u0
      /\ Mbufs' = Mbufs
  BY FinalizeEffect
<1>2. PICK c \in Nat: c = Cardinality(MbufsOf(v))
  BY UsesType
<1>3. (MbufsOf(v))' = MbufsOf(v)
  BY <1>1 DEF MbufsOf
<1>4. Uses(v) = 1 + c
  BY <1>1, <1>2, UsesNow
<1>5. Uses(v)' = c
  BY <1>1, <1>2, <1>3, UsesNext
<1>6. view[v].u0 >= Uses(v)
  BY DEF UseInv, CountCoversUses
<1>7. view[v] \in ViewT
  BY ViewType
<1>8. view[v].u0 \in Nat
  BY <1>7 DEF ViewT
<1>9. view'[v].u0 >= c + 1
  BY <1>1, <1>4, <1>6, <1>8
<1> QED
  BY <1>5, <1>9 DEF Over

\* caml_ba_finalize up to its read: the dead view is over-counted by one.
LEMMA FinalizeUses ==
  ASSUME TypeInv, UseInv, NEW v \in DOMAIN view, view[v].page \in DOMAIN page, Finalize(v)
  PROVE  TypeInv' /\ UseInv'
<1>1. /\ view' \in Seq(ViewT) /\ DOMAIN view' = DOMAIN view
      /\ view[v].live /\ ~ view'[v].live
      /\ \A w \in DOMAIN view: w # v => view'[w] = view[w]
      /\ \A w \in DOMAIN view: view'[w].u0 = view[w].u0
      /\ page' \in Seq(PageT)
      /\ main = Idle /\ flight' = flight /\ calls' = calls + 1
      /\ Mbufs = flight /\ Mbufs' = flight
  BY FinalizeEffect
<1>2. main' = Idle \/ main' = [at |-> "dec", v |-> v, u0 |-> view[v].u0]
  BY DEF Finalize
<1>3. v \in Nat /\ view[v].u0 \in Nat
  <2>1. view[v] \in ViewT
    BY ViewType
  <2> QED
    BY <2>1, ViewType DEF ViewT
<1>4. main' \in MainT
  BY <1>2, <1>3 DEF MainT
<1>5. TypeInv'
  <2>1. calls \in Nat /\ flight \in SUBSET MbufT /\ IsFiniteSet(Mbufs)
    BY DEF TypeInv
  <2> QED
    BY <1>1, <1>4, <2>1 DEF TypeInv
<1>6. Over(v)'
  BY FinalizeOver
<1>7. CountCoversUses'
  <2>1. ASSUME NEW w \in DOMAIN view, w # v PROVE view'[w].u0 >= Uses(w)'
    <3>1. Uses(w)' = Uses(w)
      BY <1>1, <2>1, UsesSame
    <3> QED
      BY <1>1, <3>1 DEF UseInv, CountCoversUses
  <2>2. view'[v].u0 >= Uses(v)'
    <3>1. Uses(v)' \in Nat /\ view'[v].u0 \in Nat
      BY <1>1, <1>3, UsesTypeNext DEF TypeInv
    <3> QED
      BY <1>6, <3>1 DEF Over
  <2> QED
    BY <1>1, <2>1, <2>2 DEF CountCoversUses
<1>8. Shown'
  BY <1>1 DEF UseInv, Shown
<1>9. ~ Mapping'
  BY <1>2 DEF Mapping, Idle
<1>10. Sent'
  <2>1. \A m \in flight: m.pkt \in Nat /\ m.pkt <= calls
    BY DEF TypeInv, MbufT, UseInv, Sent
  <2>2. calls \in Nat
    BY DEF TypeInv
  <2> QED
    BY <1>1, <1>9, <2>1, <2>2 DEF Sent
<1>11. Sending' /\ Counting'
  BY <1>9 DEF Sending, Counting, Mapping
<1>12. Releasing'
  <2>1. CASE main' = Idle
    BY <2>1 DEF Releasing, Idle
  <2>2. CASE main' = [at |-> "dec", v |-> v, u0 |-> view[v].u0]
    <3>1. main'.v = v /\ main'.u0 = view[v].u0
      BY <2>2
    <3>2. Over(main.v)'
      BY <1>6, <3>1 DEF Over, Uses, MbufsOf
    <3> QED
      BY <1>1, <1>3, <3>1, <3>2 DEF Releasing
  <2> QED
    BY <1>2, <2>1, <2>2
<1> QED
  BY <1>5, <1>7, <1>8, <1>10, <1>11, <1>12 DEF UseInv

\* The finalizer writes the count.
LEMMA FinalizeWriteEffect ==
  ASSUME TypeInv, UseInv, FinalizeWrite
  PROVE  /\ main.v \in DOMAIN view /\ main.u0 \in Nat /\ main.u0 - 1 \in Nat
         /\ view' = [view EXCEPT ![main.v].u0 = main.u0 - 1]
         /\ main' = Idle /\ flight' = flight /\ calls' = calls
         /\ Mbufs = flight /\ Mbufs' = flight
<1>1. main.at = "dec" /\ main' = Idle /\ flight' = flight /\ calls' = calls
  BY DEF FinalizeWrite
<1>2. main.u0 \in Nat
  BY <1>1, MainKinds
<1>3. main.v \in DOMAIN view /\ main.u0 >= view[main.v].u0 /\ view[main.v].u0 >= Uses(main.v) + 1
  BY <1>1 DEF UseInv, Releasing, Over
<1>4. Uses(main.v) \in Nat
  BY UsesType
<1>5. view[main.v] \in ViewT
  BY <1>3, ViewType
<1>6. view[main.v].u0 \in Nat
  BY <1>5 DEF ViewT
<1>7. main.u0 - 1 \in Nat
  BY <1>2, <1>3, <1>4, <1>6
<1>8. Mbufs = flight /\ Mbufs' = flight
  BY <1>1 DEF Mbufs, Idle
<1> QED
  BY <1>1, <1>2, <1>3, <1>7, <1>8 DEF FinalizeWrite

\* caml_ba_finalize writes what it read, less one: what it takes back is the use of
\* the dead view. Mbufs that were freed since make the count too high, never too low.
LEMMA FinalizeWriteUses ==
  ASSUME TypeInv, UseInv, ViewInv, FinalizeWrite
  PROVE  TypeInv' /\ UseInv'
<1>1. /\ main.v \in DOMAIN view /\ main.u0 \in Nat /\ main.u0 - 1 \in Nat
      /\ view' = [view EXCEPT ![main.v].u0 = main.u0 - 1]
      /\ main' = Idle /\ flight' = flight /\ calls' = calls
      /\ Mbufs = flight /\ Mbufs' = flight
  BY FinalizeWriteEffect
<1>2. PICK v \in DOMAIN view: v = main.v
  BY <1>1
<1>3. PICK x \in Nat: x = main.u0 - 1
  BY <1>1
<1>4. /\ view' \in Seq(ViewT) /\ DOMAIN view' = DOMAIN view
      /\ view'[v].u0 = x
      /\ \A w \in DOMAIN view: w # v => view'[w] = view[w]
      /\ \A w \in DOMAIN view: view'[w].live = view[w].live
  BY <1>1, <1>2, <1>3, SetU0, ViewType
<1>5. page' \in Seq(PageT)
  <2>1. PICK p \in DOMAIN page: p = view[v].page
    BY DEF ViewInv
  <2>2. view[v] \in ViewT
    BY ViewType
  <2>3. view[v].off \in Nat /\ view[v].u1 \in Nat /\ 0 \in Nat
    BY <2>2 DEF ViewT
  <2>4. page' = page \/ page' = Contigfree(p, 0, 0) \/ page' = Contigfree(p, view[v].off, view[v].u1)
    BY <1>2, <2>1 DEF FinalizeWrite
  <2>5. CASE page' = page
    BY <2>5, ViewType
  <2>6. CASE page' = Contigfree(p, 0, 0)
    BY <2>3, <2>6, ViewType, Frees1
  <2>7. CASE page' = Contigfree(p, view[v].off, view[v].u1)
    BY <2>3, <2>7, ViewType, Frees1
  <2> QED
    BY <2>4, <2>5, <2>6, <2>7
<1>6. TypeInv'
  <2>1. calls \in Nat /\ flight \in SUBSET MbufT /\ IsFiniteSet(Mbufs)
    BY DEF TypeInv
  <2> QED
    BY <1>1, <1>4, <1>5, <2>1 DEF TypeInv, MainT
<1>7. \A w \in DOMAIN view: Uses(w)' = Uses(w)
  BY <1>1, <1>4, UsesSame
<1>8. CountCoversUses'
  <2>1. x >= Uses(v)
    <3>1. main.at = "dec"
      BY DEF FinalizeWrite
    <3>2. main.u0 >= view[v].u0 /\ view[v].u0 >= Uses(v) + 1
      BY <1>2, <3>1 DEF UseInv, Releasing, Over
    <3>3. Uses(v) \in Nat
      BY UsesType
    <3>4. view[v] \in ViewT
      BY ViewType
    <3>5. view[v].u0 \in Nat
      BY <3>4 DEF ViewT
    <3> QED
      BY <1>1, <1>3, <3>2, <3>3, <3>5
  <2>2. view'[v].u0 >= Uses(v)'
    BY <1>4, <1>7, <2>1
  <2>3. ASSUME NEW w \in DOMAIN view, w # v PROVE view'[w].u0 >= Uses(w)'
    BY <1>4, <1>7, <2>3 DEF UseInv, CountCoversUses
  <2> QED
    BY <1>4, <2>2, <2>3 DEF CountCoversUses
<1>9. Shown'
  BY <1>1, <1>4 DEF UseInv, Shown
<1>10. Sent'
  BY <1>1 DEF UseInv, Sent, Mapping, Idle
<1>11. Releasing' /\ Sending' /\ Counting'
  BY <1>1 DEF Releasing, Sending, Counting, Mapping, Idle
<1> QED
  BY <1>6, <1>8, <1>9, <1>10, <1>11 DEF UseInv

-----------------------------------------------------------------------------
(* Sending *)

\* caml_put_mbufs up to its loop: nothing is mapped yet.
LEMMA PutMbufsUses ==
  ASSUME TypeInv, UseInv, NEW i \in Ifaces, NEW vs \in Seq(DOMAIN view), vs # <<>>, PutMbufs(i, vs)
  PROVE  TypeInv' /\ UseInv'
<1>1. /\ main = Idle /\ calls' = calls + 1 /\ page' = page /\ view' = view /\ flight' = flight
      /\ main' = [at |-> "map", todo |-> vs, left |-> view[Head(vs)].u1, n |-> 0, u0 |-> 0,
                  frag |-> {}, pkt |-> {}, rest |-> {}]
      /\ \A k \in DOMAIN vs: view[vs[k]].live /\ view[vs[k]].u1 > 0
  BY DEF PutMbufs, Calls
<1>2. /\ main'.at = "map" /\ main'.todo = vs /\ main'.left = view[Head(vs)].u1 /\ main'.n = 0 /\ main'.u0 = 0
      /\ main'.frag = {} /\ main'.pkt = {} /\ main'.rest = {}
  BY <1>1
<1>3. Mbufs = flight /\ Mbufs' = flight
  BY <1>1, <1>2 DEF Mbufs, Idle
<1>4. Head(vs) \in DOMAIN view /\ Head(vs) = vs[1] /\ 1 \in DOMAIN vs
  OBVIOUS
<1>5. view[Head(vs)].u1 \in Nat /\ view[Head(vs)].u1 > 0
  <2>1. view[Head(vs)] \in ViewT
    BY <1>4, ViewType
  <2> QED
    BY <1>1, <1>4, <2>1 DEF ViewT
<1>6. TypeInv'
  <2>1. vs \in Seq(Nat)
    BY ViewType
  <2>2. main' \in CallT
    BY <1>1, <1>5, <2>1 DEF CallT
  <2>3. calls \in Nat /\ flight \in SUBSET MbufT /\ IsFiniteSet(Mbufs)
    BY DEF TypeInv
  <2> QED
    BY <1>1, <1>3, <2>2, <2>3, ViewType DEF TypeInv, MainT
<1>7. \A w \in DOMAIN view: Uses(w)' = Uses(w)
  BY <1>1, <1>3, UsesSame
<1>8. CountCoversUses' /\ Shown'
  BY <1>1, <1>3, <1>7 DEF UseInv, CountCoversUses, Shown
<1>9. Sent'
  <2>1. \A m \in flight: m.pkt \in Nat /\ m.pkt <= calls
    BY DEF TypeInv, MbufT, UseInv, Sent
  <2>2. calls \in Nat
    BY DEF TypeInv
  <2> QED
    BY <1>1, <2>1, <2>2 DEF Sent
<1>10. Releasing' /\ Counting'
  BY <1>2 DEF Releasing, Counting
<1>11. Sending'
  <2>1. \A k \in DOMAIN vs: vs[k] \in DOMAIN view /\ view[vs[k]].live /\ view[vs[k]].u1 > 0
    BY <1>1
  <2>2. view[Head(vs)].u1 \in 1..view[Head(vs)].u1
    BY <1>5
  <2> QED
    BY <1>1, <1>2, <2>1, <2>2 DEF Sending
<1> QED
  BY <1>6, <1>8, <1>9, <1>10, <1>11 DEF UseInv

\* netif_map_to_mbuf reads the count, which only falls until it writes.
LEMMA MapReadUses ==
  ASSUME TypeInv, UseInv, MapRead
  PROVE  TypeInv' /\ UseInv'
<1>1. /\ main.at = "map" /\ main.todo # <<>> /\ Mapping /\ main \in CallT
      /\ page' = page /\ view' = view /\ flight' = flight /\ calls' = calls
  BY MainKinds DEF MapRead, Mapping
<1>2. PICK x: x = view[Head(main.todo)].u0
  OBVIOUS
<1>3. main' = [at |-> "inc", todo |-> main.todo, left |-> main.left, n |-> main.n, u0 |-> x,
               frag |-> main.frag, pkt |-> main.pkt, rest |-> main.rest]
  BY <1>1, <1>2 DEF MapRead, CallT
<1>4. /\ main'.at = "inc" /\ main'.todo = main.todo /\ main'.left = main.left /\ main'.n = main.n /\ main'.u0 = x
      /\ main'.frag = main.frag /\ main'.pkt = main.pkt /\ main'.rest = main.rest
  BY <1>3
<1>5. Mbufs' = Mbufs
  BY <1>1, <1>4 DEF Mbufs
<1>6. Head(main.todo) \in DOMAIN view
  <2>1. main.todo \in Seq(Nat) /\ \A k \in DOMAIN main.todo: main.todo[k] \in DOMAIN view
    BY <1>1 DEF UseInv, Sending, CallT
  <2> QED
    BY <1>1, <2>1
<1>7. x \in Nat
  <2>1. view[Head(main.todo)] \in ViewT
    BY <1>6, ViewType
  <2> QED
    BY <1>2, <2>1 DEF ViewT
<1>8. TypeInv'
  <2>1. main' \in CallT
    BY <1>1, <1>3, <1>7 DEF CallT
  <2>3. calls \in Nat /\ flight \in SUBSET MbufT /\ IsFiniteSet(Mbufs)
    BY DEF TypeInv
  <2> QED
    BY <1>1, <1>5, <2>1, <2>3, ViewType DEF TypeInv, MainT
<1>9. \A w \in DOMAIN view: Uses(w)' = Uses(w)
  BY <1>1, <1>5, UsesSame
<1>10. CountCoversUses' /\ Shown'
  BY <1>1, <1>5, <1>9 DEF UseInv, CountCoversUses, Shown
<1>11. Sent'
  BY <1>1, <1>4 DEF UseInv, Sent, Mapping
<1>12. Releasing'
  BY <1>4 DEF Releasing
<1>13. Sending'
  BY <1>1, <1>4 DEF UseInv, Sending, Mapping
<1>14. Counting'
  BY <1>1, <1>2, <1>4, <1>7 DEF Counting
<1> QED
  BY <1>8, <1>10, <1>11, <1>12, <1>13, <1>14 DEF UseInv

\* The first of some mbufs is one of them.
LEMMA FirstIn ==
  ASSUME NEW S \in SUBSET MbufT, S # {}
  PROVE  First(S) \in S
<1> DEFINE less == {x \in Nat \X Nat: x[1] < x[2]}
           T == {m.n: m \in S}
<1>1. IsWellFoundedOn(less, Nat)
  <2>1. less = OpToRel(<, Nat)
    BY DEF OpToRel
  <2> QED
    BY <2>1, NatLessThanWellFounded
<1>2. T \subseteq Nat /\ T # {}
  BY DEF MbufT
<1>3. PICK k \in T: \A j \in T: <<j, k>> \notin less
  BY <1>1, <1>2, WFMin
<1>4. \A j \in T: k <= j
  <2>1. ASSUME NEW j \in T PROVE k <= j
    <3>1. j \in Nat /\ k \in Nat
      BY <1>2, <1>3
    <3>2. <<j, k>> \notin less
      BY <1>3
    <3> QED
      BY <3>1, <3>2
  <2> QED
    BY <2>1
<1>5. PICK m \in S: m.n = k
  BY <1>3
<1>6. \A x \in S: m.n <= x.n
  BY <1>4, <1>5
<1> HIDE DEF T, less
<1> QED
  BY <1>6 DEF First

\* Where the program is after it mapped an mbuf of a view.
LEMMA LinkedEffect ==
  ASSUME main \in CallT, main.todo # <<>>, Mcl \in Nat, Mcl > 0, NEW S \in SUBSET MbufT, S # {},
         main.left \in Nat, main.left > 0,
         Tail(main.todo) # <<>> => view[Head(Tail(main.todo))].u1 \in Nat,
         main' = Linked(S)
  PROVE  /\ main' \in CallT /\ main'.at = "map" /\ main'.n = main.n + 1
         /\ \/ /\ main'.todo = main.todo /\ main'.frag = S /\ main'.pkt = main.pkt /\ main'.rest = main.rest
               /\ main'.left > 0 /\ main'.left < main.left
            \/ /\ main'.todo = Tail(main.todo) /\ main'.frag = {} /\ main'.pkt \subseteq main.pkt \cup S
               /\ main'.rest \subseteq S
               /\ main'.left = IF Tail(main.todo) = <<>> THEN 0 ELSE view[Head(Tail(main.todo))].u1
<1> DEFINE len == MinOf(Mcl, main.left)
           todo == Tail(main.todo)
           nl == IF todo = <<>> THEN 0 ELSE view[Head(todo)].u1
           next == [main EXCEPT !.at = "map", !.n = @ + 1]
<1>1. next = [at |-> "map", todo |-> main.todo, left |-> main.left, n |-> main.n + 1, u0 |-> main.u0,
              frag |-> main.frag, pkt |-> main.pkt, rest |-> main.rest]
  <2>1. PICK x \in CallT: x = main
    OBVIOUS
  <2>2. next = [[x EXCEPT !.at = "map"] EXCEPT !.n = @ + 1]
    BY <2>1
  <2>3. [x EXCEPT !.at = "map"] = [at |-> "map", todo |-> x.todo, left |-> x.left, n |-> x.n, u0 |-> x.u0,
              frag |-> x.frag, pkt |-> x.pkt, rest |-> x.rest]
    <3>1. PICK h, a, b, c, d, e, f, g: x = [at |-> h, todo |-> a, left |-> b, n |-> c, u0 |-> d,
                                            frag |-> e, pkt |-> f, rest |-> g]
      BY DEF CallT
    <3> QED
      BY <3>1
  <2> HIDE DEF next
  <2>4. next = [at |-> "map", todo |-> x.todo, left |-> x.left, n |-> x.n + 1, u0 |-> x.u0,
              frag |-> x.frag, pkt |-> x.pkt, rest |-> x.rest]
    BY <2>2, <2>3
  <2> QED
    BY <2>1, <2>4
<1>2. main.n + 1 \in Nat /\ main.u0 \in Nat /\ main.pkt \in SUBSET MbufT /\ main.rest \in SUBSET MbufT
      /\ main.todo \in Seq(Nat)
  BY DEF CallT
<1>3. CASE len < main.left
  <2>1. len \in Nat /\ len > 0
    BY DEF MinOf
  <2>2. main.left - len \in Nat /\ main.left - len > 0 /\ main.left - len < main.left
    BY <1>3, <2>1
  <2>3. main' = [next EXCEPT !.left = @ - len, !.frag = S]
    BY <1>3 DEF Linked
  <2> HIDE DEF len, next
  <2>4. main' = [at |-> "map", todo |-> main.todo, left |-> main.left - len, n |-> main.n + 1, u0 |-> main.u0,
                 frag |-> S, pkt |-> main.pkt, rest |-> main.rest]
    BY <1>1, <2>3
  <2>5. main' \in CallT
    BY <1>2, <2>2, <2>4 DEF CallT
  <2> QED
    BY <2>2, <2>4, <2>5
<1>4. CASE ~ (len < main.left)
  <2>1. main' = [next EXCEPT !.left = nl, !.frag = {}, !.todo = todo,
                             !.pkt = @ \cup {First(S)}, !.rest = S \ {First(S)}]
    BY <1>4 DEF Linked
  <2> HIDE DEF len, next
  <2>2. main' = [at |-> "map", todo |-> todo, left |-> nl, n |-> main.n + 1, u0 |-> main.u0,
                 frag |-> {}, pkt |-> main.pkt \cup {First(S)}, rest |-> S \ {First(S)}]
    BY <1>1, <2>1
  <2>3. nl \in Nat /\ todo \in Seq(Nat)
    BY <1>2
  <2>4. First(S) \in S
    BY FirstIn
  <2>5. main.pkt \cup {First(S)} \in SUBSET MbufT /\ S \ {First(S)} \in SUBSET MbufT /\ {} \in SUBSET MbufT
    BY <1>2, <2>4
  <2>6. main' \in CallT
    <3>1. PICK a, b, c, d: a = main.pkt \cup {First(S)} /\ b = S \ {First(S)} /\ c = todo /\ d = nl
      OBVIOUS
    <3>2. main' = [at |-> "map", todo |-> c, left |-> d, n |-> main.n + 1, u0 |-> main.u0,
                   frag |-> {}, pkt |-> a, rest |-> b]
      BY <2>2, <3>1, Zenon
    <3>3. a \in SUBSET MbufT /\ b \in SUBSET MbufT /\ {} \in SUBSET MbufT /\ c \in Seq(Nat) /\ d \in Nat
      BY <2>3, <2>5, <3>1, Zenon
    <3> QED
      BY <1>2, <3>2, <3>3 DEF CallT
  <2>7. /\ main'.at = "map" /\ main'.n = main.n + 1 /\ main'.todo = todo /\ main'.frag = {}
        /\ main'.pkt = main.pkt \cup {First(S)} /\ main'.rest = S \ {First(S)} /\ main'.left = nl
    BY <2>2
  <2> HIDE DEF todo, nl
  <2>8. main'.pkt \subseteq main.pkt \cup S /\ main'.rest \subseteq S
    BY <2>4, <2>7
  <2> QED
    BY <2>6, <2>7, <2>8 DEF todo, nl
<1> QED
  BY <1>3, <1>4

\* What mapping an mbuf changes: the count of a live view, and one mbuf.
LEMMA MapWriteEffect ==
  ASSUME TypeInv, UseInv, MapWrite
  PROVE  /\ Head(main.todo) \in DOMAIN view /\ view[Head(main.todo)].live /\ main.todo # <<>>
         /\ main \in CallT /\ main.at = "inc" /\ Mapping
         /\ main.left \in 1..view[Head(main.todo)].u1
         /\ main.u0 >= view[Head(main.todo)].u0
         /\ Mbuf \in MbufT /\ Mbuf.pkt = calls /\ Mbuf.v = Head(main.todo) /\ Mbuf.off = view[Head(main.todo)].off
         /\ view' = [view EXCEPT ![Head(main.todo)].u0 = main.u0 + 1]
         /\ page' = page /\ flight' = flight /\ calls' = calls
         /\ main.frag \cup {Mbuf} \in SUBSET MbufT
         /\ main' \in CallT /\ main'.at = "map" /\ main'.n = main.n + 1
         /\ \/ /\ main'.todo = main.todo /\ main'.frag = main.frag \cup {Mbuf}
               /\ main'.pkt = main.pkt /\ main'.rest = main.rest
               /\ main'.left > 0 /\ main'.left < main.left
            \/ /\ main'.todo = Tail(main.todo) /\ main'.frag = {}
               /\ main'.pkt \subseteq main.pkt \cup (main.frag \cup {Mbuf})
               /\ main'.rest \subseteq main.frag \cup {Mbuf}
               /\ main'.left = IF Tail(main.todo) = <<>> THEN 0 ELSE view[Head(Tail(main.todo))].u1
<1>1. /\ main.at = "inc" /\ Mapping /\ main \in CallT /\ main.todo # <<>>
      /\ page' = page /\ flight' = flight /\ calls' = calls
      /\ view' = [view EXCEPT ![Head(main.todo)].u0 = main.u0 + 1]
      /\ main' = Linked(main.frag \cup {Mbuf})
      /\ main.u0 >= view[Head(main.todo)].u0
  BY MainKinds DEF MapWrite, Mapping, UseInv, Counting
<1>2. main.todo \in Seq(Nat) /\ \A k \in DOMAIN main.todo: main.todo[k] \in DOMAIN view /\ view[main.todo[k]].live
  BY <1>1 DEF UseInv, Sending, CallT
<1>3. Head(main.todo) \in DOMAIN view /\ view[Head(main.todo)].live /\ Head(main.todo) \in Nat
  BY <1>1, <1>2
<1>4. main.left \in 1..view[Head(main.todo)].u1
  BY <1>1 DEF UseInv, Sending
<1>5. view[Head(main.todo)] \in ViewT
  BY <1>3, ViewType
<1>6. main.left \in Nat /\ main.left > 0
  BY <1>1, <1>4, <1>5 DEF CallT, ViewT
<1>7. /\ Mbuf \in MbufT /\ Mbuf.pkt = calls /\ Mbuf.v = Head(main.todo) /\ Mbuf.off = view[Head(main.todo)].off
  <2>1. view[Head(main.todo)].off \in Nat /\ main.n \in Nat /\ calls \in Nat
    BY <1>1, <1>5 DEF TypeInv, CallT, ViewT
  <2> QED
    BY <1>3, <2>1 DEF Mbuf, MbufT
<1>8. main.frag \cup {Mbuf} \in SUBSET MbufT /\ main.frag \cup {Mbuf} # {}
  BY <1>1, <1>7 DEF CallT
<1>9. Tail(main.todo) # <<>> => view[Head(Tail(main.todo))].u1 \in Nat
  <2>1. ASSUME Tail(main.todo) # <<>> PROVE Head(Tail(main.todo)) \in DOMAIN view
    <3>1. Len(main.todo) >= 2
      BY <1>1, <1>2, <2>1
    <3>2. Head(Tail(main.todo)) = main.todo[2] /\ 2 \in DOMAIN main.todo
      BY <1>1, <1>2, <3>1
    <3> QED
      BY <1>2, <3>2
  <2>2. ASSUME Tail(main.todo) # <<>> PROVE view[Head(Tail(main.todo))] \in ViewT
    BY <2>1, <2>2, ViewType
  <2> QED
    BY <2>2 DEF ViewT
<1>10. Mcl \in Nat /\ Mcl > 0
  BY Sizes
<1>11. /\ main' \in CallT /\ main'.at = "map" /\ main'.n = main.n + 1
       /\ \/ /\ main'.todo = main.todo /\ main'.frag = main.frag \cup {Mbuf}
             /\ main'.pkt = main.pkt /\ main'.rest = main.rest
             /\ main'.left > 0 /\ main'.left < main.left
          \/ /\ main'.todo = Tail(main.todo) /\ main'.frag = {}
             /\ main'.pkt \subseteq main.pkt \cup (main.frag \cup {Mbuf})
             /\ main'.rest \subseteq main.frag \cup {Mbuf}
             /\ main'.left = IF Tail(main.todo) = <<>> THEN 0 ELSE view[Head(Tail(main.todo))].u1
  <2>1. PICK S \in SUBSET MbufT: S = main.frag \cup {Mbuf}
    BY <1>8
  <2> QED
    BY <1>1, <1>6, <1>8, <1>9, <1>10, <2>1, LinkedEffect
<1> QED
  BY <1>1, <1>3, <1>4, <1>7, <1>8, <1>11

\* The mbufs after it.
LEMMA MapWriteMbufs ==
  ASSUME TypeInv, UseInv, MapWrite
  PROVE  /\ Mbufs' \subseteq Mbufs \cup {Mbuf} /\ IsFiniteSet(Mbufs')
         /\ Mbufs = flight \cup (main.frag \cup main.pkt \cup main.rest)
         /\ Mbufs' = flight \cup (main'.frag \cup main'.pkt \cup main'.rest)
<1>1. /\ main.at = "inc" /\ main'.at = "map" /\ flight' = flight
      /\ \/ /\ main'.frag = main.frag \cup {Mbuf}
            /\ main'.pkt = main.pkt /\ main'.rest = main.rest
         \/ /\ main'.frag = {}
            /\ main'.pkt \subseteq main.pkt \cup (main.frag \cup {Mbuf})
            /\ main'.rest \subseteq main.frag \cup {Mbuf}
  BY MapWriteEffect
<1>2. Mbufs = flight \cup (main.frag \cup main.pkt \cup main.rest)
  BY <1>1 DEF Mbufs
<1>3. Mbufs' = flight \cup (main'.frag \cup main'.pkt \cup main'.rest)
  BY <1>1 DEF Mbufs
<1>4. Mbufs' \subseteq Mbufs \cup {Mbuf}
  <2>1. PICK m: m = Mbuf
    OBVIOUS
  <2>2. CASE main'.frag = main.frag \cup {Mbuf} /\ main'.pkt = main.pkt /\ main'.rest = main.rest
    BY <1>2, <1>3, <2>1, <2>2, Zenon
  <2>3. CASE /\ main'.frag = {}
             /\ main'.pkt \subseteq main.pkt \cup (main.frag \cup {Mbuf})
             /\ main'.rest \subseteq main.frag \cup {Mbuf}
    BY <1>2, <1>3, <2>1, <2>3, Zenon
  <2> QED
    BY <1>1, <2>2, <2>3, Zenon
<1>5. IsFiniteSet(Mbufs \cup {Mbuf})
  BY FS_AddElement DEF TypeInv
<1>6. IsFiniteSet(Mbufs')
  BY <1>4, <1>5, FS_Subset
<1> QED
  BY <1>2, <1>3, <1>4, <1>6

\* netif_map_to_mbuf writes what it read, plus one, for the mbuf that it adds.
LEMMA MapWriteUses ==
  ASSUME TypeInv, UseInv, MapWrite
  PROVE  TypeInv' /\ UseInv'
<1>1. PICK h: h = Head(main.todo)
  OBVIOUS
<1>2. PICK b: b = Mbuf
  OBVIOUS
<1>3. /\ h \in DOMAIN view /\ view[h].live /\ main.todo # <<>>
      /\ main \in CallT /\ main.at = "inc" /\ Mapping
      /\ main.u0 >= view[h].u0
      /\ b \in MbufT /\ b.pkt = calls /\ b.v = h
      /\ view' = [view EXCEPT ![h].u0 = main.u0 + 1]
      /\ page' = page /\ flight' = flight /\ calls' = calls
      /\ main' \in CallT /\ main'.at = "map"
      /\ main.left \in 1..view[h].u1
  BY <1>1, <1>2, MapWriteEffect
<1>4. \/ /\ main'.todo = main.todo /\ main'.frag = main.frag \cup {b}
         /\ main'.pkt = main.pkt /\ main'.rest = main.rest
         /\ main'.left > 0 /\ main'.left < main.left
      \/ /\ main'.todo = Tail(main.todo) /\ main'.frag = {}
         /\ main'.pkt \subseteq main.pkt \cup (main.frag \cup {b})
         /\ main'.rest \subseteq main.frag \cup {b}
         /\ main'.left = IF Tail(main.todo) = <<>> THEN 0 ELSE view[Head(Tail(main.todo))].u1
  BY <1>2, MapWriteEffect
<1>5. /\ Mbufs' \subseteq Mbufs \cup {b} /\ IsFiniteSet(Mbufs')
      /\ Mbufs = flight \cup (main.frag \cup main.pkt \cup main.rest)
  BY <1>2, MapWriteMbufs
<1>6. main.u0 + 1 \in Nat /\ main.u0 \in Nat
  BY <1>3 DEF CallT
<1>7. /\ view' \in Seq(ViewT) /\ DOMAIN view' = DOMAIN view
      /\ view'[h].u0 = main.u0 + 1
      /\ \A w \in DOMAIN view: w # h => view'[w] = view[w]
      /\ \A w \in DOMAIN view: view'[w].live = view[w].live /\ view'[w].u1 = view[w].u1
  BY <1>3, <1>6, SetU0, ViewType
<1>8. TypeInv'
  BY <1>3, <1>5, <1>7 DEF TypeInv, MainT
<1>9. CountCoversUses'
  <2>1. ASSUME NEW w \in DOMAIN view, w # h PROVE view'[w].u0 >= Uses(w)'
    <3>1. \A m \in Mbufs': m.v = w => m \in Mbufs
      BY <1>3, <1>5, <2>1
    <3>2. view'[w] = view[w] /\ view[w] \in ViewT
      BY <1>7, <2>1, ViewType
    <3>3. view'[w].u0 \in Nat /\ view'[w].u0 >= view[w].u0
      BY <3>2 DEF ViewT
    <3> QED
      BY <1>7, <3>1, <3>3, StillCovered DEF UseInv
  <2>2. view'[h].u0 >= Uses(h)'
    <3>1. PICK c \in Nat: c = Cardinality(MbufsOf(h))
      BY UsesType
    <3>2. IsFiniteSet(MbufsOf(h))
      BY UsesType
    <3>3. (MbufsOf(h))' \subseteq MbufsOf(h) \cup {b}
      BY <1>5 DEF MbufsOf
    <3>4. IsFiniteSet(MbufsOf(h) \cup {b}) /\ Cardinality(MbufsOf(h) \cup {b}) <= c + 1
      <4>1. IsFiniteSet(MbufsOf(h) \cup {b})
            /\ Cardinality(MbufsOf(h) \cup {b}) = IF b \in MbufsOf(h) THEN c ELSE c + 1
        BY <3>1, <3>2, FS_AddElement
      <4> QED
        BY <4>1
    <3>5. PICK d \in Nat: d = Cardinality((MbufsOf(h))')
      BY <1>5, UsesTypeNext
    <3>6. d <= c + 1
      <4>1. Cardinality((MbufsOf(h))') <= Cardinality(MbufsOf(h) \cup {b})
        BY <3>3, <3>4, FS_Subset
      <4>2. Cardinality(MbufsOf(h) \cup {b}) \in Nat
        BY <3>4, FS_CardinalityType
      <4> QED
        BY <3>4, <3>5, <4>1, <4>2
    <3>7. Uses(h)' = 1 + d
      BY <1>3, <1>7, <3>5, UsesNext
    <3>8. Uses(h) = 1 + c
      BY <1>3, <3>1, UsesNow
    <3>9. view[h].u0 >= Uses(h)
      BY <1>3 DEF UseInv, CountCoversUses
    <3>10. view[h] \in ViewT
      BY <1>3, ViewType
    <3>11. view[h].u0 \in Nat
      BY <3>10 DEF ViewT
    <3> QED
      BY <1>3, <1>6, <1>7, <3>6, <3>7, <3>8, <3>9, <3>11
  <2> QED
    BY <1>7, <2>1, <2>2 DEF CountCoversUses
<1>10. Shown'
  BY <1>3, <1>5, <1>7 DEF UseInv, Shown
<1>11. Sent'
  BY <1>3 DEF UseInv, Sent, Mapping
<1>12. Releasing' /\ Counting'
  BY <1>3 DEF Releasing, Counting
<1>13. Sending'
  <2>1. main.todo \in Seq(Nat) /\ \A k \in DOMAIN main.todo: /\ main.todo[k] \in DOMAIN view
                                                             /\ view[main.todo[k]].live /\ view[main.todo[k]].u1 > 0
    BY <1>3 DEF UseInv, Sending, CallT
  <2>2. /\ \A m \in main.frag: m.v = h
        /\ \A m \in main.frag \cup main.pkt \cup main.rest: m.pkt = calls
    BY <1>1, <1>3 DEF UseInv, Sending
  <2>3. CASE /\ main'.todo = main.todo /\ main'.frag = main.frag \cup {b}
             /\ main'.pkt = main.pkt /\ main'.rest = main.rest
             /\ main'.left > 0 /\ main'.left < main.left
    <3>1. \A k \in DOMAIN main'.todo: main'.todo[k] \in DOMAIN view' /\ view'[main'.todo[k]].live /\ view'[main'.todo[k]].u1 > 0
      BY <1>7, <2>1, <2>3
    <3>2. main'.left \in 1..view'[Head(main'.todo)].u1
      <4>1. view[h] \in ViewT
        BY <1>3, ViewType
      <4>2. view[h].u1 \in Nat /\ main'.left \in Nat /\ main.left \in Nat
        BY <1>3, <4>1 DEF ViewT, CallT
      <4> QED
        BY <1>1, <1>3, <1>7, <2>3, <4>2
    <3>3. \A m \in main'.frag: m.v = Head(main'.todo)
      BY <1>1, <1>3, <2>2, <2>3
    <3>4. \A m \in main'.frag \cup main'.pkt \cup main'.rest: m.pkt = calls'
      BY <1>3, <2>2, <2>3
    <3> QED
      BY <1>3, <2>3, <3>1, <3>2, <3>3, <3>4 DEF Sending
  <2>4. CASE /\ main'.todo = Tail(main.todo) /\ main'.frag = {}
             /\ main'.pkt \subseteq main.pkt \cup (main.frag \cup {b})
             /\ main'.rest \subseteq main.frag \cup {b}
             /\ main'.left = IF Tail(main.todo) = <<>> THEN 0 ELSE view[Head(Tail(main.todo))].u1
    <3>1. \A k \in DOMAIN main'.todo: main'.todo[k] \in DOMAIN view' /\ view'[main'.todo[k]].live /\ view'[main'.todo[k]].u1 > 0
      <4>1. \A k \in DOMAIN Tail(main.todo): k + 1 \in DOMAIN main.todo /\ Tail(main.todo)[k] = main.todo[k + 1]
        BY <1>3, <2>1
      <4>2. \A k \in DOMAIN main.todo: view'[main.todo[k]].live /\ view'[main.todo[k]].u1 > 0
                                       /\ main.todo[k] \in DOMAIN view'
        BY <1>7, <2>1
      <4> QED
        BY <2>4, <4>1, <4>2
    <3>2. ASSUME main'.todo # <<>> PROVE main'.left \in 1..view'[Head(main'.todo)].u1
      <4>1. PICK g: g = Head(Tail(main.todo))
        OBVIOUS
      <4>2. Head(Tail(main.todo)) = main.todo[2] /\ 2 \in DOMAIN main.todo
        BY <1>3, <2>1, <2>4, <3>2
      <4>3. g \in DOMAIN view /\ view[g].u1 > 0
        BY <2>1, <4>1, <4>2
      <4>4. view[g] \in ViewT
        BY <4>3, ViewType
      <4>5. view[g].u1 \in Nat
        BY <4>4 DEF ViewT
      <4>6. main'.left = view[g].u1 /\ view'[g].u1 = view[g].u1
        BY <1>7, <2>4, <3>2, <4>1, <4>3
      <4>7. PICK n \in Nat: n = view[g].u1
        BY <4>5
      <4>8. main'.left = n /\ view'[Head(main'.todo)].u1 = n /\ n > 0
        BY <2>4, <4>1, <4>3, <4>6, <4>7
      <4> QED
        BY <4>8
    <3>3. \A m \in main'.frag: m.v = Head(main'.todo)
      BY <2>4
    <3>4. \A m \in main'.frag \cup main'.pkt \cup main'.rest: m.pkt = calls'
      BY <1>3, <2>2, <2>4
    <3> QED
      BY <1>3, <2>4, <3>1, <3>2, <3>3, <3>4 DEF Sending
  <2> QED
    BY <1>4, <2>3, <2>4
<1> QED
  BY <1>8, <1>9, <1>10, <1>11, <1>12, <1>13 DEF UseInv

-----------------------------------------------------------------------------
(* The end of a packet, and the interface *)

\* There is no mbuf: the count goes back by the mbufs that are freed.
LEMMA MapFailsEffect ==
  ASSUME TypeInv, UseInv, MapFails
  PROVE  /\ Head(main.todo) \in DOMAIN view /\ view[Head(main.todo)].live
         /\ main \in CallT /\ Mapping
         /\ view[Head(main.todo)].u0 - Cardinality(main.frag) \in Nat
         /\ view' = [view EXCEPT ![Head(main.todo)].u0 = @ - Cardinality(main.frag)]
         /\ view[Head(main.todo)].u0 - Cardinality(main.frag) >= Uses(Head(main.todo)) - Cardinality(main.frag)
         /\ main' = Idle /\ page' = page /\ flight' = flight /\ calls' = calls
         /\ Mbufs' = flight /\ flight \subseteq Mbufs /\ main.frag \subseteq Mbufs
         /\ flight \cap main.frag = {}
         /\ IsFiniteSet(main.frag) /\ Cardinality(main.frag) \in Nat
         /\ \A m \in main.frag: m.v = Head(main.todo)
<1>1. /\ main.at = "map" /\ Mapping /\ main \in CallT /\ main.frag # {} /\ main.todo # <<>>
      /\ main' = Idle /\ page' = page /\ flight' = flight /\ calls' = calls
      /\ view' = [view EXCEPT ![Head(main.todo)].u0 = @ - Cardinality(main.frag)]
  BY MainKinds DEF MapFails, Mapping, UseInv, Sending
<1>2. main.todo \in Seq(Nat) /\ \A k \in DOMAIN main.todo: main.todo[k] \in DOMAIN view /\ view[main.todo[k]].live
  BY <1>1 DEF UseInv, Sending, CallT
<1>3. PICK h: h = Head(main.todo)
  OBVIOUS
<1>4. h \in DOMAIN view /\ view[h].live
  BY <1>1, <1>2, <1>3
<1>5. Mbufs' = flight /\ flight \subseteq Mbufs /\ main.frag \subseteq Mbufs
  BY <1>1 DEF Mbufs, Idle
<1>6. /\ \A m \in main.frag: m.v = h /\ m.pkt = calls
      /\ \A m \in flight: m.pkt < calls
  BY <1>1, <1>3 DEF UseInv, Sending, Sent
<1>7. flight \cap main.frag = {}
  <2>1. calls \in Nat
    BY DEF TypeInv
  <2>2. \A m \in flight: m.pkt # calls
    BY <1>6, <2>1
  <2> QED
    BY <1>6, <2>2
<1>8. IsFiniteSet(main.frag)
  BY <1>5, FS_Subset DEF TypeInv
<1>9. PICK k \in Nat: k = Cardinality(main.frag)
  BY <1>8, FS_CardinalityType
<1>10. main.frag \subseteq MbufsOf(h)
  BY <1>5, <1>6 DEF MbufsOf
<1>11. PICK c \in Nat: c = Cardinality(MbufsOf(h))
  BY UsesType
<1>12. k <= c
  <2>1. IsFiniteSet(MbufsOf(h))
    BY UsesType
  <2> QED
    BY <1>9, <1>10, <1>11, <2>1, FS_Subset
<1>13. Uses(h) = 1 + c
  BY <1>4, <1>11, UsesNow
<1>14. view[h].u0 >= Uses(h)
  BY <1>4 DEF UseInv, CountCoversUses
<1>15. view[h] \in ViewT
  BY <1>4, ViewType
<1>16. view[h].u0 \in Nat
  BY <1>15 DEF ViewT
<1>17. view[h].u0 - k \in Nat /\ view[h].u0 - k >= Uses(h) - k
  BY <1>12, <1>13, <1>14, <1>16
<1> QED
  BY <1>1, <1>3, <1>4, <1>5, <1>6, <1>7, <1>8, <1>9, <1>17

\* caml_put_mbufs gives up: each mbuf of the unfinished view takes back its own use.
LEMMA MapFailsUses ==
  ASSUME TypeInv, UseInv, MapFails
  PROVE  TypeInv' /\ UseInv'
<1>1. PICK h: h = Head(main.todo)
  OBVIOUS
<1>2. /\ h \in DOMAIN view /\ view[h].live
      /\ main \in CallT /\ Mapping
      /\ view[h].u0 - Cardinality(main.frag) \in Nat
      /\ view' = [view EXCEPT ![h].u0 = view[h].u0 - Cardinality(main.frag)]
      /\ view[h].u0 - Cardinality(main.frag) >= Uses(h) - Cardinality(main.frag)
      /\ main' = Idle /\ page' = page /\ flight' = flight /\ calls' = calls
      /\ Mbufs' = flight /\ flight \subseteq Mbufs /\ main.frag \subseteq Mbufs
      /\ flight \cap main.frag = {}
      /\ IsFiniteSet(main.frag) /\ Cardinality(main.frag) \in Nat
      /\ \A m \in main.frag: m.v = h
  BY <1>1, MapFailsEffect
<1>3. PICK k \in Nat: k = Cardinality(main.frag)
  BY <1>2
<1>4. PICK x \in Nat: x = view[h].u0 - k
  BY <1>2, <1>3
<1>5. /\ view' \in Seq(ViewT) /\ DOMAIN view' = DOMAIN view
      /\ view'[h].u0 = x
      /\ \A w \in DOMAIN view: w # h => view'[w] = view[w]
      /\ \A w \in DOMAIN view: view'[w].live = view[w].live
  BY <1>2, <1>3, <1>4, SetU0, ViewType
<1>6. TypeInv'
  <2>1. IsFiniteSet(flight)
    BY <1>2, FS_Subset DEF TypeInv
  <2> QED
    BY <1>2, <1>5, <2>1 DEF TypeInv, MainT
<1>7. CountCoversUses'
  <2>1. ASSUME NEW w \in DOMAIN view, w # h PROVE view'[w].u0 >= Uses(w)'
    <3>1. view'[w] = view[w] /\ view[w] \in ViewT
      BY <1>5, <2>1, ViewType
    <3>2. view'[w].u0 \in Nat /\ view'[w].u0 >= view[w].u0
      BY <3>1 DEF ViewT
    <3> QED
      BY <1>2, <1>5, <3>2, StillCovered DEF UseInv
  <2>2. view'[h].u0 >= Uses(h)'
    <3>1. PICK c \in Nat: c = Cardinality(MbufsOf(h))
      BY UsesType
    <3>2. PICK d \in Nat: d = Cardinality((MbufsOf(h))')
      BY <1>6, UsesTypeNext DEF TypeInv
    <3>3. (MbufsOf(h))' \cup main.frag \subseteq MbufsOf(h) /\ (MbufsOf(h))' \cap main.frag = {}
      BY <1>2 DEF MbufsOf
    <3>4. PICK A, B: A = (MbufsOf(h))' /\ B = MbufsOf(h)
      OBVIOUS
    <3>5. IsFiniteSet(A) /\ IsFiniteSet(B)
      BY <1>6, <3>4, UsesType, UsesTypeNext DEF TypeInv
    <3>6. Cardinality(A \cup main.frag) = Cardinality(A) + Cardinality(main.frag) /\ IsFiniteSet(A \cup main.frag)
      <4>1. /\ IsFiniteSet(A \cup main.frag)
            /\ Cardinality(A \cup main.frag) = Cardinality(A) + Cardinality(main.frag) - Cardinality(A \cap main.frag)
        BY <1>2, <3>5, FS_Union
      <4>2. Cardinality(A \cap main.frag) = 0
        BY <3>3, <3>4, FS_EmptySet
      <4> QED
        BY <1>3, <3>2, <3>4, <4>1, <4>2
    <3>7. Cardinality(A \cup main.frag) <= Cardinality(B)
      BY <3>3, <3>4, <3>5, FS_Subset
    <3>8. d + k <= c
      BY <1>3, <3>1, <3>2, <3>4, <3>6, <3>7
    <3>9. Uses(h)' = 1 + d /\ Uses(h) = 1 + c
      BY <1>2, <1>5, <3>1, <3>2, UsesNow, UsesNext
    <3>10. x >= Uses(h) - k
      BY <1>2, <1>3, <1>4
    <3> QED
      BY <1>5, <3>8, <3>9, <3>10
  <2> QED
    BY <1>5, <2>1, <2>2 DEF CountCoversUses
<1>8. Shown'
  BY <1>2, <1>5 DEF UseInv, Shown
<1>9. Sent'
  BY <1>2 DEF UseInv, Sent, Mapping, Idle
<1>10. Releasing' /\ Sending' /\ Counting'
  BY <1>2 DEF Releasing, Sending, Counting, Mapping, Idle
<1> QED
  BY <1>6, <1>7, <1>8, <1>9, <1>10 DEF UseInv

\* ether_output_frame: the mbufs of the packet pass from the program to the interface.
LEMMA OutputUses ==
  ASSUME TypeInv, UseInv, Output
  PROVE  TypeInv' /\ UseInv'
<1>1. /\ main.at = "map" /\ Mapping /\ main \in CallT /\ main.todo = <<>> /\ main.frag = {}
      /\ page' = page /\ view' = view /\ main' = Idle /\ calls' = calls
      /\ flight' = flight \cup main.pkt \cup main.rest
  BY MainKinds DEF Output, Mapping, UseInv, Sending
<1>2. Mbufs' = Mbufs /\ Mbufs' = flight' /\ flight \subseteq Mbufs
  BY <1>1 DEF Mbufs, Idle
<1>3. TypeInv'
  <2>1. flight' \in SUBSET MbufT
    BY <1>1 DEF TypeInv, CallT
  <2> QED
    BY <1>1, <1>2, <2>1 DEF TypeInv, MainT
<1>4. \A w \in DOMAIN view: Uses(w)' = Uses(w)
  BY <1>1, <1>2, UsesSame
<1>5. CountCoversUses' /\ Shown'
  BY <1>1, <1>2, <1>4 DEF UseInv, CountCoversUses, Shown
<1>6. Sent'
  <2>1. \A m \in main.pkt \cup main.rest: m.pkt = calls
    BY <1>1 DEF UseInv, Sending
  <2>2. \A m \in flight: m.pkt <= calls
    BY DEF UseInv, Sent
  <2>3. calls \in Nat
    BY DEF TypeInv
  <2>4. \A m \in flight': m.pkt <= calls
    BY <1>1, <2>1, <2>2, <2>3
  <2> QED
    BY <1>1, <2>4 DEF Sent, Mapping, Idle
<1>7. Releasing' /\ Sending' /\ Counting'
  BY <1>1 DEF Releasing, Sending, Counting, Mapping, Idle
<1> QED
  BY <1>3, <1>5, <1>6, <1>7 DEF UseInv

\* The interface frees an mbuf that it has, which is not one that is being mapped.
LEMMA MbufFreeEffect ==
  ASSUME TypeInv, UseInv, NEW m \in flight, MbufFree(m)
  PROVE  /\ m.v \in DOMAIN view /\ m \in Mbufs /\ m \in MbufT
         /\ view[m.v].u0 \in Nat /\ view[m.v].u0 >= 1 /\ view[m.v].u0 - 1 \in Nat
         /\ view' = [view EXCEPT ![m.v].u0 = view[m.v].u0 - 1]
         /\ main' = main /\ calls' = calls /\ flight' = flight \ {m}
         /\ Mbufs' = Mbufs \ {m}
<1>1. /\ main' = main /\ calls' = calls /\ flight' = flight \ {m}
      /\ view' = [view EXCEPT ![m.v].u0 = view[m.v].u0 - 1]
  BY DEF MbufFree
<1>2. m \in Mbufs /\ m \in MbufT
  BY DEF Mbufs, TypeInv
<1>3. m.v \in DOMAIN view
  BY <1>2 DEF UseInv, Shown
<1>4. PICK v \in DOMAIN view: v = m.v
  BY <1>3
<1>5. Mbufs' = Mbufs \ {m}
  <2>1. CASE Mapping
    <3>1. m \notin main.frag \cup main.pkt \cup main.rest
      <4>1. m.pkt < calls /\ calls \in Nat /\ m.pkt \in Nat
        BY <1>2, <2>1 DEF UseInv, Sent, TypeInv, MbufT
      <4>2. m.pkt # calls
        BY <4>1
      <4> QED
        BY <2>1, <4>2 DEF UseInv, Sending
    <3> QED
      BY <1>1, <2>1, <3>1 DEF Mbufs, Mapping
  <2>2. CASE ~ Mapping
    BY <1>1, <2>2 DEF Mbufs, Mapping
  <2> QED
    BY <2>1, <2>2
<1>6. PICK c \in Nat: c = Cardinality(MbufsOf(v)) /\ c >= 1
  BY <1>2, <1>4, UsesType
<1>7. Uses(v) >= c /\ Uses(v) \in Nat
  BY <1>6, UsesNow, UsesType
<1>8. view[v].u0 >= Uses(v)
  BY DEF UseInv, CountCoversUses
<1>9. view[v] \in ViewT
  BY ViewType
<1>10. view[v].u0 \in Nat
  BY <1>9 DEF ViewT
<1>11. view[v].u0 >= 1 /\ view[v].u0 - 1 \in Nat
  BY <1>6, <1>7, <1>8, <1>10
<1> QED
  BY <1>1, <1>2, <1>3, <1>4, <1>5, <1>10, <1>11

\* Its view has one use less.
LEMMA MbufFreeCount ==
  ASSUME TypeInv, UseInv, NEW m \in flight, MbufFree(m)
  PROVE  Uses(m.v)' \in Nat /\ Uses(m.v) \in Nat /\ Uses(m.v)' + 1 <= Uses(m.v)
<1>1. PICK v \in DOMAIN view: v = m.v
  BY MbufFreeEffect
<1>2. /\ m \in Mbufs /\ Mbufs' = Mbufs \ {m}
      /\ view' = [view EXCEPT ![v].u0 = view[v].u0 - 1] /\ view[v].u0 - 1 \in Nat
  BY <1>1, MbufFreeEffect
<1>3. PICK x \in Nat: x = view[v].u0 - 1
  BY <1>2
<1>4. view'[v].live = view[v].live
  BY <1>2, <1>3, SetU0, ViewType
<1>5. PICK A, B: A = (MbufsOf(v))' /\ B = MbufsOf(v)
  OBVIOUS
<1>6. m \in B /\ A = B \ {m} /\ IsFiniteSet(B) /\ Cardinality(B) \in Nat
  <2>1. IsFiniteSet(B) /\ Cardinality(B) \in Nat
    BY <1>5, UsesType
  <2> QED
    BY <1>1, <1>2, <1>5, <2>1 DEF MbufsOf
<1>7. Cardinality(A) = Cardinality(B) - 1 /\ IsFiniteSet(A)
  BY <1>6, FS_RemoveElement
<1>8. Cardinality(A) \in Nat
  BY <1>7, FS_CardinalityType
<1>9. PICK c \in Nat: c = Cardinality(B)
  BY <1>6
<1>10. PICK d \in Nat: d = Cardinality(A)
  BY <1>8
<1>11. Cardinality(MbufsOf(v)) = c /\ Cardinality((MbufsOf(v))') = d /\ d = c - 1
  BY <1>5, <1>7, <1>9, <1>10
<1>12. CASE view[v].live
  <2>1. Uses(v) = 1 + c /\ Uses(v)' = 1 + d
    BY <1>4, <1>11, <1>12, UsesNow, UsesNext
  <2> QED
    BY <1>1, <1>11, <2>1
<1>13. CASE ~ view[v].live
  <2>1. Uses(v) = c /\ Uses(v)' = d
    BY <1>4, <1>11, <1>13, UsesNow, UsesNext
  <2> QED
    BY <1>1, <1>11, <2>1
<1> QED
  BY <1>12, <1>13

\* netif_mbuf_free: one mbuf of the view less, and one off its count.
LEMMA MbufFreeUses ==
  ASSUME TypeInv, UseInv, ViewInv, NEW m \in flight, MbufFree(m)
  PROVE  TypeInv' /\ UseInv'
<1>1. PICK v \in DOMAIN view: v = m.v
  BY MbufFreeEffect
<1>2. /\ m \in Mbufs /\ m \in MbufT /\ Mbufs' = Mbufs \ {m} /\ flight' = flight \ {m}
      /\ main' = main /\ calls' = calls
      /\ view[v].u0 \in Nat /\ view[v].u0 >= 1 /\ view[v].u0 - 1 \in Nat
      /\ view' = [view EXCEPT ![v].u0 = view[v].u0 - 1]
  BY <1>1, MbufFreeEffect
<1>3. PICK x \in Nat: x = view[v].u0 - 1
  BY <1>2
<1>4. /\ view' \in Seq(ViewT) /\ DOMAIN view' = DOMAIN view
      /\ view'[v].u0 = x
      /\ \A w \in DOMAIN view: w # v => view'[w] = view[w]
      /\ \A w \in DOMAIN view: view'[w].live = view[w].live /\ view'[w].u1 = view[w].u1
  BY <1>2, <1>3, SetU0, ViewType
<1>5. Uses(v)' \in Nat /\ Uses(v) \in Nat /\ Uses(v)' + 1 <= Uses(v)
  BY <1>1, MbufFreeCount
<1>6. page' \in Seq(PageT)
  <2>1. PICK p \in DOMAIN page: p = view[v].page
    BY DEF ViewInv
  <2>2. view[v] \in ViewT
    BY ViewType
  <2>3. m.off \in Nat /\ view[v].u1 \in Nat
    BY <1>2, <2>2 DEF ViewT, MbufT
  <2>4. page' = page \/ page' = Contigfree(p, m.off, view[v].u1)
    BY <1>1, <2>1 DEF MbufFree
  <2>5. CASE page' = page
    BY <2>5, ViewType
  <2>6. CASE page' = Contigfree(p, m.off, view[v].u1)
    BY <2>3, <2>6, ViewType, Frees1
  <2> QED
    BY <2>4, <2>5, <2>6
<1>7. TypeInv'
  <2>1. IsFiniteSet(Mbufs')
    BY <1>2, FS_Subset DEF TypeInv
  <2> QED
    BY <1>2, <1>4, <1>6, <2>1 DEF TypeInv
<1>8. CountCoversUses'
  <2>1. ASSUME NEW w \in DOMAIN view, w # v PROVE view'[w].u0 >= Uses(w)'
    <3>1. view'[w] = view[w] /\ view[w] \in ViewT
      BY <1>4, <2>1, ViewType
    <3>2. view'[w].u0 \in Nat /\ view'[w].u0 >= view[w].u0
      BY <3>1 DEF ViewT
    <3> QED
      BY <1>2, <1>4, <3>2, StillCovered DEF UseInv
  <2>2. view'[v].u0 >= Uses(v)'
    <3>1. view[v].u0 >= Uses(v)
      BY DEF UseInv, CountCoversUses
    <3> QED
      BY <1>2, <1>3, <1>4, <1>5, <3>1
  <2> QED
    BY <1>4, <2>1, <2>2 DEF CountCoversUses
<1>9. Shown'
  BY <1>2, <1>4 DEF UseInv, Shown
<1>10. Sent'
  BY <1>2 DEF UseInv, Sent, Mapping
<1>11. Releasing'
  <2>1. SUFFICES ASSUME main.at = "dec" PROVE Releasing'
    BY <1>2 DEF Releasing
  <2>2. PICK w \in DOMAIN view: w = main.v
    BY <2>1 DEF UseInv, Releasing
  <2>3. /\ ~ view[w].live /\ main.u0 >= view[w].u0 /\ view[w].u0 >= Uses(w) + 1 /\ main.u0 \in Nat
    BY <2>1, <2>2, MainKinds DEF UseInv, Releasing, Over
  <2>4. main.u0 >= view'[w].u0 /\ view'[w].u0 >= Uses(w)' + 1
    <3>1. CASE w = v
      BY <1>2, <1>3, <1>4, <1>5, <2>3, <3>1
    <3>2. CASE w # v
      <4>1. Uses(w)' <= Uses(w) /\ Uses(w)' \in Nat /\ Uses(w) \in Nat
        BY <1>2, <1>4, UsesShrink, UsesType
      <4>2. view'[w].u0 = view[w].u0
        BY <1>4, <3>2
      <4>3. view[w] \in ViewT
        BY ViewType
      <4>4. view[w].u0 \in Nat
        BY <4>3 DEF ViewT
      <4> QED
        BY <2>3, <4>1, <4>2, <4>4
    <3> QED
      BY <3>1, <3>2
  <2>5. ~ view'[w].live /\ w \in DOMAIN view'
    BY <1>4, <2>3
  <2>6. main'.v = w
    BY <1>2, <2>2
  <2>7. Over(main.v)'
    BY <2>4, <2>6 DEF Over, Uses, MbufsOf
  <2> QED
    BY <1>2, <2>4, <2>5, <2>6, <2>7 DEF Releasing
<1>12. Sending'
  <2>1. SUFFICES ASSUME Mapping PROVE Sending'
    BY <1>2 DEF Sending, Mapping
  <2>2. main \in CallT
    BY <2>1, MainKinds
  <2>3. main.todo \in Seq(Nat) /\ \A k \in DOMAIN main.todo: /\ main.todo[k] \in DOMAIN view
                                                             /\ view[main.todo[k]].live /\ view[main.todo[k]].u1 > 0
    BY <2>1, <2>2 DEF UseInv, Sending, CallT
  <2>4. \A k \in DOMAIN main.todo: /\ main.todo[k] \in DOMAIN view'
                                   /\ view'[main.todo[k]].live /\ view'[main.todo[k]].u1 > 0
    BY <1>4, <2>3
  <2>5. main.todo # <<>> => Head(main.todo) \in DOMAIN view
    BY <2>3
  <2>6. main.todo # <<>> => main.left \in 1..view'[Head(main.todo)].u1
    BY <1>4, <2>1, <2>5 DEF UseInv, Sending
  <2> QED
    BY <1>2, <2>1, <2>4, <2>6 DEF UseInv, Sending, Mapping
<1>13. Counting'
  <2>1. SUFFICES ASSUME main.at = "inc" PROVE Counting'
    BY <1>2 DEF Counting
  <2>2. Mapping /\ main \in CallT
    BY <2>1, MainKinds DEF Mapping
  <2>3. main.todo # <<>> /\ main.u0 >= view[Head(main.todo)].u0
    BY <2>1 DEF UseInv, Counting
  <2>4. PICK h: h = Head(main.todo)
    OBVIOUS
  <2>5. h \in DOMAIN view
    <3>1. main.todo \in Seq(Nat) /\ \A k \in DOMAIN main.todo: main.todo[k] \in DOMAIN view
      BY <2>2 DEF UseInv, Sending, CallT
    <3> QED
      BY <2>3, <2>4, <3>1
  <2>6. main.u0 \in Nat
    BY <2>2 DEF CallT
  <2>7. view[h] \in ViewT
    BY <2>5, ViewType
  <2>8. view[h].u0 \in Nat
    BY <2>7 DEF ViewT
  <2>9. view'[h].u0 <= view[h].u0
    BY <1>2, <1>3, <1>4, <2>5, <2>8
  <2>10. view'[h].u0 \in Nat
    <3>1. view'[h] = view[h] \/ h = v
      BY <1>4, <2>5
    <3> QED
      BY <1>4, <2>8, <3>1
  <2>11. main.u0 >= view'[h].u0
    BY <2>3, <2>4, <2>6, <2>8, <2>9, <2>10
  <2> QED
    BY <1>2, <2>3, <2>4, <2>11 DEF Counting
<1> QED
  BY <1>7, <1>8, <1>9, <1>10, <1>11, <1>12, <1>13 DEF UseInv

-----------------------------------------------------------------------------
(* The pages: who holds a page, and who gives it back *)

\* A step that leaves the pages, and of the views at most the counts of the live
\* ones, and that shows of a view only what lies where it begins.
LEMMA PageSame ==
  ASSUME TypeInv, UseInv, PageInv, page' = page, DOMAIN view' = DOMAIN view,
         \A w \in DOMAIN view: /\ view'[w].page = view[w].page /\ view'[w].off = view[w].off
                               /\ view'[w].len = view[w].len /\ view'[w].u1 = view[w].u1
                               /\ view'[w].live = view[w].live,
         \A w \in DOMAIN view: ~ view[w].live => /\ view'[w] = view[w]
                                                 /\ \A m \in Mbufs': m.v = w => m \in Mbufs,
         \A m \in Mbufs': m \in Mbufs \/ (m.v \in DOMAIN view /\ m.off = view[m.v].off),
         main'.at = "dec" <=> main.at = "dec", main.at = "dec" => main'.v = main.v
  PROVE  PageInv'
<1>1. ViewInv /\ MbufInv /\ DecInv /\ ProxyInv /\ HeldInv /\ LeftInv /\ Shown
  BY DEF PageInv, UseInv
<1>2. ViewInv'
  BY <1>1 DEF ViewInv
<1>3. MbufInv'
  <2>1. ASSUME NEW m \in Mbufs' PROVE /\ m.off + view'[m.v].u1 <= PageSize
                                      /\ ~ page'[view'[m.v].page].cut => m.off = 0
    <3>1. CASE m \in Mbufs
      <4>1. PICK w \in DOMAIN view: w = m.v
        BY <1>1, <3>1 DEF Shown
      <4>2. m.off + view[w].u1 <= PageSize /\ (~ page[view[w].page].cut => m.off = 0)
        <5>1. m.off + view[m.v].u1 <= PageSize /\ (~ page[view[m.v].page].cut => m.off = 0)
          BY <1>1, <3>1 DEF MbufInv
        <5> QED
          BY <4>1, <5>1
      <4>3. view'[w].u1 = view[w].u1 /\ view'[w].page = view[w].page
        OBVIOUS
      <4> QED
        BY <4>1, <4>2, <4>3
    <3>2. CASE m.v \in DOMAIN view /\ m.off = view[m.v].off
      BY <1>1, <3>2 DEF ViewInv
    <3> QED
      BY <3>1, <3>2
  <2> QED
    BY <2>1 DEF MbufInv
<1>4. \A p: LiveOf(p)' = LiveOf(p)
  BY DEF LiveOf
<1>5. main.at = "dec" => view'[main'.v].page = view[main.v].page
  BY DEF UseInv, Releasing
<1>6. \A p: Held(p)' <=> Held(p)
  BY <1>4, <1>5 DEF Held
<1>7. DecInv'
  <2>1. SUFFICES ASSUME main.at = "dec" PROVE DecInv'
    BY DEF DecInv
  <2>2. PICK p: p = view[main.v].page
    OBVIOUS
  <2>3. LiveOf(p)' = {} /\ p = view'[main'.v].page
    BY <1>1, <1>4, <1>5, <2>1, <2>2 DEF DecInv
  <2> QED
    BY <2>3 DEF DecInv, LiveOf
<1>8. ProxyInv'
  BY <1>1, <1>4 DEF ProxyInv
<1>9. ASSUME NEW v \in DOMAIN view, ~ view[v].live, Over(v) PROVE Over(v)'
  <2>1. view'[v] = view[v] /\ view[v] \in ViewT /\ \A m \in Mbufs': m.v = v => m \in Mbufs
    BY <1>9, ViewType
  <2>2. view'[v].u0 \in Nat /\ view'[v].u0 >= view[v].u0 /\ view'[v].live = view[v].live
    BY <2>1 DEF ViewT
  <2> QED
    BY <1>9, <2>1, <2>2, StillOver
<1>10. HeldInv'
  BY <1>1, <1>6, <1>9 DEF HeldInv
<1>11. LeftInv'
  <2>1. SUFFICES ASSUME NEW p \in DOMAIN page, ~ Held(p) PROVE \E last \in DOMAIN view: LeftBy(p, last)'
    BY <1>6 DEF LeftInv
  <2>2. PICK last \in DOMAIN view: LeftBy(p, last)
    BY <1>1, <2>1 DEF LeftInv
  <2>3. \A v \in DOMAIN view: view[v].page = p => ~ view[v].live
    BY <2>1 DEF Held, LiveOf
  <2>4. \A v \in DOMAIN view: view'[v].page = p /\ v # last => Over(v)'
    BY <1>9, <2>2, <2>3 DEF LeftBy
  <2>5. view[last].page = p /\ view'[last] = view[last]
    BY <2>2, <2>3 DEF LeftBy
  <2>6. FreedOnce(p)' <=> FreedOnce(p)
    BY DEF FreedOnce
  <2>7. page'[p].freed = <<>> \/ (view'[last].u0 = 0 /\ FreedOnce(p)')
    BY <2>2, <2>5, <2>6 DEF LeftBy
  <2>8. LeftBy(p, last)'
    BY <2>4, <2>5, <2>7 DEF LeftBy
  <2> QED
    BY <2>8
<1> QED
  BY <1>2, <1>3, <1>7, <1>8, <1>10, <1>11 DEF PageInv

\* A step of the driver.
LEMMA QuietPages ==
  ASSUME TypeInv, UseInv, PageInv, memory' = memory
  PROVE  PageInv'
<1>1. page' = page /\ view' = view /\ main' = main /\ flight' = flight
  BY DEF memory
<1>2. Mbufs' = Mbufs
  BY <1>1 DEF Mbufs
<1> QED
  BY <1>1, <1>2, PageSame

\* caml_put_mbufs up to its loop.
LEMMA PutMbufsPages ==
  ASSUME TypeInv, UseInv, PageInv, NEW i \in Ifaces, NEW vs \in Seq(DOMAIN view), PutMbufs(i, vs)
  PROVE  PageInv'
<1>1. /\ main = Idle /\ page' = page /\ view' = view /\ flight' = flight
      /\ main'.at = "map" /\ main'.frag = {} /\ main'.pkt = {} /\ main'.rest = {}
  BY DEF PutMbufs, Calls
<1>2. Mbufs' = Mbufs
  BY <1>1 DEF Mbufs, Idle
<1> QED
  BY <1>1, <1>2, PageSame DEF Idle

\* netif_map_to_mbuf up to its read.
LEMMA MapReadPages ==
  ASSUME TypeInv, UseInv, PageInv, MapRead
  PROVE  PageInv'
<1>1. /\ main.at = "map" /\ main \in CallT /\ page' = page /\ view' = view /\ flight' = flight
      /\ main' = [main EXCEPT !.at = "inc", !.u0 = view[Head(main.todo)].u0]
  BY MainKinds DEF MapRead, Mapping
<1>2. main'.at = "inc" /\ main'.frag = main.frag /\ main'.pkt = main.pkt /\ main'.rest = main.rest
  BY <1>1 DEF CallT
<1>3. Mbufs' = Mbufs
  BY <1>1, <1>2 DEF Mbufs
<1> QED
  BY <1>1, <1>2, <1>3, PageSame

\* netif_map_to_mbuf: the mbuf is of a view that lives, so its page is held.
LEMMA MapWritePages ==
  ASSUME TypeInv, UseInv, PageInv, MapWrite
  PROVE  PageInv'
<1>1. PICK h, b: h = Head(main.todo) /\ b = Mbuf
  OBVIOUS
<1>2. /\ h \in DOMAIN view /\ view[h].live
      /\ main \in CallT /\ main.at = "inc"
      /\ b.v = h /\ b.off = view[h].off
      /\ view' = [view EXCEPT ![h].u0 = main.u0 + 1]
      /\ page' = page /\ main'.at = "map"
  BY <1>1, MapWriteEffect
<1>3. Mbufs' \subseteq Mbufs \cup {b}
  BY <1>1, MapWriteMbufs
<1>4. main.u0 + 1 \in Nat
  BY <1>2 DEF CallT
<1>5. /\ DOMAIN view' = DOMAIN view
      /\ \A w \in DOMAIN view: w # h => view'[w] = view[w]
      /\ \A w \in DOMAIN view: /\ view'[w].page = view[w].page /\ view'[w].off = view[w].off
                               /\ view'[w].len = view[w].len /\ view'[w].u1 = view[w].u1
                               /\ view'[w].live = view[w].live
  BY <1>2, <1>4, SetU0, ViewType
<1>6. \A w \in DOMAIN view: ~ view[w].live => /\ view'[w] = view[w]
                                              /\ \A m \in Mbufs': m.v = w => m \in Mbufs
  BY <1>2, <1>3, <1>5
<1>7. \A m \in Mbufs': m \in Mbufs \/ (m.v \in DOMAIN view /\ m.off = view[m.v].off)
  BY <1>2, <1>3
<1> QED
  BY <1>2, <1>5, <1>6, <1>7, PageSame

\* caml_put_mbufs gives up: the view lives, so its page is held.
LEMMA MapFailsPages ==
  ASSUME TypeInv, UseInv, PageInv, MapFails
  PROVE  PageInv'
<1>1. PICK h: h = Head(main.todo)
  OBVIOUS
<1>2. /\ h \in DOMAIN view /\ view[h].live
      /\ view[h].u0 - Cardinality(main.frag) \in Nat
      /\ view' = [view EXCEPT ![h].u0 = view[h].u0 - Cardinality(main.frag)]
      /\ main.at # "dec" /\ main' = Idle /\ page' = page
      /\ Mbufs' \subseteq Mbufs
  BY <1>1, MapFailsEffect DEF Mapping
<1>3. PICK x \in Nat: x = view[h].u0 - Cardinality(main.frag)
  BY <1>2
<1>4. /\ DOMAIN view' = DOMAIN view
      /\ \A w \in DOMAIN view: w # h => view'[w] = view[w]
      /\ \A w \in DOMAIN view: /\ view'[w].page = view[w].page /\ view'[w].off = view[w].off
                               /\ view'[w].len = view[w].len /\ view'[w].u1 = view[w].u1
                               /\ view'[w].live = view[w].live
  BY <1>2, <1>3, SetU0, ViewType
<1>5. \A w \in DOMAIN view: ~ view[w].live => /\ view'[w] = view[w]
                                              /\ \A m \in Mbufs': m.v = w => m \in Mbufs
  BY <1>2, <1>4
<1> QED
  BY <1>2, <1>4, <1>5, PageSame DEF Idle

\* ether_output_frame.
LEMMA OutputPages ==
  ASSUME TypeInv, UseInv, PageInv, Output
  PROVE  PageInv'
<1>1. /\ main.at = "map" /\ Mapping /\ main.frag = {}
      /\ page' = page /\ view' = view /\ main' = Idle
      /\ flight' = flight \cup main.pkt \cup main.rest
  BY DEF Output, Mapping, UseInv, Sending
<1>2. Mbufs' = Mbufs
  BY <1>1 DEF Mbufs, Idle
<1> QED
  BY <1>1, <1>2, PageSame DEF Idle

-----------------------------------------------------------------------------
(* New views and moved ones *)

\* A view that a step leaves alone.
LEMMA SameOver ==
  ASSUME NEW v, Mbufs' = Mbufs, view'[v] = view[v]
  PROVE  Over(v)' <=> Over(v)
  BY DEF Over, Uses, MbufsOf

\* Io_page.get: the page is held by its only view.
LEMMA AllocPagesPages ==
  ASSUME TypeInv, UseInv, PageInv, AllocPages
  PROVE  PageInv'
<1>1. PICK n, q: n = Len(view) + 1 /\ q = Len(page) + 1
  OBVIOUS
<1> DEFINE e == [page |-> q, off |-> 0, len |-> PageSize, u0 |-> 1, u1 |-> PageSize, live |-> TRUE]
           z == [cut |-> FALSE, proxy |-> 0, freed |-> <<>>]
<1>2. /\ main = Idle /\ main' = Idle /\ flight' = flight
      /\ page' = Append(page, z) /\ view' = Append(view, e)
  BY <1>1 DEF AllocPages, Calls
<1>3. e \in ViewT /\ z \in PageT
  BY <1>1, ViewType, Sizes DEF ViewT, PageT
<1>4. /\ e.page = q /\ e.off = 0 /\ e.len = PageSize /\ e.u1 = PageSize /\ e.live
      /\ ~ z.cut /\ z.proxy = 0 /\ z.freed = <<>>
  OBVIOUS
<1> HIDE DEF e, z
<1>5. /\ DOMAIN view' = DOMAIN view \cup {n} /\ n \notin DOMAIN view /\ view'[n] = e
      /\ \A w \in DOMAIN view: view'[w] = view[w]
  BY <1>1, <1>2, <1>3, AddView, ViewType
<1>6. /\ DOMAIN page' = DOMAIN page \cup {q} /\ q \notin DOMAIN page /\ page'[q] = z
      /\ \A w \in DOMAIN page: page'[w] = page[w]
  BY <1>1, <1>2, <1>3, ViewType
<1>7. Mbufs' = Mbufs
  BY <1>2 DEF Mbufs, Idle
<1>8. \A w \in DOMAIN view: view[w].page \in DOMAIN page /\ view[w].page # q
  BY <1>6 DEF PageInv, ViewInv
<1>9. \A w \in DOMAIN view: Over(w)' <=> Over(w)
  BY <1>5, <1>7, SameOver
<1>10. ViewInv'
  <2>1. ASSUME NEW w \in DOMAIN view
        PROVE  /\ view'[w].page \in DOMAIN page'
               /\ view'[w].off + view'[w].u1 <= PageSize /\ view'[w].off + view'[w].len <= PageSize
               /\ ~ page'[view'[w].page].cut => /\ view'[w].off = 0 /\ view'[w].u1 = PageSize
                                                /\ \A x \in DOMAIN view': view'[x].page = view'[w].page => x = w
    BY <1>4, <1>5, <1>6, <1>8 DEF PageInv, ViewInv
  <2>2. /\ view'[n].page \in DOMAIN page'
        /\ view'[n].off + view'[n].u1 <= PageSize /\ view'[n].off + view'[n].len <= PageSize
        /\ ~ page'[view'[n].page].cut => /\ view'[n].off = 0 /\ view'[n].u1 = PageSize
                                         /\ \A x \in DOMAIN view': view'[x].page = view'[n].page => x = n
    BY <1>4, <1>5, <1>6, <1>8, Sizes
  <2> QED
    BY <1>5, <2>1, <2>2 DEF ViewInv
<1>11. MbufInv'
  BY <1>5, <1>6, <1>7, <1>8 DEF PageInv, MbufInv, UseInv, Shown
<1>12. DecInv'
  BY <1>2 DEF DecInv, Idle
<1>13. \A p \in DOMAIN page: LiveOf(p)' = LiveOf(p)
  BY <1>4, <1>5, <1>6 DEF LiveOf
<1>14. n \in LiveOf(q)'
  BY <1>4, <1>5 DEF LiveOf
<1>15. ProxyInv'
  BY <1>4, <1>6, <1>13 DEF PageInv, ProxyInv
<1>16. \A p \in DOMAIN page: Held(p)' <=> Held(p)
  BY <1>2, <1>13 DEF Held, Idle
<1>17. HeldInv'
  <2>1. ASSUME NEW p \in DOMAIN page, Held(p)
        PROVE  page'[p].freed = <<>> /\ \A w \in DOMAIN view': view'[w].page = p /\ ~ view'[w].live => Over(w)'
    BY <1>4, <1>5, <1>6, <1>9, <2>1 DEF PageInv, HeldInv
  <2>2. page'[q].freed = <<>> /\ \A w \in DOMAIN view': view'[w].page = q /\ ~ view'[w].live => Over(w)'
    BY <1>4, <1>5, <1>6, <1>8
  <2> QED
    BY <1>6, <1>16, <2>1, <2>2 DEF HeldInv
<1>18. LeftInv'
  <2>1. Held(q)'
    BY <1>14 DEF Held
  <2>2. ASSUME NEW p \in DOMAIN page, ~ Held(p) PROVE \E last \in DOMAIN view': LeftBy(p, last)'
    <3>1. PICK last \in DOMAIN view: LeftBy(p, last)
      BY <2>2 DEF PageInv, LeftInv
    <3>2. p # q /\ page'[p] = page[p] /\ view'[last] = view[last]
      BY <1>5, <1>6
    <3>3. FreedOnce(p)' <=> FreedOnce(p)
      BY <3>2 DEF FreedOnce
    <3>4. \A w \in DOMAIN view': view'[w].page = p /\ w # last => Over(w)'
      BY <1>4, <1>5, <1>9, <3>1, <3>2 DEF LeftBy
    <3>5. LeftBy(p, last)'
      BY <1>5, <3>1, <3>2, <3>3, <3>4 DEF LeftBy
    <3> QED
      BY <1>5, <3>5
  <2> QED
    BY <1>6, <1>16, <2>1, <2>2 DEF LeftInv
<1> QED
  BY <1>10, <1>11, <1>12, <1>15, <1>17, <1>18 DEF PageInv

\* caml_ba_sub and caml_ba_update_proxy: the proxy counts the views that live.
LEMMA SubPages ==
  ASSUME TypeInv, UseInv, PageInv, NEW v \in DOMAIN view, NEW ofs \in Nat, NEW len \in Nat, Sub(v, ofs, len)
  PROVE  PageInv'
<1>1. PICK n, p, x, y: n = Len(view) + 1 /\ p = view[v].page /\ x = view[v] /\ y = page[p]
  OBVIOUS
<1>2. p \in DOMAIN page /\ x \in ViewT /\ y \in PageT
  BY <1>1, ViewType DEF PageInv, ViewInv
<1> DEFINE e == [page |-> x.page, off |-> x.off + ofs, len |-> len, u0 |-> 1, u1 |-> len, live |-> x.live]
           z == [cut |-> TRUE, proxy |-> IF y.cut THEN y.proxy + 1 ELSE 2, freed |-> y.freed]
<1>3. /\ main = Idle /\ main' = Idle /\ flight' = flight /\ x.live /\ ofs + len <= x.len
      /\ page' = [page EXCEPT ![p] = UpdateProxy(y)]
      /\ view' = Append(view, [x EXCEPT !.off = @ + ofs, !.len = len, !.u0 = 1, !.u1 = len])
  BY <1>1 DEF Sub, Calls
<1>4. [x EXCEPT !.off = @ + ofs, !.len = len, !.u0 = 1, !.u1 = len] = e
  <2>1. PICK a: a = [x EXCEPT !.off = @ + ofs, !.len = len, !.u0 = 1, !.u1 = len]
    OBVIOUS
  <2>2. a = [page |-> x.page, off |-> x.off + ofs, len |-> len, u0 |-> 1, u1 |-> len, live |-> x.live]
    BY <1>2, <2>1 DEF ViewT
  <2> QED
    BY <2>1, <2>2
<1>5. UpdateProxy(y) = z
  BY <1>2 DEF PageT, UpdateProxy
<1>6. e \in ViewT /\ z \in PageT
  BY <1>2 DEF ViewT, PageT
<1>7. /\ e.page = p /\ e.off = x.off + ofs /\ e.len = len /\ e.u1 = len /\ e.live
      /\ z.cut /\ z.proxy = (IF y.cut THEN y.proxy + 1 ELSE 2) /\ z.freed = y.freed
  BY <1>1, <1>3
<1> HIDE DEF e, z
<1>8. /\ DOMAIN view' = DOMAIN view \cup {n} /\ n \notin DOMAIN view /\ view'[n] = e
      /\ \A w \in DOMAIN view: view'[w] = view[w]
  BY <1>1, <1>3, <1>4, <1>6, AddView, ViewType
<1>9. /\ DOMAIN page' = DOMAIN page /\ page'[p] = z
      /\ \A r \in DOMAIN page: r # p => page'[r] = page[r]
  BY <1>2, <1>3, <1>5, <1>6, SetPage, ViewType
<1>10. Mbufs' = Mbufs
  BY <1>3 DEF Mbufs, Idle
<1>11. \A w \in DOMAIN view: Over(w)' <=> Over(w)
  BY <1>8, <1>10, SameOver
<1>12. \A r \in DOMAIN page: page'[r].freed = page[r].freed /\ (~ page'[r].cut => r # p /\ page'[r] = page[r])
  BY <1>1, <1>7, <1>9
<1>13. ViewInv'
  <2>1. ASSUME NEW w \in DOMAIN view
        PROVE  /\ view'[w].page \in DOMAIN page'
               /\ view'[w].off + view'[w].u1 <= PageSize /\ view'[w].off + view'[w].len <= PageSize
               /\ ~ page'[view'[w].page].cut => /\ view'[w].off = 0 /\ view'[w].u1 = PageSize
                                                /\ \A i \in DOMAIN view': view'[i].page = view'[w].page => i = w
    BY <1>7, <1>8, <1>9, <1>12 DEF PageInv, ViewInv
  <2>2. view'[n].page \in DOMAIN page' /\ page'[view'[n].page].cut
    BY <1>2, <1>7, <1>8, <1>9
  <2>3. view'[n].off + view'[n].u1 <= PageSize /\ view'[n].off + view'[n].len <= PageSize
    <3>1. x.off + x.len <= PageSize /\ x.off \in Nat /\ x.len \in Nat
      BY <1>1, <1>2 DEF PageInv, ViewInv, ViewT
    <3>2. PageSize \in Nat
      BY Sizes
    <3> QED
      BY <1>3, <1>7, <1>8, <3>1, <3>2
  <2> QED
    BY <1>8, <2>1, <2>2, <2>3 DEF ViewInv
<1>14. MbufInv'
  <2>1. ASSUME NEW m \in Mbufs PROVE /\ m.off + view'[m.v].u1 <= PageSize
                                     /\ ~ page'[view'[m.v].page].cut => m.off = 0
    <3>1. PICK w \in DOMAIN view: w = m.v
      BY DEF UseInv, Shown
    <3>2. m.off + view[w].u1 <= PageSize /\ (~ page[view[w].page].cut => m.off = 0) /\ view[w].page \in DOMAIN page
      BY <3>1 DEF PageInv, MbufInv, ViewInv
    <3> QED
      BY <1>8, <1>12, <3>1, <3>2
  <2> QED
    BY <1>10, <2>1 DEF MbufInv
<1>15. DecInv'
  BY <1>3 DEF DecInv, Idle
<1>16. LiveOf(p)' = LiveOf(p) \cup {n} /\ n \notin LiveOf(p) /\ v \in LiveOf(p)
  BY <1>1, <1>3, <1>7, <1>8 DEF LiveOf
<1>17. \A r \in DOMAIN page: r # p => LiveOf(r)' = LiveOf(r)
  BY <1>7, <1>8 DEF LiveOf
<1>18. IsFiniteSet(LiveOf(p)) /\ Cardinality(LiveOf(p)) \in Nat
  <2>1. IsFiniteSet(DOMAIN view)
    BY ViewType, FS_Interval
  <2>2. IsFiniteSet(LiveOf(p))
    BY <2>1, FS_Subset DEF LiveOf
  <2> QED
    BY <2>2, FS_CardinalityType
<1>19. Cardinality(LiveOf(p)') = Cardinality(LiveOf(p)) + 1
  BY <1>16, <1>18, FS_AddElement
<1>20. ProxyInv'
  <2>1. page'[p].proxy = Cardinality(LiveOf(p)')
    <3>1. CASE y.cut
      BY <1>1, <1>2, <1>7, <1>9, <1>19, <3>1 DEF PageInv, ProxyInv
    <3>2. CASE ~ y.cut
      <4>1. LiveOf(p) = {v}
        BY <1>1, <1>16, <3>2 DEF PageInv, ViewInv, LiveOf
      <4>2. Cardinality(LiveOf(p)) = 1
        BY <4>1, FS_Singleton
      <4> QED
        BY <1>7, <1>9, <1>19, <3>2, <4>2
    <3> QED
      BY <3>1, <3>2
  <2>2. page'[p].cut
    BY <1>7, <1>9
  <2>3. \A r \in DOMAIN page: r # p => page'[r].proxy = IF page'[r].cut THEN Cardinality(LiveOf(r)') ELSE 0
    BY <1>9, <1>17 DEF PageInv, ProxyInv
  <2> QED
    BY <1>9, <2>1, <2>2, <2>3 DEF ProxyInv
<1>21. \A r \in DOMAIN page: Held(r)' <=> Held(r)
  BY <1>3, <1>16, <1>17 DEF Held, Idle
<1>22. HeldInv'
  <2>1. ASSUME NEW r \in DOMAIN page, Held(r)
        PROVE  page'[r].freed = <<>> /\ \A w \in DOMAIN view': view'[w].page = r /\ ~ view'[w].live => Over(w)'
    BY <1>7, <1>8, <1>11, <1>12, <2>1 DEF PageInv, HeldInv
  <2> QED
    BY <1>9, <1>21, <2>1 DEF HeldInv
<1>23. LeftInv'
  <2>1. ASSUME NEW r \in DOMAIN page, ~ Held(r) PROVE \E last \in DOMAIN view': LeftBy(r, last)'
    <3>1. PICK last \in DOMAIN view: LeftBy(r, last)
      BY <2>1 DEF PageInv, LeftInv
    <3>2. r # p /\ page'[r] = page[r] /\ view'[last] = view[last]
      BY <1>8, <1>9, <1>16, <2>1 DEF Held
    <3>3. FreedOnce(r)' <=> FreedOnce(r)
      BY <3>2 DEF FreedOnce
    <3>4. \A w \in DOMAIN view': view'[w].page = r /\ w # last => Over(w)'
      BY <1>7, <1>8, <1>11, <3>1, <3>2 DEF LeftBy
    <3>5. LeftBy(r, last)'
      BY <1>8, <3>1, <3>2, <3>3, <3>4 DEF LeftBy
    <3> QED
      BY <1>8, <3>5
  <2> QED
    BY <1>9, <1>21, <2>1 DEF LeftInv
<1> QED
  BY <1>13, <1>14, <1>15, <1>20, <1>22, <1>23 DEF PageInv

\* caml_bigarray_shift_left stays in the page.
LEMMA ShiftLeftPages ==
  ASSUME TypeInv, UseInv, PageInv, NEW v \in DOMAIN view, NEW n \in Nat, ShiftLeft(v, n)
  PROVE  PageInv'
<1>1. PICK x \in ViewT: x = view[v]
  BY ViewType
<1>2. /\ n <= x.off /\ x.live /\ main = Idle /\ page[x.page].cut
      /\ page' = page /\ main' = main /\ flight' = flight
  BY <1>1 DEF ShiftLeft, Calls
<1> DEFINE e == [page |-> x.page, off |-> x.off - n, len |-> x.len + n, u0 |-> x.u0, u1 |-> x.u1, live |-> x.live]
<1>3. e \in ViewT
  <2>1. x.off - n \in Nat /\ x.len + n \in Nat
    BY <1>2 DEF ViewT
  <2> QED
    BY <2>1 DEF ViewT
<1>4. view' = [view EXCEPT ![v] = e]
  <2>1. view' = [view EXCEPT ![v] = [[view[v] EXCEPT !.off = @ - n] EXCEPT !.len = @ + n]]
    BY DEF ShiftLeft
  <2>2. [[x EXCEPT !.off = @ - n] EXCEPT !.len = @ + n] = e
    <3> DEFINE y == [page |-> x.page, off |-> x.off - n, len |-> x.len, u0 |-> x.u0, u1 |-> x.u1, live |-> x.live]
    <3>1. [x EXCEPT !.off = @ - n] = y
      BY DEF ViewT
    <3>2. y.len = x.len /\ [y EXCEPT !.len = x.len + n] = e
      OBVIOUS
    <3> HIDE DEF y, e
    <3> QED
      BY <3>1, <3>2
  <2> QED
    BY <1>1, <2>1, <2>2
<1>5. /\ e.live = x.live /\ e.u0 = x.u0 /\ e.page = x.page /\ e.u1 = x.u1
      /\ e.off = x.off - n /\ e.len = x.len + n
  OBVIOUS
<1> HIDE DEF e
<1>6. /\ DOMAIN view' = DOMAIN view /\ view'[v] = e
      /\ \A w \in DOMAIN view: w # v => view'[w] = view[w]
      /\ \A w \in DOMAIN view: /\ view'[w].live = view[w].live /\ view'[w].u0 = view[w].u0
                               /\ view'[w].page = view[w].page /\ view'[w].u1 = view[w].u1
  BY <1>1, <1>3, <1>4, <1>5, ViewType, SetView
<1>7. Mbufs' = Mbufs
  BY <1>2 DEF Mbufs
<1>8. \A w \in DOMAIN view: Over(w)' <=> Over(w)
  BY <1>6, <1>7, UsesSame DEF Over
<1>9. ViewInv'
  <2>1. ASSUME NEW w \in DOMAIN view
        PROVE  /\ view'[w].page \in DOMAIN page'
               /\ view'[w].off + view'[w].u1 <= PageSize /\ view'[w].off + view'[w].len <= PageSize
               /\ ~ page'[view'[w].page].cut => /\ view'[w].off = 0 /\ view'[w].u1 = PageSize
                                                /\ \A i \in DOMAIN view': view'[i].page = view'[w].page => i = w
    <3>1. CASE w # v
      BY <1>2, <1>6, <3>1 DEF PageInv, ViewInv
    <3>2. CASE w = v
      <4>1. x.off + x.u1 <= PageSize /\ x.off + x.len <= PageSize /\ x.page \in DOMAIN page
        BY <1>1 DEF PageInv, ViewInv
      <4>2. PageSize \in Nat
        BY Sizes
      <4>3. x.off - n + x.u1 <= PageSize /\ (x.off - n) + (x.len + n) <= PageSize
        BY <1>2, <4>1, <4>2 DEF ViewT
      <4> QED
        BY <1>2, <1>5, <1>6, <3>2, <4>1, <4>3
    <3> QED
      BY <3>1, <3>2
  <2> QED
    BY <1>6, <2>1 DEF ViewInv
<1>10. MbufInv'
  <2>1. ASSUME NEW m \in Mbufs PROVE /\ m.off + view'[m.v].u1 <= PageSize
                                     /\ ~ page'[view'[m.v].page].cut => m.off = 0
    <3>1. PICK w \in DOMAIN view: w = m.v
      BY DEF UseInv, Shown
    <3>2. m.off + view[w].u1 <= PageSize /\ (~ page[view[w].page].cut => m.off = 0)
      BY <3>1 DEF PageInv, MbufInv
    <3> QED
      BY <1>2, <1>6, <3>1, <3>2
  <2> QED
    BY <1>7, <2>1 DEF MbufInv
<1>11. DecInv'
  BY <1>2 DEF DecInv, Idle
<1>12. \A p: LiveOf(p)' = LiveOf(p)
  BY <1>6 DEF LiveOf
<1>13. \A p: Held(p)' <=> Held(p)
  BY <1>2, <1>12 DEF Held, Idle
<1>14. ProxyInv'
  BY <1>2, <1>12 DEF PageInv, ProxyInv
<1>15. HeldInv'
  BY <1>2, <1>6, <1>8, <1>13 DEF PageInv, HeldInv
<1>16. LeftInv'
  <2>1. ASSUME NEW p \in DOMAIN page, ~ Held(p) PROVE \E last \in DOMAIN view': LeftBy(p, last)'
    <3>1. PICK last \in DOMAIN view: LeftBy(p, last)
      BY <2>1 DEF PageInv, LeftInv
    <3>2. FreedOnce(p)' <=> FreedOnce(p)
      BY <1>2 DEF FreedOnce
    <3>3. \A w \in DOMAIN view': view'[w].page = p /\ w # last => Over(w)'
      BY <1>6, <1>8, <3>1 DEF LeftBy
    <3>4. LeftBy(p, last)'
      BY <1>2, <1>6, <3>1, <3>2, <3>3 DEF LeftBy
    <3> QED
      BY <1>6, <3>4
  <2> QED
    BY <1>2, <1>13, <2>1 DEF LeftInv
<1> QED
  BY <1>9, <1>10, <1>11, <1>14, <1>15, <1>16 DEF PageInv

-----------------------------------------------------------------------------
(* The end of a view, of an mbuf and of a page *)

\* The view that is finalised was the last one of its page exactly when the
\* program goes on to its count.
LEMMA FinalizeLast ==
  ASSUME TypeInv, UseInv, PageInv, NEW v \in DOMAIN view, NEW p \in DOMAIN page, p = view[v].page, Finalize(v)
  PROVE  /\ LiveOf(p)' = LiveOf(p) \ {v} /\ v \in LiveOf(p)
         /\ \A r \in DOMAIN page: r # p => LiveOf(r)' = LiveOf(r)
         /\ LiveOf(p) = {v} => main' = [at |-> "dec", v |-> v, u0 |-> view[v].u0]
         /\ LiveOf(p) # {v} => main' = Idle
         /\ page[p].cut => Cardinality(LiveOf(p)') = page[p].proxy - 1
<1>1. /\ DOMAIN view' = DOMAIN view
      /\ view[v].live /\ ~ view'[v].live
      /\ \A w \in DOMAIN view: w # v => view'[w] = view[w]
      /\ \A w \in DOMAIN view: view'[w].page = view[w].page
  BY FinalizeEffect
<1>2. LiveOf(p)' = LiveOf(p) \ {v} /\ v \in LiveOf(p)
  BY <1>1 DEF LiveOf
<1>3. \A r \in DOMAIN page: r # p => LiveOf(r)' = LiveOf(r)
  BY <1>1 DEF LiveOf
<1>4. IsFiniteSet(LiveOf(p)) /\ Cardinality(LiveOf(p)) \in Nat
  <2>1. IsFiniteSet(DOMAIN view)
    BY ViewType, FS_Interval
  <2>2. IsFiniteSet(LiveOf(p))
    BY <2>1, FS_Subset DEF LiveOf
  <2> QED
    BY <2>2, FS_CardinalityType
<1>5. PICK L: L = LiveOf(p)
  OBVIOUS
<1>6. Cardinality(L \ {v}) = Cardinality(L) - 1 /\ IsFiniteSet(L \ {v}) /\ Cardinality(L \ {v}) \in Nat
  BY <1>2, <1>4, <1>5, FS_RemoveElement, FS_CardinalityType
<1>7. Cardinality(L) > 1 <=> L # {v}
  <2>1. CASE L = {v}
    <3>1. Cardinality(L) = 1
      BY <2>1, FS_Singleton
    <3> QED
      BY <2>1, <3>1
  <2>2. CASE L # {v}
    <3>1. L \ {v} # {}
      BY <1>2, <1>5, <2>2
    <3>2. Cardinality(L \ {v}) # 0
      BY <1>6, <3>1, FS_EmptySet
    <3>3. PICK c \in Nat: c = Cardinality(L \ {v})
      BY <1>6
    <3>4. Cardinality(L) > 1
      BY <1>4, <1>5, <1>6, <3>2, <3>3
    <3> QED
      BY <2>2, <3>4
  <2> QED
    BY <2>1, <2>2
<1>8. page[p].cut => page[p].proxy = Cardinality(L)
  BY <1>5 DEF PageInv, ProxyInv
<1>9. ~ page[p].cut => L = {v}
  BY <1>2, <1>5 DEF PageInv, ViewInv, LiveOf
<1>10. main' = IF page[p].cut /\ page[p].proxy > 1 THEN Idle ELSE [at |-> "dec", v |-> v, u0 |-> view[v].u0]
  BY DEF Finalize
<1>11. page[p].cut /\ page[p].proxy > 1 <=> L # {v}
  BY <1>7, <1>8, <1>9
<1>12. L = {v} => main' = [at |-> "dec", v |-> v, u0 |-> view[v].u0]
  BY <1>10, <1>11
<1>13. L # {v} => main' = Idle
  BY <1>10, <1>11
<1>14. page[p].cut => Cardinality(LiveOf(p)') = page[p].proxy - 1
  BY <1>2, <1>5, <1>6, <1>8
<1> QED
  BY <1>2, <1>3, <1>5, <1>12, <1>13, <1>14

\* caml_ba_finalize: the page stays held, by another view or by the rest of the call.
LEMMA FinalizePages ==
  ASSUME TypeInv, UseInv, PageInv, NEW v \in DOMAIN view, Finalize(v)
  PROVE  PageInv'
<1>1. PICK p \in DOMAIN page: p = view[v].page
  BY DEF PageInv, ViewInv
<1>2. /\ DOMAIN view' = DOMAIN view
      /\ view[v].live /\ ~ view'[v].live
      /\ \A w \in DOMAIN view: w # v => view'[w] = view[w]
      /\ \A w \in DOMAIN view: /\ view'[w].page = view[w].page /\ view'[w].off = view[w].off
                               /\ view'[w].len = view[w].len /\ view'[w].u1 = view[w].u1
                               /\ view'[w].u0 = view[w].u0
      /\ DOMAIN page' = DOMAIN page
      /\ page'[p].proxy = IF page[p].cut THEN page[p].proxy - 1 ELSE page[p].proxy
      /\ \A r \in DOMAIN page: r # p => page'[r] = page[r]
      /\ \A r \in DOMAIN page: page'[r].cut = page[r].cut /\ page'[r].freed = page[r].freed
      /\ main = Idle /\ Mbufs' = Mbufs
  BY <1>1, FinalizeEffect
<1>3. /\ LiveOf(p)' = LiveOf(p) \ {v} /\ v \in LiveOf(p)
      /\ \A r \in DOMAIN page: r # p => LiveOf(r)' = LiveOf(r)
      /\ LiveOf(p) = {v} => main' = [at |-> "dec", v |-> v, u0 |-> view[v].u0]
      /\ LiveOf(p) # {v} => main' = Idle
      /\ page[p].cut => Cardinality(LiveOf(p)') = page[p].proxy - 1
  BY <1>1, FinalizeLast
<1>4. Over(v)'
  BY <1>1, FinalizeOver
<1>5. \A w \in DOMAIN view: w # v => (Over(w)' <=> Over(w))
  BY <1>2, SameOver
<1>6. ViewInv'
  BY <1>2 DEF PageInv, ViewInv
<1>7. MbufInv'
  <2>1. ASSUME NEW m \in Mbufs PROVE /\ m.off + view'[m.v].u1 <= PageSize
                                     /\ ~ page'[view'[m.v].page].cut => m.off = 0
    <3>1. PICK w \in DOMAIN view: w = m.v
      BY DEF UseInv, Shown
    <3>2. m.off + view[w].u1 <= PageSize /\ (~ page[view[w].page].cut => m.off = 0) /\ view[w].page \in DOMAIN page
      BY <3>1 DEF PageInv, MbufInv, ViewInv
    <3> QED
      BY <1>2, <3>1, <3>2
  <2> QED
    BY <1>2, <2>1 DEF MbufInv
<1>8. ASSUME LiveOf(p) = {v} PROVE LiveOf(p)' = {} /\ main'.at = "dec" /\ main'.v = v /\ view'[main'.v].page = p
  BY <1>1, <1>2, <1>3, <1>8
<1>9. DecInv'
  <2>1. CASE LiveOf(p) = {v}
    <3>1. LiveOf(p)' = {} /\ p = view'[main'.v].page
      BY <1>8, <2>1
    <3> QED
      BY <3>1 DEF DecInv, LiveOf
  <2>2. CASE LiveOf(p) # {v}
    BY <1>3, <2>2 DEF DecInv, Idle
  <2> QED
    BY <2>1, <2>2
<1>10. ProxyInv'
  <2>1. page'[p].proxy = IF page'[p].cut THEN Cardinality(LiveOf(p)') ELSE 0
    BY <1>2, <1>3 DEF PageInv, ProxyInv
  <2>2. \A r \in DOMAIN page: r # p => page'[r].proxy = IF page'[r].cut THEN Cardinality(LiveOf(r)') ELSE 0
    BY <1>2, <1>3 DEF PageInv, ProxyInv
  <2> QED
    BY <1>2, <2>1, <2>2 DEF ProxyInv
<1>11. Held(p) /\ Held(p)'
  <2>1. CASE LiveOf(p) = {v}
    BY <1>3, <1>8, <2>1 DEF Held
  <2>2. CASE LiveOf(p) # {v}
    <3>1. LiveOf(p)' # {}
      BY <1>3, <2>2
    <3> QED
      BY <1>3, <3>1 DEF Held
  <2> QED
    BY <2>1, <2>2
<1>12. \A r \in DOMAIN page: r # p => (Held(r)' <=> Held(r))
  <2>1. \A r: (main'.at = "dec" /\ view'[main'.v].page = r) => r = p
    BY <1>3, <1>8 DEF Idle
  <2> QED
    BY <1>2, <1>3, <2>1 DEF Held, Idle
<1>13. HeldInv'
  <2>1. ASSUME NEW r \in DOMAIN page, Held(r)
        PROVE  page'[r].freed = <<>> /\ \A w \in DOMAIN view: view'[w].page = r /\ ~ view'[w].live => Over(w)'
    <3>1. page[r].freed = <<>> /\ \A w \in DOMAIN view: view[w].page = r /\ ~ view[w].live => Over(w)
      BY <2>1 DEF PageInv, HeldInv
    <3>2. \A w \in DOMAIN view: view'[w].page = r /\ ~ view'[w].live => Over(w)'
      BY <1>2, <1>4, <1>5, <3>1
    <3> QED
      BY <1>2, <3>1, <3>2
  <2>2. \A r \in DOMAIN page: Held(r)' => Held(r)
    BY <1>11, <1>12
  <2> QED
    BY <1>2, <2>1, <2>2 DEF HeldInv
<1>14. LeftInv'
  <2>1. ASSUME NEW r \in DOMAIN page, ~ Held(r)' PROVE \E last \in DOMAIN view': LeftBy(r, last)'
    <3>1. r # p /\ ~ Held(r)
      BY <1>11, <1>12, <2>1
    <3>2. PICK last \in DOMAIN view: LeftBy(r, last)
      BY <3>1 DEF PageInv, LeftInv
    <3>3. FreedOnce(r)' <=> FreedOnce(r)
      BY <1>2, <3>1 DEF FreedOnce
    <3>4. \A w \in DOMAIN view': view'[w].page = r /\ w # last => Over(w)'
      BY <1>1, <1>2, <1>5, <3>1, <3>2 DEF LeftBy
    <3>5. LeftBy(r, last)'
      BY <1>2, <3>1, <3>2, <3>3, <3>4 DEF LeftBy
    <3> QED
      BY <1>2, <3>5
  <2> QED
    BY <1>2, <2>1 DEF LeftInv
<1> QED
  BY <1>6, <1>7, <1>9, <1>10, <1>13, <1>14 DEF PageInv

\* A part of a page that was not given to contigfree before.
LEMMA FreesOnce ==
  ASSUME page \in Seq(PageT), NEW p \in DOMAIN page, NEW off \in Nat, NEW len \in Nat, off + len <= PageSize,
         ~ page[p].cut => off = 0 /\ len = PageSize,
         page[p].freed = <<>>, page' = Contigfree(p, off, len)
  PROVE  FreedOnce(p)'
<1>1. page'[p].cut = page[p].cut /\ page'[p].freed = Append(<<>>, [off |-> off, len |-> len])
  BY Frees1
<1>2. PICK x: x = [off |-> off, len |-> len]
  OBVIOUS
<1>3. Len(page'[p].freed) = 1 /\ page'[p].freed[1] = x
  BY <1>1, <1>2
<1>4. x.off + x.len <= PageSize
  BY <1>2
<1> QED
  BY <1>1, <1>2, <1>3, <1>4 DEF FreedOnce

\* caml_ba_finalize after the last view of a page: the page is given to contigfree
\* when no mbuf of that view is left, and left to them otherwise.
LEMMA FinalizeWritePages ==
  ASSUME TypeInv, UseInv, PageInv, FinalizeWrite
  PROVE  PageInv'
<1>1. /\ main.v \in DOMAIN view /\ main.u0 \in Nat /\ main.u0 - 1 \in Nat
      /\ view' = [view EXCEPT ![main.v].u0 = main.u0 - 1]
      /\ main' = Idle /\ Mbufs = flight /\ Mbufs' = flight
  BY FinalizeWriteEffect
<1>2. PICK v \in DOMAIN view: v = main.v
  BY <1>1
<1>3. PICK x \in Nat: x = main.u0 - 1
  BY <1>1
<1>4. PICK p \in DOMAIN page: p = view[v].page
  BY DEF PageInv, ViewInv
<1>5. /\ DOMAIN view' = DOMAIN view
      /\ view'[v].u0 = x
      /\ \A w \in DOMAIN view: w # v => view'[w] = view[w]
      /\ \A w \in DOMAIN view: /\ view'[w].page = view[w].page /\ view'[w].off = view[w].off
                               /\ view'[w].len = view[w].len /\ view'[w].u1 = view[w].u1
                               /\ view'[w].live = view[w].live
  BY <1>1, <1>2, <1>3, SetU0, ViewType
<1>6. main.at = "dec" /\ Held(p) /\ LiveOf(p) = {}
  BY <1>2, <1>4 DEF FinalizeWrite, Held, PageInv, DecInv
<1>7. /\ page[p].freed = <<>>
      /\ \A w \in DOMAIN view: view[w].page = p /\ ~ view[w].live => Over(w)
  BY <1>6 DEF PageInv, HeldInv
<1>8. /\ view[v].off \in Nat /\ view[v].u1 \in Nat /\ view[v].off + view[v].u1 <= PageSize
      /\ ~ page[p].cut => view[v].off = 0 /\ view[v].u1 = PageSize
  <2>1. view[v] \in ViewT
    BY ViewType
  <2> QED
    BY <1>4, <2>1 DEF ViewT, PageInv, ViewInv
<1>9. IF x > 0 THEN page' = page
      ELSE \E off, len \in Nat: /\ page' = Contigfree(p, off, len) /\ off + len <= PageSize
                                /\ ~ page[p].cut => off = 0 /\ len = PageSize
  <2>1. x > 0 => page' = page
    BY <1>3 DEF FinalizeWrite
  <2>2. ~ (x > 0) => page' = IF page[p].cut THEN Contigfree(p, 0, 0) ELSE Contigfree(p, view[v].off, view[v].u1)
    BY <1>2, <1>3, <1>4 DEF FinalizeWrite
  <2>3. 0 \in Nat /\ 0 + 0 <= PageSize
    BY Sizes
  <2> QED
    BY <1>8, <2>1, <2>2, <2>3
<1>10. /\ DOMAIN page' = DOMAIN page
       /\ \A r \in DOMAIN page: page'[r].cut = page[r].cut /\ page'[r].proxy = page[r].proxy
       /\ \A r \in DOMAIN page: r # p => page'[r] = page[r]
       /\ page'[p].freed = <<>> \/ (x = 0 /\ FreedOnce(p)')
  <2>1. CASE x > 0
    BY <1>7, <1>9, <2>1
  <2>2. CASE ~ (x > 0)
    <3>1. PICK off \in Nat, len \in Nat: /\ page' = Contigfree(p, off, len) /\ off + len <= PageSize
                                         /\ ~ page[p].cut => off = 0 /\ len = PageSize
      BY <1>9, <2>2
    <3>2. FreedOnce(p)'
      BY <1>7, <3>1, FreesOnce, ViewType
    <3>3. /\ DOMAIN page' = DOMAIN page
          /\ page'[p].cut = page[p].cut /\ page'[p].proxy = page[p].proxy
          /\ \A r \in DOMAIN page: r # p => page'[r] = page[r]
      BY <3>1, Frees1, ViewType
    <3>4. x = 0
      BY <2>2
    <3> QED
      BY <3>2, <3>3, <3>4
  <2> QED
    BY <2>1, <2>2
<1>11. \A w \in DOMAIN view: w # v => (Over(w)' <=> Over(w))
  BY <1>1, <1>5, SameOver
<1>12. ViewInv'
  BY <1>5, <1>10 DEF PageInv, ViewInv
<1>13. MbufInv'
  <2>1. ASSUME NEW m \in Mbufs PROVE /\ m.off + view'[m.v].u1 <= PageSize
                                     /\ ~ page'[view'[m.v].page].cut => m.off = 0
    <3>1. PICK w \in DOMAIN view: w = m.v
      BY DEF UseInv, Shown
    <3>2. m.off + view[w].u1 <= PageSize /\ (~ page[view[w].page].cut => m.off = 0) /\ view[w].page \in DOMAIN page
      BY <3>1 DEF PageInv, MbufInv, ViewInv
    <3> QED
      BY <1>5, <1>10, <3>1, <3>2
  <2> QED
    BY <1>1, <2>1 DEF MbufInv
<1>14. DecInv'
  BY <1>1 DEF DecInv, Idle
<1>15. \A r: LiveOf(r)' = LiveOf(r)
  BY <1>5 DEF LiveOf
<1>16. ProxyInv'
  BY <1>10, <1>15 DEF PageInv, ProxyInv
<1>17. \A r \in DOMAIN page: r # p => (Held(r)' <=> Held(r))
  BY <1>1, <1>2, <1>4, <1>15 DEF Held, Idle
<1>18. ~ Held(p)'
  BY <1>1, <1>6, <1>15 DEF Held, Idle
<1>19. HeldInv'
  <2>1. ASSUME NEW r \in DOMAIN page, Held(r)'
        PROVE  page'[r].freed = <<>> /\ \A w \in DOMAIN view: view'[w].page = r /\ ~ view'[w].live => Over(w)'
    <3>1. r # p /\ Held(r)
      BY <1>17, <1>18, <2>1
    <3>2. page[r].freed = <<>> /\ \A w \in DOMAIN view: view[w].page = r /\ ~ view[w].live => Over(w)
      BY <3>1 DEF PageInv, HeldInv
    <3>3. \A w \in DOMAIN view: view'[w].page = r /\ ~ view'[w].live => Over(w)'
      BY <1>4, <1>5, <1>11, <3>1, <3>2
    <3> QED
      BY <1>10, <3>1, <3>2, <3>3
  <2> QED
    BY <1>5, <1>10, <2>1 DEF HeldInv
<1>20. LeftInv'
  <2>1. LeftBy(p, v)'
    <3>1. \A w \in DOMAIN view': view'[w].page = p /\ w # v => Over(w)'
      <4>1. ASSUME NEW w \in DOMAIN view, view[w].page = p, w # v PROVE Over(w)
        <5>1. ~ view[w].live
          BY <1>6, <4>1 DEF LiveOf
        <5> QED
          BY <1>7, <4>1, <5>1
      <4> QED
        BY <1>5, <1>11, <4>1
    <3>2. page'[p].freed = <<>> \/ (view'[v].u0 = 0 /\ FreedOnce(p)')
      BY <1>5, <1>10
    <3> QED
      BY <1>4, <1>5, <3>1, <3>2 DEF LeftBy
  <2>2. ASSUME NEW r \in DOMAIN page, r # p, ~ Held(r)' PROVE \E last \in DOMAIN view': LeftBy(r, last)'
    <3>1. ~ Held(r)
      BY <1>17, <2>2
    <3>2. PICK last \in DOMAIN view: LeftBy(r, last)
      BY <3>1 DEF PageInv, LeftInv
    <3>3. last # v /\ view[last].page = r
      BY <1>4, <2>2, <3>2 DEF LeftBy
    <3>4. FreedOnce(r)' <=> FreedOnce(r)
      BY <1>10, <2>2 DEF FreedOnce
    <3>5. \A w \in DOMAIN view': view'[w].page = r /\ w # last => Over(w)'
      BY <1>4, <1>5, <1>11, <2>2, <3>2 DEF LeftBy
    <3>6. LeftBy(r, last)'
      BY <1>5, <1>10, <2>2, <3>2, <3>3, <3>4, <3>5 DEF LeftBy
    <3> QED
      BY <1>5, <3>6
  <2>3. v \in DOMAIN view'
    BY <1>5
  <2> QED
    BY <1>10, <2>1, <2>2, <2>3 DEF LeftInv
<1> QED
  BY <1>12, <1>13, <1>14, <1>16, <1>19, <1>20 DEF PageInv

\* netif_mbuf_free: only the last mbuf of the view that died last brings a count to
\* zero; of every other dead view the count stays above its uses.
LEMMA MbufFreePages ==
  ASSUME TypeInv, UseInv, PageInv, NEW m \in flight, MbufFree(m)
  PROVE  PageInv'
<1>1. PICK v \in DOMAIN view: v = m.v
  BY MbufFreeEffect
<1>2. PICK p \in DOMAIN page: p = view[v].page
  BY DEF PageInv, ViewInv
<1>3. /\ m \in Mbufs /\ m \in MbufT /\ Mbufs' = Mbufs \ {m} /\ main' = main
      /\ view[v].u0 \in Nat /\ view[v].u0 >= 1 /\ view[v].u0 - 1 \in Nat
      /\ view' = [view EXCEPT ![v].u0 = view[v].u0 - 1]
  BY <1>1, MbufFreeEffect
<1>4. PICK x \in Nat: x = view[v].u0 - 1
  BY <1>3
<1>5. /\ DOMAIN view' = DOMAIN view
      /\ view'[v].u0 = x
      /\ \A w \in DOMAIN view: w # v => view'[w] = view[w]
      /\ \A w \in DOMAIN view: /\ view'[w].page = view[w].page /\ view'[w].off = view[w].off
                               /\ view'[w].len = view[w].len /\ view'[w].u1 = view[w].u1
                               /\ view'[w].live = view[w].live
  BY <1>3, <1>4, SetU0, ViewType
<1>6. Uses(v)' \in Nat /\ Uses(v) \in Nat /\ Uses(v)' + 1 <= Uses(v) /\ Uses(v) >= 1
  <2>1. Uses(v)' \in Nat /\ Uses(v) \in Nat /\ Uses(v)' + 1 <= Uses(v)
    BY <1>1, MbufFreeCount
  <2> QED
    BY <2>1
<1>7. Over(v) => x >= 1 /\ Over(v)'
  <2>1. ASSUME Over(v) PROVE x >= 1 /\ x >= Uses(v)' + 1
    <3>1. view[v].u0 >= Uses(v) + 1
      BY <2>1 DEF Over
    <3> QED
      BY <1>3, <1>4, <1>6, <3>1
  <2> QED
    BY <1>5, <2>1 DEF Over
<1>8. ASSUME NEW w \in DOMAIN view, w # v, Over(w) PROVE Over(w)'
  <2>1. view'[w] = view[w] /\ view[w] \in ViewT
    BY <1>5, <1>8, ViewType
  <2>2. view'[w].u0 \in Nat /\ view'[w].u0 >= view[w].u0 /\ view'[w].live = view[w].live
    BY <2>1 DEF ViewT
  <2>3. \A k \in Mbufs': k.v = w => k \in Mbufs
    BY <1>3
  <2> QED
    BY <1>8, <2>2, <2>3, StillOver
<1>9. view[v].live => x >= 1
  <2>1. SUFFICES ASSUME view[v].live PROVE x >= 1
    OBVIOUS
  <2>2. PICK c \in Nat: c = Cardinality(MbufsOf(v)) /\ c >= 1
    BY <1>1, <1>3, UsesType
  <2>3. Uses(v) = 1 + c
    BY <2>1, <2>2, UsesNow
  <2>4. view[v].u0 >= Uses(v)
    BY DEF UseInv, CountCoversUses
  <2> QED
    BY <1>3, <1>4, <2>2, <2>3, <2>4
<1>10. IF x > 0 THEN page' = page ELSE page' = Contigfree(p, m.off, view[v].u1)
  <2>1. view[v].u0 = 1 <=> ~ (x > 0)
    BY <1>3, <1>4
  <2> QED
    BY <1>1, <1>2, <2>1 DEF MbufFree
<1>11. \A r: LiveOf(r)' = LiveOf(r)
  BY <1>5 DEF LiveOf
<1>12. \A r: Held(r)' <=> Held(r)
  <2>1. main.at = "dec" => view'[main'.v].page = view[main.v].page
    BY <1>3, <1>5 DEF UseInv, Releasing
  <2> QED
    BY <1>3, <1>11, <2>1 DEF Held
<1>13. Held(p) => x > 0
  <2>1. SUFFICES ASSUME Held(p) PROVE x > 0
    OBVIOUS
  <2>2. CASE view[v].live
    BY <1>9, <2>2
  <2>3. CASE ~ view[v].live
    <3>1. Over(v)
      BY <1>2, <2>1, <2>3 DEF PageInv, HeldInv
    <3> QED
      BY <1>7, <3>1
  <2> QED
    BY <2>2, <2>3
<1>14. /\ m.off \in Nat /\ view[v].u1 \in Nat /\ m.off + view[v].u1 <= PageSize
       /\ ~ page[p].cut => m.off = 0 /\ view[v].u1 = PageSize
  <2>1. view[v] \in ViewT
    BY ViewType
  <2>2. m.off + view[v].u1 <= PageSize /\ (~ page[p].cut => m.off = 0)
    BY <1>1, <1>2, <1>3 DEF PageInv, MbufInv
  <2>3. ~ page[p].cut => view[v].u1 = PageSize
    BY <1>2 DEF PageInv, ViewInv
  <2> QED
    BY <1>3, <2>1, <2>2, <2>3 DEF ViewT, MbufT
<1>15. /\ DOMAIN page' = DOMAIN page
       /\ \A r \in DOMAIN page: page'[r].cut = page[r].cut /\ page'[r].proxy = page[r].proxy
       /\ \A r \in DOMAIN page: r # p => page'[r] = page[r]
       /\ x > 0 => page' = page
       /\ page[p].freed = <<>> => page'[p].freed = <<>> \/ (x = 0 /\ FreedOnce(p)')
  <2>1. CASE x > 0
    BY <1>10, <2>1
  <2>2. CASE ~ (x > 0)
    <3>1. page' = Contigfree(p, m.off, view[v].u1)
      BY <1>10, <2>2
    <3>2. page[p].freed = <<>> => FreedOnce(p)'
      BY <1>14, <3>1, FreesOnce, ViewType
    <3>3. /\ DOMAIN page' = DOMAIN page
          /\ page'[p].cut = page[p].cut /\ page'[p].proxy = page[p].proxy
          /\ \A r \in DOMAIN page: r # p => page'[r] = page[r]
      BY <1>14, <3>1, Frees1, ViewType
    <3>4. x = 0
      BY <2>2
    <3> QED
      BY <2>2, <3>2, <3>3, <3>4
  <2> QED
    BY <2>1, <2>2
<1>16. ViewInv'
  BY <1>5, <1>15 DEF PageInv, ViewInv
<1>17. MbufInv'
  <2>1. ASSUME NEW k \in Mbufs PROVE /\ k.off + view'[k.v].u1 <= PageSize
                                     /\ ~ page'[view'[k.v].page].cut => k.off = 0
    <3>1. PICK w \in DOMAIN view: w = k.v
      BY DEF UseInv, Shown
    <3>2. k.off + view[w].u1 <= PageSize /\ (~ page[view[w].page].cut => k.off = 0) /\ view[w].page \in DOMAIN page
      BY <3>1 DEF PageInv, MbufInv, ViewInv
    <3> QED
      BY <1>5, <1>15, <3>1, <3>2
  <2> QED
    BY <1>3, <2>1 DEF MbufInv
<1>18. DecInv'
  <2>1. SUFFICES ASSUME main.at = "dec" PROVE DecInv'
    BY <1>3 DEF DecInv
  <2>2. PICK r: r = view[main.v].page /\ r = view'[main'.v].page
    BY <1>3, <1>5, <2>1 DEF UseInv, Releasing
  <2>3. LiveOf(r)' = {}
    BY <1>11, <2>1, <2>2 DEF PageInv, DecInv
  <2> QED
    BY <2>2, <2>3 DEF DecInv, LiveOf
<1>19. ProxyInv'
  BY <1>11, <1>15 DEF PageInv, ProxyInv
<1>20. \A w \in DOMAIN view: Over(w) => Over(w)'
  BY <1>7, <1>8
<1>21. HeldInv'
  <2>1. ASSUME NEW r \in DOMAIN page, Held(r)
        PROVE  page'[r].freed = <<>> /\ \A w \in DOMAIN view: view'[w].page = r /\ ~ view'[w].live => Over(w)'
    <3>1. page'[r] = page[r]
      BY <1>13, <1>15, <2>1
    <3> QED
      BY <1>5, <1>20, <2>1, <3>1 DEF PageInv, HeldInv
  <2> QED
    BY <1>5, <1>12, <1>15, <2>1 DEF HeldInv
<1>22. LeftInv'
  <2>1. ASSUME NEW r \in DOMAIN page, ~ Held(r) PROVE \E last \in DOMAIN view': LeftBy(r, last)'
    <3>1. PICK last \in DOMAIN view: LeftBy(r, last)
      BY <2>1 DEF PageInv, LeftInv
    <3>2. \A w \in DOMAIN view': view'[w].page = r /\ w # last => Over(w)'
      BY <1>5, <1>20, <3>1 DEF LeftBy
    <3>3. view'[last].page = r /\ last \in DOMAIN view'
      BY <1>5, <3>1 DEF LeftBy
    <3>4. page'[r].freed = <<>> \/ (view'[last].u0 = 0 /\ FreedOnce(r)')
      <4>1. CASE last # v
        <5>1. r = p => Over(v)
          BY <1>2, <3>1, <4>1 DEF LeftBy
        <5>2. page'[r] = page[r]
          BY <1>7, <1>15, <5>1
        <5>3. FreedOnce(r)' <=> FreedOnce(r)
          BY <5>2 DEF FreedOnce
        <5>4. view'[last] = view[last]
          BY <1>5, <4>1
        <5> QED
          BY <3>1, <5>2, <5>3, <5>4 DEF LeftBy
      <4>2. CASE last = v
        <5>1. r = p
          BY <1>2, <3>1, <4>2 DEF LeftBy
        <5>2. page[p].freed = <<>>
          BY <1>3, <3>1, <4>2, <5>1 DEF LeftBy
        <5> QED
          BY <1>5, <1>15, <4>2, <5>1, <5>2
      <4> QED
        BY <4>1, <4>2
    <3>5. LeftBy(r, last)'
      BY <3>2, <3>3, <3>4 DEF LeftBy
    <3> QED
      BY <3>3, <3>5
  <2> QED
    BY <1>12, <1>15, <2>1 DEF LeftInv
<1> QED
  BY <1>16, <1>17, <1>18, <1>19, <1>21, <1>22 DEF PageInv

-----------------------------------------------------------------------------
(* The driver *)

\* A change of some frames.
LEMMA SetFrames ==
  ASSUME frame \in Seq(FrameT), NEW g, DOMAIN g = DOMAIN frame, g = [f \in DOMAIN frame |-> g[f]],
         \A f \in DOMAIN frame: g[f] \in FrameT
  PROVE  g \in Seq(FrameT) /\ Len(g) = Len(frame)
<1>1. PICK n \in Nat: n = Len(frame)
  OBVIOUS
<1>2. DOMAIN frame = 1..n
  BY <1>1
<1>3. g \in [1..n -> FrameT]
  BY <1>2
<1>4. g \in Seq(FrameT)
  BY <1>3, SeqDef
<1> QED
  BY <1>1, <1>2, <1>4

\* A frame that is moved.
LEMMA FrameAt ==
  ASSUME frame \in Seq(FrameT), NEW f \in DOMAIN frame, NEW a \in Places
  PROVE  [frame[f] EXCEPT !.at = a] \in FrameT /\ frame[f] \in FrameT
<1>1. frame[f] \in FrameT
  OBVIOUS
<1> QED
  BY <1>1 DEF FrameT

\* The driver in a step of the memory.
LEMMA DriverSame ==
  ASSUME TypeInv, DriverInv, driver' = driver, calls' = calls \/ Calls
  PROVE  DriverInv'
<1>1. pip' = pip /\ frame' = frame
  BY DEF driver
<1>2. calls \in Nat /\ Len(frame) \in Nat /\ \A i \in Ifaces: pip[i].times \in Nat
  BY DEF TypeInv, DriverInv
<1>3. calls' \in Nat /\ calls <= calls' /\ calls' + Len(frame) <= MaxEvents
  BY <1>2, Sizes DEF Calls, DriverInv
<1>4. \A i \in Ifaces: pip[i].times <= calls'
  BY <1>2, <1>3 DEF DriverInv
<1> QED
  BY <1>1, <1>3, <1>4 DEF DriverInv

\* caml_plug_vif.
LEMMA PlugDriver ==
  ASSUME TypeInv, DriverInv, NEW i \in Ifaces, Plug(i)
  PROVE  DriverInv'
<1>1. /\ pip' = [pip EXCEPT ![i] = [times |-> pip[i].times + 1, plugged |-> TRUE]]
      /\ frame' = frame /\ calls' = calls + 1 /\ calls + Len(frame) < MaxEvents
  BY DEF Plug, Calls
<1>2. calls \in Nat /\ Len(frame) \in Nat /\ \A j \in Ifaces: pip[j].times \in Nat /\ pip[j].times <= calls
  BY DEF TypeInv, DriverInv
<1>3. [times |-> pip[i].times + 1, plugged |-> TRUE] \in [times: Nat, plugged: BOOLEAN]
  BY <1>2
<1>4. pip' \in [Ifaces -> [times: Nat, plugged: BOOLEAN]]
  BY <1>1, <1>3 DEF DriverInv
<1>5. ASSUME NEW j \in Ifaces PROVE pip'[j].times <= calls'
  <2>1. CASE j = i
    <3>1. pip'[i].times = pip[i].times + 1
      BY <1>1 DEF DriverInv
    <3> QED
      BY <1>1, <1>2, <2>1, <3>1
  <2>2. CASE j # i
    <3>1. pip'[j] = pip[j]
      BY <1>1, <2>2 DEF DriverInv
    <3> QED
      BY <1>1, <1>2, <3>1
  <2> QED
    BY <2>1, <2>2
<1>6. calls' + Len(frame') <= MaxEvents
  BY <1>1, <1>2, Sizes
<1> QED
  BY <1>1, <1>4, <1>5, <1>6 DEF DriverInv

\* caml_unplug_vif.
LEMMA UnplugDriver ==
  ASSUME TypeInv, DriverInv, NEW i \in Ifaces, Unplug(i)
  PROVE  DriverInv'
<1>1. /\ pip' = [pip EXCEPT ![i].plugged = FALSE]
      /\ frame' = Frees(ToSet(rx[i])) /\ calls' = calls + 1 /\ calls + Len(frame) < MaxEvents
  BY DEF Unplug, Calls
<1>2. calls \in Nat /\ Len(frame) \in Nat /\ \A j \in Ifaces: pip[j].times \in Nat /\ pip[j].times <= calls
  BY DEF TypeInv, DriverInv
<1>3. pip' \in [Ifaces -> [times: Nat, plugged: BOOLEAN]] /\ \A j \in Ifaces: pip'[j].times = pip[j].times
  BY <1>1 DEF DriverInv
<1>4. frame' \in Seq(FrameT) /\ Len(frame') = Len(frame)
  <2>1. frame \in Seq(FrameT) /\ "freed" \in Places
    BY DEF DriverInv, Places
  <2>2. frame' = [f \in DOMAIN frame |-> IF f \in ToSet(rx[i]) THEN [frame[f] EXCEPT !.at = "freed"] ELSE frame[f]]
    BY <1>1 DEF Frees
  <2>3. PICK g: g = frame'
    OBVIOUS
  <2>4. DOMAIN g = DOMAIN frame /\ g = [f \in DOMAIN frame |-> g[f]]
    BY <2>2, <2>3
  <2>5. \A f \in DOMAIN frame: g[f] = [frame[f] EXCEPT !.at = "freed"] \/ g[f] = frame[f]
    BY <2>2, <2>3
  <2>6. \A f \in DOMAIN frame: g[f] \in FrameT
    BY <2>1, <2>5, FrameAt
  <2> QED
    BY <2>1, <2>3, <2>4, <2>6, SetFrames
<1>5. calls' + Len(frame') <= MaxEvents /\ \A j \in Ifaces: pip'[j].times <= calls'
  BY <1>1, <1>2, <1>3, <1>4, Sizes
<1> QED
  BY <1>3, <1>4, <1>5 DEF DriverInv

\* caml_get_mbufs.
LEMMA GetMbufsDriver ==
  ASSUME TypeInv, DriverInv, NEW i \in Ifaces, GetMbufs(i)
  PROVE  DriverInv'
<1>1. /\ pip' = pip /\ calls' = calls + 1 /\ calls + Len(frame) < MaxEvents
      /\ frame' = [f \in DOMAIN frame |->
                     IF f \in ToSet(rx[i]) THEN [frame[f] EXCEPT !.at = "program"] ELSE frame[f]]
  BY DEF GetMbufs, Calls
<1>2. calls \in Nat /\ Len(frame) \in Nat /\ \A j \in Ifaces: pip[j].times \in Nat /\ pip[j].times <= calls
  BY DEF TypeInv, DriverInv
<1>3. frame' \in Seq(FrameT) /\ Len(frame') = Len(frame)
  <2>1. frame \in Seq(FrameT) /\ "program" \in Places
    BY DEF DriverInv, Places
  <2>2. PICK g: g = frame'
    OBVIOUS
  <2>3. DOMAIN g = DOMAIN frame /\ g = [f \in DOMAIN frame |-> g[f]]
    BY <1>1, <2>2
  <2>4. \A f \in DOMAIN frame: g[f] = [frame[f] EXCEPT !.at = "program"] \/ g[f] = frame[f]
    BY <1>1, <2>2
  <2>5. \A f \in DOMAIN frame: g[f] \in FrameT
    BY <2>1, <2>4, FrameAt
  <2> QED
    BY <2>1, <2>2, <2>3, <2>5, SetFrames
<1>4. calls' + Len(frame') <= MaxEvents /\ \A j \in Ifaces: pip'[j].times <= calls'
  BY <1>1, <1>2, <1>3, Sizes
<1> QED
  BY <1>1, <1>3, <1>4 DEF DriverInv

\* netif_ether_input up to its lock.
LEMMA EtherInputDriver ==
  ASSUME TypeInv, DriverInv, NEW i \in Ifaces, NEW frags \in Nat, EtherInput(i, frags)
  PROVE  DriverInv'
<1>1. PICK a \in {"interrupt", "host"}: /\ pip' = pip /\ calls' = calls /\ calls + Len(frame) < MaxEvents
                                        /\ frame' = Append(frame, [at |-> a, frags |-> frags])
  BY DEF EtherInput
<1>2. [at |-> a, frags |-> frags] \in FrameT
  BY DEF FrameT, Places
<1>3. frame \in Seq(FrameT) /\ calls \in Nat
  BY DEF DriverInv, TypeInv
<1>4. frame' \in Seq(FrameT) /\ Len(frame') = Len(frame) + 1
  BY <1>1, <1>2, <1>3
<1>5. calls' + Len(frame') <= MaxEvents
  BY <1>1, <1>3, <1>4, Sizes
<1> QED
  BY <1>1, <1>4, <1>5 DEF DriverInv

\* The rest of netif_ether_input.
LEMMA EtherQueueDriver ==
  ASSUME TypeInv, DriverInv, NEW i \in Ifaces, EtherQueue(i)
  PROVE  DriverInv'
<1>1. PICK a \in {"queued", "lost"}: /\ pip' = pip /\ calls' = calls
                                     /\ frame' = [frame EXCEPT ![intr[i].f].at = a]
  BY DEF EtherQueue
<1>2. frame' \in Seq(FrameT) /\ Len(frame') = Len(frame)
  <2>1. frame \in Seq(FrameT) /\ a \in Places
    BY DEF DriverInv, Places
  <2>2. PICK g: g = frame'
    OBVIOUS
  <2>3. DOMAIN g = DOMAIN frame /\ g = [f \in DOMAIN frame |-> g[f]]
    BY <1>1, <2>2
  <2>4. \A f \in DOMAIN frame: g[f] = [frame[f] EXCEPT !.at = a] \/ g[f] = frame[f]
    BY <1>1, <2>2
  <2>5. \A f \in DOMAIN frame: g[f] \in FrameT
    BY <2>1, <2>4, FrameAt
  <2> QED
    BY <2>1, <2>2, <2>3, <2>5, SetFrames
<1> QED
  BY <1>1, <1>2 DEF DriverInv

-----------------------------------------------------------------------------
(* How high a count can get *)

\* The ceiling rises by two pages of mbufs with every packet.
LEMMA CeilingNext ==
  ASSUME NEW k \in Nat
  PROVE  /\ Ceiling(k, 0) \in Nat /\ Ceiling(k, 0) >= 1
         /\ Ceiling(k + 1, 0) = Ceiling(k, 0) + 2 * PageSize
         /\ \A n \in Nat: Ceiling(k, n) = Ceiling(k, 0) + n
<1>1. PICK q \in Nat: q = 2 * PageSize
  BY Sizes
<1>2. PICK z \in Nat: z = q * k
  BY <1>1
<1>3. q * (k + 1) = z + q
  BY <1>1, <1>2
<1> QED
  BY <1>1, <1>2, <1>3 DEF Ceiling

\* Before a call and after it, no count is above what the calls so far allow.
LEMMA TopAtRest ==
  ASSUME TypeInv, CountInv, ~ Mapping
  PROVE  /\ Top = Ceiling(calls, 0) /\ Ceiling(calls, 0) \in Nat /\ Ceiling(calls, 0) >= 1
         /\ Ceiling(calls + 1, 0) \in Nat /\ Ceiling(calls + 1, 0) >= Ceiling(calls, 0)
<1>1. calls \in Nat /\ PageSize \in Nat
  BY Sizes DEF TypeInv
<1> QED
  BY <1>1, CeilingNext DEF Top

\* And in the middle of a packet by those that were mapped.
LEMMA TopInACall ==
  ASSUME TypeInv, CountInv, Mapping
  PROVE  /\ calls - 1 \in Nat /\ main.n \in Nat /\ main.left \in Nat
         /\ Top = Ceiling(calls - 1, 0) + main.n
         /\ Ceiling(calls - 1, 0) \in Nat
         /\ Ceiling(calls, 0) = Ceiling(calls - 1, 0) + 2 * PageSize /\ main.n <= 2 * PageSize
<1>1. calls - 1 \in Nat /\ main \in CallT /\ PageSize \in Nat
  BY MainKinds, Sizes DEF CountInv, TypeInv
<1>2. main.n \in Nat /\ main.left \in Nat
  BY <1>1 DEF CallT
<1>3. main.n <= 2 * PageSize
  <2>1. main.n + main.left + (IF Len(main.todo) = 2 THEN PageSize ELSE 0) <= 2 * PageSize
    BY DEF CountInv
  <2>2. CASE Len(main.todo) = 2
    BY <1>1, <1>2, <2>1, <2>2
  <2>3. CASE Len(main.todo) # 2
    BY <1>1, <1>2, <2>1, <2>3
  <2> QED
    BY <2>2, <2>3
<1>4. Top = Ceiling(calls - 1, main.n)
  BY DEF Top
<1>5. (calls - 1) + 1 = calls
  BY <1>1 DEF TypeInv
<1>6. /\ Ceiling(calls - 1, 0) \in Nat
      /\ Ceiling((calls - 1) + 1, 0) = Ceiling(calls - 1, 0) + 2 * PageSize
      /\ Ceiling(calls - 1, main.n) = Ceiling(calls - 1, 0) + main.n
  BY <1>1, <1>2, CeilingNext
<1> QED
  BY <1>1, <1>2, <1>3, <1>4, <1>5, <1>6

\* The counts are numbers.
LEMMA CountType ==
  ASSUME TypeInv, CountInv
  PROVE  \A v \in DOMAIN view: view[v].u0 \in Nat /\ view[v].u0 <= Top
<1>1. \A v \in DOMAIN view: view[v] \in ViewT
  BY ViewType
<1> QED
  BY <1>1 DEF ViewT, CountInv

\* A step of the driver counts nothing.
LEMMA QuietCounts ==
  ASSUME TypeInv, CountInv, memory' = memory, calls' = calls \/ (main = Idle /\ calls' = calls + 1)
  PROVE  CountInv'
<1>1. view' = view /\ main' = main
  BY DEF memory
<1>2. CASE calls' = calls
  <2>1. Top' = Top
    BY <1>1, <1>2 DEF Top, Mapping, Ceiling
  <2> QED
    BY <1>1, <1>2, <2>1 DEF CountInv, Mapping
<1>3. CASE main = Idle /\ calls' = calls + 1
  <2>1. ~ Mapping /\ ~ Mapping'
    BY <1>1, <1>3 DEF Mapping, Idle
  <2>2. Top' = Ceiling(calls + 1, 0)
    BY <1>3, <2>1 DEF Top, Ceiling
  <2>3. Top \in Nat /\ Top' \in Nat /\ Top' >= Top
    BY <2>1, <2>2, TopAtRest
  <2>4. \A v \in DOMAIN view: view[v].u0 <= Top'
    BY <2>3, CountType
  <2>5. main'.at = "idle"
    BY <1>1, <1>3 DEF Idle
  <2> QED
    BY <1>1, <2>1, <2>4, <2>5 DEF CountInv
<1> QED
  BY <1>2, <1>3

\* A call that does not map, and views that it adds or changes.
LEMMA CallCounts ==
  ASSUME TypeInv, CountInv, main = Idle, calls' = calls + 1, main'.at \in {"idle", "dec"}, Len(view') <= MaxViews,
         \A v \in DOMAIN view': view'[v].u0 = 1 \/ (v \in DOMAIN view /\ view'[v].u0 = view[v].u0),
         main'.at = "dec" => \E v \in DOMAIN view: main'.u0 = view[v].u0
  PROVE  CountInv'
<1>1. ~ Mapping /\ ~ Mapping'
  BY DEF Mapping, Idle
<1>2. Top' = Ceiling(calls + 1, 0)
  BY <1>1 DEF Top, Ceiling
<1>3. Top \in Nat /\ Top >= 1 /\ Top' \in Nat /\ Top' >= Top
  BY <1>1, <1>2, TopAtRest
<1>4. \A v \in DOMAIN view: view[v].u0 <= Top'
  BY <1>3, CountType
<1>5. \A v \in DOMAIN view': view'[v].u0 <= Top'
  BY <1>3, <1>4
<1>6. main'.at \in {"inc", "dec"} => main'.u0 <= Top'
  BY <1>4
<1> QED
  BY <1>1, <1>5, <1>6 DEF CountInv

\* Io_page.get.
LEMMA AllocPagesCounts ==
  ASSUME TypeInv, CountInv, AllocPages
  PROVE  CountInv'
<1> DEFINE e == [page |-> Len(page) + 1, off |-> 0, len |-> PageSize, u0 |-> 1, u1 |-> PageSize, live |-> TRUE]
<1>1. /\ main = Idle /\ main' = Idle /\ calls' = calls + 1 /\ Len(view) < MaxViews
      /\ view' = Append(view, e)
  BY DEF AllocPages, Calls
<1>2. e \in ViewT /\ e.u0 = 1
  BY ViewType, Sizes DEF ViewT
<1> HIDE DEF e
<1>3. /\ Len(view') = Len(view) + 1 /\ DOMAIN view' = DOMAIN view \cup {Len(view) + 1}
      /\ view'[Len(view) + 1] = e /\ \A w \in DOMAIN view: view'[w] = view[w]
  BY <1>1, <1>2, ViewType, AddView
<1>4. Len(view') <= MaxViews
  BY <1>1, <1>3, ViewType, Sizes
<1>5. \A v \in DOMAIN view': view'[v].u0 = 1 \/ (v \in DOMAIN view /\ view'[v].u0 = view[v].u0)
  BY <1>2, <1>3
<1> QED
  BY <1>1, <1>4, <1>5, CallCounts DEF Idle

\* Bigarray.Array1.sub.
LEMMA SubCounts ==
  ASSUME TypeInv, CountInv, NEW v \in DOMAIN view, NEW ofs \in Nat, NEW len \in Nat, Sub(v, ofs, len)
  PROVE  CountInv'
<1>1. PICK x \in ViewT: x = view[v]
  BY ViewType
<1>2. PICK e: e = [x EXCEPT !.off = @ + ofs, !.len = len, !.u0 = 1, !.u1 = len]
  OBVIOUS
<1>3. /\ main = Idle /\ main' = Idle /\ calls' = calls + 1 /\ Len(view) < MaxViews
      /\ view' = Append(view, e)
  BY <1>1, <1>2 DEF Sub, Calls
<1>4. e \in ViewT /\ e.u0 = 1
  <2>1. e = [page |-> x.page, off |-> x.off + ofs, len |-> len, u0 |-> 1, u1 |-> len, live |-> x.live]
    BY <1>2 DEF ViewT
  <2> QED
    BY <2>1 DEF ViewT
<1>5. /\ Len(view') = Len(view) + 1 /\ DOMAIN view' = DOMAIN view \cup {Len(view) + 1}
      /\ view'[Len(view) + 1] = e /\ \A w \in DOMAIN view: view'[w] = view[w]
  BY <1>3, <1>4, ViewType, AddView
<1>6. Len(view') <= MaxViews
  BY <1>3, <1>5, ViewType, Sizes
<1>7. \A w \in DOMAIN view': view'[w].u0 = 1 \/ (w \in DOMAIN view /\ view'[w].u0 = view[w].u0)
  BY <1>4, <1>5
<1> QED
  BY <1>3, <1>6, <1>7, CallCounts DEF Idle

\* caml_ba_finalize up to its read.
LEMMA FinalizeCounts ==
  ASSUME TypeInv, PageInv, CountInv, NEW v \in DOMAIN view, Finalize(v)
  PROVE  CountInv'
<1>1. view[v].page \in DOMAIN page
  BY DEF PageInv, ViewInv
<1>2. /\ main = Idle /\ calls' = calls + 1 /\ Len(view') = Len(view) /\ DOMAIN view' = DOMAIN view
      /\ \A w \in DOMAIN view: view'[w].u0 = view[w].u0
  BY <1>1, FinalizeEffect
<1>3. main' = Idle \/ main' = [at |-> "dec", v |-> v, u0 |-> view[v].u0]
  BY DEF Finalize
<1>4. main'.at \in {"idle", "dec"} /\ (main'.at = "dec" => main'.u0 = view[v].u0)
  BY <1>3 DEF Idle
<1>5. Len(view') <= MaxViews
  BY <1>2 DEF CountInv
<1> QED
  BY <1>2, <1>4, <1>5, CallCounts

\* caml_bigarray_shift_left.
LEMMA ShiftLeftCounts ==
  ASSUME TypeInv, CountInv, NEW v \in DOMAIN view, NEW n \in Nat, ShiftLeft(v, n)
  PROVE  CountInv'
<1>1. PICK x \in ViewT: x = view[v]
  BY ViewType
<1>2. PICK e: e = [[x EXCEPT !.off = @ - n] EXCEPT !.len = @ + n]
  OBVIOUS
<1>3. /\ n <= x.off /\ main = Idle /\ main' = main /\ calls' = calls + 1
      /\ view' = [view EXCEPT ![v] = e]
  BY <1>1, <1>2 DEF ShiftLeft, Calls
<1>4. e \in ViewT /\ e.u0 = x.u0
  <2>1. PICK y: y = [x EXCEPT !.off = @ - n]
    OBVIOUS
  <2>2. y = [page |-> x.page, off |-> x.off - n, len |-> x.len, u0 |-> x.u0, u1 |-> x.u1, live |-> x.live]
    BY <2>1 DEF ViewT
  <2>3. e = [y EXCEPT !.len = y.len + n]
    BY <1>2, <2>1
  <2>4. e = [page |-> x.page, off |-> x.off - n, len |-> x.len + n, u0 |-> x.u0, u1 |-> x.u1, live |-> x.live]
    BY <2>2, <2>3
  <2>5. x.off - n \in Nat /\ x.len + n \in Nat
    BY <1>3 DEF ViewT
  <2> QED
    BY <2>4, <2>5 DEF ViewT
<1>5. /\ Len(view') = Len(view) /\ DOMAIN view' = DOMAIN view
      /\ \A w \in DOMAIN view: view'[w].u0 = view[w].u0
  BY <1>1, <1>3, <1>4, ViewType, SetView
<1>6. Len(view') <= MaxViews
  BY <1>5 DEF CountInv
<1> QED
  BY <1>3, <1>5, <1>6, CallCounts DEF Idle

\* The finalizer, and the interface, write a count that is one less.
LEMMA FinalizeWriteCounts ==
  ASSUME TypeInv, UseInv, CountInv, FinalizeWrite
  PROVE  CountInv'
<1>1. /\ main.v \in DOMAIN view /\ main.u0 \in Nat /\ main.u0 - 1 \in Nat /\ main.at = "dec"
      /\ view' = [view EXCEPT ![main.v].u0 = main.u0 - 1]
      /\ main' = Idle /\ calls' = calls
  BY FinalizeWriteEffect DEF FinalizeWrite
<1>2. PICK v \in DOMAIN view, x \in Nat: v = main.v /\ x = main.u0 - 1
  BY <1>1
<1>3. /\ Len(view') = Len(view) /\ DOMAIN view' = DOMAIN view
      /\ view'[v].u0 = x
      /\ \A w \in DOMAIN view: w # v => view'[w] = view[w]
  BY <1>1, <1>2, SetU0, ViewType
<1>4. ~ Mapping /\ ~ Mapping'
  BY <1>1 DEF Mapping, Idle
<1>5. Top' = Top /\ Top \in Nat
  BY <1>1, <1>4, TopAtRest DEF Top, Ceiling
<1>6. x <= Top
  <2>1. main.u0 <= Top
    BY <1>1 DEF CountInv
  <2> QED
    BY <1>1, <1>2, <1>5, <2>1
<1>7. \A w \in DOMAIN view': view'[w].u0 <= Top'
  BY <1>3, <1>5, <1>6 DEF CountInv
<1>8. main'.at = "idle"
  BY <1>1 DEF Idle
<1> QED
  BY <1>3, <1>4, <1>7, <1>8 DEF CountInv

\* caml_put_mbufs: at most two views, of at most a page each.
LEMMA PutMbufsCounts ==
  ASSUME TypeInv, UseInv, PageInv, CountInv, NEW i \in Ifaces, NEW vs \in Seq(DOMAIN view), Len(vs) \in 1..2, PutMbufs(i, vs)
  PROVE  CountInv'
<1>1. /\ main = Idle /\ calls' = calls + 1 /\ view' = view
      /\ main'.at = "map" /\ main'.todo = vs /\ main'.left = view[Head(vs)].u1 /\ main'.n = 0
  BY DEF PutMbufs, Calls
<1>2. ~ Mapping /\ Mapping'
  BY <1>1 DEF Mapping, Idle
<1>3. calls \in Nat /\ calls' - 1 = calls
  BY <1>1 DEF TypeInv
<1>4. Top' = Top
  <2>1. Top = Ceiling(calls, 0)
    BY <1>2, TopAtRest
  <2>2. Top' = Ceiling(calls, 0)
    BY <1>1, <1>2, <1>3 DEF Top, Ceiling
  <2> QED
    BY <2>1, <2>2
<1>5. main'.left \in Nat /\ main'.left <= PageSize /\ PageSize \in Nat
  <2>1. PICK h \in DOMAIN view: h = Head(vs)
    OBVIOUS
  <2>2. view[h] \in ViewT /\ view[h].off + view[h].u1 <= PageSize
    BY ViewType DEF PageInv, ViewInv
  <2> QED
    BY <1>1, <2>1, <2>2, Sizes DEF ViewT
<1>6. main'.n + main'.left + (IF Len(main'.todo) = 2 THEN PageSize ELSE 0) <= 2 * PageSize
  <2>1. CASE Len(vs) = 2
    BY <1>1, <1>5, <2>1
  <2>2. CASE Len(vs) # 2
    BY <1>1, <1>5, <2>2
  <2> QED
    BY <2>1, <2>2
<1>7. Len(main'.todo) <= 2 /\ main'.todo # <<>>
  <2>1. PICK k \in 1..2: k = Len(vs)
    OBVIOUS
  <2>2. Len(vs) <= 2 /\ Len(vs) # 0
    BY <2>1
  <2>3. vs # <<>>
    BY <2>2, EmptySeq
  <2> QED
    BY <1>1, <2>2, <2>3
<1> QED
  BY <1>1, <1>3, <1>4, <1>6, <1>7 DEF CountInv

\* netif_map_to_mbuf up to its read.
LEMMA MapReadCounts ==
  ASSUME TypeInv, UseInv, CountInv, MapRead
  PROVE  CountInv'
<1>1. /\ main.at = "map" /\ main.todo # <<>> /\ Mapping /\ main \in CallT
      /\ view' = view /\ calls' = calls
      /\ main' = [main EXCEPT !.at = "inc", !.u0 = view[Head(main.todo)].u0]
  BY MainKinds DEF MapRead, Mapping
<1>2. /\ main'.at = "inc" /\ main'.todo = main.todo /\ main'.left = main.left /\ main'.n = main.n
      /\ main'.u0 = view[Head(main.todo)].u0
  BY <1>1 DEF CallT
<1>3. Mapping' /\ Top' = Top
  BY <1>1, <1>2 DEF Top, Mapping, Ceiling
<1>4. Head(main.todo) \in DOMAIN view
  <2>1. main.todo \in Seq(Nat) /\ \A k \in DOMAIN main.todo: main.todo[k] \in DOMAIN view
    BY <1>1 DEF UseInv, Sending, CallT
  <2> QED
    BY <1>1, <2>1
<1>5. main'.u0 <= Top
  BY <1>2, <1>4 DEF CountInv
<1> QED
  BY <1>1, <1>2, <1>3, <1>5 DEF CountInv

\* netif_map_to_mbuf adds one to the count, and one mbuf to the packet.
LEMMA MapWriteCounts ==
  ASSUME TypeInv, UseInv, PageInv, CountInv, MapWrite
  PROVE  CountInv'
<1>1. PICK h: h = Head(main.todo)
  OBVIOUS
<1>2. /\ h \in DOMAIN view /\ main.todo # <<>>
      /\ main \in CallT /\ main.at = "inc" /\ Mapping
      /\ view' = [view EXCEPT ![h].u0 = main.u0 + 1]
      /\ calls' = calls
      /\ main' \in CallT /\ main'.at = "map" /\ main'.n = main.n + 1
      /\ main.left \in 1..view[h].u1
  BY <1>1, MapWriteEffect
<1>3. \/ main'.todo = main.todo /\ main'.left > 0 /\ main'.left < main.left
      \/ /\ main'.todo = Tail(main.todo)
         /\ main'.left = IF Tail(main.todo) = <<>> THEN 0 ELSE view[Head(Tail(main.todo))].u1
  BY MapWriteEffect
<1>4. main.u0 \in Nat /\ main.u0 + 1 \in Nat /\ main.n \in Nat /\ main.todo \in Seq(Nat)
      /\ main.left \in Nat /\ main'.left \in Nat
  BY <1>2 DEF CallT
<1>5. /\ Len(view') = Len(view) /\ DOMAIN view' = DOMAIN view
      /\ view'[h].u0 = main.u0 + 1
      /\ \A w \in DOMAIN view: w # h => view'[w] = view[w]
  BY <1>2, <1>4, SetU0, ViewType
<1>6. Mapping'
  BY <1>2 DEF Mapping
<1>7. Top' = Top + 1 /\ Top \in Nat
  <2>1. calls - 1 \in Nat /\ Top = Ceiling(calls - 1, 0) + main.n /\ Ceiling(calls - 1, 0) \in Nat
    BY <1>2, TopInACall
  <2>2. Top' = Ceiling(calls - 1, main.n + 1)
    BY <1>2, <1>6 DEF Top, Ceiling
  <2>3. main.n + 1 \in Nat
    BY <1>4
  <2>4. Ceiling(calls - 1, main.n + 1) = Ceiling(calls - 1, 0) + (main.n + 1)
    BY <2>1, <2>3, CeilingNext
  <2> QED
    BY <1>4, <2>1, <2>2, <2>4
<1>8. \A w \in DOMAIN view': view'[w].u0 <= Top'
  <2>1. main.u0 <= Top
    BY <1>2 DEF CountInv
  <2>2. view'[h].u0 <= Top'
    BY <1>4, <1>5, <1>7, <2>1
  <2>3. ASSUME NEW w \in DOMAIN view, w # h PROVE view'[w].u0 <= Top'
    BY <1>5, <1>7, <2>3, CountType
  <2> QED
    BY <1>5, <2>2, <2>3
<1>9. Len(main.todo) <= 2 /\ main.n + main.left + (IF Len(main.todo) = 2 THEN PageSize ELSE 0) <= 2 * PageSize
      /\ calls >= 1 /\ PageSize \in Nat /\ main.left > 0
  BY <1>2, <1>4, Sizes DEF CountInv
<1>10. /\ Len(main'.todo) <= 2
       /\ main'.todo = <<>> => main'.left = 0
       /\ main'.n + main'.left + (IF Len(main'.todo) = 2 THEN PageSize ELSE 0) <= 2 * PageSize
  <2>1. CASE main'.todo = main.todo /\ main'.left > 0 /\ main'.left < main.left
    <3>1. CASE Len(main.todo) = 2
      BY <1>2, <1>4, <1>9, <2>1, <3>1
    <3>2. CASE Len(main.todo) # 2
      BY <1>2, <1>4, <1>9, <2>1, <3>2
    <3> QED
      BY <3>1, <3>2
  <2>2. CASE Tail(main.todo) = <<>> /\ main'.todo = <<>> /\ main'.left = 0
    <3>1. Len(main.todo) # 2
      <4>1. PICK t \in Seq(Nat): t = main.todo
        BY <1>4
      <4>2. Tail(t) = <<>>
        BY <2>2, <4>1
      <4>3. t # <<>> => Len(Tail(t)) = Len(t) - 1 /\ Len(t) \in Nat
        BY HeadTailProperties
      <4>4. Len(<<>>) = 0
        BY EmptySeq
      <4>5. Len(t) # 2
        <5>1. Len(t) - 1 = 0 /\ Len(t) \in Nat
          <6>1. t # <<>>
            BY <1>2, <4>1
          <6>2. Len(Tail(t)) = Len(t) - 1 /\ Len(t) \in Nat
            BY <4>3, <6>1
          <6>3. Len(Tail(t)) = 0
            BY <4>2, <4>4, Zenon
          <6> QED
            BY <6>2, <6>3
        <5> QED
          BY <5>1
      <4> QED
        BY <4>1, <4>5
    <3> QED
      BY <1>2, <1>4, <1>9, <2>2, <3>1
  <2>3. CASE Tail(main.todo) # <<>> /\ main'.todo = Tail(main.todo) /\ main'.left = view[Head(Tail(main.todo))].u1
    <3>1. Len(main.todo) = 2 /\ Len(main'.todo) = 1
      <4>1. PICK t \in Seq(Nat): t = main.todo
        BY <1>4
      <4>2. t # <<>> /\ Tail(t) # <<>> /\ Len(t) <= 2 /\ main'.todo = Tail(t)
        BY <1>2, <1>9, <2>3, <4>1
      <4>3. Len(Tail(t)) = Len(t) - 1 /\ Tail(t) \in Seq(Nat) /\ Len(t) \in Nat
        BY <4>2, HeadTailProperties
      <4>4. Len(Tail(t)) # 0
        BY <4>2, <4>3, EmptySeq
      <4>5. Len(t) = 2 /\ Len(Tail(t)) = 1
        BY <4>2, <4>3, <4>4
      <4> QED
        BY <4>1, <4>2, <4>5
    <3>2. Head(Tail(main.todo)) = main.todo[2] /\ 2 \in DOMAIN main.todo
      BY <1>4, <3>1
    <3>3. main.todo[2] \in DOMAIN view
      BY <1>2, <3>2 DEF UseInv, Sending
    <3>4. PICK g \in DOMAIN view: g = main.todo[2]
      BY <3>3
    <3>5. view[g] \in ViewT /\ view[g].off + view[g].u1 <= PageSize
      BY ViewType DEF PageInv, ViewInv
    <3>6. main'.left = view[g].u1
      BY <2>3, <3>2, <3>4
    <3>7. main'.left <= PageSize
      BY <1>9, <3>5, <3>6 DEF ViewT
    <3>8. main.n + main.left + PageSize <= 2 * PageSize
      BY <1>9, <3>1
    <3>9. main'.n + main'.left <= 2 * PageSize
      BY <1>2, <1>4, <1>9, <3>7, <3>8
    <3>10. main'.todo # <<>>
      BY <3>1
    <3> QED
      BY <1>2, <1>4, <3>1, <3>9, <3>10
  <2> QED
    BY <1>3, <2>1, <2>2, <2>3
<1> QED
  BY <1>2, <1>5, <1>8, <1>9, <1>10 DEF CountInv

\* The call is over.
LEMMA MapEndCounts ==
  ASSUME TypeInv, CountInv, Mapping, main' = Idle, calls' = calls, Len(view') = Len(view),
         DOMAIN view' = DOMAIN view, \A w \in DOMAIN view: view'[w].u0 \in Nat /\ view'[w].u0 <= view[w].u0
  PROVE  CountInv'
<1>1. ~ Mapping' /\ main'.at = "idle"
  BY DEF Mapping, Idle
<1>2. /\ main.n \in Nat /\ main.n <= 2 * PageSize /\ PageSize \in Nat
      /\ Top = Ceiling(calls - 1, 0) + main.n /\ Ceiling(calls - 1, 0) \in Nat
      /\ Ceiling(calls, 0) = Ceiling(calls - 1, 0) + 2 * PageSize
  BY TopInACall, Sizes
<1>3. Top' = Ceiling(calls, 0)
  BY <1>1 DEF Top, Ceiling
<1>4. Top <= Top' /\ Top \in Nat /\ Top' \in Nat
  BY <1>2, <1>3
<1>5. \A w \in DOMAIN view': view'[w].u0 <= Top'
  BY <1>4, CountType
<1> QED
  BY <1>1, <1>5 DEF CountInv

\* caml_put_mbufs gives up.
LEMMA MapFailsCounts ==
  ASSUME TypeInv, UseInv, CountInv, MapFails
  PROVE  CountInv'
<1>1. PICK h: h = Head(main.todo)
  OBVIOUS
<1>2. /\ h \in DOMAIN view /\ Mapping /\ main' = Idle /\ calls' = calls
      /\ view[h].u0 - Cardinality(main.frag) \in Nat /\ Cardinality(main.frag) \in Nat
      /\ view' = [view EXCEPT ![h].u0 = view[h].u0 - Cardinality(main.frag)]
  BY <1>1, MapFailsEffect
<1>3. PICK x \in Nat: x = view[h].u0 - Cardinality(main.frag)
  BY <1>2
<1>4. /\ Len(view') = Len(view) /\ DOMAIN view' = DOMAIN view
      /\ view'[h].u0 = x
      /\ \A w \in DOMAIN view: w # h => view'[w] = view[w]
  BY <1>2, <1>3, SetU0, ViewType
<1>5. \A w \in DOMAIN view: view[w].u0 \in Nat
  BY CountType
<1>6. x <= view[h].u0
  BY <1>2, <1>3, <1>5
<1>7. \A w \in DOMAIN view: view'[w].u0 \in Nat /\ view'[w].u0 <= view[w].u0
  BY <1>4, <1>5, <1>6
<1> QED
  BY <1>2, <1>4, <1>7, MapEndCounts

\* ether_output_frame.
LEMMA OutputCounts ==
  ASSUME TypeInv, CountInv, Output
  PROVE  CountInv'
<1>1. Mapping /\ main' = Idle /\ calls' = calls /\ view' = view
  BY DEF Output, Mapping
<1>2. \A w \in DOMAIN view: view'[w].u0 \in Nat /\ view'[w].u0 <= view[w].u0
  BY <1>1, CountType
<1> QED
  BY <1>1, <1>2, MapEndCounts

\* netif_mbuf_free only counts down.
LEMMA MbufFreeCounts ==
  ASSUME TypeInv, UseInv, CountInv, NEW m \in flight, MbufFree(m)
  PROVE  CountInv'
<1>1. PICK v \in DOMAIN view: v = m.v
  BY MbufFreeEffect
<1>2. /\ main' = main /\ calls' = calls
      /\ view[v].u0 \in Nat /\ view[v].u0 - 1 \in Nat
      /\ view' = [view EXCEPT ![v].u0 = view[v].u0 - 1]
  BY <1>1, MbufFreeEffect
<1>3. PICK x \in Nat: x = view[v].u0 - 1
  BY <1>2
<1>4. /\ Len(view') = Len(view) /\ DOMAIN view' = DOMAIN view
      /\ view'[v].u0 = x
      /\ \A w \in DOMAIN view: w # v => view'[w] = view[w]
  BY <1>2, <1>3, SetU0, ViewType
<1>5. Top' = Top /\ Top \in Nat
  <2>1. Top' = Top
    BY <1>2 DEF Top, Mapping, Ceiling
  <2>2. CASE Mapping
    BY <2>1, <2>2, TopInACall
  <2>3. CASE ~ Mapping
    BY <2>1, <2>3, TopAtRest
  <2> QED
    BY <2>2, <2>3
<1>6. \A w \in DOMAIN view': view'[w].u0 <= Top'
  <2>1. x <= Top
    BY <1>2, <1>3, <1>5, CountType
  <2> QED
    BY <1>4, <1>5, <2>1 DEF CountInv
<1> QED
  BY <1>2, <1>4, <1>5, <1>6 DEF CountInv, Mapping

-----------------------------------------------------------------------------
(* The steps *)

\* Nothing is plugged, and there is no page.
LEMMA InitIInv ==
  ASSUME Init
  PROVE  IInv
<1>1. /\ main = Idle /\ flight = {} /\ view = <<>> /\ page = <<>> /\ calls = 0 /\ frame = <<>>
      /\ pip = [i \in Ifaces |-> [times |-> 0, plugged |-> FALSE]]
  BY DEF Init
<1>2. Mbufs = {} /\ ~ Mapping /\ main.at = "idle"
  BY <1>1 DEF Mbufs, Mapping, Idle
<1>3. /\ view \in Seq(ViewT) /\ page \in Seq(PageT) /\ frame \in Seq(FrameT)
      /\ DOMAIN view = {} /\ DOMAIN page = {} /\ Len(view) = 0 /\ Len(frame) = 0
  BY <1>1
<1>4. TypeInv
  BY <1>1, <1>2, <1>3, FS_EmptySet DEF TypeInv, MainT
<1>5. UseInv
  BY <1>1, <1>2, <1>3 DEF UseInv, CountCoversUses, Shown, Sent, Releasing, Sending, Counting
<1>6. PageInv
  BY <1>1, <1>2, <1>3 DEF PageInv, ViewInv, MbufInv, DecInv, ProxyInv, HeldInv, LeftInv
<1>7. DriverInv
  BY <1>1, <1>3, Sizes DEF DriverInv
<1>8. CountInv
  BY <1>2, <1>3, Sizes DEF CountInv
<1> QED
  BY <1>4, <1>5, <1>6, <1>7, <1>8 DEF IInv

\* A step of the driver alone.
LEMMA QuietStep ==
  ASSUME IInv, memory' = memory, DriverInv', calls' = calls \/ (main = Idle /\ calls' = calls + 1)
  PROVE  IInv'
<1>1. TypeInv /\ UseInv /\ PageInv /\ CountInv
  BY DEF IInv
<1>2. calls \in Nat
  BY <1>1 DEF TypeInv
<1>3. calls' \in Nat /\ (calls' = calls \/ (main = Idle /\ calls' >= calls))
  BY <1>2
<1>4. TypeInv' /\ UseInv'
  BY <1>1, <1>3, QuietUses
<1>5. PageInv'
  BY <1>1, QuietPages
<1>6. CountInv'
  BY <1>1, QuietCounts
<1> QED
  BY <1>4, <1>5, <1>6 DEF IInv

\* A step of the memory alone.
LEMMA MemoryStep ==
  ASSUME IInv, TypeInv', UseInv', PageInv', CountInv', driver' = driver, calls' = calls \/ Calls
  PROVE  IInv'
<1>1. DriverInv'
  BY DriverSame DEF IInv
<1> QED
  BY <1>1 DEF IInv

\* Every step keeps the invariant.
LEMMA NextIInv ==
  ASSUME IInv, [Next]_vars
  PROVE  IInv'
<1>0. TypeInv /\ UseInv /\ PageInv /\ DriverInv /\ CountInv /\ ViewInv
  BY DEF IInv, PageInv
<1>1. ASSUME NEW i \in Ifaces, Plug(i) PROVE IInv'
  <2>1. memory' = memory /\ main = Idle /\ calls' = calls + 1
    BY <1>1 DEF Plug, memory, Calls
  <2> QED
    BY <1>0, <1>1, <2>1, PlugDriver, QuietStep
<1>2. ASSUME NEW i \in Ifaces, Unplug(i) PROVE IInv'
  <2>1. memory' = memory /\ main = Idle /\ calls' = calls + 1
    BY <1>2 DEF Unplug, memory, Calls
  <2> QED
    BY <1>0, <1>2, <2>1, UnplugDriver, QuietStep
<1>3. ASSUME NEW i \in Ifaces, GetMbufs(i) PROVE IInv'
  <2>1. memory' = memory /\ main = Idle /\ calls' = calls + 1
    BY <1>3 DEF GetMbufs, memory, Calls
  <2> QED
    BY <1>0, <1>3, <2>1, GetMbufsDriver, QuietStep
<1>4. ASSUME NEW i \in Ifaces, EtherQueue(i) PROVE IInv'
  <2>1. memory' = memory /\ calls' = calls
    BY <1>4 DEF EtherQueue, memory
  <2> QED
    BY <1>0, <1>4, <2>1, EtherQueueDriver, QuietStep
<1>5. ASSUME NEW i \in Ifaces, NEW frags \in 1..2, EtherInput(i, frags) PROVE IInv'
  <2>1. memory' = memory /\ calls' = calls /\ frags \in Nat
    BY <1>5 DEF EtherInput, memory
  <2> QED
    BY <1>0, <1>5, <2>1, EtherInputDriver, QuietStep
<1>6. ASSUME NEW i \in Ifaces, NEW vs \in Seq(DOMAIN view), Len(vs) \in 1..2, vs # <<>>, PutMbufs(i, vs) PROVE IInv'
  <2>1. driver' = driver /\ Calls
    BY <1>6 DEF PutMbufs, driver
  <2>2. TypeInv' /\ UseInv'
    BY <1>0, <1>6, PutMbufsUses
  <2>3. PageInv'
    BY <1>0, <1>6, PutMbufsPages
  <2>4. CountInv'
    BY <1>0, <1>6, PutMbufsCounts
  <2> QED
    BY <2>1, <2>2, <2>3, <2>4, MemoryStep
<1>7. ASSUME AllocPages PROVE IInv'
  <2>1. driver' = driver /\ Calls
    BY <1>7 DEF AllocPages, driver
  <2> QED
    BY <1>0, <1>7, <2>1, AllocPagesUses, AllocPagesPages, AllocPagesCounts, MemoryStep
<1>8. ASSUME NEW v \in DOMAIN view, Finalize(v) PROVE IInv'
  <2>1. driver' = driver /\ Calls
    BY <1>8 DEF Finalize, driver
  <2>2. view[v].page \in DOMAIN page
    BY <1>0 DEF ViewInv
  <2> QED
    BY <1>0, <1>8, <2>1, <2>2, FinalizeUses, FinalizePages, FinalizeCounts, MemoryStep
<1>9. ASSUME NEW v \in DOMAIN view, NEW ofs \in Nat, NEW len \in Nat, Sub(v, ofs, len) PROVE IInv'
  <2>1. driver' = driver /\ Calls
    BY <1>9 DEF Sub, driver
  <2>2. view[v].page \in DOMAIN page
    BY <1>0 DEF ViewInv
  <2>3. TypeInv' /\ UseInv'
    BY <1>0, <1>9, <2>2, SubUses
  <2>4. PageInv'
    BY <1>0, <1>9, SubPages
  <2>5. CountInv'
    BY <1>0, <1>9, SubCounts
  <2> QED
    BY <2>1, <2>3, <2>4, <2>5, MemoryStep
<1>10. ASSUME NEW v \in DOMAIN view, NEW n \in Nat, ShiftLeft(v, n) PROVE IInv'
  <2>1. driver' = driver /\ Calls
    BY <1>10 DEF ShiftLeft, driver
  <2> QED
    BY <1>0, <1>10, <2>1, ShiftLeftUses, ShiftLeftPages, ShiftLeftCounts, MemoryStep
<1>11. ASSUME FinalizeWrite PROVE IInv'
  <2>1. driver' = driver /\ calls' = calls
    BY <1>11 DEF FinalizeWrite, driver
  <2> QED
    BY <1>0, <1>11, <2>1, FinalizeWriteUses, FinalizeWritePages, FinalizeWriteCounts, MemoryStep
<1>12. ASSUME MapRead PROVE IInv'
  <2>1. driver' = driver /\ calls' = calls
    BY <1>12 DEF MapRead, driver
  <2> QED
    BY <1>0, <1>12, <2>1, MapReadUses, MapReadPages, MapReadCounts, MemoryStep
<1>13. ASSUME MapWrite PROVE IInv'
  <2>1. driver' = driver /\ calls' = calls
    BY <1>13 DEF MapWrite, driver
  <2> QED
    BY <1>0, <1>13, <2>1, MapWriteUses, MapWritePages, MapWriteCounts, MemoryStep
<1>14. ASSUME MapFails PROVE IInv'
  <2>1. driver' = driver /\ calls' = calls
    BY <1>14 DEF MapFails, driver
  <2> QED
    BY <1>0, <1>14, <2>1, MapFailsUses, MapFailsPages, MapFailsCounts, MemoryStep
<1>15. ASSUME Output PROVE IInv'
  <2>1. driver' = driver /\ calls' = calls
    BY <1>15 DEF Output, driver
  <2> QED
    BY <1>0, <1>15, <2>1, OutputUses, OutputPages, OutputCounts, MemoryStep
<1>16. ASSUME NEW m \in flight, MbufFree(m) PROVE IInv'
  <2>1. driver' = driver /\ calls' = calls
    BY <1>16 DEF MbufFree, driver
  <2> QED
    BY <1>0, <1>16, <2>1, MbufFreeUses, MbufFreePages, MbufFreeCounts, MemoryStep
<1>17. CASE UNCHANGED vars
  <2>1. memory' = memory /\ driver' = driver /\ calls' = calls
    BY <1>17 DEF vars, memory, driver
  <2> QED
    BY <1>0, <2>1, DriverSame, QuietStep
<1>18. ASSUME NEW i \in Ifaces, NEW v \in DOMAIN view, PutMbufs(i, <<v>>) PROVE IInv'
  <2>1. <<v>> \in Seq(DOMAIN view) /\ Len(<<v>>) \in 1..2 /\ <<v>> # <<>>
    OBVIOUS
  <2> QED
    BY <1>6, <1>18, <2>1
<1>19. ASSUME NEW i \in Ifaces, NEW v \in DOMAIN view, NEW w \in DOMAIN view, PutMbufs(i, <<v, w>>) PROVE IInv'
  <2>1. <<v, w>> \in Seq(DOMAIN view) /\ Len(<<v, w>>) \in 1..2 /\ <<v, w>> # <<>>
    OBVIOUS
  <2> QED
    BY <1>6, <1>19, <2>1
<1>20. \A n \in 0..PageSize: n \in Nat
  OBVIOUS
<1>21. \A n \in 1..PageSize: n \in Nat
  OBVIOUS
<1> QED
  BY <1>1, <1>2, <1>3, <1>4, <1>5, <1>7, <1>8, <1>9, <1>10, <1>11, <1>12, <1>13, <1>14, <1>15, <1>16, <1>17, <1>18,
     <1>19, <1>20, <1>21 DEF Next

-----------------------------------------------------------------------------
(* What follows *)

\* A product grows with its second factor.
LEMMA Grows ==
  ASSUME NEW a \in Nat, NEW k \in Nat, NEW m \in Nat, k <= m
  PROVE  a * k <= a * m
<1>1. PICK d \in Nat: m = k + d
  <2>1. m - k \in Nat /\ m = k + (m - k)
    OBVIOUS
  <2> QED
    BY <2>1
<1>2. a * m = a * k + a * d /\ a * k \in Nat /\ a * d \in Nat
  BY <1>1
<1> QED
  BY <1>2

\* The types and bounds that the runs check follow from the ceiling: a call for each
\* packet, and no more calls than MaxEvents.
LEMMA IInvTypeOK ==
  ASSUME IInv
  PROVE  TypeOK
<1>1. TypeInv /\ UseInv /\ PageInv /\ DriverInv /\ CountInv
  BY DEF IInv
<1>2. calls \in Nat /\ MaxEvents \in Nat /\ PageSize \in Nat /\ MaxViews \in Nat /\ calls <= MaxEvents
  <2>1. frame \in Seq(FrameT) /\ calls + Len(frame) <= MaxEvents /\ calls \in Nat /\ MaxEvents \in Nat
    BY <1>1, Sizes DEF DriverInv, TypeInv
  <2>2. PICK k \in Nat: k = Len(frame)
    BY <2>1
  <2>3. calls <= MaxEvents
    BY <2>1, <2>2
  <2> QED
    BY <2>1, <2>3, Sizes
<1>3. pip \in [Ifaces -> [times: 0..MaxEvents, plugged: BOOLEAN]]
  <2>1. pip \in [Ifaces -> [times: Nat, plugged: BOOLEAN]] /\ \A i \in Ifaces: pip[i].times <= calls
    BY <1>1 DEF DriverInv
  <2>2. ASSUME NEW i \in Ifaces PROVE pip[i] \in [times: 0..MaxEvents, plugged: BOOLEAN]
    <3>1. pip[i] \in [times: Nat, plugged: BOOLEAN] /\ pip[i].times \in Nat /\ pip[i].times <= calls
      BY <2>1
    <3>2. pip[i].times \in 0..MaxEvents
      BY <1>2, <3>1
    <3> QED
      BY <3>1, <3>2
  <2> QED
    BY <2>1, <2>2
<1>4. \A f \in DOMAIN frame: frame[f].at \in Places
  <2>1. \A f \in DOMAIN frame: frame[f] \in FrameT
    BY <1>1 DEF DriverInv
  <2> QED
    BY <2>1 DEF FrameT
<1>5. \A p \in DOMAIN page: page[p].proxy \in 0..MaxViews
  <2>1. SUFFICES ASSUME NEW p \in DOMAIN page PROVE page[p].proxy \in 0..MaxViews
    OBVIOUS
  <2>2. PICK n \in Nat: n = Len(view) /\ n <= MaxViews
    BY <1>1, ViewType DEF CountInv
  <2>3. IsFiniteSet(1..n) /\ Cardinality(1..n) = n
    BY FS_Interval
  <2>4. LiveOf(p) \subseteq 1..n
    BY <1>1, <2>2, ViewType DEF LiveOf
  <2>5. Cardinality(LiveOf(p)) <= n /\ Cardinality(LiveOf(p)) \in Nat
    BY <2>3, <2>4, FS_Subset, FS_CardinalityType
  <2>6. page[p].proxy = Cardinality(LiveOf(p)) \/ page[p].proxy = 0
    BY <1>1 DEF PageInv, ProxyInv
  <2> QED
    BY <1>2, <2>2, <2>5, <2>6
<1>6. Top \in Nat /\ Top <= 1 + 2 * MaxEvents * PageSize
  <2>1. Top \in Nat /\ Top <= Ceiling(calls, 0) /\ Ceiling(calls, 0) \in Nat
    <3>1. CASE Mapping
      BY <1>1, <1>2, <3>1, TopInACall
    <3>2. CASE ~ Mapping
      BY <1>1, <3>2, TopAtRest
    <3> QED
      BY <3>1, <3>2
  <2>2. PICK q \in Nat: q = 2 * PageSize
    BY <1>2
  <2>3. q * calls <= q * MaxEvents /\ q * calls \in Nat /\ q * MaxEvents \in Nat
    BY <1>2, <2>2, Grows
  <2>4. Ceiling(calls, 0) = 1 + q * calls
    BY <2>2, <2>3 DEF Ceiling
  <2>5. q * MaxEvents = 2 * MaxEvents * PageSize
    BY <1>2, <2>2
  <2> QED
    BY <2>1, <2>3, <2>4, <2>5
<1>7. ASSUME NEW v \in DOMAIN view
      PROVE  /\ view[v].page \in DOMAIN page /\ view[v].u0 \in 0..(1 + 2 * MaxEvents * PageSize)
             /\ view[v].off \in 0..PageSize /\ view[v].off + view[v].len <= PageSize
  <2>1. view[v] \in ViewT
    BY <1>1, ViewType
  <2>2. view[v].off \in Nat /\ view[v].len \in Nat /\ view[v].u0 \in Nat /\ view[v].u0 <= Top
    BY <1>1, <2>1 DEF ViewT, CountInv
  <2>3. view[v].page \in DOMAIN page /\ view[v].off + view[v].len <= PageSize
    BY <1>1 DEF PageInv, ViewInv
  <2>4. view[v].u0 \in 0..(1 + 2 * MaxEvents * PageSize)
    <3>1. PICK b: b = 1 + 2 * MaxEvents * PageSize
      OBVIOUS
    <3>2. b \in Nat
      BY <1>2, <3>1
    <3> QED
      BY <1>6, <2>2, <3>1, <3>2
  <2> QED
    BY <1>2, <2>2, <2>3, <2>4
<1>8. main.at \in {"idle", "dec", "map", "inc"}
  BY <1>1, MainKinds
<1> QED
  BY <1>3, <1>4, <1>5, <1>7, <1>8 DEF TypeOK

\* A page that was given to contigfree is no longer held, and then the view that died
\* last has a count of zero and so no uses.
LEMMA IInvPages ==
  ASSUME IInv
  PROVE  PagesOutliveViews
<1>1. TypeInv /\ UseInv /\ PageInv
  BY DEF IInv
<1>2. ASSUME NEW p \in DOMAIN page, page[p].freed # <<>>
      PROVE  LET x == Head(page[p].freed) IN
             /\ Len(page[p].freed) = 1 /\ x.off + x.len <= PageSize
             /\ \A v \in DOMAIN view: view[v].page = p => ~ view[v].live
             /\ ~ page[p].cut => x = [off |-> 0, len |-> PageSize] /\ \A v \in DOMAIN view: view[v].page = p => Uses(v) = 0
  <2>1. ~ Held(p)
    BY <1>1, <1>2 DEF PageInv, HeldInv
  <2>2. PICK last \in DOMAIN view: LeftBy(p, last)
    BY <1>1, <2>1 DEF PageInv, LeftInv
  <2>3. view[last].u0 = 0 /\ FreedOnce(p) /\ view[last].page = p
    BY <1>2, <2>2 DEF LeftBy
  <2>4. Head(page[p].freed) = page[p].freed[1]
    OBVIOUS
  <2>5. \A v \in DOMAIN view: view[v].page = p => ~ view[v].live
    BY <2>1 DEF Held, LiveOf
  <2>6. ASSUME ~ page[p].cut, NEW v \in DOMAIN view, view[v].page = p PROVE Uses(v) = 0
    <3>1. v = last
      BY <1>1, <2>3, <2>6 DEF PageInv, ViewInv
    <3>2. view[v].u0 >= Uses(v) /\ Uses(v) \in Nat
      BY <1>1, UsesType DEF UseInv, CountCoversUses
    <3> QED
      BY <2>3, <3>1, <3>2
  <2> QED
    BY <2>3, <2>4, <2>5, <2>6 DEF FreedOnce
<1>3. TypeOK
  BY IInvTypeOK
<1> QED
  BY <1>2, <1>3 DEF PagesOutliveViews

(***************************************************************************)
(* The invariant holds of every state: types, counts, pages and driver     *)
(* together (netif_stubs.c, caml_ba_finalize, caml_ba_update_proxy).       *)
(***************************************************************************)
THEOREM SpecIInv == Spec => []IInv
<1>1. Init => IInv
  BY InitIInv
<1>2. IInv /\ [Next]_vars => IInv'
  BY NextIInv
<1> QED
  BY <1>1, <1>2, PTL DEF Spec

(***************************************************************************)
(* The count u[0] of a view is never below what it counts, however the     *)
(* program's plain reads and writes of it (netif_map_to_mbuf,              *)
(* caml_ba_finalize) interleave with the interface's netif_mbuf_free: a    *)
(* race can lose a decrement, and then memory, but never an owner.         *)
(***************************************************************************)
THEOREM SpecCountCoversUses == Spec => []CountCoversUses
<1>1. IInv => CountCoversUses
  BY DEF IInv, UseInv
<1> QED
  BY <1>1, SpecIInv, PTL

(***************************************************************************)
(* A page is given to contigfree at most once, after the last of its views *)
(* was finalised, and a page that was never cut as a whole and only after  *)
(* its last mbuf; views stay within their page and counts in their bounds  *)
(* (caml_ba_finalize, caml_ba_update_proxy, netif_mbuf_free,               *)
(* caml_bigarray_shift_left).                                              *)
(***************************************************************************)
THEOREM SpecPagesOutliveViews == Spec => []PagesOutliveViews
<1>1. IInv => PagesOutliveViews
  BY IInvPages
<1> QED
  BY <1>1, SpecIInv, PTL

-----------------------------------------------------------------------------
(* The order of the frames (Netif): lists, and how often a frame is in one *)

Rising(s) == \A j, k \in DOMAIN s: j < k => s[j] <= s[k]
Falling(s) == \A j, k \in DOMAIN s: j < k => s[j] > s[k]
Times(s, f) == Cardinality({k \in DOMAIN s: s[k] = f})

\* Fragments, and the frames they are of.
FragT == [f: Nat, n: Nat]
Origins(g) == [k \in DOMAIN g |-> g[k].f]

\* The elements of a list.
LEMMA InList ==
  ASSUME NEW S, NEW s \in Seq(S)
  PROVE  /\ Len(s) \in Nat /\ DOMAIN s = 1..Len(s) /\ ToSet(s) = {s[k]: k \in 1..Len(s)}
         /\ \A k \in 1..Len(s): s[k] \in S
         /\ s = [k \in 1..Len(s) |-> s[k]]
  BY DEF ToSet

\* A list by its elements.
LEMMA ListOf ==
  ASSUME NEW S, NEW n \in Nat, NEW s \in [1..n -> S]
  PROVE  s \in Seq(S) /\ Len(s) = n
<1>1. s \in Seq(S)
  BY SeqDef
<1> QED
  BY <1>1

\* Two lists, one after the other.
LEMMA Joined ==
  ASSUME NEW S, NEW s \in Seq(S), NEW t \in Seq(S)
  PROVE  /\ s \o t \in Seq(S) /\ Len(s \o t) = Len(s) + Len(t)
         /\ \A k \in 1..Len(s): (s \o t)[k] = s[k]
         /\ \A k \in 1..Len(t): (s \o t)[Len(s) + k] = t[k]
         /\ ToSet(s \o t) = ToSet(s) \cup ToSet(t)
<1>0. Len(s) \in Nat /\ Len(t) \in Nat
  OBVIOUS
<1>1. s \o t \in Seq(S) /\ Len(s \o t) = Len(s) + Len(t)
  OBVIOUS
<1>2. \A k \in 1..Len(s): (s \o t)[k] = s[k]
  BY <1>0, ConcatProperties
<1>3. \A k \in 1..Len(t): (s \o t)[Len(s) + k] = t[k]
  <2> SUFFICES ASSUME NEW k \in 1..Len(t) PROVE (s \o t)[Len(s) + k] = t[k]
    OBVIOUS
  <2>1. Len(s) + k \in 1..Len(s) + Len(t) /\ ~ (Len(s) + k <= Len(s)) /\ Len(s) + k - Len(s) = k
    BY <1>0
  <2> QED
    BY <1>0, <2>1, ConcatProperties
<1>4. \A k \in 1..Len(s) + Len(t): k \in 1..Len(s) \/ \E l \in 1..Len(t): k = Len(s) + l
  <2> SUFFICES ASSUME NEW k \in 1..Len(s) + Len(t), k \notin 1..Len(s) PROVE \E l \in 1..Len(t): k = Len(s) + l
    OBVIOUS
  <2>1. k - Len(s) \in 1..Len(t) /\ k = Len(s) + (k - Len(s))
    BY <1>0
  <2> QED
    BY <2>1
<1>5. \A k \in 1..Len(s): k \in 1..Len(s) + Len(t)
  BY <1>0
<1>6. \A k \in 1..Len(t): Len(s) + k \in 1..Len(s) + Len(t)
  BY <1>0
<1>7. ToSet(s) = {s[k]: k \in 1..Len(s)} /\ ToSet(t) = {t[k]: k \in 1..Len(t)}
      /\ ToSet(s \o t) = {(s \o t)[k]: k \in 1..Len(s) + Len(t)}
  BY <1>1, InList
<1>8. ToSet(s \o t) = ToSet(s) \cup ToSet(t)
  <2>1. ASSUME NEW k \in 1..Len(s) + Len(t) PROVE (s \o t)[k] \in ToSet(s) \cup ToSet(t)
    <3>1. CASE k \in 1..Len(s)
      BY <1>2, <1>7, <3>1
    <3>2. CASE \E l \in 1..Len(t): k = Len(s) + l
      BY <1>3, <1>7, <3>2
    <3> QED
      BY <1>4, <3>1, <3>2
  <2>2. ASSUME NEW k \in 1..Len(s) PROVE s[k] \in ToSet(s \o t)
    BY <1>2, <1>5, <1>7
  <2>3. ASSUME NEW k \in 1..Len(t) PROVE t[k] \in ToSet(s \o t)
    BY <1>3, <1>6, <1>7
  <2> QED
    BY <1>7, <2>1, <2>2, <2>3
<1> QED
  BY <1>1, <1>2, <1>3, <1>8

\* The list backwards.
LEMMA Backwards ==
  ASSUME NEW S, NEW s \in Seq(S)
  PROVE  /\ Reverse(s) \in Seq(S) /\ Len(Reverse(s)) = Len(s) /\ ToSet(Reverse(s)) = ToSet(s)
         /\ \A k \in 1..Len(s): Reverse(s)[k] = s[Len(s) - k + 1] /\ Len(s) - k + 1 \in 1..Len(s)
<1>0. Len(s) \in Nat
  OBVIOUS
<1>1. \A k \in 1..Len(s): Len(s) - k + 1 \in 1..Len(s)
  BY <1>0
<1>2. Reverse(s) = [k \in 1..Len(s) |-> s[Len(s) - k + 1]]
  BY DEF Reverse
<1>3. \A k \in 1..Len(s): s[Len(s) - k + 1] \in S
  BY <1>1, InList
<1>4. Reverse(s) \in [1..Len(s) -> S]
  BY <1>2, <1>3
<1>5. Reverse(s) \in Seq(S) /\ Len(Reverse(s)) = Len(s)
  BY <1>0, <1>4, ListOf
<1>6. \A k \in 1..Len(s): Reverse(s)[k] = s[Len(s) - k + 1]
  BY <1>2
<1>7. \A k \in 1..Len(s): s[k] = Reverse(s)[Len(s) - k + 1]
  <2> SUFFICES ASSUME NEW k \in 1..Len(s) PROVE s[k] = Reverse(s)[Len(s) - k + 1]
    OBVIOUS
  <2>1. Len(s) - (Len(s) - k + 1) + 1 = k
    BY <1>0
  <2> QED
    BY <1>1, <1>6, <2>1
<1>8. ToSet(s) = {s[k]: k \in 1..Len(s)} /\ ToSet(Reverse(s)) = {Reverse(s)[k]: k \in 1..Len(s)}
  BY <1>5, InList
<1>9. ToSet(Reverse(s)) = ToSet(s)
  BY <1>1, <1>6, <1>7, <1>8
<1> QED
  BY <1>1, <1>5, <1>6, <1>9

\* How often: in two lists.
LEMMA TimesJoined ==
  ASSUME NEW S, NEW s \in Seq(S), NEW t \in Seq(S), NEW f
  PROVE  /\ Times(s, f) \in Nat /\ Times(t, f) \in Nat
         /\ Times(s \o t, f) = Times(s, f) + Times(t, f)
<1> DEFINE n == Len(s)
           m == Len(t)
           A == {k \in 1..n: s[k] = f}
           B == {k \in 1..m: t[k] = f}
           C == {k \in n + 1..n + m: (s \o t)[k] = f}
           g == [k \in B |-> n + k]
<1>0. n \in Nat /\ m \in Nat /\ s \o t \in Seq(S) /\ Len(s \o t) = n + m
  OBVIOUS
<1>1. /\ DOMAIN s = 1..n /\ DOMAIN t = 1..m /\ DOMAIN (s \o t) = 1..n + m
  BY <1>0, InList
<1>2. IsFiniteSet(A) /\ IsFiniteSet(B) /\ Cardinality(A) \in Nat /\ Cardinality(B) \in Nat
  <2>1. IsFiniteSet(1..n) /\ IsFiniteSet(1..m)
    BY <1>0, FS_Interval
  <2> QED
    BY <2>1, FS_Subset, FS_CardinalityType
<1>3. /\ \A k \in 1..n: (s \o t)[k] = s[k]
      /\ \A k \in 1..m: (s \o t)[n + k] = t[k]
  BY Joined
<1>4. g \in Bijection(B, C)
  <2>1. \A k \in B: n + k \in C
    BY <1>0, <1>3
  <2>2. \A k, l \in B: n + k = n + l => k = l
    BY <1>0
  <2>3. \A k \in C: k - n \in B /\ n + (k - n) = k
    <3> SUFFICES ASSUME NEW k \in C PROVE k - n \in B /\ n + (k - n) = k
      OBVIOUS
    <3>1. k \in n + 1..n + m /\ k - n \in 1..m /\ n + (k - n) = k
      BY <1>0
    <3> QED
      BY <1>3, <3>1
  <2> HIDE DEF B, C
  <2>4. g \in Injection(B, C)
    BY <2>1, <2>2 DEF Injection, IsInjective
  <2>5. \A k \in C: \E l \in B: g[l] = k
    BY <2>3
  <2> QED
    BY <2>4, <2>5 DEF Bijection, Surjection, Injection
<1>5. IsFiniteSet(C) /\ Cardinality(C) = Cardinality(B)
  BY <1>2, <1>4, FS_Bijection DEF ExistsBijection
<1>6. {k \in 1..n + m: (s \o t)[k] = f} = A \cup C
  <2>1. \A k \in 1..n + m: k \in 1..n \/ k \in n + 1..n + m
    BY <1>0
  <2>2. (\A k \in 1..n: k \in 1..n + m) /\ \A k \in n + 1..n + m: k \in 1..n + m
    BY <1>0
  <2> QED
    BY <1>3, <2>1, <2>2
<1>7. A \cap C = {}
  BY <1>0
<1>8. Cardinality(A \cup C) = Cardinality(A) + Cardinality(C) - 0
  <2> HIDE DEF A, C
  <2> QED
    BY <1>2, <1>5, <1>7, FS_Union, FS_EmptySet
<1>9. Times(s, f) = Cardinality(A) /\ Times(t, f) = Cardinality(B) /\ Times(s \o t, f) = Cardinality(A \cup C)
  BY <1>1, <1>6 DEF Times
<1> HIDE DEF A, B, C
<1> QED
  BY <1>2, <1>5, <1>8, <1>9

\* Not at all.
LEMMA TimesNone ==
  ASSUME NEW S, NEW s \in Seq(S), NEW f, f \notin ToSet(s)
  PROVE  Times(s, f) = 0
<1>1. {k \in DOMAIN s: s[k] = f} = {}
  BY DEF ToSet
<1> QED
  BY <1>1, FS_EmptySet DEF Times

\* Everywhere.
LEMMA TimesAll ==
  ASSUME NEW S, NEW s \in Seq(S), NEW f, \A k \in DOMAIN s: s[k] = f
  PROVE  Times(s, f) = Len(s)
<1>1. DOMAIN s = 1..Len(s) /\ Len(s) \in Nat
  OBVIOUS
<1>2. {k \in DOMAIN s: s[k] = f} = 1..Len(s)
  BY <1>1
<1>3. Cardinality(1..Len(s)) = Len(s)
  <2>1. 1 \in Int /\ Len(s) \in Int /\ Cardinality(1..Len(s)) = IF 1 > Len(s) THEN 0 ELSE Len(s) - 1 + 1
    BY <1>1, FS_Interval
  <2> QED
    BY <1>1, <2>1
<1> QED
  BY <1>2, <1>3 DEF Times

\* Once.
LEMMA TimesOnce ==
  ASSUME NEW s \in Seq(Nat), \A j, k \in DOMAIN s: j < k => s[j] # s[k], NEW f \in ToSet(s)
  PROVE  Times(s, f) = 1
<1>1. PICK j \in DOMAIN s: s[j] = f
  BY DEF ToSet
<1>2. DOMAIN s = 1..Len(s) /\ Len(s) \in Nat
  OBVIOUS
<1>3. \A k \in DOMAIN s: k # j => k < j \/ j < k
  BY <1>2
<1>4. \A k \in DOMAIN s: s[k] = f => k = j
  BY <1>1, <1>3
<1>5. {k \in DOMAIN s: s[k] = f} = {j}
  BY <1>1, <1>4
<1> QED
  BY <1>5, FS_Singleton DEF Times

\* What is in a list is at some place of it.
LEMMA Somewhere ==
  ASSUME NEW s, NEW x \in ToSet(s)
  PROVE  \E k \in DOMAIN s: s[k] = x
BY DEF ToSet

\* One list after another, all of whose elements are larger.
LEMMA Lined ==
  ASSUME NEW s \in Seq(Nat), NEW t \in Seq(Nat), Rising(s), Rising(t),
         \A x \in ToSet(s), y \in ToSet(t): x < y
  PROVE  /\ s \o t \in Seq(Nat) /\ Rising(s \o t) /\ ToSet(s \o t) = ToSet(s) \cup ToSet(t)
         /\ \A f \in ToSet(s): Times(s \o t, f) = Times(s, f)
         /\ \A f \in ToSet(t): Times(s \o t, f) = Times(t, f)
<1> DEFINE n == Len(s)
           m == Len(t)
           u == s \o t
<1>0. n \in Nat /\ m \in Nat
  OBVIOUS
<1>1. /\ u \in Seq(Nat) /\ Len(u) = n + m
      /\ \A k \in 1..n: u[k] = s[k]
      /\ \A k \in 1..m: u[n + k] = t[k]
      /\ ToSet(u) = ToSet(s) \cup ToSet(t)
  BY Joined
<1>2. /\ DOMAIN u = 1..n + m /\ DOMAIN s = 1..n /\ DOMAIN t = 1..m
      /\ \A k \in 1..n: s[k] \in Nat /\ s[k] \in ToSet(s)
      /\ \A k \in 1..m: t[k] \in Nat /\ t[k] \in ToSet(t)
  <2>1. DOMAIN u = 1..n + m
    BY <1>0, <1>1
  <2>2. ToSet(s) = {s[k]: k \in 1..n} /\ ToSet(t) = {t[k]: k \in 1..m}
    BY InList
  <2>3. (\A k \in 1..n: s[k] \in Nat) /\ \A k \in 1..m: t[k] \in Nat
    BY InList
  <2> QED
    BY <2>1, <2>2, <2>3
<1> HIDE DEF n, m, u
<1>3. \A k \in 1..n + m: k \in 1..n \/ (k - n \in 1..m /\ k = n + (k - n) /\ k > n)
  BY <1>0
<1>4. Rising(u)
  <2> SUFFICES ASSUME NEW j \in 1..n + m, NEW k \in 1..n + m, j < k PROVE u[j] <= u[k]
    BY <1>2 DEF Rising
  <2>1. CASE k \in 1..n
    <3>1. j \in 1..n
      BY <1>0, <2>1
    <3>2. s[j] <= s[k]
      BY <1>2, <2>1, <3>1 DEF Rising
    <3> QED
      BY <1>1, <2>1, <3>1, <3>2
  <2>2. CASE k \notin 1..n
    <3>1. k - n \in 1..m /\ u[k] = t[k - n]
      BY <1>1, <1>3, <2>2
    <3>2. CASE j \in 1..n
      <4>1. s[j] < t[k - n]
        BY <1>2, <3>1, <3>2
      <4> QED
        BY <1>1, <1>2, <3>1, <3>2, <4>1
    <3>3. CASE j \notin 1..n
      <4>1. j - n \in 1..m /\ u[j] = t[j - n] /\ j - n < k - n
        BY <1>0, <1>1, <1>3, <3>3
      <4>2. t[j - n] <= t[k - n]
        BY <1>2, <3>1, <4>1 DEF Rising
      <4> QED
        BY <3>1, <4>1, <4>2
    <3> QED
      BY <3>2, <3>3
  <2> QED
    BY <2>1, <2>2
<1>5. \A f \in ToSet(s): f \notin ToSet(t)
  <2>1. \A f \in ToSet(s): f \in Nat
    BY <1>2, Somewhere
  <2> QED
    BY <2>1
<1>6. \A f: Times(s, f) \in Nat /\ Times(t, f) \in Nat /\ Times(u, f) = Times(s, f) + Times(t, f)
  BY TimesJoined DEF u
<1>7. \A f \in ToSet(s): Times(t, f) = 0
  BY <1>5, TimesNone
<1>8. \A f \in ToSet(t): Times(s, f) = 0
  BY <1>5, TimesNone
<1>9. \A f \in ToSet(s): Times(u, f) = Times(s, f)
  BY <1>6, <1>7
<1>10. \A f \in ToSet(t): Times(u, f) = Times(t, f)
  BY <1>6, <1>8
<1> QED
  BY <1>1, <1>4, <1>9, <1>10 DEF u

\* A falling list backwards: rising, each element once.
LEMMA FallingBackwards ==
  ASSUME NEW s \in Seq(Nat), Falling(s)
  PROVE  /\ Reverse(s) \in Seq(Nat) /\ Rising(Reverse(s)) /\ ToSet(Reverse(s)) = ToSet(s)
         /\ \A f \in ToSet(s): Times(Reverse(s), f) = 1
<1> DEFINE n == Len(s)
           r == Reverse(s)
<1>0. n \in Nat /\ DOMAIN s = 1..n /\ \A k \in 1..n: s[k] \in Nat
  OBVIOUS
<1>1. /\ r \in Seq(Nat) /\ Len(r) = n /\ ToSet(r) = ToSet(s)
      /\ \A k \in 1..n: r[k] = s[n - k + 1] /\ n - k + 1 \in 1..n
  BY Backwards
<1>2. DOMAIN r = 1..n
  BY <1>1
<1> HIDE DEF n, r
<1>3. ASSUME NEW j \in 1..n, NEW k \in 1..n, j < k PROVE r[j] < r[k]
  <2>1. n - k + 1 < n - j + 1
    BY <1>0, <1>3
  <2>2. s[n - k + 1] > s[n - j + 1]
    BY <1>0, <1>1, <2>1 DEF Falling
  <2> QED
    BY <1>0, <1>1, <2>2
<1>4. \A j, k \in DOMAIN r: j < k => r[j] # r[k] /\ r[j] <= r[k]
  <2>1. \A k \in 1..n: r[k] \in Nat
    BY <1>0, <1>1
  <2> QED
    BY <1>2, <1>3, <2>1
<1>5. \A f \in ToSet(s): Times(r, f) = 1
  BY <1>1, <1>4, TimesOnce
<1> QED
  BY <1>1, <1>4, <1>5 DEF Rising, r

\* The frames of two lists of fragments.
LEMMA OriginsJoined ==
  ASSUME NEW g \in Seq(FragT), NEW h \in Seq(FragT)
  PROVE  /\ Origins(g) \in Seq(Nat) /\ Origins(h) \in Seq(Nat)
         /\ g \o h \in Seq(FragT) /\ Origins(g \o h) = Origins(g) \o Origins(h)
<1>1. ASSUME NEW l \in Seq(FragT)
      PROVE  /\ Len(l) \in Nat /\ DOMAIN l = 1..Len(l) /\ Origins(l) \in Seq(Nat) /\ Len(Origins(l)) = Len(l)
             /\ \A k \in 1..Len(l): Origins(l)[k] = l[k].f
  <2>1. Len(l) \in Nat /\ DOMAIN l = 1..Len(l)
    OBVIOUS
  <2>2. \A k \in 1..Len(l): l[k].f \in Nat
    <3>1. \A k \in 1..Len(l): l[k] \in FragT
      BY InList
    <3> QED
      BY <3>1 DEF FragT
  <2>3. Origins(l) = [k \in 1..Len(l) |-> l[k].f]
    BY <2>1 DEF Origins
  <2>4. Origins(l) \in [1..Len(l) -> Nat]
    BY <2>2, <2>3
  <2>5. Origins(l) \in Seq(Nat) /\ Len(Origins(l)) = Len(l)
    BY <2>1, <2>4, ListOf
  <2> QED
    BY <2>1, <2>3, <2>5
<1> DEFINE n == Len(g)
           m == Len(h)
           a == Origins(g \o h)
           b == Origins(g) \o Origins(h)
<1>2. /\ g \o h \in Seq(FragT) /\ Len(g \o h) = n + m
      /\ \A k \in 1..n: (g \o h)[k] = g[k]
      /\ \A k \in 1..m: (g \o h)[n + k] = h[k]
  BY Joined
<1>3. a \in Seq(Nat) /\ Len(a) = n + m /\ \A k \in 1..n + m: a[k] = (g \o h)[k].f
  BY <1>1, <1>2
<1>4. /\ b \in Seq(Nat) /\ Len(b) = n + m
      /\ \A k \in 1..n: b[k] = Origins(g)[k]
      /\ \A k \in 1..m: b[n + k] = Origins(h)[k]
  <2>0. PICK c, d: c = Origins(g) /\ d = Origins(h)
    OBVIOUS
  <2>2. c \in Seq(Nat) /\ d \in Seq(Nat) /\ Len(c) = n /\ Len(d) = m
    BY <1>1, <2>0
  <2>3. /\ c \o d \in Seq(Nat) /\ Len(c \o d) = Len(c) + Len(d)
        /\ \A k \in 1..Len(c): (c \o d)[k] = c[k]
        /\ \A k \in 1..Len(d): (c \o d)[Len(c) + k] = d[k]
    <3> HIDE DEF n, m, a, b
    <3>1. c \in Seq(Nat) /\ d \in Seq(Nat)
      BY <2>2
    <3> QED
      BY <3>1, Joined
  <2>4. b = c \o d
    BY <2>0
  <2> HIDE DEF n, m, b
  <2> QED
    BY <2>0, <2>2, <2>3, <2>4
<1>5. n \in Nat /\ m \in Nat
  BY <1>1
<1>6. ASSUME NEW k \in 1..n + m PROVE a[k] = b[k]
  <2>1. CASE k \in 1..n
    BY <1>1, <1>2, <1>3, <1>4, <2>1
  <2>2. CASE k \notin 1..n
    <3>1. k - n \in 1..m /\ n + (k - n) = k
      BY <1>5, <2>2
    <3>2. (g \o h)[k] = h[k - n] /\ b[k] = Origins(h)[k - n]
      BY <1>2, <1>4, <3>1
    <3> QED
      BY <1>1, <1>3, <3>1, <3>2
  <2> QED
    BY <2>1, <2>2
<1>7. a = [k \in 1..n + m |-> a[k]] /\ b = [k \in 1..n + m |-> b[k]]
  <2> HIDE DEF a, b
  <2> QED
    BY <1>3, <1>4, <1>5, InList
<1>8. a = b
  <2> HIDE DEF a, b
  <2> QED
    BY <1>6, <1>7
<1> QED
  BY <1>1, <1>2, <1>8

-----------------------------------------------------------------------------
(* Induction, and the list that caml_get_mbufs makes *)

\* Induction over the naturals, for a set.
LEMMA SetInduction ==
  ASSUME NEW S, 0 \in S, \A n \in Nat : n \in S => n + 1 \in S
  PROVE  \A n \in Nat : n \in S
<1> DEFINE less == {p \in Nat \X Nat : p[1] < p[2]}
           T == Nat \ S
<1> SUFFICES ASSUME T # {} PROVE FALSE
  OBVIOUS
<1>1. IsWellFoundedOn(less, Nat)
  <2>1. less = OpToRel(<, Nat)
    BY DEF OpToRel
  <2> QED
    BY <2>1, NatLessThanWellFounded
<1>2. PICK m \in T : \A k \in T : <<k, m>> \notin less
  BY <1>1, WFMin
<1>3. m \in Nat /\ m # 0 /\ m - 1 \in Nat
  OBVIOUS
<1>4. <<m - 1, m>> \in less
  BY <1>3
<1>5. m - 1 \in S
  BY <1>2, <1>3, <1>4
<1> QED
  BY <1>3, <1>5

\* The fragments of a frame, the last one first, and the list after k frames.
Fragments(f) == [n \in 1..frame[f].frags |-> [f |-> f, n |-> frame[f].frags + 1 - n]]
ConsedNext(s, w, k) == IF k = 0 THEN <<>> ELSE Fragments(s[k]) \o w[k - 1]

\* The lists after each frame exist, for so many frames.
LEMMA ConsedExists ==
  ASSUME NEW s
  PROVE  \A N \in Nat: \E w: w = [k \in 0..N |-> ConsedNext(s, w, k)]
<1> DEFINE S == {N \in Nat: \E w: w = [k \in 0..N |-> ConsedNext(s, w, k)]}
<1>1. 0 \in S
  <2> DEFINE g == [k \in 0..0 |-> <<>>]
  <2>1. g = [k \in 0..0 |-> ConsedNext(s, g, k)]
    BY DEF ConsedNext
  <2> HIDE DEF g
  <2> QED
    BY <2>1
<1>2. \A N \in Nat: N \in S => N + 1 \in S
  <2> SUFFICES ASSUME NEW N \in Nat, N \in S PROVE N + 1 \in S
    OBVIOUS
  <2>1. PICK w: w = [k \in 0..N |-> ConsedNext(s, w, k)]
    OBVIOUS
  <2> DEFINE g == [k \in 0..N + 1 |-> ConsedNext(s, w, k)]
  <2>2. \A k \in 0..N: g[k] = w[k]
    <3> SUFFICES ASSUME NEW k \in 0..N PROVE g[k] = w[k]
      OBVIOUS
    <3>1. w[k] = ConsedNext(s, w, k)
      BY <2>1
    <3> QED
      BY <3>1
  <2>3. \A k \in 0..N + 1: ConsedNext(s, w, k) = ConsedNext(s, g, k)
    <3> SUFFICES ASSUME NEW k \in 0..N + 1 PROVE ConsedNext(s, w, k) = ConsedNext(s, g, k)
      OBVIOUS
    <3>1. k # 0 => w[k - 1] = g[k - 1]
      BY <2>2
    <3> HIDE DEF g
    <3> QED
      BY <3>1 DEF ConsedNext
  <2>4. g = [k \in 0..N + 1 |-> ConsedNext(s, g, k)]
    <3>1. g = [k \in 0..N + 1 |-> ConsedNext(s, w, k)]
      OBVIOUS
    <3> HIDE DEF g
    <3> QED
      BY <2>3, <3>1
  <2> HIDE DEF g
  <2> QED
    BY <2>4
<1> HIDE DEF S
<1>3. \A N \in Nat: N \in S
  BY <1>1, <1>2, SetInduction
<1> QED
  BY <1>3 DEF S

\* The list that caml_get_mbufs makes is the last of them.
LEMMA ConsedWalks ==
  ASSUME NEW s, Len(s) \in Nat
  PROVE  \E w: w = [k \in 0..Len(s) |-> ConsedNext(s, w, k)] /\ Consed(s) = w[Len(s)]
<1> DEFINE N == Len(s)
           w == CHOOSE w: w = [k \in 0..N |-> ConsedNext(s, w, k)]
<1>1. w = [k \in 0..N |-> ConsedNext(s, w, k)]
  BY ConsedExists
<1>2. Consed(s) = w[N]
  BY DEF Consed, ConsedNext, Fragments
<1> HIDE DEF w
<1> QED
  BY <1>1, <1>2

\* The fragments of one frame.
LEMMA FragmentsIs ==
  ASSUME NEW f \in Nat, frame[f].frags \in Nat \ {0}
  PROVE  /\ Fragments(f) \in Seq(FragT) /\ Rising(Origins(Fragments(f))) /\ ToSet(Origins(Fragments(f))) = {f}
         /\ Times(Origins(Fragments(f)), f) = frame[f].frags
<1> DEFINE b == Fragments(f)
           n == frame[f].frags
<1>1. b \in [1..n -> FragT]
  BY DEF Fragments, FragT
<1>2. b \in Seq(FragT) /\ Len(b) = n
  BY <1>1, ListOf
<1>3. DOMAIN b = 1..n /\ \A k \in 1..n: b[k].f = f
  BY DEF Fragments
<1>4. Origins(b) \in Seq(Nat)
  <2>1. Origins(b) \in [1..n -> Nat]
    BY <1>3 DEF Origins
  <2> QED
    BY <2>1, ListOf
<1>5. DOMAIN Origins(b) = 1..n /\ \A k \in 1..n: Origins(b)[k] = f
  BY <1>3 DEF Origins
<1>6. Len(Origins(b)) = n
  BY <1>4, <1>5
<1> HIDE DEF b
<1>7. Times(Origins(b), f) = n
  BY <1>4, <1>5, <1>6, TimesAll
<1>8. ToSet(Origins(b)) = {f}
  <2>1. ToSet(Origins(b)) = {Origins(b)[k]: k \in 1..n}
    BY <1>4, <1>6, InList
  <2>2. 1 \in 1..n
    OBVIOUS
  <2> QED
    BY <1>5, <2>1, <2>2
<1>9. Rising(Origins(b))
  BY <1>5 DEF Rising
<1> QED
  BY <1>2, <1>7, <1>8, <1>9 DEF b

\* The list of a falling one: every frame in the order of arrival, with all its
\* fragments.
LEMMA ConsedIs ==
  ASSUME NEW s \in Seq(Nat), Falling(s), \A f \in ToSet(s): frame[f].frags \in Nat \ {0}
  PROVE  /\ Consed(s) \in Seq(FragT) /\ Rising(Origins(Consed(s))) /\ ToSet(Origins(Consed(s))) = ToSet(s)
         /\ \A f \in ToSet(s): Times(Origins(Consed(s)), f) = frame[f].frags
<1>0. Len(s) \in Nat /\ DOMAIN s = 1..Len(s) /\ ToSet(s) = {s[k]: k \in 1..Len(s)} /\ \A k \in 1..Len(s): s[k] \in Nat
  BY InList
<1>1. PICK w: w = [k \in 0..Len(s) |-> ConsedNext(s, w, k)] /\ Consed(s) = w[Len(s)]
  BY <1>0, ConsedWalks
<1> DEFINE Upto(k) == {s[j]: j \in 1..k}
           Good(k) == /\ w[k] \in Seq(FragT) /\ Rising(Origins(w[k])) /\ ToSet(Origins(w[k])) = Upto(k)
                      /\ \A f \in Upto(k): Times(Origins(w[k]), f) = frame[f].frags
           S == {k \in Nat: k <= Len(s) => Good(k)}
<1>2. 0 \in S
  <2>1. w[0] = <<>>
    BY <1>0, <1>1 DEF ConsedNext
  <2>2. Origins(<<>>) = <<>> /\ Rising(<<>>) /\ ToSet(<<>>) = {}
    BY DEF Origins, Rising, ToSet
  <2>3. Upto(0) = {} /\ <<>> \in Seq(FragT)
    OBVIOUS
  <2>4. Good(0)
    <3> HIDE DEF Upto
    <3> QED
      BY <2>1, <2>2, <2>3
  <2> HIDE DEF Good
  <2> QED
    BY <2>4
<1>3. ASSUME NEW k \in Nat, k \in S PROVE k + 1 \in S
  <2> SUFFICES ASSUME k + 1 <= Len(s) PROVE Good(k + 1)
    OBVIOUS
  <2>0. k + 1 \in 1..Len(s) /\ k \in 0..Len(s) /\ k + 1 \in 0..Len(s) /\ 1..k \subseteq 1..Len(s)
    BY <1>0
  <2>1. Good(k) /\ k + 1 \in 1..Len(s) /\ k \in 0..Len(s) /\ k + 1 \in 0..Len(s) /\ 1..k \subseteq 1..Len(s)
    <3>1. Good(k)
      <4> HIDE DEF Good
      <4> QED
        BY <1>0, <1>3, <2>0
    <3> HIDE DEF Good
    <3> QED
      BY <2>0, <3>1
  <2>2. w[k + 1] = Fragments(s[k + 1]) \o w[k]
    BY <1>0, <1>1, <2>1 DEF ConsedNext
  <2>3. PICK f: f = s[k + 1]
    OBVIOUS
  <2>4. f \in Nat /\ f \in ToSet(s) /\ frame[f].frags \in Nat \ {0}
    BY <1>0, <2>1, <2>3
  <2>5. PICK b: b = Fragments(f)
    OBVIOUS
  <2>6. /\ b \in Seq(FragT) /\ Rising(Origins(b)) /\ ToSet(Origins(b)) = {f}
        /\ Times(Origins(b), f) = frame[f].frags
    BY <2>4, <2>5, FragmentsIs
  <2>7. PICK v: v = w[k]
    OBVIOUS
  <2>8. /\ v \in Seq(FragT) /\ Rising(Origins(v)) /\ ToSet(Origins(v)) = Upto(k)
        /\ \A g \in Upto(k): Times(Origins(v), g) = frame[g].frags
    BY <2>1, <2>7
  <2>9. \A g \in Upto(k): f < g
    <3> SUFFICES ASSUME NEW j \in 1..k PROVE f < s[j]
      OBVIOUS
    <3>1. j < k + 1 /\ j \in 1..Len(s)
      BY <2>1
    <3>2. s[j] > s[k + 1]
      BY <1>0, <2>1, <3>1 DEF Falling
    <3> QED
      BY <1>0, <2>1, <2>3, <3>1, <3>2
  <2>10. Upto(k + 1) = {f} \cup Upto(k)
    <3>1. \A j \in 1..k + 1: j = k + 1 \/ j \in 1..k
      OBVIOUS
    <3>2. k + 1 \in 1..k + 1 /\ \A j \in 1..k: j \in 1..k + 1
      OBVIOUS
    <3> QED
      BY <2>3, <3>1, <3>2
  <2> HIDE DEF Upto
  <2>11. /\ Origins(b) \in Seq(Nat) /\ Origins(v) \in Seq(Nat)
         /\ b \o v \in Seq(FragT) /\ Origins(b \o v) = Origins(b) \o Origins(v)
    BY <2>6, <2>8, OriginsJoined
  <2>12. \A x \in ToSet(Origins(b)), y \in ToSet(Origins(v)): x < y
    BY <2>6, <2>8, <2>9
  <2>13. PICK p, q: p = Origins(b) /\ q = Origins(v)
    OBVIOUS
  <2>14. /\ Rising(p \o q) /\ ToSet(p \o q) = ToSet(p) \cup ToSet(q)
         /\ \A g \in ToSet(p): Times(p \o q, g) = Times(p, g)
         /\ \A g \in ToSet(q): Times(p \o q, g) = Times(q, g)
    <3>1. /\ p \in Seq(Nat) /\ q \in Seq(Nat) /\ Rising(p) /\ Rising(q)
          /\ \A x \in ToSet(p), y \in ToSet(q): x < y
      BY <2>6, <2>8, <2>11, <2>12, <2>13
    <3> QED
      BY <3>1, Lined
  <2>15. w[k + 1] = b \o v /\ Origins(b \o v) = p \o q
    BY <2>2, <2>3, <2>5, <2>7, <2>11, <2>13
  <2>16. ToSet(p) = {f} /\ ToSet(q) = Upto(k) /\ Times(p, f) = frame[f].frags
         /\ \A g \in Upto(k): Times(q, g) = frame[g].frags
    BY <2>6, <2>8, <2>13
  <2> QED
    BY <2>10, <2>11, <2>14, <2>15, <2>16
<1> HIDE DEF S
<1>4. \A k \in Nat: k \in S
  BY <1>2, <1>3, SetInduction
<1>5. Good(Len(s))
  <2> HIDE DEF Good
  <2> QED
    BY <1>0, <1>4 DEF S
<1> QED
  BY <1>0, <1>1, <1>5

-----------------------------------------------------------------------------
(* The order of frames: the invariant *)

ArrivedT == [at: Places, frags: Nat \ {0}]
IntrT == [at: {"idle", "lock"}, f: Nat, found: Nat]

\* The types of the driver, which have no bounds here.
LineTypes ==
    /\ frame \in Seq(ArrivedT) /\ pip \in [Ifaces -> [times: Nat, plugged: BOOLEAN]]
    /\ rx \in [Ifaces -> Seq(Nat)] /\ got \in [Ifaces -> Seq(FragT)] /\ intr \in [Ifaces -> IntrT]

\* One interface, of the frames fr: its list r is that of the queued ones, the
\* last first, and empty if it is not plugged; of what the program has, g, every
\* fragment is there, and older than the list; the frame that its interrupt
\* thread t holds is the last that came.
Received(fr, g) ==
    /\ Rising(Origins(g))
    /\ \A f \in ToSet(Origins(g)): f \in DOMAIN fr /\ fr[f].at = "program" /\ Times(Origins(g), f) = fr[f].frags
Waiting(fr, r) == Falling(r) /\ \A f \in ToSet(r): f \in DOMAIN fr /\ fr[f].at = "queued"
Pending(fr, r, g, t) == t # Resting =>
    /\ t.at = "lock" /\ t.f \in DOMAIN fr /\ fr[t.f].at = "interrupt"
    /\ \A f \in ToSet(Origins(g)) \cup ToSet(r): f < t.f
Line(fr, r, g, t, up) ==
    /\ Received(fr, g) /\ Waiting(fr, r) /\ Pending(fr, r, g, t)
    /\ ~ up => r = <<>>
    /\ \A f \in ToSet(Origins(g)), h \in ToSet(r): f < h

\* No frame is queued at two interfaces, or held by two interrupt threads.
Apart == \A i, j \in Ifaces: i # j => /\ ToSet(rx[i]) \cap ToSet(rx[j]) = {}
                                      /\ intr[i].f = intr[j].f => intr[i].f = 0

\* A frame is where it is said to be.
Kept == \A f \in DOMAIN frame:
    /\ frame[f].at = "queued" => \E i \in Ifaces: f \in ToSet(rx[i])
    /\ frame[f].at = "program" => \E i \in Ifaces: f \in ToSet(Origins(got[i]))
    /\ frame[f].at = "interrupt" => \E i \in Ifaces: intr[i].f = f

OrderInv ==
    /\ LineTypes /\ Apart /\ Kept
    /\ \A i \in Ifaces: Line(frame, rx[i], got[i], intr[i], pip[i].plugged)

\* A larger frame before a falling list.
LEMMA FallingCons ==
  ASSUME NEW s \in Seq(Nat), Falling(s), NEW f \in Nat, \A x \in ToSet(s): x < f
  PROVE  <<f>> \o s \in Seq(Nat) /\ Falling(<<f>> \o s) /\ ToSet(<<f>> \o s) = {f} \cup ToSet(s)
<1> DEFINE n == Len(s)
           u == <<f>> \o s
<1>1. n \in Nat /\ DOMAIN s = 1..n /\ ToSet(s) = {s[k]: k \in 1..n} /\ \A k \in 1..n: s[k] \in Nat
  BY InList
<1>2. <<f>> \in Seq(Nat) /\ Len(<<f>>) = 1 /\ <<f>>[1] = f /\ ToSet(<<f>>) = {f}
  BY DEF ToSet
<1>3. /\ u \in Seq(Nat) /\ Len(u) = 1 + n
      /\ \A k \in 1..1: u[k] = <<f>>[k]
      /\ \A k \in 1..n: u[1 + k] = s[k]
      /\ ToSet(u) = ToSet(<<f>>) \cup ToSet(s)
  <2>1. PICK c: c = <<f>>
    OBVIOUS
  <2>2. c \in Seq(Nat) /\ Len(c) = 1
    BY <1>2, <2>1
  <2>3. /\ c \o s \in Seq(Nat) /\ Len(c \o s) = Len(c) + Len(s)
        /\ \A k \in 1..Len(c): (c \o s)[k] = c[k]
        /\ \A k \in 1..Len(s): (c \o s)[Len(c) + k] = s[k]
        /\ ToSet(c \o s) = ToSet(c) \cup ToSet(s)
    BY <2>2, Joined
  <2> QED
    BY <2>1, <2>2, <2>3
<1>4. DOMAIN u = 1..1 + n
  BY <1>1, <1>3
<1> HIDE DEF n, u
<1>5. Falling(u)
  <2> SUFFICES ASSUME NEW j \in 1..1 + n, NEW k \in 1..1 + n, j < k PROVE u[j] > u[k]
    BY <1>4 DEF Falling
  <2>1. k - 1 \in 1..n /\ 1 + (k - 1) = k
    BY <1>1
  <2>2. u[k] = s[k - 1]
    BY <1>3, <2>1
  <2>3. CASE j = 1
    <3>1. u[j] = f
      BY <1>2, <1>3, <2>3
    <3>2. s[k - 1] < f
      BY <1>1, <2>1
    <3> QED
      BY <1>1, <2>1, <2>2, <3>1, <3>2
  <2>4. CASE j # 1
    <3>1. j - 1 \in 1..n /\ 1 + (j - 1) = j /\ j - 1 < k - 1
      BY <1>1, <2>4
    <3>2. u[j] = s[j - 1]
      BY <1>3, <3>1
    <3> QED
      BY <1>1, <2>1, <2>2, <3>1, <3>2 DEF Falling
  <2> QED
    BY <2>3, <2>4
<1> QED
  BY <1>2, <1>3, <1>5 DEF u

\* What the program has, when other frames are moved.
LEMMA ReceivedKept ==
  ASSUME NEW fr, NEW fr2, NEW g, Received(fr, g),
         \A f \in ToSet(Origins(g)): f \in DOMAIN fr2 /\ fr2[f] = fr[f]
  PROVE  Received(fr2, g)
<1> HIDE DEF ToSet
<1> QED
  BY DEF Received

\* An interface, when other frames are moved.
LEMMA LineKept ==
  ASSUME NEW fr, NEW fr2, NEW r, NEW g, NEW t, NEW up, Line(fr, r, g, t, up),
         \A f \in ToSet(r) \cup ToSet(Origins(g)): f \in DOMAIN fr2 /\ fr2[f] = fr[f],
         t # Resting => t.f \in DOMAIN fr2 /\ fr2[t.f] = fr[t.f]
  PROVE  Line(fr2, r, g, t, up)
<1>1. Received(fr2, g)
  BY ReceivedKept DEF Line
<1>2. Waiting(fr2, r)
  BY DEF Line, Waiting
<1>3. Pending(fr2, r, g, t)
  BY DEF Line, Pending
<1> QED
  BY <1>1, <1>2, <1>3 DEF Line

\* Frames that are queued at, or held for, one interface are not of another.
LEMMA OthersKept ==
  ASSUME OrderInv, NEW i \in Ifaces, NEW M,
         \A f \in M: f \in ToSet(rx[i]) \/ (intr[i] # Resting /\ f = intr[i].f),
         \A f \in DOMAIN frame: f \in DOMAIN frame' /\ (f \notin M => frame'[f] = frame[f]),
         NEW j \in Ifaces, j # i,
         rx'[j] = rx[j] /\ got'[j] = got[j] /\ intr'[j] = intr[j] /\ pip'[j] = pip[j]
  PROVE  Line(frame', rx'[j], got'[j], intr'[j], pip'[j].plugged)
<1>1. Line(frame, rx[i], got[i], intr[i], pip[i].plugged) /\ Line(frame, rx[j], got[j], intr[j], pip[j].plugged)
  BY DEF OrderInv
<1>2. \A f \in M: /\ f \in ToSet(rx[i]) => frame[f].at = "queued"
                  /\ f \notin ToSet(rx[i]) => frame[f].at = "interrupt" /\ f = intr[i].f
  BY <1>1 DEF Line, Waiting, Pending
<1>3. /\ \A f \in ToSet(rx[j]): f \in DOMAIN frame /\ frame[f].at = "queued"
      /\ \A f \in ToSet(Origins(got[j])): f \in DOMAIN frame /\ frame[f].at = "program"
      /\ intr[j] # Resting => intr[j].f \in DOMAIN frame /\ frame[intr[j].f].at = "interrupt"
  BY <1>1 DEF Line, Waiting, Pending, Received
<1>4. ToSet(rx[i]) \cap ToSet(rx[j]) = {} /\ (intr[i].f = intr[j].f => intr[i].f = 0)
  BY DEF OrderInv, Apart
<1>5. \A f \in DOMAIN frame: f # 0
  <2>1. DOMAIN frame = 1..Len(frame)
    BY DEF OrderInv, LineTypes
  <2> QED
    BY <2>1
<1>6. \A f \in ToSet(rx[j]): f \notin M
  BY <1>2, <1>3, <1>4
<1>7. \A f \in ToSet(Origins(got[j])): f \notin M
  BY <1>2, <1>3
<1>8. intr[j] # Resting => intr[j].f \notin M
  BY <1>2, <1>3, <1>4, <1>5
<1>9. /\ \A f \in ToSet(rx[j]) \cup ToSet(Origins(got[j])): f \in DOMAIN frame' /\ frame'[f] = frame[f]
      /\ intr[j] # Resting => intr[j].f \in DOMAIN frame' /\ frame'[intr[j].f] = frame[intr[j].f]
  BY <1>3, <1>6, <1>7, <1>8
<1>10. Line(frame', rx[j], got[j], intr[j], pip[j].plugged)
  BY <1>1, <1>9, LineKept
<1> QED
  BY <1>10

-----------------------------------------------------------------------------
(* The order of frames: steps *)

\* Frames that are only moved.
LEMMA MovedFrames ==
  ASSUME frame \in Seq(ArrivedT), NEW M, NEW a \in Places, NEW g,
         g = [f \in DOMAIN frame |-> IF f \in M THEN [frame[f] EXCEPT !.at = a] ELSE frame[f]]
  PROVE  /\ g \in Seq(ArrivedT) /\ DOMAIN g = DOMAIN frame
         /\ \A f \in DOMAIN frame: g[f].frags = frame[f].frags /\ g[f].at = IF f \in M THEN a ELSE frame[f].at
         /\ \A f \in DOMAIN frame: f \notin M => g[f] = frame[f]
<1>1. PICK n \in Nat: n = Len(frame) /\ DOMAIN frame = 1..n
  OBVIOUS
<1>2. ASSUME NEW f \in 1..n
      PROVE  /\ frame[f] \in ArrivedT
             /\ [frame[f] EXCEPT !.at = a] \in ArrivedT
             /\ [frame[f] EXCEPT !.at = a].at = a /\ [frame[f] EXCEPT !.at = a].frags = frame[f].frags
  <2>1. frame[f] \in ArrivedT
    BY <1>1
  <2> QED
    BY <2>1 DEF ArrivedT
<1>3. g \in [1..n -> ArrivedT]
  BY <1>1, <1>2
<1>4. g \in Seq(ArrivedT) /\ DOMAIN g = 1..n
  BY <1>3, ListOf
<1> QED
  BY <1>1, <1>2, <1>4

\* caml_plug_vif: the list was empty.
LEMMA PlugOrder ==
  ASSUME OrderInv, NEW i \in Ifaces, Plug(i)
  PROVE  OrderInv'
<1>1. /\ ~ pip[i].plugged /\ pip' = [pip EXCEPT ![i] = [times |-> pip[i].times + 1, plugged |-> TRUE]]
      /\ rx' = [rx EXCEPT ![i] = <<>>] /\ frame' = frame /\ got' = got /\ intr' = intr
  BY DEF Plug
<1>2. \A j \in Ifaces: Line(frame, rx[j], got[j], intr[j], pip[j].plugged)
  BY DEF OrderInv
<1>3. rx[i] = <<>>
  BY <1>1, <1>2 DEF Line
<1>4. rx' = rx
  BY <1>1, <1>3 DEF OrderInv, LineTypes
<1>5. pip' \in [Ifaces -> [times: Nat, plugged: BOOLEAN]]
  <2>1. pip[i].times \in Nat
    BY DEF OrderInv, LineTypes
  <2> QED
    BY <1>1, <2>1 DEF OrderInv, LineTypes
<1>6. \A j \in Ifaces: pip'[j].plugged = (j = i \/ pip[j].plugged)
  BY <1>1 DEF OrderInv, LineTypes
<1>7. ASSUME NEW j \in Ifaces PROVE Line(frame', rx'[j], got'[j], intr'[j], pip'[j].plugged)
  <2>1. pip[j].plugged => pip'[j].plugged
    BY <1>6
  <2> QED
    BY <1>1, <1>2, <1>4, <2>1 DEF Line
<1> QED
  BY <1>1, <1>4, <1>5, <1>7 DEF OrderInv, LineTypes, Apart, Kept

\* caml_unplug_vif: the list is freed.
LEMMA UnplugOrder ==
  ASSUME OrderInv, NEW i \in Ifaces, Unplug(i)
  PROVE  OrderInv'
<1>1. /\ pip' = [pip EXCEPT ![i].plugged = FALSE]
      /\ rx' = [rx EXCEPT ![i] = <<>>] /\ got' = got /\ intr' = intr
      /\ frame' = [f \in DOMAIN frame |->
                     IF f \in ToSet(rx[i]) THEN [frame[f] EXCEPT !.at = "freed"] ELSE frame[f]]
  BY DEF Unplug, Frees
<1>2. /\ \A j \in Ifaces: Line(frame, rx[j], got[j], intr[j], pip[j].plugged)
      /\ frame \in Seq(ArrivedT) /\ Apart /\ Kept
  BY DEF OrderInv, LineTypes
<1> DEFINE M == ToSet(rx[i])
<1>3. /\ frame' \in Seq(ArrivedT) /\ DOMAIN frame' = DOMAIN frame
      /\ \A f \in DOMAIN frame: /\ frame'[f].frags = frame[f].frags
                                /\ frame'[f].at = IF f \in M THEN "freed" ELSE frame[f].at
      /\ \A f \in DOMAIN frame: f \notin M => frame'[f] = frame[f]
  <2>1. "freed" \in Places
    BY DEF Places
  <2> HIDE DEF M
  <2> QED
    BY <1>1, <1>2, <2>1, MovedFrames DEF M
<1>4. rx'[i] = <<>> /\ \A j \in Ifaces: j # i => rx'[j] = rx[j]
  BY <1>1 DEF OrderInv, LineTypes
<1>5. pip' \in [Ifaces -> [times: Nat, plugged: BOOLEAN]] /\ \A j \in Ifaces: j # i => pip'[j] = pip[j]
  BY <1>1 DEF OrderInv, LineTypes
<1>6. LineTypes'
  <2>1. rx' \in [Ifaces -> Seq(Nat)]
    BY <1>1 DEF OrderInv, LineTypes
  <2> QED
    BY <1>1, <1>3, <1>5, <2>1 DEF OrderInv, LineTypes
<1>7. ToSet(<<>>) = {}
  BY DEF ToSet
<1>8. ASSUME NEW j \in Ifaces PROVE Line(frame', rx'[j], got'[j], intr'[j], pip'[j].plugged)
  <2>1. CASE j # i
    BY <1>1, <1>3, <1>4, <1>5, <2>1, OthersKept
  <2>2. CASE j = i
    <3>1. Line(frame, rx[i], got[i], intr[i], pip[i].plugged)
      BY <1>2
    <3>2. \A f \in ToSet(Origins(got[i])): f \in DOMAIN frame' /\ frame'[f] = frame[f]
      <4>1. \A f \in ToSet(Origins(got[i])): f \in DOMAIN frame /\ frame[f].at = "program"
        BY <3>1 DEF Line, Received
      <4>2. \A f \in M: frame[f].at = "queued"
        BY <3>1 DEF Line, Waiting
      <4> HIDE DEF M
      <4> QED
        BY <1>3, <4>1, <4>2
    <3>3. Received(frame', got[i])
      BY <3>1, <3>2, ReceivedKept DEF Line
    <3>4. intr[i] # Resting => intr[i].f \in DOMAIN frame' /\ frame'[intr[i].f].at = "interrupt"
      <4>1. intr[i] # Resting => intr[i].f \in DOMAIN frame /\ frame[intr[i].f].at = "interrupt"
        BY <3>1 DEF Line, Pending
      <4>2. \A f \in M: frame[f].at = "queued"
        BY <3>1 DEF Line, Waiting
      <4> HIDE DEF M
      <4> QED
        BY <1>3, <4>1, <4>2
    <3>5. Pending(frame', <<>>, got[i], intr[i])
      BY <1>7, <3>1, <3>4 DEF Line, Pending
    <3>6. Waiting(frame', <<>>)
      BY <1>7 DEF Waiting, Falling
    <3>7. Line(frame', <<>>, got[i], intr[i], pip'[i].plugged)
      BY <1>7, <3>3, <3>5, <3>6 DEF Line
    <3> QED
      BY <1>1, <1>4, <2>2, <3>7
  <2> QED
    BY <2>1, <2>2
<1>9. Apart'
  <2>1. \A j \in Ifaces: ToSet(rx'[j]) \subseteq ToSet(rx[j])
    BY <1>4, <1>7
  <2> HIDE DEF M
  <2> QED
    BY <1>1, <1>2, <2>1 DEF Apart
<1>10. Kept'
  <2> SUFFICES ASSUME NEW f \in DOMAIN frame
               PROVE  /\ frame'[f].at = "queued" => \E j \in Ifaces: f \in ToSet(rx'[j])
                      /\ frame'[f].at = "program" => \E j \in Ifaces: f \in ToSet(Origins(got[j]))
                      /\ frame'[f].at = "interrupt" => \E j \in Ifaces: intr[j].f = f
    BY <1>1, <1>3 DEF Kept
  <2>1. CASE f \in M
    BY <1>3, <2>1
  <2>2. CASE f \notin M
    <3>1. \A j \in Ifaces: f \in ToSet(rx[j]) => f \in ToSet(rx'[j])
      BY <1>4, <2>2
    <3> HIDE DEF M
    <3> QED
      BY <1>2, <1>3, <2>2, <3>1 DEF Kept
  <2> QED
    BY <2>1, <2>2
<1> QED
  BY <1>6, <1>8, <1>9, <1>10 DEF OrderInv

\* netif_ether_input up to its lock: the frame is the last one.
LEMMA EtherInputOrder ==
  ASSUME OrderInv, NEW i \in Ifaces, NEW frags \in Nat \ {0}, EtherInput(i, frags)
  PROVE  OrderInv'
<1> DEFINE n == Len(frame)
           a == IF pip[i].plugged THEN "interrupt" ELSE "host"
<1>1. /\ intr[i] = Resting /\ pip' = pip /\ rx' = rx /\ got' = got
      /\ frame' = Append(frame, [at |-> a, frags |-> frags])
      /\ intr' = IF pip[i].plugged THEN [intr EXCEPT ![i] = [at |-> "lock", f |-> n + 1, found |-> pip[i].times]] ELSE intr
  BY DEF EtherInput
<1>2. /\ \A j \in Ifaces: Line(frame, rx[j], got[j], intr[j], pip[j].plugged)
      /\ frame \in Seq(ArrivedT) /\ Apart /\ Kept /\ n \in Nat /\ DOMAIN frame = 1..n
  BY DEF OrderInv, LineTypes
<1>3. /\ frame' \in Seq(ArrivedT) /\ DOMAIN frame' = 1..n + 1 /\ frame'[n + 1].at = a
      /\ \A f \in 1..n: f \in DOMAIN frame' /\ frame'[f] = frame[f]
  <2>1. [at |-> a, frags |-> frags] \in ArrivedT
    BY DEF ArrivedT, Places
  <2>2. PICK x \in ArrivedT: x = [at |-> a, frags |-> frags]
    BY <2>1
  <2>3. x.at = a
    BY <2>2
  <2>4. frame' = Append(frame, x)
    BY <1>1, <2>2
  <2> HIDE DEF a
  <2>5. /\ frame' \in Seq(ArrivedT) /\ DOMAIN frame' = 1..n + 1 /\ frame'[n + 1] = x
        /\ \A f \in 1..n: f \in DOMAIN frame' /\ frame'[f] = frame[f]
    BY <1>2, <2>4
  <2> QED
    BY <2>3, <2>5
<1>4. /\ \A j \in Ifaces: j # i => intr'[j] = intr[j]
      /\ pip[i].plugged => intr'[i] = [at |-> "lock", f |-> n + 1, found |-> pip[i].times]
      /\ ~ pip[i].plugged => intr'[i] = intr[i]
  BY <1>1 DEF OrderInv, LineTypes
<1>5. LineTypes'
  <2>1. pip[i].times \in Nat
    BY DEF OrderInv, LineTypes
  <2>2. [at |-> "lock", f |-> n + 1, found |-> pip[i].times] \in IntrT
    BY <1>2, <2>1 DEF IntrT
  <2>3. intr' \in [Ifaces -> IntrT]
    BY <1>1, <2>2 DEF OrderInv, LineTypes
  <2> QED
    BY <1>1, <1>3, <2>3 DEF OrderInv, LineTypes
<1> HIDE DEF n, a
<1>6. \A j \in Ifaces: /\ \A f \in ToSet(rx[j]) \cup ToSet(Origins(got[j])): f \in 1..n
                       /\ intr[j] # Resting => intr[j].f \in 1..n
                       /\ intr[j].f # n + 1
  <2> SUFFICES ASSUME NEW j \in Ifaces
               PROVE  /\ \A f \in ToSet(rx[j]) \cup ToSet(Origins(got[j])): f \in 1..n
                      /\ intr[j] # Resting => intr[j].f \in 1..n
                      /\ intr[j].f # n + 1
    OBVIOUS
  <2>1. Line(frame, rx[j], got[j], intr[j], pip[j].plugged)
    BY <1>2
  <2>2. \A f \in ToSet(rx[j]) \cup ToSet(Origins(got[j])): f \in 1..n
    BY <1>2, <2>1 DEF Line, Received, Waiting
  <2>3. intr[j] # Resting => intr[j].f \in 1..n
    BY <1>2, <2>1 DEF Line, Pending
  <2>4. Resting.f = 0
    BY DEF Resting
  <2>5. intr[j].f # n + 1
    BY <1>2, <2>3, <2>4
  <2> QED
    BY <2>2, <2>3, <2>5
<1>7. ASSUME NEW j \in Ifaces PROVE Line(frame', rx[j], got[j], intr[j], pip[j].plugged)
  <2>1. Line(frame, rx[j], got[j], intr[j], pip[j].plugged)
    BY <1>2
  <2>2. \A f \in ToSet(rx[j]) \cup ToSet(Origins(got[j])): f \in DOMAIN frame' /\ frame'[f] = frame[f]
    BY <1>3, <1>6
  <2>3. intr[j] # Resting => intr[j].f \in DOMAIN frame' /\ frame'[intr[j].f] = frame[intr[j].f]
    BY <1>3, <1>6
  <2> QED
    BY <2>1, <2>2, <2>3, LineKept
<1>8. ASSUME NEW j \in Ifaces PROVE Line(frame', rx'[j], got'[j], intr'[j], pip'[j].plugged)
  <2>1. CASE j # i \/ ~ pip[i].plugged
    BY <1>1, <1>4, <1>7, <2>1
  <2>2. CASE j = i /\ pip[i].plugged
    <3>1. intr'[i].at = "lock" /\ intr'[i].f = n + 1
      BY <1>4, <2>2
    <3>2. frame'[n + 1].at = "interrupt" /\ n + 1 \in DOMAIN frame'
      BY <1>2, <1>3, <2>2 DEF a
    <3>3. \A f \in ToSet(Origins(got[i])) \cup ToSet(rx[i]): f < n + 1
      <4>1. \A f \in 1..n: f < n + 1
        BY <1>2
      <4> QED
        BY <1>6, <4>1
    <3>4. Pending(frame', rx[i], got[i], intr'[i])
      BY <3>1, <3>2, <3>3 DEF Pending
    <3>5. Line(frame', rx[i], got[i], intr'[i], pip[i].plugged)
      BY <1>7, <3>4 DEF Line
    <3> QED
      BY <1>1, <2>2, <3>5
  <2> QED
    BY <2>1, <2>2
<1>9. Apart'
  <2>1. \A j, k \in Ifaces: j # k /\ intr'[j].f = intr'[k].f => intr'[j].f = 0
    <3> SUFFICES ASSUME NEW j \in Ifaces, NEW k \in Ifaces, j # k, intr'[j].f = intr'[k].f PROVE intr'[j].f = 0
      OBVIOUS
    <3>1. CASE pip[i].plugged
      <4>1. intr'[i].f = n + 1
        BY <1>4, <3>1
      <4> QED
        BY <1>2, <1>4, <1>6, <4>1 DEF Apart
    <3>2. CASE ~ pip[i].plugged
      BY <1>1, <1>2, <3>2 DEF Apart
    <3> QED
      BY <3>1, <3>2
  <2> QED
    BY <1>1, <1>2, <2>1 DEF Apart
<1>10. Kept'
  <2>1. ASSUME NEW f \in DOMAIN frame'
        PROVE  /\ frame'[f].at = "queued" => \E j \in Ifaces: f \in ToSet(rx[j])
               /\ frame'[f].at = "program" => \E j \in Ifaces: f \in ToSet(Origins(got[j]))
               /\ frame'[f].at = "interrupt" => \E j \in Ifaces: intr'[j].f = f
    <3>1. CASE f \in 1..n
      <4>1. /\ frame[f].at = "queued" => \E j \in Ifaces: f \in ToSet(rx[j])
            /\ frame[f].at = "program" => \E j \in Ifaces: f \in ToSet(Origins(got[j]))
            /\ frame[f].at = "interrupt" => \E j \in Ifaces: intr[j].f = f
        BY <1>2, <3>1 DEF Kept
      <4>2. ASSUME NEW j \in Ifaces, intr[j].f = f PROVE intr'[j].f = f
        <5>1. intr[i].f = 0
          BY <1>1 DEF Resting
        <5>2. j # i
          BY <1>2, <3>1, <4>2, <5>1
        <5> QED
          BY <1>4, <4>2, <5>2
      <4> QED
        BY <1>3, <3>1, <4>1, <4>2
    <3>2. CASE f = n + 1
      <4>1. pip[i].plugged => intr'[i].f = f
        BY <1>4, <3>2
      <4> QED
        BY <1>3, <3>2, <4>1 DEF a
    <3> QED
      BY <1>2, <1>3, <3>1, <3>2
  <2> QED
    BY <1>1, <2>1 DEF Kept
<1> QED
  BY <1>5, <1>8, <1>9, <1>10 DEF OrderInv

\* The rest of netif_ether_input: the frame is the first of the list, or lost.
LEMMA EtherQueueOrder ==
  ASSUME OrderInv, NEW i \in Ifaces, EtherQueue(i)
  PROVE  OrderInv'
<1> DEFINE h == intr[i].f
           sound == pip[i].plugged /\ pip[i].times = intr[i].found
           a == IF sound THEN "queued" ELSE "lost"
<1>1. /\ intr[i].at = "lock" /\ pip' = pip /\ got' = got
      /\ rx' = IF sound THEN [rx EXCEPT ![i] = <<h>> \o rx[i]] ELSE rx
      /\ frame' = [frame EXCEPT ![h].at = a]
      /\ intr' = [intr EXCEPT ![i] = Resting]
  BY DEF EtherQueue
<1>2. /\ \A j \in Ifaces: Line(frame, rx[j], got[j], intr[j], pip[j].plugged)
      /\ frame \in Seq(ArrivedT) /\ Apart /\ Kept /\ rx[i] \in Seq(Nat)
  BY DEF OrderInv, LineTypes
<1>3. Resting.at = "idle" /\ Resting.f = 0 /\ Resting \in IntrT
  BY DEF Resting, IntrT
<1>4. /\ intr[i] # Resting /\ h \in DOMAIN frame /\ frame[h].at = "interrupt"
      /\ \A f \in ToSet(Origins(got[i])) \cup ToSet(rx[i]): f < h
  <2>1. intr[i] # Resting
    BY <1>1, <1>3
  <2> QED
    BY <1>2, <2>1 DEF Line, Pending
<1>5. h \in Nat /\ h # 0
  <2>1. DOMAIN frame = 1..Len(frame)
    BY <1>2
  <2> QED
    BY <1>4, <2>1
<1>6. /\ frame' \in Seq(ArrivedT) /\ DOMAIN frame' = DOMAIN frame
      /\ \A f \in DOMAIN frame: frame'[f].at = IF f = h THEN a ELSE frame[f].at
      /\ \A f \in DOMAIN frame: f # h => frame'[f] = frame[f]
  <2>1. a \in Places
    BY DEF Places
  <2>2. frame' = [f \in DOMAIN frame |-> IF f \in {h} THEN [frame[f] EXCEPT !.at = a] ELSE frame[f]]
    BY <1>1, <1>4
  <2> HIDE DEF a, h
  <2>3. PICK g, M: g = frame' /\ M = {h}
    OBVIOUS
  <2>4. g = [f \in DOMAIN frame |-> IF f \in M THEN [frame[f] EXCEPT !.at = a] ELSE frame[f]]
    BY <2>2, <2>3
  <2>5. /\ g \in Seq(ArrivedT) /\ DOMAIN g = DOMAIN frame
        /\ \A f \in DOMAIN frame: g[f].frags = frame[f].frags /\ g[f].at = IF f \in M THEN a ELSE frame[f].at
        /\ \A f \in DOMAIN frame: f \notin M => g[f] = frame[f]
    BY <1>2, <2>1, <2>4, MovedFrames
  <2> QED
    BY <2>3, <2>5
<1>7. /\ <<h>> \o rx[i] \in Seq(Nat) /\ Falling(<<h>> \o rx[i])
      /\ ToSet(<<h>> \o rx[i]) = {h} \cup ToSet(rx[i])
  <2>1. Falling(rx[i])
    BY <1>2 DEF Line, Waiting
  <2>2. \A x \in ToSet(rx[i]): x < h
    BY <1>4
  <2> HIDE DEF h
  <2> QED
    BY <1>2, <1>5, <2>1, <2>2, FallingCons
<1>8. intr'[i] = Resting /\ \A j \in Ifaces: j # i => intr'[j] = intr[j]
  BY <1>1 DEF OrderInv, LineTypes
<1>9. /\ \A j \in Ifaces: j # i => rx'[j] = rx[j]
      /\ rx'[i] = IF sound THEN <<h>> \o rx[i] ELSE rx[i]
  BY <1>1 DEF OrderInv, LineTypes
<1>10. LineTypes'
  <2>1. rx' \in [Ifaces -> Seq(Nat)]
    <3> HIDE DEF sound, h
    <3> QED
      BY <1>1, <1>7 DEF OrderInv, LineTypes
  <2>2. intr' \in [Ifaces -> IntrT]
    BY <1>1, <1>3 DEF OrderInv, LineTypes
  <2> QED
    BY <1>1, <1>6, <2>1, <2>2 DEF OrderInv, LineTypes
<1>11. ToSet(rx'[i]) = IF sound THEN {h} \cup ToSet(rx[i]) ELSE ToSet(rx[i])
  <2> HIDE DEF h, sound
  <2> QED
    BY <1>7, <1>9
<1>12. ASSUME NEW j \in Ifaces PROVE Line(frame', rx'[j], got'[j], intr'[j], pip'[j].plugged)
  <2>1. CASE j # i
    <3>1. \A f \in {h}: f \in ToSet(rx[i]) \/ (intr[i] # Resting /\ f = intr[i].f)
      BY <1>4
    <3>2. \A f \in DOMAIN frame: f \in DOMAIN frame' /\ (f \notin {h} => frame'[f] = frame[f])
      BY <1>6
    <3>3. rx'[j] = rx[j] /\ got'[j] = got[j] /\ intr'[j] = intr[j] /\ pip'[j] = pip[j]
      BY <1>1, <1>8, <1>9, <2>1
    <3> HIDE DEF h
    <3> QED
      BY <2>1, <3>1, <3>2, <3>3, OthersKept
  <2>2. CASE j = i
    <3>1. Line(frame, rx[i], got[i], intr[i], pip[i].plugged)
      BY <1>2
    <3>2. /\ \A f \in ToSet(Origins(got[i])): f \in DOMAIN frame' /\ frame'[f] = frame[f]
          /\ \A f \in ToSet(rx[i]): f \in DOMAIN frame' /\ frame'[f].at = "queued"
      <4>1. \A f \in ToSet(Origins(got[i])): f \in DOMAIN frame /\ frame[f].at = "program"
        BY <3>1 DEF Line, Received
      <4>2. \A f \in ToSet(rx[i]): f \in DOMAIN frame /\ frame[f].at = "queued"
        BY <3>1 DEF Line, Waiting
      <4> HIDE DEF h, a
      <4> QED
        BY <1>4, <1>6, <4>1, <4>2
    <3>3. Received(frame', got[i])
      BY <3>1, <3>2, ReceivedKept DEF Line
    <3>4. Pending(frame', rx'[i], got[i], Resting)
      BY DEF Pending
    <3>5. Waiting(frame', rx'[i])
      <4>1. CASE sound
        <5>1. h \in DOMAIN frame' /\ frame'[h].at = "queued"
          BY <1>4, <1>6, <4>1
        <5> HIDE DEF h, a, sound
        <5> QED
          BY <1>7, <1>9, <3>2, <4>1, <5>1 DEF Waiting
      <4>2. CASE ~ sound
        <5> HIDE DEF h, a, sound
        <5> QED
          BY <1>9, <3>1, <3>2, <4>2 DEF Line, Waiting
      <4> QED
        BY <4>1, <4>2
    <3>6. ~ pip[i].plugged => rx'[i] = <<>>
      BY <1>9, <3>1 DEF Line
    <3>7. \A f \in ToSet(Origins(got[i])), x \in ToSet(rx'[i]): f < x
      <4> HIDE DEF h, a, sound
      <4> QED
        BY <1>4, <1>11, <3>1 DEF Line
    <3>8. Line(frame', rx'[i], got[i], Resting, pip[i].plugged)
      BY <3>3, <3>4, <3>5, <3>6, <3>7 DEF Line
    <3> QED
      BY <1>1, <1>8, <2>2, <3>8
  <2> QED
    BY <2>1, <2>2
<1>13. Apart'
  <2>1. ASSUME NEW j \in Ifaces, j # i PROVE h \notin ToSet(rx[j])
    <3>1. Line(frame, rx[j], got[j], intr[j], pip[j].plugged)
      BY <1>2
    <3>2. \A f \in ToSet(rx[j]): frame[f].at = "queued"
      BY <3>1 DEF Line, Waiting
    <3> QED
      BY <1>4, <3>2
  <2> HIDE DEF h, a, sound
  <2>2. ASSUME NEW j \in Ifaces, NEW k \in Ifaces, j # k PROVE ToSet(rx'[j]) \cap ToSet(rx'[k]) = {}
    <3>1. ToSet(rx[j]) \cap ToSet(rx[k]) = {}
      BY <1>2, <2>2 DEF Apart
    <3>2. CASE j = i
      BY <1>9, <1>11, <2>1, <2>2, <3>1, <3>2
    <3>3. CASE k = i
      BY <1>9, <1>11, <2>1, <2>2, <3>1, <3>3
    <3>4. CASE j # i /\ k # i
      BY <1>9, <3>1, <3>4
    <3> QED
      BY <3>2, <3>3, <3>4
  <2>3. ASSUME NEW j \in Ifaces, NEW k \in Ifaces, j # k, intr'[j].f = intr'[k].f PROVE intr'[j].f = 0
    BY <1>2, <1>3, <1>8, <2>3 DEF Apart
  <2> QED
    BY <2>2, <2>3 DEF Apart
<1>14. Kept'
  <2>1. ASSUME NEW f \in DOMAIN frame
        PROVE  /\ frame'[f].at = "queued" => \E j \in Ifaces: f \in ToSet(rx'[j])
               /\ frame'[f].at = "program" => \E j \in Ifaces: f \in ToSet(Origins(got[j]))
               /\ frame'[f].at = "interrupt" => \E j \in Ifaces: intr'[j].f = f
    <3>1. CASE f = h
      <4>1. frame'[f].at = a
        BY <1>6, <3>1
      <4>2. sound => f \in ToSet(rx'[i])
        <5> HIDE DEF h, sound
        <5> QED
          BY <1>11, <3>1
      <4> QED
        BY <4>1, <4>2
    <3>2. CASE f # h
      <4>1. \A j \in Ifaces: f \in ToSet(rx[j]) => f \in ToSet(rx'[j])
        <5> HIDE DEF h, sound
        <5> QED
          BY <1>9, <1>11
      <4>2. \A j \in Ifaces: intr[j].f = f => intr'[j].f = f
        BY <1>8, <3>2
      <4> HIDE DEF h, a, sound
      <4>3. frame'[f] = frame[f]
        BY <1>6, <3>2
      <4> QED
        BY <1>2, <4>1, <4>2, <4>3 DEF Kept
    <3> QED
      BY <3>1, <3>2
  <2> HIDE DEF h, a, sound
  <2> QED
    BY <1>1, <1>6, <2>1 DEF Kept
<1> QED
  BY <1>10, <1>12, <1>13, <1>14 DEF OrderInv

\* caml_get_mbufs: the whole list, after what the program had.
LEMMA GetMbufsOrder ==
  ASSUME OrderInv, NEW i \in Ifaces, GetMbufs(i)
  PROVE  OrderInv'
<1> DEFINE M == ToSet(rx[i])
           c == Consed(rx[i])
<1>1. /\ pip' = pip /\ intr' = intr
      /\ got' = [got EXCEPT ![i] = got[i] \o c]
      /\ rx' = [rx EXCEPT ![i] = <<>>]
      /\ frame' = [f \in DOMAIN frame |->
                     IF f \in M THEN [frame[f] EXCEPT !.at = "program"] ELSE frame[f]]
  BY DEF GetMbufs
<1>2. /\ \A j \in Ifaces: Line(frame, rx[j], got[j], intr[j], pip[j].plugged)
      /\ frame \in Seq(ArrivedT) /\ Apart /\ Kept /\ rx[i] \in Seq(Nat) /\ got[i] \in Seq(FragT)
  BY DEF OrderInv, LineTypes
<1>3. /\ frame' \in Seq(ArrivedT) /\ DOMAIN frame' = DOMAIN frame
      /\ \A f \in DOMAIN frame: /\ frame'[f].frags = frame[f].frags
                                /\ frame'[f].at = IF f \in M THEN "program" ELSE frame[f].at
      /\ \A f \in DOMAIN frame: f \notin M => frame'[f] = frame[f]
  <2>1. "program" \in Places
    BY DEF Places
  <2>2. PICK g: g = frame'
    OBVIOUS
  <2> HIDE DEF M
  <2>3. /\ g \in Seq(ArrivedT) /\ DOMAIN g = DOMAIN frame
        /\ \A f \in DOMAIN frame: g[f].frags = frame[f].frags /\ g[f].at = IF f \in M THEN "program" ELSE frame[f].at
        /\ \A f \in DOMAIN frame: f \notin M => g[f] = frame[f]
    BY <1>1, <1>2, <2>1, <2>2, MovedFrames
  <2> QED
    BY <2>2, <2>3
<1>4. /\ rx'[i] = <<>> /\ got'[i] = got[i] \o c
      /\ \A j \in Ifaces: j # i => rx'[j] = rx[j] /\ got'[j] = got[j]
  BY <1>1 DEF OrderInv, LineTypes
<1>5. Line(frame, rx[i], got[i], intr[i], pip[i].plugged)
  BY <1>2
<1>6. /\ Falling(rx[i]) /\ \A f \in M: f \in DOMAIN frame /\ frame[f].at = "queued"
      /\ Rising(Origins(got[i]))
      /\ \A f \in ToSet(Origins(got[i])): /\ f \in DOMAIN frame /\ frame[f].at = "program"
                                          /\ Times(Origins(got[i]), f) = frame[f].frags
      /\ \A f \in ToSet(Origins(got[i])), x \in M: f < x
  BY <1>5 DEF Line, Waiting, Received
<1>7. \A f \in M: frame[f].frags \in Nat \ {0}
  <2>1. \A f \in DOMAIN frame: frame[f] \in ArrivedT
    BY <1>2
  <2> HIDE DEF M
  <2> QED
    BY <1>6, <2>1 DEF ArrivedT
<1>8. /\ c \in Seq(FragT) /\ Rising(Origins(c)) /\ ToSet(Origins(c)) = M
      /\ \A f \in M: Times(Origins(c), f) = frame[f].frags
  BY <1>2, <1>6, <1>7, ConsedIs
<1> HIDE DEF M, c
<1>9. /\ Origins(got[i]) \in Seq(Nat) /\ Origins(c) \in Seq(Nat)
      /\ got[i] \o c \in Seq(FragT) /\ Origins(got[i] \o c) = Origins(got[i]) \o Origins(c)
  BY <1>2, <1>8, OriginsJoined
<1>10. /\ Rising(Origins(got'[i]))
       /\ ToSet(Origins(got'[i])) = ToSet(Origins(got[i])) \cup M
       /\ \A f \in ToSet(Origins(got'[i])): Times(Origins(got'[i]), f) = frame[f].frags
  <2>1. PICK p, q: p = Origins(got[i]) /\ q = Origins(c)
    OBVIOUS
  <2>2. /\ p \in Seq(Nat) /\ q \in Seq(Nat) /\ Rising(p) /\ Rising(q)
        /\ \A x \in ToSet(p), y \in ToSet(q): x < y
    BY <1>6, <1>8, <1>9, <2>1
  <2>3. /\ Rising(p \o q) /\ ToSet(p \o q) = ToSet(p) \cup ToSet(q)
        /\ \A f \in ToSet(p): Times(p \o q, f) = Times(p, f)
        /\ \A f \in ToSet(q): Times(p \o q, f) = Times(q, f)
    BY <2>2, Lined
  <2>4. Origins(got'[i]) = p \o q
    BY <1>4, <1>9, <2>1
  <2>5. /\ ToSet(q) = M /\ \A f \in M: Times(q, f) = frame[f].frags
        /\ \A f \in ToSet(p): Times(p, f) = frame[f].frags
    BY <1>6, <1>8, <2>1
  <2> QED
    BY <2>1, <2>3, <2>4, <2>5
<1>11. LineTypes'
  <2>1. rx' \in [Ifaces -> Seq(Nat)]
    BY <1>1 DEF OrderInv, LineTypes
  <2>2. got' \in [Ifaces -> Seq(FragT)]
    BY <1>1, <1>9 DEF OrderInv, LineTypes
  <2> QED
    BY <1>1, <1>3, <2>1, <2>2 DEF OrderInv, LineTypes
<1>12. ToSet(<<>>) = {}
  BY DEF ToSet
<1>13. ASSUME NEW j \in Ifaces PROVE Line(frame', rx'[j], got'[j], intr'[j], pip'[j].plugged)
  <2>1. CASE j # i
    BY <1>1, <1>3, <1>4, <2>1, OthersKept DEF M
  <2>2. CASE j = i
    <3>1. Received(frame', got'[i])
      <4>1. ASSUME NEW f \in ToSet(Origins(got'[i]))
            PROVE  f \in DOMAIN frame' /\ frame'[f].at = "program" /\ Times(Origins(got'[i]), f) = frame'[f].frags
        <5>1. f \in DOMAIN frame /\ (f \in M \/ frame[f].at = "program")
          BY <1>6, <1>10
        <5> QED
          BY <1>3, <1>10, <5>1
      <4> QED
        BY <1>10, <4>1 DEF Received
    <3>2. Waiting(frame', <<>>)
      BY <1>12 DEF Waiting, Falling
    <3>3. Pending(frame', <<>>, got'[i], intr[i])
      <4> SUFFICES ASSUME intr[i] # Resting
                   PROVE  /\ intr[i].at = "lock" /\ intr[i].f \in DOMAIN frame' /\ frame'[intr[i].f].at = "interrupt"
                          /\ \A f \in ToSet(Origins(got'[i])): f < intr[i].f
        BY <1>12 DEF Pending
      <4>1. /\ intr[i].at = "lock" /\ intr[i].f \in DOMAIN frame /\ frame[intr[i].f].at = "interrupt"
            /\ \A f \in ToSet(Origins(got[i])) \cup M: f < intr[i].f
        BY <1>5 DEF Line, Pending, M
      <4>2. intr[i].f \notin M
        BY <1>6, <4>1
      <4> QED
        BY <1>3, <1>10, <4>1, <4>2
    <3>4. Line(frame', <<>>, got'[i], intr[i], pip[i].plugged)
      BY <1>12, <3>1, <3>2, <3>3 DEF Line
    <3> QED
      BY <1>1, <1>4, <2>2, <3>4
  <2> QED
    BY <2>1, <2>2
<1>14. Apart'
  <2>1. \A j \in Ifaces: ToSet(rx'[j]) \subseteq ToSet(rx[j])
    BY <1>4, <1>12
  <2> QED
    BY <1>1, <1>2, <2>1 DEF Apart
<1>15. Kept'
  <2>1. ASSUME NEW f \in DOMAIN frame
        PROVE  /\ frame'[f].at = "queued" => \E j \in Ifaces: f \in ToSet(rx'[j])
               /\ frame'[f].at = "program" => \E j \in Ifaces: f \in ToSet(Origins(got'[j]))
               /\ frame'[f].at = "interrupt" => \E j \in Ifaces: intr[j].f = f
    <3>1. CASE f \in M
      <4>1. frame'[f].at = "program"
        BY <1>3, <3>1
      <4>2. f \in ToSet(Origins(got'[i]))
        BY <1>10, <3>1
      <4> QED
        BY <4>1, <4>2
    <3>2. CASE f \notin M
      <4>1. \A j \in Ifaces: f \in ToSet(rx[j]) => f \in ToSet(rx'[j])
        BY <1>4, <3>2 DEF M
      <4>2. \A j \in Ifaces: f \in ToSet(Origins(got[j])) => f \in ToSet(Origins(got'[j]))
        BY <1>4, <1>10
      <4>3. frame'[f] = frame[f]
        BY <1>3, <3>2
      <4> QED
        BY <1>2, <4>1, <4>2, <4>3 DEF Kept
    <3> QED
      BY <3>1, <3>2
  <2> QED
    BY <1>1, <1>3, <2>1 DEF Kept
<1> QED
  BY <1>11, <1>13, <1>14, <1>15 DEF OrderInv

-----------------------------------------------------------------------------
(* The order of frames: every state *)

\* The first state: no frames.
LEMMA InitOrder ==
  ASSUME Init
  PROVE  OrderInv
<1>1. frame = <<>> /\ rx = [i \in Ifaces |-> <<>>] /\ got = [i \in Ifaces |-> <<>>] /\ intr = [i \in Ifaces |-> Resting]
      /\ pip = [i \in Ifaces |-> [times |-> 0, plugged |-> FALSE]]
  BY DEF Init
<1>2. Resting.f = 0 /\ Resting \in IntrT
  BY DEF Resting, IntrT
<1>3. LineTypes
  BY <1>1, <1>2 DEF LineTypes
<1>4. ToSet(<<>>) = {} /\ Origins(<<>>) = <<>> /\ Rising(<<>>) /\ Falling(<<>>)
  BY DEF ToSet, Origins, Rising, Falling
<1>5. Line(frame, <<>>, <<>>, Resting, FALSE)
  BY <1>4 DEF Line, Received, Waiting, Pending
<1>6. \A i \in Ifaces: rx[i] = <<>> /\ got[i] = <<>> /\ intr[i] = Resting /\ pip[i].plugged = FALSE
  BY <1>1
<1>7. \A i \in Ifaces: Line(frame, rx[i], got[i], intr[i], pip[i].plugged)
  BY <1>5, <1>6
<1>8. Apart
  BY <1>2, <1>4, <1>6 DEF Apart
<1>9. Kept
  BY <1>1 DEF Kept
<1> QED
  BY <1>3, <1>7, <1>8, <1>9 DEF OrderInv

\* Every step.
LEMMA NextOrder ==
  ASSUME OrderInv, [Next]_vars
  PROVE  OrderInv'
<1>1. ASSUME driver' = driver PROVE OrderInv'
  BY <1>1 DEF driver, OrderInv, LineTypes, Apart, Kept
<1>2. ASSUME NEW i \in Ifaces, Plug(i) \/ Unplug(i) \/ GetMbufs(i) \/ EtherQueue(i) PROVE OrderInv'
  BY <1>2, PlugOrder, UnplugOrder, GetMbufsOrder, EtherQueueOrder
<1>3. ASSUME NEW i \in Ifaces, NEW frags \in 1..2, EtherInput(i, frags) PROVE OrderInv'
  <2>1. frags \in Nat \ {0}
    OBVIOUS
  <2> QED
    BY <1>3, <2>1, EtherInputOrder
<1>4. ASSUME NEW i \in Ifaces, NEW vs, PutMbufs(i, vs) PROVE driver' = driver
  BY <1>4 DEF PutMbufs, driver
<1>5. ASSUME NEW v, Finalize(v) PROVE driver' = driver
  BY <1>5 DEF Finalize, driver
<1>6. ASSUME NEW v, NEW ofs, NEW len, Sub(v, ofs, len) PROVE driver' = driver
  BY <1>6 DEF Sub, driver
<1>7. ASSUME NEW v, NEW n, ShiftLeft(v, n) PROVE driver' = driver
  BY <1>7 DEF ShiftLeft, driver
<1>8. AllocPages \/ FinalizeWrite \/ MapRead \/ MapWrite \/ MapFails \/ Output => driver' = driver
  BY DEF AllocPages, FinalizeWrite, MapRead, MapWrite, MapFails, Output, driver
<1>9. ASSUME NEW m, MbufFree(m) PROVE driver' = driver
  BY <1>9 DEF MbufFree, driver
<1>10. UNCHANGED vars => driver' = driver
  BY DEF vars, driver
<1> QED
  BY <1>1, <1>2, <1>3, <1>4, <1>5, <1>6, <1>7, <1>8, <1>9, <1>10 DEF Next

\* What the program received of an interface and what is queued there, in order.
LEMMA LineInOrder ==
  ASSUME OrderInv, NEW i \in Ifaces
  PROVE  LET all == Origins(got[i]) \o Reverse(rx[i]) IN
         /\ Rising(all)
         /\ \A f \in ToSet(all): Times(all, f) = IF frame[f].at = "queued" THEN 1 ELSE frame[f].frags
<1>1. Line(frame, rx[i], got[i], intr[i], pip[i].plugged) /\ rx[i] \in Seq(Nat) /\ got[i] \in Seq(FragT)
  BY DEF OrderInv, LineTypes
<1>2. Origins(got[i]) \in Seq(Nat) /\ <<>> \in Seq(FragT)
  BY <1>1, OriginsJoined
<1>3. /\ Falling(rx[i]) /\ \A f \in ToSet(rx[i]): frame[f].at = "queued"
      /\ Rising(Origins(got[i]))
      /\ \A f \in ToSet(Origins(got[i])): frame[f].at = "program" /\ Times(Origins(got[i]), f) = frame[f].frags
      /\ \A f \in ToSet(Origins(got[i])), x \in ToSet(rx[i]): f < x
  BY <1>1 DEF Line, Waiting, Received
<1>4. PICK p, q: p = Origins(got[i]) /\ q = Reverse(rx[i])
  OBVIOUS
<1>5. /\ q \in Seq(Nat) /\ Rising(q) /\ ToSet(q) = ToSet(rx[i])
      /\ \A f \in ToSet(rx[i]): Times(q, f) = 1
  BY <1>1, <1>3, <1>4, FallingBackwards
<1>6. p \in Seq(Nat) /\ Rising(p) /\ \A x \in ToSet(p), y \in ToSet(q): x < y
  BY <1>2, <1>3, <1>4, <1>5
<1>7. /\ Rising(p \o q) /\ ToSet(p \o q) = ToSet(p) \cup ToSet(q)
      /\ \A f \in ToSet(p): Times(p \o q, f) = Times(p, f)
      /\ \A f \in ToSet(q): Times(p \o q, f) = Times(q, f)
  BY <1>5, <1>6, Lined
<1>8. \A f \in ToSet(p \o q): Times(p \o q, f) = IF frame[f].at = "queued" THEN 1 ELSE frame[f].frags
  BY <1>3, <1>4, <1>5, <1>7
<1> QED
  BY <1>4, <1>7, <1>8

\* The invariant implies the order.
LEMMA OrderInvFrames ==
  ASSUME OrderInv
  PROVE  FramesInOrder
<1>1. ASSUME NEW i \in Ifaces
      PROVE  LET all == [k \in DOMAIN got[i] |-> got[i][k].f] \o Reverse(rx[i]) IN
             /\ \A j, k \in DOMAIN all: j < k => all[j] <= all[k]
             /\ \A f \in ToSet(all): Cardinality({k \in DOMAIN all: all[k] = f}) =
                  IF frame[f].at = "queued" THEN 1 ELSE frame[f].frags
  BY LineInOrder DEF Rising, Times, Origins
<1>2. ASSUME NEW f \in DOMAIN frame
      PROVE  /\ frame[f].at = "queued" <=> \E i \in Ifaces: f \in ToSet(rx[i])
             /\ frame[f].at = "program" <=> \E i \in Ifaces: \E x \in ToSet(got[i]): x.f = f
             /\ frame[f].at = "interrupt" <=> \E i \in Ifaces: intr[i].f = f
  <2>1. ASSUME NEW i \in Ifaces
        PROVE  /\ f \in ToSet(rx[i]) => frame[f].at = "queued"
               /\ f \in ToSet(Origins(got[i])) => frame[f].at = "program"
               /\ intr[i].f = f => frame[f].at = "interrupt"
    <3>1. Line(frame, rx[i], got[i], intr[i], pip[i].plugged)
      BY DEF OrderInv
    <3>2. f # 0 /\ Resting.f = 0
      <4>1. DOMAIN frame = 1..Len(frame)
        BY DEF OrderInv, LineTypes
      <4> QED
        BY <4>1 DEF Resting
    <3> QED
      BY <3>1, <3>2 DEF Line, Waiting, Received, Pending
  <2>2. ASSUME NEW i \in Ifaces PROVE f \in ToSet(Origins(got[i])) <=> \E x \in ToSet(got[i]): x.f = f
    BY DEF ToSet, Origins
  <2> QED
    BY <2>1, <2>2 DEF OrderInv, Kept
<1> QED
  BY <1>1, <1>2 DEF FramesInOrder

(***************************************************************************)
(* The frames of an interface reach the program in the order in which they *)
(* came, each once and with all its fragments, and none that is queued is  *)
(* older than one that was received, whatever is plugged and unplugged     *)
(* between the parts of netif_ether_input and caml_get_mbufs; a frame is   *)
(* queued exactly when it is in a list (caml_unplug_vif).                  *)
(***************************************************************************)
THEOREM SpecFramesInOrder == Spec => []FramesInOrder
<1>1. Init => OrderInv
  BY InitOrder
<1>2. OrderInv /\ [Next]_vars => OrderInv'
  BY NextOrder
<1>3. OrderInv => FramesInOrder
  BY OrderInvFrames
<1> QED
  BY <1>1, <1>2, <1>3, PTL DEF Spec
=============================================================================
