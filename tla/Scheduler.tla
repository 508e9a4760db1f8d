----------------------------- MODULE Scheduler -----------------------------
(***************************************************************************)
(* The scheduler behind the observer and the updater: a worker that runs   *)
(* again and again, a timer between the runs, and a stop that waits for    *)
(* the run in progress.                                                    *)
(*                                                                         *)
(* A chain is what one start begins: a timer, its callback, a run of the   *)
(* worker, the rest of the callback, the next timer.  The awaits of run    *)
(* and of the callback are where other calls come in between.  Time is     *)
(* abstracted: a timer that is set may fire.                               *)
(***************************************************************************)

CONSTANTS
  Chains,  \* bound: chains there are at a time
  None     \* null

ASSUME ChainsAssumption == None \notin Chains

VARIABLES
  isRunning,  \* #isRunning
  timer,      \* #timer: the chain whose timer was set last, fired or not
  current,    \* #currentWorkerRun: the chain whose worker was called last
  chain,      \* per chain: free, its timer set, in the worker, after the worker
  stop,       \* the last stop: none since start, waiting for a run, or back
  waitsFor,   \* the run it waits for
  overlap     \* a start came during a run (history)

vars == <<isRunning, timer, current, chain, stop, waitsFor, overlap>>

\* Type correctness; #currentWorkerRun is a run in progress.
TypeOK ==
  /\ isRunning \in BOOLEAN
  /\ timer \in Chains \cup {None}
  /\ current \in {c \in Chains : chain[c] = "run"} \cup {None}
  /\ chain \in [Chains -> {"free", "timer", "run", "after"}]
  /\ stop \in {"none", "waiting", "back"}
  /\ waitsFor \in Chains \cup {None}
  /\ overlap \in BOOLEAN

Init ==
  /\ isRunning = FALSE
  /\ timer = None
  /\ current = None
  /\ chain = [c \in Chains |-> "free"]
  /\ stop = "none"
  /\ waitsFor = None
  /\ overlap = FALSE

-----------------------------------------------------------------------------
\* start sets the first timer, unless the scheduler is running.
Start(c) ==
  /\ ~isRunning
  /\ chain[c] = "free"
  /\ isRunning' = TRUE
  /\ chain' = [chain EXCEPT ![c] = "timer"]
  /\ timer' = c
  /\ stop' = "none"
  /\ waitsFor' = None
  /\ overlap' = (overlap \/ \E d \in Chains : chain[d] \in {"run", "after"})
  /\ UNCHANGED current

\* The timer fires and run calls the worker; after a stop it returns at once.
Fire(c) ==
  /\ chain[c] = "timer"
  /\ IF isRunning
     THEN chain' = [chain EXCEPT ![c] = "run"] /\ current' = c
     ELSE chain' = [chain EXCEPT ![c] = "after"] /\ UNCHANGED current
  /\ UNCHANGED <<isRunning, timer, stop, waitsFor, overlap>>

\* The worker's promise settles; run catches what it throws and forgets the
\* run, and a stop that waits for it comes back.
\* (Mutants: an error ends the chain; the finally is missing.)
SettleUncaught(c, ok) ==
  /\ chain[c] = "run"
  /\ chain' = [chain EXCEPT ![c] = IF ok THEN "after" ELSE "free"]
  /\ current' = None
  /\ stop' = IF stop = "waiting" /\ waitsFor = c THEN "back" ELSE stop
  /\ UNCHANGED <<isRunning, timer, waitsFor, overlap>>
SettleUnforgotten(c, ok) ==
  /\ chain[c] = "run"
  /\ chain' = [chain EXCEPT ![c] = "after"]
  /\ stop' = IF stop = "waiting" /\ waitsFor = c THEN "back" ELSE stop
  /\ UNCHANGED <<isRunning, timer, current, waitsFor, overlap>>
Settle(c, ok) ==
  /\ chain[c] = "run"
  /\ chain' = [chain EXCEPT ![c] = "after"]
  /\ current' = None
  /\ stop' = IF stop = "waiting" /\ waitsFor = c THEN "back" ELSE stop
  /\ UNCHANGED <<isRunning, timer, waitsFor, overlap>>

\* The rest of the callback: the next timer, unless stopped.
\* (Mutant: it sets the next timer whether stopped or not.)
ContinueStopped(c) ==
  /\ chain[c] = "after"
  /\ chain' = [chain EXCEPT ![c] = "timer"]
  /\ timer' = c
  /\ UNCHANGED <<isRunning, current, stop, waitsFor, overlap>>
Continue(c) ==
  /\ chain[c] = "after"
  /\ IF isRunning
     THEN chain' = [chain EXCEPT ![c] = "timer"] /\ timer' = c
     ELSE chain' = [chain EXCEPT ![c] = "free"] /\ UNCHANGED timer
  /\ UNCHANGED <<isRunning, current, stop, waitsFor, overlap>>

\* clearTimeout, which does nothing to a timer that has fired.
\* (Mutant: the timer is left.)
ClearedNothing == chain
Cleared == [c \in Chains |-> IF c = timer /\ chain[c] = "timer" THEN "free" ELSE chain[c]]

\* (Mutant: the run in progress is not waited for.)
AwaitsNothing(wait) == FALSE
Awaits(wait) == wait /\ current # None

\* stop clears the timer and, if asked to, waits for the run in progress.  A
\* second stop finds the scheduler stopped and returns, whatever is in progress.
Stop(wait) ==
  /\ isRunning
  /\ isRunning' = FALSE
  /\ chain' = Cleared
  /\ timer' = None
  /\ stop' = IF Awaits(wait) THEN "waiting" ELSE IF wait THEN "back" ELSE "none"
  /\ waitsFor' = IF Awaits(wait) THEN current ELSE None
  /\ UNCHANGED <<current, overlap>>

-----------------------------------------------------------------------------
Step(c) == Fire(c) \/ Continue(c) \/ \E ok \in BOOLEAN : Settle(c, ok)

Next ==
  \/ \E c \in Chains : Start(c) \/ Step(c)
  \/ \E wait \in BOOLEAN : Stop(wait)

Spec == Init /\ [][Next]_vars

\* Timers fire and the worker's promise settles; nobody has to start or stop.
Fairness == \A c \in Chains : WF_vars(Step(c))

FairSpec == Spec /\ Fairness

-----------------------------------------------------------------------------
(* Properties. *)

\* Two runs of the worker never overlap, through any number of stops and starts
\* of which none comes during a run: the observer's rounds are one after the
\* other.  (A start during a run leaves two chains that both go on.)
OneRunAtATime ==
  ~overlap => \A c, d \in Chains : chain[c] = "run" /\ chain[d] = "run" => c = d

\* When a stop that waits has come back, no run is in progress and no timer is
\* left that would begin one.
StoppedIsQuiet ==
  ~overlap /\ stop = "back" => \A c \in Chains : chain[c] \in {"free", "after"}

\* A scheduler that is not stopped runs its worker again and again, whether or
\* not the worker throws.
RunsAgain ==
  []<>(~isRunning \/ \E c \in Chains : chain[c] = "run")

\* After a stop everything winds down, even the chains of overlapping starts,
\* unless there is another start.
StopWindsDown ==
  ~isRunning ~> (isRunning \/ \A c \in Chains : chain[c] = "free")
=============================================================================
