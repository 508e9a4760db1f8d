-------------------------- MODULE Scheduler_proofs --------------------------
(* Types, and the two safety properties of Scheduler, for any number of      *)
(* chains.                                                                   *)
EXTENDS Scheduler, TLAPS

\* As long as no start came during a run there is one chain at most: the one
\* whose timer is set last, or whose run is the current one.  A stop waits for
\* that run, and is back only when there is neither a run nor a timer.
ChainInv ==
  ~overlap =>
    /\ \A c, d \in Chains : chain[c] # "free" /\ chain[d] # "free" => c = d
    /\ \A c \in Chains : chain[c] = "timer" => isRunning /\ timer = c
    /\ \A c \in Chains : chain[c] = "run" => current = c
    /\ stop = "waiting" => ~isRunning /\ waitsFor \in Chains /\ chain[waitsFor] = "run"
    /\ stop = "back" => ~isRunning /\ \A c \in Chains : chain[c] # "run"

-----------------------------------------------------------------------------
\* No step breaks the types.
LEMMA TypeStep == TypeOK /\ [Next]_vars => TypeOK'
<1> SUFFICES ASSUME TypeOK, [Next]_vars PROVE TypeOK'
  OBVIOUS
<1> USE ChainsAssumption DEF TypeOK
<1>1. ASSUME NEW c \in Chains, Start(c) PROVE TypeOK'
  BY <1>1 DEF Start
<1>2. ASSUME NEW c \in Chains, Fire(c) PROVE TypeOK'
  BY <1>2 DEF Fire
<1>3. ASSUME NEW c \in Chains, NEW ok \in BOOLEAN, Settle(c, ok) PROVE TypeOK'
  BY <1>3 DEF Settle
<1>4. ASSUME NEW c \in Chains, Continue(c) PROVE TypeOK'
  BY <1>4 DEF Continue
<1>5. ASSUME NEW wait \in BOOLEAN, Stop(wait) PROVE TypeOK'
  BY <1>5 DEF Stop, Cleared, Awaits
<1>6. CASE UNCHANGED vars
  BY <1>6 DEF vars
<1> QED BY <1>1, <1>2, <1>3, <1>4, <1>5, <1>6 DEF Next, Step

\* No step breaks ChainInv: a start that is not an overlap finds no chain, a
\* stop leaves none but the current run, and the other steps move one chain on.
LEMMA ChainStep == TypeOK /\ ChainInv /\ [Next]_vars => ChainInv'
<1> SUFFICES ASSUME TypeOK, ChainInv, [Next]_vars, ~overlap' PROVE ChainInv'
  BY DEF ChainInv
<1>1. ~overlap
  BY DEF Next, Step, Start, Fire, Settle, Continue, Stop, vars
<1> USE <1>1, ChainsAssumption DEF TypeOK, ChainInv
<1>2. ASSUME NEW c \in Chains, Start(c) PROVE ChainInv'
  <2>1. \A d \in Chains : chain[d] = "free"
    BY <1>2 DEF Start
  <2>2. \A d \in Chains : chain'[d] = IF d = c THEN "timer" ELSE "free"
    BY <1>2, <2>1 DEF Start
  <2> QED BY <1>2, <2>2 DEF Start
<1>3. ASSUME NEW c \in Chains, Fire(c) PROVE ChainInv'
  <2>1. isRunning /\ \A d \in Chains : d # c => chain[d] = "free"
    BY <1>3 DEF Fire
  <2>2. \A d \in Chains : chain'[d] = IF d = c THEN "run" ELSE "free"
    BY <1>3, <2>1 DEF Fire
  <2> QED BY <1>3, <2>1, <2>2 DEF Fire
<1>4. ASSUME NEW c \in Chains, NEW ok \in BOOLEAN, Settle(c, ok) PROVE ChainInv'
  <2>1. \A d \in Chains : d # c => chain[d] = "free"
    BY <1>4 DEF Settle
  <2>2. \A d \in Chains : chain'[d] = IF d = c THEN "after" ELSE "free"
    BY <1>4, <2>1 DEF Settle
  <2>3. stop = "waiting" => waitsFor = c
    BY <1>4, <2>1
  <2> QED BY <1>4, <2>2, <2>3 DEF Settle
<1>5. ASSUME NEW c \in Chains, Continue(c) PROVE ChainInv'
  <2>1. \A d \in Chains : d # c => chain[d] = "free"
    BY <1>5 DEF Continue
  <2>2. \A d \in Chains : chain'[d] = IF d = c /\ isRunning THEN "timer" ELSE "free"
    BY <1>5, <2>1 DEF Continue
  <2>3. stop # "waiting"
    BY <1>5, <2>1 DEF Continue
  <2> QED BY <1>5, <2>2, <2>3 DEF Continue
<1>6. ASSUME NEW wait \in BOOLEAN, Stop(wait) PROVE ChainInv'
  <2>1. \A d \in Chains : chain'[d] = IF chain[d] = "timer" THEN "free" ELSE chain[d]
    BY <1>6 DEF Stop, Cleared
  <2>2. stop' = "waiting" => current \in Chains /\ chain[current] = "run" /\ waitsFor' = current
    BY <1>6 DEF Stop, Awaits
  <2>3. stop' = "back" => \A d \in Chains : chain[d] # "run"
    BY <1>6 DEF Stop, Awaits
  <2> QED BY <1>6, <2>1, <2>2, <2>3 DEF Stop
<1>7. CASE UNCHANGED vars
  BY <1>7 DEF vars
<1> QED BY <1>2, <1>3, <1>4, <1>5, <1>6, <1>7 DEF Next, Step

\* The types of the scheduler's fields, the chains and the stop.
THEOREM SchedulerTypeCorrect == Spec => []TypeOK
<1>1. Init => TypeOK
  BY DEF Init, TypeOK
<1> QED BY <1>1, TypeStep, PTL DEF Spec

\* ChainInv holds always.
LEMMA ChainAlways == Spec => []ChainInv
<1>1. Init => ChainInv
  BY DEF Init, ChainInv
<1> QED BY <1>1, ChainStep, SchedulerTypeCorrect, PTL DEF Spec

\* Runs of the worker never overlap, unless a start came during one.
THEOREM RunsDoNotOverlap == Spec => []OneRunAtATime
<1>1. TypeOK /\ ChainInv => OneRunAtATime
  BY DEF TypeOK, ChainInv, OneRunAtATime
<1> QED BY <1>1, SchedulerTypeCorrect, ChainAlways, PTL

\* A stop that waits comes back to a scheduler with no run and no timer.
THEOREM StopIsQuiet == Spec => []StoppedIsQuiet
<1>1. TypeOK /\ ChainInv => StoppedIsQuiet
  BY DEF TypeOK, ChainInv, StoppedIsQuiet
<1> QED BY <1>1, SchedulerTypeCorrect, ChainAlways, PTL

\* A scheduler that says it is running has a timer or a callback under way that
\* leads to the next run: neither an error of the worker nor a stop and a start
\* during a run leave it running with nothing scheduled, where a further start
\* would be ignored.
RunningHasAChain == isRunning => \E c \in Chains : chain[c] # "free"

-----------------------------------------------------------------------------
\* No step leaves a running scheduler without a chain.
LEMMA RunningStep == TypeOK /\ RunningHasAChain /\ [Next]_vars => RunningHasAChain'
<1> SUFFICES ASSUME TypeOK, RunningHasAChain, [Next]_vars, isRunning'
             PROVE  \E c \in Chains : chain'[c] # "free"
  BY DEF RunningHasAChain
<1> USE DEF TypeOK
<1>1. ASSUME NEW c \in Chains, Start(c) PROVE chain'[c] # "free"
  BY <1>1 DEF Start
<1>2. ASSUME NEW c \in Chains, Fire(c) PROVE chain'[c] # "free"
  BY <1>2 DEF Fire
<1>3. ASSUME NEW c \in Chains, NEW ok \in BOOLEAN, Settle(c, ok) PROVE chain'[c] # "free"
  BY <1>3 DEF Settle
<1>4. ASSUME NEW c \in Chains, Continue(c) PROVE chain'[c] # "free"
  BY <1>4 DEF Continue
<1>5. ASSUME NEW wait \in BOOLEAN, Stop(wait) PROVE FALSE
  BY <1>5 DEF Stop
<1>6. CASE UNCHANGED vars
  BY <1>6 DEF vars, RunningHasAChain
<1> QED BY <1>1, <1>2, <1>3, <1>4, <1>5, <1>6 DEF Next, Step

\* While the scheduler says it is running, something leads to the next run, with
\* overlapping starts as well: the safety part of RunsAgain.
THEOREM RunningIsScheduled == Spec => []RunningHasAChain
<1>1. Init => RunningHasAChain
  BY DEF Init, RunningHasAChain
<1> QED BY <1>1, RunningStep, SchedulerTypeCorrect, PTL DEF Spec
=============================================================================
