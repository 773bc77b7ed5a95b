-------------------------------- MODULE EPLB ---------------------------------
(***************************************************************************)
(* The load window of the expert load balancer.  A ring of Window entries   *)
(* keeps the loads of the forwards that shortly precede a rearrangement,    *)
(* which happens every Interval forwards, the first one after a quarter of  *)
(* that.  The ring is never cleared.                                        *)
(***************************************************************************)
EXTENDS Integers

CONSTANTS
  Interval,        \* vllmEPLBStepInterval (3000)
  Window,          \* vllmEPLBWindowSize (1000)
  Loads, NoLoad    \* what a forward asks of the experts

\* The quarter of the interval before the first rearrangement fits in the window.
ASSUME EPLBAssumption ==
  /\ Interval \in Nat \ {0} /\ Window \in Nat \ {0}
  /\ Window <= Interval /\ Interval \div 4 <= Window
  /\ NoLoad \in Loads

VARIABLES
  window,          \* eplbLoadWindow
  windowStep,      \* eplbLoadWindowStep
  step,            \* expertRearrangementStep
  steps,           \* history: number of EPLB steps
  recent           \* history: recent[j] is the load of the j-th latest EPLB step

windowVars == <<window, windowStep, step, steps, recent>>

Start == Interval - Interval \div 4

\* (variant) one forward too few is recorded before a rearrangement.
shouldRecordEPLBLoad_OffByOne == Interval - step < Window

shouldRecordEPLBLoad == Interval - step <= Window

\* The window after the forward, which a rearrangement sums up.
recordEPLBLoad(load) ==
  IF shouldRecordEPLBLoad THEN [window EXCEPT ![windowStep] = load] ELSE window

nextWindowStep ==
  IF ~shouldRecordEPLBLoad THEN windowStep
  ELSE IF windowStep + 1 >= Window THEN 0 ELSE windowStep + 1

Rearranges == step + 1 >= Interval

Advance(load) ==
  /\ window' = recordEPLBLoad(load)
  /\ windowStep' = nextWindowStep
  /\ step' = IF Rearranges THEN 0 ELSE step + 1
  /\ steps' = steps + 1
  /\ recent' = [j \in 1 .. Window |-> IF j = 1 THEN load ELSE recent[j - 1]]

WindowInit ==
  /\ window = [i \in 0 .. Window - 1 |-> NoLoad]
  /\ windowStep = 0
  /\ step = Start
  /\ steps = 0
  /\ recent = [j \in 1 .. Window |-> NoLoad]

WindowNext == \E load \in Loads : Advance(load)

WindowSpec == WindowInit /\ [][WindowNext]_windowVars

------------------------------------------------------------------------------
\* How many recordings ago entry i was written, if it was, when w is the next to be.
Age(w, i) == IF i < w THEN w - i ELSE w + Window - i

\* docs/moe-routing.md: "Later rearrangements occur every 3000 forward steps and use
\* the most recent 1000 recorded steps".  At a rearrangement (which leaves step at 0)
\* the entries of the ring are the loads of the latest Window forwards, each one once;
\* none is left over from before the previous rearrangement.
WindowIsRecent ==
  step = 0 => \A i \in 0 .. Window - 1 : window[i] = recent[Age(windowStep, i)]
=============================================================================
