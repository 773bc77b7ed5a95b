----------------------------- MODULE EPLBProofs ------------------------------
(***************************************************************************)
(* The ring holds the latest loads at every rearrangement, for all sizes of *)
(* the window and of the interval.                                          *)
(***************************************************************************)
EXTENDS EPLB, TLAPS

TypeInv ==
  /\ window \in [0 .. Window - 1 -> Loads]
  /\ windowStep \in 0 .. Window - 1
  /\ step \in 0 .. Interval
  /\ steps \in Nat
  /\ recent \in [1 .. Window -> Loads]

\* How many of the latest forwards are in the ring.  Before the first rearrangement
\* all that there were, the others being NoLoad; later those since recording began,
\* if it has.
Fresh == IF step = Start + steps THEN Window ELSE step - (Interval - Window)

\* An entry that is recent enough is the load of the forward of its age.
RingInv ==
  /\ step <= Start + steps
  /\ step = Interval => steps = 0
  /\ step = 0 => \A i \in 0 .. Window - 1 : window[i] = recent[Age(windowStep, i)]
  /\ step # 0 => \A i \in 0 .. Window - 1 : Age(windowStep, i) <= Fresh => window[i] = recent[Age(windowStep, i)]

\* Entries are as old as they can be told apart, and no older.
LEMMA AgeRange ==
  ASSUME NEW w \in 0 .. Window - 1, NEW i \in 0 .. Window - 1
  PROVE  Age(w, i) \in 1 .. Window
  BY EPLBAssumption DEF Age

\* Start is in the last quarter of the interval.
LEMMA StartRange == Start \in 1 .. Interval /\ Interval - Start <= Window
  BY EPLBAssumption DEF Start

\* newMoESimulator: an empty ring.
LEMMA InitRing == WindowInit => TypeInv /\ RingInv
<1> SUFFICES ASSUME WindowInit PROVE TypeInv /\ RingInv
  OBVIOUS
<1>1. TypeInv
  BY EPLBAssumption, StartRange DEF WindowInit, TypeInv
<1>2. \A i \in 0 .. Window - 1 : window[i] = recent[Age(windowStep, i)]
  BY <1>1, AgeRange DEF WindowInit, TypeInv
<1> QED
  BY <1>1, <1>2, StartRange, EPLBAssumption DEF WindowInit, RingInv

\* advanceEPLBStep keeps it.
LEMMA NextRing ==
  ASSUME TypeInv, RingInv, NEW load \in Loads, Advance(load)
  PROVE  TypeInv' /\ RingInv'
<1> USE EPLBAssumption
<1>1. TypeInv'
  <2>1. window' \in [0 .. Window - 1 -> Loads]
    BY DEF TypeInv, Advance, recordEPLBLoad
  <2>2. windowStep' \in 0 .. Window - 1
    BY DEF TypeInv, Advance, nextWindowStep
  <2>3. step' \in 0 .. Interval /\ steps' \in Nat
    BY DEF TypeInv, Advance, Rearranges
  <2>4. recent' \in [1 .. Window -> Loads]
    BY DEF TypeInv, Advance
  <2> QED
    BY <2>1, <2>2, <2>3, <2>4 DEF TypeInv
<1>2. \A i \in 0 .. Window - 1 :
        Age(windowStep, i) \in 1 .. Window /\ Age(windowStep', i) \in 1 .. Window
  BY <1>1, AgeRange DEF TypeInv
\* The entry just written has age 1, the others are one older.
<1>3. ASSUME shouldRecordEPLBLoad, NEW i \in 0 .. Window - 1
      PROVE  IF i = windowStep THEN Age(windowStep', i) = 1 /\ Age(windowStep, i) = Window
             ELSE Age(windowStep', i) = Age(windowStep, i) + 1
  BY <1>3 DEF TypeInv, Advance, nextWindowStep, Age
<1>4. ASSUME shouldRecordEPLBLoad, NEW i \in 0 .. Window - 1,
             i # windowStep => window[i] = recent[Age(windowStep, i)]
      PROVE  window'[i] = recent'[Age(windowStep', i)]
  <2>1. CASE i = windowStep
    BY <2>1, <1>3, <1>4 DEF TypeInv, Advance, recordEPLBLoad
  <2>2. CASE i # windowStep
    <3>1. Age(windowStep', i) = Age(windowStep, i) + 1 /\ Age(windowStep', i) \in 1 .. Window /\ Age(windowStep, i) \in 1 .. Window
      BY <2>2, <1>3, <1>4, <1>2
    <3>2. recent'[Age(windowStep', i)] = recent[Age(windowStep, i)]
      BY <3>1 DEF Advance
    <3>3. window'[i] = window[i]
      BY <2>2, <1>4 DEF TypeInv, Advance, recordEPLBLoad
    <3> QED
      BY <2>2, <1>4, <3>2, <3>3
  <2> QED
    BY <2>1, <2>2
<1>5. step' <= Start + steps' /\ step' # Interval
  BY StartRange DEF TypeInv, RingInv, Advance, Rearranges
<1>6. CASE Rearranges
  \* The forward is recorded, and the Window - 1 before it were.
  <2>1. shouldRecordEPLBLoad /\ step' = 0
    BY <1>6, StartRange DEF TypeInv, Advance, Rearranges, shouldRecordEPLBLoad
  <2>2. ASSUME NEW i \in 0 .. Window - 1, i # windowStep
        PROVE  window[i] = recent[Age(windowStep, i)]
    <3>1. Age(windowStep, i) <= Window - 1
      BY <2>1, <2>2, <1>3, <1>2 DEF TypeInv
    <3>2. step # 0 => Age(windowStep, i) <= Fresh
      BY <1>6, <1>2, <3>1, StartRange DEF TypeInv, RingInv, Rearranges, Fresh
    <3> QED
      BY <3>2 DEF RingInv
  <2>3. \A i \in 0 .. Window - 1 : window'[i] = recent'[Age(windowStep', i)]
    BY <2>1, <2>2, <1>4
  <2> QED
    BY <1>1, <1>5, <2>1, <2>3 DEF RingInv
<1>7. CASE ~Rearranges
  <2>1. step' = step + 1 /\ step + 1 < Interval /\ steps' = steps + 1
    BY <1>7 DEF TypeInv, Advance, Rearranges
  <2>2. ASSUME NEW i \in 0 .. Window - 1, Age(windowStep', i) <= Fresh'
        PROVE  window'[i] = recent'[Age(windowStep', i)]
    <3>1. shouldRecordEPLBLoad
      BY <2>1, <2>2, <1>2, StartRange
      DEF TypeInv, RingInv, Fresh, shouldRecordEPLBLoad, Start
    <3>2. ASSUME i # windowStep
          PROVE  window[i] = recent[Age(windowStep, i)]
      <4>1. Age(windowStep', i) = Age(windowStep, i) + 1
        BY <3>1, <3>2, <1>3
      <4>2. step # 0 => Age(windowStep, i) <= Fresh
        BY <4>1, <2>1, <2>2, <1>2 DEF TypeInv, Fresh, Start
      <4> QED
        BY <4>2 DEF RingInv
    <3> QED
      BY <3>1, <3>2, <1>4
  <2> QED
    BY <1>1, <1>5, <2>1, <2>2 DEF RingInv, TypeInv
<1> QED
  BY <1>6, <1>7

\* The window that D'Hondt placement is computed from is the latest one, for every
\* Interval and Window of which the former's quarter fits in the latter.
THEOREM WindowCorrect == WindowSpec => []WindowIsRecent
<1>1. TypeInv /\ RingInv /\ [WindowNext]_windowVars => (TypeInv /\ RingInv)'
  <2> SUFFICES ASSUME TypeInv, RingInv, [WindowNext]_windowVars
               PROVE  (TypeInv /\ RingInv)'
    OBVIOUS
  <2>1. CASE WindowNext
    BY <2>1, NextRing DEF WindowNext
  <2>2. CASE UNCHANGED windowVars
    BY <2>2 DEF windowVars, TypeInv, RingInv, Age, Fresh, Start
  <2> QED
    BY <2>1, <2>2
<1>2. RingInv => WindowIsRecent
  BY DEF RingInv, WindowIsRecent
<1> QED
  BY InitRing, <1>1, <1>2, PTL DEF WindowSpec
=============================================================================
