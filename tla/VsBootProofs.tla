----------------------------- MODULE VsBootProofs -----------------------------
(***************************************************************************)
(* What holds of the extra keys row and of the hardware keyboard over the  *)
(* web view, for any number of buttons, fingers and executor threads: a    *)
(* tapped modifier is used for one key, a locked one stays, a tap types or *)
(* toggles, and the page sees every key go up as it saw it go down.        *)
(*                                                                         *)
(* The listener and the threads come upon each other's tasks only through  *)
(* Stopped and SetTask, so these are described first.                      *)
(***************************************************************************)
EXTENDS VsBoot, FiniteSetTheorems, TLAPS

USE ButtonsAssumption, BoundsAssumption

-----------------------------------------------------------------------------
(* Tasks.                                                                  *)

Steps == {"free", "timer", "count", "read", "clear", "send", "dead"}
Tasks == [step : Steps, button : Buttons \cup {NoButton}, todo : SUBSET Specials]

\* A thread that is about to make modifiers inactive, m among them.
Clearing(tasks, t, m) == tasks[t].step = "clear" /\ m \in tasks[t].todo

\* No task is one.
LEMMA NoTaskIs ==
  /\ NoTask \in Tasks /\ NoTask.step = "free" /\ NoTask.todo = {}
BY DEF NoTask, Tasks, Steps

\* What stopping the executors leaves: tasks in the middle of a key, which go on.
LEMMA StoppedIs ==
  ASSUME task \in [Threads -> Tasks], NEW t \in Threads
  PROVE  /\ Stopped(t) \in Tasks
         /\ Stopped(t).step \notin {"timer", "dead"}
         /\ Stopped(t).step = "clear" <=> task[t].step = "clear"
         /\ task[t].step = "clear" => Stopped(t) = task[t]
         /\ task[t].step \in {"free", "timer", "dead"} => Stopped(t).step = "free"
<1>1. task[t] \in Tasks
  OBVIOUS
<1>2. CASE task[t].step \in {"timer", "dead"}
  BY <1>2, NoTaskIs DEF Stopped
<1>3. CASE task[t].step \notin {"timer", "dead"}
  BY <1>1, <1>3 DEF Stopped
<1>4. QED  BY <1>2, <1>3

\* A thread takes its next step, for the same button.
LEMMA SetTaskIs ==
  ASSUME task \in [Threads -> Tasks], NEW t \in Threads,
         NEW step \in Steps, NEW todo \in SUBSET Specials, SetTask(t, step, todo)
  PROVE  /\ task' \in [Threads -> Tasks]
         /\ task'[t].step = step /\ task'[t].todo = todo /\ task'[t].button = task[t].button
         /\ \A u \in Threads : u # t => task'[u] = task[u]
<1>1. task[t] \in Tasks
  OBVIOUS
<1>. DEFINE next == [[task[t] EXCEPT !.step = step] EXCEPT !.todo = todo]
<1>2. next \in Tasks /\ next.step = step /\ next.todo = todo /\ next.button = task[t].button
  BY <1>1 DEF Tasks
<1>3. task' = [task EXCEPT ![t] = next]
  BY DEF SetTask
<1>. HIDE DEF next
<1>4. QED  BY <1>2, <1>3

-----------------------------------------------------------------------------
(* The invariants.                                                         *)

\* Fingers are so many that they can be counted.
Fingers ==
  touched \subseteq Buttons /\ IsFiniteSet(touched) /\ Cardinality(touched) <= MaxFingers

\* An executor is at work for a button that a finger is on, and a task that
\* waits for its turn or has died is that of the executor.
TaskInv ==
  /\ task \in [Threads -> Tasks]
  /\ executor \in Threads \cup {NoThread}
  /\ executor # NoThread => task[executor].button \in touched
  /\ \A t \in Threads : task[t].step \in {"timer", "dead"} => t = executor

Modifiers ==
  /\ active \subseteq Specials /\ locked \subseteq Specials
  /\ longHold \in touched \cap Specials \/ longHold = NoButton
  /\ uses \in [Specials -> 0..MaxUses]

Histories ==
  /\ mLongPressCount \in 0..1
  /\ pressing \in touched \cup {NoButton}
  /\ long \in {"no", "locked", "unlocked"}

Flags == popup \in BOOLEAN /\ typed \in BOOLEAN /\ crossed \in BOOLEAN

ViewTypes == Fingers /\ TaskInv /\ Modifiers /\ Histories /\ Flags

\* The press under way: a long press is counted; while nothing has disturbed
\* the press of a button that does not repeat there is no popup and no thread
\* at work, the runnable posted is its own, and nothing else is counted.
PressInv ==
  /\ long # "no" => mLongPressCount = 1
  /\ pressing # NoButton =>
        /\ ~popup
        /\ pressing \notin Repetitive =>
              /\ \A t \in Threads : task[t].step = "free"
              /\ longHold \in {NoButton, pressing}
              /\ mLongPressCount # 0 => long # "no" /\ pressing \in Specials

\* A modifier that has been used and is still active is about to be made
\* inactive, by a thread that nobody has crossed.
UsesInv ==
  crossed \/ \A m \in Specials :
     /\ uses[m] <= 1
     /\ m \in active \ locked /\ uses[m] > 0 => \E t \in Threads : Clearing(task, t, m)

\* The codes of a key: under whatever modifiers and whether or not its event
\* is a copy, for the keys KeyUpsMatch is about there is one.
Codes(k) ==
  CASE k = "a" -> {"KeyA"} [] k = "RightShift" -> {"ShiftLeft"}
    [] k = "c" -> {"KeyC", "undefined"} [] k = "1" -> {"Digit1", "undefined"}
    [] k = "Enter" -> {"Enter", "KeyEnter"} [] OTHER -> {k}

HeldInv ==
  /\ held \in [HwKeys -> SUBSET UNION {Codes(k) : k \in HwKeys}]
  /\ \A k \in HwKeys : held[k] \subseteq Codes(k)

IInv == ViewTypes /\ PressInv /\ UsesInv /\ HeldInv

-----------------------------------------------------------------------------
(* The page: the code of an event.                                         *)

\* vsboot.js finds one of the key's codes for every event of the key, with or
\* without a scan code and under any modifiers.
LEMMA CodeIs ==
  ASSUME NEW k \in HwKeys, NEW mods, NEW c \in {"", ScanCode(k)}
  PROVE  code(Event(k, mods, c)) \in Codes(k)
<1>. DEFINE e == Event(k, mods, c)
<1>1. k \in {"a", "c", "1", "Enter", "Escape", "Backspace", "F1", "RightShift"}
  BY HwKeysAssumption
<1>2. e.which = k /\ e.key = KeyOf(k, mods) /\ e.code = c
  BY DEF Event
<1>3. /\ DOMAIN customKeyRemapper = {"Backspace", "Control", "Alt"}
      /\ customKeyRemapper["Backspace"] = "Backspace"
      /\ DOMAIN Letters = {"a", "c", "A", "C", "Enter", "ArrowUp"}
      /\ Letters["a"] = "KeyA" /\ Letters["A"] = "KeyA"
      /\ Letters["c"] = "KeyC" /\ Letters["C"] = "KeyC" /\ Letters["Enter"] = "KeyEnter"
  BY DEF customKeyRemapper, Letters, Lower, Upper
<1>. HIDE DEF e
<1>4. CASE k = "a"
  <2>1. e.key \in {"a", "A"} /\ e.code \in {"", "KeyA"}
    BY <1>2, <1>4 DEF KeyOf, ScanCode
  <2>2. prepareCustomProps(e) = "KeyA"
    BY <1>2, <1>3, <1>4, <2>1 DEF prepareCustomProps, customMapper
  <2>3. QED  BY <1>4, <2>2 DEF code, Codes, e
<1>5. CASE k = "c"
  <2>1. e.key \in {"c", "C", "other"} /\ e.code \in {"", "KeyC"}
    BY <1>2, <1>5 DEF KeyOf, ScanCode
  <2>2. prepareCustomProps(e) \in {"KeyC", "undefined"}
    BY <1>2, <1>3, <1>5, <2>1 DEF prepareCustomProps, customMapper
  <2>3. QED  BY <1>5, <2>2 DEF code, Codes, e
<1>6. CASE k = "1"
  <2>1. e.key \in {"1", "!"} /\ e.code \in {"", "Digit1"}
    BY <1>2, <1>6 DEF KeyOf, ScanCode
  <2>2. prepareCustomProps(e) \in {"Digit1", "undefined"}
    BY <1>2, <1>3, <1>6, <2>1 DEF prepareCustomProps, customMapper
  <2>3. QED  BY <1>6, <2>2 DEF code, Codes, e
<1>7. CASE k = "Enter"
  <2>1. e.key = "Enter" /\ e.code \in {"", "Enter"}
    BY <1>2, <1>7 DEF KeyOf, ScanCode
  <2>2. prepareCustomProps(e) \in {"Enter", "KeyEnter"}
    BY <1>2, <1>3, <1>7, <2>1 DEF prepareCustomProps, customMapper
  <2>3. QED  BY <1>7, <2>2 DEF code, Codes, e
<1>8. CASE k = "RightShift"
  <2>1. e.key = "Shift"
    BY <1>2, <1>8 DEF KeyOf
  <2>2. prepareCustomProps(e) = "ShiftLeft"
    BY <1>2, <1>3, <1>8, <2>1 DEF prepareCustomProps, customMapper
  <2>3. QED  BY <1>8, <2>2 DEF code, Codes, e
<1>9. CASE k = "Escape"
  <2>1. e.key = "Escape"
    BY <1>2, <1>9 DEF KeyOf
  <2>2. prepareCustomProps(e) = "Escape"
    BY <1>2, <1>3, <1>9, <2>1 DEF prepareCustomProps, customMapper
  <2>3. QED  BY <1>9, <2>2 DEF code, Codes, e
<1>10. CASE k = "F1"
  <2>1. e.key = "F1"
    BY <1>2, <1>10 DEF KeyOf
  <2>2. prepareCustomProps(e) = "F1"
    BY <1>2, <1>3, <1>10, <2>1 DEF prepareCustomProps, customMapper
  <2>3. QED  BY <1>10, <2>2 DEF code, Codes, e
<1>11. CASE k = "Backspace"
  <2>1. e.key = "Backspace" /\ e.code \in {"", "Backspace"}
    BY <1>2, <1>11 DEF KeyOf, ScanCode
  <2>2. prepareCustomProps(e) = "Backspace"
    BY <1>2, <1>3, <1>11, <2>1 DEF prepareCustomProps, customMapper
  <2>3. QED  BY <1>11, <2>2 DEF code, Codes, e
<1>12. QED  BY <1>1, <1>4, <1>5, <1>6, <1>7, <1>8, <1>9, <1>10, <1>11

-----------------------------------------------------------------------------
(* Modifiers.                                                              *)

\* How often a modifier has been used stays within its bound.
LEMMA UsesIs ==
  ASSUME ViewTypes, NEW on, NEW carried
  PROVE  /\ UsesAfter(on, carried) \in [Specials -> 0..MaxUses]
         /\ \A m \in Specials :
              /\ m \in on => UsesAfter(on, carried)[m] = 0
              /\ m \notin on /\ m \notin carried \ locked => UsesAfter(on, carried)[m] = uses[m]
              /\ uses[m] = 0 => UsesAfter(on, carried)[m] <= 1
<1>1. MaxUses \in Nat /\ uses \in [Specials -> 0..MaxUses]
  BY DEF ViewTypes, Modifiers
<1>2. \A m \in Specials : uses[m] \in 0..MaxUses
  BY <1>1
<1>3. \A m \in Specials : Capped(uses[m] + 1) \in 0..MaxUses
  BY <1>1, <1>2 DEF Capped
<1>4. \A m \in Specials : uses[m] = 0 => Capped(uses[m] + 1) <= 1
  BY <1>1 DEF Capped
<1>5. \A m \in Specials :
        UsesAfter(on, carried)[m] = IF m \in on THEN 0
                                    ELSE IF m \in carried \ locked THEN Capped(uses[m] + 1)
                                    ELSE uses[m]
  BY DEF UsesAfter
<1>6. \A m \in Specials : UsesAfter(on, carried)[m] \in 0..MaxUses
  BY <1>1, <1>2, <1>3, <1>5
<1>7. UsesAfter(on, carried) \in [Specials -> 0..MaxUses]
  BY <1>6 DEF UsesAfter
<1>8. QED  BY <1>4, <1>5, <1>7

\* What a modifier's history says stays true while modifiers and uses stay.
LEMMA UsesKept ==
  ASSUME UsesInv, UNCHANGED <<active, locked, uses, crossed>>,
         \A t \in Threads, m \in Specials : Clearing(task, t, m) => Clearing(task', t, m)
  PROVE  UsesInv'
<1>1. CASE crossed
  BY <1>1 DEF UsesInv
<1>2. CASE ~crossed
  <2>1. ASSUME NEW m \in Specials
        PROVE  /\ uses'[m] <= 1
               /\ m \in active' \ locked' /\ uses'[m] > 0 =>
                    \E t \in Threads : Clearing(task', t, m)
    BY <1>2 DEF UsesInv
  <2>. HIDE DEF Clearing
  <2>2. QED  BY <2>1 DEF UsesInv
<1>3. QED  BY <1>1, <1>2

\* A key typed on the main thread makes every modifier that is not locked
\* inactive; one that a thread is about to make inactive it crosses.
LEMMA TypeKeyKeeps ==
  ASSUME ViewTypes, UsesInv, TypeKey
  PROVE  /\ UsesInv'
         /\ active' \subseteq Specials /\ locked' \subseteq Specials
         /\ uses' \in [Specials -> 0..MaxUses]
         /\ typed' = TRUE /\ crossed' \in BOOLEAN
<1>1. /\ active' = active \ (active \ locked) /\ locked' = locked
      /\ uses' = UsesAfter({}, Carried)
      /\ crossed' = (crossed \/ Reading(NoThread) # {}) /\ typed' = TRUE
  BY DEF TypeKey, UsedUp
<1>2. /\ uses' \in [Specials -> 0..MaxUses]
      /\ \A m \in Specials : /\ m \notin active \ locked => uses'[m] = uses[m]
                             /\ uses[m] = 0 => uses'[m] <= 1
  BY <1>1, UsesIs DEF Carried
<1>3. UsesInv'
  <2>1. CASE crossed'
    BY <2>1 DEF UsesInv
  <2>2. CASE ~crossed'
    <3>1. ~crossed /\ \A t \in Threads : task[t].step # "clear"
      BY <1>1, <2>2 DEF Reading
    <3>2. ASSUME NEW m \in Specials
          PROVE  uses'[m] <= 1
      <4>1. uses[m] <= 1 /\ (m \in active \ locked => ~(uses[m] > 0))
        BY <3>1 DEF UsesInv, Clearing
      <4>2. uses[m] \in 0..MaxUses
        BY DEF ViewTypes, Modifiers
      <4>3. QED  BY <1>2, <4>1, <4>2
    <3>3. active' \ locked' = {}
      BY <1>1
    <3>4. QED  BY <3>2, <3>3 DEF UsesInv
  <2>3. QED  BY <2>1, <2>2
<1>4. crossed' \in BOOLEAN
  BY <1>1, Zenon
<1>5. QED  BY <1>1, <1>2, <1>3, <1>4 DEF ViewTypes, Modifiers

\* A modifier that becomes active, by a tap or by a long press, or inactive has
\* been used for no key.
LEMMA SwitchKeeps ==
  ASSUME ViewTypes, UsesInv, NEW m \in Specials,
         active' = IF m \in active THEN active \ {m} ELSE active \cup {m},
         locked' \in {locked, locked \ {m}, locked \cup {m}},
         uses' = UsesAfter({m}, {}), UNCHANGED crossed,
         \A t \in Threads, n \in Specials : Clearing(task, t, n) => Clearing(task', t, n)
  PROVE  /\ UsesInv'
         /\ active' \subseteq Specials /\ locked' \subseteq Specials
         /\ uses' \in [Specials -> 0..MaxUses]
<1>1. active' \subseteq Specials /\ locked' \subseteq Specials
  BY DEF ViewTypes, Modifiers
<1>2. /\ uses' \in [Specials -> 0..MaxUses] /\ uses'[m] = 0
      /\ \A n \in Specials : n # m => uses'[n] = uses[n]
  BY UsesIs
<1>3. UsesInv'
  <2>1. CASE crossed
    BY <2>1 DEF UsesInv
  <2>2. CASE ~crossed
    <3>1. ASSUME NEW n \in Specials
          PROVE  /\ uses'[n] <= 1
                 /\ n \in active' \ locked' /\ uses'[n] > 0 =>
                      \E t \in Threads : Clearing(task', t, n)
      <4>1. CASE n = m
        BY <1>2, <4>1
      <4>2. CASE n # m
        <5>. HIDE DEF Clearing
        <5>1. n \in active' \ locked' => n \in active \ locked
          BY <4>2
        <5>2. QED  BY <1>2, <2>2, <4>2, <5>1 DEF UsesInv
      <4>3. QED  BY <4>1, <4>2
    <3>. HIDE DEF Clearing
    <3>2. QED  BY <3>1 DEF UsesInv
  <2>3. QED  BY <2>1, <2>2
<1>4. QED  BY <1>1, <1>2, <1>3

-----------------------------------------------------------------------------
(* The touch listener and the long-press runnable.                         *)

ViewInv == ViewTypes /\ PressInv /\ UsesInv

\* The executors are stopped: nobody works for a button any more, and a thread
\* in the middle of a key goes on.
LEMMA StopIs ==
  ASSUME TaskInv, StopExecutors
  PROVE  /\ TaskInv' /\ longHold' = NoButton
         /\ \A t \in Threads : task'[t].step = "free" \/ task[t].step # "free"
         /\ \A t \in Threads, m \in Specials : Clearing(task, t, m) => Clearing(task', t, m)
<1>1. /\ task' = [t \in Threads |-> Stopped(t)] /\ executor' = NoThread /\ longHold' = NoButton
  BY DEF StopExecutors
<1>2. task \in [Threads -> Tasks]
  BY DEF TaskInv
<1>3. \A t \in Threads : /\ task'[t] \in Tasks
                         /\ task'[t].step \notin {"timer", "dead"}
                         /\ task[t].step = "clear" => task'[t] = task[t]
                         /\ task[t].step = "free" => task'[t].step = "free"
  BY <1>1, <1>2, StoppedIs
<1>4. task' \in [Threads -> Tasks]
  BY <1>1, <1>3
<1>5. TaskInv'
  BY <1>1, <1>3, <1>4 DEF TaskInv
<1>6. QED  BY <1>1, <1>3, <1>5 DEF Clearing

\* One finger less, or the same fingers.
LEMMA FingerUp ==
  ASSUME Fingers, NEW b, touched' = touched \ {b}
  PROVE  Fingers'
<1>1. IsFiniteSet(touched \ {b}) /\ Cardinality(touched \ {b}) <= Cardinality(touched)
  BY FS_Subset DEF Fingers
<1>2. Cardinality(touched) \in Nat /\ Cardinality(touched \ {b}) \in Nat
  BY <1>1, FS_CardinalityType DEF Fingers
<1>3. QED  BY <1>1, <1>2 DEF Fingers

\* A finger goes down on a button.
LEMMA DownKeeps ==
  ASSUME ViewInv, NEW b \in Buttons, Down(b)
  PROVE  ViewInv'
<1>1. /\ b \notin touched /\ Cardinality(touched) < MaxFingers
      /\ touched' = touched \cup {b} /\ mLongPressCount' = 0
      /\ pressing' = IF InFlight \/ popup THEN NoButton ELSE b
      /\ long' = "no" /\ typed' = FALSE
      /\ UNCHANGED <<active, locked, popup, uses, crossed>>
  BY DEF Down, StartCount
<1>2. Fingers /\ TaskInv /\ Modifiers /\ Histories /\ Flags /\ PressInv /\ UsesInv
  BY DEF ViewInv, ViewTypes
<1>3. Fingers'
  <2>1. /\ IsFiniteSet(touched \cup {b})
        /\ Cardinality(touched \cup {b}) = Cardinality(touched) + 1
    BY <1>1, <1>2, FS_AddElement DEF Fingers
  <2>2. Cardinality(touched) \in Nat
    BY <1>2, FS_CardinalityType DEF Fingers
  <2>3. QED  BY <1>1, <1>2, <2>1, <2>2 DEF Fingers
<1>4. task \in [Threads -> Tasks] /\ \A t \in Threads : task[t] \in Tasks
  BY <1>2 DEF TaskInv
<1>5. /\ TaskInv'
      /\ longHold' = IF b \in Specials THEN b ELSE NoButton
      /\ \A t \in Threads, m \in Specials : Clearing(task, t, m) => Clearing(task', t, m)
      /\ b \notin Repetitive =>
           \A t \in Threads : task[t].step \in {"free", "timer", "dead"} => task'[t].step = "free"
  <2>1. \A t \in Threads : /\ Stopped(t) \in Tasks
                           /\ Stopped(t).step \notin {"timer", "dead"}
                           /\ task[t].step = "clear" => Stopped(t) = task[t]
                           /\ task[t].step \in {"free", "timer", "dead"} => Stopped(t).step = "free"
    BY <1>4, StoppedIs
  <2>2. CASE b \in Repetitive
    <3>1. PICK t \in Threads :
            /\ task[t] = NoTask /\ executor' = t /\ longHold' = NoButton
            /\ task' = [u \in Threads |->
                          IF u = t THEN [step |-> "timer", button |-> b, todo |-> {}] ELSE Stopped(u)]
      BY <2>2 DEF Down
    <3>2. /\ [step |-> "timer", button |-> b, todo |-> {}] \in Tasks
          /\ b \notin Specials
      BY <2>2 DEF Tasks, Steps, Keys
    <3>3. /\ task'[t].button = b /\ \A u \in Threads : u # t => task'[u] = Stopped(u)
          /\ task' \in [Threads -> Tasks]
      BY <2>1, <3>1, <3>2
    <3>4. TaskInv'
      BY <1>1, <2>1, <3>1, <3>3 DEF TaskInv
    <3>5. \A u \in Threads, m \in Specials : Clearing(task, u, m) => Clearing(task', u, m)
      BY <2>1, <3>1, <3>3, NoTaskIs DEF Clearing
    <3>6. QED  BY <2>2, <3>1, <3>2, <3>4, <3>5
  <2>3. CASE b \notin Repetitive
    <3>1. /\ longHold' = IF b \in Specials THEN b ELSE NoButton
          /\ executor' = NoThread /\ task' = [t \in Threads |-> Stopped(t)]
      BY <2>3 DEF Down
    <3>2. task' \in [Threads -> Tasks] /\ \A t \in Threads : task'[t] = Stopped(t)
      BY <2>1, <3>1
    <3>3. QED  BY <2>1, <3>1, <3>2 DEF TaskInv, Clearing
  <2>4. QED  BY <2>2, <2>3
<1>6. Modifiers' /\ Histories' /\ Flags'
  <2>1. Modifiers'
    BY <1>1, <1>2, <1>5 DEF Modifiers
  <2>2. Histories'
    BY <1>1, <1>2 DEF Histories
  <2>3. Flags'
    BY <1>1, <1>2 DEF Flags
  <2>4. QED  BY <2>1, <2>2, <2>3
<1>7. PressInv'
  <2>1. ASSUME pressing' # NoButton, pressing' \notin Repetitive
        PROVE  /\ \A t \in Threads : task'[t].step = "free"
               /\ longHold' \in {NoButton, pressing'}
    <3>1. ~InFlight /\ pressing' = b
      BY <1>1, <2>1
    <3>2. \A t \in Threads : task[t].step \in {"free", "timer", "dead"}
      BY <1>4, <3>1 DEF InFlight, Tasks, Steps
    <3>3. QED  BY <1>5, <2>1, <3>1, <3>2
  <2>2. pressing' # NoButton => ~popup'
    BY <1>1
  <2>3. QED  BY <1>1, <2>1, <2>2 DEF PressInv
<1>8. UsesInv'
  BY <1>1, <1>2, <1>5, UsesKept
<1>9. QED  BY <1>3, <1>5, <1>6, <1>7, <1>8 DEF ViewInv, ViewTypes

\* A popup comes or goes while the finger moves, or the gesture is taken away.
LEMMA MoveKeeps ==
  ASSUME ViewInv, NEW b \in Buttons, SwipeUp(b) \/ SwipeDown(b) \/ Cancel(b)
  PROVE  ViewInv'
<1>1. Fingers /\ TaskInv /\ Modifiers /\ Histories /\ Flags /\ PressInv /\ UsesInv
  BY DEF ViewInv, ViewTypes
<1>2. CASE SwipeDown(b)
  <2>1. /\ popup /\ popup' = FALSE
        /\ UNCHANGED <<touched, longHold, executor, mLongPressCount, active, locked, task,
                       pressing, long, typed, uses, crossed>>
    BY <1>2 DEF SwipeDown, pressVars
  <2>2. Fingers' /\ TaskInv' /\ Modifiers' /\ Histories' /\ Flags'
    BY <1>1, <2>1 DEF Fingers, TaskInv, Modifiers, Histories, Flags
  <2>3. PressInv'
    BY <1>1, <2>1 DEF PressInv
  <2>4. UsesInv'
    BY <1>1, <2>1, UsesKept
  <2>5. QED  BY <2>2, <2>3, <2>4 DEF ViewInv, ViewTypes
<1>3. CASE SwipeUp(b) \/ Cancel(b)
  <2>1. /\ StopExecutors
        /\ touched' = touched \/ touched' = touched \ {b}
        /\ pressing' = NoButton /\ long' = "no"
        /\ popup' = TRUE \/ popup' = popup
        /\ UNCHANGED <<active, locked, mLongPressCount, typed, uses, crossed>>
    BY <1>3 DEF SwipeUp, Cancel
  <2>2. /\ TaskInv' /\ longHold' = NoButton
        /\ \A t \in Threads, m \in Specials : Clearing(task, t, m) => Clearing(task', t, m)
    BY <1>1, <2>1, StopIs
  <2>3. Fingers'
    <3>1. CASE touched' = touched
      BY <1>1, <3>1 DEF Fingers
    <3>2. CASE touched' = touched \ {b}
      BY <1>1, <3>2, FingerUp
    <3>3. QED  BY <2>1, <3>1, <3>2
  <2>4. Modifiers' /\ Histories' /\ typed' \in BOOLEAN /\ crossed' \in BOOLEAN
    BY <1>1, <2>1, <2>2 DEF Modifiers, Histories, Flags
  <2>5. popup' \in BOOLEAN
    BY <1>1, <2>1 DEF Flags
  <2>6. PressInv'
    BY <2>1 DEF PressInv
  <2>7. UsesInv'
    BY <1>1, <2>1, <2>2, UsesKept
  <2>8. QED  BY <2>2, <2>3, <2>4, <2>5, <2>6, <2>7 DEF ViewInv, ViewTypes, Flags
<1>4. QED  BY <1>2, <1>3

\* A finger is lifted: a key is typed, a modifier toggled, or nothing.
LEMMA UpKeeps ==
  ASSUME ViewInv, NEW b \in Buttons, Up(b)
  PROVE  ViewInv'
<1>1. /\ StopExecutors /\ touched' = touched \ {b} /\ popup' = FALSE
      /\ pressing' = NoButton /\ long' = "no" /\ UNCHANGED mLongPressCount
      /\ TypeKey \/ Nothing \/ (b \in Specials /\ Toggle(b))
  BY DEF Up
<1>2. Fingers /\ TaskInv /\ Modifiers /\ Histories /\ Flags /\ UsesInv /\ ViewTypes
  BY DEF ViewInv, ViewTypes
<1>3. /\ TaskInv' /\ longHold' = NoButton
      /\ \A t \in Threads, m \in Specials : Clearing(task, t, m) => Clearing(task', t, m)
  BY <1>1, <1>2, StopIs
<1>4. Fingers'
  BY <1>1, <1>2, FingerUp
<1>5. /\ UsesInv'
      /\ active' \subseteq Specials /\ locked' \subseteq Specials
      /\ uses' \in [Specials -> 0..MaxUses]
      /\ typed' \in BOOLEAN /\ crossed' \in BOOLEAN
  <2>1. CASE TypeKey
    BY <1>2, <2>1, TypeKeyKeeps
  <2>2. CASE Nothing
    <3>1. typed' = FALSE /\ UNCHANGED <<active, locked, uses, crossed>>
      BY <2>2 DEF Nothing
    <3>2. UsesInv'
      BY <1>2, <1>3, <3>1, UsesKept
    <3>3. QED  BY <1>2, <3>1, <3>2 DEF Modifiers, Flags
  <2>3. CASE b \in Specials /\ Toggle(b)
    <3>1. /\ active' = IF b \in active THEN active \ {b} ELSE active \cup {b}
          /\ locked' \in {locked, locked \ {b}, locked \cup {b}}
          /\ uses' = UsesAfter({b}, {}) /\ typed' = FALSE /\ UNCHANGED crossed
      BY <2>3 DEF Toggle
    <3>2. /\ UsesInv'
          /\ active' \subseteq Specials /\ locked' \subseteq Specials
          /\ uses' \in [Specials -> 0..MaxUses]
      BY <1>2, <1>3, <2>3, <3>1, SwitchKeeps
    <3>3. QED  BY <1>2, <3>1, <3>2 DEF Flags
  <2>4. QED  BY <1>1, <2>1, <2>2, <2>3
<1>6. Modifiers' /\ Histories' /\ Flags'
  BY <1>1, <1>2, <1>3, <1>5 DEF Modifiers, Histories, Flags
<1>7. PressInv'
  BY <1>1 DEF PressInv
<1>8. QED  BY <1>3, <1>4, <1>5, <1>6, <1>7 DEF ViewInv, ViewTypes

\* A long press locks a modifier or switches it off, and is counted.
LEMMA LongHoldKeeps ==
  ASSUME ViewInv, LongHold
  PROVE  ViewInv'
<1>. DEFINE m == longHold
<1>1. /\ m # NoButton /\ longHold' = NoButton
      /\ active' = IF m \in active THEN active \ {m} ELSE active \cup {m}
      /\ locked' \in {locked, locked \ {m}, locked \cup {m}}
      /\ mLongPressCount' = 1
      /\ long' = IF m \in active THEN "unlocked" ELSE "locked"
      /\ uses' = UsesAfter({m}, {})
      /\ UNCHANGED <<touched, executor, task, popup, pressing, typed, crossed>>
  BY DEF LongHold, Counted
<1>2. Fingers /\ TaskInv /\ Modifiers /\ Histories /\ Flags /\ UsesInv /\ PressInv /\ ViewTypes
  BY DEF ViewInv, ViewTypes
<1>3. m \in Specials /\ m \in touched
  BY <1>1, <1>2 DEF Modifiers
<1>4. \A t \in Threads, n \in Specials : Clearing(task, t, n) => Clearing(task', t, n)
  BY <1>1 DEF Clearing
<1>5. /\ UsesInv'
      /\ active' \subseteq Specials /\ locked' \subseteq Specials
      /\ uses' \in [Specials -> 0..MaxUses]
  BY <1>1, <1>2, <1>3, <1>4, SwitchKeeps
<1>6. Fingers' /\ TaskInv' /\ Modifiers' /\ Flags'
  BY <1>1, <1>2, <1>5 DEF Fingers, TaskInv, Modifiers, Flags
<1>7. Histories'
  BY <1>1, <1>2 DEF Histories
<1>8. PressInv'
  BY <1>1, <1>2, <1>3 DEF PressInv
<1>9. QED  BY <1>5, <1>6, <1>7, <1>8 DEF ViewInv, ViewTypes

-----------------------------------------------------------------------------
(* Repetition.                                                             *)

\* Every step of a thread is for the button it works for, and while an
\* undisturbed press of a button that does not repeat lasts there is none.
LEMMA RepetitionKeeps ==
  ASSUME ViewInv, NEW t \in Threads, Repetition(t)
  PROVE  ViewInv'
<1>1. /\ Fingers /\ TaskInv /\ Modifiers /\ Histories /\ Flags /\ UsesInv /\ PressInv /\ ViewTypes
      /\ task \in [Threads -> Tasks] /\ task[t] \in Tasks
  BY DEF ViewInv, ViewTypes, TaskInv
<1>2. /\ UNCHANGED <<touched, longHold, executor, popup, locked, pressing, long, typed>>
      /\ task[t].step # "free"
  BY DEF Repetition, Turn, Count, Read, Clear, Send, viewVars, pressVars
<1>3. ASSUME NEW step \in Steps \ {"free"}, NEW todo \in SUBSET Specials, SetTask(t, step, todo),
             step \in {"timer", "dead"} => executor = t
      PROVE  /\ TaskInv'
             /\ task'[t].step = step /\ task'[t].todo = todo
             /\ \A u \in Threads : u # t => task'[u] = task[u]
  <2>1. /\ task' \in [Threads -> Tasks]
        /\ task'[t].step = step /\ task'[t].todo = todo /\ task'[t].button = task[t].button
        /\ \A u \in Threads : u # t => task'[u] = task[u]
    BY <1>1, <1>3, SetTaskIs
  <2>2. QED  BY <1>1, <1>2, <1>3, <2>1 DEF TaskInv
<1>4. PressInv'
  <2>1. mLongPressCount' \in {mLongPressCount, 1}
    BY DEF Repetition, Turn, Count, Read, Clear, Send, viewVars, Counted
  <2>2. pressing # NoButton => pressing \in Repetitive
    BY <1>1, <1>2 DEF PressInv
  <2>3. long # "no" => mLongPressCount = 1
    BY <1>1 DEF PressInv
  <2>4. QED  BY <1>1, <1>2, <2>1, <2>2, <2>3 DEF PressInv
<1>5. Fingers'
  BY <1>1, <1>2 DEF Fingers
<1>6. CASE Turn(t) \/ Count(t)
  <2>1. /\ SetTask(t, "count", {}) \/ SetTask(t, "read", {})
        /\ task[t].step \in {"timer", "count"}
        /\ mLongPressCount' \in {mLongPressCount, 1}
        /\ UNCHANGED <<active, uses, crossed>>
    <3>1. CASE Turn(t)
      BY <3>1 DEF Turn, viewVars
    <3>2. CASE Count(t)
      BY <3>2 DEF Count, Counted
    <3>3. QED  BY <1>6, <3>1, <3>2
  <2>2. /\ TaskInv' /\ \A u \in Threads : u # t => task'[u] = task[u]
    BY <1>3, <2>1 DEF Steps
  <2>3. UsesInv'
    <3>1. \A u \in Threads, m \in Specials : Clearing(task, u, m) => Clearing(task', u, m)
      BY <2>1, <2>2 DEF Clearing
    <3>2. QED  BY <1>1, <1>2, <2>1, <3>1, UsesKept
  <2>4. Modifiers' /\ Histories' /\ Flags'
    BY <1>1, <1>2, <2>1 DEF Modifiers, Histories, Flags
  <2>5. QED  BY <1>4, <1>5, <2>2, <2>3, <2>4 DEF ViewInv, ViewTypes
<1>7. CASE Read(t)
  <2>1. /\ task[t].step = "read" /\ SetTask(t, "clear", active \ locked)
        /\ uses' = UsesAfter({}, active)
        /\ crossed' = (crossed \/ Reading(t) # {})
        /\ UNCHANGED <<active, mLongPressCount>>
    BY <1>7 DEF Read, UsedUp, Carried, viewVars
  <2>2. (active \ locked) \in SUBSET Specials
    BY <1>1 DEF Modifiers
  <2>3. /\ TaskInv' /\ task'[t].step = "clear" /\ task'[t].todo = active \ locked
        /\ \A u \in Threads : u # t => task'[u] = task[u]
    BY <1>3, <2>1, <2>2 DEF Steps
  <2>4. /\ uses' \in [Specials -> 0..MaxUses]
        /\ \A m \in Specials : /\ m \notin active \ locked => uses'[m] = uses[m]
                               /\ uses[m] = 0 => uses'[m] <= 1
    BY <1>1, <2>1, UsesIs
  <2>5. UsesInv'
    <3>1. CASE crossed'
      BY <3>1 DEF UsesInv
    <3>2. CASE ~crossed'
      <4>1. ~crossed /\ \A u \in Threads : task[u].step # "clear"
        BY <2>1, <3>2 DEF Reading
      <4>2. ASSUME NEW m \in Specials
            PROVE  /\ uses'[m] <= 1
                   /\ m \in active' \ locked' => Clearing(task', t, m)
        <5>1. uses[m] <= 1 /\ (m \in active \ locked => ~(uses[m] > 0))
          BY <1>1, <4>1 DEF UsesInv, Clearing
        <5>2. uses[m] \in 0..MaxUses
          BY <1>1 DEF Modifiers
        <5>3. uses'[m] <= 1
          BY <2>4, <5>1, <5>2
        <5>4. QED  BY <1>2, <2>1, <2>3, <5>3 DEF Clearing
      <4>. HIDE DEF Clearing
      <4>3. QED  BY <4>2 DEF UsesInv
    <3>3. QED  BY <3>1, <3>2
  <2>6. crossed' \in BOOLEAN
    BY <2>1, Zenon
  <2>7. Modifiers' /\ Histories' /\ Flags'
    BY <1>1, <1>2, <2>1, <2>4, <2>6 DEF Modifiers, Histories, Flags
  <2>8. QED  BY <1>4, <1>5, <2>3, <2>5, <2>7 DEF ViewInv, ViewTypes
<1>8. CASE Clear(t)
  <2>1. /\ SetTask(t, "send", {}) /\ active' = active \ task[t].todo
        /\ UNCHANGED <<mLongPressCount, uses, crossed>>
    BY <1>8 DEF Clear, viewVars
  <2>2. TaskInv' /\ \A u \in Threads : u # t => task'[u] = task[u]
    BY <1>3, <2>1 DEF Steps
  <2>3. UsesInv'
    <3>1. CASE crossed
      BY <2>1, <3>1 DEF UsesInv
    <3>2. CASE ~crossed
      <4>1. ASSUME NEW m \in Specials, m \in active' \ locked', uses'[m] > 0
            PROVE  \E u \in Threads : Clearing(task', u, m)
        <5>1. m \in active \ locked /\ m \notin task[t].todo /\ uses[m] > 0
          BY <1>2, <2>1, <4>1
        <5>2. PICK u \in Threads : Clearing(task, u, m)
          BY <1>1, <3>2, <5>1 DEF UsesInv
        <5>3. u # t
          BY <5>1, <5>2 DEF Clearing
        <5>4. QED  BY <2>2, <5>2, <5>3 DEF Clearing
      <4>2. \A m \in Specials : uses'[m] <= 1
        BY <1>1, <2>1, <3>2 DEF UsesInv
      <4>. HIDE DEF Clearing
      <4>3. QED  BY <4>1, <4>2 DEF UsesInv
    <3>3. QED  BY <3>1, <3>2
  <2>4. Modifiers' /\ Histories' /\ Flags'
    BY <1>1, <1>2, <2>1 DEF Modifiers, Histories, Flags
  <2>5. QED  BY <1>4, <1>5, <2>2, <2>3, <2>4 DEF ViewInv, ViewTypes
<1>9. CASE Send(t)
  <2>1. /\ task[t].step = "send"
        /\ \/ executor = t /\ SetTask(t, "timer", {})
           \/ executor = t /\ SetTask(t, "dead", {})
           \/ executor # t /\ task' = [task EXCEPT ![t] = NoTask]
        /\ UNCHANGED <<active, mLongPressCount, uses, crossed>>
    BY <1>9 DEF Send, viewVars
  <2>2. TaskInv' /\ \A u \in Threads : u # t => task'[u] = task[u]
    <3>1. CASE executor = t /\ (SetTask(t, "timer", {}) \/ SetTask(t, "dead", {}))
      BY <1>3, <3>1 DEF Steps
    <3>2. CASE executor # t /\ task' = [task EXCEPT ![t] = NoTask]
      <4>1. /\ task' \in [Threads -> Tasks] /\ task'[t] = NoTask
            /\ \A u \in Threads : u # t => task'[u] = task[u]
        BY <1>1, <3>2, NoTaskIs
      <4>2. QED  BY <1>1, <1>2, <3>2, <4>1, NoTaskIs DEF TaskInv
    <3>3. QED  BY <2>1, <3>1, <3>2
  <2>3. UsesInv'
    <3>1. \A u \in Threads, m \in Specials : Clearing(task, u, m) => Clearing(task', u, m)
      BY <2>1, <2>2 DEF Clearing
    <3>2. QED  BY <1>1, <1>2, <2>1, <3>1, UsesKept
  <2>4. Modifiers' /\ Histories' /\ Flags'
    BY <1>1, <1>2, <2>1 DEF Modifiers, Histories, Flags
  <2>5. QED  BY <1>4, <1>5, <2>2, <2>3, <2>4 DEF ViewInv, ViewTypes
<1>10. QED  BY <1>6, <1>7, <1>8, <1>9 DEF Repetition

-----------------------------------------------------------------------------
(* The keyboard, and the theorems.                                         *)

\* Every code that a key has been seen under is one of its own.
LEMMA KeyboardKeeps ==
  ASSUME HeldInv, NEW k \in HwKeys, KeyDown(k) \/ KeyUp(k)
  PROVE  HeldInv' /\ UNCHANGED vars
<1>. DEFINE All == UNION {Codes(l) : l \in HwKeys}
<1>1. held \in [HwKeys -> SUBSET All] /\ \A l \in HwKeys : held[l] \subseteq Codes(l)
  BY DEF HeldInv
<1>2. PICK codes : /\ codes \subseteq Codes(k)
                   /\ held' = [held EXCEPT ![k] = codes]
                   /\ UNCHANGED vars
  <2>1. CASE KeyDown(k)
    <3>. DEFINE event == IF active = {} THEN Event(k, HwMods, ScanCode(k))
                                        ELSE Event(k, HwMods \cup active, "")
    <3>1. held' = [held EXCEPT ![k] = @ \cup {code(event)}] /\ UNCHANGED vars
      BY <2>1 DEF KeyDown
    <3>2. code(event) \in Codes(k)
      <4>1. /\ code(Event(k, HwMods, ScanCode(k))) \in Codes(k)
            /\ code(Event(k, HwMods \cup active, "")) \in Codes(k)
        BY CodeIs
      <4>2. QED  BY <4>1
    <3>. HIDE DEF event
    <3>3. held[k] \cup {code(event)} \subseteq Codes(k)
      BY <1>1, <3>2
    <3>4. QED  BY <3>1, <3>3
  <2>2. CASE KeyUp(k)
    BY <2>2 DEF KeyUp
  <2>3. QED  BY <2>1, <2>2
<1>3. codes \in SUBSET All
  BY <1>2
<1>. HIDE DEF All
<1>4. /\ held' \in [HwKeys -> SUBSET All]
      /\ held'[k] = codes /\ \A l \in HwKeys : l # k => held'[l] = held[l]
  BY <1>1, <1>2, <1>3
<1>5. QED  BY <1>1, <1>2, <1>4 DEF HeldInv, All

\* The row of keys is the same for the invariants when only the keyboard is used.
LEMMA ViewKept ==
  ASSUME ViewInv, UNCHANGED vars
  PROVE  ViewInv'
<1>1. UNCHANGED <<touched, active, locked, longHold, executor, task, mLongPressCount, popup,
                  pressing, long, typed, uses, crossed>>
  BY DEF vars, viewVars, pressVars
<1>2. ViewTypes'
  BY <1>1 DEF ViewInv, ViewTypes, Fingers, TaskInv, Modifiers, Histories, Flags
<1>3. PressInv'
  BY <1>1 DEF ViewInv, PressInv
<1>4. UsesInv'
  BY <1>1 DEF ViewInv, UsesInv, Clearing
<1>5. QED  BY <1>2, <1>3, <1>4 DEF ViewInv

\* However fingers, the long-press runnable, repeating threads and the hardware
\* keyboard follow each other, the types, the press under way, the uses of the
\* modifiers and the codes of the keys held stay as described.
THEOREM Invariant == Spec => []IInv
<1>1. Init => IInv
  <2>1. SUFFICES ASSUME Init PROVE IInv
    OBVIOUS
  <2>2. /\ touched = {} /\ active = {} /\ locked = {} /\ longHold = NoButton
        /\ executor = NoThread /\ task = [t \in Threads |-> NoTask] /\ mLongPressCount = 0
        /\ popup = FALSE /\ pressing = NoButton /\ long = "no" /\ typed = FALSE
        /\ uses = [m \in Specials |-> 0] /\ crossed = FALSE
        /\ held = [k \in HwKeys |-> {}]
    BY <2>1 DEF Init, ViewInit
  <2>3. Fingers
    <3>1. IsFiniteSet({}) /\ Cardinality({}) = 0
      BY FS_EmptySet
    <3>2. QED  BY <2>2, <3>1 DEF Fingers
  <2>4. TaskInv
    BY <2>2, NoTaskIs DEF TaskInv
  <2>5. Modifiers /\ Histories
    BY <2>2 DEF Modifiers, Histories
  <2>6. Flags
    BY <2>2 DEF Flags
  <2>7. PressInv /\ UsesInv
    BY <2>2 DEF PressInv, UsesInv
  <2>8. HeldInv
    BY <2>2 DEF HeldInv
  <2>9. QED  BY <2>3, <2>4, <2>5, <2>6, <2>7, <2>8 DEF IInv, ViewTypes
<1>2. IInv /\ [Next]_allVars => IInv'
  <2>1. SUFFICES ASSUME IInv, [Next]_allVars PROVE IInv'
    OBVIOUS
  <2>2. ViewInv /\ HeldInv
    BY <2>1 DEF IInv, ViewInv
  <2>3. CASE ViewNext /\ UNCHANGED held
    <3>1. ASSUME NEW b \in Buttons, TouchEvent(b) PROVE ViewInv'
      BY <2>2, <3>1, DownKeeps, MoveKeeps, UpKeeps DEF TouchEvent
    <3>2. ASSUME LongHold PROVE ViewInv'
      BY <2>2, <3>2, LongHoldKeeps
    <3>3. ASSUME NEW t \in Threads, Repetition(t) PROVE ViewInv'
      BY <2>2, <3>3, RepetitionKeeps
    <3>4. ViewInv'
      BY <2>3, <3>1, <3>2, <3>3 DEF ViewNext
    <3>5. HeldInv'
      BY <2>2, <2>3 DEF HeldInv
    <3>6. QED  BY <3>4, <3>5 DEF IInv, ViewInv
  <2>4. ASSUME NEW k \in HwKeys, KeyDown(k) \/ KeyUp(k) PROVE IInv'
    <3>1. HeldInv' /\ UNCHANGED vars
      BY <2>2, <2>4, KeyboardKeeps
    <3>2. ViewInv'
      BY <2>2, <3>1, ViewKept
    <3>3. QED  BY <3>1, <3>2 DEF IInv, ViewInv
  <2>5. CASE UNCHANGED allVars
    <3>1. UNCHANGED vars /\ UNCHANGED held
      BY <2>5 DEF allVars
    <3>2. ViewInv'
      BY <2>2, <3>1, ViewKept
    <3>3. HeldInv'
      BY <2>2, <3>1 DEF HeldInv
    <3>4. QED  BY <3>2, <3>3 DEF IInv, ViewInv
  <2>6. QED  BY <2>1, <2>3, <2>4, <2>5 DEF Next
<1>3. QED  BY <1>1, <1>2, PTL DEF Spec

\* Fingers, executors, modifiers and codes are always what their types say: an
\* executor works for a button with a finger on it, and no thread but its own
\* waits for a turn.
THEOREM TypeCorrect == Spec => []TypeOK
<1>1. IInv => TypeOK
  <2>1. SUFFICES ASSUME IInv PROVE TypeOK
    OBVIOUS
  <2>2. Fingers /\ TaskInv /\ Modifiers /\ Histories /\ Flags /\ HeldInv
    BY <2>1 DEF IInv, ViewTypes
  <2>3. \A t \in Threads :
          /\ task[t].step \in {"free", "timer", "count", "read", "clear", "send", "dead"}
          /\ task[t].step \in {"timer", "dead"} => t = executor
          /\ task[t].todo \subseteq Specials
    BY <2>2 DEF TaskInv, Tasks, Steps
  <2>4. ASSUME NEW k \in HwKeys
        PROVE  held[k] \subseteq
                 {ScanCode(k), "ShiftLeft", "KeyA", "KeyC", "KeyEnter", "undefined"}
    <3>1. Codes(k) \subseteq
            {ScanCode(k), "ShiftLeft", "KeyA", "KeyC", "KeyEnter", "undefined"}
      BY HwKeysAssumption DEF Codes, ScanCode
    <3>2. QED  BY <2>2, <3>1 DEF HeldInv
  <2>5. QED
    BY <2>2, <2>3, <2>4 DEF TypeOK, Fingers, TaskInv, Modifiers, Histories, Flags
<1>2. QED  BY <1>1, Invariant, PTL

\* A modifier that was tapped is used for one key, unless two threads crossed.
THEOREM OneShotOnceHolds == Spec => []OneShotOnce
<1>1. IInv => OneShotOnce
  <2>1. SUFFICES ASSUME IInv, NEW m \in Specials, uses[m] > 1, ~crossed PROVE FALSE
    BY DEF OneShotOnce
  <2>2. uses[m] <= 1 /\ uses[m] \in 0..MaxUses
    BY <2>1 DEF IInv, UsesInv, ViewTypes, Modifiers
  <2>3. QED  BY <2>1, <2>2
<1>2. QED  BY <1>1, Invariant, PTL

\* Whenever a key is let go the page sees it go up as it saw it go down.
THEOREM KeyUpsMatchHolds == Spec => []KeyUpsMatch
<1>1. IInv => KeyUpsMatch
  <2>1. SUFFICES ASSUME IInv, NEW k \in Held \ {"1", "Enter", "c"}
                 PROVE  held[k] = {UpCode(k)}
    BY DEF KeyUpsMatch
  <2>2. k \in HwKeys /\ held[k] # {} /\ held[k] \subseteq Codes(k)
    BY <2>1 DEF Held, IInv, HeldInv
  <2>3. UpCode(k) \in Codes(k)
    BY <2>2, CodeIs DEF UpCode
  <2>4. \E c : Codes(k) = {c}
    BY <2>1, <2>2, HwKeysAssumption DEF Codes
  <2>5. QED  BY <2>2, <2>3, <2>4
<1>2. QED  BY <1>1, Invariant, PTL

\* A locked modifier goes off only by a later press on it, by its long press or
\* by a thread that read it before it was locked.
THEOREM LockHoldsHolds == Spec => LockHolds
<1>. DEFINE GoesOff(m) == \/ Up(m) /\ ~(pressing = m /\ long = "locked")
                          \/ LongHold /\ longHold = m
                          \/ \E t \in Threads : Clear(t) /\ m \in task[t].todo
<1>1. ASSUME IInv, Next, NEW m \in locked \cap active, m \notin active'
      PROVE  GoesOff(m)
  <2>1. CASE ViewNext
    <3>1. ASSUME NEW b \in Buttons, TouchEvent(b) PROVE GoesOff(m)
      <4>1. CASE Up(b)
        <5>1. CASE TypeKey
          BY <1>1, <5>1 DEF TypeKey, UsedUp
        <5>2. CASE Nothing
          BY <1>1, <5>2 DEF Nothing
        <5>3. CASE Toggle(b) /\ mLongPressCount = 0
          <6>1. m = b
            BY <1>1, <5>3 DEF Toggle
          <6>2. long = "no"
            BY <1>1, <5>3 DEF IInv, PressInv
          <6>3. QED  BY <4>1, <6>1, <6>2
        <5>4. QED  BY <4>1, <5>1, <5>2, <5>3 DEF Up
      <4>2. CASE Down(b) \/ SwipeUp(b) \/ SwipeDown(b) \/ Cancel(b)
        <5>1. active' = active
          BY <4>2 DEF Down, SwipeUp, SwipeDown, Cancel
        <5>2. QED  BY <1>1, <5>1
      <4>3. QED  BY <3>1, <4>1, <4>2 DEF TouchEvent
    <3>2. CASE LongHold
      BY <1>1, <3>2 DEF LongHold
    <3>3. ASSUME NEW t \in Threads, Repetition(t) PROVE GoesOff(m)
      <4>1. CASE Clear(t)
        BY <1>1, <4>1 DEF Clear
      <4>2. CASE ~Clear(t)
        <5>1. active' = active
          BY <3>3, <4>2 DEF Repetition, Turn, Count, Read, Send
        <5>2. QED  BY <1>1, <5>1
      <4>3. QED  BY <4>1, <4>2
    <3>4. QED  BY <2>1, <3>1, <3>2, <3>3 DEF ViewNext
  <2>2. ASSUME NEW k \in HwKeys, KeyDown(k) \/ KeyUp(k) PROVE FALSE
    <3>1. active' = active
      BY <2>2 DEF KeyDown, KeyUp, vars
    <3>2. QED  BY <1>1, <3>1
  <2>3. QED  BY <1>1, <2>1, <2>2 DEF Next
<1>2. ASSUME IInv, [Next]_allVars
      PROVE  [\A m \in locked \cap active : m \notin active' => GoesOff(m)]_vars
  <2>1. CASE UNCHANGED allVars
    BY <2>1 DEF allVars
  <2>2. CASE Next
    BY <1>1, <1>2, <2>2
  <2>3. QED  BY <1>2, <2>1, <2>2
<1>3. IInv /\ [Next]_allVars =>
         [\A m \in locked \cap active : m \notin active' => GoesOff(m)]_vars
  BY <1>2
<1>4. QED  BY <1>3, Invariant, PTL DEF Spec, LockHolds

\* A finger that goes down and up on a key, undisturbed, types it, and on a
\* modifier toggles it.
THEOREM TapTypesHolds == Spec => TapTypes
<1>. DEFINE Acts(b) == \/ b \in Keys /\ typed'
                       \/ b \in Specials /\ (long = "no" => (b \in active) # (b \in active'))
<1>1. ASSUME IInv, NEW b \in Buttons \ Repetitive, pressing = b, Up(b)
      PROVE  Acts(b)
  <2>1. /\ ~popup /\ b # NoButton
        /\ mLongPressCount # 0 => long # "no" /\ b \in Specials
    BY <1>1 DEF IInv, PressInv
  <2>2. CASE mLongPressCount # 0
    BY <2>1, <2>2
  <2>3. CASE b \in Specials /\ Toggle(b)
    BY <2>3 DEF Toggle
  <2>4. CASE b \in Keys /\ TypeKey
    BY <2>4 DEF TypeKey
  <2>5. mLongPressCount # 0 \/ (b \in Specials /\ Toggle(b)) \/ (b \in Keys /\ TypeKey)
    BY <1>1, <2>1 DEF Up
  <2>6. QED  BY <2>2, <2>3, <2>4, <2>5
<1>2. IInv /\ [Next]_allVars =>
         [\A b \in Buttons \ Repetitive : pressing = b /\ Up(b) => Acts(b)]_vars
  BY <1>1
<1>3. QED  BY <1>2, Invariant, PTL DEF Spec, TapTypes

=============================================================================
