------------------------------ MODULE VirtualKeys ------------------------------
(***************************************************************************)
(* VirtualKeysView over the web view: the touch listener of its buttons,   *)
(* the modifiers that a tap makes active for one key and a long press      *)
(* locks, the repetition of a held key on an executor thread, the popup    *)
(* above a key, and the client of WebViewSession, which reads the          *)
(* modifiers and types the key.  Listener and long-press runnable run on   *)
(* the main thread, repetitions on the thread of their executor, which     *)
(* shutdownNow does not stop in the middle of a key.                       *)
(***************************************************************************)
EXTENDS Naturals, FiniteSets

CONSTANTS
  Specials,       \* CTRL, ALT, SHIFT: modifiers
  Repetitive,     \* keys that repeat while they are held
  PopupKeys,      \* keys with another key on a popup
  OtherKeys,
  Threads,        \* threads of executors
  NoButton, NoThread,
  MaxFingers, MaxUses

Keys == Repetitive \cup PopupKeys \cup OtherKeys
Buttons == Specials \cup Keys

ASSUME ButtonsAssumption ==
  /\ Specials \cap Keys = {}
  /\ NoButton \notin Buttons /\ NoThread \notin Threads

ASSUME BoundsAssumption == {MaxFingers, MaxUses} \subseteq Nat

VARIABLES
  touched,          \* buttons with a finger on them
  active, locked,   \* modifiers, as SpecialButtonState has them
  longHold,         \* the modifier whose long-press runnable is posted
  executor,         \* the thread of mScheduledExecutor
  task,             \* what each thread is doing
  mLongPressCount,
  popup,            \* mPopupWindow # null
  pressing,         \* history: the last button pressed, while nothing has
                    \* disturbed its press and no popup was left behind
  long,             \* history: what the long-press runnable did in this press
  typed,            \* history: lifting the last finger has typed a key
  uses,             \* history: keys a modifier was used for, since made active
  crossed           \* history: keys were typed by two threads at a time

viewVars == <<touched, longHold, executor, mLongPressCount, popup>>
pressVars == <<pressing, long, typed>>
vars == <<viewVars, active, locked, task, pressVars, uses, crossed>>

NoTask == [step |-> "free", button |-> NoButton, todo |-> {}]
Capped(n) == IF n > MaxUses THEN MaxUses ELSE n

ViewInit ==
  /\ touched = {}
  /\ active = {} /\ locked = {}
  /\ longHold = NoButton
  /\ executor = NoThread
  /\ task = [t \in Threads |-> NoTask]
  /\ mLongPressCount = 0
  /\ popup = FALSE
  /\ pressing = NoButton /\ long = "no" /\ typed = FALSE
  /\ uses = [m \in Specials |-> 0]
  /\ crossed = FALSE

-----------------------------------------------------------------------------
(* The client: readSpecialButton with autoSetInActive, then the key.       *)

\* Threads that have read modifiers and not yet made them inactive.
Reading(except) == {t \in Threads \ {except} : task[t].step = "clear"}

\* The modifiers a key is typed with.
Carried == active

\* Mutant of UsedUp: autoSetInActive is not passed on.
UsedUpNone == {}

\* Those of them that it uses up.
UsedUp == active \ locked

\* A modifier counts its keys from when it became active.
UsesAfter(on, carried) ==
  [m \in Specials |-> IF m \in on THEN 0
                      ELSE IF m \in carried \ locked THEN Capped(uses[m] + 1) ELSE uses[m]]

\* On the main thread nothing of the main thread comes between.
TypeKey ==
  /\ active' = active \ UsedUp
  /\ uses' = UsesAfter({}, Carried)
  /\ typed' = TRUE
  /\ crossed' = (crossed \/ Reading(NoThread) # {})
  /\ UNCHANGED locked

-----------------------------------------------------------------------------
(* Modifiers.                                                              *)

\* A tap toggles; what is not active is not locked.
Toggle(m) ==
  /\ active' = IF m \in active THEN active \ {m} ELSE active \cup {m}
  /\ locked' = IF m \in active THEN locked \ {m} ELSE locked
  /\ uses' = UsesAfter({m}, {})
  /\ typed' = FALSE
  /\ UNCHANGED crossed

\* Mutant of Counted: the count is not increased.
CountedNot(n) == n

\* Of mLongPressCount nothing is asked but whether it is zero.
Counted(n) == 1

\* SpecialButtonsLongHoldRunnable: a modifier that is not active is locked,
\* one that is active is switched off.
LongHold ==
  LET m == longHold
  IN  /\ m # NoButton
      /\ longHold' = NoButton
      /\ active' = IF m \in active THEN active \ {m} ELSE active \cup {m}
      /\ locked' = IF m \in active THEN locked \ {m} ELSE locked \cup {m}
      /\ mLongPressCount' = Counted(mLongPressCount)
      /\ long' = IF m \in active THEN "unlocked" ELSE "locked"
      /\ uses' = UsesAfter({m}, {})
      /\ UNCHANGED <<touched, executor, task, popup, pressing, typed, crossed>>

-----------------------------------------------------------------------------
(* The touch listener.                                                     *)

\* Mutant of Stopped: the executor is forgotten without being shut down.
StoppedNot(t) == task[t]

\* stopScheduledExecutors: a thread that waits for its next turn ends, one in
\* the middle of a key goes on to the end of the key.
Stopped(t) == IF task[t].step \in {"timer", "dead"} THEN NoTask ELSE task[t]
StopExecutors ==
  /\ longHold' = NoButton
  /\ executor' = NoThread
  /\ task' = [t \in Threads |-> Stopped(t)]

\* Mutant of StartCount: the count of the last press stays.
StartCountKept == mLongPressCount

StartCount == 0

InFlight == \E t \in Threads : task[t].step \in {"count", "read", "clear", "send"}

Down(b) ==
  /\ b \notin touched /\ Cardinality(touched) < MaxFingers
  /\ touched' = touched \cup {b}
  /\ mLongPressCount' = StartCount
  /\ IF b \in Repetitive
     THEN /\ longHold' = NoButton
          /\ \E t \in Threads :
               /\ task[t] = NoTask
               /\ executor' = t
               /\ task' = [u \in Threads |->
                             IF u = t THEN [step |-> "timer", button |-> b, todo |-> {}] ELSE Stopped(u)]
     ELSE /\ longHold' = IF b \in Specials THEN b ELSE NoButton
          /\ executor' = NoThread
          /\ task' = [t \in Threads |-> Stopped(t)]
  /\ pressing' = IF InFlight \/ popup THEN NoButton ELSE b
  /\ long' = "no" /\ typed' = FALSE
  /\ UNCHANGED <<active, locked, popup, uses, crossed>>

\* A swipe upwards shows the popup, on the way back it disappears.
SwipeUp(b) ==
  /\ b \in touched \cap PopupKeys
  /\ ~popup /\ popup' = TRUE
  /\ StopExecutors
  /\ pressing' = NoButton /\ long' = "no"
  /\ UNCHANGED <<touched, active, locked, mLongPressCount, typed, uses, crossed>>

SwipeDown(b) ==
  /\ b \in touched \cap PopupKeys
  /\ popup /\ popup' = FALSE
  /\ UNCHANGED <<touched, longHold, executor, mLongPressCount, active, locked, task, pressVars,
                 uses, crossed>>

\* The pager takes the gesture over; a popup stays where it is.
Cancel(b) ==
  /\ b \in touched
  /\ touched' = touched \ {b}
  /\ StopExecutors
  /\ pressing' = NoButton /\ long' = "no"
  /\ UNCHANGED <<active, locked, mLongPressCount, popup, typed, uses, crossed>>

Nothing == typed' = FALSE /\ UNCHANGED <<active, locked, uses, crossed>>

\* While a popup is shown, by whatever button, lifting a finger takes it away
\* and types the key on it if the finger's own button has one.
Up(b) ==
  /\ b \in touched
  /\ touched' = touched \ {b}
  /\ StopExecutors
  /\ popup' = FALSE
  /\ \/ popup /\ b \in PopupKeys /\ TypeKey
     \/ popup /\ b \notin PopupKeys /\ Nothing
     \/ ~popup /\ mLongPressCount = 0 /\ b \in Specials /\ Toggle(b)
     \/ ~popup /\ mLongPressCount = 0 /\ b \in Keys /\ TypeKey
     \/ ~popup /\ mLongPressCount > 0 /\ Nothing
  /\ pressing' = NoButton /\ long' = "no"
  /\ UNCHANGED mLongPressCount

-----------------------------------------------------------------------------
(* Repetition on the thread of an executor.                                *)

SetTask(t, step, todo) == task' = [task EXCEPT ![t].step = step, ![t].todo = todo]

\* The next turn of the executor.
Turn(t) ==
  /\ executor = t /\ task[t].step = "timer"
  /\ SetTask(t, "count", {})
  /\ UNCHANGED <<viewVars, active, locked, pressVars, uses, crossed>>

\* mLongPressCount++, for a press that may be over.
Count(t) ==
  /\ task[t].step = "count"
  /\ mLongPressCount' = Counted(mLongPressCount)
  /\ SetTask(t, "read", {})
  /\ UNCHANGED <<touched, longHold, executor, popup, active, locked, pressVars, uses, crossed>>

\* isActive and isLocked are read ...
Read(t) ==
  /\ task[t].step = "read"
  /\ SetTask(t, "clear", UsedUp)
  /\ uses' = UsesAfter({}, Carried)
  /\ crossed' = (crossed \/ Reading(t) # {})
  /\ UNCHANGED <<viewVars, active, locked, pressVars>>

\* ... and setIsActive(false) follows.
Clear(t) ==
  /\ task[t].step = "clear"
  /\ active' = active \ task[t].todo
  /\ SetTask(t, "send", {})
  /\ UNCHANGED <<viewVars, locked, pressVars, uses, crossed>>

\* The key reaches the web view on this thread, which may refuse it with an
\* exception that ends the repetition without a word.
Send(t) ==
  /\ task[t].step = "send"
  /\ \/ executor = t /\ SetTask(t, "timer", {})
     \/ executor = t /\ SetTask(t, "dead", {})
     \/ executor # t /\ task' = [task EXCEPT ![t] = NoTask]
  /\ UNCHANGED <<viewVars, active, locked, pressVars, uses, crossed>>

Repetition(t) == Turn(t) \/ Count(t) \/ Read(t) \/ Clear(t) \/ Send(t)

TouchEvent(b) == Down(b) \/ SwipeUp(b) \/ SwipeDown(b) \/ Cancel(b) \/ Up(b)

ViewNext ==
  \/ \E b \in Buttons : TouchEvent(b)
  \/ LongHold
  \/ \E t \in Threads : Repetition(t)

=============================================================================
