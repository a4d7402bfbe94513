---------------------------- MODULE SessionService ----------------------------
(***************************************************************************)
(* The owner of the terminal sessions and its user interface: the service  *)
(* SessionService with its binder, MainActivity that starts and binds it,  *)
(* TerminalScreen with its one terminal view, and the global               *)
(* pendingCommand that MkSession.createSession consumes.                   *)
(*                                                                         *)
(* Everything here runs on the main thread, one message at a time, but the *)
(* messages come in any order: lifecycle callbacks, service callbacks,     *)
(* frames (recomposition, layout), taps, keys, timers, process exits.      *)
(*                                                                         *)
(* A TerminalSession is a number into "objects"; TerminalSession.tla says  *)
(* how it behaves inside.  The working modes are left out.                 *)
(***************************************************************************)
EXTENDS Integers, Sequences, FiniteSets

CONSTANTS
    MaxObjects,   \* bound: TerminalSession objects ever created
    MaxServices   \* bound: incarnations of the service

ASSUME BoundsAssumption == {MaxObjects, MaxServices} \subseteq Nat \ {0}

VARIABLES
    alive,        \* the app's process exists
    objects,      \* every TerminalSession ever created
    services,     \* every incarnation of the service: its fields
    live,         \* the incarnation that exists now, 0 if none
    serviceStarted, serviceBound,  \* what keeps the live one alive
    activity,     \* MainActivity, "started" or "stopped"
    connecting,   \* a bind request has not been answered yet
    isBound, sessionBinder,  \* its fields; 0 is the null binder
    view,         \* the object shown by the terminal view in the composition, or 0
    viewRef,      \* the global terminalView still refers to some view
    viewSized,    \* that view has been laid out with a size
    pendingCommand,   \* the id it is meant for, or NoCommand
    openTerminalForSetup,  \* the shared preference
    timer         \* startVSCodeServer will switch back to the web view: NoTimer,
                  \* ThisActivity or, after that is gone, the binder it had

serviceVars == <<services, live, serviceStarted, serviceBound>>
activityVars == <<activity, connecting, isBound, sessionBinder>>
viewVars == <<view, viewRef, viewSized>>
vars == <<alive, objects, serviceVars, activityVars, viewVars, pendingCommand,
          openTerminalForSetup, timer>>

\* Session ids.  Where the code puts a time stamp into an id, the number of
\* objects so far stands for it; those of "main" are drawn from the ids in use.
\* "setup" is also "install".
Webview == <<"webview", 0>>
NoCommand == <<"none", 0>>
NoTimer == 0
ThisActivity == -1
Ids == {"main", "server", "setup"} \X (1..(MaxObjects + 1))
Fresh(kind) == <<kind, Len(objects) + 1>>
MayGrow == Len(objects) < MaxObjects

NewService == [sessions |-> {}, sessionList |-> {Webview}, currentSession |-> Webview]

\* The service the user interface works with, by way of its binder.
Service == services[sessionBinder]

Init ==
    /\ alive = TRUE
    /\ objects = <<>>
    /\ services = <<>>
    /\ live = 0
    /\ serviceStarted = FALSE /\ serviceBound = FALSE
    /\ activity = "stopped"
    /\ connecting = FALSE /\ isBound = FALSE
    /\ sessionBinder = 0
    /\ view = 0 /\ viewRef = FALSE /\ viewSized = FALSE
    /\ pendingCommand = NoCommand
    /\ openTerminalForSetup \in BOOLEAN
    /\ timer = NoTimer

------------------------------------------------------------------------------
(* Sessions *)

\* finishIfRunning: "created" is a session whose pid is still 0, and SIGKILL to
\* pid 0 goes to the app's own process group.
Finished(objs, S) ==
    [o \in DOMAIN objs |-> IF o \in S /\ objs[o].state = "running"
                           THEN [objs[o] EXCEPT !.state = "killed"] ELSE objs[o]]
Survives(S) == \A o \in S : objects[o].state # "created"

\* updateSize with a size starts the shell of the attached session.
Sized(objs, o) ==
    IF objs[o].state = "created" THEN [objs EXCEPT ![o].state = "running"] ELSE objs

\* sessions[id], as the set of at most one object.
Named(r, objs, id) == {o \in r.sessions : objs[o].id = id}

\* createSession: MkSession runs the pending command, if there is one, or else
\* a plain shell, and clears it; the new object takes the id's place.
NewObject(id, command) ==
    [id |-> id, state |-> "created", command |-> command, service |-> sessionBinder]

WithNew(r, objs, id) ==
    [r EXCEPT !.sessions = (@ \ Named(r, objs, id)) \cup {Len(objs) + 1},
              !.sessionList = @ \cup {id}]

\* Mutant of Without: sessionList is forgotten.
WithoutButListed(r, objs, id) == [r EXCEPT !.sessions = @ \ Named(r, objs, id)]

\* terminateSession's effect on the two maps.
Without(r, objs, id) ==
    [r EXCEPT !.sessions = @ \ Named(r, objs, id), !.sessionList = @ \ {id}]

\* A session by id, created if it is not there, attached to the view that
\* terminalView refers to, and made current.
Open(id, command) ==
    LET named == Named(Service, objects, id)
        o == IF named = {} THEN Len(objects) + 1 ELSE CHOOSE n \in named : TRUE
        objs == IF named = {} THEN Append(objects, NewObject(id, command)) ELSE objects
        r == IF named = {} THEN WithNew(Service, objects, id) ELSE Service
    IN /\ Len(objs) <= MaxObjects
       /\ objects' = IF viewSized THEN Sized(objs, o) ELSE objs
       /\ services' = [services EXCEPT ![sessionBinder] = [r EXCEPT !.currentSession = id]]
       /\ pendingCommand' = IF named = {} THEN NoCommand ELSE command
       /\ view' = IF view = 0 THEN 0 ELSE o

\* Mutant of changeSession: the early return for the web view is left out.
changeSessionAny(id, command) ==
    IF viewRef
    THEN Open(id, command)
    ELSE /\ services' = [services EXCEPT ![sessionBinder].currentSession = id]
         /\ pendingCommand' = command
         /\ UNCHANGED <<objects, view>>

\* Mutant of changeSession: the view keeps the session it shows.
changeSessionUnattached(id, command) ==
    /\ services' = [services EXCEPT ![sessionBinder].currentSession = id]
    /\ pendingCommand' = command
    /\ UNCHANGED <<objects, view>>

\* changeSession: without a view only the current session changes, and the
\* composition is left to create it.
changeSession(id, command) ==
    IF id # Webview /\ viewRef
    THEN Open(id, command)
    ELSE /\ services' = [services EXCEPT ![sessionBinder].currentSession = id]
         /\ pendingCommand' = command
         /\ UNCHANGED <<objects, view>>

------------------------------------------------------------------------------
(* MainActivity and the service's lifetime *)

\* The service is created, if need be, started and bound.
onStart ==
    /\ alive /\ activity = "stopped"
    /\ live = 0 => Len(services) < MaxServices
    /\ activity' = "started"
    /\ services' = IF live = 0 THEN Append(services, NewService) ELSE services
    /\ live' = Len(services')
    /\ serviceStarted' = TRUE /\ serviceBound' = TRUE
    /\ connecting' = ~isBound
    /\ UNCHANGED <<alive, objects, isBound, sessionBinder, viewVars,
                   pendingCommand, openTerminalForSetup, timer>>

\* The content is set anew; the framework may recompose it in place and keep a
\* terminal view that is already there.
onServiceConnected ==
    /\ alive /\ connecting
    /\ connecting' = FALSE
    /\ isBound' = TRUE
    /\ sessionBinder' = live
    /\ view' \in {0, view}
    /\ UNCHANGED <<alive, objects, serviceVars, activity, viewRef, viewSized,
                   pendingCommand, openTerminalForSetup, timer>>

\* A service that is neither started nor bound is destroyed and kills its
\* sessions.  S are sessions killed before, by the same handler.
Settle(started, bound, S) ==
    LET destroyed == live # 0 /\ ~started /\ ~bound
        doomed == S \cup IF destroyed THEN services[live].sessions ELSE {}
    IN /\ live' = IF destroyed THEN 0 ELSE live
       /\ serviceStarted' = started
       /\ serviceBound' = bound
       /\ objects' = Finished(objects, doomed)
       /\ alive' = Survives(doomed)

\* The user switches away from the app, or to another activity of it.  A bind
\* request still under way is not undone, and the binder is kept.
onStop ==
    /\ alive /\ activity = "started"
    /\ activity' = "stopped"
    /\ isBound' = FALSE
    /\ Settle(serviceStarted, serviceBound /\ ~isBound, {})
    /\ UNCHANGED <<services, connecting, sessionBinder, viewVars, pendingCommand,
                   openTerminalForSetup, timer>>

\* The activity instance is gone, with its composition and its binding.  Its
\* terminal view lives on until it is collected.
Destroyed ==
    /\ activity' = "stopped"
    /\ connecting' = FALSE /\ isBound' = FALSE /\ sessionBinder' = 0
    /\ view' = 0
    /\ timer' = IF timer = ThisActivity THEN sessionBinder ELSE timer

\* A configuration change, none of which MainActivity handles itself: the
\* instance is stopped and destroyed, and onStart of another one follows.
Recreate ==
    /\ alive /\ activity = "started"
    /\ Destroyed
    /\ Settle(serviceStarted, FALSE, {})
    /\ UNCHANGED <<services, viewRef, viewSized, pendingCommand,
                   openTerminalForSetup>>

\* The EXIT action of the notification.
onStartCommand_EXIT ==
    /\ alive /\ live # 0
    /\ Settle(FALSE, serviceBound, services[live].sessions)
    /\ UNCHANGED <<services, activityVars, viewVars, pendingCommand,
                   openTerminalForSetup, timer>>

------------------------------------------------------------------------------
(* The user interface: TerminalScreen, WebViewSession, TerminalBackEnd *)

Interactive == alive /\ activity = "started" /\ sessionBinder # 0
OnWebview == Interactive /\ Service.currentSession = Webview /\ view = 0

\* The last frame has composed the terminal or the web view that is current now.
Composed == (Service.currentSession # Webview) <=> (view # 0)

\* "Add" in the drawer: the first main<n> that is not listed.
AddSession ==
    /\ Interactive /\ MayGrow
    /\ \E n \in 1..MaxObjects :
          /\ <<"main", n>> \notin Service.sessionList
          /\ \A m \in 1..(n - 1) : <<"main", m>> \in Service.sessionList
          /\ changeSession(<<"main", n>>, pendingCommand)
    /\ UNCHANGED <<alive, live, serviceStarted, serviceBound, activityVars, viewRef,
                   viewSized, openTerminalForSetup, timer>>

\* A tap on a session in the drawer.
SelectSession ==
    /\ Interactive
    /\ \E id \in Service.sessionList : changeSession(id, pendingCommand)
    /\ UNCHANGED <<alive, live, serviceStarted, serviceBound, activityVars, viewRef,
                   viewSized, openTerminalForSetup, timer>>

\* Mutant of Terminated: the session is removed and not finished.
TerminatedNever(id) == {}

\* Mutant of Terminated: all sessions are finished.
TerminatedAll(id) == {o \in Service.sessions : objects[o].state # "created"}

\* The sessions terminateSession(id) kills: not one without an emulator.
Terminated(id) ==
    {o \in Named(Service, objects, id) : objects[o].state # "created"}

\* stopSelf with the last session; only the live incarnation can be stopped.
StillStarted(r) == serviceStarted /\ (r.sessions # {} \/ sessionBinder # live)

\* The delete button, which the web view and the current session do not have.
\* It is one of the last frame, in which the same session was current.
DeleteSession ==
    /\ Interactive /\ Composed
    /\ \E id \in Service.sessionList \ {Webview, Service.currentSession} :
          LET r == Without(Service, objects, id)
          IN /\ services' = [services EXCEPT ![sessionBinder] = r]
             /\ serviceStarted' = StillStarted(r)
             /\ objects' = Finished(objects, Terminated(id))
    /\ UNCHANGED <<alive, live, serviceBound, activityVars, viewVars,
                   pendingCommand, openTerminalForSetup, timer>>

\* TerminalBackEnd.onKeyDown: ENTER in a view whose session has ended
\* terminates the current session and goes to some listed one, in the order of
\* a hash map, or finishes the activity, whose next start is a new one.
Enter ==
    /\ Interactive /\ view # 0
    /\ objects[view].state = "exited"
    /\ LET id == Service.currentSession
           r == Without(Service, objects, id)
           objs == Finished(objects, Terminated(id))
           Goto(next) ==
               LET o == CHOOSE n \in Named(r, objs, next) : TRUE
               IN /\ services' = [services EXCEPT ![sessionBinder] =
                                     [r EXCEPT !.currentSession = next]]
                  /\ IF next = Webview
                     THEN objects' = objs /\ UNCHANGED view
                     ELSE /\ objects' = IF viewSized THEN Sized(objs, o) ELSE objs
                          /\ view' = o
       IN \/ /\ r.sessionList # {}
             /\ \E next \in r.sessionList : Goto(next)
             /\ serviceStarted' = StillStarted(r)
             /\ UNCHANGED <<alive, live, serviceBound, activityVars, timer>>
          \/ /\ r.sessionList = {}
             /\ services' = [services EXCEPT ![sessionBinder] = r]
             /\ Destroyed
             /\ Settle(StillStarted(r), FALSE, Terminated(id))
    /\ UNCHANGED <<viewRef, viewSized, pendingCommand, openTerminalForSetup>>

\* startVSCodeServer of the web view in MainActivity: a new session is opened
\* for the server script, at once or by the composition, and in five seconds
\* the web view comes back.
StartServer ==
    /\ OnWebview /\ MayGrow /\ timer = NoTimer
    /\ changeSession(Fresh("server"), Fresh("server"))
    /\ timer' = ThisActivity
    /\ UNCHANGED <<alive, live, serviceStarted, serviceBound, activityVars, viewRef,
                   viewSized, openTerminalForSetup>>

TimerFires ==
    /\ alive /\ timer # NoTimer
    /\ timer' = NoTimer
    /\ LET binder == IF timer = ThisActivity THEN sessionBinder ELSE timer
       IN services' = [services EXCEPT ![binder].currentSession = Webview]
    /\ UNCHANGED <<alive, objects, live, serviceStarted, serviceBound, activityVars,
                   viewVars, pendingCommand, openTerminalForSetup>>

installResources ==
    /\ OnWebview /\ MayGrow
    /\ openTerminalForSetup' = TRUE
    /\ services' = [services EXCEPT ![sessionBinder].currentSession = Fresh("setup")]
    /\ UNCHANGED <<alive, objects, live, serviceStarted, serviceBound, activityVars,
                   viewVars, pendingCommand, timer>>

------------------------------------------------------------------------------
(* Frames *)

\* A frame composes a terminal view: its factory decides which session it
\* shows.  The view may get its size in the same frame or (no room beside the
\* keyboard) only later.
ComposeTerminal ==
    LET setup == Fresh("setup")
        id == IF openTerminalForSetup THEN setup
              ELSE IF pendingCommand # NoCommand THEN pendingCommand
              ELSE Service.currentSession
        named == Named(Service, objects, id)
        o == IF named = {} THEN Len(objects) + 1 ELSE CHOOSE n \in named : TRUE
        objs == IF named = {} THEN Append(objects, NewObject(id, pendingCommand)) ELSE objects
        r == IF named = {} THEN WithNew(Service, objects, id) ELSE Service
    IN /\ Interactive /\ Service.currentSession # Webview /\ view = 0
       /\ Len(objs) <= MaxObjects
       /\ openTerminalForSetup' = FALSE
       /\ services' = [services EXCEPT ![sessionBinder] = [r EXCEPT !.currentSession = id]]
       /\ pendingCommand' = IF named = {} THEN NoCommand ELSE pendingCommand
       /\ view' = o /\ viewRef' = TRUE
       /\ \E sized \in BOOLEAN :
             /\ viewSized' = sized
             /\ objects' = IF sized THEN Sized(objs, o) ELSE objs
       /\ UNCHANGED <<alive, live, serviceStarted, serviceBound, activityVars, timer>>

Layout ==
    /\ Interactive /\ view # 0 /\ ~viewSized
    /\ viewSized' = TRUE
    /\ objects' = Sized(objects, view)
    /\ UNCHANGED <<alive, serviceVars, activityVars, view, viewRef, pendingCommand,
                   openTerminalForSetup, timer>>

\* A frame with the web view current, or the settings opened, takes the terminal
\* view away; terminalView still refers to it until it is collected.
DisposeTerminal ==
    /\ Interactive /\ view # 0
    /\ view' = 0
    /\ UNCHANGED <<alive, objects, serviceVars, activityVars, viewRef, viewSized,
                   pendingCommand, openTerminalForSetup, timer>>

CollectView ==
    /\ alive /\ view = 0 /\ viewRef
    /\ viewRef' = FALSE /\ viewSized' = FALSE
    /\ UNCHANGED <<alive, objects, serviceVars, activityVars, view, pendingCommand,
                   openTerminalForSetup, timer>>

\* The main thread learns that a shell has ended, of itself or by SIGKILL.
ProcessExited(o) ==
    /\ alive /\ objects[o].state \in {"running", "killed"}
    /\ objects' = [objects EXCEPT ![o].state = "exited"]
    /\ UNCHANGED <<alive, serviceVars, activityVars, viewVars, pendingCommand,
                   openTerminalForSetup, timer>>

Next ==
    \/ onStart \/ onServiceConnected \/ onStop \/ Recreate \/ onStartCommand_EXIT
    \/ AddSession \/ SelectSession \/ DeleteSession \/ Enter
    \/ StartServer \/ TimerFires
    \/ installResources
    \/ ComposeTerminal \/ Layout \/ DisposeTerminal \/ CollectView
    \/ \E o \in DOMAIN objects : ProcessExited(o)

Spec == Init /\ [][Next]_vars

------------------------------------------------------------------------------
(* Properties *)

TypeOK ==
    /\ alive \in BOOLEAN /\ connecting \in BOOLEAN /\ isBound \in BOOLEAN
    /\ serviceStarted \in BOOLEAN /\ serviceBound \in BOOLEAN
    /\ viewRef \in BOOLEAN /\ viewSized \in BOOLEAN
    /\ openTerminalForSetup \in BOOLEAN
    /\ timer \in {NoTimer, ThisActivity} \cup DOMAIN services
    /\ activity \in {"started", "stopped"}
    /\ objects \in Seq([id : Ids, state : {"created", "running", "killed", "exited"},
                        command : Ids \cup {NoCommand}, service : 1..MaxServices])
    /\ Len(objects) <= MaxObjects
    /\ services \in Seq([sessions : SUBSET (1..MaxObjects),
                         sessionList : SUBSET (Ids \cup {Webview}),
                         currentSession : Ids \cup {Webview}])
    /\ live \in 0..Len(services) /\ sessionBinder \in 0..Len(services)
    /\ view \in 0..Len(objects)
    /\ pendingCommand \in Ids \cup {NoCommand}

\* The drawer lists exactly the sessions there are: the map of objects and the
\* observable list never drift apart.
ListMatchesSessions ==
    \A i \in DOMAIN services :
        services[i].sessionList \ {Webview} = {objects[o].id : o \in services[i].sessions}

\* The terminal on the screen shows the session that is marked as current, and
\* one the service still knows.
ShownIsCurrent ==
    (Interactive /\ view # 0 /\ Service.currentSession # Webview) =>
        /\ objects[view].id = Service.currentSession
        /\ view \in Service.sessions

\* A running session stays in the map it was created in, where EXIT, the
\* delete button and onDestroy find it: no handler loses one that still runs.
RunningIsOwned ==
    \A o \in DOMAIN objects :
        objects[o].state = "running" => o \in services[objects[o].service].sessions

\* ENTER in a finished session kills no other: the current session, which it
\* terminates, is the one that was shown.
EnterKillsNothing ==
    [][Enter => \A o \in DOMAIN objects :
           objects[o].state = "running" => objects'[o].state = "running"]_vars

\* "Persistent background service -- keeps running when you switch apps":
\* leaving the activity kills no session.
SessionsSurviveSwitching ==
    [][onStop => \A o \in DOMAIN objects :
           objects[o].state = "running" => objects'[o].state = "running"]_vars

\* "Switch to terminal session first, then it will create the session"
\* (startVSCodeServer): a pending command runs in the session it was made for.
CommandRunsInItsSession ==
    \A o \in DOMAIN objects :
        objects[o].command # NoCommand => objects[o].command = objects[o].id
==============================================================================
