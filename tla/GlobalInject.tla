----------------------------- MODULE GlobalInject -----------------------------
(***************************************************************************)
(* globalinject.js: every Node.js process below server.sh loads it through *)
(* NODE_OPTIONS when it starts, and every creation of a terminal session   *)
(* in the app writes the file anew (MkSession), so that a process that     *)
(* starts in that moment loads an empty script.  In a process that has     *)
(* loaded it os.networkInterfaces never throws and fs.readFile answers for *)
(* /etc/shells by itself, before it returns.                               *)
(***************************************************************************)
EXTENDS Naturals

CONSTANTS
  Sessions,       \* terminal sessions; the server is started in one of them
  Nodes,          \* Node.js processes: servers and their children
  Calls,          \* calls of fs.readFile and os.networkInterfaces
  Nobody,
  MaxKills, MaxWipes

ASSUME NobodyAssumption == Nobody \notin Sessions
ASSUME BoundsAssumption == MaxKills \in Nat /\ MaxWipes \in Nat

VARIABLES
  disk,           \* the scripts local/bin/server and local/globalinject.js
  creating,       \* the session that is being created, the script it is at
  session,        \* sessions whose shell runs
  node,           \* each process: "off", "patched", "bare" or "failed"
  raced,          \* history: processes started while the script was written
  threw,          \* history: processes that os.networkInterfaces threw in
  call,           \* each call of readFile: who made it, its arguments, its step
  answers,        \* history: answers to each call
  early,          \* history: calls answered before they returned
  wiped,          \* the scripts were removed and not all written again
  kills, wipes

vars == <<disk, creating, session, node, raced, threw, call, answers, early, wiped, kills, wipes>>

nodeVars == <<node, raced, threw>>
callVars == <<call, answers, early>>
appVars == <<disk, creating, session, wiped, kills, wipes>>

Paths == {"shells", "other"}
Forms == {"third", "second", "none"}    \* where the callback is given
NoCall == [by |-> Nobody, path |-> "other", form |-> "none", step |-> "idle"]
NoSession == [session |-> Nobody, script |-> "none", step |-> "none"]
Alive(n) == node[n] \in {"patched", "bare"}

Init ==
  /\ disk = [server |-> "absent", inject |-> "absent"]
  /\ creating = NoSession
  /\ session = {}
  /\ node = [n \in Nodes |-> "off"] /\ raced = {} /\ threw = {}
  /\ call = [c \in Calls |-> NoCall] /\ answers = [c \in Calls |-> 0] /\ early = {}
  /\ wiped = FALSE
  /\ kills = 0 /\ wipes = 0

-----------------------------------------------------------------------------
(* MkSession on the main thread: the scripts, then the session's shell.    *)

\* Mutant of Rewrites: globalinject.js is treated like the other scripts.
RewritesNone(f) == FALSE

\* The server script stays as it is once it exists.
Rewrites(f) == f = "inject"

CreateSession(s) ==
  /\ creating = NoSession /\ s \notin session
  /\ creating' = [session |-> s, script |-> "server", step |-> "open"]
  /\ UNCHANGED <<disk, session, nodeVars, callVars, wiped, kills, wipes>>

\* Mutant of NextScript: the shell starts once its server script is there.
NextScriptEarly ==
  /\ creating' = IF creating.script = "server"
                 THEN [creating EXCEPT !.script = "inject", !.step = "open"] ELSE NoSession
  /\ session' = session \cup {creating.session}

\* On with the next script; after the last one the shell starts.
NextScript ==
  IF creating.script = "server"
  THEN creating' = [creating EXCEPT !.script = "inject", !.step = "open"] /\ UNCHANGED session
  ELSE creating' = NoSession /\ session' = session \cup {creating.session}

\* createFileIfNot creates the file, writeText empties it ...
OpenScript ==
  LET f == creating.script
  IN  /\ creating.step = "open"
      /\ \/ /\ Rewrites(f) \/ disk[f] = "absent"
            /\ disk' = [disk EXCEPT ![f] = "empty"]
            /\ creating' = [creating EXCEPT !.step = "write"]
            /\ UNCHANGED session
         \/ /\ ~Rewrites(f) /\ disk[f] # "absent"
            /\ NextScript
            /\ UNCHANGED disk
      /\ UNCHANGED <<nodeVars, callVars, wiped, kills, wipes>>

\* ... and writes it in one piece.  When the file was removed in between, the
\* text goes with it.
WriteScript ==
  LET f == creating.script
      written == [disk EXCEPT ![f] = IF @ = "absent" THEN @ ELSE "whole"]
  IN  /\ creating.step = "write"
      /\ disk' = written
      /\ wiped' = (wiped /\ \E g \in DOMAIN written : written[g] = "absent")
      /\ NextScript
      /\ UNCHANGED <<nodeVars, callVars, kills, wipes>>

\* A cancelled Downloader removes local with everything in it (module Setup).
Wipe ==
  /\ wipes < MaxWipes
  /\ wipes' = wipes + 1
  /\ disk' = [f \in DOMAIN disk |-> "absent"]
  /\ wiped' = TRUE
  /\ UNCHANGED <<creating, session, nodeVars, callVars, kills>>

\* The calls of a process that ends are never answered.
Abandoned(nodes) ==
  [c \in Calls |-> IF call[c].by \in nodes /\ call[c].step \in {"in", "pending"}
                   THEN [call[c] EXCEPT !.step = "dead"] ELSE call[c]]

\* The app's process ends, and with it its sessions and what runs in them.
Kill ==
  /\ kills < MaxKills
  /\ kills' = kills + 1
  /\ creating' = NoSession
  /\ session' = {}
  /\ node' = [n \in Nodes |-> "off"] /\ raced' = {} /\ threw' = {}
  /\ call' = Abandoned(Nodes)
  /\ UNCHANGED <<disk, answers, early, wiped, wipes>>

-----------------------------------------------------------------------------
(* Node.js processes.                                                      *)

\* --require of a missing file ends the process; an empty file does nothing.
Required(content) ==
  CASE content = "absent" -> "failed"
    [] content = "empty"  -> "bare"
    [] content = "whole"  -> "patched"

Writing(f) == creating.script = f /\ creating.step = "write"

\* server.sh in a session, or a process forked by one that runs.
StartNode(n) ==
  /\ node[n] = "off"
  /\ \/ session # {} /\ disk.server = "whole"
     \/ \E p \in Nodes : Alive(p)
  /\ node' = [node EXCEPT ![n] = Required(disk.inject)]
  /\ raced' = IF wiped \/ Writing("inject") THEN raced \cup {n} ELSE raced
  /\ UNCHANGED <<threw, appVars, callVars>>

ExitNode(n) ==
  /\ node[n] # "off"
  /\ node' = [node EXCEPT ![n] = "off"]
  /\ raced' = raced \ {n} /\ threw' = threw \ {n}
  /\ call' = Abandoned({n})
  /\ UNCHANGED <<appVars, answers, early>>

\* os.networkInterfaces answers with made-up interfaces where it would throw.
Fakes(n) == node[n] = "patched"

\* The original may throw, as it does on Android.
NetworkInterfaces(n) ==
  /\ Alive(n) /\ ~Fakes(n)
  /\ threw' = threw \cup {n}
  /\ UNCHANGED <<node, raced, appVars, callVars>>

-----------------------------------------------------------------------------
(* fs.readFile.                                                            *)

\* A thread of JavaScript is inside one call at a time.
Busy(n) == \E c \in Calls : call[c].by = n /\ call[c].step = "in"

Call(c, n) ==
  /\ call[c] = NoCall
  /\ Alive(n) /\ ~Busy(n)
  /\ \E path \in Paths, form \in Forms :
       call' = [call EXCEPT ![c] = [by |-> n, path |-> path, form |-> form, step |-> "in"]]
  /\ UNCHANGED <<appVars, nodeVars, answers, early>>

\* Mutant of OwnAnswer: only the third argument is looked at.
OwnAnswerThird(form) == form = "third"

\* A callback as the second argument counts as the third.
OwnAnswer(form) == form \in {"second", "third"}

\* The path is compared, in a process that has the patch.
Own(c) == node[call[c].by] = "patched" /\ call[c].path = "shells"

\* Mutant of AfterOwn: the return is forgotten, and the original runs as well.
AfterOwnFallsThrough(form) == IF form = "none" THEN "done" ELSE "pending"

AfterOwn(form) == "done"

\* callback(null, shells), and only then readFile returns.
ReadFileOwn(c) ==
  /\ call[c].step = "in" /\ Own(c)
  /\ call' = [call EXCEPT ![c].step = AfterOwn(call[c].form)]
  /\ IF OwnAnswer(call[c].form)
     THEN answers' = [answers EXCEPT ![c] = @ + 1] /\ early' = early \cup {c}
     ELSE UNCHANGED <<answers, early>>
  /\ UNCHANGED <<appVars, nodeVars>>

\* The original takes the arguments as they are; without a callback it throws.
ReadFileOrig(c) ==
  /\ call[c].step = "in" /\ ~Own(c)
  /\ call' = [call EXCEPT ![c].step = IF call[c].form = "none" THEN "done" ELSE "pending"]
  /\ UNCHANGED <<appVars, nodeVars, answers, early>>

\* The event loop brings the result of the original when no call is running.
Answer(c) ==
  /\ call[c].step = "pending" /\ ~Busy(call[c].by)
  /\ call' = [call EXCEPT ![c].step = "done"]
  /\ answers' = [answers EXCEPT ![c] = @ + 1]
  /\ UNCHANGED <<appVars, nodeVars, early>>

JavaScript(n) == \E c \in Calls : call[c].by = n /\ (ReadFileOwn(c) \/ ReadFileOrig(c) \/ Answer(c))

Next ==
  \/ \E s \in Sessions : CreateSession(s)
  \/ OpenScript \/ WriteScript \/ Wipe \/ Kill
  \/ \E n \in Nodes : StartNode(n) \/ ExitNode(n) \/ NetworkInterfaces(n) \/ JavaScript(n)
  \/ \E c \in Calls, n \in Nodes : Call(c, n)

\* A process with something to do goes on.
Fairness == \A n \in Nodes : WF_vars(JavaScript(n))

Spec == Init /\ [][Next]_vars /\ Fairness

-----------------------------------------------------------------------------
(* Properties.                                                             *)

TypeOK ==
  /\ disk \in [{"server", "inject"} -> {"absent", "empty", "whole"}]
  /\ creating \in {NoSession} \cup
       [session : Sessions, script : {"server", "inject"}, step : {"open", "write"}]
  /\ session \subseteq Sessions
  /\ creating.session \notin session
  /\ node \in [Nodes -> {"off", "patched", "bare", "failed"}]
  /\ raced \subseteq Nodes /\ threw \subseteq Nodes
  /\ call \in [Calls -> [by : Nodes \cup {Nobody}, path : Paths, form : Forms,
                         step : {"idle", "in", "pending", "done", "dead"}]]
  /\ \A c \in Calls : call[c].step \in {"in", "pending"} => Alive(call[c].by)
  /\ answers \in [Calls -> Nat]
  /\ early \subseteq Calls
  /\ wiped \in BOOLEAN
  /\ kills \in 0..MaxKills /\ wipes \in 0..MaxWipes

\* A process fails to load the script, runs without it, or meets an exception
\* of networkInterfaces only when it started just while a session's creation
\* was writing it, or after a wipe that no creation has repaired: the end
\* of the app in the middle of a creation is healed by the next creation,
\* before anything can start again.
UnpatchedOnlyByRace ==
  \A n \in Nodes : node[n] \in {"bare", "failed"} \/ n \in threw => n \in raced

\* No call is answered twice, whatever process makes it and wherever it gives
\* its callback; and only a call for /etc/shells runs its caller's callback
\* before it returns.
AnsweredOnce ==
  /\ \A c \in Calls : answers[c] <= 1
  /\ \A c \in early : call[c].path = "shells"

\* A call with a callback is answered unless its process ends first.
EventuallyAnswered ==
  \A c \in Calls :
    call[c].step = "in" /\ call[c].form # "none"
      ~> answers[c] > 0 \/ call[c].step = "dead"

=============================================================================
