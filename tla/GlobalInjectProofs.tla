-------------------------- MODULE GlobalInjectProofs --------------------------
(***************************************************************************)
(* Theorems about GlobalInject, for every set of sessions, processes and   *)
(* calls and every number of kills and wipes.                              *)
(***************************************************************************)
EXTENDS GlobalInject, TLAPS

\* TypeOK, and who makes a call that is not answered yet.
TypeInv ==
  /\ TypeOK
  /\ \A c \in Calls : call[c].step \in {"in", "pending"} => call[c].by \in Nodes

\* A session whose scripts are being written.
Creation == [session : Sessions, script : {"server", "inject"}, step : {"open", "write"}]

\* After a script comes the next one, or the session's shell.
LEMMA NextScriptTypes ==
    ASSUME TypeInv, creating \in Creation, NextScript
    PROVE  /\ session' \subseteq Sessions /\ creating' \in {NoSession} \cup Creation
           /\ creating'.session \notin session'
  <1>1. CASE creating.script = "server"
    <2>1. creating' = [creating EXCEPT !.script = "inject", !.step = "open"]
      BY <1>1 DEF NextScript
    <2>2. creating' \in Creation /\ creating'.session = creating.session
      BY <2>1 DEF Creation
    <2>3. QED
      BY <1>1, <2>2 DEF NextScript, TypeInv, TypeOK
  <1>2. CASE creating.script # "server"
    <2>1. creating' = NoSession /\ session' = session \cup {creating.session}
      BY <1>2 DEF NextScript
    <2>2. creating.session \in Sessions /\ creating'.session = Nobody
      BY <2>1 DEF Creation, NoSession
    <2>3. QED
      BY <2>1, <2>2, NobodyAssumption DEF TypeInv, TypeOK
  <1>3. QED
    BY <1>1, <1>2

\* What the processes do to a call when they end: nothing, or it is dead.
LEMMA AbandonedCalls ==
    ASSUME TypeInv, NEW nodes
    PROVE  /\ Abandoned(nodes) \in [Calls -> [by : Nodes \cup {Nobody}, path : Paths, form : Forms,
                                              step : {"idle", "in", "pending", "done", "dead"}]]
           /\ \A c \in Calls :
                 /\ Abandoned(nodes)[c].by = call[c].by
                 /\ Abandoned(nodes)[c].path = call[c].path
                 /\ Abandoned(nodes)[c].step \in {call[c].step, "dead"}
                 /\ Abandoned(nodes)[c].step \in {"in", "pending"} => call[c].by \notin nodes
  BY DEF Abandoned, TypeInv, TypeOK

\* The types of every variable; a call that waits for its answer belongs to a
\* process that runs.
THEOREM TypeInvariant == Spec => []TypeInv
  <1>1. Init => TypeInv
    <2> SUFFICES ASSUME Init
                 PROVE  TypeInv
      OBVIOUS
    <2>1. disk \in [{"server", "inject"} -> {"absent", "empty", "whole"}]
      BY DEF Init
    <2>2. call \in [Calls -> [by : Nodes \cup {Nobody}, path : Paths, form : Forms,
                              step : {"idle", "in", "pending", "done", "dead"}]]
      BY DEF Init, NoCall, Paths, Forms
    <2>3. \A c \in Calls : call[c].step \notin {"in", "pending"}
      BY DEF Init, NoCall
    <2>4. /\ creating = NoSession /\ session = {} /\ raced = {} /\ threw = {} /\ early = {}
          /\ wiped \in BOOLEAN /\ kills = 0 /\ wipes = 0
          /\ node \in [Nodes -> {"off", "patched", "bare", "failed"}]
          /\ answers \in [Calls -> Nat]
      BY DEF Init
    <2>5. QED
      BY <2>1, <2>2, <2>3, <2>4, BoundsAssumption DEF TypeInv, TypeOK
  <1>2. TypeInv /\ [Next]_vars => TypeInv'
    <2> SUFFICES ASSUME TypeInv, [Next]_vars
                 PROVE  TypeInv'
      OBVIOUS
    <2>1. ASSUME NEW s \in Sessions, CreateSession(s)
          PROVE  TypeInv'
      BY <2>1 DEF CreateSession, TypeInv, TypeOK, nodeVars, callVars, Alive
    <2>2. ASSUME OpenScript
          PROVE  TypeInv'
      <3>1. creating # NoSession
        BY <2>2 DEF OpenScript, NoSession
      <3>2. creating \in Creation
        BY <3>1 DEF TypeInv, TypeOK, Creation
      <3>3. disk' \in [{"server", "inject"} -> {"absent", "empty", "whole"}]
        BY <2>2, <3>2 DEF OpenScript, TypeInv, TypeOK, Creation
      <3>4. /\ session' \subseteq Sessions /\ creating' \in {NoSession} \cup Creation
            /\ creating'.session \notin session'
        <4>1. CASE NextScript
          BY <3>2, <4>1, NextScriptTypes
        <4>2. CASE creating' = [creating EXCEPT !.step = "write"] /\ UNCHANGED session
          <5>1. creating' \in Creation /\ creating'.session = creating.session
            BY <3>2, <4>2 DEF Creation
          <5>2. QED
            BY <4>2, <5>1 DEF TypeInv, TypeOK
        <4>3. QED
          BY <2>2, <4>1, <4>2 DEF OpenScript
      <3>5. QED
        BY <2>2, <3>3, <3>4 DEF OpenScript, TypeInv, TypeOK, Creation, nodeVars, callVars, Alive
    <2>3. ASSUME WriteScript
          PROVE  TypeInv'
      <3>1. creating # NoSession
        BY <2>3 DEF WriteScript, NoSession
      <3>2. creating \in Creation
        BY <3>1 DEF TypeInv, TypeOK, Creation
      <3>3. disk' \in [{"server", "inject"} -> {"absent", "empty", "whole"}]
        BY <2>3, <3>2 DEF WriteScript, TypeInv, TypeOK, Creation
      <3>4. /\ session' \subseteq Sessions /\ creating' \in {NoSession} \cup Creation
            /\ creating'.session \notin session'
        BY <2>3, <3>2, NextScriptTypes DEF WriteScript
      <3>5. wiped' \in BOOLEAN
        BY <2>3, Zenon DEF WriteScript
      <3>6. QED
        BY <2>3, <3>3, <3>4, <3>5 DEF WriteScript, TypeInv, TypeOK, Creation, nodeVars, callVars, Alive
    <2>4. ASSUME Wipe
          PROVE  TypeInv'
      BY <2>4, BoundsAssumption DEF Wipe, TypeInv, TypeOK, nodeVars, callVars, Alive
    <2>5. ASSUME Kill
          PROVE  TypeInv'
      <3>1. \A c \in Calls : call'[c].step \notin {"in", "pending"}
        <4>1. ASSUME NEW c \in Calls, call'[c].step \in {"in", "pending"}
              PROVE  call[c].step \in {"in", "pending"} /\ call[c].by \notin Nodes
          <5>1. /\ call'[c].step \in {call[c].step, "dead"}
                /\ call'[c].step \in {"in", "pending"} => call[c].by \notin Nodes
            BY <2>5, AbandonedCalls DEF Kill
          <5>2. QED
            BY <4>1, <5>1
        <4>2. QED
          BY <4>1 DEF TypeInv
      <3>2. QED
        <4>1. call' \in [Calls -> [by : Nodes \cup {Nobody}, path : Paths, form : Forms,
                                   step : {"idle", "in", "pending", "done", "dead"}]]
          BY <2>5, AbandonedCalls DEF Kill
        <4>2. /\ creating' = NoSession /\ session' = {} /\ raced' = {} /\ threw' = {}
              /\ disk' = disk /\ answers' = answers /\ early' = early
              /\ wiped' = wiped /\ kills' \in 0..MaxKills /\ wipes' = wipes
              /\ node' \in [Nodes -> {"off", "patched", "bare", "failed"}]
          BY <2>5, BoundsAssumption DEF Kill, TypeInv, TypeOK
        <4>3. QED
          BY <3>1, <4>1, <4>2 DEF TypeInv, TypeOK
    <2>6. ASSUME NEW n \in Nodes, StartNode(n)
          PROVE  TypeInv'
      <3>1. node' \in [Nodes -> {"off", "patched", "bare", "failed"}]
        BY <2>6 DEF StartNode, Required, TypeInv, TypeOK
      <3>2. raced' \subseteq Nodes
        BY <2>6 DEF StartNode, TypeInv, TypeOK
      <3>3. \A c \in Calls : call[c].step \in {"in", "pending"} => Alive(call[c].by)'
        BY <2>6 DEF StartNode, Alive, TypeInv, TypeOK, callVars
      <3>4. QED
        BY <2>6, <3>1, <3>2, <3>3 DEF StartNode, TypeInv, TypeOK, appVars, callVars, Alive
    <2>7. ASSUME NEW n \in Nodes, ExitNode(n)
          PROVE  TypeInv'
      <3>1. node' \in [Nodes -> {"off", "patched", "bare", "failed"}]
        BY <2>7 DEF ExitNode, TypeInv, TypeOK
      <3>2. ASSUME NEW c \in Calls, call'[c].step \in {"in", "pending"}
            PROVE  call'[c].by \in Nodes /\ Alive(call[c].by)'
        <4>1. /\ call[c].step \in {"in", "pending"} /\ call'[c].by = call[c].by
              /\ call[c].by # n
          <5>1. /\ call'[c].step \in {call[c].step, "dead"} /\ call'[c].by = call[c].by
                /\ call'[c].step \in {"in", "pending"} => call[c].by \notin {n}
            BY <2>7, AbandonedCalls DEF ExitNode
          <5>2. QED
            BY <3>2, <5>1
        <4>2. QED
          <5>1. call[c].by \in Nodes /\ Alive(call[c].by)
            BY <4>1 DEF TypeInv, TypeOK
          <5>2. node'[call[c].by] = node[call[c].by]
            BY <2>7, <4>1, <5>1 DEF ExitNode, TypeInv, TypeOK
          <5>3. QED
            BY <4>1, <5>1, <5>2 DEF Alive
      <3>3. QED
        BY <2>7, <3>1, <3>2, AbandonedCalls DEF ExitNode, TypeInv, TypeOK, appVars, Alive
    <2>8. ASSUME NEW n \in Nodes, NetworkInterfaces(n)
          PROVE  TypeInv'
      BY <2>8 DEF NetworkInterfaces, TypeInv, TypeOK, appVars, callVars, Alive
    <2>9. ASSUME NEW c \in Calls, ReadFileOwn(c)
          PROVE  TypeInv'
      BY <2>9 DEF ReadFileOwn, AfterOwn, TypeInv, TypeOK, appVars, nodeVars, Alive
    <2>10. ASSUME NEW c \in Calls, ReadFileOrig(c)
           PROVE  TypeInv'
      BY <2>10 DEF ReadFileOrig, TypeInv, TypeOK, appVars, nodeVars, Alive
    <2>11. ASSUME NEW c \in Calls, Answer(c)
           PROVE  TypeInv'
      BY <2>11 DEF Answer, TypeInv, TypeOK, appVars, nodeVars, Alive
    <2>12. ASSUME NEW c \in Calls, NEW n \in Nodes, Call(c, n)
           PROVE  TypeInv'
      BY <2>12 DEF Call, TypeInv, TypeOK, appVars, nodeVars, Alive
    <2>13. CASE UNCHANGED vars
      BY <2>13 DEF vars, TypeInv, TypeOK, Alive
    <2>14. QED
      BY <2>1, <2>2, <2>3, <2>4, <2>5, <2>6, <2>7, <2>8, <2>9, <2>10, <2>11, <2>12, <2>13
         DEF Next, JavaScript
  <1>3. QED
    BY <1>1, <1>2, PTL DEF Spec

\* The disk, the session that is created, the processes, the calls, their
\* answers and the histories keep their types, and only a process that runs
\* has a call that waits for its answer.
THEOREM TypeCorrect == Spec => []TypeOK
  BY TypeInvariant, PTL DEF TypeInv

------------------------------------------------------------------------------
(* What a starting process finds.                                          *)

\* There is a process, or a session that can start one.
Serving == session # {} \/ \E n \in Nodes : Alive(n)

\* While something can start a process globalinject.js is whole, but for the
\* moment in which it is written and for a wipe; a wipe is not forgotten as
\* long as globalinject.js is missing, even when it went away under the
\* writer's hands.  And whoever is without the patch was raced.
ScriptInv ==
  /\ Serving /\ disk.inject = "empty" => Writing("inject")
  /\ (Serving \/ Writing("inject")) /\ disk.inject = "absent" => wiped
  /\ UnpatchedOnlyByRace

\* The end of the app leaves nothing that could start a process.
LEMMA NothingServesAfterKill ==
    ASSUME TypeInv, Kill
    PROVE  ~Serving' /\ ~Writing("inject")'
  BY DEF Kill, Serving, Writing, Alive, NoSession

\* A process runs without the patch, or meets an exception of
\* os.networkInterfaces, only when it was started just while MkSession wrote
\* globalinject.js, or after a wipe that no creation has repaired.
THEOREM UnpatchedOnlyByRaceHolds == Spec => []UnpatchedOnlyByRace
  <1>1. Init => ScriptInv
    BY DEF Init, ScriptInv, Serving, Writing, NoSession, UnpatchedOnlyByRace, Alive
  <1>2. TypeInv /\ ScriptInv /\ [Next]_vars => ScriptInv'
    <2> SUFFICES ASSUME TypeInv, ScriptInv, [Next]_vars
                 PROVE  ScriptInv'
      OBVIOUS
    <2> USE DEF Serving, Alive
    <2>1. ASSUME NEW s \in Sessions, CreateSession(s)
          PROVE  ScriptInv'
      <3>1. ~Writing("inject") /\ ~Writing("inject")'
        BY <2>1 DEF CreateSession, Writing, NoSession
      <3>2. QED
        BY <2>1, <3>1 DEF CreateSession, ScriptInv, UnpatchedOnlyByRace, nodeVars
    <2>2. ASSUME OpenScript
          PROVE  ScriptInv'
      <3>1. /\ creating \in Creation /\ creating.step = "open"
            /\ disk \in [{"server", "inject"} -> {"absent", "empty", "whole"}]
        BY <2>2 DEF OpenScript, NoSession, TypeInv, TypeOK, Creation
      <3>2. node' = node /\ raced' = raced /\ threw' = threw /\ wiped' = wiped
        BY <2>2 DEF OpenScript, nodeVars
      <3>3. CASE creating.script = "inject"
        <4>1. /\ disk' = [disk EXCEPT !["inject"] = "empty"]
              /\ creating' = [creating EXCEPT !.step = "write"]
          BY <2>2, <3>3 DEF OpenScript, Rewrites
        <4>2. disk'.inject = "empty" /\ Writing("inject")'
          BY <3>1, <3>3, <4>1 DEF Writing, Creation
        <4>3. QED
          BY <3>2, <4>2 DEF ScriptInv, UnpatchedOnlyByRace
      <3>4. CASE creating.script = "server"
        <4>1. disk'.inject = disk.inject /\ session' = session
          BY <2>2, <3>1, <3>4 DEF OpenScript, NextScript
        <4>2. ~Writing("inject")' /\ ~Writing("inject")
          BY <2>2, <3>1, <3>4 DEF OpenScript, NextScript, Writing, Creation
        <4>3. QED
          BY <3>2, <4>1, <4>2 DEF ScriptInv, UnpatchedOnlyByRace
      <3>5. QED
        BY <3>1, <3>3, <3>4 DEF Creation
    <2>3. ASSUME WriteScript
          PROVE  ScriptInv'
      <3> DEFINE f == creating.script
                 written == [disk EXCEPT ![f] = IF @ = "absent" THEN @ ELSE "whole"]
      <3>1. /\ creating \in Creation /\ creating.step = "write"
            /\ disk \in [{"server", "inject"} -> {"absent", "empty", "whole"}]
        BY <2>3 DEF WriteScript, NoSession, TypeInv, TypeOK, Creation
      <3>2. /\ disk' = written /\ node' = node /\ raced' = raced /\ threw' = threw
            /\ wiped' = (wiped /\ \E g \in DOMAIN written : written[g] = "absent")
        BY <2>3 DEF WriteScript, nodeVars
      <3>3. disk'.inject = "absent" /\ wiped => wiped'
        BY <3>1, <3>2
      <3>4. ~Writing("inject")'
        <4>1. \/ creating' = NoSession
              \/ creating' = [creating EXCEPT !.script = "inject", !.step = "open"]
          BY <2>3 DEF WriteScript, NextScript
        <4>2. creating'.step # "write"
          <5>1. CASE creating' = NoSession
            BY <5>1 DEF NoSession
          <5>2. CASE creating' = [creating EXCEPT !.script = "inject", !.step = "open"]
            <6>1. creating'.step = "open"
              BY <5>2, <3>1 DEF Creation
            <6>2. QED
              BY <6>1
          <5>3. QED
            BY <4>1, <5>1, <5>2
        <4>3. QED
          BY <4>2 DEF Writing
      <3>5. CASE creating.script = "inject"
        <4>1. disk'.inject = IF disk.inject = "absent" THEN "absent" ELSE "whole"
          BY <3>1, <3>2, <3>5
        <4>2. Writing("inject")
          BY <3>1, <3>5 DEF Writing
        <4>3. QED
          BY <3>2, <3>3, <3>4, <4>1, <4>2 DEF ScriptInv, UnpatchedOnlyByRace
      <3>6. CASE creating.script = "server"
        <4>1. disk'.inject = disk.inject /\ session' = session
          BY <2>3, <3>1, <3>2, <3>6 DEF WriteScript, NextScript
        <4>2. ~Writing("inject")
          BY <3>6 DEF Writing
        <4>3. QED
          BY <3>2, <3>3, <3>4, <4>1, <4>2 DEF ScriptInv, UnpatchedOnlyByRace
      <3>7. QED
        BY <3>1, <3>5, <3>6 DEF Creation
    <2>4. ASSUME Wipe
          PROVE  ScriptInv'
      BY <2>4 DEF Wipe, ScriptInv, UnpatchedOnlyByRace, nodeVars, Writing, TypeInv, TypeOK
    <2>5. ASSUME Kill
          PROVE  ScriptInv'
      BY <2>5, NothingServesAfterKill DEF Kill, ScriptInv, UnpatchedOnlyByRace
    <2>6. ASSUME NEW n \in Nodes, StartNode(n)
          PROVE  ScriptInv'
      <3>1. disk' = disk /\ wiped' = wiped /\ threw' = threw /\ session' = session
            /\ creating' = creating
        BY <2>6 DEF StartNode, appVars
      <3>2. Serving
        BY <2>6 DEF StartNode
      <3>3. disk.inject = "whole" \/ wiped \/ Writing("inject")
        BY <3>2 DEF ScriptInv, TypeInv, TypeOK
      <3>4. node'[n] \in {"bare", "failed"} => n \in raced'
        BY <2>6, <3>3 DEF StartNode, Required, TypeInv, TypeOK
      <3>5. QED
        BY <2>6, <3>1, <3>2, <3>4 DEF StartNode, ScriptInv, UnpatchedOnlyByRace, Writing, TypeInv, TypeOK
    <2>7. ASSUME NEW n \in Nodes, ExitNode(n)
          PROVE  ScriptInv'
      <3>1. disk' = disk /\ wiped' = wiped /\ session' = session /\ creating' = creating
        BY <2>7 DEF ExitNode, appVars
      <3>2. QED
        BY <2>7, <3>1 DEF ExitNode, ScriptInv, UnpatchedOnlyByRace, Writing, TypeInv, TypeOK
    <2>8. ASSUME NEW n \in Nodes, NetworkInterfaces(n)
          PROVE  ScriptInv'
      BY <2>8 DEF NetworkInterfaces, Fakes, ScriptInv, UnpatchedOnlyByRace, Writing, appVars
    <2>9. ASSUME UNCHANGED <<appVars, nodeVars>>
          PROVE  ScriptInv'
      BY <2>9 DEF ScriptInv, UnpatchedOnlyByRace, Writing, appVars, nodeVars
    <2>10. QED
      BY <2>1, <2>2, <2>3, <2>4, <2>5, <2>6, <2>7, <2>8, <2>9
         DEF Next, JavaScript, ReadFileOwn, ReadFileOrig, Answer, Call, vars, appVars, nodeVars
  <1>3. QED
    BY <1>1, <1>2, TypeInvariant, PTL DEF Spec, ScriptInv

------------------------------------------------------------------------------
(* Answers.                                                                *)

\* A call that is not over has no answer, and one that had its answer before
\* it returned is over.
AnswerInv ==
  \A c \in Calls :
    /\ call[c].step \in {"idle", "in", "pending"} => answers[c] = 0 /\ c \notin early
    /\ answers[c] <= 1
    /\ c \in early => call[c].path = "shells"

\* fs.readFile calls back at most once, in a process with and without the
\* patch, whatever the form of the call; and a callback that runs before
\* readFile returns belongs to a call for /etc/shells.
THEOREM AnsweredOnceHolds == Spec => []AnsweredOnce
  <1>1. Init => AnswerInv
    BY DEF Init, AnswerInv
  <1>2. TypeInv /\ AnswerInv /\ [Next]_vars => AnswerInv'
    <2> SUFFICES ASSUME TypeInv, AnswerInv, [Next]_vars
                 PROVE  AnswerInv'
      OBVIOUS
    <2>1. ASSUME NEW nodes, call' = Abandoned(nodes), UNCHANGED <<answers, early>>
          PROVE  AnswerInv'
      <3>1. \A c \in Calls : /\ call'[c].step \in {call[c].step, "dead"}
                             /\ call'[c].path = call[c].path
        BY <2>1, AbandonedCalls
      <3>2. QED
        BY <2>1, <3>1 DEF AnswerInv
    <2>2. ASSUME NEW c \in Calls, NEW n \in Nodes, Call(c, n)
          PROVE  AnswerInv'
      <3>1. call[c].step = "idle"
        BY <2>2 DEF Call, NoCall
      <3>2. QED
        BY <2>2, <3>1 DEF Call, AnswerInv, TypeInv, TypeOK
    <2>3. ASSUME NEW c \in Calls, ReadFileOwn(c)
          PROVE  AnswerInv'
      BY <2>3 DEF ReadFileOwn, AfterOwn, Own, AnswerInv, TypeInv, TypeOK
    <2>4. ASSUME NEW c \in Calls, ReadFileOrig(c)
          PROVE  AnswerInv'
      BY <2>4 DEF ReadFileOrig, AnswerInv, TypeInv, TypeOK
    <2>5. ASSUME NEW c \in Calls, Answer(c)
          PROVE  AnswerInv'
      BY <2>5 DEF Answer, AnswerInv, TypeInv, TypeOK
    <2>6. ASSUME UNCHANGED callVars
          PROVE  AnswerInv'
      BY <2>6 DEF callVars, AnswerInv
    <2>7. QED
      BY <2>1, <2>2, <2>3, <2>4, <2>5, <2>6
         DEF Next, JavaScript, CreateSession, OpenScript, WriteScript, Wipe, Kill, StartNode,
             ExitNode, NetworkInterfaces, vars, callVars
  <1>3. TypeInv /\ AnswerInv => AnsweredOnce
    BY DEF TypeInv, TypeOK, AnswerInv, AnsweredOnce
  <1>4. QED
    BY <1>1, <1>2, <1>3, TypeInvariant, PTL DEF Spec

=============================================================================
