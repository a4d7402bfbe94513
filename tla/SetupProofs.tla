------------------------------ MODULE SetupProofs ------------------------------
(***************************************************************************)
(* Theorems about Setup, for every number of parts and archives, every set *)
(* of extractions and sessions and every number of faults.                 *)
(***************************************************************************)
EXTENDS Setup, TLAPS

(* Types.                                                                  *)

Steps == [step : {"off", "clear", "unpack", "mark", "end"}, part : 0..Parts]
Flags == [isFirstLaunch : BOOLEAN, codeServerExtracted : BOOLEAN]
Downloads == [step : {"off", "check", "fetch", "read", "complete", "failed"}, file : 0..Archives]
Causes == {"overlap", "fail", "skip", "cut", "wipe", "close", "kill"}

\* TypeOK, and the Downloader is at a file of its list while it works.
TypeInv ==
  /\ TypeOK
  /\ ready \in BOOLEAN
  /\ download.step \in {"check", "fetch", "read"} => download.file \in 1..Archives

\* Steps of an extraction have their type.
LEMMA StepTypes ==
    /\ \A step \in {"off", "clear", "mark", "end"} :
          AtStep(step) \in Steps /\ AtStep(step).step = step
    /\ \A n \in 1..Parts : /\ AtPart(n) \in Steps /\ AtPart(n).step = "unpack"
                           /\ Unpacked(n) \in Steps
                           /\ Unpacked(n) = IF n = Parts THEN AtStep("mark") ELSE AtPart(n + 1)
  <1>1. Parts \in Nat \ {0}
    BY SizesAssumption
  <1>2. \A step \in {"off", "clear", "mark", "end"} :
           AtStep(step) \in Steps /\ AtStep(step).step = step
    BY <1>1 DEF AtStep, Steps
  <1>3. ASSUME NEW n \in 1..Parts
        PROVE  AtPart(n) \in Steps /\ AtPart(n).step = "unpack"
    BY <1>1 DEF AtPart, Steps
  <1>4. ASSUME NEW n \in 1..Parts
        PROVE  Unpacked(n) \in Steps
    <2>1. CASE n = Parts
      BY <1>2, <2>1 DEF Unpacked
    <2>2. CASE n # Parts
      <3>1. n + 1 \in 1..Parts
        BY <1>1, <2>2
      <3>2. QED
        BY <1>3, <2>2, <3>1 DEF Unpacked
    <2>3. QED
      BY <2>1, <2>2
  <1>5. QED
    BY <1>2, <1>3, <1>4 DEF Unpacked

\* The Downloader's next place has its type and is a file of the list, or
\* there is nothing left to fetch.
LEMMA NextFileTypes ==
    ASSUME NEW f \in 1..Archives
    PROVE  /\ NextFile(f) \in Downloads
           /\ NextFile(f).step \in {"check", "complete"}
           /\ NextFile(f).step = "check" => f # Archives /\ NextFile(f).file = f + 1
                                            /\ f + 1 \in 1..Archives
           /\ NextFile(f).step = "complete" => f = Archives
  <1>1. Archives \in Nat \ {0}
    BY SizesAssumption
  <1>2. CASE f = Archives
    BY <1>1, <1>2 DEF NextFile, Downloads
  <1>3. CASE f # Archives
    <2>1. f + 1 \in 1..Archives
      BY <1>1, <1>3
    <2>2. QED
      BY <1>1, <1>3, <2>1 DEF NextFile, Downloads
  <1>4. QED
    BY <1>2, <1>3

\* What opening MainActivity makes of the screen.
LEMMA OpenMainTypes ==
    ASSUME OpenMain
    PROVE  /\ app' = "main" /\ awaited' = Nobody /\ ready' \in BOOLEAN
           /\ ready' <=> isFilesDownloaded
           /\ download' \in Downloads
           /\ ready' => download' = NoDownload
           /\ ~ready' => download'.step = "check" /\ download'.file = 1
           /\ download'.step \in {"check", "fetch", "read"} => download'.file \in 1..Archives
  <1>1. isFilesDownloaded \in BOOLEAN
    BY DEF isFilesDownloaded
  <1>2. NoDownload \in Downloads /\ NoDownload.step = "off"
    BY SizesAssumption DEF NoDownload, Downloads
  <1>3. 1 \in 1..Archives /\ [step |-> "check", file |-> 1] \in Downloads
    BY SizesAssumption DEF Downloads
  <1>4. /\ app' = "main" /\ awaited' = Nobody
        /\ download' = IF isFilesDownloaded THEN NoDownload ELSE [step |-> "check", file |-> 1]
    BY DEF OpenMain
  <1>5. ready' \in BOOLEAN /\ (ready' <=> isFilesDownloaded)
    BY <1>1, Zenon DEF OpenMain
  <1>6. CASE isFilesDownloaded
    BY <1>2, <1>4, <1>5, <1>6
  <1>7. CASE ~isFilesDownloaded
    <2>1. download'.step = "check" /\ download'.file = 1
      BY <1>4, <1>7
    <2>2. QED
      BY <1>3, <1>4, <1>5, <1>7, <2>1
  <1>8. QED
    BY <1>6, <1>7

\* The dialog belongs to one extraction, which begins.
LEMMA DialogTypes ==
    ASSUME TypeInv, showExtractionDialog
    PROVE  /\ app' = "extracting"
           /\ \E e \in Extractions \ Running :
                /\ extraction' = [extraction EXCEPT ![e] = AtStep("clear")]
                /\ awaited' = e
           /\ extraction' \in [Extractions -> Steps]
           /\ awaited' \in Extractions
  <1>1. PICK e \in Extractions \ Running :
           extraction' = [extraction EXCEPT ![e] = AtStep("clear")] /\ awaited' = e
    BY DEF showExtractionDialog
  <1>2. AtStep("clear") \in Steps /\ extraction \in [Extractions -> Steps]
    BY StepTypes DEF TypeInv, TypeOK, Steps
  <1>3. extraction' \in [Extractions -> Steps]
    BY <1>1, <1>2
  <1>4. QED
    BY <1>1, <1>3 DEF showExtractionDialog

\* What onCreate leaves on the screen.
LEMMA OnCreateTypes ==
    ASSUME TypeInv, onCreate
    PROVE  /\ app' \in {"extracting", "main"}
           /\ prefs' \in Flags
           /\ extraction' \in [Extractions -> Steps]
           /\ awaited' \in Extractions \cup {Nobody}
           /\ ready' \in BOOLEAN
           /\ download' \in Downloads
           /\ download'.step \in {"check", "fetch", "read"} => download'.file \in 1..Archives
  <1>0. prefs \in Flags /\ extraction \in [Extractions -> Steps] /\ download \in Downloads
    BY DEF TypeInv, TypeOK, Flags, Steps, Downloads
  <1>1. CASE showExtractionDialog /\ UNCHANGED <<prefs, ready, download>>
    BY <1>0, <1>1, DialogTypes DEF TypeInv
  <1>2. CASE OpenMain /\ UNCHANGED extraction
             /\ prefs' \in {prefs, [prefs EXCEPT !.isFirstLaunch = FALSE]}
    <2>1. prefs' \in Flags
      BY <1>0, <1>2 DEF Flags
    <2>2. QED
      BY <1>0, <1>2, <2>1, OpenMainTypes
  <1>3. QED
    BY <1>1, <1>2 DEF onCreate

\* A fault is one of the counted ones.
LEMMA FaultTypes ==
    ASSUME TypeInv, NEW cause \in SUBSET Causes, Fault(cause)
    PROVE  faults' \in 0..MaxFaults /\ causes' \subseteq Causes /\ causes \subseteq causes'
  BY BoundsAssumption DEF Fault, TypeInv, TypeOK, Causes

\* The causes that are counted without a fault.
LEMMA CauseTypes == Overlap \in SUBSET Causes /\ CutOff \in SUBSET Causes
  BY DEF Overlap, CutOff, Causes

\* Nothing that lives in the process keeps a value.
LEMMA ProcessEndsTypes ==
    ASSUME TypeInv, ProcessEnds
    PROVE  /\ app' = "off" /\ prefs' = saved /\ prefs' \in Flags
           /\ extraction' \in [Extractions -> Steps]
           /\ awaited' = Nobody /\ ready' \in BOOLEAN /\ ~ready'
           /\ download' \in Downloads /\ download'.step = "off"
           /\ cancelled' = {}
           /\ session' \in [Sessions -> {"none", "starting", "unpacking", "cut", "running"}]
  <1>1. NoDownload \in Downloads /\ NoDownload.step = "off"
    BY SizesAssumption DEF NoDownload, Downloads
  <1>2. QED
    BY <1>1, StepTypes DEF ProcessEnds, TypeInv, TypeOK, Flags

\* A wiped local is empty.
LEMMA WipeTypes ==
    ASSUME TypeInv, Wipe
    PROVE  /\ code' \in [parts : SUBSET (1..Parts), installed : BOOLEAN]
           /\ code'.parts = {} /\ ~code'.installed
           /\ initHost' = "absent" /\ rootfs' = "empty"
           /\ session' \in [Sessions -> {"none", "starting", "unpacking", "cut", "running"}]
  BY DEF Wipe, NoCode, TypeInv, TypeOK

\* Every variable keeps its type, and the Downloader, the cancelled ones too,
\* is at a file of the list as long as it works.
THEOREM TypeInvariant == Spec => []TypeInv
  <1> USE DEF Steps, Flags, Downloads, Causes
  <1>1. Init => TypeInv
    <2> SUFFICES ASSUME Init
                 PROVE  TypeInv
      OBVIOUS
    <2>1. /\ code \in [parts : SUBSET (1..Parts), installed : BOOLEAN]
          /\ {prefs, saved} \subseteq Flags
          /\ download \in Downloads /\ download.step = "off"
      BY SizesAssumption DEF Init, NoCode, NoDownload
    <2>2. extraction \in [Extractions -> Steps]
      BY StepTypes DEF Init
    <2>3. ready \in BOOLEAN
      BY Zenon DEF Init
    <2>4. /\ app = "off" /\ awaited = Nobody /\ cancelled = {}
          /\ initHost = "absent" /\ rootfs = "empty" /\ causes = {}
          /\ files \in [1..Archives -> {"absent", "partial", "torn", "whole"}]
          /\ session \in [Sessions -> {"none", "starting", "unpacking", "cut", "running"}]
          /\ faults \in 0..MaxFaults
      BY BoundsAssumption DEF Init
    <2>5. QED
      BY <2>1, <2>2, <2>3, <2>4 DEF TypeInv, TypeOK
  <1>2. TypeInv /\ [Next]_vars => TypeInv'
    <2> SUFFICES ASSUME TypeInv, [Next]_vars
                 PROVE  TypeInv'
      OBVIOUS
    <2> USE DEF TypeInv, TypeOK, launcherVars, downloadVars, localVars
    <2>1. ASSUME Launch
          PROVE  TypeInv'
      BY <2>1, OnCreateTypes DEF Launch
    <2>2. ASSUME FlushPrefs
          PROVE  TypeInv'
      BY <2>2 DEF FlushPrefs
    <2>3. ASSUME Retry
          PROVE  TypeInv'
      BY <2>3, DialogTypes, CauseTypes DEF Retry
    <2>4. ASSUME Skip
          PROVE  TypeInv'
      BY <2>4, OpenMainTypes DEF Skip
    <2>5. ASSUME RotateLauncher
          PROVE  TypeInv'
      BY <2>5, OnCreateTypes, FaultTypes, CauseTypes DEF RotateLauncher
    <2>6. ASSUME NEW e \in Extractions, extractCodeServer(e)
          PROVE  TypeInv'
      <3>1. extraction' \in [Extractions -> Steps]
        <4>1. \E st \in Steps : extraction' = [extraction EXCEPT ![e] = st]
          <5>1. 1 \in 1..Parts
            BY SizesAssumption
          <5>2. QED
            BY <2>6, <5>1, StepTypes DEF extractCodeServer
        <4>2. QED
          BY <4>1
      <3>2. code' \in [parts : SUBSET (1..Parts), installed : BOOLEAN]
        <4>1. CASE code' = NoCode
          BY <4>1 DEF NoCode
        <4>2. ASSUME NEW n \in 1..Parts, code' = [code EXCEPT !.parts = @ \cup {n}]
              PROVE  code' \in [parts : SUBSET (1..Parts), installed : BOOLEAN]
          BY <4>2
        <4>3. CASE code' = [code EXCEPT !.installed = TRUE]
          BY <4>3
        <4>4. QED
          BY <2>6, <4>1, <4>2, <4>3 DEF extractCodeServer
      <3>3. QED
        BY <2>6, <3>1, <3>2 DEF extractCodeServer
    <2>7. ASSUME NEW e \in Extractions, Extracted(e)
          PROVE  TypeInv'
      BY <2>7, OpenMainTypes, StepTypes DEF Extracted
    <2>8. ASSUME NEW e \in Extractions, LeftoverEnds(e)
          PROVE  TypeInv'
      <3>1. UNCHANGED <<saved, code, initHost, rootfs, files, faults>>
        BY <2>8 DEF LeftoverEnds
      <3>2. CASE ProcessEnds /\ causes' = causes \cup {"kill"} \cup CutOff
        <4>1. causes' \subseteq Causes
          BY <3>2, CauseTypes
        <4>2. QED
          BY <3>1, <3>2, <4>1, ProcessEndsTypes
      <3>3. CASE /\ extraction' = [extraction EXCEPT ![e] = AtStep("off")]
                 /\ UNCHANGED <<app, prefs, awaited, ready, download, cancelled, session, causes>>
        <4>1. extraction' \in [Extractions -> Steps]
          BY <3>3, StepTypes
        <4>2. QED
          BY <3>1, <3>3, <4>1
      <3>4. QED
        BY <2>8, <3>2, <3>3 DEF LeftoverEnds
    <2>9. ASSUME NEW e \in Extractions, ExtractionFails(e)
          PROVE  TypeInv'
      BY <2>9, FaultTypes, StepTypes DEF ExtractionFails
    <2>10. ASSUME CheckFile
           PROVE  TypeInv'
      BY <2>10, NextFileTypes DEF CheckFile
    <2>11. ASSUME OpenFile
           PROVE  TypeInv'
      BY <2>11 DEF OpenFile
    <2>12. ASSUME FileFetched
           PROVE  TypeInv'
      BY <2>12, NextFileTypes DEF FileFetched
    <2>13. ASSUME DownloadFails
           PROVE  TypeInv'
      BY <2>13, WipeTypes, FaultTypes, CauseTypes DEF DownloadFails
    <2>14. ASSUME RotateMain
           PROVE  TypeInv'
      BY <2>14, FaultTypes, CauseTypes, SizesAssumption DEF RotateMain
    <2>15. ASSUME NEW d \in cancelled, CancelledOpens(d)
           PROVE  TypeInv'
      BY <2>15 DEF CancelledOpens
    <2>16. ASSUME NEW d \in cancelled, CancelledWipes(d)
           PROVE  TypeInv'
      BY <2>16, WipeTypes DEF CancelledWipes
    <2>17. ASSUME NEW s \in Sessions, createSession(s)
           PROVE  TypeInv'
      BY <2>17 DEF createSession
    <2>18. ASSUME NEW s \in Sessions, InitHost(s)
           PROVE  TypeInv'
      BY <2>18 DEF InitHost
    <2>19. ASSUME NEW s \in Sessions, TarEnds(s)
           PROVE  TypeInv'
      BY <2>19 DEF TarEnds
    <2>20. ASSUME NEW s \in Sessions, SessionEnds(s)
           PROVE  TypeInv'
      BY <2>20 DEF SessionEnds
    <2>21. ASSUME Kill
           PROVE  TypeInv'
      BY <2>21, ProcessEndsTypes, FaultTypes, CauseTypes DEF Kill
    <2>22. CASE UNCHANGED vars
      BY <2>22 DEF vars
    <2>23. QED
      BY <2>1, <2>2, <2>3, <2>4, <2>5, <2>6, <2>7, <2>8, <2>9, <2>10, <2>11, <2>12, <2>13,
         <2>14, <2>15, <2>16, <2>17, <2>18, <2>19, <2>20, <2>21, <2>22
         DEF Next, Extract, Download, Cancelled, Script
  <1>3. QED
    BY <1>1, <1>2, PTL DEF Spec

\* The state of the first start, the flags and the histories keep their types.
THEOREM TypeCorrect == Spec => []TypeOK
  BY TypeInvariant, PTL DEF TypeInv

------------------------------------------------------------------------------
(* What is on the screen.                                                  *)

\* No step forgets what has gone wrong.
LEMMA CausesGrow ==
    ASSUME [Next]_vars
    PROVE  causes \subseteq causes'
  BY DEF Next, vars, Launch, FlushPrefs, Retry, Skip, RotateLauncher, Extract, extractCodeServer,
         Extracted, LeftoverEnds, ExtractionFails, Download, CheckFile, OpenFile, FileFetched,
         DownloadFails, RotateMain, Cancelled, CancelledOpens, CancelledWipes, createSession,
         Script, InitHost, TarEnds, SessionEnds, Kill, Fault

\* onCreate shows the dialog of a new extraction when the flags ask for one,
\* and MainActivity otherwise.
LEMMA OnCreateShows ==
    ASSUME TypeInv, onCreate
    PROVE  \/ /\ showExtractionDialog /\ prefs.isFirstLaunch /\ NeedsExtraction
              /\ UNCHANGED <<prefs, ready, download>>
           \/ /\ OpenMain /\ UNCHANGED extraction
              /\ ~prefs.isFirstLaunch \/ ~NeedsExtraction
              /\ prefs'.codeServerExtracted = prefs.codeServerExtracted
  BY DEF onCreate, TypeInv, TypeOK

\* The dialog and its error message are shown before the flags are set; only
\* MainActivity has Downloaders; without a process nothing extracts; and the
\* preferences on the disk never know more than those in memory.
ActivityInv ==
  /\ app \in {"extracting", "failed"} => prefs.isFirstLaunch /\ ~prefs.codeServerExtracted
  /\ app = "off" => Running = {}
  /\ awaited # Nobody => app = "extracting" /\ awaited \in Running
  /\ download.step # "off" \/ cancelled # {} => app = "main"
  /\ saved.codeServerExtracted => prefs.codeServerExtracted

\* ActivityInv holds in every state, whatever is rotated, killed or retried.
LEMMA ActivityInvariant == Spec => []ActivityInv
  <1>1. Init => ActivityInv
    BY DEF Init, ActivityInv, Running, AtStep, NoDownload
  <1>2. TypeInv /\ ActivityInv /\ [Next]_vars => ActivityInv'
    <2> SUFFICES ASSUME TypeInv, ActivityInv, [Next]_vars
                 PROVE  ActivityInv'
      OBVIOUS
    <2>1. ASSUME onCreate, UNCHANGED <<saved, cancelled>>, cancelled = {}, download.step = "off"
          PROVE  ActivityInv'
      <3>1. CASE showExtractionDialog /\ prefs.isFirstLaunch /\ NeedsExtraction
                 /\ UNCHANGED <<prefs, ready, download>>
        <4>1. awaited' \in Running'
          BY <3>1, DialogTypes, StepTypes DEF Running, TypeInv, TypeOK
        <4>2. QED
          BY <2>1, <3>1, <4>1, DialogTypes DEF ActivityInv, NeedsExtraction
      <3>2. CASE OpenMain /\ prefs'.codeServerExtracted = prefs.codeServerExtracted
        BY <2>1, <3>2, OpenMainTypes DEF ActivityInv
      <3>3. QED
        BY <2>1, <3>1, <3>2, OnCreateShows
    <2>2. ASSUME Launch
          PROVE  ActivityInv'
      BY <2>1, <2>2 DEF Launch, ActivityInv
    <2>3. ASSUME FlushPrefs
          PROVE  ActivityInv'
      BY <2>3 DEF FlushPrefs, ActivityInv, downloadVars, Running
    <2>4. ASSUME Retry
          PROVE  ActivityInv'
      <3>1. awaited' \in Running'
        BY <2>4, DialogTypes, StepTypes DEF Retry, Running, TypeInv, TypeOK
      <3>2. QED
        BY <2>4, <3>1, DialogTypes DEF Retry, ActivityInv, downloadVars
    <2>5. ASSUME Skip
          PROVE  ActivityInv'
      BY <2>5, OpenMainTypes DEF Skip, ActivityInv, TypeInv, TypeOK
    <2>6. ASSUME RotateLauncher
          PROVE  ActivityInv'
      BY <2>1, <2>6 DEF RotateLauncher, ActivityInv
    <2>7. ASSUME NEW e \in Extractions, extractCodeServer(e)
          PROVE  ActivityInv'
      <3>1. e \in Running
        BY <2>7, StepTypes DEF extractCodeServer, Running
      <3>2. \A f \in Running : f \in Running'
        <4>1. \E n \in 1..Parts :
                 extraction' \in {[extraction EXCEPT ![e] = AtPart(n)],
                                 [extraction EXCEPT ![e] = Unpacked(n)],
                                 [extraction EXCEPT ![e] = AtStep("end")]}
          BY <2>7, SizesAssumption DEF extractCodeServer
        <4>2. \A n \in 1..Parts : Unpacked(n).step # "off"
          <5>1. ASSUME NEW n \in 1..Parts, n # Parts
                PROVE  n + 1 \in 1..Parts
            BY <5>1, SizesAssumption
          <5>2. QED
            BY <5>1, StepTypes DEF Unpacked
        <4>3. QED
          BY <4>1, <4>2, StepTypes DEF Running, TypeInv, TypeOK
      <3>3. QED
        BY <2>7, <3>1, <3>2 DEF extractCodeServer, ActivityInv, downloadVars
    <2>8. ASSUME NEW e \in Extractions, Extracted(e)
          PROVE  ActivityInv'
      BY <2>8, OpenMainTypes DEF Extracted, ActivityInv, TypeInv, TypeOK
    <2>9. ASSUME ProcessEnds, saved' = saved
          PROVE  ActivityInv'
      BY <2>9, StepTypes DEF ProcessEnds, ActivityInv, Running, NoDownload
    <2>10. ASSUME NEW e \in Extractions, LeftoverEnds(e)
           PROVE  ActivityInv'
      <3>1. e \in Running
        BY <2>10 DEF LeftoverEnds, Running
      <3>2. CASE ProcessEnds
        BY <2>9, <2>10, <3>2 DEF LeftoverEnds
      <3>3. CASE /\ extraction' = [extraction EXCEPT ![e] = AtStep("off")]
                 /\ UNCHANGED <<app, prefs, awaited, ready, download, cancelled, session, causes>>
        <4>1. awaited # e
          BY <2>10 DEF LeftoverEnds
        <4>2. awaited # Nobody => awaited \in Running'
          BY <3>3, <4>1 DEF ActivityInv, Running, TypeInv, TypeOK
        <4>3. QED
          BY <2>10, <3>1, <3>3, <4>2 DEF LeftoverEnds, ActivityInv
      <3>4. QED
        BY <2>10, <3>2, <3>3 DEF LeftoverEnds
    <2>11. ASSUME NEW e \in Extractions, ExtractionFails(e)
           PROVE  ActivityInv'
      <3>1. app = "extracting"
        BY <2>11, NobodyAssumption DEF ExtractionFails, ActivityInv
      <3>2. QED
        BY <2>11, <3>1 DEF ExtractionFails, ActivityInv, downloadVars
    <2>12. ASSUME Download \/ DownloadFails \/ RotateMain
                  \/ \E d \in cancelled : Cancelled(d)
           PROVE  ActivityInv'
      <3>1. app = "main"
        BY <2>12 DEF Download, CheckFile, OpenFile, FileFetched, DownloadFails, RotateMain,
                     ActivityInv
      <3>2. UNCHANGED <<app, prefs, saved, extraction, awaited>>
        BY <2>12 DEF Download, CheckFile, OpenFile, FileFetched, DownloadFails, RotateMain,
                     Cancelled, CancelledOpens, CancelledWipes, launcherVars
      <3>3. QED
        BY <3>1, <3>2 DEF ActivityInv, Running
    <2>13. ASSUME NEW s \in Sessions, createSession(s) \/ Script(s) \/ SessionEnds(s)
           PROVE  ActivityInv'
      BY <2>13 DEF createSession, Script, InitHost, TarEnds, SessionEnds, ActivityInv, Running,
                   launcherVars, downloadVars
    <2>14. ASSUME Kill
           PROVE  ActivityInv'
      BY <2>9, <2>14 DEF Kill
    <2>15. CASE UNCHANGED vars
      BY <2>15 DEF vars, ActivityInv, Running
    <2>16. QED
      BY <2>2, <2>3, <2>4, <2>5, <2>6, <2>7, <2>8, <2>10, <2>11, <2>12, <2>13, <2>14, <2>15
         DEF Next, Extract
  <1>3. QED
    BY <1>1, <1>2, TypeInvariant, PTL DEF Spec

------------------------------------------------------------------------------
(* The extraction and its marker.                                          *)

\* As long as no extraction has begun beside another: there is at most one;
\* while it is not at its end its activity waits for it and there is no
\* INSTALLED; and what it has passed is there.
ExtractionInv ==
  Without({"overlap"}) =>
    /\ \A e, f \in Running : e = f
    /\ \A e \in Running : extraction[e].step = "end" \/ (awaited = e /\ ~code.installed)
    /\ app = "failed" => ~code.installed /\ Running = {}
    /\ \A e \in Running, n \in 1..Parts :
          extraction[e] = AtPart(n) => 1..(n - 1) \subseteq code.parts
    /\ \A e \in Running : extraction[e].step = "mark" => code.parts = 1..Parts
    /\ code.installed => code.parts = 1..Parts

\* Where nothing extracts, ExtractionInv is about the marker alone.
LEMMA NoExtraction ==
    ASSUME Running' = {}, app' = "failed" => ~code'.installed,
           code'.installed => code'.parts = 1..Parts
    PROVE  ExtractionInv'
  BY DEF ExtractionInv

\* A new extraction in an app that has none, and no marker.
LEMMA FirstExtraction ==
    ASSUME TypeInv, showExtractionDialog, Running = {}, ~code.installed, UNCHANGED code
    PROVE  ExtractionInv'
  <1>1. PICK e \in Extractions :
           extraction' = [extraction EXCEPT ![e] = AtStep("clear")] /\ awaited' = e
    BY DEF showExtractionDialog
  <1>2. Running' = {e} /\ extraction'[e].step = "clear"
    BY <1>1, StepTypes DEF Running, TypeInv, TypeOK
  <1>3. \A n \in 1..Parts : extraction'[e] # AtPart(n)
    BY <1>2, StepTypes
  <1>4. app' = "extracting"
    BY DEF showExtractionDialog
  <1>5. QED
    BY <1>1, <1>2, <1>3, <1>4 DEF ExtractionInv

\* The steps of an extraction that is alone.
LEMMA ExtractionSteps ==
    ASSUME TypeInv, ActivityInv, ExtractionInv, Without({"overlap"}),
           NEW e \in Extractions, extractCodeServer(e)
    PROVE  ExtractionInv'
  <1>1. e \in Running /\ extraction[e].step # "end"
    BY StepTypes DEF extractCodeServer, Running
  <1>2. Running = {e} /\ awaited = e /\ ~code.installed /\ app # "failed"
    BY <1>1 DEF ExtractionInv
  <1>3. app' = app /\ awaited' = awaited /\ causes' = causes
    BY DEF extractCodeServer
  <1>4. Parts \in Nat \ {0} /\ code.parts \subseteq 1..Parts
    BY SizesAssumption DEF TypeInv, TypeOK
  <1>5. ASSUME NEW st \in Steps, extraction' = [extraction EXCEPT ![e] = st]
        PROVE  /\ extraction'[e] = st /\ Running' \subseteq {e}
    BY <1>2, <1>5 DEF Running, TypeInv, TypeOK
  <1>6. CASE code' = NoCode /\ extraction' = [extraction EXCEPT ![e] = AtPart(1)]
    <2>1. 1 \in 1..Parts
      BY <1>4
    <2>2. extraction'[e] = AtPart(1) /\ Running' \subseteq {e}
      BY <1>5, <1>6, <2>1, StepTypes
    <2>3. \A n \in 1..Parts : AtPart(1) = AtPart(n) => n = 1
      BY DEF AtPart
    <2>4. AtPart(1).step = "unpack"
      BY <2>1, StepTypes
    <2>5. ~code'.installed
      BY <1>6 DEF NoCode
    <2>6. QED
      BY <1>2, <1>3, <2>2, <2>3, <2>4, <2>5 DEF ExtractionInv
  <1>7. ASSUME NEW n \in 1..Parts, extraction[e] = AtPart(n),
               code' = [code EXCEPT !.parts = @ \cup {n}],
               extraction' = [extraction EXCEPT ![e] = Unpacked(n)]
        PROVE  ExtractionInv'
    <2>1. 1..(n - 1) \subseteq code.parts
      BY <1>1, <1>2, <1>7 DEF ExtractionInv
    <2>2. code'.parts = code.parts \cup {n} /\ ~code'.installed
      BY <1>2, <1>7 DEF TypeInv, TypeOK
    <2>3. 1..n \subseteq code'.parts /\ code'.parts \subseteq 1..Parts
      BY <1>4, <2>1, <2>2
    <2>4. extraction'[e] = Unpacked(n) /\ Running' \subseteq {e}
      BY <1>5, <1>7, StepTypes
    <2>5. CASE n = Parts
      <3>1. extraction'[e].step = "mark" /\ code'.parts = 1..Parts
        BY <2>3, <2>4, <2>5, StepTypes
      <3>2. \A m \in 1..Parts : extraction'[e] # AtPart(m)
        BY <3>1, StepTypes
      <3>3. QED
        BY <1>2, <1>3, <2>2, <2>4, <3>1, <3>2 DEF ExtractionInv
    <2>6. CASE n # Parts
      <3>1. n + 1 \in 1..Parts
        BY <1>4, <2>6
      <3>2. extraction'[e] = AtPart(n + 1) /\ extraction'[e].step = "unpack"
        BY <2>4, <2>6, <3>1, StepTypes
      <3>3. \A m \in 1..Parts : AtPart(n + 1) = AtPart(m) => m - 1 = n
        BY DEF AtPart
      <3>4. QED
        BY <1>2, <1>3, <2>2, <2>3, <2>4, <3>2, <3>3 DEF ExtractionInv
    <2>7. QED
      BY <2>5, <2>6
  <1>8. CASE /\ extraction[e].step = "mark"
             /\ code' = [code EXCEPT !.installed = TRUE]
             /\ extraction' = [extraction EXCEPT ![e] = AtStep("end")]
    <2>1. code.parts = 1..Parts
      BY <1>1, <1>2, <1>8 DEF ExtractionInv
    <2>2. code'.parts = 1..Parts
      BY <1>8, <2>1 DEF TypeInv, TypeOK
    <2>3. extraction'[e].step = "end" /\ Running' \subseteq {e}
      BY <1>5, <1>8, StepTypes
    <2>4. \A m \in 1..Parts : extraction'[e] # AtPart(m)
      BY <2>3, StepTypes
    <2>5. QED
      BY <1>2, <1>3, <2>2, <2>3, <2>4 DEF ExtractionInv
  <1>9. QED
    BY <1>6, <1>7, <1>8 DEF extractCodeServer

\* A wipe finds no extraction but those at their end.
LEMMA WipeSparesExtractions ==
    ASSUME TypeInv, ActivityInv, ExtractionInv, Without({"overlap"}), app = "main",
           Wipe \/ UNCHANGED code, UNCHANGED <<app, extraction, awaited>>
    PROVE  ExtractionInv'
  <1>1. \A e \in Running : extraction[e].step = "end"
    BY NobodyAssumption DEF ActivityInv, ExtractionInv, Running
  <1>2. \A e \in Running, n \in 1..Parts : extraction[e] # AtPart(n)
    BY <1>1, StepTypes
  <1>3. code'.installed => code'.parts = 1..Parts
    BY WipeTypes DEF ExtractionInv
  <1>4. QED
    BY <1>1, <1>2, <1>3 DEF ExtractionInv, Running

\* ExtractionInv holds in every state.
LEMMA ExtractionInvariant == Spec => []ExtractionInv
  <1>1. Init => ExtractionInv
    BY DEF Init, ExtractionInv, Running, AtStep, NoCode
  <1>2. TypeInv /\ ActivityInv /\ ExtractionInv /\ [Next]_vars => ExtractionInv'
    <2> SUFFICES ASSUME TypeInv, ActivityInv, ExtractionInv, [Next]_vars, Without({"overlap"})'
                 PROVE  ExtractionInv'
      BY DEF ExtractionInv
    <2>1. Without({"overlap"})
      BY CausesGrow DEF Without
    <2>2. ASSUME OpenMain, UNCHANGED <<code, extraction>>,
                 \A e \in Running : extraction[e].step = "end"
          PROVE  ExtractionInv'
      <3>1. app' = "main"
        BY <2>2 DEF OpenMain
      <3>2. \A e \in Running, n \in 1..Parts : extraction[e] # AtPart(n)
        BY <2>2, StepTypes
      <3>3. QED
        BY <2>1, <2>2, <3>1, <3>2 DEF ExtractionInv, Running
    <2>3. ASSUME Launch
          PROVE  ExtractionInv'
      <3>1. Running = {} /\ UNCHANGED code /\ onCreate
        BY <2>3 DEF Launch, ActivityInv, localVars
      <3>2. QED
        BY <2>2, <3>1, OnCreateShows, FirstExtraction DEF NeedsExtraction, isCodeServerInstalled
    <2>4. ASSUME FlushPrefs
          PROVE  ExtractionInv'
      BY <2>1, <2>4 DEF FlushPrefs, ExtractionInv, Running, localVars
    <2>5. ASSUME Retry
          PROVE  ExtractionInv'
      <3>1. Running = {} /\ ~code.installed /\ UNCHANGED code /\ showExtractionDialog
        BY <2>1, <2>5 DEF Retry, ExtractionInv, localVars
      <3>2. QED
        BY <3>1, FirstExtraction
    <2>6. ASSUME Skip
          PROVE  ExtractionInv'
      <3>1. Running = {} /\ UNCHANGED <<code, extraction>> /\ OpenMain
        BY <2>1, <2>6 DEF Skip, ExtractionInv, localVars
      <3>2. QED
        BY <2>2, <3>1
    <2>7. ASSUME RotateLauncher
          PROVE  ExtractionInv'
      <3>1. UNCHANGED code /\ onCreate
        BY <2>7 DEF RotateLauncher, localVars
      <3>2. CASE showExtractionDialog /\ NeedsExtraction
        <4>1. Running = {}
          BY <2>7, <3>2 DEF RotateLauncher, Fault, Overlap, Without
        <4>2. QED
          BY <3>1, <3>2, <4>1, FirstExtraction DEF NeedsExtraction, isCodeServerInstalled
      <3>3. CASE OpenMain /\ UNCHANGED extraction /\ (~prefs.isFirstLaunch \/ ~NeedsExtraction)
        <4>1. code.installed
          BY <2>7, <3>3 DEF RotateLauncher, ActivityInv, NeedsExtraction, isCodeServerInstalled
        <4>2. QED
          BY <2>1, <2>2, <3>1, <3>3, <4>1 DEF ExtractionInv
      <3>4. QED
        BY <3>1, <3>2, <3>3, OnCreateShows
    <2>8. ASSUME NEW e \in Extractions, extractCodeServer(e)
          PROVE  ExtractionInv'
      BY <2>1, <2>8, ExtractionSteps
    <2>9. ASSUME NEW e \in Extractions, e \in Running,
                 extraction' = [extraction EXCEPT ![e] = AtStep("off")]
          PROVE  Running' = {}
      <3>1. Running = {e}
        BY <2>1, <2>9 DEF ExtractionInv
      <3>2. QED
        BY <2>9, <3>1, StepTypes DEF Running, TypeInv, TypeOK
    <2>10. code.installed => code.parts = 1..Parts
      BY <2>1 DEF ExtractionInv
    <2>11. ASSUME NEW e \in Extractions, Extracted(e)
           PROVE  ExtractionInv'
      <3>1. Running' = {}
        BY <2>9, <2>11 DEF Extracted, Running
      <3>2. app' = "main" /\ UNCHANGED code
        BY <2>11 DEF Extracted, OpenMain, localVars
      <3>3. QED
        BY <2>10, <3>1, <3>2, NoExtraction
    <2>12. ASSUME ProcessEnds, UNCHANGED code
           PROVE  ExtractionInv'
      <3>1. Running' = {} /\ app' = "off"
        BY <2>12, StepTypes DEF ProcessEnds, Running
      <3>2. QED
        BY <2>10, <2>12, <3>1, NoExtraction
    <2>13. ASSUME NEW e \in Extractions, LeftoverEnds(e)
           PROVE  ExtractionInv'
      <3>1. UNCHANGED code /\ e \in Running
        BY <2>13 DEF LeftoverEnds, localVars, Running
      <3>2. CASE ProcessEnds
        BY <2>12, <3>1, <3>2
      <3>3. CASE extraction' = [extraction EXCEPT ![e] = AtStep("off")] /\ app' = app
        <4>1. Running' = {}
          BY <2>9, <3>1, <3>3
        <4>2. app' # "failed"
          BY <2>1, <3>1, <3>3 DEF ExtractionInv
        <4>3. QED
          BY <2>10, <3>1, <4>1, <4>2, NoExtraction
      <3>4. QED
        BY <2>13, <3>2, <3>3 DEF LeftoverEnds
    <2>14. ASSUME NEW e \in Extractions, ExtractionFails(e)
           PROVE  ExtractionInv'
      <3>1. e \in Running /\ extraction[e].step # "end" /\ UNCHANGED code
        BY <2>14, NobodyAssumption DEF ExtractionFails, ActivityInv, localVars
      <3>2. ~code.installed
        BY <2>1, <3>1 DEF ExtractionInv
      <3>3. Running' = {}
        BY <2>9, <2>14, <3>1 DEF ExtractionFails
      <3>4. QED
        BY <3>1, <3>2, <3>3, NoExtraction
    <2>15. ASSUME Download \/ DownloadFails \/ RotateMain
                  \/ \E d \in cancelled : Cancelled(d)
           PROVE  ExtractionInv'
      <3>1. app = "main"
        BY <2>15 DEF Download, CheckFile, OpenFile, FileFetched, DownloadFails, RotateMain,
                     ActivityInv
      <3>2. UNCHANGED <<app, extraction, awaited>> /\ (Wipe \/ UNCHANGED code)
        BY <2>15 DEF Download, CheckFile, OpenFile, FileFetched, DownloadFails, RotateMain,
                     Cancelled, CancelledOpens, CancelledWipes, launcherVars, localVars
      <3>3. QED
        BY <2>1, <3>1, <3>2, WipeSparesExtractions
    <2>16. ASSUME NEW s \in Sessions, createSession(s) \/ Script(s) \/ SessionEnds(s)
           PROVE  ExtractionInv'
      <3>1. UNCHANGED <<app, extraction, awaited, code>>
        BY <2>16 DEF createSession, Script, InitHost, TarEnds, SessionEnds, launcherVars, localVars
      <3>2. QED
        BY <2>1, <3>1 DEF ExtractionInv, Running
    <2>17. ASSUME Kill
           PROVE  ExtractionInv'
      BY <2>12, <2>17 DEF Kill
    <2>18. CASE UNCHANGED vars
      BY <2>1, <2>18 DEF vars, ExtractionInv, Running
    <2>19. QED
      BY <2>3, <2>4, <2>5, <2>6, <2>7, <2>8, <2>11, <2>13, <2>14, <2>15, <2>16, <2>17, <2>18
         DEF Next, Extract
  <1>3. QED
    BY <1>1, <1>2, TypeInvariant, ActivityInvariant, PTL DEF Spec

\* The file INSTALLED stands for a whole code-server, however often the
\* extraction failed, was killed, retried or wiped away, unless one extraction
\* began beside another.
THEOREM InstalledMeansWholeHolds == Spec => []InstalledMeansWhole
  <1>1. ExtractionInv => InstalledMeansWhole
    BY DEF ExtractionInv, InstalledMeansWhole
  <1>2. QED
    BY <1>1, ExtractionInvariant, PTL

\* An extraction at its end has left the marker, and so has the one the
\* preferences speak of.
ExtractedInv ==
  /\ Without({"overlap", "wipe"}) =>
       \A e \in Extractions : extraction[e].step = "end" => code.installed
  /\ ExtractedMeansInstalled

\* Once the preferences say that code-server was extracted, after the
\* extraction or read back from the disk in a later process, the marker is
\* there, unless the user chose Skip, a Downloader wiped local or one
\* extraction began beside another.
THEOREM ExtractedMeansInstalledHolds == Spec => []ExtractedMeansInstalled
  <1>1. Init => ExtractedInv
    BY DEF Init, ExtractedInv, ExtractedMeansInstalled, AtStep
  <1>2. TypeInv /\ ActivityInv /\ ExtractionInv /\ ExtractedInv /\ [Next]_vars => ExtractedInv'
    <2> SUFFICES ASSUME TypeInv, ActivityInv, ExtractionInv, ExtractedInv, [Next]_vars,
                        Without({"overlap", "wipe"})'
                 PROVE  /\ \A e \in Extractions : extraction'[e].step = "end" => code'.installed
                        /\ Without({"skip"})' /\ prefs'.codeServerExtracted => code'.installed
      BY DEF ExtractedInv, ExtractedMeansInstalled, Without
    <2> DEFINE Goal == /\ \A e \in Extractions : extraction'[e].step = "end" => code'.installed
                       /\ Without({"skip"})' /\ prefs'.codeServerExtracted => code'.installed
    <2>0. SUFFICES Goal
      OBVIOUS
    <2>1. /\ Without({"overlap"}) /\ Without({"overlap", "wipe"})
          /\ Without({"skip"})' => Without({"overlap", "skip", "wipe"})
      BY CausesGrow DEF Without
    <2>2. /\ \A e \in Extractions : extraction[e].step = "end" => code.installed
          /\ Without({"skip"})' /\ prefs.codeServerExtracted => code.installed
      BY <2>1 DEF ExtractedInv, ExtractedMeansInstalled
    <2>3. ASSUME UNCHANGED code,
                 prefs'.codeServerExtracted => prefs.codeServerExtracted,
                 \A e \in Extractions : extraction'[e].step = "end" => extraction[e].step = "end"
          PROVE  Goal
      BY <2>2, <2>3
    <2>4. ASSUME onCreate, UNCHANGED code
          PROVE  Goal
      <3>1. prefs'.codeServerExtracted => prefs.codeServerExtracted
        BY <2>4, OnCreateShows
      <3>2. \A e \in Extractions : extraction'[e].step = "end" => extraction[e].step = "end"
        BY <2>4, OnCreateShows, DialogTypes, StepTypes DEF TypeInv, TypeOK
      <3>3. QED
        BY <2>3, <2>4, <3>1, <3>2
    <2>5. ASSUME Launch \/ RotateLauncher
          PROVE  Goal
      BY <2>4, <2>5 DEF Launch, RotateLauncher, localVars
    <2>6. ASSUME FlushPrefs
          PROVE  Goal
      BY <2>3, <2>6 DEF FlushPrefs, localVars
    <2>7. ASSUME Retry
          PROVE  Goal
      <3>1. \A e \in Extractions : extraction'[e].step = "end" => extraction[e].step = "end"
        BY <2>7, DialogTypes, StepTypes DEF Retry, TypeInv, TypeOK
      <3>2. QED
        BY <2>3, <2>7, <3>1 DEF Retry, localVars
    <2>8. ASSUME Skip
          PROVE  Goal
      <3>1. ~Without({"skip"})'
        BY <2>8 DEF Skip, Without
      <3>2. UNCHANGED <<code, extraction>>
        BY <2>8 DEF Skip, localVars
      <3>3. QED
        BY <2>2, <3>1, <3>2
    <2>9. ASSUME NEW e \in Extractions, extractCodeServer(e)
          PROVE  Goal
      <3>1. e \in Running /\ extraction[e].step # "end"
        BY <2>9, StepTypes DEF extractCodeServer, Running
      <3>2. Running = {e} /\ awaited = e
        BY <2>1, <3>1 DEF ExtractionInv
      <3>3. ~prefs.codeServerExtracted /\ prefs' = prefs
        BY <2>9, <3>2, NobodyAssumption DEF ActivityInv, extractCodeServer
      <3>4. \A f \in Extractions : f # e => extraction'[f].step # "end"
        BY <2>9, <3>2 DEF extractCodeServer, Running, TypeInv, TypeOK
      <3>5. extraction'[e].step = "end" => code'.installed
        <4>1. CASE extraction' = [extraction EXCEPT ![e] = AtPart(1)]
          <5>1. extraction'[e] = AtPart(1) /\ 1 \in 1..Parts
            BY <4>1, SizesAssumption DEF TypeInv, TypeOK
          <5>2. QED
            BY <5>1, StepTypes
        <4>2. ASSUME NEW n \in 1..Parts, extraction' = [extraction EXCEPT ![e] = Unpacked(n)]
              PROVE  extraction'[e].step # "end"
          <5>1. extraction'[e] = Unpacked(n)
            BY <4>2 DEF TypeInv, TypeOK
          <5>2. CASE n = Parts
            BY <5>1, <5>2, StepTypes
          <5>3. CASE n # Parts
            <6>1. n + 1 \in 1..Parts
              BY <5>3, SizesAssumption
            <6>2. QED
              BY <5>1, <5>3, <6>1, StepTypes
          <5>4. QED
            BY <5>2, <5>3
        <4>3. CASE code' = [code EXCEPT !.installed = TRUE]
          BY <4>3 DEF TypeInv, TypeOK
        <4>4. QED
          BY <2>9, <4>1, <4>2, <4>3 DEF extractCodeServer
      <3>6. QED
        BY <3>3, <3>4, <3>5
    <2>10. ASSUME NEW e \in Extractions, Extracted(e)
           PROVE  Goal
      <3>1. code.installed /\ UNCHANGED code
        BY <2>2, <2>10 DEF Extracted, localVars
      <3>2. QED
        BY <3>1
    <2>11. ASSUME ProcessEnds, UNCHANGED code
           PROVE  Goal
      BY <2>2, <2>11, StepTypes DEF ProcessEnds, ActivityInv
    <2>12. ASSUME NEW e \in Extractions, LeftoverEnds(e)
           PROVE  Goal
      <3>1. UNCHANGED code
        BY <2>12 DEF LeftoverEnds, localVars
      <3>2. CASE extraction' = [extraction EXCEPT ![e] = AtStep("off")] /\ UNCHANGED prefs
        BY <2>3, <3>1, <3>2, StepTypes DEF TypeInv, TypeOK
      <3>3. QED
        BY <2>11, <2>12, <3>1, <3>2 DEF LeftoverEnds
    <2>13. ASSUME NEW e \in Extractions, ExtractionFails(e)
           PROVE  Goal
      <3>1. UNCHANGED <<code, prefs>> /\ extraction' = [extraction EXCEPT ![e] = AtStep("off")]
        BY <2>13 DEF ExtractionFails, localVars
      <3>2. QED
        BY <2>3, <3>1, StepTypes DEF TypeInv, TypeOK
    <2>14. ASSUME DownloadFails \/ \E d \in cancelled : CancelledWipes(d)
           PROVE  Goal
      <3>1. "wipe" \in causes'
        BY <2>14 DEF DownloadFails, CancelledWipes, Fault
      <3>2. QED
        BY <3>1 DEF Without
    <2>15. ASSUME Download \/ RotateMain \/ \E d \in cancelled : CancelledOpens(d)
           PROVE  Goal
      BY <2>3, <2>15 DEF Download, CheckFile, OpenFile, FileFetched, RotateMain, CancelledOpens,
                         launcherVars, localVars
    <2>16. ASSUME NEW s \in Sessions, createSession(s) \/ Script(s) \/ SessionEnds(s)
           PROVE  Goal
      BY <2>3, <2>16 DEF createSession, Script, InitHost, TarEnds, SessionEnds,
                         launcherVars, localVars
    <2>17. ASSUME Kill
           PROVE  Goal
      BY <2>11, <2>17 DEF Kill
    <2>18. CASE UNCHANGED vars
      BY <2>3, <2>18 DEF vars
    <2>19. QED
      BY <2>5, <2>6, <2>7, <2>8, <2>9, <2>10, <2>12, <2>13, <2>14, <2>15, <2>16, <2>17, <2>18
         DEF Next, Extract, Cancelled
  <1>3. ExtractedInv => ExtractedMeansInstalled
    BY DEF ExtractedInv
  <1>4. QED
    BY <1>1, <1>2, <1>3, TypeInvariant, ActivityInvariant, ExtractionInvariant, PTL DEF Spec

------------------------------------------------------------------------------
(* The archives.                                                           *)

\* What the Downloader has passed exists, and so does every archive when it
\* is done or was not needed.  As long as no Downloader was cut off an archive
\* is missing, whole, or being read by the one on the screen.
ArchivesInv ==
  /\ download.step \in {"check", "fetch", "read"} =>
       \A g \in 1..(download.file - 1) : files[g] # "absent"
  /\ ready \/ download.step = "complete" => \A f \in 1..Archives : files[f] # "absent"
  /\ ready => download.step = "off"
  /\ Without({"cut"}) =>
       /\ \A f \in 1..Archives :
            \/ files[f] \in {"absent", "whole"}
            \/ files[f] = "partial" /\ download.step = "read" /\ download.file = f
       /\ download.step = "fetch" => files[download.file] = "absent"
       /\ download.step = "read" => files[download.file] = "partial"

\* When a Downloader starts over, or is not needed, the archives stay what
\* they are.
LEMMA StartsOver ==
    ASSUME TypeInv, ArchivesInv, causes \subseteq causes', UNCHANGED files,
           download.step = "read" => ~Without({"cut"})',
           \/ ~ready' /\ download'.step = "check" /\ download'.file = 1
           \/ ~ready' /\ download'.step \in {"off", "failed"}
           \/ ready' /\ download'.step = "off" /\ isFilesDownloaded
    PROVE  ArchivesInv'
  <1>1. Without({"cut"})' => Without({"cut"}) /\ download.step # "read"
    BY DEF Without
  <1>2. download'.step \in {"check", "fetch", "read"} =>
          \A g \in 1..(download'.file - 1) : files'[g] # "absent"
    OBVIOUS
  <1>3. QED
    BY <1>1, <1>2 DEF ArchivesInv, isFilesDownloaded

\* The same for MainActivity, which a launcher opens.
LEMMA MainStartsOver ==
    ASSUME TypeInv, ActivityInv, ArchivesInv, OpenMain, app # "main", causes \subseteq causes',
           UNCHANGED files
    PROVE  ArchivesInv'
  <1>1. download.step = "off"
    BY DEF ActivityInv
  <1>2. \/ ~ready' /\ download'.step = "check" /\ download'.file = 1
        \/ ready' /\ download'.step = "off" /\ isFilesDownloaded
    BY OpenMainTypes DEF NoDownload
  <1>3. QED
    BY <1>1, <1>2, StartsOver

\* ArchivesInv holds in every state.
LEMMA ArchivesInvariant == Spec => []ArchivesInv
  <1>1. Init => ArchivesInv
    BY DEF Init, ArchivesInv, NoDownload
  <1>2. TypeInv /\ ActivityInv /\ ArchivesInv /\ [Next]_vars => ArchivesInv'
    <2> SUFFICES ASSUME TypeInv, ActivityInv, ArchivesInv, [Next]_vars
                 PROVE  ArchivesInv'
      OBVIOUS
    <2>1. causes \subseteq causes' /\ (Without({"cut"})' => Without({"cut"}))
      BY CausesGrow DEF Without
    <2>2. ASSUME UNCHANGED <<files, ready, download>>
          PROVE  ArchivesInv'
      BY <2>1, <2>2 DEF ArchivesInv
    <2>3. ASSUME onCreate, app # "main", UNCHANGED files
          PROVE  ArchivesInv'
      BY <2>1, <2>2, <2>3, OnCreateShows, MainStartsOver
    <2>4. ASSUME Launch \/ RotateLauncher
          PROVE  ArchivesInv'
      BY <2>3, <2>4 DEF Launch, RotateLauncher
    <2>5. ASSUME Skip
          PROVE  ArchivesInv'
      BY <2>1, <2>5, MainStartsOver DEF Skip
    <2>6. ASSUME NEW e \in Extractions, Extracted(e)
          PROVE  ArchivesInv'
      <3>1. app # "main"
        BY <2>6, NobodyAssumption DEF Extracted, ActivityInv
      <3>2. QED
        BY <2>1, <2>6, <3>1, MainStartsOver DEF Extracted
    <2>7. ASSUME ProcessEnds, UNCHANGED files, CutOff \subseteq causes'
          PROVE  ArchivesInv'
      <3>1. ~ready' /\ download'.step = "off"
        BY <2>7, ProcessEndsTypes
      <3>2. download.step = "read" => ~Without({"cut"})'
        BY <2>7 DEF CutOff, Without
      <3>3. QED
        BY <2>1, <2>7, <3>1, <3>2, StartsOver
    <2>8. ASSUME NEW e \in Extractions, LeftoverEnds(e)
          PROVE  ArchivesInv'
      BY <2>2, <2>7, <2>8 DEF LeftoverEnds
    <2>9. ASSUME CheckFile
          PROVE  ArchivesInv'
      <3> DEFINE f == download.file
      <3>1. /\ f \in 1..Archives /\ download.step = "check" /\ UNCHANGED <<files, ready>>
            /\ download' = IF files[f] # "absent" THEN NextFile(f) ELSE [step |-> "fetch", file |-> f]
        BY <2>9 DEF CheckFile, TypeInv
      <3>2. ~ready /\ \A g \in 1..(f - 1) : files[g] # "absent"
        BY <3>1 DEF ArchivesInv
      <3>3. Without({"cut"})' => \A g \in 1..Archives : files[g] \in {"absent", "whole"}
        BY <2>1, <3>1 DEF ArchivesInv
      <3>4. CASE files[f] # "absent"
        <4>1. \A g \in 1..f : files[g] # "absent"
          BY <3>1, <3>2, <3>4
        <4>2. /\ download'.step \in {"check", "complete"}
              /\ download'.step = "check" => download'.file = f + 1 /\ (f + 1) - 1 = f
              /\ download'.step = "complete" => f = Archives
          BY <3>1, <3>4, NextFileTypes, SizesAssumption
        <4>3. QED
          BY <3>1, <3>2, <3>3, <4>1, <4>2 DEF ArchivesInv
      <3>5. CASE files[f] = "absent"
        <4>1. download'.step = "fetch" /\ download'.file = f
          BY <3>1, <3>5
        <4>2. QED
          BY <3>1, <3>2, <3>3, <3>5, <4>1 DEF ArchivesInv
      <3>6. QED
        BY <3>4, <3>5
    <2>10. ASSUME OpenFile
           PROVE  ArchivesInv'
      <3> DEFINE f == download.file
      <3>1. /\ f \in 1..Archives /\ download.step = "fetch" /\ UNCHANGED ready
            /\ files' = [files EXCEPT ![f] = "partial"]
            /\ download' = [download EXCEPT !.step = "read"]
        BY <2>10 DEF OpenFile, TypeInv
      <3>2. download'.step = "read" /\ download'.file = f
        BY <3>1 DEF TypeInv, TypeOK
      <3>3. ~ready /\ \A g \in 1..(f - 1) : g \in 1..Archives /\ files[g] # "absent"
        BY <3>1, SizesAssumption DEF ArchivesInv
      <3>4. /\ files'[f] = "partial"
            /\ \A g \in 1..Archives : g # f => files'[g] = files[g]
        BY <3>1 DEF TypeInv, TypeOK
      <3>5. \A g \in 1..(f - 1) : files'[g] # "absent"
        BY <3>3, <3>4
      <3>6. Without({"cut"})' => \A g \in 1..Archives : files[g] \in {"absent", "whole"}
        BY <2>1, <3>1 DEF ArchivesInv
      <3>7. QED
        BY <3>1, <3>2, <3>3, <3>4, <3>5, <3>6 DEF ArchivesInv
    <2>11. ASSUME FileFetched
           PROVE  ArchivesInv'
      <3> DEFINE f == download.file
      <3>1. /\ f \in 1..Archives /\ download.step = "read" /\ UNCHANGED ready
            /\ files' = [files EXCEPT ![f] = IF @ = "torn" THEN "torn" ELSE "whole"]
            /\ download' = NextFile(f)
        BY <2>11 DEF FileFetched, TypeInv
      <3>2. /\ files'[f] \in {"torn", "whole"}
            /\ files[f] = "partial" => files'[f] = "whole"
            /\ \A g \in 1..Archives : g # f => files'[g] = files[g]
        BY <3>1 DEF TypeInv, TypeOK
      <3>3. ~ready /\ \A g \in 1..f : g \in 1..Archives /\ files'[g] # "absent"
        <4>1. ~ready /\ \A g \in 1..(f - 1) : g \in 1..Archives /\ files[g] # "absent"
          BY <3>1, SizesAssumption DEF ArchivesInv
        <4>2. \A g \in 1..f : g = f \/ (g \in 1..(f - 1) /\ g # f)
          BY <3>1, SizesAssumption
        <4>3. QED
          BY <3>1, <3>2, <4>1, <4>2
      <3>4. /\ download'.step \in {"check", "complete"}
            /\ download'.step = "check" => download'.file = f + 1 /\ (f + 1) - 1 = f
            /\ download'.step = "complete" => f = Archives
        BY <3>1, NextFileTypes, SizesAssumption
      <3>5. Without({"cut"})' => \A g \in 1..Archives : files'[g] \in {"absent", "whole"}
        BY <2>1, <3>1, <3>2 DEF ArchivesInv
      <3>6. QED
        BY <3>1, <3>3, <3>4, <3>5 DEF ArchivesInv
    <2>12. ASSUME DownloadFails
           PROVE  ArchivesInv'
      <3>1. ~ready' /\ download'.step = "failed" /\ UNCHANGED files
        BY <2>12 DEF DownloadFails, ArchivesInv, TypeInv, TypeOK
      <3>2. download.step = "read" => ~Without({"cut"})'
        BY <2>12 DEF DownloadFails, Fault, CutOff, Without
      <3>3. QED
        BY <2>1, <3>1, <3>2, StartsOver
    <2>13. ASSUME RotateMain
           PROVE  ArchivesInv'
      <3>1. ~ready' /\ download'.step = "check" /\ download'.file = 1 /\ UNCHANGED files
        BY <2>13 DEF RotateMain
      <3>2. download.step = "read" => ~Without({"cut"})'
        BY <2>13 DEF RotateMain, Fault, CutOff, Without
      <3>3. QED
        BY <2>1, <3>1, <3>2, StartsOver
    <2>14. ASSUME NEW d \in cancelled, CancelledOpens(d)
           PROVE  ArchivesInv'
      <3>1. ~Without({"cut"})' /\ UNCHANGED <<ready, download>>
        BY <2>14 DEF CancelledOpens, Without
      <3>2. d.file \in 1..Archives
        BY DEF TypeInv, TypeOK
      <3>3. \A g \in 1..Archives : files[g] # "absent" => files'[g] # "absent"
        BY <2>14, <3>2 DEF CancelledOpens, TypeInv, TypeOK
      <3>4. download.step \in {"check", "fetch", "read"} =>
              \A g \in 1..(download.file - 1) : g \in 1..Archives
        BY SizesAssumption DEF TypeInv
      <3>5. QED
        BY <3>1, <3>3, <3>4 DEF ArchivesInv
    <2>15. ASSUME NEW d \in cancelled, CancelledWipes(d)
           PROVE  ArchivesInv'
      BY <2>2, <2>15 DEF CancelledWipes
    <2>16. ASSUME Kill
           PROVE  ArchivesInv'
      BY <2>7, <2>16 DEF Kill, Fault
    <2>17. ASSUME NEW e \in Extractions, extractCodeServer(e) \/ ExtractionFails(e)
           PROVE  ArchivesInv'
      BY <2>2, <2>17 DEF extractCodeServer, ExtractionFails, downloadVars
    <2>18. ASSUME NEW s \in Sessions, createSession(s) \/ Script(s) \/ SessionEnds(s)
           PROVE  ArchivesInv'
      BY <2>2, <2>18 DEF createSession, Script, InitHost, TarEnds, SessionEnds, downloadVars
    <2>19. CASE FlushPrefs \/ Retry \/ UNCHANGED vars
      BY <2>2, <2>19 DEF FlushPrefs, Retry, vars, downloadVars
    <2>20. QED
      BY <2>4, <2>5, <2>6, <2>8, <2>9, <2>10, <2>11, <2>12, <2>13, <2>14, <2>15, <2>16, <2>17,
         <2>18, <2>19 DEF Next, Extract, Download, Cancelled
  <1>3. QED
    BY <1>1, <1>2, TypeInvariant, ActivityInvariant, PTL DEF Spec

\* Sessions are offered only when every archive is whole, unless a Downloader
\* was cut off while it read one; archives that were skipped because they were
\* there from an earlier process count as well.
THEOREM ArchivesWholeHolds == Spec => []ArchivesWhole
  <1>1. ArchivesInv => ArchivesWhole
    BY DEF ArchivesInv, ArchivesWhole, SetupComplete
  <1>2. QED
    BY <1>1, ArchivesInvariant, PTL

------------------------------------------------------------------------------
(* The root file system.                                                   *)

\* Nothing has gone wrong that a root file system can suffer from.
Undisturbed == Without({"cut", "wipe", "close", "kill"})

\* Where there is a session the archives are whole, unless a Downloader was
\* cut off.  And as long as nothing has disturbed it: an unfinished root file
\* system has a tar at work on it, and an empty one has no session in it.
RootfsInv ==
  /\ Without({"cut"}) /\ (\E s \in Sessions : session[s] # "none") =>
       \A f \in 1..Archives : files[f] = "whole"
  /\ Undisturbed =>
       /\ \A s \in Sessions : session[s] # "cut"
       /\ rootfs = "partial" => \E s \in Sessions : session[s] = "unpacking"
       /\ rootfs = "empty" => \A s \in Sessions : session[s] \notin {"unpacking", "running"}

\* A session runs in a whole root file system while no tar is at work, unless
\* an archive was cut off, local was wiped, the process ended, or a session
\* was closed while it unpacked: the check of init-host for an empty
\* directory is enough as long as nothing interrupts it.
THEOREM RootfsWholeHolds == Spec => []RootfsWhole
  <1>1. Init => RootfsInv
    BY DEF Init, RootfsInv
  <1>2. TypeInv /\ ArchivesInv /\ RootfsInv /\ [Next]_vars => RootfsInv'
    <2> SUFFICES ASSUME TypeInv, ArchivesInv, RootfsInv, [Next]_vars
                 PROVE  RootfsInv'
      OBVIOUS
    <2>1. /\ Without({"cut"})' => Without({"cut"})
          /\ Undisturbed' => Undisturbed /\ Without({"cut"})'
      BY CausesGrow DEF Without, Undisturbed
    <2>2. ASSUME UNCHANGED <<files, session, rootfs>>
          PROVE  RootfsInv'
      BY <2>1, <2>2 DEF RootfsInv
    <2>3. ASSUME Launch \/ FlushPrefs \/ Retry \/ Skip \/ RotateLauncher \/ CheckFile \/ RotateMain
                 \/ \E e \in Extractions : extractCodeServer(e) \/ Extracted(e) \/ ExtractionFails(e)
          PROVE  RootfsInv'
      BY <2>2, <2>3 DEF Launch, FlushPrefs, Retry, Skip, RotateLauncher, CheckFile, RotateMain,
                        extractCodeServer, Extracted, ExtractionFails, launcherVars, downloadVars,
                        localVars
    <2>4. ASSUME ProcessEnds, "kill" \in causes'
          PROVE  RootfsInv'
      <3>1. ~Undisturbed'
        BY <2>4 DEF Undisturbed, Without
      <3>2. \A s \in Sessions : session'[s] = "none"
        BY <2>4 DEF ProcessEnds
      <3>3. QED
        BY <3>1, <3>2 DEF RootfsInv
    <2>5. ASSUME NEW e \in Extractions, LeftoverEnds(e)
          PROVE  RootfsInv'
      BY <2>2, <2>4, <2>5 DEF LeftoverEnds, localVars
    <2>6. ASSUME OpenFile \/ FileFetched
          PROVE  RootfsInv'
      <3>1. /\ download.step \in {"fetch", "read"} /\ download.file \in 1..Archives
            /\ UNCHANGED <<session, rootfs>>
        BY <2>6 DEF OpenFile, FileFetched, TypeInv, localVars
      <3>2. Without({"cut"}) => files[download.file] # "whole"
        BY <3>1 DEF ArchivesInv
      <3>3. Without({"cut"}) => \A s \in Sessions : session[s] = "none"
        BY <3>1, <3>2 DEF RootfsInv
      <3>4. QED
        BY <2>1, <3>1, <3>3 DEF RootfsInv
    <2>7. ASSUME NEW d \in cancelled, CancelledOpens(d)
          PROVE  RootfsInv'
      <3>1. ~Without({"cut"})'
        BY <2>7 DEF CancelledOpens, Without
      <3>2. QED
        BY <2>1, <3>1 DEF RootfsInv
    <2>8. ASSUME DownloadFails \/ \E d \in cancelled : CancelledWipes(d)
          PROVE  RootfsInv'
      <3>1. Wipe /\ UNCHANGED files /\ "wipe" \in causes'
        BY <2>8 DEF DownloadFails, CancelledWipes, Fault
      <3>2. ~Undisturbed'
        BY <3>1 DEF Undisturbed, Without
      <3>3. \A s \in Sessions : session'[s] # "none" => session[s] # "none"
        BY <3>1 DEF Wipe, TypeInv, TypeOK
      <3>4. QED
        BY <2>1, <3>1, <3>2, <3>3 DEF RootfsInv
    <2>9. ASSUME NEW s \in Sessions, createSession(s)
          PROVE  RootfsInv'
      <3>1. /\ UNCHANGED <<files, rootfs, causes>> /\ session[s] = "none"
            /\ session' = [session EXCEPT ![s] = "starting"] /\ SetupComplete
        BY <2>9 DEF createSession, downloadVars
      <3>2. Without({"cut"}) => \A f \in 1..Archives : files[f] = "whole"
        BY <3>1 DEF SetupComplete, ArchivesInv
      <3>3. Undisturbed' <=> Undisturbed
        BY <3>1 DEF Undisturbed, Without
      <3>4. \A t \in Sessions : session'[t] = IF t = s THEN "starting" ELSE session[t]
        BY <3>1 DEF TypeInv, TypeOK
      <3>5. QED
        BY <2>1, <3>1, <3>2, <3>3, <3>4 DEF RootfsInv
    <2>10. ASSUME NEW s \in Sessions, session[s] # "none", UNCHANGED files
           PROVE  Without({"cut"})' => \A f \in 1..Archives : files'[f] = "whole"
      BY <2>1, <2>10 DEF RootfsInv
    <2>11. ASSUME NEW s \in Sessions, InitHost(s)
           PROVE  RootfsInv'
      <3>1. session[s] = "starting" /\ UNCHANGED files
        BY <2>11 DEF InitHost, downloadVars
      <3>2. \/ /\ session' = [session EXCEPT ![s] = "none"] /\ rootfs' = rootfs
            \/ /\ session' = [session EXCEPT ![s] = "unpacking"] /\ rootfs' = "partial"
            \/ /\ session' = [session EXCEPT ![s] = "running"] /\ rootfs' = rootfs /\ rootfs # "empty"
        BY <2>11 DEF InitHost, Unpacks
      <3>3. Undisturbed' =>
              /\ \A t \in Sessions : session'[t] # "cut"
              /\ rootfs' = "partial" => \E t \in Sessions : session'[t] = "unpacking"
              /\ rootfs' = "empty" => \A t \in Sessions : session'[t] \notin {"unpacking", "running"}
        BY <2>1, <3>1, <3>2 DEF RootfsInv, TypeInv, TypeOK
      <3>4. QED
        BY <2>10, <3>1, <3>3 DEF RootfsInv
    <2>12. ASSUME NEW s \in Sessions, TarEnds(s)
           PROVE  RootfsInv'
      <3>1. /\ session[s] \in {"unpacking", "cut"} /\ UNCHANGED files
            /\ session' = [session EXCEPT ![s] = "running"]
        BY <2>12 DEF TarEnds, downloadVars
      <3>2. Undisturbed' => rootfs' = "whole" /\ \A t \in Sessions : session'[t] # "cut"
        <4>1. SUFFICES ASSUME Undisturbed'
                       PROVE  rootfs' = "whole" /\ \A t \in Sessions : session'[t] # "cut"
          OBVIOUS
        <4>2. session[s] = "unpacking" /\ \A t \in Sessions : session[t] # "cut"
          BY <2>1, <3>1, <4>1 DEF RootfsInv
        <4>3. files[Archives] = "whole"
          BY <2>1, <2>10, <3>1, <4>1, SizesAssumption
        <4>4. QED
          BY <2>12, <3>1, <4>2, <4>3 DEF TarEnds, TypeInv, TypeOK
      <3>3. QED
        BY <2>10, <3>1, <3>2 DEF RootfsInv
    <2>13. ASSUME NEW s \in Sessions, SessionEnds(s)
           PROVE  RootfsInv'
      <3>1. /\ session[s] # "none" /\ UNCHANGED <<files, rootfs>>
            /\ session' = [session EXCEPT ![s] = "none"]
            /\ session[s] = "unpacking" => ~Undisturbed'
        BY <2>13 DEF SessionEnds, downloadVars, localVars, Undisturbed, Without
      <3>2. Undisturbed' =>
              /\ \A t \in Sessions : session'[t] # "cut"
              /\ rootfs' = "partial" => \E t \in Sessions : session'[t] = "unpacking"
              /\ rootfs' = "empty" => \A t \in Sessions : session'[t] \notin {"unpacking", "running"}
        BY <2>1, <3>1 DEF RootfsInv, TypeInv, TypeOK
      <3>3. QED
        BY <2>10, <3>1, <3>2 DEF RootfsInv
    <2>14. ASSUME Kill
           PROVE  RootfsInv'
      BY <2>4, <2>14 DEF Kill, Fault
    <2>15. CASE UNCHANGED vars
      BY <2>2, <2>15 DEF vars
    <2>16. QED
      BY <2>3, <2>5, <2>6, <2>7, <2>8, <2>9, <2>11, <2>12, <2>13, <2>14, <2>15
         DEF Next, Extract, Download, Cancelled, Script
  <1>3. TypeInv /\ RootfsInv => RootfsWhole
    BY DEF TypeInv, TypeOK, RootfsInv, RootfsWhole, Undisturbed
  <1>4. QED
    BY <1>1, <1>2, <1>3, TypeInvariant, ArchivesInvariant, PTL DEF Spec

=============================================================================
