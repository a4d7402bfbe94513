-------------------------------- MODULE Setup --------------------------------
(***************************************************************************)
(* First start: LauncherActivity has CodeServerInstaller unpack the        *)
(* embedded code-server and remembers it in the preferences; MainActivity  *)
(* shows the Downloader until the archives are there; a session's          *)
(* init-host script unpacks the root file system.  Every step can be cut   *)
(* off by the end of the process, an input/output error, a network error,  *)
(* or a rotation, which destroys the activity and cancels its coroutines   *)
(* while their blocking part runs on.  Whether a step is done is read off  *)
(* files and flags afterwards.                                             *)
(***************************************************************************)
EXTENDS Naturals

CONSTANTS
  Parts,          \* number of parts the code-server archive is unpacked in
  Archives,       \* number of files the Downloader fetches; the last is Ubuntu
  Extractions,    \* identities of extractCodeServer coroutines
  Sessions,       \* identities of terminal sessions
  Nobody,
  MaxFaults

ASSUME SizesAssumption == Parts \in Nat \ {0} /\ Archives \in Nat \ {0}
ASSUME NobodyAssumption == Nobody \notin Extractions
ASSUME BoundsAssumption == MaxFaults \in Nat

VARIABLES
  app,            \* what the user sees, "off" when there is no process
  prefs, saved,   \* the preferences in memory and on the disk
  code,           \* local/.../code-server: its parts and the file INSTALLED
  extraction,     \* step of each extraction
  awaited,        \* the extraction whose end the activity waits for
  files,          \* the downloaded archives in filesDir
  ready,          \* Rootfs.isDownloaded, computed once in a process
  download,       \* step and file of the Downloader on the screen
  cancelled,      \* Downloaders that were cancelled and are still blocked
  initHost,       \* local/bin/init-host
  rootfs,         \* local/ubuntu
  session,        \* step of each session
  faults,
  causes          \* history: what has gone wrong so far

vars == <<app, prefs, saved, code, extraction, awaited, files, ready, download,
          cancelled, initHost, rootfs, session, faults, causes>>

launcherVars == <<prefs, saved, extraction, awaited>>
downloadVars == <<files, ready, download, cancelled>>
localVars == <<code, initHost, rootfs>>

NoCode == [parts |-> {}, installed |-> FALSE]
NoDownload == [step |-> "off", file |-> 0]
AtStep(step) == [step |-> step, part |-> 0]
AtPart(n) == [step |-> "unpack", part |-> n]
isCodeServerInstalled == code.installed
isFilesDownloaded == \A f \in 1..Archives : files[f] # "absent"
Running == {e \in Extractions : extraction[e].step # "off"}

Init ==
  /\ app = "off"
  /\ prefs = [isFirstLaunch |-> TRUE, codeServerExtracted |-> FALSE]
  /\ saved = prefs
  /\ code = NoCode
  /\ extraction = [e \in Extractions |-> AtStep("off")]
  /\ awaited = Nobody
  /\ files = [f \in 1..Archives |-> "absent"]
  /\ ready = FALSE
  /\ download = NoDownload
  /\ cancelled = {}
  /\ initHost = "absent" /\ rootfs = "empty"
  /\ session = [s \in Sessions |-> "none"]
  /\ faults = 0
  /\ causes = {}

Fault(cause) ==
  /\ faults < MaxFaults
  /\ faults' = faults + 1
  /\ causes' = causes \cup cause

-----------------------------------------------------------------------------
(* LauncherActivity.                                                       *)

\* MainActivity opens; the first look at Rootfs in a process decides for all.
OpenMain ==
  /\ app' = "main"
  /\ awaited' = Nobody
  /\ ready' = isFilesDownloaded
  /\ download' = IF isFilesDownloaded THEN NoDownload ELSE [step |-> "check", file |-> 1]

\* showExtractionDialog; an extraction whose activity is gone still runs.
showExtractionDialog ==
  /\ app' = "extracting"
  /\ \E e \in Extractions \ Running :
       /\ extraction' = [extraction EXCEPT ![e] = AtStep("clear")]
       /\ awaited' = e

Overlap == IF Running = {} THEN {} ELSE {"overlap"}

NeedsExtraction == ~prefs.codeServerExtracted /\ ~isCodeServerInstalled

onCreate ==
  \/ /\ prefs.isFirstLaunch /\ NeedsExtraction
     /\ showExtractionDialog
     /\ UNCHANGED <<prefs, ready, download>>
  \/ /\ prefs.isFirstLaunch /\ ~NeedsExtraction
     /\ prefs' = [prefs EXCEPT !.isFirstLaunch = FALSE]
     /\ OpenMain
     /\ UNCHANGED extraction
  \/ /\ ~prefs.isFirstLaunch
     /\ OpenMain
     /\ UNCHANGED <<prefs, extraction>>

Launch ==
  /\ app = "off"
  /\ onCreate
  /\ UNCHANGED <<saved, localVars, files, cancelled, session, faults, causes>>

\* apply() writes the preferences some time later.
FlushPrefs ==
  /\ app # "off"
  /\ saved # prefs
  /\ saved' = prefs
  /\ UNCHANGED <<app, prefs, extraction, awaited, downloadVars, localVars, session, faults, causes>>

\* The coroutine resumes in its activity: flags, then MainActivity.
Extracted(e) ==
  /\ extraction[e].step = "end" /\ awaited = e
  /\ extraction' = [extraction EXCEPT ![e] = AtStep("off")]
  /\ prefs' = [prefs EXCEPT !.codeServerExtracted = TRUE]
  /\ OpenMain
  /\ UNCHANGED <<saved, localVars, files, cancelled, session, faults, causes>>

\* An error message with two buttons, Retry and Skip.
ExtractionFails(e) ==
  /\ awaited = e
  /\ extraction[e].step # "end"
  /\ Fault({"fail"})
  /\ extraction' = [extraction EXCEPT ![e] = AtStep("off")]
  /\ app' = "failed" /\ awaited' = Nobody
  /\ UNCHANGED <<prefs, saved, downloadVars, localVars, session>>

Retry ==
  /\ app = "failed"
  /\ showExtractionDialog
  /\ causes' = causes \cup Overlap
  /\ UNCHANGED <<prefs, saved, downloadVars, localVars, session, faults>>

Skip ==
  /\ app = "failed"
  /\ prefs' = [prefs EXCEPT !.codeServerExtracted = TRUE]
  /\ causes' = causes \cup {"skip"}
  /\ OpenMain
  /\ UNCHANGED <<saved, extraction, localVars, files, cancelled, session, faults>>

\* A rotation: the activity is destroyed, its coroutine cancelled, and the new
\* one starts from onCreate; the blocking extraction goes on for nobody.
RotateLauncher ==
  /\ app \in {"extracting", "failed"}
  /\ Fault(IF NeedsExtraction THEN Overlap ELSE {})
  /\ onCreate
  /\ UNCHANGED <<saved, localVars, files, cancelled, session>>

-----------------------------------------------------------------------------
(* CodeServerInstaller.extractCodeServer on an IO thread.                  *)

\* Mutant of Unpacked: the marker is forgotten.
UnpackedUnmarked(n) == IF n = Parts THEN AtStep("end") ELSE AtPart(n + 1)

\* Mutant of Unpacked: the marker is written with the last part missing.
UnpackedButOne(n) == IF n + 1 >= Parts THEN AtStep("mark") ELSE AtPart(n + 1)

Unpacked(n) == IF n = Parts THEN AtStep("mark") ELSE AtPart(n + 1)

extractCodeServer(e) ==
  /\ \/ /\ extraction[e].step = "clear"
        /\ code' = NoCode
        /\ extraction' = [extraction EXCEPT ![e] = AtPart(1)]
     \/ \E n \in 1..Parts :
        /\ extraction[e] = AtPart(n)
        /\ code' = [code EXCEPT !.parts = @ \cup {n}]
        /\ extraction' = [extraction EXCEPT ![e] = Unpacked(n)]
     \/ /\ extraction[e].step = "mark"
        /\ code' = [code EXCEPT !.installed = TRUE]
        /\ extraction' = [extraction EXCEPT ![e] = AtStep("end")]
  /\ UNCHANGED <<app, prefs, saved, awaited, downloadVars, initHost, rootfs, session,
                 faults, causes>>

\* A download that stops here leaves a part of its file.
CutOff == IF download.step = "read" THEN {"cut"} ELSE {}

\* All that lives in the process is gone.
ProcessEnds ==
  /\ app' = "off"
  /\ prefs' = saved
  /\ extraction' = [e \in Extractions |-> AtStep("off")]
  /\ awaited' = Nobody
  /\ ready' = FALSE /\ download' = NoDownload /\ cancelled' = {}
  /\ session' = [s \in Sessions |-> "none"]

\* An extraction of a destroyed activity lands in its catch block, which works
\* on a dialog without a window: nothing happens, or the app crashes.
LeftoverEnds(e) ==
  /\ extraction[e].step = "end" /\ awaited # e
  /\ \/ /\ extraction' = [extraction EXCEPT ![e] = AtStep("off")]
        /\ UNCHANGED <<app, prefs, awaited, ready, download, cancelled, session, causes>>
     \/ ProcessEnds /\ causes' = causes \cup {"kill"} \cup CutOff
  /\ UNCHANGED <<saved, localVars, files, faults>>

-----------------------------------------------------------------------------
(* Downloader.                                                             *)

\* The catch block: localDir().deleteRecursively() takes everything below
\* local with it, and leaves a tar that is unpacking there without its files.
Wipe ==
  /\ code' = NoCode
  /\ initHost' = "absent"
  /\ rootfs' = "empty"
  /\ session' = [s \in Sessions |-> IF session[s] = "unpacking" THEN "cut" ELSE session[s]]

\* Mutant of NextFile: the end of the list is not noticed.
NextFileUnchecked(f) == [step |-> "check", file |-> f + 1]

\* Mutant of NextFile: every file is looked at again after each download.
NextFileRestart(f) == [step |-> "check", file |-> 1]

\* Mutant of NextFile: the count is one short.
NextFileShort(f) ==
  IF f + 1 >= Archives THEN [step |-> "complete", file |-> f] ELSE [step |-> "check", file |-> f + 1]

NextFile(f) ==
  IF f = Archives THEN [step |-> "complete", file |-> f] ELSE [step |-> "check", file |-> f + 1]

\* A file that exists is not fetched again.
CheckFile ==
  LET f == download.file
  IN  /\ download.step = "check"
      /\ download' = IF files[f] # "absent" THEN NextFile(f) ELSE [step |-> "fetch", file |-> f]
      /\ UNCHANGED <<app, launcherVars, files, ready, cancelled, localVars, session, faults, causes>>

\* The server answers; outputStream() creates the file or empties it.
OpenFile ==
  LET f == download.file
  IN  /\ download.step = "fetch"
      /\ files' = [files EXCEPT ![f] = "partial"]
      /\ download' = [download EXCEPT !.step = "read"]
      /\ UNCHANGED <<app, launcherVars, ready, cancelled, localVars, session, faults, causes>>

\* The last byte; a hole that another Downloader tore stays.
FileFetched ==
  LET f == download.file
  IN  /\ download.step = "read"
      /\ files' = [files EXCEPT ![f] = IF @ = "torn" THEN "torn" ELSE "whole"]
      /\ download' = NextFile(f)
      /\ UNCHANGED <<app, launcherVars, ready, cancelled, localVars, session, faults, causes>>

DownloadFails ==
  /\ download.step \in {"fetch", "read"}
  /\ Fault({"wipe"} \cup CutOff)
  /\ download' = [download EXCEPT !.step = "failed"]
  /\ Wipe
  /\ UNCHANGED <<app, launcherVars, files, ready, cancelled>>

\* A rotation: a new Downloader looks at the files from the first one on, and
\* the old one is cancelled, which it notices at its next suspension.
RotateMain ==
  /\ app = "main" /\ ~ready
  /\ Fault(CutOff)
  /\ cancelled' =
       IF \/ download.step \in {"fetch", "read"}
          \/ download.step = "check" /\ \E f \in download.file..Archives : files[f] = "absent"
       THEN cancelled \cup {download} ELSE cancelled
  /\ download' = [step |-> "check", file |-> 1]
  /\ UNCHANGED <<app, launcherVars, files, ready, localVars, session>>

\* The answer to a cancelled Downloader: its file is emptied under the new one.
CancelledOpens(d) ==
  /\ d \in cancelled /\ d.step = "fetch"
  /\ files' = [files EXCEPT ![d.file] = IF @ = "absent" THEN "partial" ELSE "torn"]
  /\ cancelled' = (cancelled \ {d}) \cup {[d EXCEPT !.step = "read"]}
  /\ causes' = causes \cup {"cut"}
  /\ UNCHANGED <<app, launcherVars, ready, download, localVars, session, faults>>

\* CancellationException is an Exception: the same catch block.
CancelledWipes(d) ==
  /\ d \in cancelled
  /\ cancelled' = cancelled \ {d}
  /\ Wipe
  /\ causes' = causes \cup {"wipe"}
  /\ UNCHANGED <<app, launcherVars, files, ready, download, faults>>

-----------------------------------------------------------------------------
(* Sessions: MkSession writes the scripts, init-host unpacks the rootfs.   *)

SetupComplete == app = "main" /\ (ready \/ download.step = "complete")

\* A script that exists is not written again.
createSession(s) ==
  /\ SetupComplete
  /\ session[s] = "none"
  /\ initHost' = IF initHost = "absent" THEN "whole" ELSE initHost
  /\ session' = [session EXCEPT ![s] = "starting"]
  /\ UNCHANGED <<app, launcherVars, downloadVars, code, rootfs, faults, causes>>

\* Mutant of Unpacks: root and tmp are not filtered out (root is there as soon
\* as code-server is).
UnpacksUnfiltered == rootfs = "empty" /\ code.parts = {}

Unpacks == rootfs = "empty"

\* init-host unpacks into a directory with nothing but root and tmp in it.  An
\* empty script, or none, does nothing and its shell is gone.
InitHost(s) ==
  /\ session[s] = "starting"
  /\ \/ /\ initHost # "whole"
        /\ session' = [session EXCEPT ![s] = "none"] /\ UNCHANGED rootfs
     \/ /\ initHost = "whole" /\ Unpacks
        /\ session' = [session EXCEPT ![s] = "unpacking"] /\ rootfs' = "partial"
     \/ /\ initHost = "whole" /\ ~Unpacks
        /\ session' = [session EXCEPT ![s] = "running"] /\ UNCHANGED rootfs
  /\ UNCHANGED <<app, launcherVars, downloadVars, code, initHost, faults, causes>>

\* tar ends; its errors are discarded (2>/dev/null || true).
TarEnds(s) ==
  /\ \/ /\ session[s] = "unpacking"
        /\ rootfs' = IF files[Archives] = "whole" THEN "whole" ELSE "partial"
     \/ /\ session[s] = "cut"
        /\ rootfs' \in {rootfs, IF rootfs = "empty" THEN "partial" ELSE rootfs}
  /\ session' = [session EXCEPT ![s] = "running"]
  /\ UNCHANGED <<app, launcherVars, downloadVars, code, initHost, faults, causes>>

\* The user leaves the shell, or closes the session while tar is at work.
SessionEnds(s) ==
  /\ session[s] # "none"
  /\ session' = [session EXCEPT ![s] = "none"]
  /\ causes' = IF session[s] = "unpacking" THEN causes \cup {"close"} ELSE causes
  /\ UNCHANGED <<app, launcherVars, downloadVars, localVars, faults>>

-----------------------------------------------------------------------------

\* The system ends the process, and with it every child; when it was between
\* creating init-host and writing it, the script stays empty.
Kill ==
  /\ app # "off"
  /\ Fault({"kill"} \cup CutOff)
  /\ ProcessEnds
  /\ \/ UNCHANGED initHost
     \/ SetupComplete /\ initHost = "absent" /\ initHost' = "empty"
  /\ UNCHANGED <<saved, code, files, rootfs>>

Extract(e) == extractCodeServer(e) \/ Extracted(e) \/ LeftoverEnds(e)
Download == CheckFile \/ OpenFile \/ FileFetched
Cancelled(d) == CancelledOpens(d) \/ CancelledWipes(d)
Script(s) == InitHost(s) \/ TarEnds(s)

Next ==
  \/ Launch \/ FlushPrefs \/ Retry \/ Skip \/ RotateLauncher
  \/ \E e \in Extractions : Extract(e) \/ ExtractionFails(e)
  \/ Download \/ DownloadFails \/ RotateMain
  \/ \E d \in cancelled : Cancelled(d)
  \/ \E s \in Sessions : createSession(s) \/ Script(s) \/ SessionEnds(s)
  \/ Kill

\* The threads of the app run on; the user need not do anything.
Fairness == (\A e \in Extractions : WF_vars(Extract(e))) /\ WF_vars(Download)

Spec == Init /\ [][Next]_vars /\ Fairness

-----------------------------------------------------------------------------
(* Properties.                                                             *)

TypeOK ==
  /\ app \in {"off", "extracting", "failed", "main"}
  /\ {prefs, saved} \subseteq [isFirstLaunch : BOOLEAN, codeServerExtracted : BOOLEAN]
  /\ code \in [parts : SUBSET (1..Parts), installed : BOOLEAN]
  /\ extraction \in [Extractions -> [step : {"off", "clear", "unpack", "mark", "end"}, part : 0..Parts]]
  /\ awaited \in Extractions \cup {Nobody}
  /\ files \in [1..Archives -> {"absent", "partial", "torn", "whole"}]
  /\ download \in [step : {"off", "check", "fetch", "read", "complete", "failed"}, file : 0..Archives]
  /\ cancelled \subseteq [step : {"check", "fetch", "read"}, file : 1..Archives]
  /\ initHost \in {"absent", "empty", "whole"}
  /\ rootfs \in {"empty", "partial", "whole"}
  /\ session \in [Sessions -> {"none", "starting", "unpacking", "cut", "running"}]
  /\ faults \in 0..MaxFaults
  /\ causes \subseteq {"overlap", "fail", "skip", "cut", "wipe", "close", "kill"}

\* Nothing of the kind has gone wrong yet.
Without(what) == causes \cap what = {}

\* The file INSTALLED stands for a whole code-server, however often the
\* extraction was killed, failed and retried, unless one extraction began
\* while another, left over from before a rotation, was still writing.
InstalledMeansWhole ==
  Without({"overlap"}) /\ code.installed => code.parts = 1..Parts

\* Once the preferences say that code-server was extracted it is there, unless
\* the user chose Skip or a Downloader's catch block removed it.
ExtractedMeansInstalled ==
  Without({"overlap", "skip", "wipe"}) /\ prefs.codeServerExtracted => code.installed

\* Sessions are offered only with whole archives, unless a Downloader was cut
\* off in the middle of a file: kills at any other moment, failures and
\* rotations before the first byte leave nothing that passes for an archive.
ArchivesWhole ==
  Without({"cut"}) /\ SetupComplete => \A f \in 1..Archives : files[f] = "whole"

\* While no tar is at work, a session runs in a whole root file system unless
\* an archive was cut off, a wipe or the end of the process came between, or a
\* session was closed while it unpacked.
RootfsWhole ==
  /\ Without({"cut", "wipe", "close", "kill"})
  /\ \E s \in Sessions : session[s] = "running"
  /\ \A s \in Sessions : session[s] # "unpacking"
  => rootfs = "whole"

\* The first start comes to its end: sessions can be opened, the process has
\* ended, or the user sees an error message, whatever was rotated or cancelled
\* on the way; and with no fault on the way code-server is there as well.
SetupEnds ==
  app # "off" ~> \/ SetupComplete /\ (code.installed \/ causes # {})
                 \/ app \in {"off", "failed"}
                 \/ download.step = "failed"

=============================================================================
