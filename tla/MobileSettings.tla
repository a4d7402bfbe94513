---------------------------- MODULE MobileSettings ----------------------------
(***************************************************************************)
(* The files code-server is configured by, and the scripts that rewrite    *)
(* them: vscode-config.js (Configs), which fills in missing settings, and  *)
(* the script inside server.sh (Servers), which forces two settings and    *)
(* then patches product.json and config.yaml.  Both read a file as a       *)
(* whole, change the copy and write it back with fs.writeFileSync, which   *)
(* truncates the file first.  A process can be killed, and its write can   *)
(* fail, at any step; the user saves settings in the running editor.       *)
(***************************************************************************)
EXTENDS Naturals

CONSTANTS
  Defaults,       \* the settings vscode-config.js knows
  Forced,         \* those among them that server.sh sets
  Extra,          \* other settings of the user
  Configs,        \* processes that run vscode-config.js
  Servers,        \* processes that run server.sh
  Absent, Torn,   \* no file; a file that is cut off and does not parse
  Null,           \* a file that holds the JSON value null
  MaxSaves, MaxKills, MaxStarts

ASSUME SettingsAssumption == Forced \subseteq Defaults /\ Extra \cap Defaults = {}
ASSUME ScriptsAssumption == Configs \cap Servers = {}
ASSUME BoundsAssumption == MaxSaves \in Nat /\ MaxKills \in Nat /\ MaxStarts \in Nat

VARIABLES
  disk,           \* content of each file
  comments,       \* settings.json has comments, which JSON.parse refuses
  at,             \* where each script is: the file it is at and the step
  draft,          \* what each script is about to write
  seen,           \* history: the user's settings each script found at its read
  cut,            \* history: files cut off by a script that ended in its write
  saves, kills, starts

vars == <<disk, comments, at, draft, seen, cut, saves, kills, starts>>

Scripts == Configs \cup Servers
Keys == Defaults \cup Extra
Files == {"settings", "product", "yaml"}

\* A parsed settings.json: the mobile value of a setting or the user's own.
Settings == UNION {[K -> {"mobile", "own"}] : K \in SUBSET Keys}

ASSUME ContentsAssumption ==
  /\ Absent # Torn /\ Absent # Null /\ Torn # Null
  /\ {Absent, Torn, Null} \cap {"gallery", "patched"} = {}
  /\ {Absent, Torn, Null} \cap Settings = {}

Idle == [file |-> "none", step |-> "idle"]
At(f, step) == [file |-> f, step |-> step]

Init ==
  /\ disk \in [settings : {Absent, Null, [k \in Extra |-> "own"]},
               product : {Absent, "gallery", "patched"},
               yaml : {Absent, "gallery"}]
  /\ comments = FALSE
  /\ at = [s \in Scripts |-> Idle]
  /\ draft = [s \in Scripts |-> Absent]
  /\ seen = [s \in Scripts |-> {}]
  /\ cut = {}
  /\ saves = 0 /\ kills = 0 /\ starts = 0

-----------------------------------------------------------------------------
(* What the scripts make of what they read.                                *)

\* What JSON.parse makes of a file's text: comments are legal for the editor.
Content(f) == IF f = "settings" /\ comments THEN Torn ELSE disk[f]

\* The settings that have the user's own value in a parsed settings.json.
Own(settings) == {k \in DOMAIN settings : settings[k] = "own"}

\* The user's settings that a script finds when it reads a file.
Found(f) == IF f = "settings" /\ Content(f) \in Settings THEN Own(Content(f)) ELSE {}

\* An absent file and one that JSON.parse refuses both count as no settings.
Parsed(content) == IF content \in {Absent, Torn} THEN <<>> ELSE content

\* Mutant of WithDefaults: only the settings the server would force.
WithForcedOnly(settings) ==
  [k \in DOMAIN settings \cup Forced |->
     IF k \in DOMAIN settings THEN settings[k] ELSE "mobile"]

\* Mutant of WithDefaults: hasOwnProperty is not asked.
WithDefaultsAnyway(settings) ==
  [k \in DOMAIN settings \cup Defaults |->
     IF k \in Defaults THEN "mobile" ELSE settings[k]]

\* vscode-config.js sets what the settings lack ...
WithDefaults(settings) ==
  [k \in DOMAIN settings \cup Defaults |->
     IF k \in DOMAIN settings THEN settings[k] ELSE "mobile"]

\* ... server.sh sets its two whatever they were.
WithForced(settings) ==
  [k \in DOMAIN settings \cup Forced |->
     IF k \in Forced THEN "mobile" ELSE settings[k]]

\* Mutant of NeedWrite: the flag is forgotten.
NeedWriteAlways(settings) == TRUE

NeedWrite(settings) == ~(Defaults \subseteq DOMAIN settings)

\* What a script writes back after reading a content: nothing, or one draft.
\* null has no properties to test or to set: the script ends in its catch.
SettingsDrafts(s, content) ==
  LET settings == Parsed(content)
  IN  IF settings = Null THEN {}
      ELSE IF s \in Servers THEN {WithForced(settings)}
      ELSE IF NeedWrite(settings) THEN {WithDefaults(settings)} ELSE {}

\* Mutant of ProductDrafts: a torn product.json is written back like config.yaml.
ProductDraftsAnyway(content) ==
  IF content = "gallery" THEN {"patched"} ELSE {content} \ {Absent}

\* product.json is rewritten while it names the gallery; a torn one throws.
ProductDrafts(content) == IF content = "gallery" THEN {"patched"} ELSE {}

\* Mutant of YamlDrafts: existsSync is not asked.
YamlDraftsUnasked(content) ==
  {CASE content = Torn -> Torn [] content = Absent -> "undefined" [] OTHER -> "patched"}

\* config.yaml is filtered as text on every start, torn or not.
YamlDrafts(content) ==
  IF content = Absent THEN {} ELSE {IF content = Torn THEN Torn ELSE "patched"}

Drafts(s, f, content) ==
  CASE f = "settings" -> SettingsDrafts(s, content)
    [] f = "product"  -> ProductDrafts(content)
    [] f = "yaml"     -> YamlDrafts(content)

\* The next file, each in a try block of its own.
After(s, f) ==
  IF s \in Configs THEN Idle
  ELSE CASE f = "settings" -> At("product", "read")
         [] f = "product"  -> At("yaml", "read")
         [] f = "yaml"     -> Idle

-----------------------------------------------------------------------------
(* The scripts.                                                            *)

\* A script that ends between its truncation and its write leaves a file cut off.
CutOffBy(s) == {f \in Files : at[s] = At(f, "write") /\ disk[f] = Torn}

Start(s) ==
  /\ at[s] = Idle
  /\ s \in Servers => starts < MaxStarts
  /\ starts' = IF s \in Servers THEN starts + 1 ELSE starts
  /\ at' = [at EXCEPT ![s] = At("settings", "read")]
  /\ UNCHANGED <<disk, comments, draft, seen, cut, saves, kills>>

Read(s) ==
  LET f == at[s].file
      drafts == Drafts(s, f, Content(f))
  IN  /\ at[s].step = "read"
      /\ \/ drafts = {} /\ at' = [at EXCEPT ![s] = After(s, f)] /\ UNCHANGED <<draft, seen>>
         \/ \E d \in drafts :
              /\ at' = [at EXCEPT ![s] = At(f, "truncate")]
              /\ draft' = [draft EXCEPT ![s] = d]
              /\ seen' = [seen EXCEPT ![s] = Found(f)]
      /\ UNCHANGED <<disk, comments, cut, saves, kills, starts>>

\* writeFileSync opens the file with O_TRUNC ...
Truncate(s) ==
  LET f == at[s].file
  IN  /\ at[s].step = "truncate"
      /\ disk' = [disk EXCEPT ![f] = Torn]
      /\ comments' = (comments /\ f # "settings")
      /\ at' = [at EXCEPT ![s] = At(f, "write")]
      /\ UNCHANGED <<draft, seen, cut, saves, kills, starts>>

\* ... and then writes the new text.
Write(s) ==
  LET f == at[s].file
  IN  /\ at[s].step = "write"
      /\ disk' = [disk EXCEPT ![f] = draft[s]]
      /\ comments' = (comments /\ f # "settings")
      /\ at' = [at EXCEPT ![s] = After(s, f)]
      /\ draft' = [draft EXCEPT ![s] = Absent]
      /\ seen' = [seen EXCEPT ![s] = {}]
      /\ cut' = IF draft[s] = Torn THEN cut ELSE cut \ {f}
      /\ UNCHANGED <<saves, kills, starts>>

\* A write that throws (no space) lands in the catch: on with the next file.
WriteFails(s) ==
  /\ kills < MaxKills
  /\ at[s].step \in {"truncate", "write"}
  /\ at' = [at EXCEPT ![s] = After(s, at[s].file)]
  /\ draft' = [draft EXCEPT ![s] = Absent]
  /\ seen' = [seen EXCEPT ![s] = {}]
  /\ cut' = cut \cup CutOffBy(s)
  /\ kills' = kills + 1
  /\ UNCHANGED <<disk, comments, saves, starts>>

\* The process ends with the app, or with its session.
Kill(s) ==
  /\ kills < MaxKills
  /\ at[s] # Idle
  /\ at' = [at EXCEPT ![s] = Idle]
  /\ draft' = [draft EXCEPT ![s] = Absent]
  /\ seen' = [seen EXCEPT ![s] = {}]
  /\ cut' = cut \cup CutOffBy(s)
  /\ kills' = kills + 1
  /\ UNCHANGED <<disk, comments, saves, starts>>

-----------------------------------------------------------------------------
(* The user, in an editor that changes a settings file it can parse.       *)

UserSaves(k) ==
  LET settings == IF disk.settings = Absent THEN <<>> ELSE disk.settings
  IN  /\ saves < MaxSaves
      /\ settings \in Settings
      /\ disk' = [disk EXCEPT !.settings =
                    [j \in DOMAIN settings \cup {k} |-> IF j = k THEN "own" ELSE settings[j]]]
      /\ saves' = saves + 1
      /\ UNCHANGED <<comments, at, draft, seen, cut, kills, starts>>

UserRemoves(k) ==
  /\ saves < MaxSaves
  /\ disk.settings \in Settings
  /\ k \in DOMAIN disk.settings
  /\ disk' = [disk EXCEPT !.settings = [j \in DOMAIN disk.settings \ {k} |-> disk.settings[j]]]
  /\ saves' = saves + 1
  /\ UNCHANGED <<comments, at, draft, seen, cut, kills, starts>>

UserComments ==
  /\ saves < MaxSaves
  /\ disk.settings \in Settings
  /\ ~comments /\ comments' = TRUE
  /\ saves' = saves + 1
  /\ UNCHANGED <<disk, at, draft, seen, cut, kills, starts>>

Step(s) == Read(s) \/ Truncate(s) \/ Write(s)

Next ==
  \/ \E s \in Scripts : Start(s) \/ Step(s) \/ WriteFails(s) \/ Kill(s)
  \/ \E k \in Keys : UserSaves(k) \/ UserRemoves(k)
  \/ UserComments

\* A process that runs takes its next step; nobody has to start one.
Fairness == \A s \in Scripts : WF_vars(Step(s))

Spec == Init /\ [][Next]_vars /\ Fairness

-----------------------------------------------------------------------------
(* Properties.                                                             *)

TypeOK ==
  /\ disk.settings \in {Absent, Torn, Null} \cup Settings
  /\ comments \in BOOLEAN
  /\ comments => disk.settings \in Settings
  /\ disk.product \in {Absent, Torn, "gallery", "patched"}
  /\ disk.yaml \in {Absent, Torn, "gallery", "patched"}
  /\ at \in [Scripts -> {Idle} \cup [file : Files, step : {"read", "truncate", "write"}]]
  /\ \A s \in Scripts : draft[s] # Absent =>
       draft[s] \in IF at[s].file = "settings" THEN Settings ELSE {Torn, "patched"}
  /\ seen \in [Scripts -> SUBSET Keys]
  /\ cut \subseteq Files
  /\ saves \in 0..MaxSaves /\ kills \in 0..MaxKills /\ starts \in 0..MaxStarts

\* A setting of the user's is safe in settings.json, or in the draft of a script
\* that truncated the file and is about to put the setting back.
Safe(k) ==
  \/ disk.settings \in Settings /\ k \in Own(disk.settings)
  \/ \E s \in Scripts : at[s] = At("settings", "write") /\ k \in Own(draft[s])

\* A setting of the user's is lost in three ways only: the user removes it; a
\* script overwrites it that did not find it at its read (it was saved since, or
\* the file was cut off or had comments) or that forces it; a script is killed
\* or fails after it truncated settings.json and before it wrote it.
KeepsUserSettings ==
  [][\A k \in Keys : Safe(k) /\ ~Safe(k)' =>
       \/ UserRemoves(k)
       \/ \E s \in Scripts :
            /\ Truncate(s) \/ Write(s)
            /\ at[s].file = "settings"
            /\ k \notin seen[s] \/ (s \in Servers /\ k \in Forced)
       \/ \E s \in Scripts :
            (Kill(s) \/ WriteFails(s)) /\ at[s] = At("settings", "write")]_vars

\* settings.json and product.json are cut off only while a script is between its
\* truncation and its write, or since one was killed or failed there: a script
\* never writes back the half-written file it read of another one.
TornOnlyByKill ==
  \A f \in {"settings", "product"} :
    disk[f] = Torn => f \in cut \/ \E s \in Scripts : at[s] = At(f, "write")

\* A run of vscode-config.js leads to a file with all the settings it knows,
\* however the other scripts and the user interfere, unless a process dies or
\* a write fails, or settings.json is null.
ConfigRunConfigures ==
  \A s \in Configs, n \in 0..MaxKills :
    at[s] = At("settings", "read") /\ kills = n
      ~> \/ disk.settings = Null
         \/ disk.settings \in Settings /\ Defaults \subseteq DOMAIN disk.settings
         \/ kills > n

\* vscode-config.js may be run for ever: when the user, the server starts and
\* the failures are over it stops touching settings.json.
Settles == <>[][disk.settings' = disk.settings]_vars

=============================================================================
