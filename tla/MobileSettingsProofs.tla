------------------------- MODULE MobileSettingsProofs -------------------------
(***************************************************************************)
(* Theorems about MobileSettings, for every set of settings, of runs of    *)
(* the two scripts, and every number of saves, starts and failures.        *)
(***************************************************************************)
EXTENDS MobileSettings, TLAPS

(* What a parsed settings.json is and what the scripts make of it.         *)

\* A settings object is a function from some of the keys to the two values.
LEMMA SettingsAre ==
    ASSUME NEW K \in SUBSET Keys, NEW settings \in [K -> {"mobile", "own"}]
    PROVE  settings \in Settings
  BY DEF Settings

\* The converse of the lemma above, with the domain for its keys.
LEMMA SettingsHave ==
    ASSUME NEW settings \in Settings
    PROVE  /\ DOMAIN settings \subseteq Keys
           /\ settings \in [DOMAIN settings -> {"mobile", "own"}]
  BY DEF Settings

\* No settings at all, as for an absent file.
LEMMA NoSettings == <<>> \in Settings /\ DOMAIN <<>> = {}
  <1>1. <<>> \in [{} -> {"mobile", "own"}] /\ DOMAIN <<>> = {}
    OBVIOUS
  <1>2. {} \in SUBSET Keys
    OBVIOUS
  <1>3. QED
    BY <1>1, <1>2, SettingsAre

\* vscode-config.js adds settings and changes none.
LEMMA WithDefaultsKeeps ==
    ASSUME NEW settings \in Settings
    PROVE  /\ WithDefaults(settings) \in Settings
           /\ \A k \in DOMAIN settings : /\ k \in DOMAIN WithDefaults(settings)
                                         /\ WithDefaults(settings)[k] = settings[k]
  <1>1. DOMAIN settings \cup Defaults \in SUBSET Keys
    BY SettingsHave DEF Keys
  <1>2. WithDefaults(settings) \in [DOMAIN settings \cup Defaults -> {"mobile", "own"}]
    BY SettingsHave DEF WithDefaults
  <1>3. QED
    BY <1>1, <1>2, SettingsAre DEF WithDefaults

\* server.sh changes nothing but the settings it forces.
LEMMA WithForcedKeeps ==
    ASSUME NEW settings \in Settings
    PROVE  /\ WithForced(settings) \in Settings
           /\ \A k \in DOMAIN settings :
                 /\ k \in DOMAIN WithForced(settings)
                 /\ k \notin Forced => WithForced(settings)[k] = settings[k]
  <1>1. DOMAIN settings \cup Forced \in SUBSET Keys
    BY SettingsHave, SettingsAssumption DEF Keys
  <1>2. WithForced(settings) \in [DOMAIN settings \cup Forced -> {"mobile", "own"}]
    BY SettingsHave DEF WithForced
  <1>3. QED
    BY <1>1, <1>2, SettingsAre DEF WithForced

\* The draft of settings.json is a settings object in which every setting of
\* the user that was read is the user's still, unless the script forces it.
LEMMA SettingsDraft ==
    ASSUME NEW s \in Scripts, NEW content \in {Absent, Torn, Null} \cup Settings,
           NEW d \in SettingsDrafts(s, content)
    PROVE  /\ d \in Settings
           /\ content \in Settings =>
                \A k \in DOMAIN content : content[k] = "own" =>
                   k \in DOMAIN d /\ (d[k] = "own" \/ (s \in Servers /\ k \in Forced))
  <1> DEFINE settings == Parsed(content)
  <1>1. settings # Null
    BY DEF SettingsDrafts
  <1>2. settings \in Settings /\ (content \in Settings => settings = content)
    BY <1>1, NoSettings, ContentsAssumption DEF Parsed
  <1> HIDE DEF settings
  <1>3. CASE s \in Servers
    <2>1. d = WithForced(settings)
      BY <1>1, <1>3 DEF SettingsDrafts, settings
    <2>2. QED
      BY <1>2, <1>3, <2>1, WithForcedKeeps
  <1>4. CASE s \notin Servers
    <2>1. d = WithDefaults(settings)
      BY <1>1, <1>4 DEF SettingsDrafts, settings
    <2>2. QED
      BY <1>2, <2>1, WithDefaultsKeeps
  <1>5. QED
    BY <1>3, <1>4

------------------------------------------------------------------------------
(* Types, and what is written where.                                       *)

\* The script has a draft of f.
Drafted(s, f) == at[s] \in {At(f, "truncate"), At(f, "write")}

\* TypeOK, and what a draft is when it is written: settings.json becomes a
\* settings object and product.json the patched one, never a torn text.
TypeInv ==
  /\ TypeOK
  /\ disk \in [Files -> {Absent, Torn, Null, "gallery", "patched"} \cup Settings]
  /\ draft \in [Scripts -> {Absent, Torn, "patched"} \cup Settings]
  /\ \A s \in Scripts :
       /\ draft[s] = Absent \/ \E f \in Files : Drafted(s, f)
       /\ Drafted(s, "settings") => draft[s] \in Settings
       /\ Drafted(s, "product") => draft[s] = "patched"
       /\ Drafted(s, "yaml") => draft[s] \in {Torn, "patched"}

\* A script is idle, or at one file with one step.
LEMMA Places ==
    ASSUME TypeInv, NEW s \in Scripts, at[s] # Idle
    PROVE  /\ at[s].file \in Files
           /\ at[s] = At(at[s].file, at[s].step)
           /\ at[s].step \in {"read", "truncate", "write"}
  BY DEF TypeInv, TypeOK, At, Idle

\* The next place of a script is no place where it holds a draft.
LEMMA AfterIsFresh ==
    ASSUME NEW s \in Scripts, NEW f \in Files
    PROVE  /\ After(s, f) \in {Idle, At("product", "read"), At("yaml", "read")}
           /\ After(s, f) \in {Idle} \cup [file : Files, step : {"read", "truncate", "write"}]
           /\ \A g \in Files : After(s, f) \notin {At(g, "truncate"), At(g, "write")}
  BY DEF After, Idle, At, Files

\* At(f, step) tells files and steps apart.
LEMMA AtIsInjective ==
    ASSUME NEW f, NEW g, NEW st, NEW su
    PROVE  /\ At(f, st).file = f /\ At(f, st).step = st
           /\ At(f, st) = At(g, su) => f = g /\ st = su
  BY DEF At

\* A script that goes on or ends without a draft changes no other script's.
LEMMA DraftDropped ==
    ASSUME TypeInv, NEW s \in Scripts, NEW next,
           next \in {Idle} \cup [file : Files, step : {"read", "truncate", "write"}],
           \A g \in Files : next \notin {At(g, "truncate"), At(g, "write")},
           at' = [at EXCEPT ![s] = next],
           draft' = [draft EXCEPT ![s] = Absent]
    PROVE  /\ at' \in [Scripts -> {Idle} \cup [file : Files, step : {"read", "truncate", "write"}]]
           /\ draft' \in [Scripts -> {Absent, Torn, "patched"} \cup Settings]
           /\ \A t \in Scripts :
                 /\ draft'[t] = Absent \/ \E f \in Files : Drafted(t, f)'
                 /\ Drafted(t, "settings")' => draft'[t] \in Settings
                 /\ Drafted(t, "product")' => draft'[t] = "patched"
                 /\ Drafted(t, "yaml")' => draft'[t] \in {Torn, "patched"}
  <1>1. at' \in [Scripts -> {Idle} \cup [file : Files, step : {"read", "truncate", "write"}]]
    BY DEF TypeInv, TypeOK
  <1>2. draft' \in [Scripts -> {Absent, Torn, "patched"} \cup Settings]
    BY DEF TypeInv
  <1>3. ASSUME NEW t \in Scripts
        PROVE  /\ draft'[t] = Absent \/ \E f \in Files : Drafted(t, f)'
               /\ Drafted(t, "settings")' => draft'[t] \in Settings
               /\ Drafted(t, "product")' => draft'[t] = "patched"
               /\ Drafted(t, "yaml")' => draft'[t] \in {Torn, "patched"}
    <2>1. CASE t = s
      <3>1. draft'[t] = Absent /\ at'[t] = next
        BY <2>1 DEF TypeInv, TypeOK
      <3>2. \A f \in Files : ~Drafted(t, f)'
        BY <3>1 DEF Drafted
      <3>3. QED
        BY <3>1, <3>2 DEF Files
    <2>2. CASE t # s
      <3>1. draft'[t] = draft[t] /\ at'[t] = at[t]
        BY <2>2 DEF TypeInv, TypeOK
      <3>2. QED
        BY <3>1 DEF TypeInv, Drafted
    <2>3. QED
      BY <2>1, <2>2
  <1>4. QED
    BY <1>1, <1>2, <1>3

\* What may be a draft of f.
DraftOf(f) ==
  CASE f = "settings" -> Settings
    [] f = "product"  -> {"patched"}
    [] f = "yaml"     -> {Torn, "patched"}

\* A script that takes up a draft of f, or goes on to write it, changes no
\* other script's.
LEMMA DraftTaken ==
    ASSUME TypeInv, NEW s \in Scripts, NEW f \in Files, NEW step \in {"truncate", "write"},
           NEW d \in DraftOf(f),
           at' = [at EXCEPT ![s] = At(f, step)],
           draft' = [draft EXCEPT ![s] = d]
    PROVE  /\ at' \in [Scripts -> {Idle} \cup [file : Files, step : {"read", "truncate", "write"}]]
           /\ draft' \in [Scripts -> {Absent, Torn, "patched"} \cup Settings]
           /\ \A t \in Scripts :
                 /\ draft'[t] = Absent \/ \E g \in Files : Drafted(t, g)'
                 /\ Drafted(t, "settings")' => draft'[t] \in Settings
                 /\ Drafted(t, "product")' => draft'[t] = "patched"
                 /\ Drafted(t, "yaml")' => draft'[t] \in {Torn, "patched"}
  <1>1. at' \in [Scripts -> {Idle} \cup [file : Files, step : {"read", "truncate", "write"}]]
    <2>1. At(f, step) \in [file : Files, step : {"read", "truncate", "write"}]
      BY DEF At
    <2>2. QED
      BY <2>1 DEF TypeInv, TypeOK
  <1>2. draft' \in [Scripts -> {Absent, Torn, "patched"} \cup Settings]
    BY DEF TypeInv, DraftOf, Files
  <1>3. ASSUME NEW t \in Scripts
        PROVE  /\ draft'[t] = Absent \/ \E g \in Files : Drafted(t, g)'
               /\ Drafted(t, "settings")' => draft'[t] \in Settings
               /\ Drafted(t, "product")' => draft'[t] = "patched"
               /\ Drafted(t, "yaml")' => draft'[t] \in {Torn, "patched"}
    <2>1. CASE t = s
      <3>1. draft'[t] = d /\ at'[t] = At(f, step)
        BY <2>1 DEF TypeInv, TypeOK
      <3>2. \A g \in Files : Drafted(t, g)' <=> g = f
        BY <3>1, AtIsInjective DEF Drafted
      <3>3. QED
        BY <3>1, <3>2 DEF Files, DraftOf
    <2>2. CASE t # s
      <3>1. draft'[t] = draft[t] /\ at'[t] = at[t]
        BY <2>2 DEF TypeInv, TypeOK
      <3>2. QED
        BY <3>1 DEF TypeInv, Drafted
    <2>3. QED
      BY <2>1, <2>2
  <1>4. QED
    BY <1>1, <1>2, <1>3

\* A script that is about to write f holds a draft of f, and one that reads
\* or is idle holds none.
LEMMA Held ==
    ASSUME TypeInv, NEW s \in Scripts
    PROVE  /\ at[s].step \in {"truncate", "write"} =>
                at[s].file \in Files /\ draft[s] \in DraftOf(at[s].file)
           /\ at[s].step \notin {"truncate", "write"} => draft[s] = Absent
  <1>1. ASSUME at[s].step \in {"truncate", "write"}
        PROVE  at[s].file \in Files /\ draft[s] \in DraftOf(at[s].file)
    <2>1. at[s].file \in Files /\ at[s] = At(at[s].file, at[s].step)
      BY <1>1, Places DEF Idle
    <2>2. Drafted(s, at[s].file)
      BY <1>1, <2>1 DEF Drafted
    <2>3. QED
      BY <2>1, <2>2 DEF TypeInv, DraftOf, Files
  <1>2. ASSUME at[s].step \notin {"truncate", "write"}
        PROVE  draft[s] = Absent
    <2>1. \A f \in Files : ~Drafted(s, f)
      BY <1>2, AtIsInjective DEF Drafted
    <2>2. QED
      BY <2>1 DEF TypeInv
  <1>3. QED
    BY <1>1, <1>2

\* Whatever a script reads, its draft is one of that file.
LEMMA ReadDraft ==
    ASSUME TypeInv, NEW s \in Scripts, NEW f \in Files, NEW d \in Drafts(s, f, Content(f))
    PROVE  d \in DraftOf(f)
  <1>1. CASE f = "settings"
    <2>1. Content(f) \in {Absent, Torn, Null} \cup Settings
      BY <1>1 DEF TypeInv, TypeOK, Content
    <2>2. d \in SettingsDrafts(s, Content(f))
      BY <1>1 DEF Drafts
    <2>3. QED
      BY <1>1, <2>1, <2>2, SettingsDraft DEF DraftOf
  <1>2. CASE f = "product"
    BY <1>2 DEF Drafts, ProductDrafts, DraftOf
  <1>3. CASE f = "yaml"
    BY <1>3 DEF Drafts, YamlDrafts, DraftOf
  <1>4. QED
    BY <1>1, <1>2, <1>3 DEF Files

\* What TypeOK says of the drafts follows from where they are written.
LEMMA DraftTypes ==
    ASSUME \A s \in Scripts :
             /\ draft'[s] = Absent \/ \E f \in Files : Drafted(s, f)'
             /\ Drafted(s, "settings")' => draft'[s] \in Settings
             /\ Drafted(s, "product")' => draft'[s] = "patched"
             /\ Drafted(s, "yaml")' => draft'[s] \in {Torn, "patched"}
    PROVE  \A s \in Scripts : draft'[s] # Absent =>
             draft'[s] \in IF at'[s].file = "settings" THEN Settings ELSE {Torn, "patched"}
  <1> SUFFICES ASSUME NEW s \in Scripts, draft'[s] # Absent
               PROVE  draft'[s] \in IF at'[s].file = "settings" THEN Settings ELSE {Torn, "patched"}
    OBVIOUS
  <1>1. PICK f \in Files : Drafted(s, f)'
    OBVIOUS
  <1>2. at'[s].file = f
    BY <1>1, AtIsInjective DEF Drafted
  <1>3. QED
    BY <1>1, <1>2 DEF Files

\* What a script finds at its read are settings.
LEMMA FoundAreKeys ==
    ASSUME NEW f PROVE Found(f) \subseteq Keys
  BY SettingsHave DEF Found, Own

\* What the editor saves is a settings object again.
LEMMA EditorWrites ==
    ASSUME NEW settings \in Settings, NEW k \in Keys
    PROVE  /\ [j \in DOMAIN settings \cup {k} |-> IF j = k THEN "own" ELSE settings[j]] \in Settings
           /\ [j \in DOMAIN settings \ {k} |-> settings[j]] \in Settings
  <1>1. /\ DOMAIN settings \cup {k} \in SUBSET Keys
        /\ [j \in DOMAIN settings \cup {k} |-> IF j = k THEN "own" ELSE settings[j]]
             \in [DOMAIN settings \cup {k} -> {"mobile", "own"}]
    BY SettingsHave
  <1>2. /\ DOMAIN settings \ {k} \in SUBSET Keys
        /\ [j \in DOMAIN settings \ {k} |-> settings[j]]
             \in [DOMAIN settings \ {k} -> {"mobile", "own"}]
    BY SettingsHave
  <1>3. QED
    BY <1>1, <1>2, SettingsAre

\* A save in the editor concerns no file but settings.json and no script's
\* draft.
LEMMA EditorStep ==
    ASSUME TypeInv, NEW settings \in Settings,
           disk' = [disk EXCEPT !["settings"] = settings],
           comments' \in BOOLEAN, saves < MaxSaves, saves' = saves + 1,
           UNCHANGED <<at, draft, seen, cut, kills, starts>>
    PROVE  TypeInv'
  <1>1. /\ disk' \in [Files -> {Absent, Torn, Null, "gallery", "patched"} \cup Settings]
        /\ disk'.settings = settings
        /\ disk'.product = disk.product /\ disk'.yaml = disk.yaml
    BY DEF TypeInv, Files
  <1>2. saves' \in 0..MaxSaves
    BY BoundsAssumption DEF TypeInv, TypeOK
  <1>3. \A s \in Scripts :
          /\ draft'[s] = Absent \/ \E f \in Files : Drafted(s, f)'
          /\ Drafted(s, "settings")' => draft'[s] \in Settings
          /\ Drafted(s, "product")' => draft'[s] = "patched"
          /\ Drafted(s, "yaml")' => draft'[s] \in {Torn, "patched"}
    BY DEF TypeInv, Drafted
  <1>4. QED
    BY <1>1, <1>2, <1>3, DraftTypes DEF TypeInv, TypeOK

\* Every variable keeps its type; a half-written settings.json or product.json
\* is never what a script writes back.
THEOREM TypeInvariant == Spec => []TypeInv
  <1>1. Init => TypeInv
    <2> SUFFICES ASSUME Init
                 PROVE  TypeInv
      OBVIOUS
    <2>1. [k \in Extra |-> "own"] \in Settings
      <3>1. Extra \in SUBSET Keys /\ [k \in Extra |-> "own"] \in [Extra -> {"mobile", "own"}]
        BY DEF Keys
      <3>2. QED
        BY <3>1, SettingsAre
    <2>2. /\ disk.settings \in {Absent, Null} \cup Settings
          /\ disk.product \in {Absent, "gallery", "patched"} /\ disk.yaml \in {Absent, "gallery"}
          /\ disk \in [Files -> {Absent, Torn, Null, "gallery", "patched"} \cup Settings]
      BY <2>1 DEF Init, Files
    <2>3. \A s \in Scripts : draft[s] = Absent /\ \A f \in Files : ~Drafted(s, f)
      BY DEF Init, Drafted, At, Idle
    <2>4. /\ at \in [Scripts -> {Idle} \cup [file : Files, step : {"read", "truncate", "write"}]]
          /\ draft \in [Scripts -> {Absent, Torn, "patched"} \cup Settings]
          /\ comments \in BOOLEAN /\ ~comments /\ seen \in [Scripts -> SUBSET Keys] /\ cut \subseteq Files
          /\ saves = 0 /\ kills = 0 /\ starts = 0
      BY DEF Init
    <2>5. \A s \in Scripts : ~Drafted(s, "settings") /\ ~Drafted(s, "product") /\ ~Drafted(s, "yaml")
      BY <2>3 DEF Files
    <2>6. QED
      BY <2>2, <2>3, <2>4, <2>5, BoundsAssumption DEF TypeInv, TypeOK
  <1>2. TypeInv /\ [Next]_vars => TypeInv'
    <2> SUFFICES ASSUME TypeInv, [Next]_vars
                 PROVE  TypeInv'
      OBVIOUS
    <2>1. ASSUME NEW s \in Scripts, Start(s)
          PROVE  TypeInv'
      <3>1. draft[s] = Absent
        BY <2>1 DEF Start, TypeInv, Drafted, At, Idle
      <3>2. draft' = [draft EXCEPT ![s] = Absent]
        BY <2>1, <3>1 DEF Start, TypeInv
      <3>3. /\ At("settings", "read") \in {Idle} \cup [file : Files, step : {"read", "truncate", "write"}]
            /\ \A g \in Files : At("settings", "read") \notin {At(g, "truncate"), At(g, "write")}
        BY DEF At, Files
      <3>4. starts' \in 0..MaxStarts
        BY <2>1, BoundsAssumption DEF Start, TypeInv, TypeOK
      <3>5. at' = [at EXCEPT ![s] = At("settings", "read")]
        BY <2>1 DEF Start
      <3>6. QED
        BY <2>1, <3>2, <3>3, <3>4, <3>5, DraftDropped, DraftTypes DEF Start, TypeInv, TypeOK
    <2>2. ASSUME NEW s \in Scripts, Read(s)
          PROVE  TypeInv'
      <3> DEFINE f == at[s].file
      <3>1. f \in Files /\ draft[s] = Absent
        BY <2>2, Places, Held DEF Read, Idle
      <3>2. CASE at' = [at EXCEPT ![s] = After(s, f)] /\ UNCHANGED <<draft, seen>>
        <4>1. draft' = [draft EXCEPT ![s] = Absent]
          BY <3>1, <3>2 DEF TypeInv
        <4>2. QED
          BY <2>2, <3>1, <3>2, <4>1, AfterIsFresh, DraftDropped, DraftTypes
             DEF Read, TypeInv, TypeOK
      <3>3. ASSUME NEW d \in Drafts(s, f, Content(f)),
                   at' = [at EXCEPT ![s] = At(f, "truncate")],
                   draft' = [draft EXCEPT ![s] = d],
                   seen' = [seen EXCEPT ![s] = Found(f)]
            PROVE  TypeInv'
        <4>1. d \in DraftOf(f)
          BY <3>1, ReadDraft
        <4>2. seen' \in [Scripts -> SUBSET Keys]
          BY <3>3, FoundAreKeys DEF TypeInv, TypeOK
        <4>3. QED
          BY <2>2, <3>1, <3>3, <4>1, <4>2, DraftTaken, DraftTypes DEF Read, TypeInv, TypeOK
      <3>4. QED
        BY <2>2, <3>2, <3>3 DEF Read
    <2>3. ASSUME NEW s \in Scripts, Truncate(s)
          PROVE  TypeInv'
      <3> DEFINE f == at[s].file
      <3>1. f \in Files /\ draft[s] \in DraftOf(f)
        BY <2>3, Held DEF Truncate
      <3>2. draft' = [draft EXCEPT ![s] = draft[s]] /\ at' = [at EXCEPT ![s] = At(f, "write")]
        BY <2>3 DEF Truncate, TypeInv
      <3>3. /\ disk' \in [Files -> {Absent, Torn, Null, "gallery", "patched"} \cup Settings]
            /\ disk' = [disk EXCEPT ![f] = Torn]
        BY <2>3 DEF Truncate, TypeInv
      <3>4. /\ disk'.settings \in {Absent, Torn, Null} \cup Settings
            /\ disk'.product \in {Absent, Torn, "gallery", "patched"}
            /\ disk'.yaml \in {Absent, Torn, "gallery", "patched"}
            /\ comments' \in BOOLEAN
            /\ comments' => disk'.settings \in Settings
        BY <2>3, <3>1, <3>3 DEF Truncate, TypeInv, TypeOK, Files
      <3>5. UNCHANGED <<draft, seen, cut, saves, kills, starts>>
        BY <2>3 DEF Truncate
      <3>6. QED
        BY <3>1, <3>2, <3>3, <3>4, <3>5, DraftTaken, DraftTypes DEF TypeInv, TypeOK
    <2>4. ASSUME NEW s \in Scripts, Write(s)
          PROVE  TypeInv'
      <3> DEFINE f == at[s].file
      <3>1. f \in Files /\ draft[s] \in DraftOf(f)
        BY <2>4, Held DEF Write
      <3>2. draft' = [draft EXCEPT ![s] = Absent] /\ at' = [at EXCEPT ![s] = After(s, f)]
        BY <2>4 DEF Write
      <3>3. /\ disk' \in [Files -> {Absent, Torn, Null, "gallery", "patched"} \cup Settings]
            /\ disk' = [disk EXCEPT ![f] = draft[s]]
        BY <2>4, <3>1 DEF Write, TypeInv
      <3>4. /\ disk'.settings \in {Absent, Torn, Null} \cup Settings
            /\ disk'.product \in {Absent, Torn, "gallery", "patched"}
            /\ disk'.yaml \in {Absent, Torn, "gallery", "patched"}
            /\ comments' \in BOOLEAN
            /\ comments' => disk'.settings \in Settings
        BY <2>4, <3>1, <3>3 DEF Write, TypeInv, TypeOK, Files, DraftOf
      <3>5. seen' \in [Scripts -> SUBSET Keys] /\ cut' \subseteq Files
        BY <2>4 DEF Write, TypeInv, TypeOK
      <3>6. UNCHANGED <<saves, kills, starts>>
        BY <2>4 DEF Write
      <3>7. QED
        BY <3>1, <3>2, <3>3, <3>4, <3>5, <3>6, AfterIsFresh, DraftDropped, DraftTypes
           DEF TypeInv, TypeOK
    <2>5. ASSUME NEW s \in Scripts, WriteFails(s)
          PROVE  TypeInv'
      <3>1. at[s].file \in Files
        BY <2>5, Held DEF WriteFails
      <3>2. kills' \in 0..MaxKills
        BY <2>5, BoundsAssumption DEF WriteFails, TypeInv, TypeOK
      <3>3. seen' \in [Scripts -> SUBSET Keys] /\ cut' \subseteq Files
        BY <2>5 DEF WriteFails, TypeInv, TypeOK, CutOffBy
      <3>4. QED
        BY <2>5, <3>1, <3>2, <3>3, AfterIsFresh, DraftDropped, DraftTypes
           DEF WriteFails, TypeInv, TypeOK
    <2>6. ASSUME NEW s \in Scripts, Kill(s)
          PROVE  TypeInv'
      <3>1. \A g \in Files : Idle \notin {At(g, "truncate"), At(g, "write")}
        BY DEF Idle, At
      <3>2. kills' \in 0..MaxKills
        BY <2>6, BoundsAssumption DEF Kill, TypeInv, TypeOK
      <3>3. seen' \in [Scripts -> SUBSET Keys] /\ cut' \subseteq Files
        BY <2>6 DEF Kill, TypeInv, TypeOK, CutOffBy
      <3>4. QED
        BY <2>6, <3>1, <3>2, <3>3, DraftDropped, DraftTypes DEF Kill, TypeInv, TypeOK
    <2>7. ASSUME NEW k \in Keys, UserSaves(k)
          PROVE  TypeInv'
      <3> DEFINE settings == IF disk.settings = Absent THEN <<>> ELSE disk.settings
                 saved == [j \in DOMAIN settings \cup {k} |-> IF j = k THEN "own" ELSE settings[j]]
      <3>1. saved \in Settings
        BY <2>7, EditorWrites DEF UserSaves
      <3>2. disk' = [disk EXCEPT !["settings"] = saved]
        BY <2>7 DEF UserSaves
      <3> HIDE DEF saved
      <3>3. /\ saves < MaxSaves /\ saves' = saves + 1
            /\ UNCHANGED <<comments, at, draft, seen, cut, kills, starts>>
        BY <2>7 DEF UserSaves
      <3>4. comments' \in BOOLEAN
        BY <3>3, Zenon DEF TypeInv, TypeOK
      <3>5. QED
        BY <3>1, <3>2, <3>3, <3>4, EditorStep
    <2>8. ASSUME NEW k \in Keys, UserRemoves(k)
          PROVE  TypeInv'
      <3> DEFINE left == [j \in DOMAIN disk.settings \ {k} |-> disk.settings[j]]
      <3>1. left \in Settings
        BY <2>8, EditorWrites DEF UserRemoves
      <3>2. disk' = [disk EXCEPT !["settings"] = left]
        BY <2>8 DEF UserRemoves
      <3> HIDE DEF left
      <3>3. /\ saves < MaxSaves /\ saves' = saves + 1
            /\ UNCHANGED <<comments, at, draft, seen, cut, kills, starts>>
        BY <2>8 DEF UserRemoves
      <3>4. comments' \in BOOLEAN
        BY <3>3, Zenon DEF TypeInv, TypeOK
      <3>5. QED
        BY <3>1, <3>2, <3>3, <3>4, EditorStep
    <2>9. ASSUME UserComments
          PROVE  TypeInv'
      <3>1. disk' = [disk EXCEPT !["settings"] = disk.settings] /\ disk.settings \in Settings
        BY <2>9 DEF UserComments, TypeInv, Files
      <3>2. QED
        BY <2>9, <3>1, EditorStep DEF UserComments, TypeInv, TypeOK
    <2>10. CASE UNCHANGED vars
      BY <2>10 DEF vars, TypeInv, TypeOK, Drafted
    <2>11. QED
      BY <2>1, <2>2, <2>3, <2>4, <2>5, <2>6, <2>7, <2>8, <2>9, <2>10 DEF Next, Step
  <1>3. QED
    BY <1>1, <1>2, PTL DEF Spec

\* The files, the scripts' places and drafts and the histories keep their
\* types; settings.json never gets a text that is neither a settings object
\* nor null nor cut off, and has comments only while it holds settings.
THEOREM TypeCorrect == Spec => []TypeOK
  BY TypeInvariant, PTL DEF TypeInv

------------------------------------------------------------------------------
(* Torn files.                                                             *)

\* settings.json and product.json are cut off only while a script is between
\* the truncation and the text of its write, or after one died or failed
\* there: no script writes back what it read of a half-written file.
THEOREM TornOnlyByKillHolds == Spec => []TornOnlyByKill
  <1>1. Init => TornOnlyByKill
    <2> SUFFICES ASSUME Init
                 PROVE  TornOnlyByKill
      OBVIOUS
    <2>1. [k \in Extra |-> "own"] \in Settings
      <3>1. Extra \in SUBSET Keys /\ [k \in Extra |-> "own"] \in [Extra -> {"mobile", "own"}]
        BY DEF Keys
      <3>2. QED
        BY <3>1, SettingsAre
    <2>2. disk.settings \in {Absent, Null} \cup Settings /\ disk.product \in {Absent, "gallery", "patched"}
      BY <2>1 DEF Init
    <2>3. QED
      BY <2>2, ContentsAssumption DEF TornOnlyByKill
  <1>2. TypeInv /\ TornOnlyByKill /\ [Next]_vars => TornOnlyByKill'
    <2> SUFFICES ASSUME TypeInv, TornOnlyByKill, [Next]_vars,
                        NEW f \in {"settings", "product"}, disk'[f] = Torn
                 PROVE  f \in cut' \/ \E s \in Scripts : at'[s] = At(f, "write")
      BY DEF TornOnlyByKill
    <2>1. ASSUME NEW s \in Scripts, at[s].step # "write",
                 at' = [at EXCEPT ![s] = at'[s]], disk' = disk, cut' = cut
          PROVE  f \in cut' \/ \E t \in Scripts : at'[t] = At(f, "write")
      <3>1. f \in cut \/ \E t \in Scripts : at[t] = At(f, "write")
        BY <2>1 DEF TornOnlyByKill
      <3>2. ASSUME NEW t \in Scripts, at[t] = At(f, "write")
            PROVE  at'[t] = At(f, "write")
        <4>1. t # s
          BY <2>1, <3>2, AtIsInjective
        <4>2. QED
          BY <2>1, <3>2, <4>1 DEF TypeInv, TypeOK
      <3>3. QED
        BY <2>1, <3>1, <3>2
    <2>2. ASSUME NEW s \in Scripts, Start(s)
          PROVE  f \in cut' \/ \E t \in Scripts : at'[t] = At(f, "write")
      <3>1. /\ at[s].step # "write"
            /\ at' = [at EXCEPT ![s] = at'[s]] /\ disk' = disk /\ cut' = cut
        BY <2>2 DEF Start, Idle, TypeInv, TypeOK
      <3>2. QED
        BY <2>1, <3>1
    <2>3. ASSUME NEW s \in Scripts, Read(s)
          PROVE  f \in cut' \/ \E t \in Scripts : at'[t] = At(f, "write")
      <3>1. \/ at' = [at EXCEPT ![s] = After(s, at[s].file)]
            \/ at' = [at EXCEPT ![s] = At(at[s].file, "truncate")]
        BY <2>3 DEF Read
      <3>2. /\ at[s].step # "write"
            /\ at' = [at EXCEPT ![s] = at'[s]] /\ disk' = disk /\ cut' = cut
        BY <2>3, <3>1 DEF Read, TypeInv, TypeOK
      <3>3. QED
        BY <2>1, <3>2
    <2>4. ASSUME NEW s \in Scripts, Truncate(s)
          PROVE  f \in cut' \/ \E t \in Scripts : at'[t] = At(f, "write")
      <3>1. at' = [at EXCEPT ![s] = At(at[s].file, "write")]
            /\ disk' = [disk EXCEPT ![at[s].file] = Torn] /\ cut' = cut
        BY <2>4 DEF Truncate
      <3>2. CASE at[s].file = f
        BY <3>1, <3>2 DEF TypeInv, TypeOK
      <3>3. CASE at[s].file # f
        <4>1. disk[f] = Torn
          BY <3>1, <3>3 DEF TypeInv, Files
        <4>2. at[s].step = "truncate"
          BY <2>4 DEF Truncate
        <4>3. ASSUME NEW t \in Scripts, at[t] = At(f, "write")
              PROVE  at'[t] = At(f, "write")
          <5>1. t # s
            BY <4>2, <4>3, AtIsInjective
          <5>2. QED
            BY <3>1, <4>3, <5>1 DEF TypeInv, TypeOK
        <4>4. QED
          BY <3>1, <4>1, <4>3 DEF TornOnlyByKill
      <3>4. QED
        BY <3>2, <3>3
    <2>5. ASSUME NEW s \in Scripts, Write(s)
          PROVE  f \in cut' \/ \E t \in Scripts : at'[t] = At(f, "write")
      <3>1. /\ at' = [at EXCEPT ![s] = After(s, at[s].file)]
            /\ cut \ {at[s].file} \subseteq cut'
            /\ disk' = [disk EXCEPT ![at[s].file] = draft[s]]
            /\ at[s].file \in Files /\ draft[s] \in DraftOf(at[s].file)
        BY <2>5, Held DEF Write
      <3>2. at[s].file # f /\ disk[f] = Torn
        <4>1. CASE at[s].file = f
          <5>1. Torn \in DraftOf(f)
            BY <3>1, <4>1 DEF TypeInv
          <5>2. QED
            BY <5>1, ContentsAssumption DEF DraftOf
        <4>2. QED
          BY <3>1, <4>1 DEF TypeInv, Files
      <3>3. ASSUME NEW t \in Scripts, at[t] = At(f, "write")
            PROVE  at'[t] = At(f, "write")
        <4>1. t # s
          BY <3>2, <3>3, AtIsInjective
        <4>2. QED
          BY <3>1, <3>3, <4>1 DEF TypeInv, TypeOK
      <3>4. QED
        BY <3>1, <3>2, <3>3 DEF TornOnlyByKill
    <2>6. ASSUME NEW s \in Scripts, WriteFails(s) \/ Kill(s)
          PROVE  f \in cut' \/ \E t \in Scripts : at'[t] = At(f, "write")
      <3>1. PICK next : at' = [at EXCEPT ![s] = next]
        BY <2>6 DEF WriteFails, Kill
      <3>2. disk[f] = Torn /\ cut' = cut \cup CutOffBy(s)
        BY <2>6 DEF WriteFails, Kill
      <3>3. CASE at[s] = At(f, "write")
        BY <3>2, <3>3 DEF CutOffBy, Files
      <3>4. CASE at[s] # At(f, "write")
        <4>1. \A t \in Scripts : at[t] = At(f, "write") => at'[t] = At(f, "write")
          BY <3>1, <3>4 DEF TypeInv, TypeOK
        <4>2. QED
          BY <3>2, <4>1 DEF TornOnlyByKill
      <3>5. QED
        BY <3>3, <3>4
    <2>7. ASSUME NEW k \in Keys, UserSaves(k)
          PROVE  f \in cut' \/ \E t \in Scripts : at'[t] = At(f, "write")
      <3> DEFINE settings == IF disk.settings = Absent THEN <<>> ELSE disk.settings
                 saved == [j \in DOMAIN settings \cup {k} |-> IF j = k THEN "own" ELSE settings[j]]
      <3>1. saved \in Settings
        BY <2>7, EditorWrites DEF UserSaves
      <3>2. disk' = [disk EXCEPT !["settings"] = saved] /\ at' = at /\ cut' = cut
        BY <2>7 DEF UserSaves
      <3> HIDE DEF saved
      <3>3. f # "settings" /\ disk[f] = Torn
        BY <3>1, <3>2, ContentsAssumption DEF TypeInv, Files
      <3>4. QED
        BY <3>2, <3>3 DEF TornOnlyByKill
    <2>8. ASSUME NEW k \in Keys, UserRemoves(k)
          PROVE  f \in cut' \/ \E t \in Scripts : at'[t] = At(f, "write")
      <3> DEFINE left == [j \in DOMAIN disk.settings \ {k} |-> disk.settings[j]]
      <3>1. left \in Settings
        BY <2>8, EditorWrites DEF UserRemoves
      <3>2. disk' = [disk EXCEPT !["settings"] = left] /\ at' = at /\ cut' = cut
        BY <2>8 DEF UserRemoves
      <3> HIDE DEF left
      <3>3. f # "settings" /\ disk[f] = Torn
        BY <3>1, <3>2, ContentsAssumption DEF TypeInv, Files
      <3>4. QED
        BY <3>2, <3>3 DEF TornOnlyByKill
    <2>9. ASSUME UserComments \/ UNCHANGED vars
          PROVE  f \in cut' \/ \E t \in Scripts : at'[t] = At(f, "write")
      BY <2>9 DEF UserComments, vars, TornOnlyByKill
    <2>10. QED
      BY <2>2, <2>3, <2>4, <2>5, <2>6, <2>7, <2>8, <2>9 DEF Next, Step
  <1>3. QED
    BY <1>1, <1>2, TypeInvariant, PTL DEF Spec

------------------------------------------------------------------------------
(* The user's settings.                                                    *)

\* server.sh sets this setting whatever the user chose.
MayForce(s, k) == s \in Servers /\ k \in Forced

\* A draft of settings.json holds the user's settings that its script found,
\* but for those that it forces.
SeenInv ==
  \A s \in Scripts :
    Drafted(s, "settings") => \A k \in seen[s] : k \in Own(draft[s]) \/ MayForce(s, k)

\* A step of one script leaves the drafts of the others as good as they are.
LEMMA OthersSeen ==
    ASSUME TypeInv, SeenInv, NEW s \in Scripts, NEW next, NEW d, NEW found,
           at' = [at EXCEPT ![s] = next], draft' = [draft EXCEPT ![s] = d],
           seen' = [seen EXCEPT ![s] = found],
           Drafted(s, "settings")' => \A k \in found : k \in Own(d) \/ MayForce(s, k)
    PROVE  SeenInv'
  <1> SUFFICES ASSUME NEW t \in Scripts, NEW k \in seen'[t], Drafted(t, "settings")'
               PROVE  k \in Own(draft'[t]) \/ MayForce(t, k)
    BY DEF SeenInv, Own
  <1>1. CASE t = s
    <2>1. draft'[t] = d /\ seen'[t] = found
      BY <1>1 DEF TypeInv, TypeOK
    <2>2. QED
      BY <1>1, <2>1
  <1>2. CASE t # s
    <2>1. draft'[t] = draft[t] /\ seen'[t] = seen[t] /\ Drafted(t, "settings")
      BY <1>2 DEF TypeInv, TypeOK, Drafted
    <2>2. QED
      BY <2>1 DEF SeenInv
  <1>3. QED
    BY <1>1, <1>2

\* SeenInv holds in every state: what a script found at its read is still in
\* its draft when it truncates the file and when it writes it.
THEOREM SeenInvariant == Spec => []SeenInv
  <1>1. Init => SeenInv
    BY DEF Init, SeenInv, Drafted, At, Idle
  <1>2. TypeInv /\ SeenInv /\ [Next]_vars => SeenInv'
    <2> SUFFICES ASSUME TypeInv, SeenInv, [Next]_vars
                 PROVE  SeenInv'
      OBVIOUS
    <2>1. ASSUME NEW s \in Scripts, NEW next, NEW found,
                 ~(\E g \in Files : next \in {At(g, "truncate"), At(g, "write")}),
                 at' = [at EXCEPT ![s] = next], draft' = [draft EXCEPT ![s] = Absent],
                 seen' = [seen EXCEPT ![s] = found]
          PROVE  SeenInv'
      <3>1. ~Drafted(s, "settings")'
        BY <2>1 DEF Drafted, TypeInv, TypeOK, Files
      <3>2. QED
        BY <2>1, <3>1, OthersSeen
    <2>2. ASSUME NEW s \in Scripts, Start(s)
          PROVE  SeenInv'
      <3>1. draft' = [draft EXCEPT ![s] = Absent]
        BY <2>2, Held DEF Start, TypeInv, Idle
      <3>2. ~(\E g \in Files : At("settings", "read") \in {At(g, "truncate"), At(g, "write")})
        BY DEF At
      <3>3. /\ at' = [at EXCEPT ![s] = At("settings", "read")]
            /\ seen' = [seen EXCEPT ![s] = seen[s]]
        BY <2>2 DEF Start, TypeInv, TypeOK
      <3>4. QED
        BY <2>1, <3>1, <3>2, <3>3
    <2>3. ASSUME NEW s \in Scripts, Read(s)
          PROVE  SeenInv'
      <3> DEFINE f == at[s].file
      <3>1. f \in Files /\ draft[s] = Absent
        BY <2>3, Places, Held DEF Read, Idle
      <3>2. CASE at' = [at EXCEPT ![s] = After(s, f)] /\ UNCHANGED <<draft, seen>>
        <4>1. draft' = [draft EXCEPT ![s] = Absent] /\ seen' = [seen EXCEPT ![s] = seen[s]]
          BY <3>1, <3>2 DEF TypeInv, TypeOK
        <4>2. ~(\E g \in Files : After(s, f) \in {At(g, "truncate"), At(g, "write")})
          BY <3>1, AfterIsFresh
        <4>3. QED
          BY <2>1, <3>2, <4>1, <4>2
      <3>3. ASSUME NEW d \in Drafts(s, f, Content(f)),
                   at' = [at EXCEPT ![s] = At(f, "truncate")],
                   draft' = [draft EXCEPT ![s] = d],
                   seen' = [seen EXCEPT ![s] = Found(f)]
            PROVE  SeenInv'
        <4>1. ASSUME NEW k \in Found(f)
              PROVE  k \in Own(d) \/ MayForce(s, k)
          <5>1. f = "settings" /\ Content(f) \in Settings /\ k \in Own(Content(f))
            BY <4>1 DEF Found
          <5>2. d \in SettingsDrafts(s, Content(f))
            BY <3>3, <5>1 DEF Drafts
          <5>3. k \in DOMAIN Content(f) /\ Content(f)[k] = "own"
            BY <5>1 DEF Own
          <5>4. k \in DOMAIN d /\ (d[k] = "own" \/ MayForce(s, k))
            BY <5>1, <5>2, <5>3, SettingsDraft DEF MayForce
          <5>5. QED
            BY <5>4 DEF Own
        <4>2. QED
          BY <3>3, <4>1, OthersSeen
      <3>4. QED
        BY <2>3, <3>2, <3>3 DEF Read
    <2>4. ASSUME NEW s \in Scripts, Truncate(s)
          PROVE  SeenInv'
      <3> DEFINE f == at[s].file
      <3>1. /\ at' = [at EXCEPT ![s] = At(f, "write")]
            /\ draft' = [draft EXCEPT ![s] = draft[s]] /\ seen' = [seen EXCEPT ![s] = seen[s]]
        BY <2>4 DEF Truncate, TypeInv, TypeOK
      <3>2. ASSUME Drafted(s, "settings")'
            PROVE  Drafted(s, "settings")
        <4>1. at'[s] = At(f, "write")
          BY <3>1 DEF TypeInv, TypeOK
        <4>2. f = "settings"
          BY <3>2, <4>1, AtIsInjective DEF Drafted
        <4>3. at[s] = At(f, "truncate")
          BY <2>4, Places DEF Truncate, Idle
        <4>4. QED
          BY <4>2, <4>3 DEF Drafted
      <3>3. Drafted(s, "settings")' => \A k \in seen[s] : k \in Own(draft[s]) \/ MayForce(s, k)
        BY <3>2 DEF SeenInv
      <3>4. QED
        BY <3>1, <3>3, OthersSeen
    <2>5. ASSUME NEW s \in Scripts, Write(s) \/ WriteFails(s)
          PROVE  SeenInv'
      <3>1. ~(\E g \in Files : After(s, at[s].file) \in {At(g, "truncate"), At(g, "write")})
        BY <2>5, Held, AfterIsFresh DEF Write, WriteFails
      <3>2. QED
        BY <2>1, <2>5, <3>1 DEF Write, WriteFails
    <2>6. ASSUME NEW s \in Scripts, Kill(s)
          PROVE  SeenInv'
      <3>1. ~(\E g \in Files : Idle \in {At(g, "truncate"), At(g, "write")})
        BY DEF Idle, At
      <3>2. QED
        BY <2>1, <2>6, <3>1 DEF Kill
    <2>7. CASE UNCHANGED <<at, draft, seen>>
      BY <2>7 DEF SeenInv, Drafted
    <2>8. QED
      BY <2>2, <2>3, <2>4, <2>5, <2>6, <2>7
         DEF Next, Step, UserSaves, UserRemoves, UserComments, vars
  <1>3. QED
    BY <1>1, <1>2, TypeInvariant, PTL DEF Spec

\* A script's step does not take a setting out of another script's draft.
LEMMA StillHeld ==
    ASSUME TypeInv, NEW s \in Scripts, NEW next, NEW d,
           at' = [at EXCEPT ![s] = next], draft' = [draft EXCEPT ![s] = d],
           NEW k, NEW t \in Scripts \ {s},
           at[t] = At("settings", "write"), k \in Own(draft[t])
    PROVE  Safe(k)'
  <1>1. at'[t] = at[t] /\ draft'[t] = draft[t]
    BY DEF TypeInv, TypeOK
  <1>2. QED
    BY <1>1 DEF Safe, Own

\* A step of a script that neither changes settings.json nor leaves a place
\* where it is about to write it loses no setting.
LEMMA NothingLost ==
    ASSUME TypeInv, NEW s \in Scripts, NEW next, NEW d,
           at' = [at EXCEPT ![s] = next], draft' = [draft EXCEPT ![s] = d],
           disk'.settings = disk.settings, at[s] # At("settings", "write"),
           NEW k, Safe(k)
    PROVE  Safe(k)'
  <1>1. CASE disk.settings \in Settings /\ k \in Own(disk.settings)
    BY <1>1 DEF Safe, Own
  <1>2. ASSUME NEW t \in Scripts, at[t] = At("settings", "write"), k \in Own(draft[t])
        PROVE  Safe(k)'
    BY <1>2, StillHeld
  <1>3. QED
    BY <1>1, <1>2 DEF Safe

\* A script that truncates settings.json or writes it loses nothing that it
\* found at its read, unless it forces it.
LEMMA OnlyUnseenLost ==
    ASSUME TypeInv, SeenInv, NEW s \in Scripts, Truncate(s) \/ Write(s),
           at[s].file = "settings", NEW k \in seen[s], ~MayForce(s, k)
    PROVE  Safe(k)'
  <1>1. /\ at[s] \in {At("settings", "truncate"), At("settings", "write")}
        /\ draft[s] \in Settings
    BY Places, Held DEF Truncate, Write, Idle, DraftOf
  <1>2. k \in Own(draft[s])
    BY <1>1 DEF SeenInv, Drafted
  <1>3. CASE Truncate(s)
    <2>1. at'[s] = At("settings", "write") /\ draft' = draft
      BY <1>3 DEF Truncate, TypeInv, TypeOK
    <2>2. QED
      BY <1>2, <2>1 DEF Safe, Own
  <1>4. CASE Write(s)
    <2>1. disk'.settings = draft[s]
      BY <1>4 DEF Write, TypeInv, Files
    <2>2. QED
      BY <1>1, <1>2, <2>1 DEF Safe, Own
  <1>5. QED
    BY <1>3, <1>4

\* A save that leaves a setting in settings.json, if it was there, loses it nowhere.
LEMMA EditorLosesNothing ==
    ASSUME TypeInv, NEW k, Safe(k), UNCHANGED <<at, draft>>,
           disk.settings \in Settings /\ k \in Own(disk.settings) =>
             disk'.settings \in Settings /\ k \in Own(disk'.settings)
    PROVE  Safe(k)'
  BY DEF Safe, Own

\* A setting of the user's that is in settings.json, or held by a script that
\* is about to write it, is lost only when the user removes it, to a script that
\* did not find it at its read or that forces it, or when a script is killed or
\* fails between its truncation of settings.json and its write.
THEOREM KeepsUserSettingsHolds == Spec => KeepsUserSettings
  <1> DEFINE Overwrites(s, k) == /\ Truncate(s) \/ Write(s)
                                 /\ at[s].file = "settings"
                                 /\ k \notin seen[s] \/ (s \in Servers /\ k \in Forced)
             Dies(s) == (Kill(s) \/ WriteFails(s)) /\ at[s] = At("settings", "write")
             Excused(k) == \/ UserRemoves(k)
                           \/ \E s \in Scripts : Overwrites(s, k)
                           \/ \E s \in Scripts : Dies(s)
  <1>1. TypeInv /\ SeenInv /\ [Next]_vars => [\A k \in Keys : Safe(k) /\ ~Safe(k)' => Excused(k)]_vars
    <2> SUFFICES ASSUME TypeInv, SeenInv, Next, NEW k \in Keys, Safe(k), ~Safe(k)'
                 PROVE  Excused(k)
      OBVIOUS
    <2>1. ASSUME NEW s \in Scripts, Start(s) \/ Read(s)
          PROVE  FALSE
      <3>1. at[s] # At("settings", "write")
        BY <2>1 DEF Start, Read, Idle, At
      <3>2. disk' = disk /\ (\E next : at' = [at EXCEPT ![s] = next])
        BY <2>1 DEF Start, Read
      <3>3. \E d : draft' = [draft EXCEPT ![s] = d]
        <4>1. draft = [draft EXCEPT ![s] = draft[s]]
          BY DEF TypeInv
        <4>2. QED
          BY <2>1, <4>1 DEF Start, Read
      <3>4. QED
        BY <3>1, <3>2, <3>3, NothingLost
    <2>2. ASSUME NEW s \in Scripts, Truncate(s) \/ Write(s)
          PROVE  Excused(k)
      <3>1. CASE at[s].file = "settings"
        <4>1. k \notin seen[s] \/ MayForce(s, k)
          BY <2>2, <3>1, OnlyUnseenLost
        <4>2. QED
          BY <2>2, <3>1, <4>1 DEF MayForce
      <3>2. CASE at[s].file # "settings"
        <4>1. at[s] # At("settings", "write")
          BY <3>2, AtIsInjective
        <4>2. disk'.settings = disk.settings
          BY <2>2, <3>2 DEF Truncate, Write, TypeInv, Files
        <4>3. \E next : at' = [at EXCEPT ![s] = next]
          BY <2>2 DEF Truncate, Write
        <4>4. \E d : draft' = [draft EXCEPT ![s] = d]
          <5>1. draft = [draft EXCEPT ![s] = draft[s]]
            BY DEF TypeInv
          <5>2. QED
            BY <2>2, <5>1 DEF Truncate, Write
        <4>5. QED
          BY <4>1, <4>2, <4>3, <4>4, NothingLost
      <3>3. QED
        BY <3>1, <3>2
    <2>3. ASSUME NEW s \in Scripts, WriteFails(s) \/ Kill(s)
          PROVE  Excused(k)
      <3>1. CASE at[s] = At("settings", "write")
        BY <2>3, <3>1
      <3>2. CASE at[s] # At("settings", "write")
        <4>1. /\ disk' = disk /\ draft' = [draft EXCEPT ![s] = Absent]
              /\ \E next : at' = [at EXCEPT ![s] = next]
          BY <2>3 DEF WriteFails, Kill
        <4>2. QED
          BY <3>2, <4>1, NothingLost
      <3>3. QED
        BY <3>1, <3>2
    <2>4. ASSUME NEW j \in Keys, UserSaves(j)
          PROVE  FALSE
      <3> DEFINE settings == IF disk.settings = Absent THEN <<>> ELSE disk.settings
                 saved == [i \in DOMAIN settings \cup {j} |-> IF i = j THEN "own" ELSE settings[i]]
      <3>1. saved \in Settings
        <4>1. settings \in Settings
          BY <2>4 DEF UserSaves
        <4> HIDE DEF settings
        <4>2. QED
          BY <4>1, EditorWrites
      <3>2. disk' = [disk EXCEPT !["settings"] = saved] /\ UNCHANGED <<at, draft>>
        BY <2>4 DEF UserSaves
      <3>3. disk.settings \in Settings /\ k \in Own(disk.settings) => k \in Own(saved)
        <4>1. disk.settings \in Settings => settings = disk.settings
          BY ContentsAssumption
        <4> HIDE DEF settings
        <4>2. k \in Own(settings) => k \in Own(saved)
          BY DEF Own
        <4>3. QED
          BY <4>1, <4>2
      <3> HIDE DEF saved
      <3>4. disk'.settings = saved
        BY <3>2 DEF TypeInv, Files
      <3>5. QED
        BY <3>1, <3>2, <3>3, <3>4, EditorLosesNothing
    <2>5. ASSUME NEW j \in Keys, UserRemoves(j), j # k
          PROVE  FALSE
      <3> DEFINE left == [i \in DOMAIN disk.settings \ {j} |-> disk.settings[i]]
      <3>1. left \in Settings
        BY <2>5, EditorWrites DEF UserRemoves
      <3>2. disk' = [disk EXCEPT !["settings"] = left] /\ UNCHANGED <<at, draft>>
        BY <2>5 DEF UserRemoves
      <3>3. k \in Own(disk.settings) => k \in Own(left)
        BY <2>5 DEF Own
      <3> HIDE DEF left
      <3>4. disk'.settings = left
        BY <3>2 DEF TypeInv, Files
      <3>5. QED
        BY <3>1, <3>2, <3>3, <3>4, EditorLosesNothing
    <2>6. ASSUME UserComments
          PROVE  FALSE
      BY <2>6, EditorLosesNothing DEF UserComments
    <2>7. QED
      BY <2>1, <2>2, <2>3, <2>4, <2>5, <2>6 DEF Next, Step
  <1>2. QED
    BY <1>1, TypeInvariant, SeenInvariant, PTL DEF Spec, KeepsUserSettings

=============================================================================
