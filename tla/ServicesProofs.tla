----------------------------- MODULE ServicesProofs -----------------------------
(* For any setters, importers and settings: the copies of the configuration agree whenever  *)
(* nobody is between them, and at most one full import is admitted.  For any writes, backups, *)
(* clients and bounds: whatever fails and wherever the process dies, a restore loses nothing  *)
(* the server is accountable for, and the loop never goes on with less than that.  For any    *)
(* numbers of retries and attempts: the loops around the model of a configuration do not       *)
(* multiply.  For any buffer and errors: what a robot logged reaches the store, in order.      *)
(* For any texts and batches: embed_batch keeps the order of the texts.                        *)
EXTENDS Server, Restore, Generation, Robots, Embedding, SumProofs, FiniteSetTheorems, WellFoundedInduction, NaturalsInduction, TLAPS

Endpoints == {s.endpoint : s \in Settings}
Setting == [at : {"idle", "built", "save", "model", "shared"}, new : Settings \cup {Unset}]

\* What the variables hold.
ServerTypeOK ==
    /\ serving \in {"boot", "up", "loop", "down"}
    /\ given \in Configs \cup {Unset}
    /\ shared \in Configs \cup {Unset}
    /\ saved \in Endpoints \cup {Unset}
    /\ kept \in Endpoints \cup {Unset}
    /\ setting \in [Setters -> Setting]
    /\ \A c \in Setters : setting[c].at # "idle" => setting[c].new \in Settings
    /\ importing \in [Importers -> {"idle", "body", "running", "abandoned", "orphan"}]
    /\ permit \in BOOLEAN

Between(c) == setting[c].at \in {"save", "model", "shared"}

\* Who is between the copies holds the lock, and nobody is when the store is not served.
LockIsHeld ==
    /\ serving = "up" => \A c \in Setters : Between(c) => writer = c
    /\ serving \in {"boot", "loop"} => \A c \in Setters : setting[c].at = "idle"

\* The database follows the server's copy, unless it has none: the endpoint of the command line stands.
Follows == shared # Unset => saved \in {Unset, shared.endpoint}

\* How far the holder of the lock has come tells which of the copies are the new one.
CopiesSound ==
    serving = "up" =>
        /\ (\A c \in Setters : setting[c].at \notin {"model", "shared"}) => model = shared /\ Follows
        /\ \A c \in Setters : setting[c].at \in {"model", "shared"} => saved = setting[c].new.endpoint
        /\ \A c \in Setters : setting[c].at = "shared" => model = setting[c].new

ConfigInv == ServerTypeOK /\ LockIsHeld /\ CopiesSound

--------------------------------------------------------------------------------
\* Records of the settings have their fields, and Unset is none of them.
LEMMA SettingsAreConfigs ==
    /\ \A s \in Settings : s \in Configs /\ s.endpoint \in Endpoints /\ s # Unset
    /\ Unset \notin Configs /\ Unset \notin Endpoints
    /\ \A s \in Configs, e \in Endpoints : [s EXCEPT !.endpoint = e] \in Configs /\ [s EXCEPT !.endpoint = e].endpoint = e
  BY ServerAssumption DEF Configs, Endpoints

\* The copies that the loop gives the store and the server agree with the database.
LEMMA AppliedFollows ==
    ASSUME ServerTypeOK
    PROVE  /\ Applied \in Configs \cup {Unset}
           /\ Applied # Unset => saved \in {Unset, Applied.endpoint}
<1>1. CASE shared = Unset \/ saved = Unset
  BY <1>1 DEF Applied, ServerTypeOK
<1>2. CASE ~(shared = Unset \/ saved = Unset)
  <2>1. shared \in Configs /\ saved \in Endpoints
    BY <1>2 DEF ServerTypeOK
  <2>2. Applied = [shared EXCEPT !.endpoint = saved]
    BY <1>2 DEF Applied
  <2> QED BY <2>1, <2>2, SettingsAreConfigs
<1> QED BY <1>1, <1>2

\* The initial states satisfy the invariant of the configuration.
LEMMA ConfigInit == ServerInit => ConfigInv
  BY SettingsAreConfigs DEF ServerInit, ConfigInv, ServerTypeOK, LockIsHeld, CopiesSound, Setting, NoSetting

\* Every step keeps it.
LEMMA ConfigStep == ConfigInv /\ [ServerNext]_serverVars => ConfigInv'
<1> SUFFICES ASSUME ConfigInv, [ServerNext]_serverVars PROVE ConfigInv'
  OBVIOUS
<1> USE DEF ConfigInv
<1>1. CASE Serve
  <2>1. ServerTypeOK'
    BY <1>1, AppliedFollows DEF Serve, ServerTypeOK
  <2>2. LockIsHeld'
    BY <1>1 DEF Serve, LockIsHeld, Between
  <2>3. CopiesSound'
    BY <1>1, AppliedFollows DEF Serve, LockIsHeld, CopiesSound, Follows, ServerTypeOK
  <2> QED BY <2>1, <2>2, <2>3
<1>2. CASE KeepBackup
  BY <1>2 DEF KeepBackup, importVars, ServerTypeOK, LockIsHeld, Between, CopiesSound, Follows
<1>3. CASE Reload
  BY <1>3 DEF Reload, Outlive, Stands, ServerTypeOK, LockIsHeld, CopiesSound
<1>4. CASE Die
  BY <1>4 DEF Die, llmVars, importVars, ServerTypeOK, LockIsHeld, CopiesSound
<1>5. CASE StartAgain
  BY <1>5 DEF StartAgain, NoSetting, Setting, ServerTypeOK, LockIsHeld, CopiesSound
<1>6. ASSUME NEW c \in Setters, NEW s \in Settings, SetPrepare(c, s) PROVE ConfigInv'
  <2>1. ServerTypeOK'
    BY <1>6 DEF SetPrepare, Stands, importVars, ServerTypeOK, Setting
  <2>2. LockIsHeld' /\ CopiesSound'
    BY <1>6 DEF SetPrepare, Stands, importVars, ServerTypeOK, Setting, LockIsHeld, Between, CopiesSound, Follows
  <2> QED BY <2>1, <2>2
<1>7. ASSUME NEW c \in Setters, SetDropped(c) PROVE ConfigInv'
  <2>1. ServerTypeOK'
    BY <1>7 DEF SetDropped, NoSetting, Stands, importVars, ServerTypeOK, Setting
  <2>2. LockIsHeld' /\ CopiesSound'
    BY <1>7 DEF SetDropped, NoSetting, Stands, importVars, ServerTypeOK, Setting, LockIsHeld, Between, CopiesSound, Follows
  <2> QED BY <2>1, <2>2
<1>8. ASSUME NEW c \in Setters, SetLock(c) PROVE ConfigInv'
  <2>1. ServerTypeOK'
    BY <1>8 DEF SetLock, Proceeds, Stands, importVars, ServerTypeOK, Setting
  <2>2. LockIsHeld'
    <3>1. \A d \in Setters : ~Between(d)
      BY <1>8, ServerAssumption DEF SetLock, LockIsHeld
    <3> QED BY <1>8, <3>1 DEF SetLock, Proceeds, Stands, ServerTypeOK, Setting, LockIsHeld, Between
  <2>3. CopiesSound'
    BY <1>8 DEF SetLock, Proceeds, Stands, importVars, ServerTypeOK, Setting, CopiesSound, Follows
  <2> QED BY <2>1, <2>2, <2>3
<1>9. ASSUME NEW c \in Setters, SetSave(c) PROVE ConfigInv'
  <2>1. writer = c /\ \A d \in Setters \ {c} : ~Between(d)
    BY <1>9 DEF SetSave, Stands, LockIsHeld, Between
  <2>2. setting[c].new \in Settings /\ serving = "up" /\ setting[c].at = "save"
    BY <1>9 DEF SetSave, Stands, ServerTypeOK
  <2>3. CASE saved' = setting[c].new.endpoint /\ Proceeds(c, "model") /\ UNCHANGED writer
    <3>1. ServerTypeOK'
      BY <1>9, <2>2, <2>3, SettingsAreConfigs DEF SetSave, Proceeds, importVars, ServerTypeOK, Setting
    <3>2. LockIsHeld' /\ CopiesSound'
      BY <1>9, <2>1, <2>2, <2>3
      DEF SetSave, Proceeds, importVars, ServerTypeOK, Setting, LockIsHeld, Between, CopiesSound, Follows
    <3> QED BY <3>1, <3>2
  <2>4. CASE setting' = [setting EXCEPT ![c] = NoSetting] /\ writer' = Nobody /\ UNCHANGED saved
    <3>1. ServerTypeOK'
      BY <1>9, <2>4 DEF SetSave, NoSetting, importVars, ServerTypeOK, Setting
    <3>2. LockIsHeld' /\ CopiesSound'
      BY <1>9, <2>1, <2>2, <2>4
      DEF SetSave, NoSetting, importVars, ServerTypeOK, Setting, LockIsHeld, Between, CopiesSound, Follows
    <3> QED BY <3>1, <3>2
  <2> QED BY <1>9, <2>3, <2>4 DEF SetSave
<1>10. ASSUME NEW c \in Setters, SetModel(c) PROVE ConfigInv'
  <2>1. writer = c /\ \A d \in Setters \ {c} : ~Between(d)
    BY <1>10 DEF SetModel, Stands, LockIsHeld, Between
  <2>2. setting[c].new \in Settings /\ serving = "up" /\ setting[c].at = "model"
    BY <1>10 DEF SetModel, Stands, ServerTypeOK
  <2>3. ServerTypeOK'
    BY <1>10, <2>2 DEF SetModel, Proceeds, importVars, ServerTypeOK, Setting
  <2>4. LockIsHeld' /\ CopiesSound'
    BY <1>10, <2>1, <2>2
    DEF SetModel, Proceeds, importVars, ServerTypeOK, Setting, LockIsHeld, Between, CopiesSound, Follows
  <2> QED BY <2>3, <2>4
<1>11. ASSUME NEW c \in Setters, SetShared(c) PROVE ConfigInv'
  <2>1. writer = c /\ \A d \in Setters \ {c} : ~Between(d)
    BY <1>11 DEF SetShared, Stands, LockIsHeld, Between
  <2>2. setting[c].new \in Settings /\ serving = "up" /\ setting[c].at = "shared"
    BY <1>11 DEF SetShared, Stands, ServerTypeOK
  <2>3. ServerTypeOK'
    BY <1>11, <2>2, SettingsAreConfigs DEF SetShared, NoSetting, importVars, ServerTypeOK, Setting
  <2>4. LockIsHeld' /\ CopiesSound'
    BY <1>11, <2>1, <2>2
    DEF SetShared, NoSetting, importVars, ServerTypeOK, Setting, LockIsHeld, Between, CopiesSound, Follows
  <2> QED BY <2>3, <2>4
<1>12. ASSUME NEW i \in Importers,
              ImportAdmit(i) \/ ImportRefused(i) \/ ImportRun(i) \/ ImportAbandoned(i) \/ ImportEnds(i)
       PROVE  ConfigInv'
  BY <1>12 DEF ImportAdmit, ImportRefused, ImportRun, ImportAbandoned, ImportEnds, ImportBecomes, llmVars,
               ServerTypeOK, LockIsHeld, Between, CopiesSound, Follows
<1>13. CASE UNCHANGED serverVars
  BY <1>13 DEF serverVars, llmVars, importVars, ServerTypeOK, LockIsHeld, Between, CopiesSound, Follows
<1> QED BY <1>1, <1>2, <1>3, <1>4, <1>5, <1>6, <1>7, <1>8, <1>9, <1>10, <1>11, <1>12, <1>13 DEF ServerNext

\* While it is served and nobody is past the lock, the store's provider is the one of the server's
\* configuration, and its endpoint the one the database brings back (set_llm_config, handlers.rs:238).
THEOREM ConfigurationsAgree == ServerSpec => []ConfigAgrees
<1>1. ConfigInv => ConfigAgrees
  BY DEF ConfigInv, CopiesSound, Follows, ConfigAgrees
<1> QED BY <1>1, ConfigInit, ConfigStep, PTL DEF ServerSpec

--------------------------------------------------------------------------------
Admitted == {i \in Importers : importing[i] \in {"body", "running", "abandoned"}}

\* The permit is free if and only if no import is admitted, and never in two hands; between two stores none is.
PermitInv ==
    /\ ServerTypeOK
    /\ serving \in {"boot", "loop"} => Admitted = {}
    /\ serving = "up" => IF permit THEN Admitted = {} ELSE \E i \in Importers : Admitted = {i}

\* Every step keeps it.
LEMMA PermitStep == ConfigInv /\ PermitInv /\ [ServerNext]_serverVars => PermitInv'
<1> SUFFICES ASSUME ConfigInv, PermitInv, [ServerNext]_serverVars PROVE PermitInv'
  OBVIOUS
<1>1. ServerTypeOK'
  BY ConfigStep DEF ConfigInv
<1>2. CASE Serve
  BY <1>1, <1>2 DEF Serve, PermitInv, Admitted
<1>3. CASE Reload
  BY <1>1, <1>3 DEF Reload, Outlive, PermitInv, Admitted, ServerTypeOK
<1>4. CASE Die
  BY <1>1, <1>4 DEF Die, PermitInv
<1>5. CASE StartAgain
  BY <1>1, <1>5 DEF StartAgain, PermitInv, Admitted
<1>6. CASE UNCHANGED <<serving, importing, permit>>
  BY <1>1, <1>6 DEF PermitInv, Admitted
<1>7. ASSUME NEW i \in Importers, ImportAdmit(i) PROVE PermitInv'
  <2>1. Admitted = {} /\ serving' = "up" /\ permit' = FALSE
    BY <1>7 DEF ImportAdmit, PermitInv
  <2>2. Admitted' = {i}
    BY <1>7, <2>1 DEF ImportAdmit, ImportBecomes, PermitInv, Admitted, ServerTypeOK
  <2> QED BY <1>1, <2>1, <2>2 DEF PermitInv
<1>8. ASSUME NEW i \in Importers, ImportRefused(i) PROVE PermitInv'
  <2>1. i \in Admitted /\ serving' = "up" /\ permit' = TRUE /\ serving = "up"
    BY <1>8 DEF ImportRefused, Admitted
  <2>2. Admitted = {i}
    BY <2>1 DEF PermitInv
  <2>3. Admitted' = {}
    BY <1>8, <2>2 DEF ImportRefused, ImportBecomes, PermitInv, Admitted, ServerTypeOK
  <2> QED BY <1>1, <2>1, <2>3 DEF PermitInv
<1>9. ASSUME NEW i \in Importers, ImportRun(i) \/ ImportAbandoned(i) PROVE PermitInv'
  <2>1. Admitted' = Admitted /\ serving' = serving /\ permit' = permit
    BY <1>9 DEF ImportRun, ImportAbandoned, ImportBecomes, PermitInv, Admitted, ServerTypeOK
  <2> QED BY <1>1, <2>1 DEF PermitInv
<1>10. ASSUME NEW i \in Importers, ImportEnds(i) PROVE PermitInv'
  <2>1. CASE importing[i] = "orphan"
    <3>1. Admitted' = Admitted /\ serving' = serving /\ permit' = permit
      BY <1>10, <2>1 DEF ImportEnds, ImportBecomes, PermitInv, Admitted, ServerTypeOK, llmVars
    <3> QED BY <1>1, <3>1 DEF PermitInv
  <2>2. CASE importing[i] # "orphan"
    <3>1. i \in Admitted /\ serving' = serving /\ permit' = TRUE /\ serving # "down"
      BY <1>10, <2>2 DEF ImportEnds, Admitted
    <3>2. Admitted = {i}
      BY <3>1 DEF PermitInv, ServerTypeOK
    <3>3. Admitted' = {}
      BY <1>10, <3>2 DEF ImportEnds, ImportBecomes, PermitInv, Admitted, ServerTypeOK
    <3> QED BY <1>1, <3>1, <3>3 DEF PermitInv
  <2> QED BY <2>1, <2>2
<1>11. \A c \in Setters : \A s \in Settings : SetPrepare(c, s) => UNCHANGED <<serving, importing, permit>>
  BY DEF SetPrepare, importVars
<1>12. \A c \in Setters :
          SetDropped(c) \/ SetLock(c) \/ SetSave(c) \/ SetModel(c) \/ SetShared(c)
            => UNCHANGED <<serving, importing, permit>>
  BY DEF SetDropped, SetLock, SetSave, SetModel, SetShared, importVars
<1>13. KeepBackup \/ UNCHANGED serverVars => UNCHANGED <<serving, importing, permit>>
  BY DEF KeepBackup, serverVars, importVars
<1> QED BY <1>2, <1>3, <1>4, <1>5, <1>6, <1>7, <1>8, <1>9, <1>10, <1>11, <1>12, <1>13 DEF ServerNext

\* At any time of a served store one full import is admitted, or none and the permit is free, whatever became of
\* the clients of the ones before (full_import_admission, main.rs:392).
THEOREM ImportsOneAtATime == ServerSpec => []OneImportAtATime
<1>1. ServerInit => PermitInv
  BY ConfigInit DEF ServerInit, ConfigInv, PermitInv, Admitted
<1>2. PermitInv => OneImportAtATime
  <2> SUFFICES ASSUME PermitInv, serving = "up"
               PROVE  Cardinality(Admitted) = (IF permit THEN 0 ELSE 1)
    BY DEF OneImportAtATime, Admitted
  <2>1. CASE permit
    BY <2>1, FS_EmptySet DEF PermitInv
  <2>2. CASE ~permit
    BY <2>2, FS_Singleton DEF PermitInv
  <2> QED BY <2>1, <2>2
<1> QED BY <1>1, <1>2, ConfigInit, ConfigStep, PermitStep, PTL DEF ServerSpec

--------------------------------------------------------------------------------
(* The restore and the loop of the server *)

\* Where the server is between two attempts, and where it is within one.
AtRest == {"starting", "down", "looping", "serving", "draining", "copy", "verify"}
Labels == AtRest \cup {"check", "aside", "aside_wal", "install", "open", "discard",
                       "back", "back_wal", "reopen"}

\* What the variables hold.
RestoreTypeOK ==
    /\ pc \in Labels
    /\ primary \in Databases /\ rollback \in Databases /\ candidate \in Databases
    /\ left \subseteq Databases
    /\ backups \in [Names -> Snapshots \cup {NoFile}]
    /\ saving \in [Clients -> Names \cup {NoName}]
    /\ pending \in Names \cup {NoName} /\ from \in Names \cup {NoName}
    /\ current \subseteq Writes /\ target \subseteq Writes
    /\ stranded \subseteq SUBSET Writes
    /\ torn \in BOOLEAN
    /\ tally \in [restores : Nat, faults : Nat, crashes : Nat]

\* What is to be restored is there when it is read.
SourceIsThere ==
    /\ pending # NoName => backups[pending] # NoFile
    /\ pc = "draining" => pending # NoName
    /\ pc = "copy" => from # NoName /\ backups[from] # NoFile

\* Nothing of the previous database is aside where the code counts on it.
PathsAreClear ==
    pc \in AtRest \cup {"check", "aside", "reopen"} =>
        rollback = Absent \/ (pc = "verify" /\ primary.file = NoFile)

\* Which database holds exactly the writes the server is accountable for, or which two files hold
\* them together while they are being moved.
Kept ==
    /\ pc \in {"serving", "draining", "copy", "check", "aside", "reopen"} =>
           primary.file # NoFile /\ current = Data(primary)
    /\ pc = "looping" => current = Data(primary)
    /\ pc = "verify" => /\ primary.file # NoFile => current = Data(primary)
                        /\ torn \/ primary.file # NoFile
    /\ pc = "aside_wal" => /\ primary.file = NoFile /\ rollback.file # NoFile /\ rollback.wal = {}
                           /\ current = rollback.file.data \cup primary.wal
    /\ pc \in {"install", "open", "discard", "back"} =>
           rollback.file # NoFile /\ current = Data(rollback)
    /\ pc \in {"install", "back"} => primary = Absent
    /\ pc = "back_wal" => /\ primary.file # NoFile /\ rollback.file = NoFile /\ primary.wal = {}
                          /\ current = primary.file.data \cup rollback.wal
    /\ pc \in {"starting", "down"} =>
           torn \/ current \subseteq Data(primary) \/ \E db \in left : current \subseteq Data(db)

\* What the server was once accountable for and serves no longer is in a database that an
\* ended process left behind.
StrandedIsLeft == torn \/ \A D \in stranded : \E db \in left : D \subseteq Data(db)

RestoreInv == RestoreTypeOK /\ SourceIsThere /\ PathsAreClear /\ Kept /\ StrandedIsLeft

--------------------------------------------------------------------------------
\* Databases have their fields, and hold nothing but writes.
LEMMA DatabasesAreSound ==
    /\ Absent \in Databases /\ Fresh \in Databases /\ Data(Absent) = {} /\ Data(Fresh) = {}
    /\ \A db \in Databases : /\ db.file \in Snapshots \cup {NoFile} /\ db.wal \subseteq Writes
                             /\ Data(db) \subseteq Writes
                             /\ db = [file |-> db.file, wal |-> db.wal]
    /\ \A f \in Snapshots \cup {NoFile}, w \in SUBSET Writes :
           /\ [file |-> f, wal |-> w] \in Databases
           /\ f # NoFile => Data([file |-> f, wal |-> w]) = f.data \cup w
    /\ \A s \in Snapshots : s.data \subseteq Writes /\ s # NoFile
  BY RestoreAssumption DEF Databases, Snapshots, Absent, Fresh, Data

\* A database without its file serves nothing.
LEMMA NoFileNoData == \A db \in Databases : db.file = NoFile => Data(db) = {}
  BY DEF Data

\* The errors and crashes counted stay numbers.
LEMMA TallyStaysSound ==
    ASSUME RestoreTypeOK, FileError \/ NoFileError
    PROVE  tally' \in [restores : Nat, faults : Nat, crashes : Nat]
  BY DEF FileError, NoFileError, RestoreTypeOK

\* A process may end whenever what the server is accountable for is in one of the databases
\* that it leaves, or a file and its log are left apart.
LEMMA EndsKeepsTheData ==
    ASSUME RestoreInv, NEW p \in Databases, NEW r \in Databases, NEW c \in Databases,
           Ends(p, r, c), UNCHANGED <<backups, current, target, stranded>>,
           tally' \in [restores : Nat, faults : Nat, crashes : Nat],
           \/ torn \/ Split(p) \/ Split(r)
           \/ current \subseteq Data(p) \/ current \subseteq Data(r)
           \/ \E db \in left : current \subseteq Data(db)
    PROVE  RestoreInv'
<1> USE DEF RestoreInv
<1>1. /\ pc' = "down" /\ primary' = p /\ rollback' = Absent /\ candidate' = Absent
      /\ left' = left \cup ({r, c} \ {Absent})
      /\ torn' = (torn \/ Split(p) \/ Split(r))
      /\ saving' = [c0 \in Clients |-> NoName] /\ pending' = NoName /\ from' = NoName
  BY DEF Ends, Turn
<1>2. RestoreTypeOK'
  <2>1. torn' \in BOOLEAN /\ pc' \in Labels
    BY <1>1 DEF RestoreTypeOK, Labels, AtRest, Split
  <2>2. left' \subseteq Databases
    BY <1>1 DEF RestoreTypeOK
  <2> QED BY <1>1, <2>1, <2>2, DatabasesAreSound DEF RestoreTypeOK
<1>3. SourceIsThere' /\ PathsAreClear'
  BY <1>1 DEF SourceIsThere, PathsAreClear
<1>4. StrandedIsLeft'
  BY <1>1 DEF StrandedIsLeft
<1>5. torn' \/ current' \subseteq Data(primary') \/ \E db \in left' : current' \subseteq Data(db)
  <2>1. CASE torn \/ Split(p) \/ Split(r) \/ current \subseteq Data(p)
    BY <1>1, <2>1
  <2>2. CASE current \subseteq Data(r)
    <3>1. CASE r = Absent
      BY <1>1, <2>2, <3>1, DatabasesAreSound
    <3>2. CASE r # Absent
      BY <1>1, <2>2, <3>2
    <3> QED BY <3>1, <3>2
  <2>3. CASE \E db \in left : current \subseteq Data(db)
    BY <1>1, <2>3
  <2> QED BY <2>1, <2>2, <2>3
<1>6. Kept'
  BY <1>1, <1>5 DEF Kept, Data
<1> QED BY <1>2, <1>3, <1>4, <1>6

\* Before the first boot there is nothing to keep.
LEMMA RestoreStarts == RestoreInit => RestoreInv
<1> SUFFICES ASSUME RestoreInit PROVE RestoreInv
  OBVIOUS
<1>1. backups \in [Names -> Snapshots \cup {NoFile}]
  BY DEF RestoreInit, Snapshots
<1>2. RestoreTypeOK
  BY <1>1, DatabasesAreSound DEF RestoreInit, RestoreTypeOK, Labels, AtRest
<1>3. SourceIsThere /\ PathsAreClear /\ Kept /\ StrandedIsLeft
  BY DEF RestoreInit, SourceIsThere, PathsAreClear, Kept, StrandedIsLeft
<1> QED BY <1>2, <1>3 DEF RestoreInv

\* Starting again, opening the store and serving keep the invariant.
LEMMA ServingKeepsTheData ==
    ASSUME RestoreInv,
           Start \/ Boot \/ Drain \/ Drained
             \/ (\E d \in Writes : Write(d)) \/ \E n \in Names : RequestRestore(n)
    PROVE  RestoreInv'
<1> USE DEF RestoreInv
<1>1. CASE Start
  <2>1. RestoreTypeOK'
    BY <1>1 DEF Start, Turn, disk, control, history, RestoreTypeOK, Labels, AtRest
  <2>2. Kept'
    BY <1>1 DEF Start, Turn, disk, control, history, Kept, Data
  <2>3. SourceIsThere' /\ PathsAreClear' /\ StrandedIsLeft'
    BY <1>1 DEF Start, Turn, disk, control, history, SourceIsThere, PathsAreClear, StrandedIsLeft, AtRest
  <2> QED BY <2>1, <2>2, <2>3
<1>2. CASE Boot
  <2>0. rollback = Absent
    BY <1>2 DEF Boot, PathsAreClear, AtRest
  <2>1. ASSUME NoFileError,
               primary' = IF primary.file = NoFile THEN Fresh ELSE primary,
               current' = Data(primary'),
               stranded' = IF current \subseteq current' \/ current' = target
                           THEN stranded ELSE stranded \cup {current},
               Turn("serving"), UNCHANGED <<rollback, candidate, left, backups, control, target, torn>>
        PROVE  RestoreInv'
    <3>1. primary' \in Databases /\ primary'.file # NoFile /\ Data(primary') = Data(primary)
      BY <2>1, DatabasesAreSound, NoFileNoData DEF RestoreTypeOK, Fresh, Databases, Snapshots
    <3>2. current' = Data(primary') /\ current' \subseteq Writes
      BY <2>1, <3>1, DatabasesAreSound DEF RestoreTypeOK
    <3>3. RestoreTypeOK'
      <4>1. stranded' \subseteq SUBSET Writes
        BY <2>1 DEF RestoreTypeOK
      <4>2. tally' \in [restores : Nat, faults : Nat, crashes : Nat]
        BY <2>1, TallyStaysSound
      <4> QED BY <2>1, <3>1, <3>2, <4>1, <4>2 DEF RestoreTypeOK, Turn, control, Labels, AtRest
    <3>4. StrandedIsLeft'
      <4>1. torn \/ current \subseteq Data(primary') \/ \E db \in left : current \subseteq Data(db)
        BY <1>2, <3>1 DEF Boot, Kept
      <4> QED BY <2>1, <4>1 DEF StrandedIsLeft
    <3>5. Kept'
      BY <2>1, <3>1, <3>2 DEF Kept, Turn, Data
    <3>6. SourceIsThere' /\ PathsAreClear'
      BY <2>0, <2>1 DEF SourceIsThere, PathsAreClear, Turn, control
    <3> QED BY <3>3, <3>4, <3>5, <3>6
  <2>2. ASSUME FileError, Ends(primary, rollback, candidate), UNCHANGED <<backups, current, target, stranded>>
        PROVE  RestoreInv'
    <3>1. torn \/ current \subseteq Data(primary) \/ \E db \in left : current \subseteq Data(db)
      BY <1>2 DEF Boot, Kept
    <3> QED BY <2>2, <3>1, EndsKeepsTheData, TallyStaysSound DEF RestoreTypeOK
  <2> QED BY <1>2, <2>1, <2>2 DEF Boot
<1>3. CASE Drain
  <2>1. RestoreTypeOK'
    BY <1>3 DEF Drain, Turn, disk, control, history, RestoreTypeOK, Labels, AtRest
  <2>2. Kept'
    BY <1>3 DEF Drain, Turn, disk, control, history, Kept, Data
  <2>3. SourceIsThere' /\ PathsAreClear' /\ StrandedIsLeft'
    BY <1>3 DEF Drain, Turn, disk, control, history, SourceIsThere, PathsAreClear, StrandedIsLeft, AtRest
  <2> QED BY <2>1, <2>2, <2>3
<1>4. CASE Drained
  <2>1. primary.file # NoFile /\ primary.file \in Snapshots /\ primary.wal \subseteq Writes
    BY <1>4, DatabasesAreSound DEF Drained, Kept, RestoreTypeOK
  <2>2. /\ primary' \in Databases /\ primary'.file # NoFile
        /\ Data(primary') = Data(primary)
    <3>1. CASE UNCHANGED primary
      BY <2>1, <3>1 DEF RestoreTypeOK, Data
    <3>2. CASE primary' = [file |-> [primary.file EXCEPT !.data = Data(primary)], wal |-> {}]
      <4>1. PICK s : s = [primary.file EXCEPT !.data = Data(primary)]
        OBVIOUS
      <4>2. s \in Snapshots /\ s.data = Data(primary)
        BY <2>1, <4>1, DatabasesAreSound DEF RestoreTypeOK, Snapshots
      <4>3. primary' = [file |-> s, wal |-> {}] /\ {} \in SUBSET Writes /\ s # NoFile
        BY <3>2, <4>1, <4>2, DatabasesAreSound
      <4>4. primary' \in Databases /\ primary'.file = s /\ Data(primary') = s.data \cup {}
        BY <4>2, <4>3, DatabasesAreSound
      <4> QED BY <4>2, <4>3, <4>4
    <3> QED BY <1>4, <3>1, <3>2 DEF Drained
  <2>3. RestoreTypeOK'
    BY <1>4, <2>2 DEF Drained, Turn, history, RestoreTypeOK, Labels, AtRest
  <2>4. Kept'
    BY <1>4, <2>2 DEF Drained, Turn, history, Kept, Data
  <2>5. SourceIsThere' /\ PathsAreClear' /\ StrandedIsLeft'
    BY <1>4 DEF Drained, Turn, history, SourceIsThere, PathsAreClear, StrandedIsLeft, AtRest
  <2> QED BY <2>3, <2>4, <2>5
<1>5. ASSUME NEW d \in Writes, Write(d) PROVE RestoreInv'
  <2>1. primary' \in Databases /\ primary'.file = primary.file /\ primary'.wal = primary.wal \cup {d}
    BY <1>5 DEF Write, RestoreTypeOK, Databases
  <2>2. Data(primary') = Data(primary) \cup {d} /\ primary.file # NoFile
    BY <1>5, <2>1 DEF Write, Data, Kept
  <2>3. RestoreTypeOK'
    BY <1>5, <2>1 DEF Write, control, RestoreTypeOK
  <2>4. Kept'
    BY <1>5, <2>1, <2>2 DEF Write, control, Kept
  <2>5. SourceIsThere' /\ PathsAreClear' /\ StrandedIsLeft'
    BY <1>5 DEF Write, control, SourceIsThere, PathsAreClear, StrandedIsLeft
  <2> QED BY <2>3, <2>4, <2>5
<1>6. ASSUME NEW n \in Names, RequestRestore(n) PROVE RestoreInv'
  <2>1. RestoreTypeOK'
    BY <1>6 DEF RequestRestore, disk, history, RestoreTypeOK
  <2>2. Kept'
    BY <1>6 DEF RequestRestore, disk, history, Kept, Data
  <2>3. SourceIsThere' /\ PathsAreClear' /\ StrandedIsLeft'
    BY <1>6, RestoreAssumption DEF RequestRestore, disk, history, SourceIsThere, PathsAreClear, StrandedIsLeft
  <2> QED BY <2>1, <2>2, <2>3
<1> QED BY <1>1, <1>2, <1>3, <1>4, <1>5, <1>6

\* A backup touches no database, and takes no backup away.
LEMMA BackupsKeepTheData ==
    ASSUME RestoreInv, NEW c \in Clients, BackupPublish(c) \/ \E n \in Names : BackupStart(c, n)
    PROVE  RestoreInv'
<1> USE DEF RestoreInv
<1>1. /\ UNCHANGED <<pc, primary, rollback, candidate, left, pending, from, history>>
      /\ tally' \in [restores : Nat, faults : Nat, crashes : Nat]
    BY TallyStaysSound DEF BackupPublish, BackupStart, disk, history, RestoreTypeOK
<1>2. /\ saving' \in [Clients -> Names \cup {NoName}]
      /\ backups' \in [Names -> Snapshots \cup {NoFile}]
      /\ \A n \in Names : backups[n] # NoFile => backups'[n] # NoFile
  <2>1. CASE BackupPublish(c)
    <3>1. saving[c] \in Names /\ saving' = [saving EXCEPT ![c] = NoName]
      BY <2>1 DEF BackupPublish, RestoreTypeOK
    <3>2. PICK s : s = [data |-> Data(primary), fits |-> TRUE]
      OBVIOUS
    <3>3. s \in Snapshots /\ s # NoFile
      BY <3>2, DatabasesAreSound DEF RestoreTypeOK, Snapshots
    <3>4. UNCHANGED backups \/ backups' = [backups EXCEPT ![saving[c]] = s]
      BY <2>1, <3>2 DEF BackupPublish
    <3> QED BY <3>1, <3>3, <3>4 DEF RestoreTypeOK
  <2>2. ASSUME NEW n \in Names, BackupStart(c, n)
        PROVE  UNCHANGED backups /\ saving' = [saving EXCEPT ![c] = n]
    BY <2>2 DEF BackupStart, disk
  <2> QED BY <2>1, <2>2 DEF RestoreTypeOK
<1>3. RestoreTypeOK'
  BY <1>1, <1>2 DEF RestoreTypeOK, history
<1>4. SourceIsThere'
  BY <1>1, <1>2 DEF SourceIsThere, RestoreTypeOK
<1>5. PathsAreClear' /\ StrandedIsLeft'
  BY <1>1 DEF PathsAreClear, StrandedIsLeft, history
<1>6. Kept'
  BY <1>1 DEF Kept, Data, history
<1> QED BY <1>3, <1>4, <1>5, <1>6

\* Copying the backup, checking the copy, and what is decided when the restore has ended.
LEMMA AttemptKeepsTheData ==
    ASSUME RestoreInv, Copy \/ Check \/ Discard \/ Verify
    PROVE  RestoreInv'
<1> USE DEF RestoreInv
<1>1. CASE Copy
  <2>1. from \in Names /\ backups[from] \in Snapshots /\ backups[from].data \subseteq Writes
    BY <1>1, DatabasesAreSound DEF Copy, SourceIsThere, RestoreTypeOK
  <2>2. candidate' \in Databases /\ pc' \in {"check", "verify"}
        /\ left' = left \cup ({candidate} \ {Absent}) /\ (FileError \/ NoFileError)
    BY <1>1, <2>1, DatabasesAreSound DEF Copy, Turn, RestoreTypeOK
  <2>3. RestoreTypeOK'
    BY <1>1, <2>1, <2>2, TallyStaysSound DEF Copy, control, RestoreTypeOK, Labels, AtRest
  <2>4. Kept'
    BY <1>1, <2>2 DEF Copy, control, Kept, Data
  <2>5. SourceIsThere' /\ PathsAreClear' /\ StrandedIsLeft'
    BY <1>1, <2>2 DEF Copy, control, SourceIsThere, PathsAreClear, StrandedIsLeft, AtRest
  <2> QED BY <2>3, <2>4, <2>5
<1>2. CASE Check
  <2>1. candidate' \in Databases /\ pc' \in {"aside", "verify"}
        /\ (FileError \/ NoFileError)
    BY <1>2, DatabasesAreSound DEF Check, Turn, RestoreTypeOK
  <2>2. RestoreTypeOK'
    BY <1>2, <2>1, TallyStaysSound DEF Check, control, history, RestoreTypeOK, Labels, AtRest
  <2>3. Kept'
    BY <1>2, <2>1 DEF Check, control, history, Kept, Data
  <2>4. SourceIsThere' /\ PathsAreClear' /\ StrandedIsLeft'
    BY <1>2, <2>1 DEF Check, control, history, SourceIsThere, PathsAreClear, StrandedIsLeft, AtRest
  <2> QED BY <2>2, <2>3, <2>4
<1>3. CASE Discard
  <2>1. RestoreTypeOK'
    BY <1>3, DatabasesAreSound DEF Discard, Turn, RestoreTypeOK, Labels, AtRest
  <2>2. Kept'
    BY <1>3 DEF Discard, Turn, Kept, Data
  <2>3. SourceIsThere' /\ PathsAreClear' /\ StrandedIsLeft'
    BY <1>3 DEF Discard, Turn, SourceIsThere, PathsAreClear, StrandedIsLeft, AtRest
  <2> QED BY <2>1, <2>2, <2>3
<1>4. CASE Verify
  <2>1. /\ pc = "verify" /\ (FileError \/ NoFileError) /\ UNCHANGED <<current, target, stranded>>
        /\ torn \/ current \subseteq Data(primary)
    BY <1>4 DEF Verify, Kept
  <2>2. ASSUME primary.file # NoFile, from' = NoName, Turn("looping"), UNCHANGED <<disk, saving, pending, torn>>
        PROVE  RestoreInv'
    <3>1. RestoreTypeOK'
      BY <2>1, <2>2, TallyStaysSound DEF Turn, disk, RestoreTypeOK, Labels, AtRest
    <3>2. Kept'
      BY <2>1, <2>2 DEF Turn, disk, Kept, Data
    <3>3. SourceIsThere' /\ PathsAreClear' /\ StrandedIsLeft'
      BY <2>1, <2>2 DEF Turn, disk, SourceIsThere, PathsAreClear, StrandedIsLeft, AtRest
    <3> QED BY <3>1, <3>2, <3>3
  <2>3. ASSUME Ends(primary, rollback, candidate), UNCHANGED backups
        PROVE  RestoreInv'
    BY <2>1, <2>3, EndsKeepsTheData, TallyStaysSound DEF RestoreTypeOK
  <2>4. ASSUME primary.file = NoFile, Ends(Fresh, rollback, candidate), UNCHANGED backups
        PROVE  RestoreInv'
    <3>1. torn
      BY <2>1, <2>4 DEF Kept
    <3> QED BY <2>1, <2>4, <3>1, EndsKeepsTheData, TallyStaysSound, DatabasesAreSound DEF RestoreTypeOK
  <2> QED BY <1>4, <2>2, <2>3, <2>4 DEF Verify
<1> QED BY <1>1, <1>2, <1>3, <1>4

\* The renames that bring the backup to the primary's path.
LEMMA SwapKeepsTheData ==
    ASSUME RestoreInv, Aside \/ AsideWal \/ Install \/ Open
    PROVE  RestoreInv'
<1> USE DEF RestoreInv
<1>1. CASE Aside
  <2>1. /\ primary.file \in Snapshots /\ primary.wal \subseteq Writes /\ rollback = Absent
        /\ primary.file # NoFile /\ current = primary.file.data \cup primary.wal
    BY <1>1, DatabasesAreSound DEF Aside, Kept, PathsAreClear, RestoreTypeOK, Data
  <2>2. ASSUME NoFileError, rollback' = [rollback EXCEPT !.file = primary.file],
               primary' = [primary EXCEPT !.file = NoFile],
               Turn("aside_wal")
        PROVE  RestoreInv'
    <3>1. /\ rollback' \in Databases /\ rollback'.file = primary.file /\ rollback'.wal = {}
          /\ primary' \in Databases /\ primary'.file = NoFile /\ primary'.wal = primary.wal
      BY <2>1, <2>2 DEF RestoreTypeOK, Absent, Databases
    <3>2. RestoreTypeOK'
      BY <1>1, <2>2, <3>1, TallyStaysSound DEF Aside, Turn, control, history, RestoreTypeOK, Labels, AtRest
    <3>3. Kept'
      BY <1>1, <2>1, <2>2, <3>1 DEF Aside, Turn, history, Kept
    <3>4. SourceIsThere' /\ PathsAreClear' /\ StrandedIsLeft'
      BY <1>1, <2>2 DEF Aside, Turn, control, history, SourceIsThere, PathsAreClear, StrandedIsLeft, AtRest
    <3> QED BY <3>2, <3>3, <3>4
  <2>3. ASSUME FileError, Turn("verify"), UNCHANGED <<primary, rollback>>
        PROVE  RestoreInv'
    <3>1. RestoreTypeOK'
      BY <1>1, <2>3, TallyStaysSound, DatabasesAreSound
      DEF Aside, Turn, control, history, RestoreTypeOK, Labels, AtRest
    <3>2. Kept'
      BY <1>1, <2>1, <2>3 DEF Aside, Turn, history, Kept, Data
    <3>3. SourceIsThere' /\ PathsAreClear' /\ StrandedIsLeft'
      BY <1>1, <2>1, <2>3 DEF Aside, Turn, control, history, SourceIsThere, PathsAreClear, StrandedIsLeft, AtRest
    <3> QED BY <3>1, <3>2, <3>3
  <2> QED BY <1>1, <2>2, <2>3 DEF Aside
<1>2. CASE AsideWal
  <2>1. /\ rollback.file \in Snapshots /\ primary.wal \subseteq Writes /\ rollback.wal = {}
        /\ rollback.file # NoFile /\ current = rollback.file.data \cup primary.wal
    BY <1>2, DatabasesAreSound DEF AsideWal, Kept, RestoreTypeOK
  <2>2. ASSUME NoFileError, rollback' = [rollback EXCEPT !.wal = primary.wal], primary' = Absent,
               Turn("install"), UNCHANGED torn
        PROVE  RestoreInv'
    <3>1. /\ rollback' \in Databases /\ rollback'.file = rollback.file /\ rollback'.wal = primary.wal
          /\ Data(rollback') = rollback.file.data \cup primary.wal
      BY <2>1, <2>2 DEF RestoreTypeOK, Databases, Data
    <3>2. RestoreTypeOK'
      BY <1>2, <2>2, <3>1, TallyStaysSound, DatabasesAreSound
      DEF AsideWal, Turn, control, RestoreTypeOK, Labels, AtRest
    <3>3. Kept'
      BY <1>2, <2>1, <2>2, <3>1 DEF AsideWal, Turn, Kept
    <3>4. SourceIsThere' /\ PathsAreClear' /\ StrandedIsLeft'
      BY <1>2, <2>2 DEF AsideWal, Turn, control, SourceIsThere, PathsAreClear, StrandedIsLeft, AtRest
    <3> QED BY <3>2, <3>3, <3>4
  <2>3. ASSUME FileError, Turn("verify"),
               \/ /\ primary' = [primary EXCEPT !.file = rollback.file]
                  /\ rollback' = Absent
                  /\ UNCHANGED torn
               \/ /\ torn' = TRUE
                  /\ UNCHANGED <<primary, rollback>>
        PROVE  RestoreInv'
    <3>1. /\ primary' \in Databases /\ rollback' \in Databases /\ torn' \in BOOLEAN
          /\ primary'.file # NoFile => current = Data(primary') /\ rollback' = Absent
          /\ torn' \/ primary'.file # NoFile
          /\ torn => torn'
      <4>1. CASE primary' = [primary EXCEPT !.file = rollback.file] /\ rollback' = Absent /\ UNCHANGED torn
        <5>1. primary' \in Databases /\ primary'.file = rollback.file /\ primary'.wal = primary.wal
          BY <2>1, <4>1 DEF RestoreTypeOK, Databases
        <5> QED BY <2>1, <4>1, <5>1, DatabasesAreSound DEF Data, RestoreTypeOK
      <4>2. CASE torn' = TRUE /\ UNCHANGED <<primary, rollback>>
        BY <1>2, <4>2 DEF AsideWal, Kept, RestoreTypeOK
      <4> QED BY <2>3, <4>1, <4>2
    <3>2. RestoreTypeOK'
      BY <1>2, <2>3, <3>1, TallyStaysSound
      DEF AsideWal, Turn, control, RestoreTypeOK, Labels, AtRest
    <3>3. Kept'
      BY <1>2, <2>3, <3>1 DEF AsideWal, Turn, Kept, Data
    <3>4. SourceIsThere' /\ PathsAreClear' /\ StrandedIsLeft'
      BY <1>2, <2>3, <3>1 DEF AsideWal, Turn, control, SourceIsThere, PathsAreClear, StrandedIsLeft, AtRest
    <3> QED BY <3>2, <3>3, <3>4
  <2> QED BY <1>2, <2>2, <2>3 DEF AsideWal
<1>3. CASE Install
  <2>1. /\ primary' \in Databases /\ candidate' \in Databases /\ pc' \in {"open", "back"}
        /\ pc' = "back" => primary' = Absent
        /\ FileError \/ NoFileError
    BY <1>3, DatabasesAreSound DEF Install, Turn, Kept, RestoreTypeOK
  <2>2. RestoreTypeOK'
    BY <1>3, <2>1, TallyStaysSound DEF Install, control, history, RestoreTypeOK, Labels, AtRest
  <2>3. Kept'
    BY <1>3, <2>1 DEF Install, history, Kept, Data
  <2>4. SourceIsThere' /\ PathsAreClear' /\ StrandedIsLeft'
    BY <1>3, <2>1 DEF Install, control, history, SourceIsThere, PathsAreClear, StrandedIsLeft, AtRest
  <2> QED BY <2>2, <2>3, <2>4
<1>4. CASE Open
  <2>1. /\ primary' \in Databases /\ pc' \in {"discard", "back"}
        /\ pc' = "back" => primary' = Absent
        /\ FileError \/ NoFileError
    BY <1>4, DatabasesAreSound DEF Open, Turn, RestoreTypeOK
  <2>2. RestoreTypeOK'
    BY <1>4, <2>1, TallyStaysSound DEF Open, control, history, RestoreTypeOK, Labels, AtRest
  <2>3. Kept'
    BY <1>4, <2>1 DEF Open, history, Kept, Data
  <2>4. SourceIsThere' /\ PathsAreClear' /\ StrandedIsLeft'
    BY <1>4, <2>1 DEF Open, control, history, SourceIsThere, PathsAreClear, StrandedIsLeft, AtRest
  <2> QED BY <2>2, <2>3, <2>4
<1> QED BY <1>1, <1>2, <1>3, <1>4

\* The renames that bring the previous database back.
LEMMA RollbackKeepsTheData ==
    ASSUME RestoreInv, Back \/ BackWal \/ Reopen
    PROVE  RestoreInv'
<1> USE DEF RestoreInv
<1>1. CASE Back
  <2>1. /\ rollback.file \in Snapshots /\ rollback.wal \subseteq Writes /\ rollback.file # NoFile
        /\ current = Data(rollback) /\ Data(rollback) = rollback.file.data \cup rollback.wal
        /\ primary = Absent
    BY <1>1, DatabasesAreSound DEF Back, Kept, RestoreTypeOK, Data
  <2>2. ASSUME NoFileError, primary' = [primary EXCEPT !.file = rollback.file],
               rollback' = [rollback EXCEPT !.file = NoFile],
               Turn("back_wal"), UNCHANGED <<candidate, left, control, torn>>
        PROVE  RestoreInv'
    <3>1. /\ rollback' \in Databases /\ rollback'.file = NoFile /\ rollback'.wal = rollback.wal
          /\ primary' \in Databases /\ primary'.file = rollback.file /\ primary'.wal = {}
      BY <2>1, <2>2 DEF RestoreTypeOK, Absent, Databases
    <3>2. RestoreTypeOK'
      BY <1>1, <2>2, <3>1, TallyStaysSound DEF Back, Turn, control, RestoreTypeOK, Labels, AtRest
    <3>3. Kept'
      BY <1>1, <2>1, <2>2, <3>1 DEF Back, Turn, Kept
    <3>4. SourceIsThere' /\ PathsAreClear' /\ StrandedIsLeft'
      BY <1>1, <2>2 DEF Back, Turn, control, SourceIsThere, PathsAreClear, StrandedIsLeft, AtRest
    <3> QED BY <3>2, <3>3, <3>4
  <2>3. ASSUME FileError, Ends(primary, rollback, candidate), UNCHANGED <<backups, current, target, stranded>>
        PROVE  RestoreInv'
    BY <2>1, <2>3, EndsKeepsTheData, TallyStaysSound DEF RestoreTypeOK
  <2> QED BY <1>1, <2>2, <2>3 DEF Back
<1>2. CASE BackWal
  <2>1. /\ primary.file \in Snapshots /\ rollback.wal \in SUBSET Writes /\ primary.wal = {}
        /\ primary.file # NoFile /\ rollback.file = NoFile
        /\ current = primary.file.data \cup rollback.wal
    BY <1>2, DatabasesAreSound DEF BackWal, Kept, RestoreTypeOK
  <2>2. ASSUME NoFileError, primary' = [primary EXCEPT !.wal = rollback.wal], rollback' = Absent,
               Turn("reopen"), UNCHANGED <<candidate, left, control, torn>>
        PROVE  RestoreInv'
    <3>1. /\ primary' \in Databases /\ primary'.file = primary.file
          /\ Data(primary') = primary.file.data \cup rollback.wal
      BY <2>1, <2>2 DEF RestoreTypeOK, Databases, Data
    <3>2. RestoreTypeOK'
      BY <1>2, <2>2, <3>1, TallyStaysSound, DatabasesAreSound
      DEF BackWal, Turn, control, RestoreTypeOK, Labels, AtRest
    <3>3. Kept'
      BY <1>2, <2>1, <2>2, <3>1 DEF BackWal, Turn, Kept
    <3>4. SourceIsThere' /\ PathsAreClear' /\ StrandedIsLeft'
      BY <1>2, <2>2 DEF BackWal, Turn, control, SourceIsThere, PathsAreClear, StrandedIsLeft, AtRest
    <3> QED BY <3>2, <3>3, <3>4
  <2>3. ASSUME FileError, Ends(Absent, [rollback EXCEPT !.file = primary.file], candidate),
               UNCHANGED <<backups, current, target, stranded>>
        PROVE  RestoreInv'
    <3>1. PICK r : r = [rollback EXCEPT !.file = primary.file]
      OBVIOUS
    <3>2. r \in Databases /\ r.file = primary.file /\ r.wal = rollback.wal
      BY <2>1, <3>1 DEF RestoreTypeOK, Databases
    <3>3. current \subseteq Data(r) /\ Ends(Absent, r, candidate)
      BY <2>1, <2>3, <3>1, <3>2 DEF Data
    <3> QED BY <2>3, <3>2, <3>3, EndsKeepsTheData, TallyStaysSound, DatabasesAreSound DEF RestoreTypeOK
  <2>4. ASSUME rollback.wal # {}, FileError, Ends(primary, rollback, candidate),
               UNCHANGED <<backups, current, target, stranded>>
        PROVE  RestoreInv'
    <3>1. Split(rollback)
      BY <2>1, <2>4 DEF Split
    <3> QED BY <2>4, <3>1, EndsKeepsTheData, TallyStaysSound DEF RestoreTypeOK
  <2> QED BY <1>2, <2>2, <2>3, <2>4 DEF BackWal
<1>3. CASE Reopen
  <2>1. primary.file # NoFile /\ current = Data(primary) /\ rollback = Absent
    BY <1>3 DEF Reopen, Kept, PathsAreClear
  <2>2. ASSUME NoFileError, candidate' = Absent, Turn("verify"),
               UNCHANGED <<primary, rollback, left, control, torn>>
        PROVE  RestoreInv'
    <3>1. RestoreTypeOK'
      BY <1>3, <2>2, TallyStaysSound, DatabasesAreSound
      DEF Reopen, Turn, control, RestoreTypeOK, Labels, AtRest
    <3>2. Kept'
      BY <1>3, <2>1, <2>2 DEF Reopen, Turn, Kept, Data
    <3>3. SourceIsThere' /\ PathsAreClear' /\ StrandedIsLeft'
      BY <1>3, <2>1, <2>2 DEF Reopen, Turn, control, SourceIsThere, PathsAreClear, StrandedIsLeft, AtRest
    <3> QED BY <3>1, <3>2, <3>3
  <2>3. ASSUME FileError, Ends(Absent, primary, candidate) \/ Ends(primary, rollback, candidate),
               UNCHANGED <<backups, current, target, stranded>>
        PROVE  RestoreInv'
    BY <2>1, <2>3, EndsKeepsTheData, TallyStaysSound, DatabasesAreSound DEF RestoreTypeOK
  <2> QED BY <1>3, <2>2, <2>3 DEF Reopen
<1> QED BY <1>1, <1>2, <1>3

\* Wherever the process dies, what it was accountable for is in a database on the disk, or a
\* main file and its log have come apart.
LEMMA DyingKeepsTheData ==
    ASSUME RestoreInv, ServerDies
    PROVE  RestoreInv'
<1> USE DEF RestoreInv
<1>1. \/ torn \/ Split(primary) \/ Split(rollback)
      \/ current \subseteq Data(primary) \/ current \subseteq Data(rollback)
      \/ \E db \in left : current \subseteq Data(db)
  <2>1. CASE pc \in {"serving", "draining", "copy", "check", "aside", "reopen", "looping",
                     "verify", "starting", "down"}
    BY <2>1 DEF Kept
  <2>2. CASE pc \in {"install", "open", "discard", "back"}
    BY <2>2 DEF Kept
  <2>3. CASE pc = "aside_wal"
    BY <2>3 DEF Kept, Split, Data
  <2>4. CASE pc = "back_wal"
    BY <2>4 DEF Kept, Split, Data
  <2> QED BY <2>1, <2>2, <2>3, <2>4 DEF RestoreTypeOK, Labels, AtRest
<1>2. tally' \in [restores : Nat, faults : Nat, crashes : Nat]
  BY DEF ServerDies, RestoreTypeOK
<1> QED BY <1>1, <1>2, EndsKeepsTheData DEF ServerDies, RestoreTypeOK

\* Every step keeps the invariant.
LEMMA RestoreSteps == RestoreInv /\ [RestoreNext]_restoreVars => RestoreInv'
<1> SUFFICES ASSUME RestoreInv, [RestoreNext]_restoreVars PROVE RestoreInv'
  OBVIOUS
<1>1. CASE UNCHANGED restoreVars
  <2>1. RestoreTypeOK' /\ SourceIsThere' /\ PathsAreClear' /\ StrandedIsLeft'
    BY <1>1 DEF restoreVars, RestoreInv, RestoreTypeOK, SourceIsThere, PathsAreClear, StrandedIsLeft
  <2>2. Kept'
    BY <1>1 DEF restoreVars, RestoreInv, Kept, Data
  <2> QED BY <2>1, <2>2 DEF RestoreInv
<1>2. CASE RestoreStep
  BY <1>2, AttemptKeepsTheData, SwapKeepsTheData, RollbackKeepsTheData DEF RestoreStep
<1>3. ASSUME NEW c \in Clients, BackupPublish(c) \/ \E n \in Names : BackupStart(c, n) PROVE RestoreInv'
  BY <1>3, BackupsKeepTheData
<1> QED BY <1>1, <1>2, <1>3, ServingKeepsTheData, DyingKeepsTheData DEF RestoreNext

\* The invariant says where the complete copy is.
LEMMA KeptIsComplete == RestoreInv => RestoreKeepsData
<1> SUFFICES ASSUME RestoreInv PROVE RestoreKeepsData
  OBVIOUS
<1> USE DEF RestoreInv
<1>1. LoopKeepsTheData
  BY DEF LoopKeepsTheData, Kept, PathsAreClear, AtRest
<1>2. ASSUME ~torn PROVE \E db \in Copies : current \subseteq Data(db)
  <2>1. \A db \in {primary, rollback} \cup left : db \in Copies
    BY DEF Copies
  <2>2. CASE pc = "aside_wal"
    <3>1. PICK db : db = [file |-> rollback.file, wal |-> primary.wal]
      OBVIOUS
    <3>2. db \in Copies /\ db.file = rollback.file /\ db.wal = primary.wal
      BY <3>1 DEF Copies
    <3> QED BY <2>2, <3>2 DEF Kept, Data
  <2>3. CASE pc = "back_wal"
    <3>1. PICK db : db = [file |-> primary.file, wal |-> rollback.wal]
      OBVIOUS
    <3>2. db \in Copies /\ db.file = primary.file /\ db.wal = rollback.wal
      BY <3>1 DEF Copies
    <3> QED BY <2>3, <3>2 DEF Kept, Data
  <2>4. CASE pc \in {"install", "open", "discard", "back"}
    BY <2>1, <2>4 DEF Kept
  <2>5. CASE pc \in AtRest \cup {"check", "aside", "reopen"}
    BY <1>2, <2>1, <2>5 DEF Kept, AtRest
  <2> QED BY <2>2, <2>3, <2>4, <2>5 DEF RestoreTypeOK, Labels
<1>3. ASSUME ~torn, NEW D \in stranded PROVE \E db \in Copies : D \subseteq Data(db)
  BY <1>3 DEF StrandedIsLeft, Copies
<1>4. CompleteCopyExists
  BY <1>2, <1>3 DEF CompleteCopyExists
<1> QED BY <1>1, <1>4 DEF RestoreKeepsData

\* A complete copy of the database stays on the disk (replica.rs:3), but where a death or a second failure
\* between the renames of the two files has torn one, and the server's loop goes on only with what it is
\* accountable for (main.rs:637), whichever file operations fail and wherever the process dies, for any
\* number of restores, faults and crashes.
THEOREM RestoreLosesNothing == RestoreSpec => []RestoreKeepsData
BY RestoreStarts, RestoreSteps, KeptIsComplete, PTL DEF RestoreSpec

--------------------------------------------------------------------------------
(* How a main file and its log can come apart *)

\* With their files together so far, the primary of a server between two attempts has its
\* own file, and the copy of a backup comes without a log.
TogetherInv ==
    /\ RestoreInv
    /\ ~torn
    /\ tally.crashes = 0
    /\ pc \in {"check", "aside", "aside_wal", "install"} => candidate.wal = {}
    /\ pc \in {"open", "discard"} => primary.wal = {}
    /\ pc \in {"starting", "down", "looping"} => ~Split(primary)

\* One error, without a crash, is not enough.
LEMMA OneErrorStep ==
    ASSUME MaxCrashes = 0, MaxFileErrors \in {0, 1}, TogetherInv, [RestoreNext]_restoreVars
    PROVE  TogetherInv'
<1>1. RestoreInv'
  BY RestoreSteps DEF TogetherInv
<1>2. RestoreTypeOK /\ ~torn /\ tally.crashes = 0
  BY DEF TogetherInv, RestoreInv
<1>3. FileError => tally.faults = 0 /\ tally'.faults = 1 /\ tally'.crashes = 0 /\ MaxFileErrors = 1
  BY <1>2 DEF FileError, RestoreTypeOK
<1>4. NoFileError => tally'.crashes = 0
  BY <1>2 DEF NoFileError
<1>5. ASSUME NEW p, NEW r, NEW c, Ends(p, r, c), FileError, ~Split(p), ~Split(r) PROVE TogetherInv'
  <2>1. ~torn' /\ ~Split(primary)' /\ pc' = "down"
    BY <1>2, <1>5 DEF Ends, Turn, Split
  <2> QED BY <1>1, <1>3, <1>5, <2>1 DEF TogetherInv
<1>6. CASE Start \/ Drain \/ Drained \/ UNCHANGED restoreVars
  BY <1>1, <1>6
  DEF TogetherInv, Start, Drain, Drained, restoreVars, Turn, disk, control, history, Split
<1>7. CASE Boot
  <2>1. ~Split(primary) /\ ~Split(rollback)
    BY <1>7 DEF Boot, TogetherInv, RestoreInv, PathsAreClear, AtRest, Split, Absent
  <2>2. CASE NoFileError /\ Turn("serving") /\ UNCHANGED torn
    BY <1>1, <1>2, <1>4, <2>2 DEF TogetherInv, Turn
  <2> QED BY <1>5, <1>7, <2>1, <2>2 DEF Boot
<1>8. ASSUME NEW d \in Writes, Write(d) PROVE TogetherInv'
  BY <1>1, <1>2, <1>8 DEF TogetherInv, Write
<1>9. ASSUME NEW c \in Clients, BackupPublish(c) \/ \E n \in Names : BackupStart(c, n) PROVE TogetherInv'
  BY <1>1, <1>2, <1>3, <1>4, <1>9 DEF TogetherInv, BackupPublish, BackupStart, disk, history, Split
<1>10. ASSUME NEW n \in Names, RequestRestore(n) PROVE TogetherInv'
  BY <1>1, <1>2, <1>10 DEF TogetherInv, RequestRestore, RestoreTypeOK, disk, history, Split
<1>11. CASE Copy \/ Check \/ Install \/ Open \/ Discard
  <2>1. tally'.crashes = 0 /\ ~torn'
    BY <1>2, <1>3, <1>4, <1>11 DEF Copy, Check, Install, Open, Discard, history
  <2>2. CASE Copy
    BY <1>1, <2>1, <2>2 DEF TogetherInv, Copy, Turn
  <2>3. CASE Check
    BY <1>1, <2>1, <2>3 DEF TogetherInv, Check, Turn
  <2>4. CASE Install
    BY <1>1, <2>1, <2>4 DEF TogetherInv, Install, Turn
  <2>5. CASE Open
    BY <1>1, <2>1, <2>5 DEF TogetherInv, Open, Turn
  <2>6. CASE Discard
    BY <1>1, <2>1, <2>6 DEF TogetherInv, Discard, Turn, Split
  <2> QED BY <1>11, <2>2, <2>3, <2>4, <2>5, <2>6
<1>12. CASE Aside
  BY <1>1, <1>2, <1>3, <1>4, <1>12 DEF TogetherInv, Aside, Turn, history
<1>13. CASE AsideWal
  <2>1. tally'.crashes = 0 /\ ~torn' /\ pc' \in {"install", "verify"}
        /\ (pc' = "install" => candidate' = candidate)
    BY <1>2, <1>3, <1>4, <1>13 DEF AsideWal, Turn
  <2> QED BY <1>1, <1>13, <2>1 DEF TogetherInv, AsideWal
<1>14. CASE Back
  <2>1. ~Split(primary) /\ ~Split(rollback)
    BY <1>14 DEF Back, TogetherInv, RestoreInv, Kept, Split, Absent
  <2>2. CASE NoFileError /\ Turn("back_wal") /\ UNCHANGED torn
    BY <1>1, <1>2, <1>4, <2>2 DEF TogetherInv, Turn
  <2> QED BY <1>5, <1>14, <2>1, <2>2 DEF Back
<1>15. CASE BackWal
  <2>1. primary.file # NoFile
    BY <1>15 DEF BackWal, TogetherInv, RestoreInv, Kept
  <2>2. ~Split(Absent) /\ ~Split([rollback EXCEPT !.file = primary.file])
    BY <1>2, <2>1 DEF Split, Absent, RestoreTypeOK, Databases
  <2>3. CASE NoFileError /\ Turn("reopen") /\ UNCHANGED torn
    BY <1>1, <1>2, <1>4, <2>3 DEF TogetherInv, Turn
  <2> QED BY <1>3, <1>5, <1>15, <2>2, <2>3 DEF BackWal
<1>16. CASE Reopen
  <2>1. ~Split(primary) /\ ~Split(rollback) /\ ~Split(Absent)
    BY <1>16 DEF Reopen, TogetherInv, RestoreInv, Kept, PathsAreClear, Split, Absent
  <2>2. CASE NoFileError /\ Turn("verify") /\ UNCHANGED torn
    BY <1>1, <1>2, <1>4, <2>2 DEF TogetherInv, Turn
  <2> QED BY <1>5, <1>16, <2>1, <2>2 DEF Reopen
<1>17. CASE Verify
  <2>1. primary.file # NoFile /\ ~Split(primary) /\ ~Split(rollback)
    BY <1>2, <1>17 DEF Verify, TogetherInv, RestoreInv, Kept, PathsAreClear, AtRest, Split, Absent
  <2>2. CASE NoFileError /\ Turn("looping") /\ UNCHANGED <<disk, torn>>
    BY <1>1, <1>2, <1>4, <2>1, <2>2 DEF TogetherInv, Turn, disk, Split
  <2> QED BY <1>5, <1>17, <2>1, <2>2 DEF Verify
<1>18. ~ServerDies
  BY <1>2 DEF ServerDies
<1> QED
  BY <1>6, <1>7, <1>8, <1>9, <1>10, <1>11, <1>12, <1>13, <1>14, <1>15, <1>16, <1>17, <1>18
  DEF RestoreNext, RestoreStep

\* The exception that CompleteCopyExists makes is a narrow one: unless the process dies or two file
\* operations fail, no main file is separated from its log (move_database_files, replica.rs).
THEOREM OneErrorTearsNothing ==
    ASSUME MaxCrashes = 0, MaxFileErrors \in {0, 1}
    PROVE  RestoreSpec => []~torn
<1>1. RestoreInit => TogetherInv
  BY RestoreStarts DEF RestoreInit, TogetherInv, Split, Absent
<1>2. TogetherInv => ~torn
  BY DEF TogetherInv
<1>3. TogetherInv /\ [RestoreNext]_restoreVars => TogetherInv'
  BY OneErrorStep
<1> QED BY <1>1, <1>2, <1>3, PTL DEF RestoreSpec

--------------------------------------------------------------------------------
(* generate_structured over the retries of a provider *)

GenTypeOK ==
    /\ asking \in {"idle", "sent", "judge", "done"}
    /\ {round, attempt, requests, rejections} \subseteq Nat
    /\ talk \in Seq({"assistant", "user"})

\* While a completion is asked for, each rejection before it has cost at most one round of attempts and has
\* put one turn of each side into the conversation.
RoundsSound ==
    /\ asking = "idle" => requests = 0 /\ rejections = 0 /\ round = 0 /\ talk = <<>>
    /\ asking \in {"sent", "judge"} =>
          /\ round = rejections /\ rejections <= MaxRetries
          /\ attempt \in 1..Attempts
          /\ requests <= Attempts * rejections + attempt
          /\ Len(talk) = 2 * rejections

\* A call that has ended keeps what it has cost, and is unparsed only after the last rejection.
EndSound ==
    /\ asking # "done" => ending = "none"
    /\ asking = "done" =>
          /\ requests <= Attempts * (1 + rejections)
          /\ rejections <= MaxRetries + 1
          /\ ending = "unparsed" => rejections = MaxRetries + 1

GenInv == GenTypeOK /\ RoundsSound /\ EndSound

--------------------------------------------------------------------------------
\* One rejection more buys one round of attempts more.
LEMMA AnotherRound ==
    ASSUME NEW r \in Nat
    PROVE  /\ Attempts * r \in Nat /\ Attempts * (1 + r) \in Nat
           /\ Attempts * (1 + r) = Attempts * r + Attempts
           /\ Attempts * (r + 1) = Attempts * r + Attempts
  BY GenerationAssumption

\* Each turn of a rejection adds two messages.
LEMMA AnotherTurn ==
    ASSUME NEW t \in Seq({"assistant", "user"})
    PROVE  /\ t \o <<"assistant", "user">> \in Seq({"assistant", "user"})
           /\ Len(t \o <<"assistant", "user">>) = Len(t) + 2
  OBVIOUS

\* Every step keeps the invariant.
LEMMA GenStep == GenInv /\ [GenNext]_genVars => GenInv'
<1> SUFFICES ASSUME GenInv, [GenNext]_genVars PROVE GenInv'
  OBVIOUS
<1> USE GenerationAssumption DEF GenInv
<1>1. CASE GenerateStart
  BY <1>1, AnotherRound DEF GenerateStart, GenTypeOK, RoundsSound, EndSound
<1>2. CASE ProviderAnswer
  <2>1. GenTypeOK'
    BY <1>2 DEF ProviderAnswer, Ended, GenTypeOK
  <2>2. RoundsSound' /\ EndSound'
    <3>1. rejections \in Nat /\ requests \in Nat /\ attempt \in Nat
      BY DEF GenTypeOK
    <3>2. /\ asking = "sent" /\ ending = "none"
          /\ UNCHANGED <<round, talk, rejections>>
      BY <1>2 DEF ProviderAnswer, EndSound
    <3>3. CASE asking' = "judge" /\ UNCHANGED <<attempt, ending, requests>>
      BY <3>2, <3>3 DEF RoundsSound, EndSound
    <3>4. CASE attempt < Attempts /\ attempt' = attempt + 1 /\ requests' = requests + 1 /\ UNCHANGED <<asking, ending>>
      BY <3>1, <3>2, <3>4, AnotherRound DEF RoundsSound, EndSound
    <3>5. CASE Ended("failed") /\ UNCHANGED <<attempt, requests>>
      BY <3>1, <3>2, <3>5, AnotherRound DEF Ended, RoundsSound, EndSound
    <3> QED BY <1>2, <3>3, <3>4, <3>5 DEF ProviderAnswer
  <2> QED BY <2>1, <2>2
<1>3. CASE Accept
  <2>1. rejections \in Nat /\ requests \in Nat /\ attempt \in Nat
    BY DEF GenTypeOK
  <2> QED BY <1>3, <2>1, AnotherRound DEF Accept, Ended, GenTypeOK, RoundsSound, EndSound
<1>4. CASE Reject
  <2>1. rejections \in Nat /\ requests \in Nat /\ attempt \in Nat /\ round \in Nat
    BY DEF GenTypeOK
  <2>2. CASE round < MaxRetries
    BY <1>4, <2>1, <2>2, AnotherRound, AnotherTurn, SMTT(30) DEF Reject, GenTypeOK, RoundsSound, EndSound
  <2>3. CASE ~(round < MaxRetries)
    <3>1. /\ asking = "judge" /\ rejections' = rejections + 1 /\ requests' = requests
          /\ asking' = "done" /\ ending' = "unparsed" /\ round = rejections /\ rejections = MaxRetries
      BY <1>4, <2>1, <2>3 DEF Reject, Ended, RoundsSound
    <3>2. requests' <= Attempts * (1 + rejections')
      <4>1. requests <= Attempts * (1 + rejections)
        BY <2>1, <3>1, AnotherRound DEF RoundsSound
      <4>2. Attempts * (1 + rejections') = Attempts * (1 + rejections) + Attempts
        BY <2>1, <3>1, AnotherRound
      <4> QED BY <2>1, <3>1, <4>1, <4>2, AnotherRound
    <3> QED BY <1>4, <2>1, <2>3, <3>1, <3>2 DEF Reject, GenTypeOK, RoundsSound, EndSound
  <2> QED BY <2>2, <2>3
<1>5. CASE UNCHANGED genVars
  BY <1>5 DEF genVars, GenTypeOK, RoundsSound, EndSound
<1> QED BY <1>1, <1>2, <1>3, <1>4, <1>5 DEF GenNext

\* A call makes at most one round of attempts for each completion that its caller rejected and one more, and
\* the conversation tells the model of the rejected ones alone (generate.rs:56).
THEOREM LoopsDoNotMultiply == GenSpec => []RetriesDoNotMultiply
<1>1. GenInit => GenInv
  BY DEF GenInit, GenInv, GenTypeOK, RoundsSound, EndSound
<1>2. GenInv => RetriesDoNotMultiply
  <2> SUFFICES ASSUME GenInv PROVE RetriesDoNotMultiply
    OBVIOUS
  <2>1. rejections \in Nat /\ requests \in Nat /\ attempt \in Nat
    BY DEF GenInv, GenTypeOK
  <2>2. asking \in {"idle", "sent", "judge", "done"}
    BY DEF GenInv, GenTypeOK
  <2> QED BY <2>1, <2>2, AnotherRound, GenerationAssumption DEF GenInv, RoundsSound, EndSound, RetriesDoNotMultiply
<1> QED BY <1>1, <1>2, GenStep, PTL DEF GenSpec

--------------------------------------------------------------------------------
(* The robots' buffers: flattened sequences *)

\* What FlattenSeq takes the last value of.
Flattens(g, s) == g = [i \in 1..Len(s) |-> IF i = 1 THEN s[i] ELSE g[i - 1] \o s[i]]
Flat(g, s) == IF Len(s) = 0 THEN <<>> ELSE g[Len(s)]

LEMMA FlatIsFlattened ==
    ASSUME NEW S, NEW s \in Seq(Seq(S)), \E g : Flattens(g, s)
    PROVE  \E g : Flattens(g, s) /\ FlattenSeq(s) = Flat(g, s)
<1>1. CASE Len(s) = 0
  <2>1. s = <<>>
    BY <1>1
  <2> QED BY <1>1, <2>1 DEF FlattenSeq, Flat
<1>2. CASE Len(s) # 0
  <2> DEFINE Is(g) == g = [i \in 1..Len(s) |-> IF i = 1 THEN s[i] ELSE g[i - 1] \o s[i]]
  <2>1. ASSUME NEW g PROVE Is(g) <=> Flattens(g, s)
    BY DEF Flattens
  <2>2. PICK g : g = (CHOOSE h : Is(h)) /\ Is(g)
    <3> HIDE DEF Is
    <3> QED BY <2>1
  <2>3. FlattenSeq(s) = g[Len(s)]
    BY <1>2, <2>2 DEF FlattenSeq
  <2> QED BY <1>2, <2>1, <2>2, <2>3 DEF Flat
<1> QED BY <1>1, <1>2

LEMMA EmptyFlattens ==
    /\ \E g : Flattens(g, <<>>)
    /\ \A g : Flat(g, <<>>) = <<>>
<1>1. PICK g : g = [i \in 1..Len(<<>>) |-> <<>>]
  OBVIOUS
<1>2. Len(<<>>) = 0 /\ 1..0 = {}
  OBVIOUS
<1>3. Flattens(g, <<>>)
  BY <1>1, <1>2 DEF Flattens
<1> QED BY <1>2, <1>3 DEF Flat

\* One sequence more: what was flattened is the beginning.
Continues(g, r, f, s, e) == Flattens(f, s) /\ \A x \in Seq(Nat) : x = Flat(f, s) => Flat(g, r) = x \o e

LEMMA FlattenMore ==
    ASSUME NEW s \in Seq(Seq(Nat)), NEW e \in Seq(Nat), NEW r, r = Append(s, e), NEW g, Flattens(g, r)
    PROVE  \E f : Continues(g, r, f, s, e)
<1>a. PICK n \in Nat : n = Len(s)
  OBVIOUS
<1>1. n = Len(s) /\ r = Append(s, e)
  BY <1>a
<1>2. Len(r) = n + 1 /\ r[n + 1] = e /\ \A i \in 1..n : r[i] = s[i]
  BY <1>1
<1>3. \A i \in 1..(n + 1) : g[i] = IF i = 1 THEN r[i] ELSE g[i - 1] \o r[i]
  BY <1>1, <1>2 DEF Flattens
<1>4. PICK f : f = [i \in 1..n |-> g[i]]
  OBVIOUS
<1>5. \A i \in 1..n : f[i] = IF i = 1 THEN s[i] ELSE f[i - 1] \o s[i]
  <2>1. TAKE i \in 1..n
  <2>2. CASE i = 1
    BY <1>2, <1>3, <1>4, <2>2
  <2>3. CASE i # 1
    <3>1. i - 1 \in 1..n /\ i \in 1..(n + 1)
      BY <2>3
    <3> QED BY <1>2, <1>3, <1>4, <2>3, <3>1
  <2> QED BY <2>2, <2>3
<1>6. Flattens(f, s)
  <2>1. f = [i \in 1..n |-> f[i]]
    BY <1>4
  <2> QED BY <1>1, <1>5, <2>1 DEF Flattens
<1>7. Flat(g, r) = g[n + 1]
  BY <1>2 DEF Flat
<1>8. CASE n = 0
  <2>1. g[n + 1] = e /\ Flat(f, s) = <<>>
    BY <1>1, <1>2, <1>3, <1>8 DEF Flat
  <2>2. <<>> \o e = e
    OBVIOUS
  <2> QED BY <1>6, <1>7, <2>1, <2>2 DEF Continues
<1>9. CASE n # 0
  <2>a. n \in 1..n /\ n + 1 \in 1..(n + 1) /\ n + 1 # 1 /\ (n + 1) - 1 = n
    BY <1>9
  <2>b. g[n + 1] = g[n] \o e
    BY <1>2, <1>3, <2>a
  <2>1. g[n + 1] = g[n] \o e /\ Flat(f, s) = f[n] /\ f[n] = g[n]
    BY <1>1, <1>4, <1>9, <2>a, <2>b DEF Flat
  <2> QED BY <1>6, <1>7, <2>1 DEF Continues
<1> QED BY <1>8, <1>9

LEMMA FlattenExists ==
    ASSUME NEW S, NEW s \in Seq(Seq(S)), NEW e \in Seq(S), \E g : Flattens(g, s)
    PROVE  \E g : Flattens(g, Append(s, e))
<1>a. PICK n \in Nat : n = Len(s)
  OBVIOUS
<1>b. PICK r : r = Append(s, e)
  OBVIOUS
<1>1. n = Len(s) /\ r = Append(s, e)
  BY <1>a, <1>b
<1>2. Len(r) = n + 1 /\ r[n + 1] = e /\ \A i \in 1..n : r[i] = s[i]
  BY <1>1
<1>3. PICK f : Flattens(f, s)
  OBVIOUS
<1>4. \A i \in 1..n : f[i] = IF i = 1 THEN s[i] ELSE f[i - 1] \o s[i]
  BY <1>1, <1>3 DEF Flattens
<1>5. PICK h : h = [i \in 1..(n + 1) |-> IF i \in 1..n THEN f[i] ELSE IF i = 1 THEN e ELSE f[n] \o e]
  OBVIOUS
<1>6. ASSUME NEW i \in 1..(n + 1)
      PROVE  h[i] = IF i = 1 THEN r[i] ELSE h[i - 1] \o r[i]
  <2>1. CASE i \in 1..n
    <3>1. h[i] = f[i] /\ r[i] = s[i]
      BY <1>2, <1>5, <2>1
    <3>2. i # 1 => h[i - 1] = f[i - 1]
      BY <1>5, <2>1
    <3> QED BY <1>4, <2>1, <3>1, <3>2
  <2>2. CASE i \notin 1..n
    <3>1. i = n + 1
      BY <2>2
    <3>2. h[n + 1] = IF n + 1 = 1 THEN e ELSE f[n] \o e
      BY <1>5, <2>2, <3>1
    <3>3. n # 0 => h[n] = f[n]
      BY <1>5
    <3> QED BY <1>2, <3>1, <3>2, <3>3
  <2> QED BY <2>1, <2>2
<1>7. h = [i \in 1..(n + 1) |-> IF i = 1 THEN r[i] ELSE h[i - 1] \o r[i]]
  <2>1. h = [i \in 1..(n + 1) |-> h[i]]
    BY <1>5
  <2> QED BY <1>6, <2>1
<1> QED BY <1>1, <1>2, <1>7, ZenonT(40) DEF Flattens

InOrder(events) == \A i, j \in DOMAIN events : i < j => events[i] < events[j]
Within(told) == UNION {Range(text) : text \in Range(told)}

\* What n logged events are where they may be; without an error so far, each once and in order.
RobotSound(held, told, n, out, errors) ==
    /\ held \in Seq(Nat) /\ told \in Seq(Seq(Nat)) /\ n \in Nat /\ errors \in Nat
    /\ 1..n = out \cup Range(held) \cup Within(told)
    /\ InOrder(held) /\ \A text \in Range(told) : InOrder(text)
    /\ \E g : Flattens(g, told)
    /\ \A g : Flattens(g, told) =>
          /\ Flat(g, told) \in Seq(1..n)
          /\ errors = 0 => InOrder(Flat(g, told) \o held)

\* An event at the end of a sequence.
LEMMA LastComesLast ==
    ASSUME NEW s \in Seq(Nat), NEW n \in Nat, InOrder(s), \A x \in Range(s) : x <= n
    PROVE  InOrder(Append(s, n + 1)) /\ Range(Append(s, n + 1)) = Range(s) \cup {n + 1}
<1>1. PICK l \in Nat : l = Len(s)
  OBVIOUS
<1>2. PICK r : r = Append(s, n + 1)
  OBVIOUS
<1>3. DOMAIN s = 1..l /\ DOMAIN r = 1..(l + 1) /\ r[l + 1] = n + 1 /\ \A i \in 1..l : r[i] = s[i] /\ s[i] \in Nat
  BY <1>1, <1>2
<1>4. \A i \in 1..l : s[i] <= n
  BY <1>3 DEF Range
<1>5. InOrder(r)
  BY <1>3, <1>4 DEF InOrder
<1>6. Range(r) = Range(s) \cup {n + 1}
  BY <1>3, SMTT(30) DEF Range
<1> QED BY <1>2, <1>5, <1>6

\* Both parts of an ordered sequence are in order.
LEMMA PartsAreInOrder ==
    ASSUME NEW s \in Seq(Nat), NEW t \in Seq(Nat), InOrder(s \o t)
    PROVE  InOrder(s) /\ InOrder(t)
<1>1. PICK l \in Nat, k \in Nat : l = Len(s) /\ k = Len(t)
  OBVIOUS
<1>2. PICK r : r = s \o t
  OBVIOUS
<1>3. /\ DOMAIN s = 1..l /\ DOMAIN t = 1..k /\ DOMAIN r = 1..(l + k)
      /\ (\A i \in 1..l : r[i] = s[i]) /\ \A i \in 1..k : r[l + i] = t[i]
  BY <1>1, <1>2
<1>4. \A i, j \in 1..(l + k) : i < j => r[i] < r[j]
  BY <1>2, <1>3 DEF InOrder
<1>5. InOrder(s)
  BY <1>3, <1>4 DEF InOrder
<1>6. ASSUME NEW i \in 1..k, NEW j \in 1..k, i < j PROVE t[i] < t[j]
  <2>1. l + i \in 1..(l + k) /\ l + j \in 1..(l + k) /\ l + i < l + j
    BY <1>6
  <2>2. r[l + i] < r[l + j]
    BY <1>4, <2>1
  <2>3. r[l + i] = t[i] /\ r[l + j] = t[j]
    BY <1>3
  <2> QED BY <2>2, <2>3
<1> QED BY <1>3, <1>5, <1>6 DEF InOrder

LEMMA EmptyIsInOrder ==
    /\ InOrder(<<>>) /\ Range(<<>>) = {} /\ <<>> \in Seq(Nat)
    /\ \A s \in Seq(Nat) : s \o <<>> = s /\ <<>> \o s = s
<1>1. DOMAIN <<>> = {}
  OBVIOUS
<1> QED BY <1>1 DEF InOrder, Range

\* What is flattened of told is a sequence of numbers.
LEMMA FlatIsTyped ==
    ASSUME NEW held, NEW told, NEW n, NEW out, NEW errors, RobotSound(held, told, n, out, errors), NEW g, Flattens(g, told)
    PROVE  /\ Flat(g, told) \in Seq(Nat) /\ Flat(g, told) \in Seq(1..n) /\ Range(Flat(g, told)) \subseteq 1..n
           /\ errors = 0 => InOrder(Flat(g, told) \o held) /\ InOrder(Flat(g, told))
<1>1. PICK s : s = Flat(g, told)
  OBVIOUS
<1>2. s \in Seq(1..n) /\ n \in Nat /\ held \in Seq(Nat) /\ (errors = 0 => InOrder(s \o held))
  BY <1>1 DEF RobotSound
<1>3. s \in Seq(Nat) /\ Range(s) \subseteq 1..n
  <2>1. \A i \in DOMAIN s : s[i] \in 1..n /\ s[i] \in Nat
    BY <1>2
  <2>2. Range(s) \subseteq 1..n
    BY <2>1 DEF Range
  <2>3. Len(s) \in Nat /\ s = [i \in 1..Len(s) |-> s[i]] /\ \A i \in 1..Len(s) : s[i] \in Nat
    BY <1>2
  <2>4. s \in Seq(Nat)
    BY <2>3
  <2> QED BY <2>2, <2>4
<1> QED BY <1>1, <1>2, <1>3, PartsAreInOrder

--------------------------------------------------------------------------------
(* What happens to the events *)

LEMMA EventsAreLeftOut ==
    ASSUME NEW held, NEW told, NEW n, NEW out, NEW errors, RobotSound(held, told, n, out, errors)
    PROVE  RobotSound(<<>>, told, n, out \cup Range(held), errors)
<1>1. ASSUME NEW g, Flattens(g, told)
      PROVE  Flat(g, told) \in Seq(1..n) /\ (errors = 0 => InOrder(Flat(g, told) \o <<>>))
  <2>1. PICK s : s = Flat(g, told)
    OBVIOUS
  <2>2. s \in Seq(Nat) /\ s \in Seq(1..n) /\ (errors = 0 => InOrder(s))
    BY <1>1, <2>1, FlatIsTyped
  <2>3. s \o <<>> = s
    BY <2>2, EmptyIsInOrder
  <2> QED BY <2>1, <2>2, <2>3
<1>2. 1..n = (out \cup Range(held)) \cup Range(<<>>) \cup Within(told)
  BY EmptyIsInOrder DEF RobotSound
<1> QED BY <1>1, <1>2, EmptyIsInOrder DEF RobotSound

LEMMA ErrorsChangeNothing ==
    ASSUME NEW held, NEW told, NEW n, NEW out, NEW errors, RobotSound(held, told, n, out, errors)
    PROVE  RobotSound(held, told, n, out, errors + 1)
<1>1. errors \in Nat /\ errors + 1 \in Nat /\ errors + 1 # 0
  BY DEF RobotSound
<1> QED BY <1>1 DEF RobotSound

LEMMA EventIsLogged ==
    ASSUME NEW held, NEW told, NEW n, NEW out, NEW errors, RobotSound(held, told, n, out, errors)
    PROVE  RobotSound(Append(held, n + 1), told, n + 1, out, errors)
<1>1. PICK h : h = Append(held, n + 1)
  OBVIOUS
<1>2. held \in Seq(Nat) /\ n \in Nat /\ n + 1 \in Nat /\ InOrder(held) /\ 1..(n + 1) = 1..n \cup {n + 1}
  BY DEF RobotSound
<1>3. Range(held) \subseteq 1..n /\ 1..n = out \cup Range(held) \cup Within(told)
  BY DEF RobotSound
<1>4. InOrder(h) /\ Range(h) = Range(held) \cup {n + 1} /\ h \in Seq(Nat)
  BY <1>1, <1>2, <1>3, LastComesLast
<1>5. 1..(n + 1) = out \cup Range(h) \cup Within(told)
  BY <1>2, <1>3, <1>4
<1>6. ASSUME NEW g, Flattens(g, told)
      PROVE  Flat(g, told) \in Seq(1..(n + 1)) /\ (errors = 0 => InOrder(Flat(g, told) \o h))
  <2>1. PICK s : s = Flat(g, told)
    OBVIOUS
  <2>2. s \in Seq(Nat) /\ s \in Seq(1..n) /\ Range(s) \subseteq 1..n /\ (errors = 0 => InOrder(s \o held))
    BY <1>6, <2>1, FlatIsTyped
  <2>3. s \in Seq(1..(n + 1))
    <3>1. PICK T : T = 1..(n + 1)
      OBVIOUS
    <3>2. \A i \in 1..Len(s) : s[i] \in T
      BY <1>2, <2>2, <3>1
    <3>3. Len(s) \in Nat /\ s = [i \in 1..Len(s) |-> s[i]]
      BY <2>2
    <3>4. s \in Seq(T)
      BY <3>2, <3>3
    <3> QED BY <3>1, <3>4
  <2>4. ASSUME errors = 0 PROVE InOrder(s \o h)
    <3>1. PICK r : r = s \o held
      OBVIOUS
    <3>2. r \in Seq(Nat) /\ InOrder(r)
      BY <1>2, <2>2, <2>4, <3>1
    <3>3. \A x \in Range(r) : x <= n
      <4>1. \A i \in DOMAIN s : s[i] \in 1..n
        BY <2>2 DEF Range
      <4>2. \A i \in DOMAIN held : held[i] \in 1..n
        BY <1>3 DEF Range
      <4>3. ASSUME NEW i \in DOMAIN r PROVE r[i] <= n
        <5>1. PICK l \in Nat, k \in Nat : l = Len(s) /\ k = Len(held)
          BY <1>2, <2>2
        <5>2. DOMAIN s = 1..l /\ DOMAIN held = 1..k /\ DOMAIN r = 1..(l + k)
          BY <1>2, <2>2, <3>1, <5>1
        <5>3. CASE i \in 1..l
          BY <1>2, <2>2, <3>1, <4>1, <5>1, <5>2, <5>3
        <5>4. CASE i \notin 1..l
          <6>1. PICK m \in 1..k : i = l + m
            <7>1. i - l \in 1..k /\ i = l + (i - l)
              BY <5>2, <5>4
            <7> QED BY <7>1
          <6>2. r[i] = held[m]
            BY <1>2, <2>2, <3>1, <5>1, <6>1
          <6> QED BY <1>2, <4>2, <5>2, <6>1, <6>2
        <5> QED BY <5>3, <5>4
      <4> QED BY <4>3 DEF Range
    <3>4. InOrder(Append(r, n + 1))
      BY <1>2, <3>2, <3>3, LastComesLast
    <3>5. s \o h = Append(r, n + 1)
      BY <1>1, <1>2, <2>2, <3>1, SMTT(30)
    <3> QED BY <3>4, <3>5
  <2> QED BY <2>1, <2>3, <2>4
<1>7. /\ told \in Seq(Seq(Nat)) /\ errors \in Nat /\ (\E g : Flattens(g, told))
      /\ \A text \in Range(told) : InOrder(text)
  BY DEF RobotSound
<1>8. RobotSound(h, told, n + 1, out, errors)
  BY <1>2, <1>4, <1>5, <1>6, <1>7 DEF RobotSound
<1> QED BY <1>1, <1>8

LEMMA TextIsTold ==
    ASSUME NEW held, NEW told, NEW n, NEW out, NEW errors, RobotSound(held, told, n, out, errors)
    PROVE  /\ RobotSound(<<>>, Append(told, held), n, out, errors)
           /\ errors # 0 => RobotSound(held, Append(told, held), n, out, errors)
<1>0. PICK more : more = Append(told, held)
  OBVIOUS
<1>1. /\ held \in Seq(Nat) /\ told \in Seq(Seq(Nat)) /\ n \in Nat /\ errors \in Nat /\ InOrder(held)
      /\ \A text \in Range(told) : InOrder(text)
  BY DEF RobotSound
<1>2. more \in Seq(Seq(Nat)) /\ Range(more) = Range(told) \cup {held}
  <2>1. PICK l \in Nat : l = Len(told)
    BY <1>1
  <2>2. /\ DOMAIN told = 1..l /\ DOMAIN more = 1..(l + 1) /\ more[l + 1] = held
        /\ \A i \in 1..l : more[i] = told[i]
    BY <1>0, <1>1, <2>1
  <2>3. more \in Seq(Seq(Nat))
    BY <1>0, <1>1
  <2>4. Range(told) = {told[i] : i \in 1..l} /\ Range(more) = {more[i] : i \in 1..(l + 1)}
    BY <2>2 DEF Range
  <2>5. 1..(l + 1) = 1..l \cup {l + 1}
    BY <2>1
  <2>6. ASSUME NEW x PROVE x \in Range(more) <=> x \in Range(told) \cup {held}
    BY <2>2, <2>4, <2>5
  <2> QED BY <2>3, <2>6
<1>3. Within(more) = Within(told) \cup Range(held)
  BY <1>2 DEF Within
<1>4. \A text \in Range(more) : InOrder(text)
  BY <1>1, <1>2
<1>5. \E g : Flattens(g, more)
  <2>1. \E g : Flattens(g, told)
    BY DEF RobotSound
  <2> QED BY <1>0, <1>1, <2>1, FlattenExists
<1>6. ASSUME NEW g, Flattens(g, more)
      PROVE  Flat(g, more) \in Seq(1..n) /\ (errors = 0 => InOrder(Flat(g, more) \o <<>>))
  <2>1. PICK f : Continues(g, more, f, told, held)
    BY <1>0, <1>1, <1>6, FlattenMore
  <2>2. PICK s : s = Flat(f, told)
    OBVIOUS
  <2>3. s \in Seq(Nat) /\ s \in Seq(1..n) /\ (errors = 0 => InOrder(s \o held)) /\ Flat(g, more) = s \o held
    <3>1. Flattens(f, told)
      BY <2>1 DEF Continues
    <3>2. s \in Seq(Nat) /\ s \in Seq(1..n) /\ (errors = 0 => InOrder(s \o held))
      BY <2>2, <3>1, FlatIsTyped
    <3> QED BY <2>1, <2>2, <3>2 DEF Continues
  <2>4. held \in Seq(1..n)
    <3>1. Range(held) \subseteq 1..n
      BY DEF RobotSound
    <3>2. PICK T : T = 1..n
      OBVIOUS
    <3>3. \A i \in 1..Len(held) : held[i] \in T
      BY <1>1, <3>1, <3>2 DEF Range
    <3>4. Len(held) \in Nat /\ held = [i \in 1..Len(held) |-> held[i]]
      BY <1>1
    <3>5. held \in Seq(T)
      BY <3>3, <3>4
    <3> QED BY <3>2, <3>5
  <2>5. s \o held \in Seq(1..n) /\ s \o held \in Seq(Nat)
    BY <1>1, <2>3, <2>4
  <2>6. (s \o held) \o <<>> = s \o held
    BY <2>5, EmptyIsInOrder
  <2> QED BY <2>3, <2>5, <2>6
<1>7. 1..n = out \cup Range(<<>>) \cup Within(more) /\ 1..n = out \cup Range(held) \cup Within(more)
  <2>1. 1..n = out \cup Range(held) \cup Within(told)
    BY DEF RobotSound
  <2> QED BY <1>3, <2>1, EmptyIsInOrder
<1>8. RobotSound(<<>>, more, n, out, errors)
  BY <1>1, <1>2, <1>4, <1>5, <1>6, <1>7, EmptyIsInOrder DEF RobotSound
<1>9. errors # 0 => RobotSound(held, more, n, out, errors)
  BY <1>1, <1>2, <1>4, <1>5, <1>6, <1>7 DEF RobotSound
<1> QED BY <1>0, <1>8, <1>9

\* A text that is there already holds the events of the buffer.
LEMMA TextWasTold ==
    ASSUME NEW held, NEW told, NEW n, NEW out, NEW errors, RobotSound(held, told, n, out, errors), held \in Range(told)
    PROVE  RobotSound(<<>>, told, n, out, errors)
<1>1. RobotSound(<<>>, told, n, out \cup Range(held), errors)
  BY EventsAreLeftOut
<1>2. 1..n = out \cup Range(held) \cup Within(told) /\ Range(held) \subseteq Within(told)
  BY DEF RobotSound, Within
<1>3. 1..n = out \cup Range(<<>>) \cup Within(told)
  BY <1>2, EmptyIsInOrder
<1> QED BY <1>1, <1>3 DEF RobotSound

\* What a flush leaves, tells and reports.
LEMMA FlushKeeps ==
    ASSUME NEW held, NEW n, NEW out, RobotSound(held, texts, n, out, addErrors), NEW o \in Flush(held)
    PROVE  /\ RobotSound(o.left, o.texts, n, out, o.errors)
           /\ RobotSound(o.left, o.texts, n, out, o.errors + 1)
           /\ held = <<>> => o.left = <<>>
           /\ \/ o.ends = "returned" /\ (o.left = <<>> \/ (adapter = "wrapper" /\ ~inEpisode))
              \/ o.ends = "raised" /\ ~(adapter = "wrapper" /\ ~inEpisode)
<1>1. PICK t, e : t = texts /\ e = addErrors
  OBVIOUS
<1>2. RobotSound(held, t, n, out, e)
  BY <1>1
<1>3. PICK took : took = Took(held)
  OBVIOUS
<1>4. CASE held = <<>> \/ (adapter = "wrapper" /\ ~inEpisode)
  <2>1. o = [left |-> held, texts |-> t, ends |-> "returned", errors |-> e]
    BY <1>1, <1>4 DEF Flush, Outcome
  <2>2. RobotSound(held, t, n, out, e + 1)
    BY <1>2, ErrorsChangeNothing
  <2> QED BY <1>2, <1>4, <2>1, <2>2
<1>5. CASE ~(held = <<>> \/ (adapter = "wrapper" /\ ~inEpisode))
  <2>1. \/ o = [left |-> <<>>, texts |-> took, ends |-> "returned", errors |-> e]
        \/ o = [left |-> held, texts |-> t, ends |-> "raised", errors |-> e + 1]
        \/ o = [left |-> held, texts |-> took, ends |-> "raised", errors |-> e + 1]
    BY <1>1, <1>3, <1>5 DEF Flush, Outcome
  <2>2. RobotSound(held, t, n, out, e + 1) /\ e \in Nat /\ e + 1 # 0
    BY <1>2, ErrorsChangeNothing DEF RobotSound
  <2>3. RobotSound(<<>>, took, n, out, e) /\ RobotSound(held, took, n, out, e + 1)
    <3>1. CASE held \in Range(t)
      <4>1. took = t
        BY <1>1, <1>3, <3>1 DEF Took
      <4> QED BY <1>2, <2>2, <3>1, <4>1, TextWasTold
    <3>2. CASE held \notin Range(t)
      <4>1. took = Append(t, held)
        BY <1>1, <1>3, <3>2 DEF Took
      <4>2. RobotSound(<<>>, Append(t, held), n, out, e)
        BY <1>2, TextIsTold
      <4>3. RobotSound(held, Append(t, held), n, out, e + 1)
        <5>1. PICK f : f = e + 1
          OBVIOUS
        <5>2. RobotSound(held, t, n, out, f) /\ f # 0
          BY <2>2, <5>1
        <5>3. RobotSound(held, Append(t, held), n, out, f)
          BY <5>2, TextIsTold
        <5> QED BY <5>1, <5>3
      <4> QED BY <4>1, <4>2, <4>3
    <3> QED BY <3>1, <3>2
  <2>4. RobotSound(<<>>, took, n, out, e + 1)
    BY <2>3, ErrorsChangeNothing
  <2>5. RobotSound(held, t, n, out, (e + 1) + 1) /\ RobotSound(held, took, n, out, (e + 1) + 1)
    <3>1. PICK f : f = e + 1
      OBVIOUS
    <3>2. RobotSound(held, t, n, out, f) /\ RobotSound(held, took, n, out, f)
      BY <2>2, <2>3, <3>1
    <3>3. RobotSound(held, t, n, out, f + 1) /\ RobotSound(held, took, n, out, f + 1)
      BY <3>2, ErrorsChangeNothing
    <3> QED BY <3>1, <3>3
  <2> QED BY <1>5, <2>1, <2>2, <2>3, <2>4, <2>5
<1> QED BY <1>4, <1>5

--------------------------------------------------------------------------------
(* The robots' events *)

RobotInv ==
    /\ adapter \in {"wrapper", "logger", "dora", "copper"} /\ inEpisode \in BOOLEAN
    /\ adapter \in {"dora", "copper"} => buffer = <<>>
    /\ adapter = "wrapper" /\ ~inEpisode => buffer = <<>>
    /\ RobotSound(buffer, texts, logged, dropped, addErrors)

LEMMA RobotBegins == RobotInit => RobotInv
<1> SUFFICES ASSUME RobotInit PROVE RobotInv
  OBVIOUS
<1>1. \A g : Flat(g, <<>>) = <<>>
  BY EmptyFlattens
<1>2. \E g : Flattens(g, <<>>)
  BY EmptyFlattens
<1>3. Range(<<>>) = {} /\ Within(<<>>) = {} /\ 1..0 = {} /\ <<>> \in Seq(Nat) /\ <<>> \in Seq(Seq(Nat)) /\ <<>> \in Seq(1..0)
  BY EmptyIsInOrder DEF Within
<1>4. InOrder(<<>>) /\ InOrder(<<>> \o <<>>)
  BY EmptyIsInOrder
<1>5. RobotSound(<<>>, <<>>, 0, {}, 0)
  BY <1>1, <1>2, <1>3, <1>4 DEF RobotSound
<1> QED BY <1>5 DEF RobotInit, RobotInv

LEMMA RobotSteps == RobotInv /\ [RobotNext]_robotVars => RobotInv'
<1> SUFFICES ASSUME RobotInv, [RobotNext]_robotVars PROVE RobotInv'
  OBVIOUS
<1> USE DEF RobotInv
<1>1. PICK b, t, n, d, e : b = buffer /\ t = texts /\ n = logged /\ d = dropped /\ e = addErrors
  OBVIOUS
<1>2. RobotSound(b, t, n, d, e) /\ RobotSound(<<>>, t, n, d \cup Range(b), e) /\ RobotSound(b, t, n, d, e + 1)
  BY <1>1, EventsAreLeftOut, ErrorsChangeNothing
<1>3. RobotSound(Append(b, n + 1), t, n + 1, d, e)
  BY <1>2, EventIsLogged
<1>4. ASSUME NEW o \in Flush(buffer)
      PROVE  /\ RobotSound(o.left, o.texts, n, d, o.errors) /\ RobotSound(o.left, o.texts, n, d, o.errors + 1)
             /\ b = <<>> => o.left = <<>>
             /\ \/ o.ends = "returned" /\ (o.left = <<>> \/ (adapter = "wrapper" /\ ~inEpisode))
                \/ o.ends = "raised" /\ ~(adapter = "wrapper" /\ ~inEpisode)
  <2>1. RobotSound(b, texts, n, d, addErrors) /\ o \in Flush(b)
    BY <1>1, <1>2
  <2> QED BY <2>1, FlushKeeps
<1>5. CASE UNCHANGED robotVars
  BY <1>5 DEF robotVars
<1>6. CASE Connect
  <2>1. RobotSound(buffer', texts', logged', dropped', addErrors')
    BY <1>1, <1>2, <1>6 DEF Connect
  <2> QED BY <1>6, <2>1 DEF Connect
<1>7. CASE Disconnect
  <2>1. PICK o \in Flush(buffer) :
          \/ Gives(o) /\ inEpisode' = (inEpisode /\ o.ends = "raised")
          \/ o.ends = "returned" /\ RobotRaises /\ buffer' = o.left /\ texts' = o.texts /\ UNCHANGED inEpisode
    BY <1>7 DEF Disconnect
  <2>2. adapter = "wrapper" /\ UNCHANGED <<adapter, logged, dropped>>
    BY <1>7 DEF Disconnect
  <2>3. o.ends = "returned" => o.errors = addErrors
    BY DEF Flush, Outcome
  <2>4. RobotSound(buffer', texts', logged', dropped', addErrors')
    BY <1>1, <1>4, <2>1, <2>2, <2>3 DEF Gives, RobotRaises
  <2>5. inEpisode' \in BOOLEAN /\ (~inEpisode' => buffer' = <<>>)
    BY <1>1, <1>4, <2>1, <2>2 DEF Gives
  <2> QED BY <2>2, <2>4, <2>5
<1>8. CASE LogEvent
  <2>1. PICK h : h = Append(buffer, logged + 1)
    OBVIOUS
  <2>2. RobotSound(h, texts, n + 1, d, addErrors)
    BY <1>1, <1>3, <2>1
  <2>3. RobotSound(buffer', texts', n + 1, d, addErrors')
    <3>1. CASE Len(h) >= BufferSize
      <4>1. PICK o \in Flush(h) : Gives(o)
        BY <1>8, <2>1, <3>1 DEF LogEvent, Log
      <4>2. RobotSound(o.left, o.texts, n + 1, d, o.errors)
        <5>1. PICK m : m = n + 1
          OBVIOUS
        <5>2. RobotSound(h, texts, m, d, addErrors)
          BY <2>2, <5>1
        <5>3. RobotSound(o.left, o.texts, m, d, o.errors)
          BY <5>2, FlushKeeps
        <5> QED BY <5>1, <5>3
      <4> QED BY <4>1, <4>2 DEF Gives
    <3>2. CASE ~(Len(h) >= BufferSize)
      <4>1. buffer' = h /\ UNCHANGED <<texts, addErrors>>
        BY <1>8, <2>1, <3>2 DEF LogEvent, Log
      <4> QED BY <2>2, <4>1
    <3> QED BY <3>1, <3>2
  <2>4. logged' = n + 1 /\ dropped' = d /\ adapter = "wrapper" /\ inEpisode /\ UNCHANGED <<adapter, inEpisode>>
    BY <1>1, <1>8 DEF LogEvent
  <2>5. RobotSound(buffer', texts', logged', dropped', addErrors')
    BY <2>3, <2>4
  <2> QED BY <2>4, <2>5
<1>9. CASE StartEpisode
  <2>1. PICK o \in Flush(buffer) :
          /\ o.errors <= MaxAddErrors /\ texts' = o.texts /\ addErrors' = o.errors
          /\ IF o.ends = "raised" THEN buffer' = o.left /\ UNCHANGED inEpisode ELSE buffer' = <<>> /\ inEpisode' = TRUE
    BY <1>9 DEF StartEpisode
  <2>2. adapter = "wrapper" /\ UNCHANGED <<adapter, logged, dropped>>
    BY <1>9 DEF StartEpisode
  <2>3. o.ends # "raised" => o.left = <<>>
    BY <1>1, <1>4
  <2>4. RobotSound(buffer', texts', logged', dropped', addErrors')
    BY <1>1, <1>4, <2>1, <2>2, <2>3
  <2>5. inEpisode' \in BOOLEAN /\ (~inEpisode' => buffer' = <<>>)
    BY <1>1, <1>4, <2>1, <2>2
  <2> QED BY <2>2, <2>4, <2>5
<1>10. CASE EndEpisode
  <2>1. PICK o \in Flush(buffer) : Gives(o)
    BY <1>10 DEF EndEpisode
  <2>2. adapter = "wrapper" /\ UNCHANGED <<adapter, inEpisode, logged, dropped>>
    BY <1>10 DEF EndEpisode
  <2>3. RobotSound(buffer', texts', logged', dropped', addErrors')
    BY <1>1, <1>4, <2>1, <2>2 DEF Gives
  <2>4. ~inEpisode => buffer' = <<>>
    BY <1>1, <1>4, <2>1, <2>2 DEF Gives
  <2> QED BY <2>2, <2>3, <2>4
<1>11. CASE LoggerBegin
  <2>1. /\ adapter = "logger" /\ inEpisode' = TRUE /\ dropped' = d \cup Range(b)
        /\ UNCHANGED <<adapter, texts, addErrors>>
        /\ (buffer' = <<>> /\ logged' = n) \/ (buffer' = <<n + 1>> /\ logged' = n + 1)
    BY <1>1, <1>11 DEF LoggerBegin
  <2>2. RobotSound(<<n + 1>>, t, n + 1, d \cup Range(b), e)
    <3>1. Append(<<>>, n + 1) = <<n + 1>>
      OBVIOUS
    <3>2. RobotSound(Append(<<>>, n + 1), t, n + 1, d \cup Range(b), e)
      BY <1>2, EventIsLogged
    <3> QED BY <3>1, <3>2
  <2>3. RobotSound(buffer', texts', logged', dropped', addErrors')
    BY <1>1, <1>2, <2>1, <2>2
  <2> QED BY <2>1, <2>3
<1>12. CASE LoggerRecord
  <2>1. /\ adapter = "logger" /\ logged' = n + 1 /\ buffer' = Append(b, n + 1)
        /\ UNCHANGED <<adapter, inEpisode, texts, dropped, addErrors>>
    BY <1>1, <1>12 DEF LoggerRecord
  <2>2. RobotSound(buffer', texts', logged', dropped', addErrors')
    BY <1>1, <1>3, <2>1
  <2> QED BY <2>1, <2>2
<1>13. CASE LoggerEnd
  <2>1. PICK o \in Flush(buffer) : Gives(o) /\ inEpisode' = (inEpisode /\ o.ends = "raised")
    BY <1>13 DEF LoggerEnd
  <2>2. adapter = "logger" /\ UNCHANGED <<adapter, logged, dropped>>
    BY <1>13 DEF LoggerEnd
  <2>3. RobotSound(buffer', texts', logged', dropped', addErrors')
    BY <1>1, <1>4, <2>1, <2>2 DEF Gives
  <2> QED BY <2>1, <2>2, <2>3
<1>14. CASE DoraEvent \/ CopperEvent
  <2>1. /\ adapter \in {"dora", "copper"} /\ buffer = <<>> /\ logged' = n + 1 /\ texts' = Append(t, <<n + 1>>)
        /\ UNCHANGED <<adapter, inEpisode, buffer, dropped, addErrors>>
    BY <1>1, <1>14 DEF DoraEvent, CopperEvent, Ingest
  <2>2. Append(<<>>, n + 1) = <<n + 1>> /\ b = <<>>
    BY <1>1, <2>1
  <2>3. PICK h, m : h = <<n + 1>> /\ m = n + 1
    OBVIOUS
  <2>4. RobotSound(h, t, m, d, e)
    BY <1>3, <2>2, <2>3
  <2>5. RobotSound(<<>>, Append(t, h), m, d, e)
    BY <2>4, TextIsTold
  <2>6. RobotSound(buffer', texts', logged', dropped', addErrors')
    BY <1>1, <2>1, <2>3, <2>5
  <2> QED BY <2>1, <2>6
<1>15. CASE RobotDies
  <2>1. RobotSound(buffer', texts', logged', dropped', addErrors')
    BY <1>1, <1>2, <1>15 DEF RobotDies
  <2> QED BY <1>15, <2>1 DEF RobotDies
<1> QED BY <1>5, <1>6, <1>7, <1>8, <1>9, <1>10, <1>11, <1>12, <1>13, <1>14, <1>15 DEF RobotNext

\* An event of a robot is in the buffer, in a text that the store took, or was in the buffer when connect(),
\* begin() or the end of the process emptied it; without an error each is in one text, and the texts are in order.
THEOREM RobotsLoseNothing == RobotSpec => []LoggedIsStored
<1>1. ASSUME RobotInv PROVE LoggedIsStored
  <2>1. PICK b, t, n, d, e : b = buffer /\ t = texts /\ n = logged /\ d = dropped /\ e = addErrors
    OBVIOUS
  <2>2. RobotSound(b, t, n, d, e)
    BY <1>1, <2>1 DEF RobotInv
  <2>3. PICK g : Flattens(g, t) /\ FlattenSeq(t) = Flat(g, t)
    <3>1. t \in Seq(Seq(Nat)) /\ \E g : Flattens(g, t)
      BY <2>2 DEF RobotSound
    <3> QED BY <3>1, FlatIsFlattened
  <2>4. e = 0 => InOrder(FlattenSeq(t) \o b)
    BY <2>2, <2>3 DEF RobotSound
  <2>5. 1..n = d \cup Range(b) \cup Within(t) /\ InOrder(b) /\ \A text \in Range(t) : InOrder(text)
    BY <2>2 DEF RobotSound
  <2> QED BY <2>1, <2>4, <2>5 DEF LoggedIsStored, InOrder, Within
<1> QED BY <1>1, RobotBegins, RobotSteps, PTL DEF RobotSpec

--------------------------------------------------------------------------------
(* Batches of embeddings: what is sorted *)

\* The values of a sequence are finitely many.
LEMMA ValuesAreFinite ==
    ASSUME NEW n \in Nat, NEW f, DOMAIN f = 1..n
    PROVE  IsFiniteSet(Range(f))
<1>1. PICK g : g = [i \in 1..n |-> f[i]]
  OBVIOUS
<1>2. g \in Surjection(1..n, Range(f))
  BY <1>1 DEF Surjection, Range
<1>3. IsFiniteSet(1..n)
  BY FS_Interval
<1> QED BY <1>2, <1>3, FS_Surjection

\* n numbers in order, none above n, are 1 to n.
LEMMA AllInOrder ==
    ASSUME NEW n \in Nat, NEW s \in Seq(Nat), Len(s) = n, InOrder(s), \A i \in 1..n : s[i] \in 1..n
    PROVE  \A i \in 1..n : s[i] = i
<1>1. \A i, j \in 1..n : i < j => s[i] < s[j]
  <2>1. DOMAIN s = 1..n
    OBVIOUS
  <2> QED BY <2>1 DEF InOrder
<1>2. \A i \in 1..n : s[i] >= i
  <2> DEFINE T == {i \in 1..n : ~(s[i] >= i)}
  <2>1. SUFFICES ASSUME T # {} PROVE FALSE
    OBVIOUS
  <2>2. T \subseteq Nat
    OBVIOUS
  <2>3. PICK t \in T : \A y \in T : ~(<<y, t>> \in OpToRel(<, Nat))
    <3> HIDE DEF T
    <3> QED BY <2>1, <2>2, WFMin, NatLessThanWellFounded
  <2>a. \A y \in T : ~(y < t)
    <3> HIDE DEF T
    <3> QED BY <2>2, <2>3 DEF OpToRel
  <2>4. t \in 1..n /\ s[t] < t /\ s[t] \in 1..n
    OBVIOUS
  <2>5. t - 1 \in 1..n
    BY <2>4
  <2>6. s[t - 1] \in 1..n /\ s[t - 1] < s[t]
    BY <1>1, <2>4, <2>5
  <2>7. t - 1 \in T
    BY <2>4, <2>5, <2>6
  <2> QED BY <2>a, <2>4, <2>5, <2>7
<1>3. \A i \in 1..n : s[i] <= i
  <2> DEFINE T == {m \in 0..(n - 1) : ~(s[n - m] <= n - m)}
  <2>1. SUFFICES ASSUME T # {} PROVE FALSE
    <3>1. ASSUME T = {}, NEW i \in 1..n PROVE s[i] <= i
      <4>1. n - i \in 0..(n - 1) /\ n - (n - i) = i
        OBVIOUS
      <4> QED BY <3>1, <4>1
    <3> QED BY <3>1
  <2>2. T \subseteq Nat
    OBVIOUS
  <2>3. PICK m \in T : \A y \in T : ~(<<y, m>> \in OpToRel(<, Nat))
    <3> HIDE DEF T
    <3> QED BY <2>1, <2>2, WFMin, NatLessThanWellFounded
  <2>a. \A y \in T : ~(y < m)
    <3> HIDE DEF T
    <3> QED BY <2>2, <2>3 DEF OpToRel
  <2>4. m \in 0..(n - 1) /\ n - m \in 1..n /\ s[n - m] > n - m /\ s[n - m] \in 1..n
    OBVIOUS
  <2>5. m # 0 /\ m - 1 \in 0..(n - 1) /\ n - (m - 1) \in 1..n /\ n - m < n - (m - 1)
    BY <2>4
  <2>6. s[n - (m - 1)] \in 1..n /\ s[n - m] < s[n - (m - 1)]
    BY <1>1, <2>4, <2>5
  <2>7. m - 1 \in T
    BY <2>4, <2>5, <2>6
  <2>8. m - 1 < m
    BY <2>4
  <2> HIDE DEF T
  <2> QED BY <2>a, <2>7, <2>8
<1>4. \A i \in 1..n : s[i] \in Nat
  OBVIOUS
<1> QED BY <1>2, <1>3, <1>4

--------------------------------------------------------------------------------
(* Batches of embeddings: flattening *)

LEMMA AllFlatten == \A s \in Seq(Seq(Nat)) : \E g : Flattens(g, s)
<1> DEFINE T == {l \in Nat : \E s \in Seq(Seq(Nat)) : Len(s) = l /\ ~ \E g : Flattens(g, s)}
<1>1. SUFFICES ASSUME T # {} PROVE FALSE
  <2>1. ASSUME NEW s \in Seq(Seq(Nat)), T = {} PROVE \E g : Flattens(g, s)
    <3>1. Len(s) \in Nat /\ Len(s) \notin T
      BY <2>1
    <3> QED BY <3>1
  <2> HIDE DEF T
  <2> QED BY <2>1
<1>2. T \subseteq Nat
  OBVIOUS
<1>3. PICK t \in T : \A y \in T : ~(<<y, t>> \in OpToRel(<, Nat))
  <2> HIDE DEF T
  <2> QED BY <1>1, <1>2, WFMin, NatLessThanWellFounded
<1>4. \A y \in T : ~(y < t)
  <2> HIDE DEF T
  <2> QED BY <1>2, <1>3 DEF OpToRel
<1>5. t \in Nat
  OBVIOUS
<1>6. PICK s \in Seq(Seq(Nat)) : Len(s) = t /\ ~ \E g : Flattens(g, s)
  OBVIOUS
<1>7. CASE t = 0
  <2>1. s = <<>>
    BY <1>6, <1>7
  <2> QED BY <1>6, <2>1, EmptyFlattens
<1>8. CASE t # 0
  <2>1. t - 1 \in Nat /\ t - 1 < t
    BY <1>5, <1>8
  <2>2. PICK f : f = [i \in 1..(t - 1) |-> s[i]]
    OBVIOUS
  <2>3. \A i \in 1..(t - 1) : s[i] \in Seq(Nat)
    BY <1>6, <2>1
  <2>4. f \in Seq(Seq(Nat)) /\ Len(f) = t - 1
    <3>1. PICK S : S = Seq(Nat)
      OBVIOUS
    <3>2. \A i \in 1..(t - 1) : s[i] \in S
      BY <2>3, <3>1
    <3>3. f \in Seq(S) /\ Len(f) = t - 1
      BY <2>1, <2>2, <3>2
    <3> QED BY <3>1, <3>3
  <2>5. s[t] \in Seq(Nat)
    BY <1>6, <2>1
  <2>6. s = Append(f, s[t])
    <3>1. PICK S : S = Seq(Nat)
      OBVIOUS
    <3>2. s \in Seq(S) /\ f \in Seq(S) /\ s[t] \in S
      BY <1>6, <2>4, <2>5, <3>1
    <3>3. Len(Append(f, s[t])) = t /\ \A i \in 1..t : Append(f, s[t])[i] = s[i]
      BY <2>1, <2>2, <2>4, <3>2
    <3>4. Append(f, s[t]) \in Seq(S)
      BY <3>2
    <3> QED BY <1>6, <3>2, <3>3, <3>4
  <2>7. t - 1 \notin T
    <3> HIDE DEF T
    <3> QED BY <1>4, <2>1
  <2>8. \E g : Flattens(g, f)
    BY <2>1, <2>4, <2>7
  <2> QED BY <1>6, <2>4, <2>5, <2>6, <2>8, FlattenExists
<1> QED BY <1>7, <1>8

\* What is greater than all of a sequence, after it.
LEMMA TwoInOrder ==
    ASSUME NEW s \in Seq(Nat), NEW t \in Seq(Nat), NEW m \in Nat, InOrder(s), InOrder(t),
           \A x \in Range(s) : x <= m, \A x \in Range(t) : m < x
    PROVE  s \o t \in Seq(Nat) /\ InOrder(s \o t) /\ Range(s \o t) = Range(s) \cup Range(t)
<1>1. PICK l \in Nat, k \in Nat : l = Len(s) /\ k = Len(t)
  OBVIOUS
<1>2. PICK r : r = s \o t
  OBVIOUS
<1>3. /\ DOMAIN s = 1..l /\ DOMAIN t = 1..k /\ DOMAIN r = 1..(l + k) /\ r \in Seq(Nat)
      /\ (\A i \in 1..l : r[i] = s[i]) /\ \A i \in 1..k : r[l + i] = t[i]
  BY <1>1, <1>2
<1>4. (\A i \in 1..l : s[i] <= m /\ s[i] \in Nat) /\ \A i \in 1..k : m < t[i] /\ t[i] \in Nat
  <2>1. (\A i \in 1..l : s[i] \in Nat) /\ \A i \in 1..k : t[i] \in Nat
    BY <1>1
  <2>2. (\A i \in 1..l : s[i] \in Range(s)) /\ \A i \in 1..k : t[i] \in Range(t)
    BY <1>3 DEF Range
  <2> QED BY <2>1, <2>2
<1>5. \A i \in 1..(l + k) : i \in 1..l \/ \E h \in 1..k : i = l + h
  <2>1. ASSUME NEW i \in 1..(l + k), i \notin 1..l PROVE i - l \in 1..k /\ i = l + (i - l)
    BY <1>1, <2>1
  <2> QED BY <2>1
<1>6. InOrder(r)
  <2>1. ASSUME NEW i \in 1..(l + k), NEW j \in 1..(l + k), i < j PROVE r[i] < r[j]
    <3>1. CASE i \in 1..l /\ j \in 1..l
      BY <1>3, <2>1, <3>1 DEF InOrder
    <3>2. CASE i \in 1..l /\ j \notin 1..l
      <4>1. PICK h \in 1..k : j = l + h
        BY <1>5, <3>2
      <4>2. r[i] = s[i] /\ r[j] = t[h]
        BY <1>3, <3>2, <4>1
      <4>3. s[i] \in Nat /\ t[h] \in Nat /\ s[i] <= m /\ m < t[h]
        BY <1>4, <3>2
      <4> QED BY <4>2, <4>3
    <3>3. CASE i \notin 1..l
      <4>1. PICK g \in 1..k : i = l + g
        BY <1>5, <3>3
      <4>2. PICK h \in 1..k : j = l + h
        <5>1. j \notin 1..l
          BY <1>1, <2>1, <3>3
        <5> QED BY <1>5, <5>1
      <4>3. g < h
        BY <1>1, <2>1, <4>1, <4>2
      <4>4. t[g] < t[h]
        BY <1>3, <4>3 DEF InOrder
      <4> QED BY <1>3, <4>1, <4>2, <4>4
    <3> QED BY <3>1, <3>2, <3>3
  <2> QED BY <1>3, <2>1 DEF InOrder
<1>7. Range(r) = Range(s) \cup Range(t)
  <2>1. Range(r) = {r[i] : i \in 1..(l + k)} /\ Range(s) = {s[i] : i \in 1..l} /\ Range(t) = {t[i] : i \in 1..k}
    BY <1>3 DEF Range
  <2>2. ASSUME NEW x \in Range(r) PROVE x \in Range(s) \cup Range(t)
    <3>1. PICK i \in 1..(l + k) : x = r[i]
      BY <2>1
    <3>2. CASE i \in 1..l
      BY <1>3, <2>1, <3>1, <3>2
    <3>3. CASE i \notin 1..l
      <4>1. PICK g \in 1..k : i = l + g
        BY <1>5, <3>3
      <4> QED BY <1>3, <2>1, <3>1, <4>1
    <3> QED BY <3>2, <3>3
  <2>3. ASSUME NEW i \in 1..l PROVE s[i] \in Range(r)
    <3>1. i \in 1..(l + k)
      BY <1>1
    <3> QED BY <1>3, <2>1, <3>1
  <2>4. ASSUME NEW i \in 1..k PROVE t[i] \in Range(r)
    <3>1. l + i \in 1..(l + k)
      BY <1>1
    <3> QED BY <1>3, <2>1, <3>1
  <2> QED BY <2>1, <2>2, <2>3, <2>4
<1> QED BY <1>2, <1>3, <1>6, <1>7

\* Pieces in order, each above the ones before it, are flattened in order.
Piece(s, low, high, n) == s \in Seq(Nat) /\ InOrder(s) /\ \A x \in Range(s) : low < x /\ x <= high /\ x <= n

LEMMA PiecesInOrder ==
    ASSUME NEW n \in Nat, NEW m \in Nat, NEW s \in Seq(Seq(Nat)), m = Len(s),
           NEW low \in [1..m -> Nat], NEW high \in [1..m -> Nat], \A i \in 1..m : Piece(s[i], low[i], high[i], n),
           \A i \in 1..m : low[i] <= high[i], \A i, j \in 1..m : i < j => high[i] <= low[j],
           NEW g, Flattens(g, s)
    PROVE  Flat(g, s) \in Seq(Nat) /\ InOrder(Flat(g, s)) /\ \A x \in Range(Flat(g, s)) : x \in 1..n
<1>1. \A i \in 1..m : g[i] = IF i = 1 THEN s[i] ELSE g[i - 1] \o s[i]
  BY DEF Flattens
<1> DEFINE Good(i) == Piece(g[i], 0, high[i], n)
<1>2. ASSUME NEW i \in 1..m, i # 1 => Good(i - 1) PROVE Good(i)
  <2>1. CASE i = 1
    <3>1. g[i] = s[i] /\ s[i] \in Seq(Nat) /\ InOrder(s[i]) /\ low[i] \in Nat /\ high[i] \in Nat
      BY <1>1, <2>1 DEF Piece
    <3>2. \A x \in Range(s[i]) : low[i] < x /\ x <= high[i] /\ x <= n
      BY DEF Piece
    <3>3. \A x \in Range(s[i]) : x \in Nat
      <4>1. \A j \in DOMAIN s[i] : s[i][j] \in Nat
        BY <3>1
      <4> QED BY <4>1 DEF Range
    <3>4. \A x \in Range(s[i]) : 0 < x /\ x <= high[i] /\ x <= n
      BY <3>1, <3>2, <3>3
    <3> QED BY <3>1, <3>4 DEF Piece
  <2>2. CASE i # 1
    <3>1. i - 1 \in 1..m /\ i - 1 < i
      BY <2>2
    <3>2. PICK a, b, h : a = g[i - 1] /\ b = s[i] /\ h = high[i - 1]
      OBVIOUS
    <3>3. /\ a \in Seq(Nat) /\ InOrder(a) /\ (\A x \in Range(a) : 0 < x /\ x <= h /\ x <= n)
          /\ b \in Seq(Nat) /\ InOrder(b) /\ \A x \in Range(b) : low[i] < x /\ x <= high[i] /\ x <= n
      BY <1>2, <2>2, <3>2 DEF Piece
    <3>4. h \in Nat /\ high[i] \in Nat /\ low[i] \in Nat /\ h <= low[i] /\ low[i] <= high[i]
      BY <3>1, <3>2
    <3>a. (\A x \in Range(a) : x \in Nat) /\ \A x \in Range(b) : x \in Nat
      <4>1. (\A j \in DOMAIN a : a[j] \in Nat) /\ \A j \in DOMAIN b : b[j] \in Nat
        BY <3>3
      <4> QED BY <4>1 DEF Range
    <3>5. a \o b \in Seq(Nat) /\ InOrder(a \o b) /\ Range(a \o b) = Range(a) \cup Range(b)
      <4>1. (\A x \in Range(a) : x <= h) /\ \A x \in Range(b) : h < x
        BY <3>3, <3>4, <3>a, SMTT(30)
      <4> QED BY <3>3, <3>4, <4>1, TwoInOrder
    <3>6. \A x \in Range(a \o b) : 0 < x /\ x <= high[i] /\ x <= n
      BY <3>3, <3>4, <3>5, <3>a
    <3>7. g[i] = a \o b
      BY <1>1, <2>2, <3>2
    <3> QED BY <3>5, <3>6, <3>7 DEF Piece
  <2> QED BY <2>1, <2>2
<1>3. \A i \in 1..m : Good(i)
  <2> DEFINE T == {i \in 1..m : ~Good(i)}
  <2>1. SUFFICES ASSUME T # {} PROVE FALSE
    <3> HIDE DEF Good
    <3> QED OBVIOUS
  <2>2. T \subseteq Nat
    OBVIOUS
  <2>3. PICK t \in T : \A y \in T : ~(<<y, t>> \in OpToRel(<, Nat))
    <3> HIDE DEF T
    <3> QED BY <2>1, <2>2, WFMin, NatLessThanWellFounded
  <2>4. \A y \in T : ~(y < t)
    <3> HIDE DEF T
    <3> QED BY <2>2, <2>3 DEF OpToRel
  <2> HIDE DEF Good
  <2>5. t \in 1..m /\ ~Good(t)
    OBVIOUS
  <2>6. t # 1 /\ ~Good(t - 1)
    BY <1>2, <2>5
  <2>7. t - 1 \in T /\ t - 1 < t
    BY <2>5, <2>6
  <2> HIDE DEF T
  <2> QED BY <2>4, <2>7
<1>4. CASE m = 0
  <2>1. Flat(g, s) = <<>>
    BY <1>4 DEF Flat
  <2> QED BY <2>1, EmptyIsInOrder
<1>5. CASE m # 0
  <2>1. Flat(g, s) = g[m] /\ Good(m)
    BY <1>3, <1>5 DEF Flat
  <2>2. g[m] \in Seq(Nat) /\ InOrder(g[m]) /\ \A x \in Range(g[m]) : 0 < x /\ x <= n
    BY <2>1 DEF Piece
  <2>3. \A x \in Range(g[m]) : x \in Nat
    <3>1. \A j \in DOMAIN g[m] : g[m][j] \in Nat
      BY <2>2
    <3> QED BY <3>1 DEF Range
  <2>4. \A x \in Range(g[m]) : x \in 1..n
    BY <2>2, <2>3
  <2> QED BY <2>1, <2>2, <2>4
<1> QED BY <1>4, <1>5

--------------------------------------------------------------------------------
(* Batches of embeddings: the answers *)

BatchPiece(v, b) == Piece(v, (b - 1) * ChunkSize, b * ChunkSize, Texts)

LEMMA BatchesAreIntervals ==
    ASSUME NEW b \in Nat \ {0}
    PROVE  /\ (b - 1) * ChunkSize \in Nat /\ b * ChunkSize \in Nat /\ (b - 1) * ChunkSize <= b * ChunkSize
           /\ \E d \in Int : DOMAIN Batch(b) = 1..d
           /\ \A i \in DOMAIN Batch(b) :
                 /\ i \in Nat /\ Batch(b)[i] = (b - 1) * ChunkSize + i
                 /\ (b - 1) * ChunkSize + i <= b * ChunkSize /\ (b - 1) * ChunkSize + i <= Texts
<1> USE EmbeddingAssumption
<1>1. (b - 1) * ChunkSize \in Nat /\ b * ChunkSize \in Nat /\ (b - 1) * ChunkSize <= b * ChunkSize
  OBVIOUS
<1>2. PICK lo \in Nat, hi \in Nat : lo = (b - 1) * ChunkSize /\ hi = b * ChunkSize
  BY <1>1
<1>3. PICK n \in Nat : n = (IF hi < Texts THEN hi ELSE Texts)
  OBVIOUS
<1>4. PICK all : all = [t \in 1..Texts |-> t]
  OBVIOUS
<1>5. Batch(b) = SubSeq(all, lo + 1, n)
  BY <1>2, <1>3, <1>4 DEF Batch
<1>6. SubSeq(all, lo + 1, n) = [i \in 1..(1 + n - (lo + 1)) |-> all[i + (lo + 1) - 1]]
  OBVIOUS
<1>7. DOMAIN Batch(b) = 1..(n - lo)
  BY <1>5, <1>6
<1>8. ASSUME NEW i \in 1..(n - lo)
      PROVE  i \in Nat /\ Batch(b)[i] = lo + i /\ lo + i <= hi /\ lo + i <= Texts
  <2>1. i + (lo + 1) - 1 = lo + i /\ lo + i \in 1..Texts /\ lo + i <= hi /\ i \in 1..(1 + n - (lo + 1))
    BY <1>3
  <2>2. all[lo + i] = lo + i
    BY <1>4, <2>1
  <2> QED BY <1>5, <1>6, <2>1, <2>2
<1> QED BY <1>1, <1>2, <1>7, <1>8

\* What a batch is answered with are vectors of its own texts, in their order.
LEMMA AnswersAreInOrder ==
    ASSUME NEW b \in Nat \ {0}, NEW data \in Replies(b)
    PROVE  BatchPiece(ByIndex(data), b)
<1>1. PICK lo, hi : lo = (b - 1) * ChunkSize /\ hi = b * ChunkSize
  OBVIOUS
<1>2. PICK d \in Int : DOMAIN Batch(b) = 1..d
  BY BatchesAreIntervals
<1>3. /\ lo \in Nat /\ hi \in Nat
      /\ \A i \in 1..d : i \in Nat /\ Batch(b)[i] = lo + i /\ lo + i <= hi /\ lo + i <= Texts
  BY <1>1, <1>2, BatchesAreIntervals
<1>4. PICK E : E = Entries(b)
  OBVIOUS
<1>5. E = {[index |-> i, vector |-> Batch(b)[i]] : i \in 1..d}
  BY <1>2, <1>4 DEF Entries
<1>6. PICK S : S = Range(data)
  OBVIOUS
<1>7. S \in SUBSET E
  <2>1. PICK some \in SUBSET E : data \in SetToSeqs(some)
    BY <1>4 DEF Replies
  <2>2. data \in [1..Cardinality(some) -> some]
    BY <2>1 DEF SetToSeqs
  <2> QED BY <1>6, <2>1, <2>2 DEF Range
<1>8. IsFiniteSet(S)
  <2>1. PICK f : f = [i \in 1..d |-> [index |-> i, vector |-> Batch(b)[i]]]
    OBVIOUS
  <2>2. f \in Surjection(1..d, E)
    BY <1>5, <2>1 DEF Surjection
  <2>3. IsFiniteSet(1..d)
    BY FS_Interval
  <2>4. IsFiniteSet(E)
    BY <2>2, <2>3, FS_Surjection
  <2> QED BY <1>7, <2>4, FS_Subset
<1>9. PICK k : k = [x \in S |-> x.index]
  OBVIOUS
<1>10. \A x \in S : k[x] = x.index /\ x.index \in 1..d /\ x = [index |-> x.index, vector |-> Batch(b)[x.index]]
  BY <1>5, <1>7, <1>9
<1>11. k \in [S -> Nat] /\ \A x, y \in S : k[x] = k[y] => x = y
  <2>1. \A x \in S : x.index \in Nat
    BY <1>3, <1>10
  <2>2. \A x, y \in S : k[x] = k[y] => x = y
    BY <1>10
  <2> QED BY <1>9, <2>1, <2>2
<1>12. \E s \in SetToSeqs(S) : \A i, j \in DOMAIN s : i < j => s[i].index < s[j].index
  <2>1. PICK s \in SetToSeqs(S) : \A i, j \in DOMAIN s : i < j => k[s[i]] < k[s[j]]
    BY <1>8, <1>11, SortingExists
  <2>2. \A i \in DOMAIN s : s[i] \in S
    BY DEF SetToSeqs
  <2>3. \A i, j \in DOMAIN s : i < j => s[i].index < s[j].index
    BY <1>10, <2>1, <2>2
  <2> QED BY <2>3
<1>13. PICK s : s = Sorted(S, LAMBDA x, y : x.index < y.index)
  OBVIOUS
<1>14. s \in SetToSeqs(S) /\ \A i, j \in DOMAIN s : i < j => s[i].index < s[j].index
  BY <1>12, <1>13 DEF Sorted
<1>15. PICK n \in Nat : n = Cardinality(S)
  BY <1>8, FS_CardinalityType
<1>16. s \in [1..n -> S]
  BY <1>14, <1>15 DEF SetToSeqs
<1>17. PICK v : v = ByIndex(data)
  OBVIOUS
<1>18. v = [i \in 1..n |-> s[i].vector]
  BY <1>6, <1>13, <1>16, <1>17 DEF ByIndex
<1>19. ASSUME NEW i \in 1..n PROVE s[i].index \in 1..d /\ v[i] = lo + s[i].index /\ v[i] \in Nat /\ lo < v[i] /\ v[i] <= hi /\ v[i] <= Texts
  <2>1. s[i] \in S
    BY <1>16
  <2>2. s[i].index \in 1..d /\ s[i].vector = Batch(b)[s[i].index]
    BY <1>10, <2>1
  <2>3. PICK x \in 1..d : x = s[i].index
    BY <2>2
  <2>4. v[i] = lo + x /\ x \in Nat /\ lo + x <= hi /\ lo + x <= Texts
    BY <1>3, <1>18, <2>2, <2>3
  <2>5. 0 < x
    OBVIOUS
  <2> QED BY <1>3, <2>3, <2>4, <2>5
<1>20. v \in Seq(Nat) /\ DOMAIN v = 1..n
  <2>1. \A i \in 1..n : v[i] \in Nat
    BY <1>19
  <2> QED BY <1>18, <2>1
<1>21. InOrder(v)
  <2>1. ASSUME NEW i \in 1..n, NEW j \in 1..n, i < j PROVE v[i] < v[j]
    <3>1. s[i].index < s[j].index
      BY <1>14, <1>16, <2>1
    <3>2. PICK x \in 1..d : x = s[i].index
      BY <1>19
    <3>3. PICK y \in 1..d : y = s[j].index
      BY <1>19
    <3>4. v[i] = lo + x /\ v[j] = lo + y
      BY <1>19, <3>2, <3>3
    <3> QED BY <1>3, <3>1, <3>2, <3>3, <3>4
  <2> QED BY <1>20, <2>1 DEF InOrder
<1>22. \A x \in Range(v) : lo < x /\ x <= hi /\ x <= Texts
  BY <1>19, <1>20 DEF Range
<1> QED BY <1>1, <1>17, <1>20, <1>21, <1>22 DEF BatchPiece, Piece

--------------------------------------------------------------------------------
(* Batches of embeddings: the call *)

AnswerSound(a) == a.batch \in Nat \ {0} /\ (a.vectors = Failure \/ BatchPiece(a.vectors, a.batch))

\* Each batch is under way or answered once.
EmbedInv ==
    /\ launched \in Nat /\ DOMAIN running \subseteq 1..launched
    /\ joined \in Seq([batch : Nat, vectors : Seq(Nat)])
    /\ \A i \in DOMAIN joined : joined[i].batch \in (1..launched) \ DOMAIN running /\ AnswerSound(joined[i])
    /\ \A i, j \in DOMAIN joined : joined[i].batch = joined[j].batch => i = j
    /\ VectorsKeepOrder

\* The answers of all batches in their order are one sequence in order.
LEMMA GatheredInOrder ==
    ASSUME EmbedInv, ~AnyFailed
    PROVE  LET sorted == Sorted(Range(joined), LAMBDA x, y : x.batch < y.batch)
               told == FlattenSeq([i \in DOMAIN sorted |-> sorted[i].vectors])
           IN  Len(told) = Texts => \A t \in 1..Texts : told[t] = t
<1> USE EmbeddingAssumption
<1>1. PICK S : S = Range(joined)
  OBVIOUS
<1>2. \A x \in S : x.batch \in Nat \ {0} /\ BatchPiece(x.vectors, x.batch)
  <2>1. \A i \in DOMAIN joined : AnswerSound(joined[i]) /\ joined[i].vectors # Failure
    BY DEF EmbedInv, AnyFailed
  <2>2. \A i \in DOMAIN joined : joined[i].batch \in Nat \ {0} /\ BatchPiece(joined[i].vectors, joined[i].batch)
    BY <2>1 DEF AnswerSound
  <2> QED BY <1>1, <2>2 DEF Range
<1>3. \A x, y \in S : x.batch = y.batch => x = y
  <2>1. \A i, j \in DOMAIN joined : joined[i].batch = joined[j].batch => i = j
    BY DEF EmbedInv
  <2>2. S = {joined[i] : i \in DOMAIN joined}
    BY <1>1 DEF Range
  <2>3. ASSUME NEW x \in S, NEW y \in S, x.batch = y.batch PROVE x = y
    <3>1. PICK i \in DOMAIN joined : x = joined[i]
      BY <2>2
    <3>2. PICK j \in DOMAIN joined : y = joined[j]
      BY <2>2
    <3> QED BY <2>1, <2>3, <3>1, <3>2
  <2> QED BY <2>3
<1>4. IsFiniteSet(S)
  <2>1. PICK l \in Nat : l = Len(joined)
    BY DEF EmbedInv
  <2>2. DOMAIN joined = 1..l
    BY <2>1 DEF EmbedInv
  <2> QED BY <1>1, <2>2, ValuesAreFinite
<1>5. \E s \in SetToSeqs(S) : \A i, j \in DOMAIN s : i < j => s[i].batch < s[j].batch
  <2>1. PICK k : k = [x \in S |-> x.batch]
    OBVIOUS
  <2>2. k \in [S -> Nat] /\ (\A x, y \in S : k[x] = k[y] => x = y) /\ \A x \in S : k[x] = x.batch
    BY <1>2, <1>3, <2>1
  <2>3. PICK s \in SetToSeqs(S) : \A i, j \in DOMAIN s : i < j => k[s[i]] < k[s[j]]
    BY <1>4, <2>2, SortingExists
  <2>4. \A i \in DOMAIN s : s[i] \in S
    BY DEF SetToSeqs
  <2>5. \A i, j \in DOMAIN s : i < j => s[i].batch < s[j].batch
    BY <2>2, <2>3, <2>4
  <2> QED BY <2>5
<1>6. PICK s : s = Sorted(S, LAMBDA x, y : x.batch < y.batch)
  OBVIOUS
<1>7. s \in SetToSeqs(S) /\ \A i, j \in DOMAIN s : i < j => s[i].batch < s[j].batch
  BY <1>5, <1>6 DEF Sorted
<1>8. PICK n \in Nat : n = Cardinality(S)
  BY <1>4, FS_CardinalityType
<1>9. s \in [1..n -> S]
  BY <1>7, <1>8 DEF SetToSeqs
<1>10. PICK p : p = [i \in 1..n |-> s[i].vectors]
  OBVIOUS
<1>11. PICK low, high : low = [i \in 1..n |-> (s[i].batch - 1) * ChunkSize] /\ high = [i \in 1..n |-> s[i].batch * ChunkSize]
  OBVIOUS
<1>12. ASSUME NEW i \in 1..n
       PROVE  low[i] \in Nat /\ high[i] \in Nat /\ low[i] <= high[i] /\ Piece(p[i], low[i], high[i], Texts)
  <2>1. PICK b \in Nat \ {0} : b = s[i].batch /\ BatchPiece(s[i].vectors, b)
    BY <1>2, <1>9
  <2>2. low[i] = (b - 1) * ChunkSize /\ high[i] = b * ChunkSize /\ p[i] = s[i].vectors
    BY <1>10, <1>11, <2>1
  <2> QED BY <2>1, <2>2, BatchesAreIntervals, ZenonT(40) DEF BatchPiece
<1>13. ASSUME NEW i \in 1..n, NEW j \in 1..n, i < j PROVE high[i] <= low[j]
  <2>1. PICK a \in Nat \ {0} : a = s[i].batch
    BY <1>2, <1>9
  <2>2. PICK b \in Nat \ {0} : b = s[j].batch
    BY <1>2, <1>9
  <2>3. a < b
    BY <1>7, <1>9, <1>13, <2>1, <2>2
  <2>4. a * ChunkSize <= (b - 1) * ChunkSize
    BY <2>3
  <2> QED BY <1>11, <2>1, <2>2, <2>4
<1>14. p \in Seq(Seq(Nat)) /\ Len(p) = n
  <2>1. PICK T : T = Seq(Nat)
    OBVIOUS
  <2>2. \A i \in 1..n : p[i] \in T
    BY <1>12, <2>1 DEF Piece
  <2>3. p \in Seq(T) /\ Len(p) = n
    BY <1>10, <2>2
  <2> QED BY <2>1, <2>3
<1>15. low \in [1..n -> Nat] /\ high \in [1..n -> Nat]
  BY <1>11, <1>12
<1>16. PICK g : Flattens(g, p) /\ FlattenSeq(p) = Flat(g, p)
  BY <1>14, AllFlatten, FlatIsFlattened
<1>17. PICK v : v = FlattenSeq(p)
  OBVIOUS
<1>18. v \in Seq(Nat) /\ InOrder(v) /\ \A x \in Range(v) : x \in 1..Texts
  <2>1. PICK top \in Nat : top = Texts
    OBVIOUS
  <2>2. \A i \in 1..n : Piece(p[i], low[i], high[i], top)
    BY <1>12, <2>1
  <2>3. \A i \in 1..n : low[i] <= high[i]
    BY <1>12
  <2>4. \A i, j \in 1..n : i < j => high[i] <= low[j]
    BY <1>13
  <2>5. Flat(g, p) \in Seq(Nat) /\ InOrder(Flat(g, p)) /\ \A x \in Range(Flat(g, p)) : x \in 1..top
    BY <1>14, <1>15, <1>16, <2>2, <2>3, <2>4, PiecesInOrder
  <2> QED BY <1>16, <1>17, <2>1, <2>5
<1>19. Len(v) = Texts => \A t \in 1..Texts : v[t] = t
  <2>1. ASSUME Len(v) = Texts PROVE \A t \in 1..Texts : v[t] \in 1..Texts
    <3>1. DOMAIN v = 1..Texts
      BY <1>18, <2>1
    <3>2. \A t \in 1..Texts : v[t] \in Range(v)
      BY <3>1 DEF Range
    <3> QED BY <1>18, <3>2
  <2> QED BY <1>18, <2>1, AllInOrder
<1>20. DOMAIN s = 1..n
  BY <1>9
<1> QED BY <1>1, <1>6, <1>10, <1>17, <1>19, <1>20

LEMMA EmbedBegins == EmbedInit => EmbedInv
<1> SUFFICES ASSUME EmbedInit PROVE EmbedInv
  OBVIOUS
<1>1. launched = 0 /\ running = [b \in {} |-> 0] /\ joined = <<>> /\ vectors = <<>>
  BY DEF EmbedInit
<1>2. DOMAIN running = {} /\ DOMAIN joined = {} /\ Len(vectors) = 0
  BY <1>1
<1>3. VectorsKeepOrder
  BY <1>2 DEF VectorsKeepOrder
<1> QED BY <1>1, <1>2, <1>3 DEF EmbedInv

\* One answer more, of a batch that was under way.
LEMMA AnswerIsJoined ==
    ASSUME EmbedInv, NEW b \in DOMAIN running, NEW v \in Seq(Nat), v = Failure \/ BatchPiece(v, b),
           joined' = Append(joined, [batch |-> b, vectors |-> v]), running' = Without(b), UNCHANGED <<launched, vectors>>
    PROVE  EmbedInv'
<1>0. joined \in Seq([batch : Nat, vectors : Seq(Nat)])
  BY DEF EmbedInv
<1>1. PICK n \in Nat : n = Len(joined)
  BY <1>0
<1>2. PICK a : a = [batch |-> b, vectors |-> v]
  OBVIOUS
<1>3. b \in Nat \ {0} /\ launched \in Nat /\ b \in 1..launched
  BY DEF EmbedInv
<1>4. AnswerSound(a) /\ a.batch = b /\ a \in [batch : Nat, vectors : Seq(Nat)]
  BY <1>2, <1>3 DEF AnswerSound
<1>5. /\ joined' \in Seq([batch : Nat, vectors : Seq(Nat)]) /\ DOMAIN joined = 1..n /\ DOMAIN joined' = 1..(n + 1)
      /\ joined'[n + 1] = a /\ \A i \in 1..n : joined'[i] = joined[i]
  BY <1>1, <1>2, <1>4 DEF EmbedInv
<1>6. DOMAIN running' = DOMAIN running \ {b}
  BY DEF Without
<1>7. ASSUME NEW i \in 1..(n + 1)
      PROVE  joined'[i].batch \in (1..launched) \ DOMAIN running' /\ AnswerSound(joined'[i])
  <2>1. CASE i = n + 1
    BY <1>3, <1>4, <1>5, <1>6, <2>1
  <2>2. CASE i # n + 1
    <3>1. i \in 1..n
      BY <2>2
    <3> QED BY <1>5, <1>6, <3>1 DEF EmbedInv
  <2> QED BY <2>1, <2>2
<1>8. ASSUME NEW i \in 1..(n + 1), NEW j \in 1..(n + 1), joined'[i].batch = joined'[j].batch PROVE i = j
  <2>1. \A x \in 1..n : joined[x].batch # b
    BY <1>5 DEF EmbedInv
  <2>2. (i \in 1..n \/ i = n + 1) /\ (j \in 1..n \/ j = n + 1)
    OBVIOUS
  <2> QED BY <1>4, <1>5, <1>8, <2>1, <2>2 DEF EmbedInv
<1>9. VectorsKeepOrder'
  BY DEF EmbedInv, VectorsKeepOrder
<1>10. launched' \in Nat /\ DOMAIN running' \subseteq 1..launched' /\ launched' = launched
  BY <1>3, <1>6 DEF EmbedInv
<1>11. \A i \in DOMAIN joined' : joined'[i].batch \in (1..launched') \ DOMAIN running' /\ AnswerSound(joined'[i])
  BY <1>5, <1>7, <1>10
<1>12. \A i, j \in DOMAIN joined' : joined'[i].batch = joined'[j].batch => i = j
  BY <1>5, <1>8
<1> QED BY <1>5, <1>9, <1>10, <1>11, <1>12 DEF EmbedInv, AnswerSound

LEMMA EmbedSteps == EmbedInv /\ [EmbedNext]_embedVars => EmbedInv'
<1> SUFFICES ASSUME EmbedInv, [EmbedNext]_embedVars PROVE EmbedInv'
  OBVIOUS
<1>1. CASE UNCHANGED embedVars
  BY <1>1 DEF EmbedInv, embedVars, VectorsKeepOrder, AnswerSound
<1>2. CASE BatchLaunch
  <2>1. launched' = launched + 1 /\ DOMAIN running' = DOMAIN running \cup {launched + 1} /\ UNCHANGED <<joined, vectors>>
    BY <1>2 DEF BatchLaunch
  <2>2. launched \in Nat /\ DOMAIN running' \subseteq 1..launched'
    BY <2>1 DEF EmbedInv
  <2>3. ASSUME NEW i \in DOMAIN joined PROVE joined[i].batch \in (1..launched') \ DOMAIN running'
    <3>1. PICK b \in 1..launched : b = joined[i].batch /\ b \notin DOMAIN running
      BY DEF EmbedInv
    <3>2. b \in 1..launched' /\ b # launched + 1
      BY <2>1, <2>2
    <3> QED BY <2>1, <3>1, <3>2
  <2>4. VectorsKeepOrder'
    BY <2>1 DEF EmbedInv, VectorsKeepOrder
  <2> QED BY <2>1, <2>2, <2>3, <2>4 DEF EmbedInv, AnswerSound
<1>3. CASE BatchGather
  <2>1. ~AnyFailed /\ UNCHANGED <<launched, running, joined>>
    BY <1>3 DEF BatchGather, Gathered
  <2>2. LET sorted == Sorted(Range(joined), LAMBDA x, y : x.batch < y.batch)
        IN  vectors' = FlattenSeq([i \in DOMAIN sorted |-> sorted[i].vectors])
    BY <1>3 DEF BatchGather, Gathered
  <2>3. VectorsKeepOrder'
    BY <2>1, <2>2, GatheredInOrder DEF VectorsKeepOrder
  <2> QED BY <2>1, <2>3 DEF EmbedInv, AnswerSound
<1>4. CASE BatchGiveUp
  <2>1. DOMAIN running' = {} /\ UNCHANGED <<launched, joined, vectors>>
    BY <1>4 DEF BatchGiveUp
  <2> QED BY <2>1 DEF EmbedInv, AnswerSound, VectorsKeepOrder
<1>5. ASSUME NEW b \in DOMAIN running, BatchRetry(b) PROVE EmbedInv'
  <2>1. DOMAIN running' = DOMAIN running /\ UNCHANGED <<launched, joined, vectors>>
    BY <1>5 DEF BatchRetry
  <2> QED BY <2>1 DEF EmbedInv, AnswerSound, VectorsKeepOrder
<1>6. ASSUME NEW b \in DOMAIN running, BatchAnswer(b) PROVE EmbedInv'
  <2>1. b \in Nat \ {0}
    BY DEF EmbedInv
  <2>2. PICK data \in Replies(b) : joined' = Append(joined, [batch |-> b, vectors |-> ByIndex(data)])
    BY <1>6 DEF BatchAnswer
  <2>3. PICK v : v = ByIndex(data)
    OBVIOUS
  <2>4. BatchPiece(v, b)
    BY <2>1, <2>3, AnswersAreInOrder
  <2>5. v \in Seq(Nat)
    BY <2>4 DEF BatchPiece, Piece
  <2>6. joined' = Append(joined, [batch |-> b, vectors |-> v]) /\ running' = Without(b) /\ UNCHANGED <<launched, vectors>>
    BY <1>6, <2>2, <2>3 DEF BatchAnswer
  <2> QED BY <2>4, <2>5, <2>6, AnswerIsJoined
<1>7. ASSUME NEW b \in DOMAIN running, BatchFail(b) PROVE EmbedInv'
  <2>1. PICK v : v = Failure
    OBVIOUS
  <2>2. v \in Seq(Nat)
    BY <2>1 DEF Failure
  <2>3. joined' = Append(joined, [batch |-> b, vectors |-> v]) /\ running' = Without(b) /\ UNCHANGED <<launched, vectors>>
    BY <1>7, <2>1 DEF BatchFail
  <2> QED BY <2>1, <2>2, <2>3, AnswerIsJoined
<1> QED BY <1>1, <1>2, <1>3, <1>4, <1>5, <1>6, <1>7 DEF EmbedNext

\* However many batches there are, whatever fails, in whatever order the tasks end and the entries of an answer
\* come: embed_batch returns for each text its own vector, when it returns as many as there are texts.
THEOREM VectorsMeetTheirTexts == EmbedSpec => []VectorsKeepOrder
<1>1. EmbedInv => VectorsKeepOrder
  BY DEF EmbedInv
<1> QED BY <1>1, EmbedBegins, EmbedSteps, PTL DEF EmbedSpec
================================================================================
