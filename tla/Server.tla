---------------------------------- MODULE Server ----------------------------------
(* Two pieces of state of the REST server (memme-server) that its requests contend for: the *)
(* LLM configuration, which the database, the store and the server each hold a copy of, and  *)
(* the permit of the full import.  The loop reopens the store after a restore (Restore.tla),  *)
(* with a database that may hold an earlier configuration.                                    *)
EXTENDS Naturals, FiniteSets

CONSTANTS
    Setters,     \* requests that set the configuration
    Importers,   \* requests of a full import
    Settings,    \* the configurations they bring: [key, endpoint]
    Nobody, Unset,
    MaxSets, MaxEnds   \* bounds: settings asked for, times the server's store is closed

Configs == [key : {s.key : s \in Settings}, endpoint : {s.endpoint : s \in Settings}]

ASSUME ServerAssumption ==
    /\ Settings \subseteq Configs
    /\ Unset \notin Configs \cup {s.endpoint : s \in Settings}
    /\ Nobody \notin Setters \cup Importers
    /\ MaxSets \in Nat /\ MaxEnds \in Nat

VARIABLES
    serving,     \* "boot", "up", "loop" (the store is closed and will be opened again) or "down"
    given,       \* the configuration of the command line, or Unset
    shared,      \* AppState.llm_config
    model,       \* MemoryStore.llm: the configuration its provider was built from
    saved,       \* memme_config: the endpoint in the database
    kept,        \* the endpoint in a backup of it
    writer,      \* who holds the write lock of llm_config
    setting,     \* per setter: where its request is, and what it sets
    importing,   \* per importer: idle, body, running, abandoned, or orphan (of a closed store)
    permit,      \* whether the permit of full_import_semaphore is free
    budget       \* bounds: settings and ends so far

llmVars == <<given, shared, model, saved, kept, writer, setting>>
importVars == <<importing, permit>>
serverVars == <<serving, llmVars, importVars, budget>>

Stands(c, step) == setting[c].at = step
NoSetting == [at |-> "idle", new |-> Unset]
Proceeds(c, step) == setting' = [setting EXCEPT ![c].at = step]

ServerInit ==
    /\ serving = "boot"
    /\ given \in Settings \cup {Unset} /\ shared = given
    /\ model = Unset /\ saved = Unset /\ kept = Unset
    /\ writer = Nobody
    /\ setting = [c \in Setters |-> NoSetting]
    /\ importing = [i \in Importers |-> "idle"] /\ permit = TRUE
    /\ budget = [sets |-> 0, ends |-> 0]

--------------------------------------------------------------------------------
(* The loop of the server *)

\* What apply_persisted_llm_config gives the store: the key of the server with the endpoint of the database.
Applied == IF shared = Unset \/ saved = Unset THEN shared ELSE [shared EXCEPT !.endpoint = saved]

\* The store is opened and gets its provider; an endpoint that does not resolve ends the process.
Serve ==
    /\ serving \in {"boot", "loop"}
    /\ \/ /\ serving' = "up"
          /\ shared' = Applied /\ model' = Applied
          /\ permit' = TRUE
       \/ shared # Unset /\ serving' = "down" /\ UNCHANGED <<shared, model, permit>>
    /\ UNCHANGED <<given, saved, kept, writer, setting, importing, budget>>

\* The endpoint of the database is in the backups made of it.
KeepBackup ==
    /\ serving = "up"
    /\ kept' = saved
    /\ UNCHANGED <<serving, given, shared, model, saved, writer, setting, importVars, budget>>

\* The tasks of abandoned imports outlive the store's last request and the process's loop.
Outlive == importing' = [i \in Importers |-> IF importing[i] = "abandoned" THEN "orphan" ELSE importing[i]]

\* A restore: every request has been answered, the store is closed, its database is the old one or the backup's.
Reload ==
    /\ serving = "up" /\ budget.ends < MaxEnds
    /\ \A c \in Setters : Stands(c, "idle")
    /\ \A i \in Importers : importing[i] \notin {"body", "running"}
    /\ serving' = "loop"
    /\ saved' \in {saved, kept} /\ model' = Unset
    /\ Outlive
    /\ budget' = [budget EXCEPT !.ends = @ + 1]
    /\ UNCHANGED <<given, shared, kept, writer, setting, permit>>

\* The process dies; the database and its backups stay.
Die ==
    /\ serving # "down" /\ budget.ends < MaxEnds
    /\ serving' = "down"
    /\ budget' = [budget EXCEPT !.ends = @ + 1]
    /\ UNCHANGED <<llmVars, importVars>>

\* An operator starts it again, with the configuration of the command line.
StartAgain ==
    /\ serving = "down"
    /\ serving' = "boot"
    /\ shared' = given /\ model' = Unset /\ writer' = Nobody
    /\ setting' = [c \in Setters |-> NoSetting]
    /\ importing' = [i \in Importers |-> "idle"] /\ permit' = TRUE
    /\ UNCHANGED <<given, saved, kept, budget>>

--------------------------------------------------------------------------------
(* set_llm_config *)

\* The endpoint is resolved and the provider built, or the request is refused, before the lock is taken.
SetPrepare(c, s) ==
    /\ serving = "up" /\ Stands(c, "idle") /\ budget.sets < MaxSets
    /\ setting' = [setting EXCEPT ![c] = [at |-> "built", new |-> s]]
    /\ budget' = [budget EXCEPT !.sets = @ + 1]
    /\ UNCHANGED <<serving, given, shared, model, saved, kept, writer, importVars>>

\* Its client is gone before the lock is asked for: the request is dropped.
SetDropped(c) ==
    /\ serving = "up" /\ Stands(c, "built")
    /\ setting' = [setting EXCEPT ![c] = NoSetting]
    /\ UNCHANGED <<serving, given, shared, model, saved, kept, writer, importVars, budget>>

\* Mutant: the lock is not taken before the settings are saved.
LockLate(c) ==
    /\ serving = "up" /\ Stands(c, "built")
    /\ Proceeds(c, "save")
    /\ UNCHANGED <<serving, given, shared, model, saved, kept, writer, importVars, budget>>

SetLock(c) ==
    /\ serving = "up" /\ Stands(c, "built") /\ writer = Nobody
    /\ writer' = c /\ Proceeds(c, "save")
    /\ UNCHANGED <<serving, given, shared, model, saved, kept, importVars, budget>>

\* One transaction saves the endpoint, without its key; when it fails nothing is set.
SetSave(c) ==
    /\ serving = "up" /\ Stands(c, "save")
    /\ \/ saved' = setting[c].new.endpoint /\ Proceeds(c, "model") /\ UNCHANGED writer
       \/ setting' = [setting EXCEPT ![c] = NoSetting] /\ writer' = Nobody /\ UNCHANGED saved
    /\ UNCHANGED <<serving, given, shared, model, kept, importVars, budget>>

SetModel(c) ==
    /\ serving = "up" /\ Stands(c, "model")
    /\ model' = setting[c].new /\ Proceeds(c, "shared")
    /\ UNCHANGED <<serving, given, shared, saved, kept, writer, importVars, budget>>

SetShared(c) ==
    /\ serving = "up" /\ Stands(c, "shared")
    /\ shared' = setting[c].new /\ writer' = Nobody
    /\ setting' = [setting EXCEPT ![c] = NoSetting]
    /\ UNCHANGED <<serving, given, model, saved, kept, importVars, budget>>

--------------------------------------------------------------------------------
(* full_import *)

ImportBecomes(i, state) == importing' = [importing EXCEPT ![i] = state]

\* The permit is taken before the body is read, and travels with the request; without it the answer is 503.
ImportAdmit(i) ==
    /\ serving = "up" /\ importing[i] = "idle" /\ permit
    /\ permit' = FALSE /\ ImportBecomes(i, "body")
    /\ UNCHANGED <<serving, llmVars, budget>>

\* A body that is too long or no import, a confirmation that is missing, a client that is gone.
ImportRefused(i) ==
    /\ serving = "up" /\ importing[i] = "body"
    /\ permit' = TRUE /\ ImportBecomes(i, "idle")
    /\ UNCHANGED <<serving, llmVars, budget>>

\* The import runs on a blocking thread, to which the permit goes.
ImportRun(i) ==
    /\ serving = "up" /\ importing[i] = "body"
    /\ ImportBecomes(i, "running")
    /\ UNCHANGED <<serving, llmVars, permit, budget>>

\* Mutant: the permit stays with the request.
PermitStays(i) ==
    /\ serving = "up" /\ importing[i] = "running"
    /\ permit' = TRUE /\ ImportBecomes(i, "abandoned")
    /\ UNCHANGED <<serving, llmVars, budget>>

\* The client is gone: the request is dropped, the blocking task goes on.
ImportAbandoned(i) ==
    /\ serving = "up" /\ importing[i] = "running"
    /\ ImportBecomes(i, "abandoned")
    /\ UNCHANGED <<serving, llmVars, permit, budget>>

\* The task ends; the permit of a store that has been closed is nobody's any more.
ImportEnds(i) ==
    /\ serving # "down" /\ importing[i] \in {"running", "abandoned", "orphan"}
    /\ permit' = (permit \/ importing[i] # "orphan") /\ ImportBecomes(i, "idle")
    /\ UNCHANGED <<serving, llmVars, budget>>

--------------------------------------------------------------------------------
ServerNext ==
    \/ Serve \/ KeepBackup \/ Reload \/ Die \/ StartAgain
    \/ \E c \in Setters :
        \/ \E s \in Settings : SetPrepare(c, s)
        \/ SetDropped(c) \/ SetLock(c) \/ SetSave(c) \/ SetModel(c) \/ SetShared(c)
    \/ \E i \in Importers :
        ImportAdmit(i) \/ ImportRefused(i) \/ ImportRun(i) \/ ImportAbandoned(i) \/ ImportEnds(i)

ServerSpec == ServerInit /\ [][ServerNext]_serverVars

--------------------------------------------------------------------------------
(* Properties *)

\* Whichever setters raced, and after a restart or a restore: the provider the store generates with is built
\* from the configuration the server believes it has, and it is the endpoint the database will bring back
\* (handlers.rs:240).
ConfigAgrees ==
    serving = "up" /\ (\A c \in Setters : setting[c].at \in {"idle", "built"}) =>
        /\ model = shared
        /\ shared # Unset => saved \in {Unset, shared.endpoint}

\* "Admit only one full import before Axum reads and deserializes its JSON body" (main.rs:390), whatever has
\* become of the client of the one before, and the permit comes back after the last.
OneImportAtATime ==
    serving = "up" =>
        LET admitted == {i \in Importers : importing[i] \in {"body", "running", "abandoned"}}
        IN  Cardinality(admitted) = (IF permit THEN 0 ELSE 1)
================================================================================
