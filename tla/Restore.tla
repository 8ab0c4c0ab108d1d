--------------------------------- MODULE Restore ---------------------------------
(***************************************************************************)
(* Replacing the database of a running server: POST /v1/backups and        *)
(* /v1/backups/restore (memme-server), the server loop that drains, swaps  *)
(* and reopens, and restore_from_backup (storage/replica.rs), one file     *)
(* operation at a time, any of which may fail and between any two of which *)
(* the process may die.                                                    *)
(*                                                                         *)
(* A database is a main file and its write-ahead log, which hold the       *)
(* writes that were committed; a snapshot is a main file alone.            *)
(***************************************************************************)
EXTENDS Naturals, FiniteSets

CONSTANTS
    Writes,    \* what the clients commit
    Names,     \* names of backup files
    Clients,   \* backup requests in progress at once
    Foreign,   \* the names of backups of another configuration, there from the start
    NoFile, NoName,
    MaxRestores, MaxFileErrors, MaxCrashes   \* bounds on what a behaviour contains

Snapshots == [data : SUBSET Writes, fits : BOOLEAN]

ASSUME RestoreAssumption ==
    /\ Foreign \subseteq Names
    /\ NoFile \notin Snapshots
    /\ NoName \notin Names
    /\ MaxRestores \in Nat /\ MaxFileErrors \in Nat /\ MaxCrashes \in Nat

Databases == [file : Snapshots \cup {NoFile}, wal : SUBSET Writes]

\* SQLite makes an empty database of a file that does not exist, and drops its log.
Fresh == [file |-> [data |-> {}, fits |-> TRUE], wal |-> {}]
Absent == [file |-> NoFile, wal |-> {}]

Data(db) == IF db.file = NoFile THEN {} ELSE db.file.data \cup db.wal

VARIABLES
    pc,         \* what the server process is doing
    primary, rollback, candidate,   \* the databases at the three paths of the latest restore
    left,       \* databases under the private names of earlier restores, which nothing remembers
    backups,    \* the backup directory
    saving,     \* per client: the name its backup request will publish
    pending,    \* RestoreControl.pending
    from,       \* the backup being restored
    current,    \* history: the writes the database is accountable for
    target,     \* history: what the latest restore was to bring
    stranded,   \* history: writes the server once was accountable for and no longer serves
    torn,       \* history: a main file and its log were abandoned at different paths
    tally        \* history: restores, faults and crashes so far

restoreVars == <<pc, primary, rollback, candidate, left, backups, saving, pending, from,
          current, target, stranded, torn, tally>>
disk == <<primary, rollback, candidate, left, backups>>
control == <<saving, pending, from>>
history == <<current, target, stranded, torn>>

RestoreInit ==
    /\ pc = "starting"
    /\ primary = Absent /\ rollback = Absent /\ candidate = Absent
    /\ left = {}
    /\ backups = [n \in Names |-> IF n \in Foreign THEN [data |-> {}, fits |-> FALSE] ELSE NoFile]
    /\ saving = [c \in Clients |-> NoName]
    /\ pending = NoName /\ from = NoName
    /\ current = {} /\ target = {} /\ stranded = {}
    /\ torn = FALSE
    /\ tally = [restores |-> 0, faults |-> 0, crashes |-> 0]

--------------------------------------------------------------------------------
(* Helpers *)

Turn(label) == pc' = label

\* A file operation or Storage::open fails.
FileError == tally.faults < MaxFileErrors /\ tally' = [tally EXCEPT !.faults = @ + 1]
NoFileError == UNCHANGED tally

\* A main file and its log are at different paths.
Split(db) == db.file = NoFile /\ db.wal # {}

\* The process ends: what is at the two private paths stays there, unknown to the next.
Ends(p, r, c) ==
    /\ Turn("down")
    /\ primary' = p /\ rollback' = Absent /\ candidate' = Absent
    /\ left' = left \cup ({r, c} \ {Absent})
    /\ torn' = (torn \/ Split(p) \/ Split(r))
    /\ saving' = [c0 \in Clients |-> NoName]
    /\ pending' = NoName /\ from' = NoName

--------------------------------------------------------------------------------
(* Starting and serving *)

\* An operator or a supervisor starts the process again.
Start ==
    /\ pc = "down"
    /\ Turn("starting")
    /\ UNCHANGED <<disk, control, history, tally>>

\* build_store opens the primary, or creates it; a failure ends the process.
Boot ==
    /\ pc \in {"starting", "looping"}
    /\ \/ /\ NoFileError
          /\ primary' = IF primary.file = NoFile THEN Fresh ELSE primary
          /\ current' = Data(primary')
          /\ stranded' = IF current \subseteq current' \/ current' = target THEN stranded
                         ELSE stranded \cup {current}
          /\ Turn("serving")
          /\ UNCHANGED <<rollback, candidate, left, backups, control, target, torn>>
       \/ FileError /\ Ends(primary, rollback, candidate)
          /\ UNCHANGED <<backups, current, target, stranded>>

\* A client's write is committed, to the log.
Write(d) ==
    /\ pc = "serving"
    /\ d \notin current \cup target \cup UNION stranded
    /\ primary' = [primary EXCEPT !.wal = @ \cup {d}]
    /\ current' = current \cup {d}
    /\ UNCHANGED <<pc, rollback, candidate, left, backups, control, target, stranded, torn, tally>>

\* POST /v1/backups: the check that the name is free.
BackupStart(c, n) ==
    /\ pc = "serving"
    /\ saving[c] = NoName
    /\ backups[n] = NoFile
    /\ saving' = [saving EXCEPT ![c] = n]
    /\ UNCHANGED <<pc, disk, pending, from, history, tally>>

\* consistent_snapshot: an online backup into a private file, renamed to its name.
BackupPublish(c) ==
    /\ pc \in {"serving", "draining"}
    /\ saving[c] # NoName
    /\ saving' = [saving EXCEPT ![c] = NoName]
    /\ \/ NoFileError /\ backups' = [backups EXCEPT ![saving[c]] =
                                    [data |-> Data(primary), fits |-> TRUE]]
       \/ FileError /\ UNCHANGED backups
    /\ UNCHANGED <<pc, primary, rollback, candidate, left, pending, from, history>>

\* POST /v1/backups/restore: a valid database file, and no restore pending.
RequestRestore(n) ==
    /\ pc \in {"serving", "draining"}
    /\ backups[n] # NoFile
    /\ pending = NoName
    /\ tally.restores < MaxRestores
    /\ pending' = n
    /\ tally' = [tally EXCEPT !.restores = @ + 1]
    /\ UNCHANGED <<pc, disk, saving, from, history>>

\* RestoreControl::wait ends and the graceful shutdown begins.
Drain ==
    /\ pc = "serving"
    /\ pending # NoName
    /\ Turn("draining")
    /\ UNCHANGED <<disk, control, history, tally>>

KeepPending ==
    /\ pc = "draining"
    /\ \A c \in Clients : saving[c] = NoName
    /\ from' = pending
    /\ Turn("copy")
    /\ UNCHANGED <<disk, saving, pending, history, tally>>

\* Every request has been answered; the restore is taken.  The store is closed, which
\* checkpoints its log, unless an abandoned request's thread still holds it.
Drained ==
    /\ pc = "draining"
    /\ \A c \in Clients : saving[c] = NoName
    /\ from' = pending
    /\ pending' = NoName
    /\ \/ UNCHANGED primary
       \/ primary' = [file |-> [primary.file EXCEPT !.data = Data(primary)], wal |-> {}]
    /\ Turn("copy")
    /\ UNCHANGED <<rollback, candidate, left, backups, saving, history, tally>>

--------------------------------------------------------------------------------
(* restore_from_backup *)

\* validate_db_file and fs::copy to the candidate, whose name is new in each attempt: what the last one
\* has left stays where it is.  An error leaves the copy, if its permissions are what failed, or a part of
\* it, which nothing reads.
Copy ==
    /\ pc = "copy"
    /\ target' = backups[from].data
    /\ left' = left \cup ({candidate} \ {Absent})
    /\ LET copied == [file |-> backups[from], wal |-> {}]
       IN  \/ NoFileError /\ candidate' = copied /\ Turn("check")
           \/ FileError /\ candidate' \in {Absent, copied} /\ Turn("verify")
    /\ UNCHANGED <<primary, rollback, backups, control, current, stranded, torn>>

\* The candidate is opened with the configuration; if it does not fit it is removed.
Check ==
    /\ pc = "check"
    /\ \/ NoFileError /\ candidate.file.fits /\ UNCHANGED candidate /\ Turn("aside")
       \/ NoFileError /\ ~candidate.file.fits /\ candidate' = Absent /\ Turn("verify")
       \/ FileError /\ candidate' = Absent /\ Turn("verify")
    /\ UNCHANGED <<primary, rollback, left, backups, control, history>>

\* move_database_files(primary, rollback): the main file.  An error of it ends the attempt and leaves
\* the candidate.
Aside ==
    /\ pc = "aside"
    /\ \/ /\ NoFileError
          /\ rollback' = [rollback EXCEPT !.file = primary.file]
          /\ primary' = [primary EXCEPT !.file = NoFile]
          /\ Turn("aside_wal")
       \/ FileError /\ Turn("verify") /\ UNCHANGED <<primary, rollback>>
    /\ UNCHANGED <<candidate, left, backups, control, history>>

\* move_database_files(primary, rollback): the log.  If it cannot be moved the main file
\* is moved back, and an error of that is ignored: the two stay apart.
AsideWal ==
    /\ pc = "aside_wal"
    /\ \/ /\ NoFileError
          /\ rollback' = [rollback EXCEPT !.wal = primary.wal]
          /\ primary' = Absent
          /\ Turn("install")
          /\ UNCHANGED torn
       \/ /\ primary.wal # {}
          /\ FileError
          /\ \/ /\ primary' = [primary EXCEPT !.file = rollback.file]
                /\ rollback' = Absent
                /\ UNCHANGED torn
             \/ /\ tally'.faults < MaxFileErrors
                /\ torn' = TRUE
                /\ UNCHANGED <<primary, rollback>>
          /\ Turn("verify")
    /\ UNCHANGED <<candidate, left, backups, control, current, target, stranded>>

\* fs::rename(candidate, primary).
Install ==
    /\ pc = "install"
    /\ \/ NoFileError /\ primary' = candidate /\ candidate' = Absent /\ Turn("open")
       \/ FileError /\ UNCHANGED <<primary, candidate>> /\ Turn("back")
    /\ UNCHANGED <<rollback, left, backups, control, history>>

DiscardEarly ==
    /\ pc = "open"
    /\ \/ NoFileError /\ UNCHANGED primary /\ Turn("discard")
       \/ FileError /\ primary' = Absent /\ Turn("back")
    /\ rollback' = Absent
    /\ UNCHANGED <<candidate, left, backups, control, history>>

\* Storage::open of the restored primary; if it fails the files are removed again.
Open ==
    /\ pc = "open"
    /\ \/ NoFileError /\ UNCHANGED primary /\ Turn("discard")
       \/ FileError /\ primary' = Absent /\ Turn("back")
    /\ UNCHANGED <<rollback, candidate, left, backups, control, history>>

\* The restore has succeeded: the previous primary is removed, for all that the server knows, and the
\* loop goes on.
Discard ==
    /\ pc = "discard"
    /\ rollback' = Absent
    /\ current' = Data(primary)
    /\ from' = NoName
    /\ Turn("looping")
    /\ UNCHANGED <<primary, candidate, left, backups, saving, pending, target, stranded, torn, tally>>

--------------------------------------------------------------------------------
(* restore_and_verify_rollback, and the server's verification of a failed restore *)

\* move_database_files(rollback, primary): the main file, then the log; if either cannot
\* be moved the process ends with RollbackFailed.
Back ==
    /\ pc = "back"
    /\ \/ /\ NoFileError
          /\ primary' = [primary EXCEPT !.file = rollback.file]
          /\ rollback' = [rollback EXCEPT !.file = NoFile]
          /\ Turn("back_wal")
          /\ UNCHANGED <<candidate, left, control, torn>>
       \/ FileError /\ Ends(primary, rollback, candidate)
    /\ UNCHANGED <<backups, current, target, stranded>>

BackWal ==
    /\ pc = "back_wal"
    /\ \/ /\ NoFileError
          /\ primary' = [primary EXCEPT !.wal = rollback.wal]
          /\ rollback' = Absent
          /\ Turn("reopen")
          /\ UNCHANGED <<candidate, left, control, torn>>
       \/ /\ rollback.wal # {}
          /\ FileError
          /\ \/ Ends(Absent, [rollback EXCEPT !.file = primary.file], candidate)
             \/ tally'.faults < MaxFileErrors /\ Ends(primary, rollback, candidate)
    /\ UNCHANGED <<backups, current, target, stranded>>

\* Storage::open of the previous primary; if it fails the files are moved aside again.
Reopen ==
    /\ pc = "reopen"
    /\ \/ /\ NoFileError
          /\ candidate' = Absent
          /\ Turn("verify")
          /\ UNCHANGED <<primary, rollback, left, control, torn>>
       \/ FileError /\ (Ends(Absent, primary, candidate) \/ Ends(primary, rollback, candidate))
    /\ UNCHANGED <<backups, current, target, stranded>>

\* The restore has failed: validate_backup and build_store of the primary decide whether
\* the loop goes on.  validate_backup makes a file where there is none.
Verify ==
    /\ pc = "verify"
    /\ \/ /\ primary.file # NoFile
          /\ NoFileError
          /\ from' = NoName
          /\ Turn("looping")
          /\ UNCHANGED <<disk, saving, pending, torn>>
       \/ FileError /\ Ends(primary, rollback, candidate) /\ UNCHANGED backups
       \/ /\ primary.file = NoFile
          /\ NoFileError
          /\ Ends(Fresh, rollback, candidate)
          /\ UNCHANGED backups
    /\ UNCHANGED <<current, target, stranded>>

\* The process dies.
ServerDies ==
    /\ pc # "down"
    /\ tally.crashes < MaxCrashes
    /\ tally' = [tally EXCEPT !.crashes = @ + 1]
    /\ Ends(primary, rollback, candidate)
    /\ UNCHANGED <<backups, current, target, stranded>>

--------------------------------------------------------------------------------
RestoreStep ==
    \/ Copy \/ Check \/ Aside \/ AsideWal \/ Install \/ Open \/ Discard
    \/ Back \/ BackWal \/ Reopen \/ Verify

RestoreNext ==
    \/ Start \/ Boot
    \/ \E d \in Writes : Write(d)
    \/ \E c \in Clients : BackupPublish(c) \/ \E n \in Names : BackupStart(c, n)
    \/ \E n \in Names : RequestRestore(n)
    \/ Drain \/ Drained
    \/ RestoreStep
    \/ ServerDies

RestoreSpec == RestoreInit /\ [][RestoreNext]_restoreVars

\* The server's own task runs, requests in progress are answered, and no operator is
\* needed: Start, which only an operator takes, has no fairness.
RestoreFairSpec ==
    /\ RestoreSpec
    /\ WF_restoreVars(Boot \/ Drain \/ Drained \/ RestoreStep)
    /\ \A c \in Clients : WF_restoreVars(BackupPublish(c))

--------------------------------------------------------------------------------
(* Properties *)

\* The databases on the disk, those included whose two files are on their way.
Copies ==
    {primary, rollback} \cup left
      \cup {[file |-> rollback.file, wal |-> primary.wal],
            [file |-> primary.file, wal |-> rollback.wal]}

\* Whatever fails and wherever the process dies, the writes the server is accountable for are all in one
\* database on the disk, unless a main file and its log have come apart for good: a crash or a second
\* failure between the renames of the two, after which there is no complete copy under one name.
\* replica.rs:3 has no such exception.
CompleteCopyExists ==
    torn \/ \A D \in stranded \cup {current} : \E db \in Copies : D \subseteq Data(db)

\* "failure continues with the old DB" (README.md:290): whatever fails, the loop goes on by itself only with
\* exactly the writes of the previous database or, after a success, of the restored one, and with nothing
\* of the previous one aside.  A candidate, which is a copy of a backup, may be left behind.
LoopKeepsTheData ==
    /\ pc = "looping" => Data(primary) = current
    /\ pc \in {"looping", "serving", "draining"} => rollback = Absent

\* Neither the disk nor the loop loses what the server is accountable for, whatever fails and wherever it dies.
RestoreKeepsData == CompleteCopyExists /\ LoopKeepsTheData

\* "Success and failure both restart the REST server" (README.md:289): a restore that was accepted is
\* attempted, and then the server serves again or its process has ended.
RestoreIsAnswered ==
    pending # NoName ~> (pending = NoName /\ pc \in {"serving", "down"})

\* "It keeps the previous database until the replacement reopens successfully"
\* (README.md:288) and "avoid creating an empty database" (main.rs:637): the
\* server serves the previous database or the restored one, also after a crash.
ServesOldOrNew == stranded = {}
================================================================================
