----------------------------- MODULE Migrations -----------------------------
(***************************************************************************)
(* Start-up (src/app/db.py, src/app/main.py, src/app/run_worker.py): API   *)
(* and worker processes that start together apply the migration files      *)
(* under an advisory lock of Postgres, statement by statement, before they *)
(* serve.  A process may crash at any point; a session that ends gives up  *)
(* its lock and its open transaction.                                      *)
(*                                                                         *)
(* A statement lasts up to StatementTime.  The wait for the lock is one    *)
(* statement too, and the pool gives up on it after CommandTimeout.        *)
(***************************************************************************)
EXTENDS Integers

CONSTANTS
    Procs,
    NoProc,
    NumFiles,       \* migration files, in the order of their names
    CommandTimeout, \* settings.db_command_timeout_seconds, in model time
    StatementTime,  \* longest time of a statement that does not wait
    MaxCrashes      \* bound

ASSUME ProcAssumption == NoProc \notin Procs
ASSUME FilesAssumption == NumFiles \in Nat \ {0}
ASSUME TimeAssumption ==
    /\ StatementTime \in Nat \ {0}
    /\ CommandTimeout \in Nat /\ StatementTime < CommandTimeout
    /\ MaxCrashes \in Nat

VARIABLES
    pc,         \* the statement each process is at
    age,        \* how long it has been at it
    todo,       \* files the process has still to apply
    holder,     \* the session with the advisory lock
    open,       \* the file whose transaction a process has open, 0 for none
    schema,     \* files whose effects are committed
    names,      \* schema_migrations
    crashes     \* crashes so far

vars == <<pc, age, todo, holder, open, schema, names, crashes>>

Files == 1..NumFiles

(* Those that do not wait.  The others: off, locking, serving, gave_up. *)
Statements == {"listing", "executing", "inserting", "committing", "unlocking"}

(* The database has been migrated by some earlier version, or is empty. *)
Init == /\ pc = [p \in Procs |-> "off"]
        /\ age = [p \in Procs |-> 0]
        /\ todo = [p \in Procs |-> {}]
        /\ holder = NoProc
        /\ open = [p \in Procs |-> 0]
        /\ \E n \in 0..NumFiles : schema = 1..n /\ names = 1..n
        /\ crashes = 0

Goto(p, label) == /\ pc' = [pc EXCEPT ![p] = label]
                  /\ age' = [age EXCEPT ![p] = 0]

----------------------------------------------------------------------------
(* apply_migrations. *)

(* A process starts, or is started again after it gave up. *)
Start(p) ==
    /\ pc[p] \in {"off", "gave_up"}
    /\ Goto(p, "locking")
    /\ UNCHANGED <<todo, holder, open, schema, names, crashes>>

(* Broken: nobody waits for the lock. *)
LockUnwaiting(p) ==
    /\ pc[p] = "locking"
    /\ holder' = p
    /\ Goto(p, "listing")
    /\ UNCHANGED <<todo, open, schema, names, crashes>>

(* pg_advisory_lock. *)
Lock(p) ==
    /\ pc[p] = "locking"
    /\ holder = NoProc
    /\ holder' = p
    /\ Goto(p, "listing")
    /\ UNCHANGED <<todo, open, schema, names, crashes>>

(* Broken: the loop ends at the first file that is done. *)
MissingUpToFirstDone == {f \in Files : \A g \in 1..f : g \notin names}

(* The files that are not recorded yet. *)
Missing == Files \ names

Following(files) == IF files = {} THEN "unlocking" ELSE "executing"

(* SELECT name FROM schema_migrations. *)
List(p) ==
    /\ pc[p] = "listing"
    /\ todo' = [todo EXCEPT ![p] = Missing]
    /\ Goto(p, Following(Missing))
    /\ UNCHANGED <<holder, open, schema, names, crashes>>

File(p) == CHOOSE f \in todo[p] : \A g \in todo[p] : f <= g

(* Broken: no transaction; the file takes effect before its name is written. *)
ExecuteAtOnce(p) ==
    /\ pc[p] = "executing"
    /\ File(p) \notin schema
    /\ \A q \in Procs : open[q] # File(p)
    /\ open' = [open EXCEPT ![p] = File(p)]
    /\ schema' = schema \union {File(p)}
    /\ Goto(p, "inserting")
    /\ UNCHANGED <<todo, holder, names, crashes>>

(* The statements of a file, which wait for another transaction that creates
   the same tables.  If they exist the statements fail, and the process ends:
   no state from which the code gets there is reached (NoStartBreaks). *)
Execute(p) ==
    /\ pc[p] = "executing"
    /\ File(p) \notin schema
    /\ \A q \in Procs : open[q] # File(p)
    /\ open' = [open EXCEPT ![p] = File(p)]
    /\ Goto(p, "inserting")
    /\ UNCHANGED <<todo, holder, schema, names, crashes>>

(* INSERT INTO schema_migrations. *)
InsertName(p) ==
    /\ pc[p] = "inserting"
    /\ open[p] \notin names
    /\ Goto(p, "committing")
    /\ UNCHANGED <<todo, holder, open, schema, names, crashes>>

(* The block of conn.transaction() ends. *)
Commit(p) ==
    /\ pc[p] = "committing"
    /\ schema' = schema \union {open[p]}
    /\ names' = names \union {open[p]}
    /\ open' = [open EXCEPT ![p] = 0]
    /\ todo' = [todo EXCEPT ![p] = @ \ {open[p]}]
    /\ Goto(p, Following(todo[p] \ {open[p]}))
    /\ UNCHANGED <<holder, crashes>>

(* pg_advisory_unlock; apply_migrations returns and the process serves. *)
Unlock(p) ==
    /\ pc[p] = "unlocking"
    /\ holder' = NoProc
    /\ Goto(p, "serving")
    /\ UNCHANGED <<todo, open, schema, names, crashes>>

----------------------------------------------------------------------------
(* Failures. *)

(* The session ends: no transaction, no lock. *)
EndSession(p, label) ==
    /\ open' = [open EXCEPT ![p] = 0]
    /\ holder' = IF holder = p THEN NoProc ELSE holder
    /\ Goto(p, label)
    /\ UNCHANGED <<todo, schema, names>>

(* command_timeout ends the wait for the lock, and the start with it. *)
GiveUp(p) ==
    /\ pc[p] = "locking"
    /\ age[p] = CommandTimeout
    /\ EndSession(p, "gave_up")
    /\ UNCHANGED crashes

Crash(p) ==
    /\ pc[p] \notin {"off", "gave_up"}
    /\ crashes < MaxCrashes
    /\ crashes' = crashes + 1
    /\ EndSession(p, "off")

(* Postgres grants a free lock at once. *)
Elapse ==
    /\ \A p \in Procs : /\ pc[p] \in Statements => age[p] < StatementTime
                        /\ pc[p] = "locking" => age[p] < CommandTimeout /\ holder # NoProc
    /\ age' = [p \in Procs |-> IF pc[p] \in Statements \union {"locking"}
                               THEN age[p] + 1 ELSE age[p]]
    /\ UNCHANGED <<pc, todo, holder, open, schema, names, crashes>>

----------------------------------------------------------------------------

Step(p) == \/ Lock(p) \/ List(p) \/ Execute(p) \/ InsertName(p) \/ Commit(p) \/ Unlock(p)
           \/ GiveUp(p)

Next == \/ \E p \in Procs : Start(p) \/ Step(p) \/ Crash(p)
        \/ Elapse

Spec == Init /\ [][Next]_vars

(* `restart: unless-stopped` starts processes that ended; statements end. *)
FairSpec == Spec /\ \A p \in Procs : WF_vars(Start(p)) /\ WF_vars(Step(p))

----------------------------------------------------------------------------
(* What start-up promises. *)

(* "starting the API and several workers at the same time on an empty
   database is safe" (db.py): nobody runs a file that somebody else has run
   or is running, so no start ever fails on a file. *)
NoStartBreaks ==
    \A p \in Procs : /\ pc[p] = "executing" => File(p) \notin schema
                     /\ pc[p] \in {"inserting", "committing"} => open[p] \notin names
                     /\ \A q \in Procs \ {p} : open[p] # 0 => open[p] # open[q]

(* A file's effects and its name are committed together and in the order of
   the files, whatever crashes in between: the next start goes on from there. *)
SchemaIsRecorded == schema = names /\ \E n \in 0..NumFiles : schema = 1..n

(* A process that serves has the whole schema under it, although it may have
   done none of it itself. *)
ServesOnFullSchema == \A p \in Procs : pc[p] = "serving" => schema = Files

(* Every process serves in the end, also those that gave up waiting. *)
EveryoneServes == \A p \in Procs : <>[](pc[p] = "serving")

----------------------------------------------------------------------------
(* What the repository says of the program and the program does not do. *)

(* "exactly one of them applies the schema and the rest wait and then see it"
   (db.py): a process that waits for the lock does not fail by waiting. *)
TheRestWait == [][\A p \in Procs : pc[p] = "locking" => pc'[p] # "gave_up"]_vars
=============================================================================
