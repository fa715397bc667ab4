------------------------------ MODULE Migrator ------------------------------
(***************************************************************************)
(* storage/postgres/migrator.py: any number of processes (replicas that    *)
(* migrate at start, operators at a shell) apply, roll back and force      *)
(* numbered migrations of one database.                                    *)
(*                                                                         *)
(* A statement outside a transaction is a step of its own: whatever the    *)
(* process does next, another process or a crash may come first.  The      *)
(* block under conn.transaction() is one step that commits or one that     *)
(* does nothing.  A process that dies loses its connection, which ends its *)
(* transaction and its advisory lock.                                      *)
(***************************************************************************)
EXTENDS Integers, FiniteSets

CONSTANTS
  Procs,        \* processes that may call the migrator
  Latest,       \* migrations are numbered 1 .. Latest, 1 is the baseline
  Downs,        \* those with a down.sql
  Ops,          \* calls made: "up", "down", "force", "status"
  MaxCalls,     \* bound: calls made in a behaviour
  MaxCrashes,   \* bound: processes killed in a call
  None

ASSUME MigratorAssumption ==
  /\ Latest \in Nat \ {0} /\ Downs \subseteq 1 .. Latest
  /\ Ops \subseteq {"up", "down", "force", "status"}
  /\ MaxCalls \in Nat /\ MaxCrashes \in Nat
  /\ None \notin Procs

Versions == 1 .. Latest
Row == [version : Versions, dirty : BOOLEAN]

VARIABLES
  table,     \* schema_migrations exists
  rows,      \* its rows; one at most is intended
  schema,    \* migrations whose effect is in the database
  lock,      \* process that holds the advisory lock, or None
  call,      \* what each process is doing: [op, at, version, last]
  calls, crashes,
  rowLost,   \* a process died between DELETE and INSERT of _write_status
  overlap    \* a force ran while another process held the lock

db == <<table, rows, schema, lock>>
mvars == <<table, rows, schema, lock, call, calls, crashes, rowLost, overlap>>

\* A call works its migrations off one by one, from version to last.
Idle == [op |-> "none", at |-> "idle", version |-> 0, last |-> 0]
Version(p) == call[p].version
Newest == CHOOSE v \in schema : \A w \in schema : w <= v
GoTo(p, at) == call' = [call EXCEPT ![p].at = at]

MigratorInit ==
  /\ table = FALSE /\ rows = {} /\ schema = {} /\ lock = None
  /\ call = [p \in Procs |-> Idle]
  /\ calls = 0 /\ crashes = 0
  /\ rowLost = FALSE /\ overlap = FALSE

\* A force that is under way while somebody holds the lock.
Overlapping == lock # None /\ \E p \in Procs : call[p].op = "force"

Ghosts == /\ overlap' = (overlap \/ Overlapping')
          /\ UNCHANGED rowLost

\* The tracking table is created before the lock is asked for.  force names
\* the version an operator found the schema at; it asks for no lock.
Begin(p, op) ==
  /\ call[p] = Idle /\ calls < MaxCalls
  /\ op = "force" => schema # {}
  /\ calls' = calls + 1
  /\ table' = TRUE
  /\ call' = [call EXCEPT ![p] =
       CASE op = "status" -> Idle
         [] op = "force"  -> [op |-> op, at |-> "delete", version |-> Newest, last |-> Newest]
         [] OTHER         -> [Idle EXCEPT !.op = op, !.at = "lock"]]
  /\ UNCHANGED <<rows, schema, lock, crashes>>
  /\ Ghosts

AcquireLock(p) ==
  /\ call[p].at = "lock" /\ lock = None
  /\ lock' = p
  /\ GoTo(p, "read")
  /\ UNCHANGED <<table, rows, schema, calls, crashes>>
  /\ Ghosts

\* The deadline passes while another process holds the lock: TimeoutError.
LockTimeout(p) ==
  /\ call[p].at = "lock" /\ lock # None
  /\ call' = [call EXCEPT ![p] = Idle]
  /\ UNCHANGED <<db, calls, crashes>>
  /\ Ghosts

\* Mutant: the dirty flag is not looked at.
StatusesClean ==
  IF rows = {} THEN {[version |-> 0, dirty |-> FALSE]} ELSE {[r EXCEPT !.dirty = FALSE] : r \in rows}

\* _read_status: LIMIT 1 picks any row; no row reads as "nothing applied".
Statuses == IF rows = {} THEN {[version |-> 0, dirty |-> FALSE]} ELSE rows

\* What up has to apply and what down(steps) has to roll back: the first and
\* the last version, none when the first lies behind the last.
Pending(status) == [version |-> status.version + 1, last |-> Latest]
Targets(status, steps) ==
  [version |-> status.version,
   last |-> IF steps < status.version THEN status.version - steps + 1 ELSE 1]

\* A dirty row, or for down an empty table, is refused; so is a table that a
\* rollback of the baseline dropped while this process waited for the lock.
ReadStatus(p) ==
  /\ call[p].at = "read"
  /\ \E status \in Statuses, steps \in Versions :
       LET todo == IF call[p].op = "up" THEN Pending(status) ELSE Targets(status, steps)
           none == ~table \/ status.dirty
                   \/ IF call[p].op = "up" THEN todo.version > Latest ELSE status.version = 0
       IN  IF none THEN GoTo(p, "unlock")
           ELSE call' = [call EXCEPT ![p] = [op |-> @.op, at |-> "delete",
                                             version |-> todo.version, last |-> todo.last]]
  /\ UNCHANGED <<db, calls, crashes>>
  /\ Ghosts

\* _write_status is two statements.  A rollback stops at a migration without
\* down.sql before it writes anything for it.
DeleteRow(p) ==
  /\ call[p].at = "delete"
  /\ IF table /\ (call[p].op = "down" => Version(p) \in Downs)
       THEN rows' = {} /\ GoTo(p, "insert")
       ELSE UNCHANGED rows /\ GoTo(p, "unlock")
  /\ UNCHANGED <<table, schema, lock, calls, crashes>>
  /\ Ghosts

InsertRow(p) ==
  /\ call[p].at = "insert"
  /\ IF table /\ \A r \in rows : r.version # Version(p)
       THEN /\ rows' = rows \union {[version |-> Version(p), dirty |-> call[p].op # "force"]}
            /\ GoTo(p, IF call[p].op = "force" THEN "unlock" ELSE "apply")
       ELSE UNCHANGED rows /\ GoTo(p, "unlock")
  /\ UNCHANGED <<table, schema, lock, calls, crashes>>
  /\ Ghosts

NextMigration(p) ==
  IF Version(p) = call[p].last THEN GoTo(p, "unlock")
  ELSE call' = [call EXCEPT ![p].at = "delete",
                            ![p].version = IF call[p].op = "up" THEN @ + 1 ELSE @ - 1]

\* The transaction of up: the migration and its clean row, together.
ApplyUp(p) ==
  /\ call[p].at = "apply" /\ call[p].op = "up" /\ table
  /\ schema' = schema \union {Version(p)}
  /\ rows' = {[version |-> Version(p), dirty |-> FALSE]}
  /\ NextMigration(p)
  /\ UNCHANGED <<table, lock, calls, crashes>>
  /\ Ghosts

\* The transaction of down: the baseline takes the tracking table with it.
ApplyDown(p) ==
  /\ call[p].at = "apply" /\ call[p].op = "down" /\ table
  /\ IF Version(p) = 1
       THEN schema' = {} /\ rows' = {} /\ table' = FALSE
       ELSE /\ schema' = schema \ {Version(p)}
            /\ rows' = {[version |-> Version(p) - 1, dirty |-> FALSE]}
            /\ UNCHANGED table
  /\ NextMigration(p)
  /\ UNCHANGED <<lock, calls, crashes>>
  /\ Ghosts

\* The migration's SQL fails: its transaction is rolled back, the row stays.
ApplyFails(p) ==
  /\ call[p].at = "apply"
  /\ GoTo(p, "unlock")
  /\ UNCHANGED <<db, calls, crashes>>
  /\ Ghosts

Unlock(p) ==
  /\ call[p].at = "unlock"
  /\ lock' = IF lock = p THEN None ELSE lock
  /\ call' = [call EXCEPT ![p] = Idle]
  /\ UNCHANGED <<table, rows, schema, calls, crashes>>
  /\ Ghosts

Die(p) ==
  /\ call[p] # Idle /\ crashes < MaxCrashes
  /\ crashes' = crashes + 1
  /\ lock' = IF lock = p THEN None ELSE lock
  /\ call' = [call EXCEPT ![p] = Idle]
  /\ rowLost' = (rowLost \/ call[p].at = "insert")
  /\ UNCHANGED <<table, rows, schema, calls, overlap>>

Step(p) == \/ AcquireLock(p) \/ LockTimeout(p) \/ ReadStatus(p)
           \/ DeleteRow(p) \/ InsertRow(p)
           \/ ApplyUp(p) \/ ApplyDown(p) \/ ApplyFails(p) \/ Unlock(p)

MigratorNext ==
  \E p \in Procs : Step(p) \/ Die(p) \/ \E op \in Ops : Begin(p, op)

MigratorSpec == MigratorInit /\ [][MigratorNext]_mvars

(***************************************************************************)
(* Properties.                                                             *)
(***************************************************************************)

MigratorTypeOK ==
  /\ table \in BOOLEAN /\ rows \subseteq Row /\ schema \subseteq Versions
  /\ lock \in Procs \union {None}
  /\ \A p \in Procs : call[p].at \in
       {"idle", "lock", "read", "delete", "insert", "apply", "unlock"}

\* A clean row is the truth about the schema: every migration up to its
\* version has taken effect and no later one.  Failed migrations, processes
\* killed in the middle, waits for the lock, roll backs to nothing and force
\* keep it so, with two exceptions that the two flags name: a process killed
\* between the two statements of _write_status (migrator.py:145-152), and a
\* force that overlaps a call that holds the lock (migrator.py:249-255).
CleanRowTellsSchema ==
  (~rowLost /\ ~overlap) =>
    /\ Cardinality(rows) <= 1
    /\ \A r \in rows : ~r.dirty => schema = 1 .. r.version
=============================================================================
