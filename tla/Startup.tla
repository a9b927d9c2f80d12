------------------------------- MODULE Startup -------------------------------
(***************************************************************************)
(* The start of the API (main/main.go) and the migrations it applies before *)
(* it serves (database/migrations/runner.go), by processes of several      *)
(* releases that share one database: a deployment starts the next release  *)
(* beside the one that serves, and a restart follows a crash.              *)
(*                                                                         *)
(* golang-migrate runs each migration in three statements of their own:    *)
(* mark its version dirty, run its SQL, mark it clean.  It holds a session *)
(* lock of PostgreSQL meanwhile, which ends with the connection.           *)
(***************************************************************************)
EXTENDS Naturals, Sequences, FiniteSets

CONSTANTS
    Process,
    Release,
    Version,        \* the timestamps of migrations
    Embedded,       \* per release: the versions embedded in its binary
    None,           \* nobody holds the lock
    MaxStarts       \* bound on the starts of a behaviour

ASSUME StartupAssumption ==
    /\ Version \subseteq Nat \ {0}
    /\ Embedded \in [Release -> SUBSET Version]
    /\ None \notin Process
    /\ MaxStarts \in Nat

VARIABLES
    pc,         \* per process: the statement it is at
    release,    \* per process: the release it runs
    todo,       \* per process: the migration it applies, or 0
    holder,     \* the process that holds the advisory lock, or None
    recorded,   \* the version in the table migrations, or 0
    dirty,      \* its dirty flag
    applied,    \* history: the migrations whose SQL was committed
    starts      \* starts so far

vars == <<pc, release, todo, holder, recorded, dirty, applied, starts>>
database == <<recorded, dirty, applied>>

Migrating == {"read", "mark", "run", "clear"}
Starting == {"connect", "table", "lock", "listen"} \cup Migrating

Schema == {applied[i] : i \in DOMAIN applied}

TypeOK ==
    /\ pc \in [Process -> Starting \cup {"off", "serve"}]
    /\ release \in [Process -> Release]
    /\ todo \in [Process -> Version \cup {0}]
    /\ holder \in Process \cup {None}
    /\ recorded \in Version \cup {0}
    /\ dirty \in BOOLEAN
    /\ applied \in Seq(Version)
    /\ starts \in 0..MaxStarts

Init ==
    /\ pc = [p \in Process |-> "off"]
    /\ release \in [Process -> Release]
    /\ todo = [p \in Process |-> 0]
    /\ holder = None
    /\ recorded = 0
    /\ dirty = FALSE
    /\ applied = <<>>
    /\ starts = 0

At(p, step) == pc[p] = step
Goes(p, step) == pc' = [pc EXCEPT ![p] = step]
Released(p) == IF holder = p THEN None ELSE holder

\* The migrations still to be applied once `version` is recorded.
Pending(p, version) == {v \in Embedded[release[p]] : v > version}

First(S) == CHOOSE v \in S : \A w \in S : v <= w

\* Faulty variant: the dirty flag is not looked at.
RecognisedDirty(p) == recorded \in Embedded[release[p]] \cup {0}

\* The table of versions is clean and at a version this binary knows.
Recognised(p) == ~dirty /\ recorded \in Embedded[release[p]] \cup {0}

\* Faulty variant: the lock is a row of a table and outlives the process.
ExitsLocked(p) ==
    /\ Goes(p, "off")
    /\ todo' = [todo EXCEPT ![p] = 0]
    /\ UNCHANGED <<release, holder, starts>>

\* log.Fatal, or a crash: the connection ends and the lock with it.
Exits(p) ==
    /\ Goes(p, "off")
    /\ todo' = [todo EXCEPT ![p] = 0]
    /\ holder' = Released(p)
    /\ UNCHANGED <<release, starts>>

\* Goes on with the first migration after `version`, or unlocks and is done.
Continues(p, version) ==
    IF Pending(p, version) = {}
    THEN /\ Goes(p, "listen")
         /\ todo' = [todo EXCEPT ![p] = 0]
         /\ holder' = Released(p)
    ELSE /\ Goes(p, "mark")
         /\ todo' = [todo EXCEPT ![p] = First(Pending(p, version))]
         /\ UNCHANGED holder

-----------------------------------------------------------------------------
(* main and migrations.New.                                                 *)
Starts(p, r) ==
    /\ At(p, "off")
    /\ starts < MaxStarts
    /\ Goes(p, "connect")
    /\ release' = [release EXCEPT ![p] = r]
    /\ starts' = starts + 1
    /\ UNCHANGED <<todo, holder, database>>

\* The configuration is complete and the database answers a ping.
Connects(p) ==
    /\ At(p, "connect")
    /\ Goes(p, "table")
    /\ UNCHANGED <<release, todo, holder, database, starts>>

\* WithConnection creates the table under the lock, for which it waits however long.
EnsuresTable(p) ==
    /\ At(p, "table")
    /\ holder = None
    /\ Goes(p, "lock")
    /\ UNCHANGED <<release, todo, holder, database, starts>>

-----------------------------------------------------------------------------
(* migrator.Up.                                                             *)

\* Faulty variant: the lock is not taken.
LocksNothing(p) ==
    /\ At(p, "lock")
    /\ Goes(p, "read")
    /\ UNCHANGED <<release, todo, holder, database, starts>>

Locks(p) ==
    /\ At(p, "lock")
    /\ holder = None
    /\ holder' = p
    /\ Goes(p, "read")
    /\ UNCHANGED <<release, todo, database, starts>>

\* ErrLockTimeout after 15 s.
LockTimesOut(p) ==
    /\ At(p, "lock")
    /\ holder # None
    /\ Exits(p)
    /\ UNCHANGED database

\* ErrDirty, or a recorded version that is not among the embedded files, end the
\* start; ErrNoChange does not.
Reads(p) ==
    /\ At(p, "read")
    /\ IF Recognised(p) THEN Continues(p, recorded) /\ UNCHANGED <<release, starts>>
                        ELSE Exits(p)
    /\ UNCHANGED database

Marks(p) ==
    /\ At(p, "mark")
    /\ recorded' = todo[p]
    /\ dirty' = TRUE
    /\ Goes(p, "run")
    /\ UNCHANGED <<release, todo, holder, applied, starts>>

\* The file is one simple query, so PostgreSQL commits it as a whole or not at all.
Runs(p) ==
    /\ At(p, "run")
    /\ applied' = Append(applied, todo[p])
    /\ Goes(p, "clear")
    /\ UNCHANGED <<release, todo, holder, recorded, dirty, starts>>

Clears(p) ==
    /\ At(p, "clear")
    /\ dirty' = FALSE
    /\ Continues(p, todo[p])
    /\ UNCHANGED <<release, recorded, applied, starts>>

-----------------------------------------------------------------------------
(* The rest of main.                                                        *)

\* NewServer, the routes, and both servers.
Listens(p) ==
    /\ At(p, "listen")
    /\ Goes(p, "serve")
    /\ UNCHANGED <<release, todo, holder, database, starts>>

\* Any error on the way ends the process, as a crash does and either server's
\* error later (log.Fatal).  The statement at hand may have been carried out.
Stops(p) ==
    /\ ~At(p, "off")
    /\ Exits(p)
    /\ \/ UNCHANGED database
       \/ /\ At(p, "mark")
          /\ recorded' = todo[p]
          /\ dirty' = TRUE
          /\ UNCHANGED applied
       \/ /\ At(p, "run")
          /\ applied' = Append(applied, todo[p])
          /\ UNCHANGED <<recorded, dirty>>
       \/ /\ At(p, "clear")
          /\ dirty' = FALSE
          /\ UNCHANGED <<recorded, applied>>

Proceeds(p) ==
    \/ Connects(p)
    \/ EnsuresTable(p)
    \/ Locks(p) \/ LockTimesOut(p)
    \/ Reads(p) \/ Marks(p) \/ Runs(p) \/ Clears(p)
    \/ Listens(p)

Next ==
    \E p \in Process :
        \/ \E r \in Release : Starts(p, r)
        \/ Proceeds(p)
        \/ Stops(p)

Spec == Init /\ [][Next]_vars

\* A process that can go on does; PostgreSQL serves those who wait for a lock in
\* their order, so a lock that is free again and again is taken.
Fairness == \A p \in Process : WF_vars(Proceeds(p)) /\ SF_vars(EnsuresTable(p))
FairSpec == Spec /\ Fairness

-----------------------------------------------------------------------------
(* Properties.                                                              *)

\* A later migration was applied by a release that did not have v yet.
MergedLate(v) ==
    \E w \in Schema, r \in Release :
        w > v /\ w \in Embedded[r] /\ v \notin Embedded[r]

\* A process that serves finds the schema of its release, whatever failed and
\* whoever migrated before; only a migration merged after a later one was
\* deployed is missing (README.md:158-168, main.go:61-64).
ServesItsSchema ==
    \A p \in Process : At(p, "serve") =>
        \A v \in Embedded[release[p]] \ Schema : MergedLate(v)

\* Concurrent starts, failures and restarts never run the SQL of a migration
\* twice, nor one before an earlier one (migrations.Up).
AppliedOnceInOrder ==
    \A i, j \in DOMAIN applied : i < j => applied[i] < applied[j]

\* Every start comes to serve or to exit, also when another process holds the
\* lock and crashes with it (main.go:61, runner.go:95).
StartsEnd ==
    \A p \in Process : At(p, "connect") ~> At(p, "serve") \/ At(p, "off")
=============================================================================
