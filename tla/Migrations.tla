----------------------------- MODULE Migrations -----------------------------
(***************************************************************************)
(* The migration runner of internal/storage.  A release of the program     *)
(* embeds a set of numbered files; a start applies those the database has  *)
(* no record of, in order, each in a transaction with its record.  The     *)
(* database outlives the process, whose release may be another one at the  *)
(* next start.                                                             *)
(*                                                                         *)
(* A body creates objects: it fails when they exist already, or when the   *)
(* objects of the files before it do not (0002 indexes the tables of       *)
(* 0001).  schema_migrations is created IF NOT EXISTS and so is just there. *)
(***************************************************************************)
EXTENDS Integers, FiniteSetsExt

CONSTANT Releases   \* what successive releases embed: sets of versions

\* A release has the files of every earlier one.
ASSUME ReleasesAssumption ==
  /\ Releases \subseteq SUBSET (Nat \ {0})
  /\ \A r \in Releases : IsFiniteSet(r)
  /\ \A r, q \in Releases : r \subseteq q \/ (q \subseteq r /\ \A v \in q, w \in r \ q : v < w)

VARIABLES
  schema,    \* the files whose objects exist in the database
  applied,   \* the versions in schema_migrations
  release,   \* the files of the running process, {} when none runs
  pending,   \* those migrate has yet to apply
  tx         \* the open transaction: "none", or what it has done so far

fileVars    == <<schema, applied>>
migrateVars == <<release, pending, tx>>

MigrationsInit ==
  /\ schema = {} /\ applied = {}
  /\ release = {} /\ pending = {} /\ tx = "none"

\* listMigrations sorts by version.
NextPending == Min(pending)

\* appliedVersions, and the files of the release without them.
ReadApplied(r) ==
  /\ release' = r /\ pending' = r \ applied /\ tx' = "none"
  /\ UNCHANGED fileVars

BodyFails == NextPending \in schema \/ \E w \in release : w < NextPending /\ w \notin schema

\* A plausible bug: the body runs on the database, not in the transaction.
ExecBodyOutside ==
  /\ pending # {} /\ tx = "none" /\ ~ BodyFails
  /\ schema' = schema \cup {NextPending} /\ tx' = "body"
  /\ UNCHANGED <<applied, release, pending>>

\* applyMigration: BEGIN and the body.
ExecBody ==
  /\ pending # {} /\ tx = "none" /\ ~ BodyFails
  /\ tx' = "body"
  /\ UNCHANGED <<fileVars, release, pending>>

RecordVersion ==
  /\ tx = "body" /\ NextPending \notin applied
  /\ tx' = "recorded"
  /\ UNCHANGED <<fileVars, release, pending>>

\* A plausible bug: migrate returns after the first file.
CommitAndReturn ==
  /\ tx = "recorded" /\ tx' = "none"
  /\ schema' = schema \cup {NextPending} /\ applied' = applied \cup {NextPending}
  /\ pending' = {}
  /\ UNCHANGED release

\* A plausible bug: what is pending is listed afresh, the record unread.
CommitAndRelist ==
  /\ tx = "recorded" /\ tx' = "none"
  /\ schema' = schema \cup {NextPending} /\ applied' = applied \cup {NextPending}
  /\ pending' = release
  /\ UNCHANGED release

Commit ==
  /\ tx = "recorded" /\ tx' = "none"
  /\ schema' = schema \cup {NextPending} /\ applied' = applied \cup {NextPending}
  /\ pending' = pending \ {NextPending}
  /\ UNCHANGED release

\* The process ends: an open transaction is rolled back.
Rollback ==
  /\ release' = {} /\ pending' = {} /\ tx' = "none"
  /\ UNCHANGED fileVars

MigrateStep == ExecBody \/ RecordVersion \/ Commit
Migrated == pending = {} /\ tx = "none"
=============================================================================
