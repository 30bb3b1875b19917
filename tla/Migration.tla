----------------------------- MODULE Migration -----------------------------
(***************************************************************************)
(* The migrations a server runs before it serves.  A migration is marked   *)
(* dirty, applied in a transaction and marked clean, in three separate     *)
(* steps; the process may die between any two of them and another one may  *)
(* start on the same database.                                             *)
(***************************************************************************)
EXTENDS Naturals

CONSTANTS Servers,  \* processes that start on the database
          Last      \* the last migration; they are numbered from 1

ASSUME LastIsNumber == Last \in Nat

VARIABLES
    mark,     \* schema_migrations: absent, dirty or clean
    applied,  \* how often the SQL of each migration has been committed
    server    \* each process: its step and the migration it is at

migrationVars == <<mark, applied, server>>

Versions == 1..Last
Steps == {"down", "read", "begin", "apply", "clean", "serving"}

At(p, step, v) == server' = [server EXCEPT ![p] = [step |-> step, at |-> v]]

\* The version after v, or the server when there is none.
NextVersion(p, v) == IF v = Last THEN At(p, "serving", v) ELSE At(p, "read", v + 1)

\* Open: loadMigrations sorts by version.
Open(p) == /\ server[p].step = "down"
           /\ At(p, IF Last = 0 THEN "serving" ELSE "read", 1)
           /\ UNCHANGED <<mark, applied>>

\* migrationStatus: a clean migration is passed over.
PassOver(p) == LET v == server[p].at
               IN /\ server[p].step = "read"
                  /\ mark[v] = "clean"
                  /\ NextVersion(p, v)
                  /\ UNCHANGED <<mark, applied>>

\* RunMigrations: a dirty one ends the process.
RefuseDirty(p) == /\ server[p].step = "read"
                  /\ mark[server[p].at] = "dirty"
                  /\ At(p, "down", 1)
                  /\ UNCHANGED <<mark, applied>>

\* One that is absent is to be applied.
SeeAbsent(p) == /\ server[p].step = "read"
                /\ mark[server[p].at] = "absent"
                /\ At(p, "begin", server[p].at)
                /\ UNCHANGED <<mark, applied>>

\* mutant: INSERT ... ON CONFLICT DO NOTHING
MarkDirtyAgain(p) ==
    LET v == server[p].at
    IN /\ server[p].step = "begin" /\ mark[v] \in {"absent", "dirty", "clean"}
       /\ mark' = [mark EXCEPT ![v] = IF @ = "absent" THEN "dirty" ELSE @]
       /\ server' = [server EXCEPT ![p].step = "apply"]
       /\ UNCHANGED applied

\* The INSERT fails when another process has marked the version already.
MarkDirty(p) ==
    LET v == server[p].at
    IN /\ server[p].step = "begin" /\ mark[v] = "absent"
       /\ mark' = [mark EXCEPT ![v] = "dirty"]
       /\ server' = [server EXCEPT ![p].step = "apply"]
       /\ UNCHANGED applied

\* The transaction of the migration's SQL commits.
Apply(p) ==
    LET v == server[p].at
    IN /\ server[p].step = "apply"
       /\ applied' = [applied EXCEPT ![v] = @ + 1]
       /\ server' = [server EXCEPT ![p].step = "clean"]
       /\ UNCHANGED mark

MarkClean(p) ==
    LET v == server[p].at
    IN /\ server[p].step = "clean"
       /\ mark' = [mark EXCEPT ![v] = "clean"]
       /\ NextVersion(p, v)
       /\ UNCHANGED applied

\* A statement fails, the 30 s are over, or the process is killed.
Dies(p) == /\ server[p].step # "down"
           /\ At(p, "down", 1)
           /\ UNCHANGED <<mark, applied>>

-----------------------------------------------------------------------------

MigrationInit == /\ mark = [v \in Versions |-> "absent"]
                 /\ applied = [v \in Versions |-> 0]
                 /\ server = [p \in Servers |-> [step |-> "down", at |-> 1]]

MigrationNext ==
    \E p \in Servers : \/ Open(p) \/ PassOver(p) \/ RefuseDirty(p) \/ SeeAbsent(p)
                       \/ MarkDirty(p) \/ Apply(p) \/ MarkClean(p) \/ Dies(p)

MigrationSpec == MigrationInit /\ [][MigrationNext]_migrationVars

-----------------------------------------------------------------------------
(* Properties *)

MigrationTypeOK == /\ mark \in [Versions -> {"absent", "dirty", "clean"}]
                   /\ applied \in [Versions -> Nat]
                   /\ \A p \in Servers : server[p] \in [step : Steps, at : Nat \ {0}]

\* The SQL of a migration is committed at most once, though processes die and
\* start side by side, and not at all before it is marked.
AppliedOnce == \A v \in Versions : applied[v] <= IF mark[v] = "absent" THEN 0 ELSE 1

\* A migration that is marked clean has been applied, and so have the ones
\* before it: a schema is never served half migrated and taken for whole.
CleanIsApplied ==
    \A v \in Versions : mark[v] = "clean" => \A w \in 1..v : applied[w] = 1 /\ mark[w] = "clean"

\* A process serves only on a schema that is migrated to the last version.
ServesMigrated == \A p \in Servers : server[p].step = "serving" =>
                                       \A v \in Versions : applied[v] = 1 /\ mark[v] = "clean"

\* A schema is whole or is not served, whatever dies and whatever starts side by
\* side: see the three parts.
SchemaWhole == AppliedOnce /\ CleanIsApplied /\ ServesMigrated

=============================================================================
