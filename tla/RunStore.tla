------------------------------ MODULE RunStore ------------------------------
(***************************************************************************)
(* The SQLite run store (gitseed/storage.py, gitseed/storage_schema.py),   *)
(* opened by several gitseed processes at once: each opens the file,       *)
(* migrates the schema, and saves one run or lists the history.            *)
(*                                                                         *)
(* migrate() reads the version and looks for tables outside any            *)
(* transaction, and executescript() commits every statement by itself, so  *)
(* every statement is a step of its own here.  The insert of a run and the *)
(* inserts of its observations are one transaction each.  A statement may  *)
(* fail (locked file, full disk) and a process may die at every step.      *)
(***************************************************************************)
EXTENDS Naturals, Sequences

CONSTANTS Procs,    \* gitseed processes
          Ids,      \* run ids, fresh or given with --run-id
          Repos,    \* repositories a run can have collected
          NoRun,    \* no --corrects
          Runs,     \* the runs gitseed is asked to store
          History   \* the job of `gitseed radar --history`

SchemaVersion == 2

\* The statements of the script that migrates from version v.
Script(v) ==
  IF v = 0
  THEN <<"run_artifacts", "run_artifacts_no_update", "run_artifacts_no_delete">>
  ELSE <<"observations", "observations_no_update", "observations_no_delete">>

\* What a script has made before its k-th statement, and what version v has.
Made(v, k) == {Script(v)[i] : i \in 1 .. k - 1}
Parts(v)   == UNION {Made(u, 4) : u \in {w \in {0, 1} : w < v}}

\* A run to be stored: its id, the run it corrects, whether its artifact has a
\* start time, and the repositories it collected.
Artifacts == [id : Ids, corrects : Ids \union {NoRun}, dated : BOOLEAN, repos : SUBSET Repos]
Jobs      == Runs \union {History}

ASSUME RunsAreArtifacts   == Runs \subseteq Artifacts
ASSUME NoRunIsNoId        == NoRun \notin Ids
ASSUME HistoryIsNoRun     == History \notin Runs

VARIABLES
  version,       \* PRAGMA user_version
  schema,        \* the tables and triggers of the file; "foreign": not gitseed's
  runs,          \* the rows of run_artifacts
  observations,  \* the rows of repository_observations
  pc,            \* pc[p]: what p does next
  job,           \* job[p]: what p opened the store for
  seen,          \* seen[p]: the local variable `version` of migrate()
  step,          \* step[p]: the next statement of the script p executes
  told,          \* history: what processes said about the run they saved
  refused,       \* history: the files refused, by what was said of their schema
  cut            \* history: a script was left in its middle

file  == <<version, schema, runs, observations>>
local == <<pc, job, seen, step>>
said  == <<told, refused>>
vars  == <<file, local, said, cut>>

Stages == {"idle", "version", "tables", "create", "set version", "use", "observe"}

\* The file: new, gitseed's at version 1 or 2 with or without a run from before,
\* somebody else's, or a later gitseed's.
Init ==
  /\ \/ version = 0 /\ schema \in {{}, {"foreign"}} /\ runs = {}
     \/ version \in {1, 2} /\ schema = Parts(version)
        /\ runs \in {{}} \union {{a} : a \in {b \in Runs : b.corrects = NoRun}}
     \/ version = SchemaVersion + 1 /\ schema = {"foreign"} /\ runs = {}
  /\ observations = {}
  /\ pc = [p \in Procs |-> "idle"]
  /\ job = [p \in Procs |-> History]
  /\ seen = [p \in Procs |-> 0]
  /\ step = [p \in Procs |-> 1]
  /\ told = {} /\ refused = {} /\ cut = FALSE

Goto(p, to) == pc' = [pc EXCEPT ![p] = to]

\* p is between two statements of one script.
MidScript(p) == pc[p] = "set version" \/ (pc[p] = "create" /\ step[p] > 1)

\* p closes the store; its local variables are gone.
Close(p) ==
  /\ Goto(p, "idle")
  /\ job' = [job EXCEPT ![p] = History]
  /\ seen' = [seen EXCEPT ![p] = 0]
  /\ step' = [step EXCEPT ![p] = 1]

Says(p, what) ==
  /\ told' = told \union {[run |-> job[p], what |-> what]}
  /\ UNCHANGED refused

Refuse(p, what) ==
  /\ refused' = refused \union {what}
  /\ UNCHANGED told

-----------------------------------------------------------------------------
(* SQLiteRunStore.__init__ and migrate. *)

Open(p, j) ==
  /\ pc[p] = "idle"
  /\ Goto(p, "version")
  /\ job' = [job EXCEPT ![p] = j]
  /\ UNCHANGED <<file, seen, step, said, cut>>

\* Mutant: version 1 passes for the current one.
ContinueTooSoon(v) == IF v < SchemaVersion - 1 THEN "create" ELSE "use"

\* Where the migration loop goes with local version v.
Continue(v) == IF v < SchemaVersion THEN "create" ELSE "use"

\* Mutant: a newer file is not refused.
ReadAnyVersion(p) ==
  /\ pc[p] = "version"
  /\ seen' = [seen EXCEPT ![p] = version]
  /\ Goto(p, IF version = 0 THEN "tables" ELSE Continue(version))
  /\ UNCHANGED <<file, job, step, said, cut>>

ReadVersion(p) ==
  /\ pc[p] = "version"
  /\ version <= SchemaVersion
  /\ seen' = [seen EXCEPT ![p] = version]
  /\ Goto(p, IF version = 0 THEN "tables" ELSE Continue(version))
  /\ UNCHANGED <<file, job, step, said, cut>>

RefuseNewer(p) ==
  /\ pc[p] = "version"
  /\ version > SchemaVersion
  /\ Refuse(p, "newer")
  /\ Close(p)
  /\ UNCHANGED <<file, cut>>

\* Mutant: nobody looks for tables.
TablesOrNot(p) ==
  /\ pc[p] = "tables"
  /\ Goto(p, Continue(seen[p]))
  /\ UNCHANGED <<file, job, seen, step, said, cut>>

NoTables(p) ==
  /\ pc[p] = "tables"
  /\ schema = {}
  /\ Goto(p, Continue(seen[p]))
  /\ UNCHANGED <<file, job, seen, step, said, cut>>

RefuseOlder(p) ==
  /\ pc[p] = "tables"
  /\ schema # {}
  /\ Refuse(p, "older")
  /\ Close(p)
  /\ UNCHANGED <<file, cut>>

\* Mutant: the script ends before its last statement.
CreateAllButLast(p) == LET s == Script(seen[p]) IN
  /\ pc[p] = "create"
  /\ s[step[p]] \notin schema
  /\ schema' = schema \union {s[step[p]]}
  /\ step' = [step EXCEPT ![p] = @ + 1]
  /\ Goto(p, IF step[p] = Len(s) - 1 THEN "set version" ELSE "create")
  /\ UNCHANGED <<version, runs, observations, job, seen, said, cut>>

\* Mutant: CREATE ... IF NOT EXISTS.
CreateIfMissing(p) == LET s == Script(seen[p]) IN
  /\ pc[p] = "create"
  /\ schema' = schema \union {s[step[p]]}
  /\ step' = [step EXCEPT ![p] = @ + 1]
  /\ Goto(p, IF step[p] = Len(s) THEN "set version" ELSE "create")
  /\ UNCHANGED <<version, runs, observations, job, seen, said, cut>>

\* One CREATE of the script; it fails (StatementFails) when the name is taken.
Create(p) == LET s == Script(seen[p]) IN
  /\ pc[p] = "create"
  /\ s[step[p]] \notin schema
  /\ schema' = schema \union {s[step[p]]}
  /\ step' = [step EXCEPT ![p] = @ + 1]
  /\ Goto(p, IF step[p] = Len(s) THEN "set version" ELSE "create")
  /\ UNCHANGED <<version, runs, observations, job, seen, said, cut>>

SetVersion(p) ==
  /\ pc[p] = "set version"
  /\ version' = seen[p] + 1
  /\ seen' = [seen EXCEPT ![p] = @ + 1]
  /\ step' = [step EXCEPT ![p] = 1]
  /\ Goto(p, Continue(seen[p] + 1))
  /\ UNCHANGED <<schema, runs, observations, job, said, cut>>

-----------------------------------------------------------------------------
(* save, history. *)

StoredIds == {a.id : a \in runs}

\* The primary key is new and the foreign key points to a row: one that is
\* there, or the row itself.
Insertable(a) ==
  /\ a.id \notin StoredIds
  /\ a.corrects \in StoredIds \union {a.id, NoRun}

SaveRun(p) ==
  /\ pc[p] = "use" /\ job[p] # History
  /\ Insertable(job[p])
  /\ runs' = runs \union {job[p]}
  /\ IF job[p].dated
     THEN Goto(p, "observe") /\ UNCHANGED <<job, seen, step, said>>
     ELSE Says(p, "stored") /\ Close(p)
  /\ UNCHANGED <<version, schema, observations, cut>>

ObservationsOf(a) == {[run |-> a.id, repo |-> r] : r \in a.repos}

SaveObservations(p) ==
  /\ pc[p] = "observe"
  /\ observations' = observations \union ObservationsOf(job[p])
  /\ Says(p, "stored")
  /\ Close(p)
  /\ UNCHANGED <<version, schema, runs, cut>>

\* Mutant: the error is swallowed.
ObservationsFailQuietly(p) ==
  /\ pc[p] = "observe"
  /\ Says(p, "stored")
  /\ Close(p)
  /\ UNCHANGED <<file, cut>>

\* ObservationWriteError: the run stays, the caller prints a warning.
ObservationsFail(p) ==
  /\ pc[p] = "observe"
  /\ Says(p, "not observed")
  /\ Close(p)
  /\ UNCHANGED <<file, cut>>

ListHistory(p) ==
  /\ pc[p] = "use" /\ job[p] = History
  /\ Close(p)
  /\ UNCHANGED <<file, said, cut>>

\* A statement raises: the file is locked or full, the name or the run id is
\* taken, the corrected run is missing.  What was committed before stays.
StatementFails(p) ==
  /\ pc[p] \in {"version", "tables", "create", "set version", "use"}
  /\ Close(p)
  /\ cut' = (cut \/ MidScript(p))
  /\ UNCHANGED <<file, said>>

Die(p) ==
  /\ pc[p] # "idle"
  /\ Close(p)
  /\ cut' = (cut \/ MidScript(p))
  /\ UNCHANGED <<file, said>>

Next == \E p \in Procs :
  \/ \E j \in Jobs : Open(p, j)
  \/ ReadVersion(p) \/ RefuseNewer(p) \/ NoTables(p) \/ RefuseOlder(p)
  \/ Create(p) \/ SetVersion(p)
  \/ SaveRun(p) \/ SaveObservations(p) \/ ObservationsFail(p) \/ ListHistory(p)
  \/ StatementFails(p) \/ Die(p)

Spec == Init /\ [][Next]_vars

-----------------------------------------------------------------------------
(* Properties. *)

Names    == Parts(SchemaVersion) \union {"foreign"}
Ours     == "foreign" \notin schema
Said(a, what) == [run |-> a, what |-> what] \in told

\* Every variable has the values SQLite and the processes give it.
TypeOK ==
  /\ version \in 0 .. SchemaVersion + 1 /\ schema \subseteq Names
  /\ runs \subseteq Runs
  /\ observations \subseteq [run : Ids, repo : Repos]
  /\ pc \in [Procs -> Stages]
  /\ job \in [Procs -> Jobs]
  /\ seen \in [Procs -> 0 .. SchemaVersion]
  /\ step \in [Procs -> 1 .. 4]
  /\ told \subseteq [run : Runs, what : {"stored", "not observed"}]
  /\ refused \subseteq {"newer", "older"}
  /\ cut \in BOOLEAN

\* Racing processes never leave a half-migrated file: unless a migration was
\* cut short by a failure or a kill, a file nobody is migrating has exactly the
\* tables and triggers of its version.
NoHalfMigration ==
  ~cut /\ Ours /\ (\A p \in Procs : ~MidScript(p)) => schema = Parts(version)

\* A row never sits in a table without the triggers that make it immutable.
RowsAreGuarded ==
  /\ runs # {} => Parts(1) \subseteq schema
  /\ observations # {} => Parts(2) \subseteq schema

\* migrate() never takes the version back, however stale what it read is.
VersionNeverGoesBack == [][version' >= version]_vars

\* What a process says of its run is so, and stays so: stored means the run
\* and an observation of everything it collected; a warning means the run and
\* none of its observations.
ToldIsTrue == \A a \in Runs :
  /\ Said(a, "stored") =>
       a \in runs /\ (a.dated => ObservationsOf(a) \subseteq observations)
  /\ Said(a, "not observed") =>
       a \in runs /\ \A o \in observations : o.run # a.id

-----------------------------------------------------------------------------
(* The inductive invariant behind the schema properties. *)

\* The one process inside a script has made what its statements say, on top of
\* the version it read; everybody else's next CREATE hits a name that exists.
MigrationIsExclusive ==
  /\ \A p \in Procs : MidScript(p) =>
       /\ seen[p] = version /\ version < SchemaVersion /\ ~cut
       /\ schema = Parts(version) \union Made(version, step[p])
       /\ pc[p] = "set version" => step[p] = 4
       /\ pc[p] = "create" => step[p] < 4
  /\ \A p, q \in Procs : MidScript(p) /\ MidScript(q) => p = q
  /\ \A p \in Procs : pc[p] = "tables" => seen[p] = 0
  /\ \A p \in Procs : pc[p] \notin {"create", "set version"} => step[p] = 1
  /\ \A p \in Procs : pc[p] = "create" => seen[p] <= version /\ seen[p] < SchemaVersion

\* Who got as far as using the store uses the current schema.
UsersAreCurrent == \A p \in Procs :
  /\ pc[p] \in {"create", "set version", "use", "observe"} => Ours
  /\ pc[p] \in {"use", "observe"} => version = SchemaVersion
  /\ pc[p] = "observe" => job[p] \in runs /\ job[p].dated

\* The file has at least what its version promises, and a script that was cut
\* short left its first statement behind.
FileIsReadable ==
  /\ Ours => version <= SchemaVersion /\ Parts(version) \subseteq schema
  /\ ~Ours => version \in {0, SchemaVersion + 1} /\ schema = {"foreign"}
  /\ cut => version < SchemaVersion /\ Script(version)[1] \in schema /\ Ours
  /\ runs # {} => version >= 1 /\ Ours
  /\ observations # {} => version = SchemaVersion /\ Ours

IInv ==
  /\ TypeOK
  /\ MigrationIsExclusive
  /\ UsersAreCurrent
  /\ FileIsReadable
  /\ NoHalfMigration

-----------------------------------------------------------------------------
(* What the repository says and the code does not do. *)

\* tests/test_storage.py: a file refused as "older" claims "an older, unknown
\* nonempty schema" - it is not one gitseed made.
RefusedOlderIsForeign == "older" \in refused => ~Ours
=============================================================================
