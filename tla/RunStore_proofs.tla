-------------------------- MODULE RunStore_proofs --------------------------
(***************************************************************************)
(* Proofs about RunStore for any number of processes and runs: the         *)
(* inductive invariant IInv, and with it that races alone never leave a    *)
(* half-migrated or unguarded file, nor take the version back.             *)
(***************************************************************************)
EXTENDS RunStore, TLAPS

USE NoRunIsNoId, RunsAreArtifacts, HistoryIsNoRun

-----------------------------------------------------------------------------
(* What the scripts make. *)

First  == "run_artifacts"
Second == "observations"

\* The scripts, statement by statement.
LEMMA Scripts ==
  /\ Script(0)[1] = First /\ Script(1)[1] = Second
  /\ \A v \in {0, 1} : Len(Script(v)) = 3 /\ DOMAIN Script(v) = 1 .. 3
BY DEF Script, First, Second

\* A script has made one thing more after each of its statements, its table first.
LEMMA MadeSoFar ==
  ASSUME NEW v \in {0, 1}
  PROVE  /\ Made(v, 1) = {}
         /\ \A k \in 1 .. 3 : Made(v, k + 1) = Made(v, k) \union {Script(v)[k]}
         /\ \A k \in 2 .. 4 : Script(v)[1] \in Made(v, k)
<1>1. Made(v, 1) = {}
  BY DEF Made
<1>2. \A k \in 1 .. 3 : Made(v, k + 1) = Made(v, k) \union {Script(v)[k]}
  <2>1. \A k \in 1 .. 3 : 1 .. (k + 1) - 1 = (1 .. k - 1) \union {k}
    OBVIOUS
  <2>2. QED
    BY <2>1 DEF Made
<1>3. \A k \in 2 .. 4 : Script(v)[1] \in Made(v, k)
  BY DEF Made
<1>4. QED
  BY <1>1, <1>2, <1>3

\* What each version of the schema has, and that none of it is foreign.
LEMMA PartsOfVersions ==
  /\ Parts(0) = {}
  /\ Parts(1) = Made(0, 4)
  /\ Parts(2) = Parts(1) \union Made(1, 4)
  /\ "foreign" \notin Parts(2)
  /\ First \in Parts(1)
  /\ First \in Parts(2) /\ Second \in Parts(2)
<1>1. Parts(0) = {} /\ Parts(1) = Made(0, 4) /\ Parts(2) = Made(0, 4) \union Made(1, 4)
  <2>1. /\ {w \in {0, 1} : w < 0} = {} /\ {w \in {0, 1} : w < 1} = {0}
        /\ {w \in {0, 1} : w < 2} = {0, 1}
    OBVIOUS
  <2>2. Parts(0) = UNION {Made(u, 4) : u \in {}}
    BY <2>1 DEF Parts
  <2>3. Parts(1) = UNION {Made(u, 4) : u \in {0}}
    BY <2>1 DEF Parts
  <2>4. Parts(2) = UNION {Made(u, 4) : u \in {0, 1}}
    BY <2>1 DEF Parts
  <2>5. QED
    BY <2>2, <2>3, <2>4
<1>2. First \in Made(0, 4) /\ Second \in Made(1, 4)
  BY Scripts, MadeSoFar
<1>3. "foreign" \notin Made(0, 4) /\ "foreign" \notin Made(1, 4)
  BY DEF Made, Script
<1>4. QED
  BY <1>1, <1>2, <1>3

-----------------------------------------------------------------------------
(* The inductive invariant: initial states and types. *)

\* The invariant holds of a new file, of gitseed's at every version, and of others'.
LEMMA InitIInv == Init => IInv
<1> SUFFICES ASSUME Init PROVE IInv
  OBVIOUS
<1> USE DEF Init, SchemaVersion
<1>1. /\ version \in 0 .. 3 /\ schema \subseteq Names
      /\ Ours => version <= 2 /\ schema = Parts(version)
      /\ ~Ours => version \in {0, 3} /\ schema = {"foreign"}
      /\ runs # {} => version \in {1, 2}
      /\ runs \subseteq Runs
  <2>1. CASE version = 0 /\ schema \in {{}, {"foreign"}} /\ runs = {}
    BY <2>1, PartsOfVersions DEF Names, Ours
  <2>2. CASE /\ version \in {1, 2} /\ schema = Parts(version)
             /\ runs \in {{}} \union {{a} : a \in {b \in Runs : b.corrects = NoRun}}
    BY <2>2, PartsOfVersions DEF Names, Ours
  <2>3. CASE version = 3 /\ schema = {"foreign"} /\ runs = {}
    BY <2>3 DEF Names, Ours
  <2>4. QED
    BY <2>1, <2>2, <2>3
<1>2. TypeOK
  <2>1. /\ pc \in [Procs -> Stages] /\ job \in [Procs -> Jobs]
        /\ seen \in [Procs -> 0 .. 2] /\ step \in [Procs -> 1 .. 4]
    BY DEF Stages, Jobs
  <2>2. cut \in BOOLEAN
    OBVIOUS
  <2>3. QED
    BY <1>1, <2>1, <2>2 DEF TypeOK
<1>3. MigrationIsExclusive /\ UsersAreCurrent
  BY DEF MigrationIsExclusive, UsersAreCurrent, MidScript
<1>4. FileIsReadable
  BY <1>1 DEF FileIsReadable, Ours
<1>5. NoHalfMigration
  BY <1>1 DEF NoHalfMigration
<1>6. QED
  BY <1>2, <1>3, <1>4, <1>5 DEF IInv

\* Leaving the store gives the local variables their first values.
LEMMA CloseTypes ==
  ASSUME TypeOK, NEW p \in Procs, Close(p)
  PROVE  /\ pc' \in [Procs -> Stages] /\ job' \in [Procs -> Jobs]
         /\ seen' \in [Procs -> 0 .. SchemaVersion] /\ step' \in [Procs -> 1 .. 4]
<1>1. /\ pc \in [Procs -> Stages] /\ job \in [Procs -> Jobs]
      /\ seen \in [Procs -> 0 .. SchemaVersion] /\ step \in [Procs -> 1 .. 4]
  BY DEF TypeOK
<1>2. /\ "idle" \in Stages /\ History \in Jobs /\ 0 \in 0 .. SchemaVersion /\ 1 \in 1 .. 4
  BY DEF Stages, Jobs, SchemaVersion
<1>3. pc' \in [Procs -> Stages]
  BY <1>1, <1>2 DEF Close, Goto
<1>4. job' \in [Procs -> Jobs]
  BY <1>1, <1>2 DEF Close
<1>5. seen' \in [Procs -> 0 .. SchemaVersion]
  BY <1>1, <1>2 DEF Close
<1>6. step' \in [Procs -> 1 .. 4]
  BY <1>1, <1>2 DEF Close
<1>7. QED
  BY <1>3, <1>4, <1>5, <1>6

\* Type correctness of the file and of every process.
LEMMA NextTypeOK == IInv /\ [Next]_vars => TypeOK'
<1> SUFFICES ASSUME IInv, [Next]_vars PROVE TypeOK'
  OBVIOUS
<1> USE DEF SchemaVersion
<1>0. TypeOK /\ MigrationIsExclusive /\ UsersAreCurrent
  BY DEF IInv
<1>a. /\ pc \in [Procs -> Stages] /\ job \in [Procs -> Jobs]
      /\ seen \in [Procs -> 0 .. 2] /\ step \in [Procs -> 1 .. 4]
  BY <1>0 DEF TypeOK
<1>b. /\ version \in 0 .. SchemaVersion + 1 /\ schema \subseteq Names /\ runs \subseteq Runs
      /\ observations \subseteq [run : Ids, repo : Repos]
  BY <1>0 DEF TypeOK
<1>c. /\ told \subseteq [run : Runs, what : {"stored", "not observed"}]
      /\ refused \subseteq {"newer", "older"}
  BY <1>0 DEF TypeOK
<1>d. cut \in BOOLEAN
  BY <1>0 DEF TypeOK
<1> DEFINE FileOK == /\ version' \in 0 .. SchemaVersion + 1 /\ schema' \subseteq Names /\ runs' \subseteq Runs
                     /\ observations' \subseteq [run : Ids, repo : Repos]
           LocalOK == /\ pc' \in [Procs -> Stages] /\ job' \in [Procs -> Jobs]
                      /\ seen' \in [Procs -> 0 .. 2] /\ step' \in [Procs -> 1 .. 4]
           SaidOK == /\ told' \subseteq [run : Runs, what : {"stored", "not observed"}]
                     /\ refused' \subseteq {"newer", "older"}
<1>1. CASE UNCHANGED vars
  BY <1>0, <1>1 DEF TypeOK, vars, file, local, said
<1>2. ASSUME NEW p \in Procs, UNCHANGED <<file, said, cut>>, LocalOK PROVE TypeOK'
  BY <1>0, <1>2 DEF TypeOK, file, said
<1>e. ASSUME FileOK, LocalOK, SaidOK, cut' \in BOOLEAN PROVE TypeOK'
  BY <1>e DEF TypeOK
<1>f. ASSUME UNCHANGED <<version, schema, runs, observations>> PROVE FileOK
  BY <1>b, <1>f
<1>g. ASSUME UNCHANGED said PROVE SaidOK
  BY <1>c, <1>g DEF said
<1>h. ASSUME UNCHANGED cut PROVE cut' \in BOOLEAN
  BY <1>d, <1>h
<1>3. ASSUME NEW p \in Procs, NEW j \in Jobs, Open(p, j) PROVE TypeOK'
  <2>1. LocalOK
    BY <1>0, <1>3 DEF Open, TypeOK, Goto, Stages
  <2>2. QED
    BY <1>2, <1>3, <2>1 DEF Open
<1>4. ASSUME NEW p \in Procs, ReadVersion(p) PROVE TypeOK'
  <2>1. LocalOK
    <3>1. seen' \in [Procs -> 0 .. 2]
      BY <1>a, <1>b, <1>4 DEF ReadVersion
    <3>2. pc' \in [Procs -> Stages]
      BY <1>a, <1>4 DEF ReadVersion, Goto, Stages, Continue
    <3>3. QED
      BY <1>a, <1>4, <3>1, <3>2 DEF ReadVersion
  <2>2. QED
    BY <1>2, <1>4, <2>1 DEF ReadVersion
<1>5. ASSUME NEW p \in Procs, NoTables(p) PROVE TypeOK'
  <2>1. LocalOK
    BY <1>0, <1>5 DEF NoTables, TypeOK, Goto, Stages, Continue
  <2>2. QED
    BY <1>2, <1>5, <2>1 DEF NoTables
<1>6. ASSUME NEW p \in Procs, RefuseNewer(p) \/ RefuseOlder(p) PROVE TypeOK'
  <2>1. LocalOK
    BY <1>0, <1>6, CloseTypes DEF RefuseNewer, RefuseOlder
  <2>2. SaidOK /\ UNCHANGED <<file, cut>>
    BY <1>0, <1>6 DEF RefuseNewer, RefuseOlder, Refuse, TypeOK
  <2>3. QED
    BY <1>0, <2>1, <2>2 DEF TypeOK, file
<1>7. ASSUME NEW p \in Procs, Create(p) PROVE TypeOK'
  <2>1. /\ seen[p] \in {0, 1} /\ step[p] \in 1 .. 3 /\ pc[p] = "create"
        /\ Script(seen[p])[step[p]] \in Names
    <3>1. seen[p] \in {0, 1} /\ step[p] \in 1 .. 3 /\ pc[p] = "create"
      <4>1. pc[p] = "create" /\ seen[p] < 2 /\ seen[p] \in 0 .. 2 /\ step[p] \in 1 .. 4
        BY <1>0, <1>a, <1>7 DEF Create, MigrationIsExclusive
      <4>2. step[p] > 1 => step[p] < 4
        BY <1>0, <4>1 DEF MigrationIsExclusive, MidScript
      <4>3. QED
        BY <4>1, <4>2
    <3>2. Script(seen[p])[step[p]] \in Made(seen[p], 4)
      BY <3>1 DEF Made
    <3>3. QED
      BY <3>1, <3>2, PartsOfVersions DEF Names
  <2>2. LocalOK
    <3>0. step[p] + 1 \in 1 .. 4
      BY <2>1
    <3>1. step' \in [Procs -> 1 .. 4]
      BY <1>a, <1>7, <3>0 DEF Create
    <3>2. pc' \in [Procs -> Stages]
      BY <1>a, <1>7 DEF Create, Goto, Stages
    <3>3. QED
      BY <1>a, <1>7, <3>1, <3>2 DEF Create
  <2>3. FileOK /\ UNCHANGED <<said, cut>>
    BY <1>b, <1>7, <2>1 DEF Create
  <2>4. QED
    BY <1>e, <1>g, <1>h, <2>2, <2>3
<1>8. ASSUME NEW p \in Procs, SetVersion(p) PROVE TypeOK'
  <2>1. seen[p] \in {0, 1} /\ seen[p] = version /\ pc[p] = "set version"
    <3>1. pc[p] = "set version" /\ seen[p] = version /\ version < 2 /\ seen[p] \in 0 .. 2
      BY <1>0, <1>a, <1>8 DEF SetVersion, MigrationIsExclusive, MidScript
    <3>2. seen[p] < 2 /\ seen[p] \in 0 .. 2
      BY <3>1
    <3>3. seen[p] \in {0, 1}
      BY <3>2
    <3>4. QED
      BY <3>1, <3>3
  <2>2. LocalOK
    <3>0. seen[p] + 1 \in 0 .. 2
      <4>1. CASE seen[p] = 0
        BY <4>1
      <4>2. CASE seen[p] = 1
        BY <4>2
      <4>3. QED
        BY <2>1, <4>1, <4>2
    <3>4. seen' = [seen EXCEPT ![p] = seen[p] + 1] /\ step' = [step EXCEPT ![p] = 1]
      BY <1>8 DEF SetVersion
    <3>5. seen' \in [Procs -> 0 .. 2]
      BY <1>a, <3>0, <3>4
    <3>6. step' \in [Procs -> 1 .. 4]
      BY <1>a, <3>4
    <3>1. seen' \in [Procs -> 0 .. 2] /\ step' \in [Procs -> 1 .. 4]
      BY <3>5, <3>6
    <3>2. pc' \in [Procs -> Stages]
      BY <1>a, <1>8 DEF SetVersion, Goto, Stages, Continue
    <3>3. QED
      BY <1>a, <1>8, <3>1, <3>2 DEF SetVersion
  <2>3. FileOK /\ UNCHANGED <<said, cut>>
    <3>0. version' = seen[p] + 1
      BY <1>8 DEF SetVersion
    <3>1. version' \in 0 .. SchemaVersion + 1
      <4>1. CASE seen[p] = 0
        BY <3>0, <4>1
      <4>2. CASE seen[p] = 1
        BY <3>0, <4>2
      <4>3. QED
        BY <2>1, <4>1, <4>2
    <3>2. QED
      BY <1>b, <1>8, <3>1 DEF SetVersion
  <2>4. QED
    BY <1>e, <1>g, <1>h, <2>2, <2>3
<1>9. ASSUME NEW p \in Procs, job[p] \in Runs, Says(p, "stored") \/ Says(p, "not observed")
      PROVE  SaidOK
  <2>1. PICK what \in {"stored", "not observed"} : Says(p, what)
    BY <1>9
  <2>2. [run |-> job[p], what |-> what] \in [run : Runs, what : {"stored", "not observed"}]
    BY <1>9
  <2>3. QED
    BY <1>c, <2>1, <2>2 DEF Says
<1>10. ASSUME NEW p \in Procs, SaveRun(p) PROVE TypeOK'
  <2>1. job[p] \in Runs
    BY <1>0, <1>10 DEF SaveRun, TypeOK, Jobs
  <2>2. FileOK /\ UNCHANGED cut
    BY <1>b, <1>10, <2>1 DEF SaveRun
  <2>3. CASE job[p].dated
    <3>1. Goto(p, "observe") /\ UNCHANGED <<job, seen, step, said>>
      BY <1>10, <2>3 DEF SaveRun
    <3>2. LocalOK
      BY <1>a, <3>1 DEF Goto, Stages
    <3>3. QED
      BY <1>e, <1>g, <1>h, <2>2, <3>1, <3>2
  <2>4. CASE ~job[p].dated
    <3>1. Says(p, "stored") /\ Close(p)
      BY <1>10, <2>4 DEF SaveRun
    <3>2. LocalOK /\ SaidOK
      BY <1>0, <1>9, <2>1, <3>1, CloseTypes
    <3>3. QED
      BY <1>e, <1>h, <2>2, <3>2
  <2>5. QED
    BY <2>3, <2>4
<1>11. ASSUME NEW p \in Procs, SaveObservations(p) \/ ObservationsFail(p) PROVE TypeOK'
  <2>1. job[p] \in Runs /\ job[p] \in Artifacts
    BY <1>0, <1>b, <1>11 DEF SaveObservations, ObservationsFail, UsersAreCurrent
  <2>2. ObservationsOf(job[p]) \subseteq [run : Ids, repo : Repos]
    BY <2>1 DEF ObservationsOf, Artifacts
  <2>3. FileOK /\ UNCHANGED cut
    BY <1>b, <1>11, <2>2 DEF SaveObservations, ObservationsFail, file
  <2>4. /\ Close(p)
        /\ Says(p, "stored") \/ Says(p, "not observed")
    BY <1>11 DEF SaveObservations, ObservationsFail
  <2>5. LocalOK /\ SaidOK
    BY <1>0, <1>9, <2>1, <2>4, CloseTypes
  <2>6. QED
    BY <1>e, <1>h, <2>3, <2>5
<1>12. ASSUME NEW p \in Procs, ListHistory(p) \/ StatementFails(p) \/ Die(p) PROVE TypeOK'
  <2>1. LocalOK
    BY <1>0, <1>12, CloseTypes DEF ListHistory, StatementFails, Die
  <2>2. UNCHANGED <<file, said>>
    BY <1>12 DEF ListHistory, StatementFails, Die
  <2>3. cut' \in BOOLEAN
    BY <1>0, <1>12 DEF ListHistory, StatementFails, Die, TypeOK, MidScript
  <2>4. QED
    BY <1>0, <2>1, <2>2, <2>3 DEF TypeOK, file, said
<1>13. QED
  BY <1>1, <1>3, <1>4, <1>5, <1>6, <1>7, <1>8, <1>10, <1>11, <1>12 DEF Next

-----------------------------------------------------------------------------
(* The inductive invariant: who migrates. *)

\* The file and every process inside a script stay as they are.
Quiet ==
  /\ UNCHANGED <<version, schema, cut>>
  /\ \A q \in Procs : MidScript(q)' <=> MidScript(q)
  /\ \A q \in Procs : MidScript(q) =>
       pc'[q] = pc[q] /\ seen'[q] = seen[q] /\ step'[q] = step[q]

\* The process inside a script leaves it; the file stays as it is.
Interrupted ==
  /\ UNCHANGED <<version, schema>>
  /\ cut' = TRUE
  /\ \E p \in Procs : MidScript(p)
  /\ \A q \in Procs : ~MidScript(q)'

\* Every step is quiet, interrupts a script, or is one of its statements.
LEMMA StepKinds ==
  ASSUME IInv, [Next]_vars
  PROVE  Quiet \/ Interrupted \/ \E p \in Procs : Create(p) \/ SetVersion(p)
<1>0. /\ \A p \in Procs : pc[p] \notin {"create", "set version"} => step[p] = 1
      /\ \A p, q \in Procs : MidScript(p) /\ MidScript(q) => p = q
  BY DEF IInv, MigrationIsExclusive
<1>a. /\ pc \in [Procs -> Stages] /\ seen \in [Procs -> 0 .. SchemaVersion]
      /\ step \in [Procs -> 1 .. 4]
  BY DEF IInv, TypeOK
<1>b. cut \in BOOLEAN
  BY DEF IInv, TypeOK
<1>1. CASE UNCHANGED vars
  BY <1>1 DEF Quiet, MidScript, vars, file, local
\* A process outside every script goes somewhere that is not inside one.
<1>2. ASSUME NEW p \in Procs, ~MidScript(p), NEW to, to # "set version",
             pc' = [pc EXCEPT ![p] = to], step' = [step EXCEPT ![p] = 1],
             \A q \in Procs \ {p} : seen'[q] = seen[q],
             UNCHANGED <<version, schema, cut>>
      PROVE  Quiet
  <2>1. ~MidScript(p)'
    <3>1. pc'[p] = to /\ step'[p] = 1
      BY <1>a, <1>2
    <3>2. pc'[p] # "set version"
      BY <1>2, <3>1
    <3>3. ~(step'[p] > 1)
      BY <3>1
    <3>4. QED
      BY <3>2, <3>3 DEF MidScript
  <2>2. \A q \in Procs \ {p} : pc'[q] = pc[q] /\ step'[q] = step[q] /\ seen'[q] = seen[q]
    BY <1>a, <1>2
  <2>3. \A q \in Procs \ {p} : MidScript(q)' <=> MidScript(q)
    BY <2>2 DEF MidScript
  <2>4. QED
    BY <1>2, <2>1, <2>2, <2>3 DEF Quiet
<1>3. ASSUME NEW p \in Procs, ~MidScript(p), Close(p), UNCHANGED <<version, schema, cut>>
      PROVE  Quiet
  <2>1. /\ pc' = [pc EXCEPT ![p] = "idle"] /\ step' = [step EXCEPT ![p] = 1]
        /\ \A q \in Procs \ {p} : seen'[q] = seen[q]
    BY <1>a, <1>3 DEF Close, Goto
  <2>2. QED
    BY <1>2, <1>3, <2>1
<1>4. ASSUME NEW p \in Procs, MidScript(p), Close(p), cut' = (cut \/ MidScript(p)),
             UNCHANGED <<version, schema>>
      PROVE  Interrupted
  <2>1. cut' = TRUE
    BY <1>4
  <2>2. ~MidScript(p)'
    BY <1>a, <1>4 DEF Close, Goto, MidScript
  <2>3. \A q \in Procs \ {p} : ~MidScript(q)'
    BY <1>0, <1>a, <1>4 DEF Close, Goto, MidScript
  <2>4. QED
    BY <1>4, <2>1, <2>2, <2>3 DEF Interrupted
<1>5. ASSUME NEW p \in Procs, StatementFails(p) \/ Die(p) PROVE Quiet \/ Interrupted
  <2>1. Close(p) /\ cut' = (cut \/ MidScript(p)) /\ UNCHANGED <<version, schema>>
    BY <1>5 DEF StatementFails, Die, file
  <2>2. ~MidScript(p) => cut' = cut
    BY <1>b, <2>1 DEF MidScript
  <2>3. QED
    BY <1>3, <1>4, <2>1, <2>2
<1>6. ASSUME NEW p \in Procs,
             \/ RefuseNewer(p) \/ RefuseOlder(p) \/ ListHistory(p)
             \/ SaveObservations(p) \/ ObservationsFail(p)
      PROVE  Quiet
  <2>1. /\ pc[p] \in {"version", "tables", "use", "observe"} /\ Close(p)
        /\ UNCHANGED <<version, schema, cut>>
    BY <1>6 DEF RefuseNewer, RefuseOlder, ListHistory, SaveObservations, ObservationsFail, file
  <2>2. QED
    BY <1>3, <2>1 DEF MidScript
<1>7. ASSUME NEW p \in Procs, SaveRun(p) PROVE Quiet
  <2>1. pc[p] = "use" /\ UNCHANGED <<version, schema, cut>> /\ ~MidScript(p)
    BY <1>7 DEF SaveRun, MidScript
  <2>2. CASE Close(p)
    BY <1>3, <2>1, <2>2
  <2>3. CASE Goto(p, "observe") /\ UNCHANGED <<seen, step>>
    <3>1. step' = [step EXCEPT ![p] = 1]
      BY <1>0, <1>a, <2>1, <2>3
    <3>2. QED
      BY <1>2, <2>1, <2>3, <3>1 DEF Goto
  <2>4. QED
    BY <1>7, <2>2, <2>3 DEF SaveRun
<1>8. ASSUME NEW p \in Procs, \/ ReadVersion(p) \/ NoTables(p) \/ \E j \in Jobs : Open(p, j)
      PROVE  Quiet
  <2>1. /\ pc[p] \in {"idle", "version", "tables"} /\ UNCHANGED <<version, schema, cut, step>>
        /\ \A q \in Procs \ {p} : seen'[q] = seen[q]
    BY <1>a, <1>8 DEF ReadVersion, NoTables, Open, file
  <2>2. PICK to \in {"version", "tables", "create", "use"} : pc' = [pc EXCEPT ![p] = to]
    BY <1>8 DEF ReadVersion, NoTables, Open, Goto, Continue
  <2>3. step' = [step EXCEPT ![p] = 1] /\ ~MidScript(p)
    BY <1>0, <1>a, <2>1 DEF MidScript
  <2>4. QED
    BY <1>2, <2>1, <2>2, <2>3
<1>9. QED
  BY <1>1, <1>5, <1>6, <1>7, <1>8 DEF Next

\* A step of p, as one disjunction.
Moves(p) ==
  \/ \E j \in Jobs : Open(p, j)
  \/ ReadVersion(p) \/ RefuseNewer(p) \/ NoTables(p) \/ RefuseOlder(p)
  \/ Create(p) \/ SetVersion(p)
  \/ SaveRun(p) \/ SaveObservations(p) \/ ObservationsFail(p) \/ ListHistory(p)
  \/ StatementFails(p) \/ Die(p)

\* A step of p leaves the local variables of every other process alone, and
\* moves the version only by SetVersion.
LEMMA OthersStay ==
  ASSUME IInv, NEW p \in Procs, Moves(p)
  PROVE  /\ \A q \in Procs \ {p} : pc'[q] = pc[q] /\ seen'[q] = seen[q] /\ step'[q] = step[q]
         /\ version' = version \/ SetVersion(p)
<1>a. /\ pc \in [Procs -> Stages] /\ seen \in [Procs -> 0 .. SchemaVersion]
      /\ step \in [Procs -> 1 .. 4]
  BY DEF IInv, TypeOK
<1>1. CASE Close(p)
  <2>1. \A q \in Procs \ {p} : pc'[q] = pc[q] /\ seen'[q] = seen[q] /\ step'[q] = step[q]
    BY <1>a, <1>1 DEF Close, Goto
  <2>2. version' = version \/ SetVersion(p)
    BY DEF Moves, Open, ReadVersion, RefuseNewer, NoTables, RefuseOlder, Create, SaveRun,
           SaveObservations, ObservationsFail, ListHistory, StatementFails, Die, file
  <2>3. QED
    BY <2>1, <2>2
<1>2. CASE (\E j \in Jobs : Open(p, j)) \/ ReadVersion(p) \/ NoTables(p)
  BY <1>a, <1>2 DEF Open, ReadVersion, NoTables, Goto, file
<1>3. CASE Create(p)
  BY <1>a, <1>3 DEF Create, Goto
<1>4. CASE SetVersion(p)
  BY <1>a, <1>4 DEF SetVersion, Goto
<1>5. CASE SaveRun(p) /\ Goto(p, "observe") /\ UNCHANGED <<seen, step>>
  BY <1>a, <1>5 DEF SaveRun, Goto
<1>6. QED
  BY <1>1, <1>2, <1>3, <1>4, <1>5
  DEF Moves, RefuseNewer, RefuseOlder, SaveRun, SaveObservations, ObservationsFail,
      ListHistory, StatementFails, Die

\* The version is one gitseed knows, or that of a later gitseed.
LEMMA VersionInRange == IInv => version \in 0 .. 3
<1>1. IInv => version \in 0 .. SchemaVersion + 1
  BY DEF IInv, TypeOK
<1>2. SchemaVersion + 1 = 3
  BY DEF SchemaVersion
<1>3. QED
  BY <1>1, <1>2

\* The version a script sets is the next one.
LEMMA VersionGrows ==
  ASSUME IInv, NEW p \in Procs, SetVersion(p)
  PROVE  /\ version \in {0, 1} /\ version' = version + 1 /\ seen[p] = version
         /\ pc'[p] = Continue(version') /\ seen'[p] = version' /\ step'[p] = 1
         /\ ~cut /\ schema' = schema /\ cut' = cut
         /\ schema = Parts(version) \union Made(version, 4)
<1>a. /\ pc \in [Procs -> Stages] /\ seen \in [Procs -> 0 .. SchemaVersion]
      /\ step \in [Procs -> 1 .. 4]
  BY DEF IInv, TypeOK
<1>b. version \in 0 .. 3
  BY VersionInRange
<1>1. pc[p] = "set version" /\ MidScript(p)
  BY DEF SetVersion, MidScript
<1>2. /\ seen[p] = version /\ version < 2 /\ ~cut
      /\ schema = Parts(version) \union Made(version, 4)
  BY <1>1 DEF IInv, MigrationIsExclusive, SchemaVersion
<1>3. version \in {0, 1}
  BY <1>b, <1>2
<1>4. version' = version + 1
  BY <1>2 DEF SetVersion
<1>5. pc'[p] = Continue(seen[p] + 1)
  BY <1>a DEF SetVersion, Goto
<1>6. seen'[p] = seen[p] + 1 /\ step'[p] = 1
  BY <1>a DEF SetVersion
<1>7. QED
  BY <1>2, <1>3, <1>4, <1>5, <1>6 DEF SetVersion

\* What the local variables of a process say, whoever moves.
LEMMA NextLocals ==
  ASSUME IInv, [Next]_vars, NEW q \in Procs
  PROVE  /\ pc'[q] = "tables" => seen'[q] = 0
         /\ pc'[q] \notin {"create", "set version"} => step'[q] = 1
         /\ pc'[q] = "create" => seen'[q] <= version' /\ seen'[q] < SchemaVersion
<1> USE DEF SchemaVersion
<1>a. /\ pc \in [Procs -> Stages] /\ seen \in [Procs -> 0 .. 2] /\ step \in [Procs -> 1 .. 4]
  BY DEF IInv, TypeOK
<1>c. version \in 0 .. 3
  BY VersionInRange
<1>b. /\ pc[q] = "tables" => seen[q] = 0
      /\ pc[q] \notin {"create", "set version"} => step[q] = 1
      /\ pc[q] = "create" => seen[q] <= version /\ seen[q] < 2
  BY DEF IInv, MigrationIsExclusive
<1> DEFINE Here == /\ pc'[q] = "tables" => seen'[q] = 0
                   /\ pc'[q] \notin {"create", "set version"} => step'[q] = 1
                   /\ pc'[q] = "create" => seen'[q] <= version' /\ seen'[q] < 2
\* The version grows under a process that does nothing itself.
<1>1. ASSUME pc'[q] = pc[q], seen'[q] = seen[q], step'[q] = step[q],
             version' = version \/ version' = version + 1
      PROVE  Here
  <2>1. pc[q] = "create" => seen[q] <= version'
    BY <1>a, <1>b, <1>c, <1>1
  <2>2. QED
    BY <1>b, <1>1, <2>1
<1>2. CASE UNCHANGED vars
  BY <1>1, <1>2 DEF vars, file, local
<1>3. ASSUME NEW p \in Procs, p # q, Moves(p) PROVE Here
  <2>1. pc'[q] = pc[q] /\ seen'[q] = seen[q] /\ step'[q] = step[q]
    BY <1>3, OthersStay
  <2>2. version' = version \/ version' = version + 1
    BY <1>3, OthersStay, VersionGrows
  <2>3. QED
    BY <1>1, <2>1, <2>2
<1>4. ASSUME Moves(q) PROVE Here
  <2>1. CASE Close(q)
    <3>1. pc'[q] = "idle" /\ step'[q] = 1
      BY <1>a, <2>1 DEF Close, Goto
    <3>2. QED
      BY <3>1
  <2>2. CASE \E j \in Jobs : Open(q, j)
    <3>1. pc'[q] = "version" /\ step'[q] = step[q] /\ pc[q] = "idle"
      BY <1>a, <2>2 DEF Open, Goto
    <3>2. QED
      BY <1>b, <3>1
  <2>3. CASE ReadVersion(q)
    <3>1. /\ pc[q] = "version" /\ step'[q] = step[q] /\ seen'[q] = version /\ version' = version
          /\ pc'[q] = IF version = 0 THEN "tables" ELSE Continue(version)
      BY <1>a, <2>3 DEF ReadVersion, Goto, file
    <3>2. pc'[q] \in {"tables", "create", "use"} /\ (pc'[q] = "tables" => version = 0)
      BY <3>1 DEF Continue
    <3>3. pc'[q] = "create" => version < 2 /\ version <= version
      BY <1>c, <3>1 DEF Continue
    <3>4. QED
      BY <1>b, <3>1, <3>2, <3>3
  <2>4. CASE NoTables(q)
    <3>1. /\ pc[q] = "tables" /\ step'[q] = step[q] /\ seen'[q] = seen[q] /\ version' = version
          /\ pc'[q] = Continue(seen[q])
      BY <1>a, <2>4 DEF NoTables, Goto, file
    <3>2. seen[q] = 0 /\ 0 <= version
      BY <1>b, <1>c, <3>1
    <3>3. pc'[q] = "create"
      BY <3>1, <3>2 DEF Continue
    <3>4. seen'[q] <= version' /\ seen'[q] < 2
      BY <3>1, <3>2
    <3>5. QED
      BY <3>3, <3>4
  <2>5. CASE Create(q)
    <3>1. /\ pc[q] = "create" /\ seen'[q] = seen[q] /\ version' = version
          /\ pc'[q] \in {"set version", "create"}
      BY <1>a, <2>5 DEF Create, Goto
    <3>2. QED
      BY <1>b, <3>1
  <2>6. CASE SetVersion(q)
    <3>1. /\ version \in {0, 1} /\ version' = version + 1
          /\ pc'[q] = Continue(version') /\ seen'[q] = version' /\ step'[q] = 1
      BY <2>6, VersionGrows
    <3>2. CASE version = 0
      BY <3>1, <3>2 DEF Continue
    <3>3. CASE version = 1
      BY <3>1, <3>3 DEF Continue
    <3>4. QED
      BY <3>1, <3>2, <3>3
  <2>7. CASE SaveRun(q) /\ Goto(q, "observe") /\ UNCHANGED <<seen, step>>
    <3>1. pc[q] = "use" /\ pc'[q] = "observe" /\ step'[q] = step[q]
      BY <1>a, <2>7 DEF SaveRun, Goto
    <3>2. QED
      BY <1>b, <3>1
  <2>8. QED
    BY <1>4, <2>1, <2>2, <2>3, <2>4, <2>5, <2>6, <2>7
    DEF Moves, RefuseNewer, RefuseOlder, SaveRun, SaveObservations, ObservationsFail,
        ListHistory, StatementFails, Die
<1>5. (\E p \in Procs : Moves(p)) \/ UNCHANGED vars
  BY DEF Next, Moves
<1>6. QED
  BY <1>2, <1>3, <1>4, <1>5

\* A process that gets its first CREATE through found an intact file that
\* nobody is migrating, at the version it read.
LEMMA FirstCreate ==
  ASSUME IInv, NEW p \in Procs, Create(p), step[p] = 1
  PROVE  /\ seen[p] = version /\ version \in {0, 1} /\ ~cut
         /\ schema = Parts(version)
         /\ \A q \in Procs : ~MidScript(q)
<1>a. seen \in [Procs -> 0 .. SchemaVersion] /\ step \in [Procs -> 1 .. 4]
  BY DEF IInv, TypeOK
<1>b. version \in 0 .. 3
  BY VersionInRange
<1>c. /\ pc[p] = "create" /\ Script(seen[p])[1] \notin schema
  BY DEF Create
<1>d. seen[p] <= version /\ seen[p] < SchemaVersion
  BY <1>c DEF IInv, MigrationIsExclusive
<1>e. Ours /\ version <= SchemaVersion /\ Parts(version) \subseteq schema
  BY <1>c DEF IInv, UsersAreCurrent, FileIsReadable
<1>f. seen[p] \in {0, 1} /\ version \in {0, 1, 2}
  <2>1. seen[p] \in 0 .. 2 /\ seen[p] < 2 /\ version <= 2
    BY <1>a, <1>d, <1>e DEF SchemaVersion
  <2>2. QED
    BY <2>1, <1>b
<1>1. seen[p] = version
  <2>1. CASE seen[p] = 0
    <3>1. version \in {1, 2} => First \in Parts(version)
      BY PartsOfVersions
    <3>2. QED
      BY <2>1, <3>1, <1>c, <1>e, <1>f, Scripts
  <2>2. CASE seen[p] = 1
    <3>1. version = 2 => Second \in Parts(version)
      BY PartsOfVersions
    <3>2. version \in {1, 2}
      BY <1>d, <1>f, <2>2
    <3>3. QED
      BY <2>2, <3>1, <3>2, <1>c, <1>e, Scripts
  <2>3. QED
    BY <2>1, <2>2, <1>f
<1>2. version \in {0, 1}
  BY <1>1, <1>f
<1>3. ~cut
  BY <1>1, <1>c DEF IInv, FileIsReadable
<1>4. ASSUME NEW q \in Procs, MidScript(q) PROVE FALSE
  <2>1. /\ schema = Parts(version) \union Made(version, step[q])
        /\ pc[q] = "set version" => step[q] = 4
    BY <1>4 DEF IInv, MigrationIsExclusive
  <2>5. step[q] \in 1 .. 4
    BY <1>a
  <2>6. step[q] > 1 \/ step[q] = 4
    BY <1>4, <2>1 DEF MidScript
  <2>2. step[q] \in 2 .. 4
    BY <2>5, <2>6
  <2>3. Script(version)[1] \in Made(version, step[q])
    BY <1>2, <2>2, MadeSoFar
  <2>4. QED
    BY <1>1, <1>c, <2>1, <2>3
<1>5. schema = Parts(version)
  BY <1>3, <1>4, <1>e DEF IInv, NoHalfMigration
<1>6. QED
  BY <1>1, <1>2, <1>3, <1>4, <1>5

\* After a CREATE, its process is inside the script and the schema is what the
\* script has made so far.
LEMMA CreateMakesOne ==
  ASSUME IInv, NEW p \in Procs, Create(p)
  PROVE  /\ seen[p] = version /\ version \in {0, 1} /\ ~cut
         /\ step[p] \in 1 .. 3
         /\ schema = Parts(version) \union Made(version, step[p])
         /\ \A q \in Procs \ {p} : ~MidScript(q)
         /\ schema' = Parts(version) \union Made(version, step[p] + 1)
         /\ seen'[p] = version /\ step'[p] = step[p] + 1
         /\ pc'[p] = IF step[p] = 3 THEN "set version" ELSE "create"
         /\ version' = version /\ cut' = cut
<1>a. seen \in [Procs -> 0 .. SchemaVersion] /\ step \in [Procs -> 1 .. 4]
      /\ pc \in [Procs -> Stages]
  BY DEF IInv, TypeOK
<1>b. pc[p] = "create"
  BY DEF Create
<1>1. /\ seen[p] = version /\ version \in {0, 1} /\ ~cut
      /\ step[p] \in 1 .. 3
      /\ schema = Parts(version) \union Made(version, step[p])
      /\ \A q \in Procs \ {p} : ~MidScript(q)
  <2>1. CASE step[p] = 1
    BY <2>1, FirstCreate, MadeSoFar
  <2>2. CASE step[p] > 1
    <3>1. MidScript(p)
      BY <1>b, <2>2 DEF MidScript
    <3>2. /\ seen[p] = version /\ version < SchemaVersion /\ ~cut
          /\ schema = Parts(version) \union Made(version, step[p])
          /\ step[p] < 4
      BY <1>b, <3>1 DEF IInv, MigrationIsExclusive
    <3>3. version \in {0, 1}
      BY <3>2, VersionInRange DEF SchemaVersion
    <3>4. step[p] \in 1 .. 3
      BY <1>a, <3>2
    <3>5. \A q \in Procs \ {p} : ~MidScript(q)
      BY <3>1 DEF IInv, MigrationIsExclusive
    <3>6. QED
      BY <3>2, <3>3, <3>4, <3>5
  <2>3. QED
    BY <1>a, <2>1, <2>2
<1>2. schema' = schema \union {Script(version)[step[p]]}
  BY <1>1 DEF Create
<1>3. Made(version, step[p] + 1) = Made(version, step[p]) \union {Script(version)[step[p]]}
  BY <1>1, MadeSoFar
<1>4. step'[p] = step[p] + 1
  BY <1>a DEF Create
<1>5. seen'[p] = version
  BY <1>1 DEF Create
<1>6. pc'[p] = IF step[p] = 3 THEN "set version" ELSE "create"
  <2>1. Len(Script(version)) = 3
    BY <1>1, Scripts
  <2>2. pc'[p] = IF step[p] = Len(Script(version)) THEN "set version" ELSE "create"
    BY <1>a, <1>1 DEF Create, Goto
  <2>3. QED
    BY <2>1, <2>2
<1>7. version' = version /\ cut' = cut
  BY DEF Create
<1>8. QED
  BY <1>1, <1>2, <1>3, <1>4, <1>5, <1>6, <1>7

\* The next version has what the script made on top of this one.
LEMMA NextParts ==
  ASSUME NEW v \in {0, 1}
  PROVE  Parts(v + 1) = Parts(v) \union Made(v, 4)
<1>1. CASE v = 0
  BY <1>1, PartsOfVersions
<1>2. CASE v = 1
  BY <1>2, PartsOfVersions
<1>3. QED
  BY <1>1, <1>2

\* Every step is the step of one process.
LEMMA SomebodyMoves ==
  ASSUME [Next]_vars
  PROVE  UNCHANGED vars \/ \E p \in Procs : Moves(p)
BY DEF Next, Moves

\* At most one process is inside a script, and its script goes by the book.
LEMMA NextMigration == IInv /\ [Next]_vars => MigrationIsExclusive'
<1> SUFFICES ASSUME IInv, [Next]_vars PROVE MigrationIsExclusive'
  OBVIOUS
<1> DEFINE ByTheBook(q) ==
      /\ seen[q] = version /\ version < SchemaVersion /\ ~cut
      /\ schema = Parts(version) \union Made(version, step[q])
      /\ pc[q] = "set version" => step[q] = 4
      /\ pc[q] = "create" => step[q] < 4
<1>0. /\ \A q \in Procs : MidScript(q) => ByTheBook(q)
      /\ \A p, q \in Procs : MidScript(p) /\ MidScript(q) => p = q
  BY DEF IInv, MigrationIsExclusive
<1>1. /\ \A q \in Procs : MidScript(q)' => ByTheBook(q)'
      /\ \A p, q \in Procs : MidScript(p)' /\ MidScript(q)' => p = q
  <2>1. CASE Quiet
    <3>1. \A q \in Procs : MidScript(q)' => MidScript(q)
      BY <2>1 DEF Quiet
    <3>2. ASSUME NEW q \in Procs, MidScript(q)' PROVE ByTheBook(q)'
      <4>1. MidScript(q) /\ ByTheBook(q)
        BY <1>0, <3>1, <3>2
      <4>2. /\ pc'[q] = pc[q] /\ seen'[q] = seen[q] /\ step'[q] = step[q]
            /\ version' = version /\ schema' = schema /\ cut' = cut
        BY <2>1, <4>1 DEF Quiet
      <4>3. Made(version', step'[q]) = Made(version, step[q]) /\ Parts(version') = Parts(version)
        BY <4>2
      <4>4. QED
        BY <4>1, <4>2, <4>3 DEF Made, Parts, Script
    <3>3. QED
      BY <1>0, <3>1, <3>2
  <2>2. CASE Interrupted
    BY <2>2 DEF Interrupted
  <2>3. ASSUME NEW p \in Procs, Create(p)
        PROVE  /\ \A q \in Procs : MidScript(q)' => ByTheBook(q)'
               /\ \A r, q \in Procs : MidScript(r)' /\ MidScript(q)' => r = q
    <3>1. /\ seen[p] = version /\ version \in {0, 1} /\ ~cut
          /\ step[p] \in 1 .. 3
          /\ \A q \in Procs \ {p} : ~MidScript(q)
          /\ schema' = Parts(version) \union Made(version, step[p] + 1)
          /\ seen'[p] = version /\ step'[p] = step[p] + 1
          /\ pc'[p] = IF step[p] = 3 THEN "set version" ELSE "create"
          /\ version' = version /\ cut' = cut
      BY <2>3, CreateMakesOne
    <3>2. \A q \in Procs \ {p} : pc'[q] = pc[q] /\ step'[q] = step[q]
      BY <2>3, OthersStay DEF Moves
    <3>3. \A q \in Procs \ {p} : ~MidScript(q)'
      BY <3>1, <3>2 DEF MidScript
    <3>4. schema' = Parts(version') \union Made(version', step'[p])
      BY <3>1
    <3>a. /\ step[p] \in 1 .. 3 /\ step'[p] = step[p] + 1
          /\ pc'[p] = IF step[p] = 3 THEN "set version" ELSE "create"
      BY <3>1
    <3>5. pc'[p] = "set version" => step'[p] = 4
      <4>1. pc'[p] = "set version" => step[p] = 3
        BY <3>a
      <4>2. 3 + 1 = 4
        OBVIOUS
      <4>3. QED
        BY <3>a, <4>1, <4>2
    <3>6. pc'[p] = "create" => step'[p] < 4
      <4>1. pc'[p] = "create" => step[p] # 3
        BY <3>a
      <4>2. step[p] \in 1 .. 3 /\ step[p] # 3 => step[p] + 1 < 4
        OBVIOUS
      <4>3. QED
        BY <3>a, <4>1, <4>2
    <3>b. version' \in {0, 1}
      BY <3>1
    <3>c. version' < SchemaVersion
      BY <3>b DEF SchemaVersion
    <3>7. seen'[p] = version' /\ version' < SchemaVersion /\ ~cut'
      BY <3>1, <3>c
    <3>8. ByTheBook(p)'
      BY <3>4, <3>5, <3>6, <3>7 DEF Parts, Made, Script, SchemaVersion
    <3>9. QED
      BY <3>3, <3>8
  <2>4. ASSUME NEW p \in Procs, SetVersion(p)
        PROVE  \A q \in Procs : ~MidScript(q)'
    <3>1. MidScript(p)
      BY <2>4 DEF SetVersion, MidScript
    <3>2. \A q \in Procs \ {p} : ~MidScript(q)
      BY <1>0, <3>1
    <3>3. \A q \in Procs \ {p} : pc'[q] = pc[q] /\ step'[q] = step[q]
      BY <2>4, OthersStay DEF Moves
    <3>4. \A q \in Procs \ {p} : ~MidScript(q)'
      BY <3>2, <3>3 DEF MidScript
    <3>5. pc'[p] = Continue(version') /\ step'[p] = 1
      BY <2>4, VersionGrows
    <3>6. pc'[p] # "set version"
      BY <3>5 DEF Continue
    <3>9. ~(step'[p] > 1)
      BY <3>5
    <3>7. ~MidScript(p)'
      BY <3>6, <3>9 DEF MidScript
    <3>8. QED
      BY <3>4, <3>7
  <2>5. QED
    BY <2>1, <2>2, <2>3, <2>4, StepKinds
<1>2. \A q \in Procs :
        /\ pc'[q] = "tables" => seen'[q] = 0
        /\ pc'[q] \notin {"create", "set version"} => step'[q] = 1
        /\ pc'[q] = "create" => seen'[q] <= version' /\ seen'[q] < SchemaVersion
  BY NextLocals
<1>3. QED
  BY <1>1, <1>2 DEF MigrationIsExclusive, SchemaVersion

-----------------------------------------------------------------------------
(* The inductive invariant: who uses the store, and what the file holds. *)

\* What the steps that touch neither the schema nor the version leave of Ours.
LEMMA OursStays ==
  ASSUME IInv, [Next]_vars
  PROVE  Ours' = Ours
<1>1. CASE schema' = schema
  BY <1>1 DEF Ours
<1>2. ASSUME NEW p \in Procs, Create(p) PROVE Ours' = Ours
  <2>1. /\ version \in {0, 1} /\ step[p] \in 1 .. 3
        /\ schema' = Parts(version) \union Made(version, step[p] + 1)
    BY <1>2, CreateMakesOne
  <2>2. Ours
    BY <1>2 DEF Create, IInv, UsersAreCurrent
  <2>3. "foreign" \notin Made(version, step[p] + 1)
    BY <2>1 DEF Made, Script
  <2>4. "foreign" \notin Parts(version)
    BY <2>1, PartsOfVersions
  <2>5. Ours'
    BY <2>1, <2>3, <2>4 DEF Ours
  <2>6. QED
    BY <2>2, <2>5 DEF Ours
<1>3. ASSUME NEW p \in Procs, SetVersion(p) PROVE schema' = schema
  BY <1>3 DEF SetVersion
<1>4. QED
  BY <1>1, <1>2, <1>3, StepKinds DEF Quiet, Interrupted

\* Rows are written by processes that use the store, and are never taken back.
LEMMA RowsByUsers ==
  ASSUME IInv, [Next]_vars
  PROVE  \/ runs' = runs /\ observations' = observations
         \/ /\ version' = version /\ version = SchemaVersion /\ Ours /\ runs \subseteq runs'
            /\ schema' = schema /\ cut' = cut
<1>1. ASSUME NEW p \in Procs, SaveRun(p) \/ SaveObservations(p)
      PROVE  /\ version' = version /\ version = SchemaVersion /\ Ours /\ runs \subseteq runs'
             /\ schema' = schema /\ cut' = cut
  BY <1>1 DEF SaveRun, SaveObservations, IInv, UsersAreCurrent
<1>2. CASE UNCHANGED vars
  BY <1>2 DEF vars, file
<1>3. QED
  BY <1>1, <1>2, SomebodyMoves
  DEF Moves, Open, ReadVersion, RefuseNewer, NoTables, RefuseOlder, Create, SetVersion,
      ObservationsFail, ListHistory, StatementFails, Die, file

\* Whoever uses the store uses a current schema of gitseed's own.
LEMMA NextUsers == IInv /\ [Next]_vars => UsersAreCurrent'
<1> SUFFICES ASSUME IInv, [Next]_vars, NEW q \in Procs
             PROVE  /\ pc'[q] \in {"create", "set version", "use", "observe"} => Ours'
                    /\ pc'[q] \in {"use", "observe"} => version' = 2
                    /\ pc'[q] = "observe" => job'[q] \in runs' /\ job'[q].dated
  BY DEF UsersAreCurrent, SchemaVersion
<1> USE DEF SchemaVersion
<1>a. /\ pc \in [Procs -> Stages] /\ seen \in [Procs -> 0 .. 2] /\ job \in [Procs -> Jobs]
  BY DEF IInv, TypeOK
<1>c. version \in 0 .. 3
  BY VersionInRange
<1>b. /\ pc[q] \in {"create", "set version", "use", "observe"} => Ours
      /\ pc[q] \in {"use", "observe"} => version = 2
      /\ pc[q] = "observe" => job[q] \in runs /\ job[q].dated
      /\ pc[q] = "tables" => seen[q] = 0
  BY DEF IInv, UsersAreCurrent, MigrationIsExclusive
<1>d. Ours' = Ours
  BY OursStays
<1>e. runs \subseteq runs'
  BY RowsByUsers
<1> DEFINE Here == /\ pc'[q] \in {"create", "set version", "use", "observe"} => Ours'
                   /\ pc'[q] \in {"use", "observe"} => version' = 2
                   /\ pc'[q] = "observe" => job'[q] \in runs' /\ job'[q].dated
<1>1. ASSUME pc'[q] = pc[q], job'[q] = job[q], version = 2 => version' = 2 PROVE Here
  BY <1>1, <1>b, <1>d, <1>e
<1>2. CASE UNCHANGED vars
  BY <1>1, <1>2 DEF vars, file, local
<1>3. ASSUME NEW p \in Procs, p # q, Moves(p) PROVE Here
  <2>1. pc'[q] = pc[q]
    BY <1>3, OthersStay
  <2>2. version = 2 => version' = 2
    <3>1. SetVersion(p) => version \in {0, 1}
      BY VersionGrows
    <3>2. version' = version \/ SetVersion(p)
      BY <1>3, OthersStay
    <3>3. QED
      BY <3>1, <3>2
  <2>3. job'[q] = job[q]
    BY <1>a, <1>3
    DEF Moves, Open, ReadVersion, RefuseNewer, NoTables, RefuseOlder, Create, SetVersion,
        SaveRun, SaveObservations, ObservationsFail, ListHistory, StatementFails, Die, Close
  <2>4. QED
    BY <1>1, <2>1, <2>2, <2>3
<1>4. ASSUME Moves(q) PROVE Here
  <2>1. CASE Close(q)
    <3>1. pc'[q] = "idle"
      BY <1>a, <2>1 DEF Close, Goto
    <3>2. QED
      BY <3>1
  <2>2. CASE \E j \in Jobs : Open(q, j)
    <3>1. pc'[q] = "version"
      BY <1>a, <2>2 DEF Open, Goto
    <3>2. QED
      BY <3>1
  <2>3. CASE ReadVersion(q)
    <3>1. /\ version <= 2 /\ version' = version
          /\ pc'[q] = IF version = 0 THEN "tables" ELSE Continue(version)
      BY <1>a, <2>3 DEF ReadVersion, Goto, file
    <3>2. version \in {0, 1, 2}
      BY <1>c, <3>1
    <3>3. version # 0 => Ours
      BY <3>2 DEF IInv, FileIsReadable
    <3>4. CASE version = 0
      BY <3>1, <3>4
    <3>5. CASE version = 1
      BY <1>d, <3>1, <3>3, <3>5 DEF Continue
    <3>6. CASE version = 2
      BY <1>d, <3>1, <3>3, <3>6 DEF Continue
    <3>7. QED
      BY <3>2, <3>4, <3>5, <3>6
  <2>4. CASE NoTables(q)
    <3>1. /\ pc[q] = "tables" /\ schema = {} /\ pc'[q] = Continue(seen[q])
      BY <1>a, <2>4 DEF NoTables, Goto
    <3>2. seen[q] = 0 /\ Ours
      BY <1>b, <3>1 DEF Ours
    <3>3. pc'[q] = "create"
      BY <3>1, <3>2 DEF Continue
    <3>4. QED
      BY <1>d, <3>2, <3>3
  <2>5. CASE Create(q)
    <3>1. pc[q] = "create" /\ pc'[q] \in {"set version", "create"}
      BY <1>a, <2>5 DEF Create, Goto
    <3>2. QED
      BY <1>b, <1>d, <3>1
  <2>6. CASE SetVersion(q)
    <3>1. /\ version \in {0, 1} /\ version' = version + 1 /\ pc'[q] = Continue(version')
      BY <2>6, VersionGrows
    <3>2. Ours'
      BY <1>b, <1>d, <2>6 DEF SetVersion
    <3>3. CASE version = 0
      BY <3>1, <3>2, <3>3 DEF Continue
    <3>4. CASE version = 1
      BY <3>1, <3>2, <3>4 DEF Continue
    <3>5. QED
      BY <3>1, <3>3, <3>4
  <2>7. CASE SaveRun(q) /\ job[q].dated /\ Goto(q, "observe") /\ UNCHANGED job
    <3>1. pc[q] = "use" /\ pc'[q] = "observe" /\ version' = version
      BY <1>a, <2>7 DEF SaveRun, Goto
    <3>2. job'[q] \in runs' /\ job'[q].dated
      BY <2>7 DEF SaveRun
    <3>3. QED
      BY <1>b, <1>d, <3>1, <3>2
  <2>8. QED
    BY <1>4, <2>1, <2>2, <2>3, <2>4, <2>5, <2>6, <2>7
    DEF Moves, RefuseNewer, RefuseOlder, SaveRun, SaveObservations, ObservationsFail,
        ListHistory, StatementFails, Die
<1>5. QED
  BY <1>2, <1>3, <1>4, SomebodyMoves

\* The file has what its version promises, and rows only where there are tables.
LEMMA NextFile == IInv /\ [Next]_vars => FileIsReadable'
<1> SUFFICES ASSUME IInv, [Next]_vars PROVE FileIsReadable'
  OBVIOUS
<1> USE DEF SchemaVersion
<1>c. version \in 0 .. 3
  BY VersionInRange
<1>a. /\ Ours => version <= 2 /\ Parts(version) \subseteq schema
      /\ ~Ours => version \in {0, 3} /\ schema = {"foreign"}
      /\ cut => version < 2 /\ Script(version)[1] \in schema /\ Ours
  BY DEF IInv, FileIsReadable
<1>b. /\ runs # {} => version >= 1 /\ Ours
      /\ observations # {} => version = 2 /\ Ours
  BY DEF IInv, FileIsReadable
<1>d. Ours' = Ours
  BY OursStays
<1> DEFINE Schemas == /\ Ours' => version' <= 2 /\ Parts(version)' \subseteq schema'
                      /\ ~Ours' => version' \in {0, 3} /\ schema' = {"foreign"}
                      /\ cut' => version' < 2 /\ (Script(version)[1])' \in schema' /\ Ours'
           Growing == /\ version \in {0, 1} /\ version' \in {version, version + 1} /\ Ours
<1>1. version' = version \/ (version \in {0, 1} /\ version' = version + 1)
  BY VersionGrows, StepKinds, CreateMakesOne DEF Quiet, Interrupted
<1>2. Schemas
  <2>1. CASE Quiet
    <3>1. version' = version /\ schema' = schema /\ cut' = cut
      BY <2>1 DEF Quiet
    <3>2. Parts(version)' = Parts(version) /\ (Script(version)[1])' = Script(version)[1]
      BY <3>1 DEF Parts, Made, Script
    <3>3. QED
      BY <1>a, <1>d, <3>1, <3>2
  <2>2. CASE Interrupted
    <3>1. version' = version /\ schema' = schema
      BY <2>2 DEF Interrupted
    <3>2. Parts(version)' = Parts(version) /\ (Script(version)[1])' = Script(version)[1]
      BY <3>1 DEF Parts, Made, Script
    <3>3. PICK p \in Procs : MidScript(p)
      BY <2>2 DEF Interrupted
    <3>4. /\ version < 2 /\ schema = Parts(version) \union Made(version, step[p])
          /\ pc[p] = "set version" => step[p] = 4
      BY <3>3 DEF IInv, MigrationIsExclusive
    <3>5. step[p] \in 2 .. 4
      <4>1. step[p] \in 1 .. 4
        BY DEF IInv, TypeOK
      <4>2. step[p] > 1 \/ step[p] = 4
        BY <3>3, <3>4 DEF MidScript
      <4>3. QED
        BY <4>1, <4>2
    <3>6. version \in {0, 1}
      <4>1. version < 2
        BY <3>4
      <4>2. QED
        BY <1>c, <4>1
    <3>7. Script(version)[1] \in schema
      BY <3>4, <3>5, <3>6, MadeSoFar
    <3>8. Ours
      BY <3>3 DEF IInv, UsersAreCurrent, MidScript
    <3>9. QED
      BY <1>a, <1>d, <3>1, <3>2, <3>4, <3>7, <3>8
  <2>3. ASSUME NEW p \in Procs, Create(p) PROVE Schemas
    <3>1. /\ version' = version /\ ~cut' /\ version \in {0, 1}
          /\ schema' = Parts(version) \union Made(version, step[p] + 1)
      BY <2>3, CreateMakesOne
    <3>2. Parts(version)' = Parts(version)
      BY <3>1 DEF Parts, Made, Script
    <3>3. Ours
      BY <2>3 DEF Create, IInv, UsersAreCurrent
    <3>4. version' <= 2
      <4>1. version' \in {0, 1}
        BY <3>1
      <4>2. QED
        BY <4>1
    <3>5. QED
      BY <1>d, <3>1, <3>2, <3>3, <3>4
  <2>4. ASSUME NEW p \in Procs, SetVersion(p) PROVE Schemas
    <3>1. /\ version \in {0, 1} /\ version' = version + 1 /\ ~cut'
          /\ schema' = Parts(version) \union Made(version, 4)
      BY <2>4, VersionGrows
    <3>2. Parts(version)' = Parts(version + 1)
      BY <3>1 DEF Parts, Made, Script
    <3>3. Parts(version)' = schema'
      BY <3>1, <3>2, NextParts
    <3>4. Ours
      BY <2>4 DEF SetVersion, IInv, UsersAreCurrent
    <3>5. version' <= 2
      BY <3>1
    <3>6. QED
      BY <1>d, <3>1, <3>3, <3>4, <3>5
  <2>5. QED
    BY <2>1, <2>2, <2>3, <2>4, StepKinds
<1>3. /\ runs' # {} => version' >= 1 /\ Ours'
      /\ observations' # {} => version' = 2 /\ Ours'
  <2>1. CASE runs' = runs /\ observations' = observations
    <3>1. runs' # {} => version' >= 1
      BY <1>1, <1>b, <1>c, <2>1
    <3>2. version = 2 => version' = 2
      BY <1>1
    <3>3. QED
      BY <1>b, <1>d, <2>1, <3>1, <3>2
  <2>2. CASE version' = version /\ version = 2 /\ Ours
    BY <1>d, <2>2
  <2>3. QED
    BY <2>1, <2>2, RowsByUsers
<1>4. QED
  BY <1>2, <1>3 DEF FileIsReadable

\* A file nobody is migrating, and whose migration nothing cut short, is whole.
LEMMA NextNoHalf == IInv /\ [Next]_vars => NoHalfMigration'
<1> SUFFICES ASSUME IInv, [Next]_vars, ~cut', Ours', \A p \in Procs : ~MidScript(p)'
             PROVE  schema' = Parts(version)'
  BY DEF NoHalfMigration
<1>1. CASE Quiet
  <2>1. version' = version /\ schema' = schema /\ ~cut /\ \A p \in Procs : ~MidScript(p)
    BY <1>1 DEF Quiet
  <2>2. schema = Parts(version)
    BY <2>1, OursStays DEF IInv, NoHalfMigration
  <2>3. QED
    BY <2>1, <2>2 DEF Parts, Made, Script
<1>2. CASE Interrupted
  BY <1>2 DEF Interrupted
<1>3. ASSUME NEW p \in Procs, Create(p) PROVE FALSE
  <2>1. /\ step[p] \in 1 .. 3 /\ step'[p] = step[p] + 1
        /\ pc'[p] = IF step[p] = 3 THEN "set version" ELSE "create"
    BY <1>3, CreateMakesOne
  <2>2. step'[p] > 1
    <3>1. step[p] \in 1 .. 3 /\ step'[p] = step[p] + 1
      BY <2>1
    <3>2. QED
      BY <3>1
  <2>3. MidScript(p)'
    BY <2>1, <2>2 DEF MidScript
  <2>4. QED
    BY <2>3
<1>4. ASSUME NEW p \in Procs, SetVersion(p) PROVE schema' = Parts(version)'
  <2>1. /\ version \in {0, 1} /\ version' = version + 1
        /\ schema' = Parts(version) \union Made(version, 4)
    BY <1>4, VersionGrows
  <2>2. Parts(version)' = Parts(version + 1)
    BY <2>1 DEF Parts, Made, Script
  <2>3. QED
    BY <2>1, <2>2, NextParts
<1>5. QED
  BY <1>1, <1>2, <1>3, <1>4, StepKinds

-----------------------------------------------------------------------------
(* Theorems. *)

\* IInv holds in every state of every behaviour.
THEOREM InductiveInvariant == Spec => []IInv
<1>1. IInv /\ [Next]_vars => IInv'
  BY NextTypeOK, NextMigration, NextUsers, NextFile, NextNoHalf DEF IInv
<1>2. QED
  BY <1>1, InitIInv, PTL DEF Spec

\* The variables keep the values SQLite and the processes can give them.
THEOREM TypeCorrect == Spec => []TypeOK
BY InductiveInvariant, PTL DEF IInv

\* However many processes race to migrate the file, and whatever stale version
\* they read, the schema is half-made only where a failure or a kill cut the
\* script itself short.
THEOREM RacesLeaveNoHalfMigration == Spec => []NoHalfMigration
BY InductiveInvariant, PTL DEF IInv

\* No row is ever in the file without the triggers that make it immutable.
THEOREM RowsAreAlwaysGuarded == Spec => []RowsAreGuarded
<1>1. IInv => RowsAreGuarded
  <2> SUFFICES ASSUME IInv PROVE RowsAreGuarded
    OBVIOUS
  <2>1. /\ Ours => version <= 2 /\ Parts(version) \subseteq schema
        /\ runs # {} => version >= 1 /\ Ours
        /\ observations # {} => version = 2 /\ Ours
    BY DEF IInv, FileIsReadable, SchemaVersion
  <2>2. Parts(1) \subseteq Parts(2)
    BY PartsOfVersions
  <2>3. version \in 0 .. 3
    BY VersionInRange
  <2>4. runs # {} => Parts(1) \subseteq schema
    <3>1. CASE version = 1
      BY <2>1, <3>1
    <3>2. CASE version = 2
      BY <2>1, <2>2, <3>2
    <3>3. runs # {} => version \in {1, 2}
      BY <2>1, <2>3
    <3>4. QED
      BY <3>1, <3>2, <3>3
  <2>5. QED
    BY <2>1, <2>4 DEF RowsAreGuarded
<1>2. QED
  BY <1>1, InductiveInvariant, PTL

\* No process takes the version of the file back.
THEOREM VersionsOnlyGrow == Spec => VersionNeverGoesBack
<1>1. IInv /\ [Next]_vars => [version' >= version]_vars
  <2> SUFFICES ASSUME IInv, [Next]_vars PROVE version' >= version
    OBVIOUS
  <2>1. version' = version \/ (version \in {0, 1} /\ version' = version + 1)
    BY VersionGrows, StepKinds, CreateMakesOne DEF Quiet, Interrupted
  <2>2. QED
    BY <2>1, VersionInRange
<1>2. QED
  BY <1>1, InductiveInvariant, PTL DEF Spec, VersionNeverGoesBack

-----------------------------------------------------------------------------
(* What processes say of their runs. *)

\* A run id is stored once; observations and reports are of stored runs, and of
\* a run whose observations a process is about to save nothing has been
\* observed or said, nor does another process save them.
RunsAreSavedOnce ==
  /\ \A a, b \in runs : a.id = b.id => a = b
  /\ \A o \in observations : o.run \in StoredIds
  /\ \A t \in told : t.run \in runs
  /\ \A p \in Procs : pc[p] = "observe" =>
       /\ \A o \in observations : o.run # job[p].id
       /\ \A t \in told : t.run.id # job[p].id
       /\ \A q \in Procs : pc[q] = "observe" /\ job[q].id = job[p].id => q = p

\* What ToldIsTrue needs of the schema and of the rows.
SInv == IInv /\ RunsAreSavedOnce /\ ToldIsTrue

\* Nothing is stored or said, and who saves observations was saving them.
Idly ==
  /\ runs' = runs /\ observations' = observations /\ told' = told
  /\ \A q \in Procs : pc'[q] = "observe" => pc[q] = "observe" /\ job'[q] = job[q]

\* A process goes to another stage than saving observations.
LEMMA ElsewhereIsIdle ==
  ASSUME TypeOK, NEW p \in Procs, NEW to \in Stages, to # "observe", Goto(p, to),
         runs' = runs, observations' = observations, told' = told,
         \A q \in Procs \ {p} : job'[q] = job[q]
  PROVE  Idly
<1>1. pc \in [Procs -> Stages]
  BY DEF TypeOK
<1>2. pc'[p] = to /\ \A q \in Procs \ {p} : pc'[q] = pc[q]
  BY <1>1 DEF Goto
<1>3. QED
  BY <1>2 DEF Idly

\* Closing the store touches no row, and the process saves nothing any more.
LEMMA ClosedProcesses ==
  ASSUME TypeOK, NEW p \in Procs, Close(p)
  PROVE  pc'[p] = "idle" /\ \A q \in Procs \ {p} : pc'[q] = pc[q] /\ job'[q] = job[q]
BY DEF TypeOK, Close, Goto

\* A closing that stores and says nothing is idle.
LEMMA ClosingIsIdle ==
  ASSUME TypeOK, NEW p \in Procs, Close(p),
         runs' = runs, observations' = observations, told' = told
  PROVE  Idly
<1>1. pc'[p] # "observe"
  BY ClosedProcesses
<1>2. QED
  BY <1>1, ClosedProcesses DEF Idly

\* Every other step than saving a run, saving observations and failing to is
\* idle.
LEMMA IdleSteps ==
  ASSUME TypeOK, [Next]_vars
  PROVE  Idly \/ \E p \in Procs : SaveRun(p) \/ SaveObservations(p) \/ ObservationsFail(p)
<1>1. CASE UNCHANGED vars
  BY <1>1 DEF Idly, vars, file, local, said
<1>2. ASSUME NEW p \in Procs, NEW j \in Jobs, Open(p, j)
      PROVE  Idly
  <2>1. /\ Goto(p, "version") /\ job' = [job EXCEPT ![p] = j]
        /\ runs' = runs /\ observations' = observations /\ told' = told
    BY <1>2 DEF Open, file, said
  <2>2. \A q \in Procs \ {p} : job'[q] = job[q]
    BY <2>1 DEF TypeOK
  <2>3. "version" \in Stages /\ "version" # "observe"
    BY DEF Stages
  <2>4. QED
    BY <2>1, <2>2, <2>3, ElsewhereIsIdle
<1>3. ASSUME NEW p \in Procs, ReadVersion(p) \/ NoTables(p) \/ Create(p) \/ SetVersion(p)
      PROVE  Idly
  <2>1. runs' = runs /\ observations' = observations /\ told' = told /\ job' = job
    BY <1>3 DEF ReadVersion, NoTables, Create, SetVersion, file, said
  <2>2. \E to \in Stages : to # "observe" /\ Goto(p, to)
    BY <1>3 DEF ReadVersion, NoTables, Create, SetVersion, Continue, Stages
  <2>3. QED
    BY <2>1, <2>2, ElsewhereIsIdle
<1>4. ASSUME NEW p \in Procs,
             RefuseNewer(p) \/ RefuseOlder(p) \/ ListHistory(p) \/ StatementFails(p) \/ Die(p)
      PROVE  Idly
  <2>1. Close(p)
    BY <1>4 DEF RefuseNewer, RefuseOlder, ListHistory, StatementFails, Die
  <2>2. runs' = runs /\ observations' = observations /\ told' = told
    BY <1>4 DEF RefuseNewer, RefuseOlder, ListHistory, StatementFails, Die, Refuse, file, said
  <2>3. QED
    BY <2>1, <2>2, ClosingIsIdle
<1>5. QED
  BY <1>1, <1>2, <1>3, <1>4 DEF Next

\* In the first state at most one run is stored and nothing was said.
LEMMA InitSInv == Init => SInv
<1> SUFFICES ASSUME Init PROVE RunsAreSavedOnce /\ ToldIsTrue
  BY InitIInv DEF SInv
<1>1. /\ told = {} /\ observations = {} /\ pc = [p \in Procs |-> "idle"]
      /\ \A a, b \in runs : a = b
  BY DEF Init
<1>2. QED
  BY <1>1 DEF RunsAreSavedOnce, ToldIsTrue, Said

\* A step that saves and says nothing keeps what was said true.
LEMMA IdleKeepsSInv ==
  ASSUME SInv, Idly
  PROVE  RunsAreSavedOnce' /\ ToldIsTrue'
<1>1. runs' = runs /\ observations' = observations /\ told' = told
  BY DEF Idly
<1>2. ToldIsTrue'
  BY <1>1 DEF SInv, ToldIsTrue, Said
<1>3. RunsAreSavedOnce'
  BY <1>1 DEF SInv, RunsAreSavedOnce, Idly, StoredIds
<1>4. QED
  BY <1>2, <1>3

\* Saving a run stores an id that no run, observation or report had.
LEMMA SaveRunKeepsSInv ==
  ASSUME SInv, NEW p \in Procs, SaveRun(p)
  PROVE  RunsAreSavedOnce' /\ ToldIsTrue'
<1> DEFINE a == job[p]
<1>1. /\ pc \in [Procs -> Stages] /\ job \in [Procs -> Jobs] /\ told \subseteq [run : Runs, what : {"stored", "not observed"}]
      /\ runs \subseteq Runs
  BY DEF SInv, IInv, TypeOK
<1>2. /\ pc[p] = "use" /\ a # History /\ a.id \notin StoredIds
      /\ runs' = runs \union {a} /\ observations' = observations
  BY DEF SaveRun, Insertable
<1>3. a \in Runs /\ a \notin runs
  BY <1>1, <1>2 DEF Jobs, StoredIds
<1>4. /\ \A b \in runs : b.id # a.id
      /\ \A o \in observations : o.run # a.id
      /\ \A t \in told : t.run.id # a.id /\ t.run # a
  BY <1>2, <1>3 DEF SInv, RunsAreSavedOnce, StoredIds
<1>5. \A q \in Procs : pc[q] = "observe" => job[q].id # a.id
  BY <1>4 DEF SInv, IInv, UsersAreCurrent
<1>6. /\ \A b, c \in runs' : b.id = c.id => b = c
      /\ \A o \in observations' : o.run \in StoredIds'
  <2>1. \A b, c \in runs : b.id = c.id => b = c
    BY DEF SInv, RunsAreSavedOnce
  <2>2. \A o \in observations' : o.run \in StoredIds'
    <3>1. StoredIds \subseteq StoredIds'
      BY <1>2 DEF StoredIds
    <3>2. \A o \in observations : o.run \in StoredIds
      BY DEF SInv, RunsAreSavedOnce
    <3>3. QED
      BY <1>2, <3>1, <3>2
  <2>3. QED
    BY <1>2, <1>4, <2>1, <2>2
<1>7. CASE a.dated
  <2>1. Goto(p, "observe") /\ job' = job /\ told' = told
    BY <1>7 DEF SaveRun, said
  <2>2. pc'[p] = "observe" /\ \A q \in Procs \ {p} : pc'[q] = pc[q]
    BY <1>1, <2>1 DEF Goto
  <2>3. ToldIsTrue'
    <3>1. \A r \in Runs : r \in runs => r \in runs'
      BY <1>2
    <3>2. QED
      BY <1>2, <2>1, <3>1 DEF SInv, ToldIsTrue, Said
  <2>4. \A t \in told' : t.run \in runs'
    BY <1>2, <2>1 DEF SInv, RunsAreSavedOnce
  <2>5. \A q \in Procs : pc'[q] = "observe" =>
          /\ \A o \in observations' : o.run # job'[q].id
          /\ \A t \in told' : t.run.id # job'[q].id
          /\ \A s \in Procs : pc'[s] = "observe" /\ job'[s].id = job'[q].id => s = q
    <3>1. \A q \in Procs : pc'[q] = "observe" => pc[q] = "observe" \/ q = p
      BY <2>2
    <3>2. \A q \in Procs : pc[q] = "observe" =>
            /\ \A o \in observations : o.run # job[q].id
            /\ \A t \in told : t.run.id # job[q].id
            /\ \A s \in Procs : pc[s] = "observe" /\ job[s].id = job[q].id => s = q
      BY DEF SInv, RunsAreSavedOnce
    <3>3. QED
      BY <1>2, <1>4, <1>5, <2>1, <3>1, <3>2
  <2>6. QED
    BY <1>6, <2>3, <2>4, <2>5 DEF RunsAreSavedOnce
<1>8. CASE ~a.dated
  <2>1. Close(p) /\ told' = told \union {[run |-> a, what |-> "stored"]}
    BY <1>8 DEF SaveRun, Says
  <2>2. pc'[p] = "idle" /\ \A q \in Procs \ {p} : pc'[q] = pc[q] /\ job'[q] = job[q]
    BY <2>1, ClosedProcesses DEF SInv, IInv
  <2>3. ToldIsTrue'
    <3> SUFFICES ASSUME NEW r \in Runs
                 PROVE  /\ Said(r, "stored")' => r \in runs'
                        /\ Said(r, "stored")' /\ r.dated => ObservationsOf(r) \subseteq observations'
                        /\ Said(r, "not observed")' => r \in runs'
                        /\ Said(r, "not observed")' => \A o \in observations' : o.run # r.id
      BY Zenon DEF ToldIsTrue, ObservationsOf
    <3>1. Said(r, "stored")' => Said(r, "stored") \/ r = a
      BY <2>1 DEF Said
    <3>2. Said(r, "not observed")' => Said(r, "not observed")
      BY <2>1 DEF Said
    <3>3. /\ Said(r, "stored") => r \in runs
          /\ Said(r, "stored") /\ r.dated => ObservationsOf(r) \subseteq observations
          /\ Said(r, "not observed") => r \in runs /\ \A o \in observations : o.run # r.id
      BY Zenon DEF SInv, ToldIsTrue
    <3>4. r = a => ~r.dated
      BY <1>8, Zenon
    <3>5. QED
      BY <1>2, <3>1, <3>2, <3>3, <3>4, Zenon
  <2>4. \A t \in told' : t.run \in runs'
    BY <1>2, <2>1 DEF SInv, RunsAreSavedOnce
  <2>5. \A q \in Procs : pc'[q] = "observe" => q # p /\ pc[q] = "observe" /\ job'[q] = job[q]
    BY <2>2
  <2>6. \A t \in told' : t \in told \/ t.run.id = a.id
    BY <2>1
  <2>7. \A q \in Procs : pc'[q] = "observe" =>
          /\ \A o \in observations' : o.run # job'[q].id
          /\ \A t \in told' : t.run.id # job'[q].id
          /\ \A s \in Procs : pc'[s] = "observe" /\ job'[s].id = job'[q].id => s = q
    <3>1. \A q \in Procs : pc[q] = "observe" =>
            /\ \A o \in observations : o.run # job[q].id
            /\ \A t \in told : t.run.id # job[q].id
            /\ \A s \in Procs : pc[s] = "observe" /\ job[s].id = job[q].id => s = q
      BY DEF SInv, RunsAreSavedOnce
    <3>2. QED
      BY <1>2, <1>5, <2>5, <2>6, <3>1
  <2>8. QED
    BY <1>6, <2>3, <2>4, <2>7 DEF RunsAreSavedOnce
<1>9. QED
  BY <1>7, <1>8

\* A process that saves its observations, or fails to, has stored its run, and
\* no other process or report is about it.
LEMMA ObserversOwnTheirRun ==
  ASSUME SInv, NEW p \in Procs, pc[p] = "observe"
  PROVE  /\ job[p] \in runs /\ job[p] \in Runs
         /\ \A o \in observations : o.run # job[p].id
         /\ \A t \in told : t.run.id # job[p].id
         /\ \A q \in Procs \ {p} : pc[q] = "observe" => job[q].id # job[p].id
<1>1. job[p] \in runs
  BY DEF SInv, IInv, UsersAreCurrent
<1>2. runs \subseteq Runs
  BY DEF SInv, IInv, TypeOK
<1>3. QED
  BY <1>1, <1>2 DEF SInv, RunsAreSavedOnce

\* What a process that saved its observations, or failed to, says is so, and
\* what the others said stays so.
LEMMA ObservingKeepsSInv ==
  ASSUME SInv, NEW p \in Procs, SaveObservations(p) \/ ObservationsFail(p)
  PROVE  RunsAreSavedOnce' /\ ToldIsTrue'
<1> DEFINE a == job[p]
<1>1. pc[p] = "observe" /\ Close(p) /\ runs' = runs
  BY DEF SaveObservations, ObservationsFail, file
<1>2. \/ /\ observations' = observations \union ObservationsOf(a)
         /\ told' = told \union {[run |-> a, what |-> "stored"]}
      \/ /\ observations' = observations
         /\ told' = told \union {[run |-> a, what |-> "not observed"]}
  BY DEF SaveObservations, ObservationsFail, Says, file
<1>3. /\ a \in runs /\ a \in Runs
      /\ \A o \in observations : o.run # a.id
      /\ \A t \in told : t.run.id # a.id
      /\ \A q \in Procs \ {p} : pc[q] = "observe" => job[q].id # a.id
  BY <1>1, ObserversOwnTheirRun
<1>4. pc'[p] = "idle" /\ \A q \in Procs \ {p} : pc'[q] = pc[q] /\ job'[q] = job[q]
  BY <1>1, ClosedProcesses DEF SInv, IInv
<1>5. /\ observations \subseteq observations'
      /\ \A o \in observations' : o \in observations \/ o.run = a.id
  <2>1. \A o \in ObservationsOf(a) : o.run = a.id
    BY DEF ObservationsOf
  <2> HIDE DEF a
  <2>2. QED
    BY <1>2, <2>1
<1>6. \A t \in told' : t \in told \/ t.run = a
  <2>1. \A what : [run |-> a, what |-> what].run = a
    OBVIOUS
  <2> HIDE DEF a
  <2>2. told' = told \union {[run |-> a, what |-> "stored"]}
        \/ told' = told \union {[run |-> a, what |-> "not observed"]}
    BY <1>2
  <2>3. QED
    BY <2>1, <2>2
<1>7. \A q \in Procs : pc'[q] = "observe" => q # p /\ pc[q] = "observe" /\ job'[q] = job[q]
  BY <1>4
<1> HIDE DEF a
<1>8. RunsAreSavedOnce'
  <2>1. \A b, c \in runs' : b.id = c.id => b = c
    BY <1>1 DEF SInv, RunsAreSavedOnce
  <2>2. \A o \in observations' : o.run \in StoredIds'
    <3>1. \A o \in observations : o.run \in StoredIds
      BY DEF SInv, RunsAreSavedOnce
    <3>2. StoredIds' = StoredIds /\ a.id \in StoredIds
      BY <1>1, <1>3 DEF StoredIds
    <3>3. QED
      BY <1>5, <3>1, <3>2
  <2>3. \A t \in told' : t.run \in runs'
    BY <1>1, <1>3, <1>6 DEF SInv, RunsAreSavedOnce
  <2>4. \A q \in Procs : pc'[q] = "observe" =>
          /\ \A o \in observations' : o.run # job'[q].id
          /\ \A t \in told' : t.run.id # job'[q].id
          /\ \A s \in Procs : pc'[s] = "observe" /\ job'[s].id = job'[q].id => s = q
    <3>1. \A q \in Procs : pc[q] = "observe" =>
            /\ \A o \in observations : o.run # job[q].id
            /\ \A t \in told : t.run.id # job[q].id
            /\ \A s \in Procs : pc[s] = "observe" /\ job[s].id = job[q].id => s = q
      BY DEF SInv, RunsAreSavedOnce
    <3>2. \A q \in Procs : pc'[q] = "observe" => job[q].id # a.id
      BY <1>3, <1>7
    <3>3. QED
      BY <1>5, <1>6, <1>7, <3>1, <3>2
  <2>5. QED
    BY <2>1, <2>2, <2>3, <2>4 DEF RunsAreSavedOnce
<1>9. ToldIsTrue'
  <2> SUFFICES ASSUME NEW r \in Runs
               PROVE  /\ Said(r, "stored")' => r \in runs'
                      /\ Said(r, "stored")' /\ r.dated => ObservationsOf(r) \subseteq observations'
                      /\ Said(r, "not observed")' => r \in runs'
                      /\ Said(r, "not observed")' => \A o \in observations' : o.run # r.id
    BY Zenon DEF ToldIsTrue, ObservationsOf
  <2>1. /\ Said(r, "stored") => r \in runs
        /\ Said(r, "stored") /\ r.dated => ObservationsOf(r) \subseteq observations
        /\ Said(r, "not observed") => r \in runs /\ \A o \in observations : o.run # r.id
    BY Zenon DEF SInv, ToldIsTrue
  <2>2. CASE r = a
    <3>1. ~Said(r, "stored") /\ ~Said(r, "not observed")
      BY <1>3, <2>2 DEF Said
    <3>2. Said(r, "stored")' => ObservationsOf(r) \subseteq observations'
      BY <1>2, <2>2, <3>1 DEF Said
    <3>3. Said(r, "not observed")' => observations' = observations
      BY <1>2, <2>2, <3>1 DEF Said
    <3>4. QED
      BY <1>1, <1>3, <2>2, <3>2, <3>3, Zenon
  <2>3. CASE r # a
    <3>1. /\ Said(r, "stored")' => Said(r, "stored")
          /\ Said(r, "not observed")' => Said(r, "not observed")
      BY <1>2, <2>3 DEF Said
    <3>2. r.id = a.id => r \notin runs
      BY <1>3, <2>3 DEF SInv, RunsAreSavedOnce
    <3>3. Said(r, "not observed") => \A o \in observations' : o.run # r.id
      BY <1>5, <2>1, <3>2
    <3>4. QED
      BY <1>1, <1>5, <2>1, <3>1, <3>3, Zenon
  <2>4. QED
    BY <2>2, <2>3
<1>10. QED
  BY <1>8, <1>9

\* The invariant of the rows and of what is said about them holds in every
\* reachable state.
THEOREM StoreInvariant == Spec => []SInv
<1>1. SInv /\ [Next]_vars => SInv'
  <2> SUFFICES ASSUME SInv, [Next]_vars PROVE SInv'
    OBVIOUS
  <2>1. IInv'
    BY NextTypeOK, NextMigration, NextUsers, NextFile, NextNoHalf DEF SInv, IInv
  <2>2. RunsAreSavedOnce' /\ ToldIsTrue'
    BY IdleSteps, IdleKeepsSInv, SaveRunKeepsSInv, ObservingKeepsSInv DEF SInv, IInv
  <2>3. QED
    BY <2>1, <2>2 DEF SInv
<1>2. QED
  BY <1>1, InitSInv, PTL DEF Spec

\* What a process says of its run is so and stays so, however many processes
\* save runs, correct each other and die: a run said to be stored is, with all
\* its observations, and one said to have none has none.
THEOREM ReportsAreTrue == Spec => []ToldIsTrue
BY StoreInvariant, PTL DEF SInv
=============================================================================
