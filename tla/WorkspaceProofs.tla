--------------------------- MODULE WorkspaceProofs ---------------------------
(* What TLAPS proves of Workspace, for every number of processes, names,     *)
(* paths, local files and environments: its types, that users are told the   *)
(* truth about profiles and repositories, and that a profile is replayed     *)
(* exactly.                                                                  *)
EXTENDS Workspace, TLAPS

USE DefaultsAssumption, MarkersAssumption, WorkspaceBounds, InputsAssumption

-----------------------------------------------------------------------------
(* The configuration as a pure function. *)

\* What the layers have been merged into so far.
Merged == [salt : Salt, provider : Provider \cup {Null}, hash : Block \cup {Null}]

\* A payload that can be saved.
Saved == {payload \in Payload :
            \/ payload.provider = Null /\ payload.model = Null
            \/ payload.provider = LocalHash /\ payload.model # Null}

LEMMA DefaultsMerged == Defaults \in Merged
  BY SMT DEF Defaults, Merged, Block

LEMMA MergeBlockType ==
    ASSUME NEW base \in Block \cup {Null}, NEW block \in Block \cup {Null, Unset}
    PROVE  MergeBlock(base, block) \in Block \cup {Null}
  BY SMT DEF MergeBlock, Block, Over

LEMMA MergeType ==
    ASSUME NEW base \in Merged, NEW layer \in Layer
    PROVE  Merge(base, layer) \in Merged
  <1>1. MergeBlock(base.hash, layer.hash) \in Block \cup {Null}
    BY MergeBlockType DEF Merged, Layer
  <1>2. Over(layer.salt, base.salt) \in Salt
    BY DEF Over, Merged, Layer
  <1>3. Over(layer.provider, base.provider) \in Provider \cup {Null}
    BY DEF Over, Merged, Layer
  <1> QED  BY <1>1, <1>2, <1>3 DEF Merge, Merged

(* A layer without settings changes nothing. *)
LEMMA MergeNothing ==
    ASSUME NEW base \in Merged
    PROVE  Merge(base, NoLayer) = base
  BY SMT DEF Merge, NoLayer, MergeBlock, Over, Merged

LEMMA ProfileLayerType ==
    ASSUME NEW payload \in Payload
    PROVE  ProfileLayer(payload) \in Layer
  BY SMT DEF ProfileLayer, Layer, Payload, Block

LEMMA EnvironmentLayerType ==
    ASSUME NEW env \in Environment
    PROVE  EnvironmentLayer(env) \in Layer
  BY SMT DEF EnvironmentLayer, Environment, Cleared, Layer, Block

LEMMA NoEnvironmentLayer ==
    /\ NoEnvironment \in Environment
    /\ EnvironmentLayer(NoEnvironment) = NoLayer
  BY SMT DEF EnvironmentLayer, Environment, NoEnvironment, Cleared, NoLayer

LEMMA ValidatedType ==
    ASSUME NEW merged \in Merged
    PROVE  Validated(merged) \in Config \cup {Invalid}
  BY SMT DEF Validated, Merged, Config, Block, Over

LEMMA MigrateType ==
    ASSUME NEW file \in File
    PROVE  Migrate(file) \in Layer
  BY SMT DEF Migrate, File, Layer, Block, Over

(* The environment, and with it the validation, is the last step. *)
LEMMA LoadType ==
    ASSUME NEW project \in File, NEW file \in File, NEW profile \in Payload \cup {Null},
           NEW env \in Environment
    PROVE  Load(project, file, profile, env) \in Config \cup {Invalid}
  <1> DEFINE selected == IF profile = Null THEN NoLayer ELSE ProfileLayer(profile)
             below == Merge(Merge(Defaults, Migrate(project)), Migrate(file))
  <1>1. selected \in Layer
    BY ProfileLayerType, SMT DEF NoLayer, Layer
  <1>2. below \in Merged
    BY DefaultsMerged, MigrateType, MergeType
  <1>3. Merge(Merge(below, selected), EnvironmentLayer(env)) \in Merged
    BY <1>1, <1>2, MergeType, EnvironmentLayerType
  <1>4. Validated(Merge(Merge(below, selected), EnvironmentLayer(env))) \in Config \cup {Invalid}
    BY <1>3, ValidatedType
  <1> QED  BY <1>4 DEF Load

LEMMA EffectiveType ==
    ASSUME NEW config \in Config
    PROVE  /\ Effective(config) \in Payload
           /\ Savable(config) => Effective(config) \in Saved
  BY SMT DEF Effective, Config, Payload, Saved, Savable

(* Whatever lies below it, a saved profile is what comes out where it is the *)
(* last layer, unless it is refused.                                         *)
LEMMA ValidatedProfile ==
    ASSUME NEW below \in Merged, NEW profile \in Saved,
           Validated(Merge(below, ProfileLayer(profile))) # Invalid
    PROVE  Effective(Validated(Merge(below, ProfileLayer(profile)))) = profile
  <1> DEFINE merged == Merge(below, ProfileLayer(profile))
  <1>1. merged.salt = profile.salt /\ merged.provider = profile.provider
    BY SMT DEF Merge, ProfileLayer, Over, Saved, Payload
  <1>2. merged.hash = MergeBlock(below.hash, ProfileLayer(profile).hash)
    BY DEF Merge
  <1>3. profile.model # Null
    <2>1. SUFFICES ASSUME profile.model = Null PROVE FALSE
      OBVIOUS
    <2>2. ProfileLayer(profile).hash = Null
      BY <2>1 DEF ProfileLayer
    <2>3. merged.hash = Null
      BY <1>2, <2>2 DEF MergeBlock
    <2> QED  BY <2>3 DEF Validated
  <1>4. profile.provider = LocalHash /\ profile.model \in Model
    BY <1>3 DEF Saved, Payload
  <1>5. ProfileLayer(profile).hash = [model |-> profile.model, key |-> Unset]
    BY <1>3 DEF ProfileLayer
  <1>6. ProfileLayer(profile).hash \in Block
    BY <1>4, <1>5 DEF Block
  <1>7. merged.hash # Null /\ merged.hash.model = profile.model
    BY <1>2, <1>4, <1>5, <1>6, SMT DEF MergeBlock, Over, Validated
  <1>8. /\ Validated(merged).model = profile.model
        /\ Validated(merged).salt = profile.salt
        /\ Validated(merged).provider = profile.provider
    BY <1>1, <1>4, <1>7, SMT DEF Validated, Over
  <1> QED  BY <1>4, <1>8, SMT DEF Effective, Saved, Payload

(* The environment's empty layer leaves that as it is. *)
LEMMA LoadIsReplay ==
    ASSUME NEW project \in File, NEW file \in File, NEW profile \in Saved,
           Load(project, file, profile, NoEnvironment) # Invalid
    PROVE  Effective(Load(project, file, profile, NoEnvironment)) = profile
  <1> DEFINE below == Merge(Merge(Defaults, Migrate(project)), Migrate(file))
             merged == Merge(below, ProfileLayer(profile))
  <1>1. below \in Merged
    BY DefaultsMerged, MigrateType, MergeType
  <1>2. profile \in Payload /\ profile # Null
    BY DEF Saved
  <1>3. Merge(merged, EnvironmentLayer(NoEnvironment)) = merged
    BY <1>1, <1>2, ProfileLayerType, MergeType, NoEnvironmentLayer, MergeNothing
  <1>4. Load(project, file, profile, NoEnvironment) = Validated(merged)
    BY <1>2, <1>3 DEF Load
  <1> QED  BY <1>1, <1>4, ValidatedProfile

-----------------------------------------------------------------------------
(* Types, and what a process holds where it is. *)

Jobs == [cmd : {"none", "save", "workflow", "register"},
         pc : {"idle", "load", "select", "reload", "initialize", "check",
               "look_up", "insert", "record"},
         key : Name \cup Path \cup {Null}, selector : Selector \cup {Null},
         env : Environment, base : Name \cup {Null},
         config : Config \cup {Null}, alone : BOOLEAN]

Holding(j) ==
    /\ j.cmd = "save" => j.key \in Name
    /\ j.cmd = "register" => j.key \in Path
    /\ j.pc = "check" => j.cmd = "save"
    /\ j.pc \in {"look_up", "insert"} => j.cmd \in {"save", "register"}
    /\ j.pc \notin {"idle", "load"} => j.config \in Config
    /\ j.pc \in {"look_up", "insert"} /\ j.cmd = "save" => Savable(j.config)
    /\ j.pc = "reload" => j.base # Null
    /\ j.pc \in {"idle", "load", "select"} => j.base = Null

JobOK ==
    /\ \A p \in Proc : Holding(job[p])
    /\ \A p \in Proc : job[p].base # Null => profiles[job[p].base] \in Saved

TypeInv == TypeOK /\ profiles \in [Name -> Saved \cup {Null}] /\ JobOK

LEMMA NoJobType == NoJob \in Jobs /\ Holding(NoJob)
  BY NoEnvironmentLayer, SMT DEF NoJob, Jobs, Holding

(* One process moves: the others' jobs are what they were. *)
LEMMA OneMoves ==
    ASSUME TypeInv, NEW p \in Proc, NEW j \in Jobs, Holding(j),
           job' = [job EXCEPT ![p] = j],
           profiles' \in [Name -> Saved \cup {Null}],
           \A n \in Name : profiles[n] # Null => profiles'[n] = profiles[n],
           j.base # Null => profiles[j.base] \in Saved
    PROVE  job' \in [Proc -> Jobs] /\ JobOK'
  <1>1. job \in [Proc -> Jobs]
    BY DEF TypeInv, TypeOK, Jobs
  <1>2. job' \in [Proc -> Jobs]
    BY <1>1
  <1>3. \A q \in Proc : job'[q] = IF q = p THEN j ELSE job[q]
    BY <1>1
  <1>4. \A q \in Proc : Holding(job'[q])
    BY <1>3 DEF TypeInv, JobOK
  <1>5. \A q \in Proc : job'[q].base # Null => profiles[job'[q].base] \in Saved
    BY <1>3 DEF TypeInv, JobOK
  <1>6. \A q \in Proc : job'[q].base \in Name \cup {Null}
    BY <1>2 DEF Jobs
  <1>7. Null \notin Saved
    BY DEF Saved
  <1>8. \A q \in Proc : job'[q].base # Null => profiles'[job'[q].base] \in Saved
    BY <1>5, <1>6, <1>7
  <1> QED  BY <1>2, <1>4, <1>8 DEF JobOK, Holding

(* What the job of a process may become. *)
LEMMA JobAt ==
    ASSUME TypeInv, NEW p \in Proc
    PROVE  /\ job \in [Proc -> Jobs] /\ job[p] \in Jobs /\ Holding(job[p])
           /\ profiles \in [Name -> Saved \cup {Null}]
           /\ job[p].base # Null => profiles[job[p].base] \in Saved
           /\ Base(p) \in Payload \cup {Null}
           /\ job[p].env \in Environment
           /\ local \in File /\ Project \in File
  BY SMT DEF TypeInv, TypeOK, JobOK, Jobs, Base, Saved

MetersOK ==
    commands \in 0..MaxCommands /\ edits \in 0..MaxEdits /\ faults \in 0..MaxFaults

(* The tables apart from the jobs. *)
TablesOK ==
    /\ database \in {"absent", "partial", "ready"}
    /\ profiles \in [Name -> Saved \cup {Null}]
    /\ repositories \in [Path -> Nat]
    /\ \A r \in provenance : r.configuration \in Payload /\ r.base \in Name \cup {Null}
    /\ local \in Local
    /\ answers \subseteq [key : Name \cup Path, content : Payload \cup {Null}, alone : BOOLEAN,
                          outcome : {"exists", "name_conflict", "created", "already_registered"}]
    /\ MetersOK

LEMMA TypeInvParts ==
    /\ TypeInv <=> TablesOK /\ job \in [Proc -> Jobs] /\ JobOK
    /\ TypeInv' <=> TablesOK' /\ job' \in [Proc -> Jobs] /\ JobOK'
  BY SMT DEF TypeInv, TypeOK, TablesOK, MetersOK, Jobs, Saved

(* A process goes on with another job, or its command ends. *)
LEMMA Continues ==
    ASSUME TypeInv, TablesOK', NEW p \in Proc, NEW j \in Jobs, Holding(j),
           job' = [job EXCEPT ![p] = j],
           \A n \in Name : profiles[n] # Null => profiles'[n] = profiles[n],
           j.base # Null => profiles[j.base] \in Saved
    PROVE  TypeInv'
  <1>1. profiles' \in [Name -> Saved \cup {Null}]
    BY DEF TablesOK
  <1>2. job' \in [Proc -> Jobs] /\ JobOK'
    BY <1>1, OneMoves
  <1> QED  BY <1>2, TypeInvParts

LEMMA Ends ==
    ASSUME TypeInv, TablesOK', NEW p \in Proc, job' = [job EXCEPT ![p] = NoJob],
           \A n \in Name : profiles[n] # Null => profiles'[n] = profiles[n]
    PROVE  TypeInv'
  BY NoJobType, Continues DEF NoJob

(* What users are told has the type of answers. *)
LEMMA Told ==
    ASSUME TypeInv, NEW p \in Proc, NEW content \in Payload \cup {Null},
           NEW outcome \in {"exists", "name_conflict", "created", "already_registered"},
           job[p].key \in Name \cup Path, Tell(p, outcome, content)
    PROVE  answers' \subseteq [key : Name \cup Path, content : Payload \cup {Null}, alone : BOOLEAN,
                                outcome : {"exists", "name_conflict", "created", "already_registered"}]
  <1>1. job[p].alone \in BOOLEAN
    BY JobAt DEF Jobs
  <1> QED  BY <1>1, TypeInvParts DEF Tell, TablesOK

LEMMA BeginType ==
    ASSUME TablesOK, job \in [Proc -> Jobs], JobOK, NEW p \in Proc, Begin(p)
    PROVE  TypeInv'
  <1>1. /\ commands < MaxCommands /\ commands' = commands + 1
        /\ UNCHANGED <<database, rows, local, answers, edits, faults>>
    BY DEF Begin
  <1>2. MetersOK'
    BY <1>1 DEF TablesOK, MetersOK
  <1>3. TablesOK'
    BY <1>1, <1>2 DEF rows, TablesOK
  <1>5. PICK cmd \in {"save", "workflow", "register"}, key \in Name \cup Path \cup {Null},
             selector \in Name \cup {profiles[n] : n \in Name} \cup {Null}, env \in Env :
          /\ key \in Keys(cmd)
          /\ cmd = "register" => selector = Null /\ env = NoEnvironment
          /\ job' = [q \in Proc |-> IF q = p THEN Begun(cmd, key, selector, env) ELSE Accompanied(q)]
    BY DEF Begin
  <1>6. selector \in Selector \cup {Null}
    BY DEF TablesOK, Saved, Selector
  <1>7. /\ Begun(cmd, key, selector, env) \in Jobs
        /\ Holding(Begun(cmd, key, selector, env))
        /\ Begun(cmd, key, selector, env).base = Null
    <2> DEFINE j == Begun(cmd, key, selector, env)
    <2>1. Alone \in BOOLEAN
      BY DEF Alone
    <2>2. j = [cmd |-> cmd, pc |-> "load", key |-> key, selector |-> selector, env |-> env,
               base |-> Null, config |-> Null, alone |-> Alone]
      BY Zenon DEF Begun
    <2>3. env \in Environment /\ key \in Keys(cmd)
      BY <1>5
    <2> HIDE DEF j
    <2>4. j \in Jobs
      BY <1>6, <2>1, <2>2, <2>3 DEF Jobs
    <2>5. (cmd = "save" => key \in Name) /\ (cmd = "register" => key \in Path)
      BY <2>3 DEF Keys
    <2>6. j.cmd = cmd /\ j.pc = "load" /\ j.key = key /\ j.base = Null
      BY <2>2
    <2>7. Holding(j)
      BY <2>5, <2>6 DEF Holding
    <2> QED  BY <2>4, <2>6, <2>7 DEF j
  <1>8. \A q \in Proc : Accompanied(q) \in Jobs /\ Holding(Accompanied(q)) /\ Accompanied(q).base = job[q].base
    <2>1. TAKE q \in Proc
    <2>2. job[q] \in Jobs /\ Holding(job[q])
      BY DEF JobOK
    <2>3. (job[q].alone /\ At(q, "idle")) \in BOOLEAN
      OBVIOUS
    <2>4. Accompanied(q) \in Jobs
      BY <2>2, <2>3 DEF Accompanied, Jobs
    <2>5. \A field \in {"cmd", "pc", "key", "base", "config"} : Accompanied(q)[field] = job[q][field]
      BY <2>2 DEF Accompanied, Jobs
    <2> QED  BY <2>2, <2>4, <2>5 DEF Holding
  <1>9. job' \in [Proc -> Jobs] /\ \A q \in Proc : Holding(job'[q])
    BY <1>5, <1>7, <1>8
  <1>10. \A q \in Proc : job'[q].base \in {Null, job[q].base}
    BY <1>5, <1>7, <1>8
  <1>11. JobOK'
    BY <1>1, <1>9, <1>10 DEF JobOK, rows, Holding
  <1> QED  BY <1>3, <1>9, <1>11, TypeInvParts

LEMMA TypeInit == Init => TypeInv
  <1> SUFFICES ASSUME Init PROVE TypeInv
    OBVIOUS
  <1>1. TablesOK
    BY DEF Init, TablesOK, MetersOK
  <1>2. job \in [Proc -> Jobs] /\ JobOK
    BY NoJobType DEF Init, JobOK, NoJob
  <1> QED  BY <1>1, <1>2, TypeInvParts

LEMMA TypeStep ==
    ASSUME TypeInv, [Next]_workspaceVars
    PROVE  TypeInv'
  <1> USE DEF At, Goto, End, rows, meters
  <1>1. TablesOK /\ job \in [Proc -> Jobs] /\ JobOK
    BY TypeInvParts
  <1>2. CASE EditLocal
    <2>1. MetersOK'
      BY <1>1, <1>2 DEF EditLocal, TablesOK, MetersOK
    <2>2. TablesOK'
      BY <1>1, <1>2, <2>1 DEF EditLocal, TablesOK
    <2>3. job' \in [Proc -> Jobs] /\ JobOK'
      BY <1>1, <1>2 DEF EditLocal, JobOK, Holding
    <2> QED  BY <2>2, <2>3, TypeInvParts
  <1>3. CASE UNCHANGED workspaceVars
    <2>1. TablesOK'
      BY <1>1, <1>3 DEF workspaceVars, TablesOK, MetersOK
    <2>2. job' \in [Proc -> Jobs] /\ JobOK'
      BY <1>1, <1>3 DEF workspaceVars, JobOK, Holding
    <2> QED  BY <2>1, <2>2, TypeInvParts
  <1>4. ASSUME NEW p \in Proc, Step(p) PROVE TypeInv'
    <2>0. /\ job \in [Proc -> Jobs] /\ job[p] \in Jobs /\ Holding(job[p])
          /\ job[p].base # Null => profiles[job[p].base] \in Saved
      BY <1>1, JobAt
    <2>1. CASE Begin(p)
      BY <1>1, <2>1, BeginType
    <2>2. CASE LoadBase(p)
      <3> DEFINE config == Load(Project, local, Null, job[p].env)
                 pc == IF job[p].selector = Null THEN "initialize" ELSE "select"
                 j == [job[p] EXCEPT !.config = config, !.pc = pc]
      <3>1. TablesOK'
        BY <1>1, <2>2 DEF LoadBase, TablesOK, MetersOK
      <3>2. profiles' = profiles
        BY <2>2 DEF LoadBase
      <3>3. CASE config = Invalid
        BY <2>2, <3>1, <3>2, <3>3, Ends DEF LoadBase
      <3>4. CASE config # Invalid
        <4>1. config \in Config
          BY <3>4, JobAt, LoadType
        <4>2. job' = [job EXCEPT ![p] = j]
          BY <2>0, <2>2, <3>4 DEF LoadBase
        <4> HIDE DEF config
        <4>3. j \in Jobs /\ Holding(j) /\ j.base = Null
          BY <2>0, <2>2, <4>1 DEF LoadBase, Jobs, Holding
        <4> HIDE DEF j
        <4> QED  BY <3>1, <3>2, <4>2, <4>3, Continues
      <3> QED  BY <3>3, <3>4
    <2>3. CASE Select(p)
      <3>1. TablesOK'
        BY <1>1, <2>3 DEF Select, TablesOK, MetersOK
      <3>2. profiles' = profiles
        BY <2>3 DEF Select
      <3>3. CASE Cardinality(Matches(job[p].selector)) # 1
        BY <2>3, <3>1, <3>2, <3>3, Ends DEF Select
      <3>4. CASE Cardinality(Matches(job[p].selector)) = 1
        <4>1. PICK n \in Matches(job[p].selector) :
                job' = [job EXCEPT ![p].base = n, ![p].pc = "reload"]
          BY <2>3, <3>4 DEF Select
        <4> DEFINE j == [job[p] EXCEPT !.base = n, !.pc = "reload"]
        <4>2. n \in Name /\ n # Null /\ profiles[n] \in Saved
          BY <1>1 DEF Matches, Stored, TablesOK
        <4>3. job' = [job EXCEPT ![p] = j]
          BY <2>0, <4>1
        <4>4. j \in Jobs /\ Holding(j) /\ j.base = n
          BY <2>0, <2>3, <4>2 DEF Select, Jobs, Holding
        <4> HIDE DEF j
        <4> QED  BY <3>1, <3>2, <4>2, <4>3, <4>4, Continues
      <3> QED  BY <3>3, <3>4
    <2>4. CASE Reload(p)
      <3> DEFINE config == Load(Project, local, Base(p), job[p].env)
                 j == [job[p] EXCEPT !.config = config, !.pc = "initialize"]
      <3>1. TablesOK'
        BY <1>1, <2>4 DEF Reload, TablesOK, MetersOK
      <3>2. profiles' = profiles
        BY <2>4 DEF Reload
      <3>3. CASE config = Invalid
        BY <2>4, <3>1, <3>2, <3>3, Ends DEF Reload
      <3>4. CASE config # Invalid
        <4>1. config \in Config
          BY <3>4, JobAt, LoadType
        <4>2. job' = [job EXCEPT ![p] = j]
          BY <2>0, <2>4, <3>4 DEF Reload
        <4> HIDE DEF config
        <4>3. j \in Jobs /\ Holding(j) /\ j.base = job[p].base
          BY <2>0, <2>4, <4>1 DEF Reload, Jobs, Holding
        <4> HIDE DEF j
        <4> QED  BY <2>0, <3>1, <3>2, <4>2, <4>3, Continues
      <3> QED  BY <3>3, <3>4
    <2>5. CASE Initialize(p)
      <3> DEFINE j == [job[p] EXCEPT !.pc = AfterInitialize(job[p].cmd)]
      <3>1. TablesOK'
        BY <1>1, <2>5 DEF Initialize, TablesOK, MetersOK
      <3>2. profiles' = profiles
        BY <2>5 DEF Initialize
      <3>3. job' = [job EXCEPT ![p] = j]
        BY <2>0, <2>5 DEF Initialize
      <3>4. j \in Jobs /\ Holding(j) /\ j.base = job[p].base
        BY <2>0, <2>5 DEF Initialize, AfterInitialize, Jobs, Holding
      <3> HIDE DEF j
      <3> QED  BY <2>0, <3>1, <3>2, <3>3, <3>4, Continues
    <2>6. CASE InitializeFails(p)
      <3>1. TablesOK'
        BY <1>1, <2>6 DEF InitializeFails, TablesOK, MetersOK
      <3>2. profiles' = profiles
        BY <2>6 DEF InitializeFails
      <3> QED  BY <2>6, <3>1, <3>2, Ends DEF InitializeFails
    <2>7. CASE CheckSavable(p)
      <3> DEFINE j == [job[p] EXCEPT !.pc = "look_up"]
      <3>1. TablesOK'
        BY <1>1, <2>7 DEF CheckSavable, TablesOK, MetersOK
      <3>2. profiles' = profiles
        BY <2>7 DEF CheckSavable
      <3>3. CASE ~Savable(job[p].config)
        BY <2>7, <3>1, <3>2, <3>3, Ends DEF CheckSavable
      <3>4. CASE Savable(job[p].config)
        <4>1. job' = [job EXCEPT ![p] = j]
          BY <2>0, <2>7, <3>4 DEF CheckSavable
        <4>2. j \in Jobs /\ Holding(j) /\ j.base = job[p].base
          BY <2>0, <2>7, <3>4 DEF CheckSavable, Jobs, Holding
        <4> HIDE DEF j
        <4> QED  BY <2>0, <3>1, <3>2, <4>1, <4>2, Continues
      <3> QED  BY <3>3, <3>4
    <2>8. CASE LookUpName(p)
      <3> DEFINE j == [job[p] EXCEPT !.pc = "insert"]
                 content == Effective(job[p].config)
      <3>1. job[p].pc = "look_up" /\ job[p].cmd = "save"
        BY <2>8 DEF LookUpName
      <3>2. job[p].key \in Name \cup Path /\ content \in Payload
        BY <2>0, <3>1, EffectiveType DEF Holding
      <3>3. UNCHANGED <<database, rows, local, meters>>
        BY <2>8 DEF LookUpName
      <3> HIDE DEF content
      <3>4. CASE profiles[job[p].key] = Null
        <4>1. job' = [job EXCEPT ![p] = j] /\ UNCHANGED answers
          BY <2>0, <2>8, <3>2, <3>4 DEF LookUpName, content
        <4>2. TablesOK'
          BY <1>1, <3>3, <4>1 DEF TablesOK, MetersOK
        <4>3. j \in Jobs /\ Holding(j) /\ j.base = job[p].base
          BY <2>0, <3>1 DEF Jobs, Holding
        <4> HIDE DEF j
        <4> QED  BY <2>0, <3>3, <4>1, <4>2, <4>3, Continues
      <3>5. CASE profiles[job[p].key] # Null
        <4>1. PICK outcome \in {"exists", "name_conflict"} : Tell(p, outcome, content)
          BY <2>8, <3>5 DEF LookUpName, content
        <4>2. TablesOK'
          BY <1>1, <3>2, <3>3, <4>1, Told DEF TablesOK, MetersOK
        <4>3. job' = [job EXCEPT ![p] = NoJob]
          BY <4>1 DEF Tell
        <4> QED  BY <3>3, <4>2, <4>3, Ends
      <3> QED  BY <3>4, <3>5
    <2>9. CASE InsertProfile(p)
      <3> DEFINE content == Effective(job[p].config)
      <3>1. job[p].pc = "insert" /\ job[p].cmd = "save"
        BY <2>9 DEF InsertProfile
      <3>2. job[p].key \in Name /\ content \in Saved /\ content \in Payload
        BY <2>0, <3>1, EffectiveType DEF Holding
      <3>3. UNCHANGED <<database, repositories, provenance, local, meters>>
        BY <2>9 DEF InsertProfile
      <3>4. PICK outcome \in {"created", "name_conflict"} : Tell(p, outcome, content)
        BY <2>9 DEF InsertProfile
      <3>5. /\ profiles' \in [Name -> Saved \cup {Null}]
            /\ \A n \in Name : profiles[n] # Null => profiles'[n] = profiles[n]
        BY <1>1, <2>9, <3>2 DEF InsertProfile, TablesOK
      <3> HIDE DEF content
      <3>6. TablesOK'
        BY <1>1, <3>2, <3>3, <3>4, <3>5, Told DEF TablesOK, MetersOK
      <3>7. job' = [job EXCEPT ![p] = NoJob]
        BY <3>4 DEF Tell
      <3> QED  BY <3>5, <3>6, <3>7, Ends
    <2>10. CASE LookUpPath(p)
      <3> DEFINE j == [job[p] EXCEPT !.pc = "insert"]
      <3>1. job[p].pc = "look_up" /\ job[p].cmd = "register"
        BY <2>10 DEF LookUpPath
      <3>2. job[p].key \in Name \cup Path
        BY <2>0, <3>1 DEF Holding
      <3>3. UNCHANGED <<database, rows, local, meters>>
        BY <2>10 DEF LookUpPath
      <3>4. CASE repositories[job[p].key] > 0
        <4>1. Tell(p, "already_registered", Null)
          BY <2>10, <3>4 DEF LookUpPath
        <4>2. TablesOK'
          BY <1>1, <3>2, <3>3, <4>1, Told DEF TablesOK, MetersOK
        <4>3. job' = [job EXCEPT ![p] = NoJob]
          BY <4>1 DEF Tell
        <4> QED  BY <3>3, <4>2, <4>3, Ends
      <3>5. CASE ~(repositories[job[p].key] > 0)
        <4>1. job' = [job EXCEPT ![p] = j] /\ UNCHANGED answers
          BY <2>0, <2>10, <3>5 DEF LookUpPath
        <4>2. TablesOK'
          BY <1>1, <3>3, <4>1 DEF TablesOK, MetersOK
        <4>3. j \in Jobs /\ Holding(j) /\ j.base = job[p].base
          BY <2>0, <3>1 DEF Jobs, Holding
        <4> HIDE DEF j
        <4> QED  BY <2>0, <3>3, <4>1, <4>2, <4>3, Continues
      <3> QED  BY <3>4, <3>5
    <2>11. CASE InsertRepository(p)
      <3>1. job[p].pc = "insert" /\ job[p].cmd = "register"
        BY <2>11 DEF InsertRepository
      <3>2. job[p].key \in Name \cup Path
        BY <2>0, <3>1 DEF Holding
      <3>3. UNCHANGED <<database, profiles, provenance, local, meters>>
        BY <2>11 DEF InsertRepository
      <3>4. PICK outcome \in {"created", "already_registered"} : Tell(p, outcome, Null)
        BY <2>11 DEF InsertRepository
      <3>5. repositories' \in [Path -> Nat]
        BY <1>1, <2>11 DEF InsertRepository, TablesOK
      <3>6. TablesOK'
        BY <1>1, <3>2, <3>3, <3>4, <3>5, Told DEF TablesOK, MetersOK
      <3>7. job' = [job EXCEPT ![p] = NoJob]
        BY <3>4 DEF Tell
      <3> QED  BY <3>3, <3>6, <3>7, Ends
    <2>12. CASE Record(p)
      <3>1. Effective(job[p].config) \in Payload /\ job[p].base \in Name \cup {Null}
        BY <2>0, <2>12, EffectiveType DEF Record, Holding, Jobs
      <3>2. TablesOK'
        BY <1>1, <2>12, <3>1 DEF Record, TablesOK, MetersOK
      <3>3. profiles' = profiles
        BY <2>12 DEF Record
      <3> QED  BY <2>12, <3>2, <3>3, Ends DEF Record
    <2>13. CASE Die(p)
      <3>1. TablesOK'
        BY <1>1, <2>13 DEF Die, TablesOK, MetersOK
      <3>2. profiles' = profiles
        BY <2>13 DEF Die
      <3> QED  BY <2>13, <3>1, <3>2, Ends DEF Die
    <2> QED  BY <1>4, <2>1, <2>2, <2>3, <2>4, <2>5, <2>6, <2>7, <2>8, <2>9, <2>10,
                <2>11, <2>12, <2>13 DEF Step
  <1> QED  BY <1>2, <1>3, <1>4 DEF Next

(* The state is always well typed, a saved profile can be saved again, and a *)
(* process holds what its position needs.                                    *)
THEOREM TypeInvariance == Spec => []TypeInv
  BY TypeInit, TypeStep, PTL DEF Spec

(* The state is always well typed (the tables, the locals of the commands).  *)
THEOREM TypeCorrect == Spec => []TypeOK
  <1>1. TypeInv => TypeOK
    BY DEF TypeInv
  <1> QED  BY <1>1, TypeInvariance, PTL

-----------------------------------------------------------------------------
(* What users are told. *)

(* A path has at most one row, and one that somebody was told about has one. *)
LEMMA PathsInit == Init => PathsAreRegisteredOnce
  BY DEF Init, PathsAreRegisteredOnce

LEMMA PathsStep ==
    ASSUME TypeInv, PathsAreRegisteredOnce, [Next]_workspaceVars
    PROVE  PathsAreRegisteredOnce'
  <1> USE DEF rows, meters
  <1>1. TablesOK
    BY TypeInvParts
  <1>2. CASE UNCHANGED <<repositories, answers>>
    BY <1>2 DEF PathsAreRegisteredOnce
  <1>3. ASSUME NEW p \in Proc, Step(p) PROVE PathsAreRegisteredOnce'
    <2>0. Holding(job[p])
      BY JobAt
    <2>1. CASE LookUpName(p) \/ InsertProfile(p)
      <3>1. job[p].key \in Name
        BY <2>0, <2>1 DEF LookUpName, InsertProfile, Holding
      <3>2. \A a \in answers' : a \in answers \/ a.key = job[p].key
        BY <2>1 DEF LookUpName, InsertProfile, Tell, Goto
      <3>3. UNCHANGED repositories
        BY <2>1 DEF LookUpName, InsertProfile
      <3> QED  BY <3>1, <3>2, <3>3 DEF PathsAreRegisteredOnce
    <2>2. CASE LookUpPath(p)
      <3>1. UNCHANGED repositories
        BY <2>2 DEF LookUpPath
      <3>2. CASE repositories[job[p].key] > 0
        <4>1. Tell(p, "already_registered", Null)
          BY <2>2, <3>2 DEF LookUpPath
        <4>2. \A a \in answers' : a \in answers \/ a.key = job[p].key
          BY <4>1 DEF Tell
        <4> QED  BY <1>1, <3>1, <3>2, <4>2 DEF PathsAreRegisteredOnce, TablesOK
      <3>3. CASE ~(repositories[job[p].key] > 0)
        <4>1. UNCHANGED answers
          BY <2>2, <3>3 DEF LookUpPath
        <4> QED  BY <3>1, <4>1 DEF PathsAreRegisteredOnce
      <3> QED  BY <3>2, <3>3
    <2>3. CASE InsertRepository(p)
      <3> DEFINE key == job[p].key
      <3>1. key \in Path
        BY <2>0, <2>3 DEF InsertRepository, Holding
      <3>2. repositories[key] \in {0, 1}
        BY <1>1, <3>1 DEF PathsAreRegisteredOnce, TablesOK
      <3>3. repositories' = [repositories EXCEPT ![key] = 1]
        BY <1>1, <2>3, <3>1, <3>2 DEF InsertRepository, TablesOK
      <3>4. \A a \in answers' : a \in answers \/ a.key = key
        BY <2>3 DEF InsertRepository, Tell
      <3> HIDE DEF key
      <3> QED  BY <1>1, <3>1, <3>3, <3>4 DEF PathsAreRegisteredOnce, TablesOK
    <2>4. CASE UNCHANGED <<repositories, answers>>
      BY <1>2, <2>4
    <2> QED  BY <1>3, <2>1, <2>2, <2>3, <2>4
             DEF Step, Begin, LoadBase, Select, Reload, Initialize, InitializeFails,
                 CheckSavable, Record, Die, End
  <1>4. CASE EditLocal
    BY <1>2, <1>4 DEF EditLocal
  <1>5. CASE UNCHANGED workspaceVars
    BY <1>2, <1>5 DEF workspaceVars
  <1> QED  BY <1>3, <1>4, <1>5 DEF Next

(* A path is registered once, whichever registrations overlap, and whoever is  *)
(* told that a path is or was registered finds it so for ever after.           *)
THEOREM RegistrationsAreUnique == Spec => []PathsAreRegisteredOnce
  BY TypeInvariance, PathsInit, PathsStep, PTL DEF Spec

(* No other command has run beside one that is alone, and nobody has taken its *)
(* name between its look and its insert.                                       *)
Solo ==
    /\ \A p, q \in Proc : p # q /\ job[p].pc # "idle" /\ job[p].alone => job[q].pc = "idle"
    /\ \A p \in Proc :
         job[p].pc = "insert" /\ job[p].cmd = "save" /\ job[p].alone => profiles[job[p].key] = Null

\* An answer to a save holds for the rows, and speaks of a profile.
Truthful(a, saved) ==
    a.key \in Name =>
      /\ a.content # Null
      /\ a.outcome \in {"created", "exists"} => saved[a.key] = a.content
      /\ a.outcome = "name_conflict" =>
           /\ saved[a.key] # Null
           /\ a.alone => saved[a.key] # a.content

SaveInv == Solo /\ \A a \in answers : Truthful(a, profiles)

LEMMA SaveInit == Init => SaveInv
  BY DEF Init, NoJob, SaveInv, Solo

(* A process that moves stays alone if it was, and idle if it ends. *)
LEMMA SoloStep ==
    ASSUME TypeInv, SaveInv, [Next]_workspaceVars
    PROVE  Solo'
  <1> USE DEF rows, meters
  <1>0. job \in [Proc -> Jobs] /\ TablesOK
    BY TypeInvParts
  <1>1. CASE EditLocal \/ UNCHANGED workspaceVars
    BY <1>1 DEF EditLocal, workspaceVars, SaveInv, Solo
  <1>2. ASSUME NEW p \in Proc, Step(p) PROVE Solo'
    <2>0. Holding(job[p]) /\ job[p] \in Jobs
      BY JobAt
    <2>1. CASE Begin(p)
      <3>1. UNCHANGED profiles /\ job[p].pc = "idle"
        BY <2>1 DEF Begin, At
      <3>2. PICK cmd \in {"save", "workflow", "register"}, key \in Name \cup Path \cup {Null},
                 selector \in Name \cup {profiles[n] : n \in Name} \cup {Null}, env \in Env :
              job' = [q \in Proc |->
                        IF q = p THEN Begun(cmd, key, selector, env) ELSE Accompanied(q)]
        BY <2>1 DEF Begin
      <3>3. job'[p].pc = "load" /\ (job'[p].alone => Alone)
        <4>1. job'[p] = Begun(cmd, key, selector, env)
          BY <3>2
        <4> QED  BY <4>1 DEF Begun
      <3>4. ASSUME NEW q \in Proc, q # p
            PROVE  /\ job'[q].pc = job[q].pc /\ job'[q].cmd = job[q].cmd
                   /\ job'[q].key = job[q].key
                   /\ job'[q].alone => job[q].alone /\ job[q].pc = "idle"
        <4>1. job'[q] = Accompanied(q)
          BY <3>2, <3>4
        <4>2. job[q] \in Jobs
          BY <1>0
        <4>3. Accompanied(q).alone => job[q].alone /\ job[q].pc = "idle"
          BY <4>2, Zenon DEF Accompanied, Jobs, At
        <4>4. \A field \in {"pc", "cmd", "key"} : Accompanied(q)[field] = job[q][field]
          BY <4>2 DEF Accompanied, Jobs
        <4> QED  BY <4>1, <4>3, <4>4
      <3>5. Alone => \A q \in Proc : job[q].pc = "idle"
        BY DEF Alone, At
      <3> QED  BY <3>1, <3>3, <3>4, <3>5 DEF SaveInv, Solo
    <2>2. CASE /\ job[p].pc # "idle" /\ UNCHANGED profiles
               /\ \A q \in Proc : q # p => job'[q] = job[q]
               /\ \/ job'[p].pc = "idle"
                  \/ job'[p].alone = job[p].alone /\ job'[p].pc # "insert"
                  \/ /\ job'[p].alone = job[p].alone /\ job'[p].key = job[p].key
                     /\ job'[p].cmd = "save" => profiles[job[p].key] = Null
      BY <2>2 DEF SaveInv, Solo
    <2>3. CASE LoadBase(p) \/ Reload(p)
      BY <1>0, <2>0, <2>2, <2>3 DEF LoadBase, Reload, End, At, NoJob, Jobs
    <2>9. CASE Select(p)
      <3>1. CASE Cardinality(Matches(job[p].selector)) # 1
        BY <1>0, <2>0, <2>2, <2>9, <3>1 DEF Select, End, At, NoJob
      <3>2. CASE Cardinality(Matches(job[p].selector)) = 1
        <4>1. PICK n : job' = [job EXCEPT ![p].base = n, ![p].pc = "reload"]
          BY <2>9, <3>2 DEF Select
        <4>2. UNCHANGED profiles /\ job[p].pc = "select"
          BY <2>9 DEF Select, At
        <4>3. /\ \A q \in Proc : q # p => job'[q] = job[q]
              /\ job'[p].alone = job[p].alone /\ job'[p].pc = "reload"
          BY <1>0, <2>0, <4>1 DEF Jobs
        <4> QED  BY <2>2, <4>2, <4>3
      <3> QED  BY <3>1, <3>2
    <2>4. CASE Initialize(p) \/ InitializeFails(p) \/ CheckSavable(p)
      BY <1>0, <2>0, <2>2, <2>4
      DEF Initialize, AfterInitialize, InitializeFails, CheckSavable, Goto, End, At, NoJob, Jobs
    <2>5. CASE LookUpName(p)
      <3>1. job[p].key \in Name
        BY <2>0, <2>5 DEF LookUpName, Holding
      <3>2. CASE profiles[job[p].key] = Null
        <4>1. Effective(job[p].config) # Null
          BY <2>0, <2>5, EffectiveType DEF LookUpName, At, Holding
        <4> QED  BY <1>0, <2>0, <2>2, <2>5, <3>2, <4>1 DEF LookUpName, Goto, At, Jobs
      <3>3. CASE profiles[job[p].key] # Null
        BY <1>0, <2>0, <2>2, <2>5, <3>3 DEF LookUpName, Tell, At, NoJob, Jobs
      <3> QED  BY <3>2, <3>3
    <2>6. CASE InsertProfile(p)
      <3>1. /\ \A q \in Proc : q # p => job'[q] = job[q]
            /\ job'[p].pc = "idle" /\ job[p].pc # "idle"
        BY <1>0, <2>6 DEF InsertProfile, Tell, At, NoJob
      <3>2. \A q \in Proc : q # p /\ job[q].alone => job[q].pc = "idle"
        BY <3>1 DEF SaveInv, Solo
      <3> QED  BY <3>1, <3>2 DEF SaveInv, Solo
    <2>7. CASE LookUpPath(p) \/ InsertRepository(p)
      BY <1>0, <2>0, <2>2, <2>7
      DEF LookUpPath, InsertRepository, Goto, Tell, At, NoJob, Jobs
    <2>8. CASE Record(p) \/ Die(p)
      BY <1>0, <2>0, <2>2, <2>8 DEF Record, Die, End, At, NoJob, Jobs
    <2> QED  BY <1>2, <2>1, <2>3, <2>4, <2>5, <2>6, <2>7, <2>8, <2>9 DEF Step
  <1> QED  BY <1>1, <1>2 DEF Next

(* Rows of profiles stay, and with them the truth of what was said.  What is *)
(* said to a save is true of the rows it is said of.                         *)
LEMMA SavesStep ==
    ASSUME TypeInv, SaveInv, [Next]_workspaceVars
    PROVE  \A a \in answers' : Truthful(a, profiles')
  <1> USE DEF rows, meters
  <1>0. TablesOK
    BY TypeInvParts
  <1>1. ASSUME \A n \in Name : profiles[n] # Null => profiles'[n] = profiles[n]
        PROVE  \A a \in answers : Truthful(a, profiles')
    BY <1>1 DEF SaveInv, Truthful
  <1>2. CASE UNCHANGED <<profiles, answers>>
    BY <1>2 DEF SaveInv
  <1>3. ASSUME NEW p \in Proc, Step(p) PROVE \A a \in answers' : Truthful(a, profiles')
    <2> DEFINE content == Effective(job[p].config)
    <2>0. Holding(job[p])
      BY JobAt
    <2>1. CASE LookUpPath(p) \/ InsertRepository(p)
      <3>1. job[p].key \in Path /\ job[p].key \notin Name
        BY <2>0, <2>1 DEF LookUpPath, InsertRepository, Holding
      <3>2. UNCHANGED profiles
        BY <2>1 DEF LookUpPath, InsertRepository
      <3>3. \A a \in answers' : a \in answers \/ a.key = job[p].key
        BY <2>1 DEF LookUpPath, InsertRepository, Goto, Tell
      <3> QED  BY <3>1, <3>2, <3>3 DEF SaveInv, Truthful
    <2>2. CASE LookUpName(p)
      <3>1. job[p].key \in Name /\ content \in Payload /\ content # Null
        BY <2>0, <2>2, EffectiveType DEF LookUpName, Holding, At
      <3>2. UNCHANGED profiles
        BY <2>2 DEF LookUpName
      <3>3. CASE profiles[job[p].key] = Null
        <4>1. UNCHANGED answers
          BY <2>2, <3>1, <3>3 DEF LookUpName
        <4> QED  BY <1>2, <3>2, <4>1
      <3>4. CASE profiles[job[p].key] = content
        <4>1. Tell(p, "exists", content)
          BY <2>2, <3>1, <3>4 DEF LookUpName
        <4> HIDE DEF content
        <4> QED  BY <3>1, <3>2, <3>4, <4>1 DEF Tell, SaveInv, Truthful
      <3>5. CASE profiles[job[p].key] # Null /\ profiles[job[p].key] # content
        <4>1. Tell(p, "name_conflict", content)
          BY <2>2, <3>1, <3>5 DEF LookUpName
        <4> HIDE DEF content
        <4> QED  BY <3>1, <3>2, <3>5, <4>1 DEF Tell, SaveInv, Truthful
      <3> QED  BY <3>3, <3>4, <3>5
    <2>3. CASE InsertProfile(p)
      <3>1. job[p].key \in Name /\ content \in Payload /\ content # Null
        BY <2>0, <2>3, EffectiveType DEF InsertProfile, Holding, At
      <3>2. CASE profiles[job[p].key] = Null
        <4>1. /\ Tell(p, "created", content)
              /\ profiles' = [profiles EXCEPT ![job[p].key] = content]
          BY <2>3, <3>2 DEF InsertProfile
        <4> HIDE DEF content
        <4>2. \A n \in Name : profiles[n] # Null => profiles'[n] = profiles[n]
          BY <1>0, <3>2, <4>1 DEF TablesOK
        <4>3. profiles'[job[p].key] = content
          BY <1>0, <3>1, <4>1 DEF TablesOK
        <4>4. Truthful([key |-> job[p].key, outcome |-> "created", content |-> content,
                        alone |-> job[p].alone], profiles')
          BY <3>1, <4>3 DEF Truthful
        <4> QED  BY <1>1, <4>1, <4>2, <4>4 DEF Tell
      <3>3. CASE profiles[job[p].key] # Null
        <4>1. Tell(p, "name_conflict", content) /\ UNCHANGED profiles
          BY <2>3, <3>3 DEF InsertProfile
        <4>2. ~job[p].alone
          BY <2>3, <3>3 DEF InsertProfile, At, SaveInv, Solo
        <4> HIDE DEF content
        <4> QED  BY <3>1, <3>3, <4>1, <4>2 DEF Tell, SaveInv, Truthful
      <3> QED  BY <3>2, <3>3
    <2>4. CASE UNCHANGED <<profiles, answers>>
      BY <1>2, <2>4
    <2> QED  BY <1>3, <2>1, <2>2, <2>3, <2>4
             DEF Step, Begin, LoadBase, Select, Reload, Initialize, InitializeFails,
                 CheckSavable, Record, Die, End
  <1>4. CASE EditLocal \/ UNCHANGED workspaceVars
    BY <1>2, <1>4 DEF EditLocal, workspaceVars
  <1> QED  BY <1>3, <1>4 DEF Next

(* Whoever was told that a profile was saved or was there finds exactly that *)
(* content for ever after, and a save that nothing overlapped is told of a   *)
(* conflict only where the content differs.                                  *)
THEOREM SavesAreTrue == Spec => []SavesAreTruthful
  <1>1. SaveInv => SavesAreTruthful
    BY DEF SaveInv, Truthful, SavesAreTruthful
  <1>2. ASSUME TypeInv, SaveInv, [Next]_workspaceVars PROVE SaveInv'
    BY <1>2, SoloStep, SavesStep DEF SaveInv
  <1> QED  BY <1>1, <1>2, SaveInit, TypeInvariance, PTL DEF Spec

-----------------------------------------------------------------------------
(* Replay. *)

\* Past its second loading, a command that selected a profile and whose
\* environment overrides nothing runs under that profile.
Replaying ==
    \A p \in Proc :
      job[p].pc \in {"initialize", "check", "look_up", "insert", "record"} /\ job[p].base # Null
        /\ job[p].env = NoEnvironment =>
          Effective(job[p].config) = profiles[job[p].base]

ReplayInv == Replaying /\ ReplayIsExact

LEMMA ReplayInit == Init => ReplayInv
  BY DEF Init, NoJob, ReplayInv, Replaying, ReplayIsExact

(* What a profile is replayed as was stored when it was selected, and stays. *)
LEMMA RowsStay ==
    ASSUME TypeInv, [Next]_workspaceVars
    PROVE  \A n \in Name : profiles[n] # Null => profiles'[n] = profiles[n]
  <1>1. profiles \in [Name -> Saved \cup {Null}]
    BY DEF TypeInv
  <1>2. CASE UNCHANGED profiles
    BY <1>2
  <1>3. ASSUME NEW p \in Proc, InsertProfile(p)
        PROVE  \A n \in Name : profiles[n] # Null => profiles'[n] = profiles[n]
    BY <1>1, <1>3 DEF InsertProfile
  <1> QED  BY <1>2, <1>3 DEF Next, Step, EditLocal, workspaceVars, rows, Begin, LoadBase, Select,
              Reload, Initialize, InitializeFails, CheckSavable, LookUpName, LookUpPath,
              InsertRepository, Record, Die

LEMMA ReplayIsReuse ==
    ASSUME NEW profile \in Saved, NEW config \in Config, Effective(config) = profile
    PROVE  ReuseKind(profile, config) = "profile_reuse"
  BY DEF ReuseKind, Saved

LEMMA ReplayingStep ==
    ASSUME TypeInv, Replaying, [Next]_workspaceVars
    PROVE  Replaying'
  <1> USE DEF rows, meters
  <1>0. job \in [Proc -> Jobs] /\ TablesOK
    BY TypeInvParts
  <1>1. ASSUME NEW q \in Proc, job'[q].base = job[q].base, job'[q].env = job[q].env,
               job'[q].config = job[q].config,
               job[q].pc \in {"initialize", "check", "look_up", "insert", "record"}
        PROVE  job'[q].base # Null /\ job'[q].env = NoEnvironment =>
                 Effective(job'[q].config) = profiles'[job'[q].base]
    <2>1. job[q].base # Null => job[q].base \in Name /\ profiles[job[q].base] # Null
      BY <1>0, JobAt DEF Jobs, Saved
    <2> QED  BY <1>1, <2>1, RowsStay DEF Replaying
  <1>2. CASE EditLocal \/ UNCHANGED workspaceVars
    BY <1>2 DEF EditLocal, workspaceVars, Replaying
  <1>3. ASSUME NEW p \in Proc, Step(p) PROVE Replaying'
    <2>0. Holding(job[p]) /\ job[p] \in Jobs
      BY JobAt
    <2>1. CASE Begin(p)
      <3>1. PICK cmd \in {"save", "workflow", "register"}, key \in Name \cup Path \cup {Null},
                 selector \in Name \cup {profiles[n] : n \in Name} \cup {Null}, env \in Env :
              job' = [q \in Proc |->
                        IF q = p THEN Begun(cmd, key, selector, env) ELSE Accompanied(q)]
        BY <2>1 DEF Begin
      <3>2. job'[p].pc = "load"
        BY <3>1 DEF Begun
      <3>3. ASSUME NEW q \in Proc, q # p
            PROVE  \A field \in {"pc", "base", "env", "config"} : job'[q][field] = job[q][field]
        BY <1>0, <3>1, <3>3 DEF Accompanied, Jobs
      <3> QED  BY <1>1, <3>2, <3>3 DEF Replaying
    <2>2. CASE /\ \A q \in Proc : q # p => job'[q] = job[q]
               /\ job'[p].pc \notin {"initialize", "check", "look_up", "insert", "record"}
                    \/ job'[p].base = Null
      BY <1>1, <2>2 DEF Replaying
    <2>3. CASE /\ \A q \in Proc : q # p => job'[q] = job[q]
               /\ job[p].pc \in {"initialize", "check", "look_up", "insert", "record"}
               /\ job'[p].base = job[p].base /\ job'[p].env = job[p].env
               /\ job'[p].config = job[p].config
      BY <1>1, <2>3 DEF Replaying
    <2>4. CASE LoadBase(p)
      BY <1>0, <2>0, <2>2, <2>4 DEF LoadBase, End, At, NoJob, Jobs, Holding
    <2>5. CASE Select(p)
      <3>1. CASE Cardinality(Matches(job[p].selector)) # 1
        BY <1>0, <2>0, <2>2, <2>5, <3>1 DEF Select, End, At, NoJob
      <3>2. CASE Cardinality(Matches(job[p].selector)) = 1
        <4>1. PICK n : job' = [job EXCEPT ![p].base = n, ![p].pc = "reload"]
          BY <2>5, <3>2 DEF Select
        <4>2. (\A q \in Proc : q # p => job'[q] = job[q]) /\ job'[p].pc = "reload"
          BY <1>0, <2>0, <4>1 DEF Jobs
        <4> QED  BY <2>2, <4>2
      <3> QED  BY <3>1, <3>2
    <2>6. CASE Reload(p)
      <3> DEFINE config == Load(Project, local, Base(p), job[p].env)
      <3>1. Base(p) = profiles[job[p].base] /\ Base(p) \in Saved /\ job[p].base \in Name
        BY <1>0, <2>0, <2>6, JobAt DEF Reload, At, Holding, Base, Jobs
      <3>2. CASE config = Invalid
        BY <1>0, <2>0, <2>2, <2>6, <3>2 DEF Reload, End, At, NoJob
      <3>3. CASE config # Invalid
        <4>1. job[p].env = NoEnvironment => Effective(config) = Base(p)
          BY <3>1, <3>3, JobAt, LoadIsReplay
        <4>2. UNCHANGED profiles /\ job' = [job EXCEPT ![p].config = config, ![p].pc = "initialize"]
          BY <2>6, <3>3 DEF Reload
        <4> HIDE DEF config
        <4>3. /\ \A q \in Proc : q # p => job'[q] = job[q]
              /\ job'[p].base = job[p].base /\ job'[p].env = job[p].env
              /\ job'[p].config = config
          BY <1>0, <2>0, <4>2 DEF Jobs
        <4> QED  BY <1>1, <3>1, <4>1, <4>2, <4>3 DEF Replaying
      <3> QED  BY <3>2, <3>3
    <2>7. CASE Initialize(p)
      BY <1>0, <2>0, <2>3, <2>7 DEF Initialize, Goto, At, Jobs
    <2>8. CASE CheckSavable(p)
      <3>1. CASE Savable(job[p].config)
        BY <1>0, <2>0, <2>3, <2>8, <3>1 DEF CheckSavable, Goto, At, Jobs
      <3>2. CASE ~Savable(job[p].config)
        BY <1>0, <2>0, <2>2, <2>8, <3>2 DEF CheckSavable, End, NoJob
      <3> QED  BY <3>1, <3>2
    <2>9. CASE LookUpName(p)
      <3>1. At(p, "look_up") /\ (Goto(p, "insert") \/ job' = [job EXCEPT ![p] = NoJob])
        BY <2>9 DEF LookUpName, Tell
      <3>2. CASE Goto(p, "insert")
        BY <1>0, <2>0, <2>3, <3>1, <3>2 DEF Goto, At, Jobs
      <3>3. CASE job' = [job EXCEPT ![p] = NoJob]
        BY <1>0, <2>0, <2>2, <3>3 DEF NoJob
      <3> QED  BY <3>1, <3>2, <3>3
    <2>10. CASE LookUpPath(p)
      <3>1. At(p, "look_up") /\ (Goto(p, "insert") \/ job' = [job EXCEPT ![p] = NoJob])
        BY <2>10 DEF LookUpPath, Tell
      <3>2. CASE Goto(p, "insert")
        BY <1>0, <2>0, <2>3, <3>1, <3>2 DEF Goto, At, Jobs
      <3>3. CASE job' = [job EXCEPT ![p] = NoJob]
        BY <1>0, <2>0, <2>2, <3>3 DEF NoJob
      <3> QED  BY <3>1, <3>2, <3>3
    <2>11. CASE InitializeFails(p) \/ InsertProfile(p) \/ InsertRepository(p) \/ Record(p) \/ Die(p)
      <3>1. job' = [job EXCEPT ![p] = NoJob]
        BY <2>11 DEF InitializeFails, InsertProfile, InsertRepository, Record, Die, Tell, End
      <3> QED  BY <1>0, <2>2, <3>1 DEF NoJob
    <2> QED  BY <1>3, <2>1, <2>4, <2>5, <2>6, <2>7, <2>8, <2>9, <2>10, <2>11 DEF Step
  <1> QED  BY <1>2, <1>3 DEF Next

LEMMA RecordStep ==
    ASSUME TypeInv, ReplayInv, [Next]_workspaceVars
    PROVE  ReplayIsExact'
  <1>0. TablesOK
    BY TypeInvParts
  <1>1. ASSUME NEW r \in provenance, r.base # Null, r.env = NoEnvironment
        PROVE  r.kind = "profile_reuse" /\ r.configuration = profiles'[r.base]
    <2>1. r.base \in Name /\ r.configuration \in Payload /\ r.configuration = profiles[r.base]
      BY <1>0, <1>1 DEF TablesOK, ReplayInv, ReplayIsExact
    <2>2. profiles[r.base] # Null
      BY <2>1
    <2> QED  BY <1>1, <2>1, <2>2, RowsStay DEF ReplayInv, ReplayIsExact
  <1>2. CASE UNCHANGED provenance
    BY <1>1, <1>2 DEF ReplayIsExact
  <1>3. ASSUME NEW p \in Proc, Record(p) PROVE ReplayIsExact'
    <2> DEFINE config == job[p].config
               record == [configuration |-> Effective(config), base |-> job[p].base,
                          kind |-> ReuseKind(Base(p), config), env |-> job[p].env]
    <2>1. provenance' = provenance \cup {record} /\ UNCHANGED profiles /\ job[p].pc = "record"
      BY <1>3 DEF Record, At
    <2>2. record.base = job[p].base /\ record.env = job[p].env
          /\ record.configuration = Effective(config) /\ record.kind = ReuseKind(Base(p), config)
      OBVIOUS
    <2>3. ASSUME job[p].base # Null, job[p].env = NoEnvironment
          PROVE  record.kind = "profile_reuse" /\ record.configuration = profiles'[record.base]
      <3>1. config \in Config /\ profiles[job[p].base] \in Saved
        BY <2>1, <2>3, JobAt DEF Holding
      <3>2. Effective(config) = profiles[job[p].base]
        BY <2>1, <2>3 DEF ReplayInv, Replaying
      <3>3. Base(p) = profiles[job[p].base]
        BY <2>3 DEF Base
      <3> QED  BY <2>1, <2>2, <3>1, <3>2, <3>3, ReplayIsReuse
    <2> HIDE DEF record
    <2> QED  BY <1>1, <2>1, <2>2, <2>3 DEF ReplayIsExact
  <1> QED  BY <1>2, <1>3 DEF Next, Step, EditLocal, workspaceVars, rows, Begin, LoadBase, Select,
              Reload, Initialize, InitializeFails, CheckSavable, LookUpName, InsertProfile,
              LookUpPath, InsertRepository, Die

(* A workflow that selected a profile and whose environment overrides nothing *)
(* ran under exactly the saved configuration and says so, whatever the files   *)
(* below the profile hold or are edited to.                                    *)
THEOREM ProfilesReplayExactly == Spec => []ReplayIsExact
  <1>1. ASSUME TypeInv, ReplayInv, [Next]_workspaceVars PROVE ReplayInv'
    BY <1>1, ReplayingStep, RecordStep DEF ReplayInv
  <1>2. ReplayInv => ReplayIsExact
    BY DEF ReplayInv
  <1> QED  BY <1>1, <1>2, ReplayInit, TypeInvariance, PTL DEF Spec
=============================================================================
