------------------------------ MODULE Workspace ------------------------------
(* What the commands of a workspace share before anything is indexed: the    *)
(* runtime database, the registered repositories, the saved retrieval        *)
(* profiles and the provenance of finished workflows.  `repo register`,      *)
(* `config profile save | show`, and any workflow run under --profile, by    *)
(* several processes, while the operator edits the local configuration file. *)
(*                                                                           *)
(* Abstracted: a workflow is its bootstrap and the record it writes last;    *)
(* the other modules have what lies between.  A selector is a name or a      *)
(* stable id, and no name spells an id, so of the two reads that resolve a   *)
(* selector one finds nothing.                                               *)
EXTENDS ConfigResolution, Naturals, FiniteSets

CONSTANTS
    Proc,        \* command-line processes
    Name,        \* names of profiles
    Path,        \* canonical paths of directories
    Local,       \* local files that the operator writes, of File
    Env,         \* environments that commands are run in
    Project,     \* the project defaults, of File
    MaxCommands, \* bound: commands
    MaxEdits,    \* bound: edits of the local file
    MaxFaults    \* bound: failing migrations and deaths

ASSUME WorkspaceBounds == {MaxCommands, MaxEdits, MaxFaults} \subseteq Nat
ASSUME InputsAssumption ==
    /\ Local \subseteq File /\ Env \subseteq Environment /\ Project \in File
    /\ Name \cap Path = {} /\ Null \notin Name \cup Path

Selector == Name \cup Payload

VARIABLES
    database,      \* "absent", "partial" (no profile table yet) or "ready"
    profiles,      \* retrieval_strategy_profiles rows by name, which is unique
    repositories,  \* repositories rows: how many for each canonical path
    provenance,    \* run_provenance_records rows
    local,         \* the local configuration file
    job,           \* what each process is doing
    answers,       \* history: what saves and registrations told their users
    commands, edits, faults

workspaceVars == <<database, profiles, repositories, provenance, local, job, answers,
                   commands, edits, faults>>
rows == <<profiles, repositories, provenance>>
meters == <<commands, edits, faults>>

\* alone is history: no other command has run since this one began.
NoJob == [cmd |-> "none", pc |-> "idle", key |-> Null, selector |-> Null, env |-> NoEnvironment,
          base |-> Null, config |-> Null, alone |-> TRUE]

At(p, where) == job[p].pc = where
Goto(p, where) == job' = [job EXCEPT ![p].pc = where]

\* The command ends; one that found or wrote a row tells its user so.
End(p) == job' = [job EXCEPT ![p] = NoJob] /\ UNCHANGED answers
Tell(p, outcome, content) ==
    /\ answers' = answers \cup {[key |-> job[p].key, outcome |-> outcome, content |-> content,
                                 alone |-> job[p].alone]}
    /\ job' = [job EXCEPT ![p] = NoJob]

-----------------------------------------------------------------------------
\* Starting: the command line is parsed and the container is built.

Keys(cmd) == CASE cmd = "save" -> Name [] cmd = "register" -> Path [] OTHER -> {Null}

Alone == \A p \in Proc : At(p, "idle")
Begun(cmd, key, selector, env) ==
    [cmd |-> cmd, pc |-> "load", key |-> key, selector |-> selector, env |-> env,
     base |-> Null, config |-> Null, alone |-> Alone]

\* Whoever runs is alone no more.
Accompanied(p) == [job[p] EXCEPT !.alone = (@ /\ At(p, "idle"))]

\* Nothing of the configuration matters to a registration.
Begin(p) ==
    /\ At(p, "idle")
    /\ commands < MaxCommands
    /\ commands' = commands + 1
    /\ \E cmd \in {"save", "workflow", "register"}, key \in Name \cup Path \cup {Null},
          selector \in Name \cup {profiles[n] : n \in Name} \cup {Null}, env \in Env :
         /\ key \in Keys(cmd)
         /\ cmd = "register" => selector = Null /\ env = NoEnvironment
         /\ job' = [q \in Proc |->
                      IF q = p THEN Begun(cmd, key, selector, env) ELSE Accompanied(q)]
    /\ UNCHANGED <<database, rows, local, answers, edits, faults>>

\* A selected profile is looked for in the database that the configuration
\* without it names; then the configuration is loaded again.
LoadBase(p) ==
    LET config == Load(Project, local, Null, job[p].env) IN
    /\ At(p, "load")
    /\ IF config = Invalid
       THEN End(p)
       ELSE /\ job' = [job EXCEPT ![p].config = config,
                         ![p].pc = IF job[p].selector = Null THEN "initialize" ELSE "select"]
            /\ UNCHANGED answers
    /\ UNCHANGED <<database, rows, local, meters>>

\* Without a database, or without its table, there are no profiles.  A selector
\* with no match is not found, one with several is ambiguous.
Stored(n) == database = "ready" /\ profiles[n] # Null
Matches(selector) == {n \in Name : Stored(n) /\ selector \in {n, profiles[n]}}

Select(p) ==
    LET matches == Matches(job[p].selector) IN
    /\ At(p, "select")
    /\ IF Cardinality(matches) # 1
       THEN End(p)
       ELSE /\ \E n \in matches : job' = [job EXCEPT ![p].base = n, ![p].pc = "reload"]
            /\ UNCHANGED answers
    /\ UNCHANGED <<database, rows, local, meters>>

\* Rows of profiles never change: the name stands for the record.
Base(p) == IF job[p].base = Null THEN Null ELSE profiles[job[p].base]

Reload(p) ==
    LET config == Load(Project, local, Base(p), job[p].env) IN
    /\ At(p, "reload")
    /\ IF config = Invalid
       THEN End(p)
       ELSE /\ job' = [job EXCEPT ![p].config = config, ![p].pc = "initialize"]
            /\ UNCHANGED answers
    /\ UNCHANGED <<database, rows, local, meters>>

-----------------------------------------------------------------------------
\* Every command that writes brings the schema up to date first.

AfterInitialize(cmd) ==
    CASE cmd = "save" -> "check" [] cmd = "register" -> "look_up" [] OTHER -> "record"

Initialize(p) ==
    /\ At(p, "initialize")
    /\ database' = "ready"
    /\ Goto(p, AfterInitialize(job[p].cmd))
    /\ UNCHANGED <<rows, local, answers, meters>>

\* A migration that fails or is cut short may leave a file without the tables.
InitializeFails(p) ==
    /\ At(p, "initialize")
    /\ faults < MaxFaults
    /\ faults' = faults + 1
    /\ \E left \in {"absent", "partial"} :
         database' = IF database = "absent" THEN left ELSE database
    /\ End(p)
    /\ UNCHANGED <<rows, local, commands, edits>>

-----------------------------------------------------------------------------
\* `config profile save`

\* Mutant: any provider can be saved.
CheckNothing(p) ==
    /\ At(p, "check")
    /\ Goto(p, "look_up")
    /\ UNCHANGED <<database, rows, local, answers, meters>>

\* A provider that is not implemented cannot be saved.
CheckSavable(p) ==
    /\ At(p, "check")
    /\ IF Savable(job[p].config)
       THEN Goto(p, "look_up") /\ UNCHANGED answers
       ELSE End(p)
    /\ UNCHANGED <<database, rows, local, meters>>

LookUpName(p) ==
    LET found == profiles[job[p].key] IN
    /\ At(p, "look_up") /\ job[p].cmd = "save"
    /\ CASE found = Null -> Goto(p, "insert") /\ UNCHANGED answers
         [] found = Effective(job[p].config) -> Tell(p, "exists", Effective(job[p].config))
         [] OTHER -> Tell(p, "name_conflict", Effective(job[p].config))
    /\ UNCHANGED <<database, rows, local, meters>>

\* Mutant: a row with the name is replaced.
ReplaceProfile(p) ==
    /\ At(p, "insert") /\ job[p].cmd = "save"
    /\ profiles' = [profiles EXCEPT ![job[p].key] = Effective(job[p].config)]
    /\ Tell(p, "created", Effective(job[p].config))
    /\ UNCHANGED <<database, repositories, provenance, local, meters>>

\* The unique name refuses a row that another process inserted in between,
\* whatever its content.
InsertProfile(p) ==
    /\ At(p, "insert") /\ job[p].cmd = "save"
    /\ IF profiles[job[p].key] = Null
       THEN /\ profiles' = [profiles EXCEPT ![job[p].key] = Effective(job[p].config)]
            /\ Tell(p, "created", Effective(job[p].config))
       ELSE /\ Tell(p, "name_conflict", Effective(job[p].config))
            /\ UNCHANGED profiles
    /\ UNCHANGED <<database, repositories, provenance, local, meters>>

-----------------------------------------------------------------------------
\* `repo register`

LookUpPath(p) ==
    /\ At(p, "look_up") /\ job[p].cmd = "register"
    /\ IF repositories[job[p].key] > 0
       THEN Tell(p, "already_registered", Null)
       ELSE Goto(p, "insert") /\ UNCHANGED answers
    /\ UNCHANGED <<database, rows, local, meters>>

\* Mutant: the path of a row is not unique.
InsertRepositoryAgain(p) ==
    /\ At(p, "insert") /\ job[p].cmd = "register"
    /\ repositories' = [repositories EXCEPT ![job[p].key] = @ + 1]
    /\ Tell(p, "created", Null)
    /\ UNCHANGED <<database, profiles, provenance, local, meters>>

InsertRepository(p) ==
    /\ At(p, "insert") /\ job[p].cmd = "register"
    /\ IF repositories[job[p].key] = 0
       THEN /\ repositories' = [repositories EXCEPT ![job[p].key] = 1]
            /\ Tell(p, "created", Null)
       ELSE /\ Tell(p, "already_registered", Null)
            /\ UNCHANGED repositories
    /\ UNCHANGED <<database, profiles, provenance, local, meters>>

-----------------------------------------------------------------------------
\* A workflow under the configuration that was loaded when it started.

\* env is history.
Record(p) ==
    /\ At(p, "record")
    /\ provenance' = provenance \cup
         {[configuration |-> Effective(job[p].config), base |-> job[p].base,
           kind |-> ReuseKind(Base(p), job[p].config), env |-> job[p].env]}
    /\ End(p)
    /\ UNCHANGED <<database, profiles, repositories, local, meters>>

\* The operator edits the local file.
EditLocal ==
    /\ edits < MaxEdits
    /\ \E file \in Local \ {local} : local' = file
    /\ edits' = edits + 1
    /\ UNCHANGED <<database, rows, job, answers, commands, faults>>

Die(p) ==
    /\ ~At(p, "idle")
    /\ faults < MaxFaults
    /\ faults' = faults + 1
    /\ job' = [job EXCEPT ![p] = NoJob]
    /\ UNCHANGED <<database, rows, local, answers, commands, edits>>

Init ==
    /\ database = "absent"
    /\ profiles = [n \in Name |-> Null]
    /\ repositories = [path \in Path |-> 0]
    /\ provenance = {}
    /\ local \in Local
    /\ job = [p \in Proc |-> NoJob]
    /\ answers = {}
    /\ commands = 0 /\ edits = 0 /\ faults = 0

Step(p) ==
    \/ Begin(p) \/ LoadBase(p) \/ Select(p) \/ Reload(p)
    \/ Initialize(p) \/ InitializeFails(p)
    \/ CheckSavable(p) \/ LookUpName(p) \/ InsertProfile(p)
    \/ LookUpPath(p) \/ InsertRepository(p)
    \/ Record(p) \/ Die(p)

Next == EditLocal \/ \E p \in Proc : Step(p)

Spec == Init /\ [][Next]_workspaceVars

-----------------------------------------------------------------------------
\* Properties

\* The state is well typed (the tables, the locals of the commands, their
\* outcomes); a saved profile names no provider or one that is implemented, and
\* has that provider's block.
TypeOK ==
    /\ database \in {"absent", "partial", "ready"}
    /\ \A n \in Name : profiles[n] # Null =>
         /\ profiles[n] \in Payload
         /\ \/ profiles[n].provider = Null /\ profiles[n].model = Null
            \/ profiles[n].provider = LocalHash /\ profiles[n].model # Null
    /\ repositories \in [Path -> Nat]
    /\ \A r \in provenance : r.configuration \in Payload /\ r.base \in Name \cup {Null}
    /\ local \in Local
    /\ job \in [Proc -> [cmd : {"none", "save", "workflow", "register"},
                         pc : {"idle", "load", "select", "reload", "initialize", "check",
                               "look_up", "insert", "record"},
                         key : Name \cup Path \cup {Null}, selector : Selector \cup {Null},
                         env : Environment, base : Name \cup {Null},
                         config : Config \cup {Null}, alone : BOOLEAN]]
    /\ answers \subseteq [key : Name \cup Path, content : Payload \cup {Null}, alone : BOOLEAN,
                          outcome : {"exists", "name_conflict", "created", "already_registered"}]
    /\ commands \in 0..MaxCommands /\ edits \in 0..MaxEdits /\ faults \in 0..MaxFaults

\* Whoever was told that a profile was saved, or was there with the same
\* content, finds exactly that content under the name for ever after, whichever
\* saves overlap; a conflict is reported only where the name is taken, and by a
\* save that overlapped no other command only where the content differs.
SavesAreTruthful ==
    \A a \in answers : a.key \in Name =>
      /\ a.outcome \in {"created", "exists"} => profiles[a.key] = a.content
      /\ a.outcome = "name_conflict" =>
           /\ profiles[a.key] # Null
           /\ a.alone => profiles[a.key] # a.content

\* A path is registered once: two registrations that both found nothing leave
\* one row, and who is told that a path is or was registered finds it so.
PathsAreRegisteredOnce ==
    /\ \A path \in Path : repositories[path] <= 1
    /\ \A a \in answers : a.key \in Path => repositories[a.key] = 1

\* A workflow that selected a profile, and whose environment overrides nothing,
\* ran under exactly the saved configuration and says so, whatever the project
\* defaults and the local file hold, have held or are edited to.
ReplayIsExact ==
    \A r \in provenance : r.base # Null /\ r.env = NoEnvironment =>
      /\ r.kind = "profile_reuse"
      /\ r.configuration = profiles[r.base]

\* A saved profile can be selected where nothing overrides it.  One that was
\* saved without a provider cannot: the configuration is refused as invalid.
ReplayIsAccepted ==
    \A p \in Proc :
      At(p, "reload") /\ job[p].env = NoEnvironment =>
        Load(Project, local, Base(p), job[p].env) # Invalid
=============================================================================
