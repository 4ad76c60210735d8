------------------------------ MODULE Healing -------------------------------
(***************************************************************************)
(* A run whose file no longer has the columns its definition names, and    *)
(* the agent that patches the definition: up to MAX_HEALING_RETRIES times  *)
(* it asks the model for a patch, applies it, and tries the patched        *)
(* pipeline on a sample with made-up values in an in-memory DuckDB.  The   *)
(* run is then repeated with the patch that passed.                        *)
(*                                                                         *)
(* The statuses of the run are those of RunLifecycle; what the model       *)
(* answers is arbitrary.                                                   *)
(***************************************************************************)
EXTENDS Definition

CONSTANTS
    Texts,      \* definitions
    Files,      \* the file: its extension, table and column policies, and sampled, its
                \* columns that are numbers as far as the sample of the sandbox goes
    Patches,    \* patches the model may answer
    Queries,    \* queries of sql steps
    MAX_HEALING_RETRIES,
    SANDBOX_SAMPLE_ROWS

ASSUME HealingAssumption == MAX_HEALING_RETRIES \in Nat /\ SANDBOX_SAMPLE_ROWS \in Nat

VARIABLES
    text,       \* PipelineRun.yaml_config
    data,       \* the file "f" as it is now
    phase,      \* "saving": a patch is applied, but its text not saved; "lost": the worker died
    attempt,    \* number of the attempt that is made, 0 before healing
    log         \* the HealingAttempt rows: status, and the patched text if there is one

healingVars == <<text, data, phase, attempt, log>>

Files1 == [n \in {"f"} |-> data]
Stored == [n \in {"f"} |-> ToSet(data.table.cols)]

-----------------------------------------------------------------------------
(* Running a definition.  Which of several tables an executor may produce  *)
(* makes no difference to its columns: any of them is taken.               *)

Ran == [tables |-> <<>>, failed |-> NULL, missing |-> {}]
Fails(r, s, missing) == [r EXCEPT !.failed = s.name, !.missing = missing]
Produces(r, s, outs) ==
    IF outs = {} THEN Fails(r, s, {}) ELSE [r EXCEPT !.tables = (s.name :> CHOOSE t \in outs : TRUE) @@ @]

InputTables(r, s) == [k \in DOMAIN Inputs(s) |-> r.tables[Inputs(s)[k]]]
MissingIn(ins, s) == UNION {MissingColumns(s, ToSet(ins[k].cols)) : k \in DOMAIN ins}

\* The file as the user of the run, a viewer, may see it.
ExecuteLoad(file) == apply_column_policies(file.table, "viewer", file.policies)

\* An input that the runner evicts has no reader left (see Runner).
RunPipeline(c, files) ==
    LET Run(r, s) ==
            IF r.failed # NULL THEN r
            ELSE IF s.type = "load"
            THEN IF s.file_id \in DOMAIN files THEN Produces(r, s, {ExecuteLoad(files[s.file_id])}) ELSE Fails(r, s, {})
            ELSE LET ins == InputTables(r, s)
                 IN  IF s.type # "validate" /\ MissingIn(ins, s) # {} THEN Fails(r, s, MissingIn(ins, s))
                     ELSE Produces(r, s, Pandas(ins[1], Last(ins), s))
    IN  FoldLeft(Run, Ran, c.steps)

\* The first rows of a CSV file have types of their own; a JSON file is read
\* as a whole.
LoadSampleFrame(file) ==
    LET t == file.table
    IN  Table(t.cols, IF file.extension = ".csv" THEN file.sampled ELSE t.num,
              SubSeq(t.rows, 1, AtMost(Len(t.rows), SANDBOX_SAMPLE_ROWS)))

\* Schema and type of the columns, and nothing of the data.
SanitizeSampleFrame(t) ==
    WithRows(t, [i \in Rows(t) |-> [c \in ToSet(t.cols) |-> IF c \in t.num THEN i ELSE "value_" \o ToString(i)]])

\* Other formats raise.
CanSample(files) == \A f \in DOMAIN files : files[f].extension \in {".csv", ".json"}
LoadSampleTables(files) == [f \in DOMAIN files |-> SanitizeSampleFrame(LoadSampleFrame(files[f]))]

\* Mutant: a rename of a column that is missing passes.
SandboxStepLenient(ins, s) ==
    CASE s.type = "validate" -> {ins[1]}
      [] s.type = "rename"   -> {ins[1]}
      [] s.type \in {"wasm_compute", "stream_publish"} -> {}
      [] OTHER               -> build_sql_for_step(ins[1], Last(ins), s)

\* Only these steps are tried.  A rename that repeats a name raises here as
\* well, in Table.from_pandas.
SandboxStep(ins, s) ==
    CASE s.type = "validate" -> {ins[1]}
      [] s.type = "rename"   -> execute_rename(ins[1], s)
      [] s.type \in {"wasm_compute", "stream_publish"} -> {}
      [] OTHER               -> build_sql_for_step(ins[1], Last(ins), s)

\* The names that steps from the i-th on still read.
StillRead(c, i) == UNION {ToSet(Inputs(c.steps[j])) : j \in i..Len(c.steps)}
EverRead(c)     == StillRead(c, 1)
ReleaseDependencies(c, i, tables) ==
    [n \in {n \in DOMAIN tables : n \in StillRead(c, i + 1) \/ n \notin EverRead(c)} |-> tables[n]]

\* A save leaves no table, so that a step which reads one fails.
RunPipelineInSandbox(c, files) ==
    LET Run(r, i) ==
            LET s == c.steps[i]
            IN  IF r.failed # NULL THEN r
                ELSE IF s.type = "load"
                THEN IF s.file_id \in DOMAIN files THEN Produces(r, s, {files[s.file_id]}) ELSE Fails(r, s, {})
                ELSE IF s.type = "save" THEN [r EXCEPT !.tables = ReleaseDependencies(c, i, @)]
                ELSE IF ~(ToSet(Inputs(s)) \subseteq DOMAIN r.tables) THEN Fails(r, s, {})
                ELSE LET d == Produces(r, s, SandboxStep(InputTables(r, s), s))
                     IN  [d EXCEPT !.tables = ReleaseDependencies(c, i, @)]
    IN  FoldLeft(Run, Ran, [i \in DOMAIN c.steps |-> i])

run_patch_in_sandbox(patched, files) ==
    LET c == parse(patched)
    IN  /\ c # NULL
        /\ c.steps # <<>>
        /\ CanSample(files)
        /\ RunPipelineInSandbox(c, LoadSampleTables(files)).failed = NULL

-----------------------------------------------------------------------------
(* The run *)

HealingInit ==
    /\ text \in Texts
    /\ data \in Files
    /\ parse(text) # NULL /\ validate(parse(text), {"f"}) = {}
    /\ phase = "queued"
    /\ attempt = 0
    /\ log = <<>>

\* The error of a failed run: a missing column or key, or any other.
ErrorOf(r) ==
    LET s == CHOOSE s \in ToSet(parse(text).steps) : s.name = r.failed
    IN  [type   |-> IF r.missing = {} THEN "other"
                   ELSE IF s.type = "join" THEN "JoinKeyMissingError" ELSE "ColumnNotFoundError",
         marker |-> ""]

ExecutionSucceeds ==
    /\ phase \in {"queued", "patched"}
    /\ RunPipeline(parse(text), Files1).failed = NULL
    /\ phase' = IF phase = "queued" THEN "COMPLETED" ELSE "HEALED"
    /\ UNCHANGED <<text, data, attempt, log>>

\* A second failure is final.
FailsWith(healable) ==
    /\ IF phase = "queued" /\ healable
       THEN phase' = "HEALING" /\ attempt' = 1 /\ UNCHANGED log
       ELSE /\ phase' = "FAILED"
            /\ log' = IF phase = "queued" THEN Append(log, [status |-> "NON_HEALABLE", proposed |-> NULL]) ELSE log
            /\ UNCHANGED attempt
    /\ UNCHANGED <<text, data>>

ExecutionFails ==
    LET r == RunPipeline(parse(text), Files1)
    IN  phase \in {"queued", "patched"} /\ r.failed # NULL /\ FailsWith(is_healable(ErrorOf(r)))

\* Column policies that cannot be read stop the run with a RuntimeError.
PolicyLookupFails == phase \in {"queued", "patched"} /\ FailsWith(is_healable([type |-> "RuntimeError", marker |-> ""]))

Attempting == phase = "HEALING" /\ attempt <= MAX_HEALING_RETRIES

RecordAttempt(status, proposed) == log' = Append(log, [status |-> status, proposed |-> proposed])

NextAttempt == attempt' = attempt + 1 /\ UNCHANGED <<text, data, phase>>

CallFails == Attempting /\ RecordAttempt("FAILED", NULL) /\ NextAttempt

\* A quota error ends the attempts.
QuotaExceeded ==
    /\ Attempting
    /\ RecordAttempt("FAILED", NULL)
    /\ attempt' = MAX_HEALING_RETRIES + 1
    /\ UNCHANGED <<text, data, phase>>

\* No JSON, a patch of the wrong shape, or no patch at all.
AnswerIsInvalid == Attempting /\ RecordAttempt("AI_INVALID", NULL) /\ NextAttempt

PatchDoesNotApply ==
    /\ Attempting
    /\ \E p \in Patches : apply_patch(text, p) = {}
    /\ RecordAttempt("VALIDATION_FAILED", NULL)
    /\ NextAttempt

SandboxRejects ==
    /\ Attempting
    /\ \E p \in Patches : \E patched \in apply_patch(text, p) :
           /\ ~run_patch_in_sandbox(patched, Files1)
           /\ RecordAttempt("VALIDATION_FAILED", patched)
    /\ NextAttempt

\* The row of the attempt is committed, and the run keeps its text so far.
PatchIsApplied ==
    /\ Attempting
    /\ \E p \in Patches : \E patched \in apply_patch(text, p) :
           /\ run_patch_in_sandbox(patched, Files1)
           /\ RecordAttempt("APPLIED", patched)
    /\ phase' = "saving"
    /\ UNCHANGED <<text, data, attempt>>

\* Mutant: the run is repeated with the text it failed with.
SaveTextForgotten == phase = "saving" /\ phase' = "patched" /\ UNCHANGED <<text, data, attempt, log>>

\* A second commit gives the run the patched text, before it is repeated.
SaveText ==
    /\ phase = "saving"
    /\ text' = Last(log).proposed
    /\ phase' = "patched"
    /\ UNCHANGED <<data, attempt, log>>

\* The worker dies, or a commit raises and the task marks the run as failed.
\* A redelivered task leaves a run alone that is not PENDING; what becomes of
\* a lost one is in RunLifecycle.
Interrupted ==
    /\ phase \in {"queued", "HEALING", "saving", "patched"}
    /\ phase' \in {"lost", "FAILED"}
    /\ UNCHANGED <<text, data, attempt, log>>

HealingFails ==
    /\ phase = "HEALING" /\ attempt > MAX_HEALING_RETRIES
    /\ phase' = "FAILED"
    /\ UNCHANGED <<text, data, attempt, log>>

HealingNext == \/ ExecutionSucceeds \/ ExecutionFails \/ PolicyLookupFails \/ CallFails \/ QuotaExceeded
               \/ AnswerIsInvalid \/ PatchDoesNotApply \/ SandboxRejects \/ PatchIsApplied \/ SaveText
               \/ HealingFails \/ Interrupted

HealingSpec == HealingInit /\ [][HealingNext]_healingVars

-----------------------------------------------------------------------------
(* Properties *)

\* Where the columns of a step depend on its rows, or the two engines name
\* them differently, the validation does not know them.
Foreseeable(c) ==
    LET static == collect_schema_validation_errors(c, Stored).schema
    IN  \A s \in ToSet(c.steps) :
            /\ s.type # "pivot"
            /\ s.type = "join" => SchemaOf(static, s.left) \cap SchemaOf(static, s.right) \subseteq {s.on}
            /\ s.type = "aggregate" => \A a \in ToSet(s.aggregations) : a.function # a.column

Restricting == {p \in data.policies : "viewer" \notin p.allowed_roles}
Redacted == {p.column : p \in {p \in Restricting : p.policy = "redacted"}}

\* A definition that passes the simulated schema flow fails for want of no
\* column but one that is redacted for the user of the run: validation and
\* plan look at the columns of the upload.  Every table has the columns the
\* flow and the dry-run plan foresee, less redacted ones, and the plan expects
\* success; the flow in turn has no error for a definition that runs.  It
\* holds for a definition of a user, before and after it is patched.
AdmittedRuns ==
    LET c      == parse(text)
        flow   == collect_schema_validation_errors(c, Stored)
        plan   == generate_execution_plan(c, Stored, [n \in {"f"} |-> Len(data.table.rows)])
        ran    == RunPipeline(c, Files1)
    IN  Foreseeable(c) =>
            /\ flow.errors = {} => /\ ran.missing \subseteq Redacted
                                   /\ plan.will_succeed
                                   /\ \A n \in DOMAIN ran.tables :
                                          /\ flow.schema[n] \ Redacted \subseteq ToSet(ran.tables[n].cols)
                                          /\ ToSet(ran.tables[n].cols) \subseteq flow.schema[n]
                                          /\ plan.columns[n] = flow.schema[n]
                                             \/ \E s \in ToSet(c.steps) : s.type = "wasm_compute"
            /\ ran.failed = NULL => \A e \in flow.errors :
                                        \E s \in ToSet(c.steps) : s.name = e[1] /\ s.type = "validate"

\* The two engines mean the same by every step of which the run has the inputs.
SameInSql(c, ran) ==
    \A s \in ToSet(c.steps) :
        Inputs(s) # <<>> /\ ToSet(Inputs(s)) \subseteq DOMAIN ran.tables =>
            LET ins == InputTables(ran, s) IN SameMeaning(ins[1], Last(ins), s)

\* The patch that passes the sandbox repairs the run: the repeated run does
\* not fail, although the sandbox has seen neither the data nor the engine
\* that runs it.  It cannot foresee the columns of a pivot, nor what a step
\* does that the two engines take differently; it reads columns the user may
\* not see; and a column of texts may begin with numbers.
HealedRuns ==
    LET c == parse(text)  ran == RunPipeline(c, Files1)
    IN  phase \in {"patched", "HEALED"} /\ Restricting = {}
        /\ (data.extension = ".csv" => data.sampled = data.table.num)
        /\ (\A s \in ToSet(c.steps) : s.type # "pivot") /\ SameInSql(c, ran)
            => ran.failed = NULL

\* The rows account for the run: every attempt has left one, and there are no
\* more than allowed; only the last can be that of a patch that was applied,
\* and the run has its text, unless it has been stopped before that was saved:
\* such a run is never repeated, patched or healed.
AttemptsAreRecorded ==
    /\ \A i \in DOMAIN log :
           log[i].status = "APPLIED" =>
               i = Len(log) /\ (log[i].proposed = text \/ phase \in {"saving", "lost", "FAILED"})
    /\ phase \in {"saving", "patched", "HEALED"} => log # <<>> /\ Last(log).status = "APPLIED"
    /\ phase = "HEALING" => /\ \A i \in DOMAIN log : log[i].status # "APPLIED"
                            /\ attempt <= MAX_HEALING_RETRIES => Len(log) = attempt - 1
    /\ attempt > 0 => Len(log) <= MAX_HEALING_RETRIES

-----------------------------------------------------------------------------
(* The queries that are accepted                                           *)

\* A reference for queries with one kind of delimiter: a position is in a
\* literal or a quoted name when an odd number of its quotes precede, in a
\* line comment when a "--" follows the last newline, in a block comment when
\* a "/*" follows the last "*/".
Quotes     == {"'", "\"", "$$", "$t$"}
Openers    == Quotes \cup {"--", "/*"}
Delimiters == Openers \cup {"*/"}
LastOf(q, i, toks) == LET js == {j \in 1..(i - 1) : q[j] \in toks} IN IF js = {} THEN 0 ELSE Max(js)
Covered(q, i) ==
    \/ \E d \in Quotes : Cardinality({j \in 1..(i - 1) : q[j] = d}) % 2 = 1
    \/ LastOf(q, i, {"--"}) > LastOf(q, i, {"newline"})
    \/ LastOf(q, i, {"/*"}) > LastOf(q, i, {"*/"})

\* Does q run nothing that is forbidden, nor name what lies outside?
Harmless(q) ==
    LET open == {i \in DOMAIN q : q[i] \notin Openers /\ ~Covered(q, i)}
    IN  /\ "://" \notin ToSet(q)
        /\ \A i \in open : /\ q[i] # "drop"
                           /\ q[i] = "read_csv" => \A j \in open : j > i /\ q[j] = "(" =>
                                                       \E k \in open : i < k /\ k < j /\ q[k] # "newline"

GuardIsExact ==
    \A q \in {q \in Queries : Cardinality(ToSet(q) \cap Delimiters) <= 1
                              \/ ToSet(q) \cap Delimiters = {"/*", "*/"}} :
        /\ validate_sql_step_query(q) => Harmless(q)
        /\ Harmless(q) /\ Len(q) > 1 /\ Head(q) \in {"select", "with"} /\ "{{input}}" \in ToSet(q)
           /\ ";" \notin ToSet(q) /\ ~Covered(q \o <<"newline", "select">>, Len(q) + 2)
               => validate_sql_step_query(q)

\* Outside literals, quoted names and comments an accepted query has no
\* forbidden keyword and calls no forbidden function, and nowhere does it name
\* a URI; a keyword inside of them does not make a query fail that is otherwise
\* right.  For queries with one kind of delimiter.
SqlGuard == phase = "queued" => GuardIsExact
=============================================================================
