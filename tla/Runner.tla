------------------------------- MODULE Runner -------------------------------
(***************************************************************************)
(* PipelineRunner.execute: the steps of a validated pipeline are executed  *)
(* in order.  Each reads the tables of earlier steps from a registry, from *)
(* which a table is dropped when its last reader has run.  SmartExecutor   *)
(* routes a step to Pandas or, when its input is large, to DuckDB; only    *)
(* the Pandas executors record lineage.                                    *)
(*                                                                         *)
(* A table is its number of rows.  A step is its name, its kind and the    *)
(* names it reads: "load" reads a file, "join" two tables, "sql" and       *)
(* "capable" (DUCKDB_CAPABLE_STEPS) and "plain" (the rest) one table.      *)
(***************************************************************************)
EXTENDS Integers, Sequences, FiniteSets

CONSTANTS
    Names,              \* step names
    Submitted,          \* pipelines that are submitted
    RowCounts,          \* sizes of tables
    DUCKDB_THRESHOLD

Kinds == {"load", "plain", "capable", "sql", "join"}
StepConfig == [name : Names, kind : Kinds, refs : Seq(Names)]

ASSUME RunnerAssumption ==
    /\ Submitted \subseteq Seq(StepConfig)
    /\ RowCounts \subseteq Nat
    /\ DUCKDB_THRESHOLD \in Nat

VARIABLES
    cfg,        \* the pipeline that is executed
    index,      \* its next step
    registry,   \* table_registry: name -> table
    remaining,  \* consumers: name -> readers that have not run
    results,    \* step_results: each holds its output table
    recorded,   \* names of the steps whose lineage is recorded
    status      \* of the execution; "raised" when an exception leaves execute

runnerVars == <<cfg, index, registry, remaining, results, recorded, status>>

-----------------------------------------------------------------------------
(* PipelineParser.validate, as far as names and references go.             *)

Arity(kind) == IF kind = "load" THEN 0 ELSE IF kind = "join" THEN 2 ELSE 1

CheckRequiredFields(c)  == \A i \in DOMAIN c : Len(c[i].refs) = Arity(c[i].kind)
CheckDuplicateNames(c)  == \A i, j \in DOMAIN c : c[i].name = c[j].name => i = j

\* Mutant: every step of the pipeline may be read, also a later one.
CheckReferencesAnywhere(c) ==
    \A i \in DOMAIN c : \A k \in DOMAIN c[i].refs :
        \E j \in DOMAIN c : c[j].name = c[i].refs[k]

CheckStepReferences(c) ==
    \A i \in DOMAIN c : \A k \in DOMAIN c[i].refs :
        \E j \in 1..(i - 1) : c[j].name = c[i].refs[k]

Valid(c) == /\ c # <<>>
            /\ CheckDuplicateNames(c)
            /\ CheckRequiredFields(c)
            /\ CheckStepReferences(c)

-----------------------------------------------------------------------------

\* The reads of n by the steps of c from the i-th on: (step, position) pairs.
Uses(c, n, i) ==
    {u \in (i..Len(c)) \X (1..2) : /\ u[2] \in DOMAIN c[u[1]].refs
                                   /\ c[u[1]].refs[u[2]] = n}

Referenced(c) == {n \in Names : \E i \in DOMAIN c : \E k \in DOMAIN c[i].refs :
                                    c[i].refs[k] = n}

\* Mutant: a self-join counts as one reader.
ConsumerCountsOfSteps(c) ==
    [n \in Referenced(c) |-> Cardinality({u[1] : u \in Uses(c, n, 1)})]

ComputeConsumerCounts(c) == [n \in Referenced(c) |-> Cardinality(Uses(c, n, 1))]

RunnerInit ==
    /\ cfg \in Submitted
    /\ Valid(cfg)
    /\ index = 1
    /\ registry = [n \in {} |-> 0]
    /\ remaining = ComputeConsumerCounts(cfg)
    /\ results = <<>>
    /\ recorded = {}
    /\ status = "RUNNING"

step == cfg[index]
Reads(n) == {k \in DOMAIN step.refs : step.refs[k] = n}
InputsPresent == \A k \in DOMAIN step.refs : step.refs[k] \in DOMAIN registry

\* The engine SmartExecutor chooses when the inputs are there.
Engine ==
    CASE step.kind = "sql"     -> "duckdb"
      [] step.kind = "join"    -> IF \E k \in 1..2 : registry[step.refs[k]] > DUCKDB_THRESHOLD
                                  THEN "duckdb" ELSE "pandas"
      [] step.kind = "capable" -> IF registry[step.refs[1]] >= DUCKDB_THRESHOLD
                                  THEN "duckdb" ELSE "pandas"
      [] OTHER                 -> "pandas"

Running == status = "RUNNING" /\ index <= Len(cfg)

\* Mutant: the count includes the step that reads now.
EvictedLate(left) ==
    {n \in DOMAIN left : Reads(n) # {} /\ remaining[n] <= 0 /\ n # step.name}

\* Inputs to drop: read by this step, by no later one, and not its own output.
Evicted(left) == {n \in DOMAIN left : Reads(n) # {} /\ left[n] <= 0 /\ n # step.name}

\* _store_and_evict: the loop over the consumed names, as one function.
StoreAndEvict(table) ==
    LET left == [n \in DOMAIN remaining |-> remaining[n] - Cardinality(Reads(n))]
    IN  /\ remaining' = left
        /\ registry' = [n \in (DOMAIN registry \union {step.name}) \ Evicted(left) |->
                            IF n = step.name THEN table ELSE registry[n]]

ExecuteStep ==
    /\ Running
    /\ InputsPresent
    /\ \E table \in RowCounts :
          /\ StoreAndEvict(table)
          /\ results' = Append(results, [name |-> step.name, output_table |-> table])
    /\ recorded' = IF Engine = "pandas" THEN recorded \union {step.name} ELSE recorded
    /\ index' = index + 1
    /\ UNCHANGED <<cfg, status>>

\* Mutant: a failing step is skipped.
StepFailsSkipped ==
    /\ Running
    /\ InputsPresent
    /\ index' = index + 1
    /\ UNCHANGED <<cfg, registry, remaining, results, recorded, status>>

\* A StepExecutionError: the summary keeps the results so far.
StepFails ==
    /\ Running
    /\ InputsPresent
    /\ status' = "FAILED"
    /\ UNCHANGED <<cfg, index, registry, remaining, results, recorded>>

\* Any other exception leaves execute, and the results are lost; a table that is
\* missing from the registry is a KeyError.
ExecuteRaises ==
    /\ Running
    /\ status' = IF InputsPresent THEN "raised" ELSE "keyError"
    /\ results' = <<>>
    /\ UNCHANGED <<cfg, index, registry, remaining, recorded>>

Complete ==
    /\ status = "RUNNING"
    /\ index > Len(cfg)
    /\ status' = "COMPLETED"
    /\ UNCHANGED <<cfg, index, registry, remaining, results, recorded>>

RunnerNext == ExecuteStep \/ StepFails \/ ExecuteRaises \/ Complete

RunnerSpec == RunnerInit /\ [][RunnerNext]_runnerVars

-----------------------------------------------------------------------------
(* Properties.                                                             *)

TypeOK ==
    /\ cfg \in Submitted
    /\ index \in 1..(Len(cfg) + 1)
    /\ DOMAIN registry \subseteq Names
    /\ \A n \in DOMAIN registry : registry[n] \in RowCounts
    /\ remaining \in [Referenced(cfg) -> Nat]
    /\ results \in Seq([name : Names, output_table : RowCounts])
    /\ recorded \subseteq Names
    /\ status \in {"RUNNING", "COMPLETED", "FAILED", "raised", "keyError"}

\* A step of a validated pipeline finds every table it reads in the registry:
\* none is dropped too early, however often a table is read.
NoTableMissing == status # "keyError"

\* Why that holds: a counter is the number of reads still to come, also when one
\* step reads a table twice.
CountsExact == \A n \in DOMAIN remaining : remaining[n] = Cardinality(Uses(cfg, n, index))

\* The tables that the steps from the i-th on read, or nobody reads.
Needed(c, i) ==
    {n \in Names : /\ \E j \in 1..(i - 1) : c[j].name = n
                   /\ n \in Referenced(c) => Uses(c, n, i) # {}}

\* A table is dropped from the registry as soon as its last reader has run.
RegistryExact == DOMAIN registry = Needed(cfg, index)

\* The results handed to _persist_results are those of the steps before the one
\* that failed, in the order of the pipeline: their position is the step_index.
ResultsArePrefix ==
    status \in {"RUNNING", "COMPLETED", "FAILED"} =>
        /\ Len(results) = index - 1
        /\ \A i \in DOMAIN results : results[i].name = cfg[i].name

-----------------------------------------------------------------------------
(* What documentation or comments say and this model refutes (see README).  *)

\* "Trace every output column back to its source file": the lineage of every step
\* of a completed pipeline is recorded.
LineageComplete ==
    status = "COMPLETED" => \A i \in DOMAIN cfg : cfg[i].name \in recorded
=============================================================================
