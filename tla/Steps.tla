-------------------------------- MODULE Steps -------------------------------
(***************************************************************************)
(* The steps of a run as they transform tables and record lineage: two     *)
(* files are loaded, under the column policies of the first one, and       *)
(* further steps each read tables of earlier ones.  A step runs on Pandas, *)
(* which records its lineage, or on DuckDB, which does not.                *)
(*                                                                         *)
(* origin is not program state: it says from which loaded columns the      *)
(* values of a column are really computed.                                 *)
(***************************************************************************)
EXTENDS Contracts, Lineage

CONSTANTS
    LoadTables,     \* contents of the first file
    RightTable,     \* contents of the second file
    Policies,       \* sets of column policies the first file may have
    Configs,        \* step configurations
    Promises,       \* contracts
    MaxSteps, MaxRows   \* bounds: steps of a run, rows of a table that is read

StepNames == <<"s1", "s2", "s3", "s4">>
DuckDBCapable == {"filter", "select", "sort", "aggregate", "join", "deduplicate",
                  "fill_nulls", "sample", "pivot", "unpivot"}

StepTypes == DuckDBCapable \cup {"rename", "wasm_compute", "save", "validate", "stream_publish"}

\* What the parser guarantees of a step, as far as the executors rely on it.
IsConfig(s) ==
    /\ s.type \in StepTypes
    /\ s.type = "select" => s.columns \in Seq(STRING)
    /\ s.type = "filter" => s.value # NULL \/ s.operator \in NullTests
    /\ s.type = "aggregate" => /\ s.group_by \in Seq(STRING) \ {<<>>}
                               /\ s.aggregations \in Seq([column : STRING, function : STRING, alias : STRING \cup {NULL}])
    /\ s.type = "pivot" => s.index \in Seq(STRING)
    /\ s.type = "unpivot" => s.id_vars \in Seq(STRING) /\ s.value_vars \in Seq(STRING)
    /\ s.type = "wasm_compute" => s.input_columns \in Seq(STRING)

ASSUME StepsAssumption ==
    /\ MaxSteps \in 0..Len(StepNames)
    /\ \A t \in LoadTables \cup {RightTable} : IsTable(t) /\ t.cols \in Seq(STRING)
    /\ \A s \in Configs : IsConfig(s)
    /\ NULL \notin Promises

VARIABLES
    tables,     \* table_registry: name -> table
    graph,      \* the graph of the LineageRecorder
    origin,     \* name -> column -> set of loaded columns <<step, column>>
    traced,     \* names of the steps that recorded all columns they read
    done,       \* number of steps executed
    failed      \* a step has raised

vars == <<tables, graph, origin, traced, done, failed>>

-----------------------------------------------------------------------------
(* execute_load, by a user whose role is viewer                            *)

Loaded(name, t) == [c \in ToSet(t.cols) |-> {<<name, c>>}]

Init ==
    \E t \in LoadTables, policies \in Policies :
        LET a == apply_column_policies(t, "viewer", policies)
        IN  /\ tables = [n \in {"a", "b"} |-> IF n = "a" THEN a ELSE RightTable]
            /\ graph = record_load(record_load(EmptyGraph, "f", "a", ToSet(a.cols)),
                                   "g", "b", ToSet(RightTable.cols))
            /\ origin = [n \in {"a", "b"} |-> Loaded(n, IF n = "a" THEN a ELSE RightTable)]
            /\ traced = {"a", "b"}
            /\ done = 0
            /\ failed = FALSE

-----------------------------------------------------------------------------

\* What an output column is computed from: pairs of an input (1, 2) and a column.
ComputedFrom(s, t, u, out, n) ==
    LET Of(cs) == {<<1, c>> : c \in cs}
        Named(c, side) == n \in IF c \in (ToSet(t.cols) \cap ToSet(u.cols)) \ {s.on}
                                THEN {PandasSuffix(c, side), SqlSuffix(c, side)} ELSE {c}
    IN  CASE s.type = "rename"    -> Of({c \in ToSet(t.cols) : Renamed(s.mapping, c) = n})
          [] s.type = "aggregate" ->
                IF n \in ToSet(s.group_by) THEN Of({n})
                ELSE Of({a.column : a \in {a \in ToSet(s.aggregations) : OutputName(a) = n}})
          [] s.type = "pivot"     -> IF n \in ToSet(s.index) THEN Of({n}) ELSE Of({s.columns, s.values})
          [] s.type = "unpivot"   -> IF n \in ToSet(s.id_vars) THEN Of({n}) ELSE Of(ToSet(s.value_vars))
          [] s.type = "wasm_compute" /\ n = s.output_column -> Of(ToSet(s.input_columns))
          [] s.type = "join"      ->
                Of({c \in ToSet(t.cols) : Named(c, "left")})
                \cup {<<2, c>> : c \in {c \in ToSet(u.cols) : Named(c, "right")}}
          [] OTHER                -> Of({n})

\* The recorder call at the end of the Pandas executor of s.
Recorded(g, name, in, right, s, t, u, out) ==
    LET cols == ToSet(t.cols)  outs == ToSet(out.cols)
    IN  CASE s.type = "select" -> record_projection(g, name, in, outs, cols \ outs)
          [] s.type = "rename" -> record_rename(g, name, in, s.mapping, cols)
          [] s.type = "join"   -> record_join(g, name, in, right, cols, ToSet(u.cols), outs)
          [] s.type = "aggregate" ->
                record_aggregate(g, name, in,
                    [n \in outs |-> (CHOOSE p \in ComputedFrom(s, t, u, out, n) : TRUE)[2]], outs)
          [] s.type = "pivot"   -> record_pivot(g, name, in, s.index, s.columns, s.values, outs)
          [] s.type = "unpivot" -> record_unpivot(g, name, in, ToSet(s.id_vars), ToSet(s.value_vars), outs)
          [] s.type = "deduplicate" -> record_deduplicate(g, name, in, outs)
          [] s.type = "fill_nulls"  -> record_fill_nulls(g, name, in, outs)
          [] s.type = "sample"      -> record_sample(g, name, in, outs)
          [] s.type = "wasm_compute" -> record_wasm_compute(g, name, in, ToSet(s.input_columns), outs)
          [] s.type = "save"        -> record_save(g, name, in, s.filename, cols)
          [] OTHER                  -> record_passthrough(g, name, in, cols)

\* wasm_compute records only the inputs of the function, pivot one index
\* column, save no column of its own, and DuckDB nothing.
RecordsAllInputs(s) ==
    /\ s.type \notin {"wasm_compute", "save"}
    /\ s.type = "pivot" => Len(s.index) = 1

Put(f, name, value) == [n \in DOMAIN f \cup {name} |-> IF n = name THEN value ELSE f[n]]

Finish(name, in, right, s, out) ==
    /\ tables' = Put(tables, name, out)
    /\ origin' = Put(origin, name, [n \in ToSet(out.cols) |->
                     UNION {IF p[1] = 1 THEN origin[in][p[2]] ELSE origin[right][p[2]] :
                                p \in ComputedFrom(s, tables[in], tables[right], out, n)}])
    /\ done' = done + 1
    /\ UNCHANGED failed

ExecutePandas(in, s) ==
    LET name == StepNames[done + 1]
    IN  /\ done < MaxSteps /\ ~failed
        /\ \E out \in Pandas(tables[in], tables["b"], s) :
               /\ Finish(name, in, "b", s, out)
               /\ graph' = Recorded(graph, name, in, "b", s, tables[in], tables["b"], out)
        /\ traced' = IF in \in traced /\ RecordsAllInputs(s) THEN traced \cup {name} ELSE traced

ExecuteDuckDB(in, s) ==
    /\ done < MaxSteps /\ ~failed /\ s.type \in DuckDBCapable
    /\ \E out \in build_sql_for_step(tables[in], tables["b"], s) :
           Finish(StepNames[done + 1], in, "b", s, out)
    /\ UNCHANGED <<graph, traced>>

\* The executor raises; the runner stops the run at this step.
StepRaises(in, s) ==
    /\ done < MaxSteps /\ ~failed
    /\ \/ Pandas(tables[in], tables["b"], s) = {}
       \/ CallsOut(s)
       \/ s.type \in DuckDBCapable /\ build_sql_for_step(tables[in], tables["b"], s) = {}
    /\ failed' = TRUE
    /\ UNCHANGED <<tables, graph, origin, traced, done>>

Next ==
    \E in \in {n \in DOMAIN tables : Len(tables[n].rows) <= MaxRows}, s \in Configs :
        ExecutePandas(in, s) \/ ExecuteDuckDB(in, s) \/ StepRaises(in, s)

Spec == Init /\ [][Next]_vars

-----------------------------------------------------------------------------
(* Properties *)

Latest == tables[IF done = 0 THEN "a" ELSE StepNames[done]]

NoNulls(t) == \A i \in Rows(t) : \A c \in ToSet(t.cols) : t.rows[i][c] # NULL
Content(t) == [cols |-> t.cols, rows |-> [r \in ToSet(t.rows) |-> Times(t.rows, r)]]

\* Whether a table is above the row threshold does not change what a step
\* computes: on tables without nulls the query of sql_builder and the Pandas
\* executor raise for the same steps and produce the same columns and the
\* same rows, in some order.
EnginesAgree ==
    done < MaxSteps /\ Len(Latest.rows) <= MaxRows =>
        \A s \in {s \in Configs : s.type \in DuckDBCapable} :
            LET u == tables["b"]
            IN  NoNulls(Latest) /\ NoNulls(u) /\ SameMeaning(Latest, u, s) =>
                    {Content(x) : x \in Pandas(Latest, u, s)}
                        = {Content(x) : x \in build_sql_for_step(Latest, u, s)}

\* The lineage graph is sound: every loaded column that the values of a
\* column are computed from is among the sources get_column_ancestry finds
\* for it, get_impact_analysis of that source reports the column, and the
\* layout places it to the right; as long as all steps up to it recorded
\* the columns they read.
LineageCovers ==
    LET layer == AssignLayers(graph)
    IN  \A n \in traced : \A c \in DOMAIN origin[n] :
            LET sources == OfKind(graph, Ancestors(graph, Col(n, c)), "source_column")
                steps   == get_column_ancestry(graph, n, c).steps
            IN  \A o \in origin[n][c] :
                    /\ Col(o[1], o[2]) \in sources
                    /\ {n, o[1]} \subseteq steps
                    /\ n = o[1] \/ ( /\ Col(n, c) \in get_impact_analysis(graph, o[1], o[2]).columns
                                     /\ layer[Col(n, c)] > layer[Col(o[1], o[2])] )

Rules(violations) == {<<v.column, v.rule>> : v \in violations}

\* The three rule engines agree on tables without nulls: an inline contract
\* and the same contract of the pipeline find the same violations, and a
\* validate rule fails exactly when its counterpart is violated.  A contract
\* of the pipeline names each column once and requires it, and compares the
\* allowed values as texts: it writes 1.0 for the numbers of a column of
\* floats, and 1 for those of integers.
ChecksAgree ==
    \A k \in Promises, floats \in SUBSET Latest.num :
        LET t == Latest
            inline  == Rules(validate_step_contract(t, k))
            atEnd   == Rules({v \in validate_against_contract(t, k, floats) :
                                 v.rule \notin {"unexpected", "null_threshold"}})
            Fails(c, check) == RuleFails(t, [check |-> check, column |-> c.name, min |-> c.min_value,
                                             max |-> c.max_value, values |-> c.allowed_values])
            Comparable ==
                /\ NoNulls(t)
                /\ \A c \in k.columns : IF Has(t, <<c.name>>)
                                        THEN c.name \in t.num /\ (c.decimal <=> c.name \in floats)
                                        ELSE c.required
                /\ \A c, d \in k.columns : c.name = d.name => c = d
        IN  Comparable =>
                /\ inline = atEnd
                /\ \A c \in k.columns : Has(t, <<c.name>>) =>
                       /\ NULL \notin {c.min_value, c.max_value} =>
                            (Fails(c, "between")
                                <=> inline \cap {<<c.name, "min_value">>, <<c.name, "max_value">>} # {})
                       /\ Fails(c, "in_values") <=> <<c.name, "allowed_values">> \in inline
                       /\ c.unique => (Fails(c, "no_duplicates") <=> <<c.name, "unique">> \in inline)
=============================================================================
