----------------------------- MODULE Definition -----------------------------
(***************************************************************************)
(* What a pipeline definition means before it runs: parsing, validation,   *)
(* the simulated flow of columns, the dry-run plan and patches.            *)
(*                                                                         *)
(* A text is its layout, its name and its steps as YAML gives them: a step *)
(* is a record with some of its fields.  A blank scalar is NULL, a blank   *)
(* list <<>>.  A schema is a set of columns.  Messages are left out: an    *)
(* error is the step and the field it is about.                            *)
(***************************************************************************)
EXTENDS Tables

CONSTANTS
    Unsafe,                 \* names that is_valid_identifier or is_safe_filename rejects
    MAX_PIPELINE_STEPS

StepType == {"load", "filter", "select", "rename", "join", "aggregate", "sort", "save", "validate",
              "pivot", "unpivot", "deduplicate", "fill_nulls", "sample", "wasm_compute", "transform",
              "stream_publish"}
Operators == {"equals", "not_equals", "contains", "not_contains", "starts_with", "ends_with",
              "is_null", "is_not_null"} \cup Orderings
AggregationFunctions == {"sum", "mean", "median", "min", "max", "count", "first", "last", "std", "var"}
Checks == {"not_null", "not_empty", "greater_than", "less_than", "between", "in_values", "matches_pattern",
           "no_duplicates", "min_rows", "max_rows", "date_format", "positive"}

-----------------------------------------------------------------------------
(* Parsing *)

\* The value a step gets for a field its YAML leaves out.
BuildTypedStep(type) ==
    LET one == [input |-> NULL]
    IN  CASE type = "load"        -> [file_id |-> NULL]
          [] type = "select"      -> one @@ [columns |-> <<>>]
          [] type = "rename"      -> one @@ [mapping |-> <<>>]
          [] type = "aggregate"   -> one @@ [group_by |-> <<>>, aggregations |-> <<>>]
          [] type = "save"        -> one @@ [filename |-> NULL]
          [] type = "validate"    -> one @@ [rules |-> <<>>]
          [] type = "pivot"       -> one @@ [index |-> <<>>, columns |-> NULL, values |-> NULL,
                                             aggfunc |-> "sum", fill_value |-> 0]
          [] type = "unpivot"     -> one @@ [id_vars |-> <<>>, value_vars |-> <<>>,
                                             var_name |-> "variable", value_name |-> "value"]
          [] type = "deduplicate" -> one @@ [subset |-> <<>>, keep |-> "first"]
          [] type = "fill_nulls"  -> one @@ [strategy |-> "constant", constant_value |-> NULL, columns |-> <<>>]
          [] type = "sample"      -> one @@ [n |-> NULL, halves |-> NULL, stratify_by |-> NULL]
          [] type = "wasm_compute" -> one @@ [input_columns |-> <<>>, output_column |-> NULL]
          [] type = "stream_publish" -> one @@ [topic |-> NULL]
          [] OTHER                -> one
BuildFilterStep == [input |-> NULL, column |-> NULL, operator |-> "equals", value |-> NULL]
BuildJoinStep   == [left |-> NULL, right |-> NULL, on |-> NULL, how |-> "inner"]
BuildSortStep   == [input |-> NULL, by |-> <<>>, order |-> "asc", ascending |-> <<TRUE>>]

\* An unknown type is kept for the validation to report.
ParseStep(raw) ==
    CASE raw.type \notin StepType -> [name |-> raw.name, type |-> raw.type]
      [] raw.type = "filter" -> raw @@ BuildFilterStep
      [] raw.type = "join"   -> raw @@ BuildJoinStep
      [] raw.type = "sort"   -> raw @@ BuildSortStep
      [] OTHER               -> raw @@ BuildTypedStep(raw.type)

\* A text with "-" in the first column is taken for a diff and loses those
\* lines.  A list of steps is written there when it is dumped without the
\* "pipeline" root.
StripDiffMarkers(text) == text.layout = "flush" /\ text.steps # <<>>

\* NULL when parsing raises.
parse(text) ==
    IF StripDiffMarkers(text) \/ text.name = NULL THEN NULL
    ELSE [name |-> text.name, steps |-> [i \in DOMAIN text.steps |-> ParseStep(text.steps[i])]]

-----------------------------------------------------------------------------
(* PipelineParser.validate: a set of <<step, field>> *)

Inputs(s) == CASE s.type = "join" -> <<s.left, s.right>>
               [] s.type = "load" \/ s.type \notin StepType -> <<>>
               [] OTHER           -> <<s.input>>

At(i, c, P, field) == IF P THEN {<<c.steps[i].name, field>>} ELSE {}

RequiredScalars(type) ==
    CASE type = "load" -> {"file_id"}       [] type = "join" -> {"left", "right"}
      [] type = "filter" -> {"input", "column"}
      [] type = "pivot" -> {"input", "columns", "values"}
      [] type = "wasm_compute" -> {"input", "output_column"}
      [] type = "stream_publish" -> {"input", "topic"}
      [] OTHER -> {"input"}
RequiredLists(type) ==
    CASE type = "select" -> {"columns"}     [] type = "rename" -> {"mapping"}
      [] type = "aggregate" -> {"group_by"} [] type = "sort" -> {"by"}
      [] type = "validate" -> {"rules"}     [] type = "pivot" -> {"index"}
      [] type = "unpivot" -> {"id_vars", "value_vars"}
      [] type = "wasm_compute" -> {"input_columns"}
      [] OTHER -> {}

CheckRequiredStepFields(c, i) ==
    LET s == c.steps[i]
    IN  {<<s.name, f>> : f \in {f \in RequiredScalars(s.type) : s[f] = NULL}
                               \cup {f \in RequiredLists(s.type) : s[f] = <<>>}}
        \cup At(i, c, s.type = "filter" /\ s.operator \in Operators \ {"is_null", "is_not_null"}
                      /\ s.value = NULL, "value")
        \cup At(i, c, s.type = "sort" /\ s.order \notin {"asc", "desc"}, "order")
        \cup At(i, c, s.type = "fill_nulls" /\ s.strategy = "constant" /\ s.constant_value = NULL, "value")
        \cup At(i, c, s.type = "sample" /\ (s.n = NULL) = (s.halves = NULL), "sample")

ValidateStepReference(c, i) ==
    At(i, c, \E k \in DOMAIN Inputs(c.steps[i]) :
                 LET r == Inputs(c.steps[i])[k]
                 IN  r # NULL /\ r \notin {c.steps[j].name : j \in 1..(i - 1)}, "input")

CheckDuplicateStepNames(c, i) ==
    At(i, c, \E j \in DOMAIN c.steps : j # i /\ c.steps[j].name = c.steps[i].name, "name")
CheckStepNameFormat(c, i)   == At(i, c, c.steps[i].name \in Unsafe, "name")
CheckStepTypes(c, i)        == At(i, c, c.steps[i].type \notin StepType, "type")
CheckUnsupportedSteps(c, i) == At(i, c, c.steps[i].type = "transform", "type")
CheckLoadFileIds(c, i, registered) ==
    At(i, c, c.steps[i].type = "load" /\ c.steps[i].file_id \notin registered \cup {NULL}, "file_id")
CheckFilterOperators(c, i) ==
    At(i, c, c.steps[i].type = "filter" /\ c.steps[i].operator \notin Operators, "operator")
CheckJoinConfigs(c, i) ==
    At(i, c, c.steps[i].type = "join" /\ c.steps[i].on = NULL, "on")
    \cup At(i, c, c.steps[i].type = "join" /\ c.steps[i].how \notin {"inner", "left", "right", "outer"}, "how")
CheckAggregateConfigs(c, i) ==
    At(i, c, c.steps[i].type = "aggregate" /\
             (\/ c.steps[i].aggregations = <<>>
              \/ \E a \in ToSet(c.steps[i].aggregations) : a.function \notin AggregationFunctions), "aggregations")
CheckSaveFilenames(c, i) ==
    At(i, c, c.steps[i].type = "save" /\ c.steps[i].filename \in Unsafe \cup {NULL}, "filename")
CheckValidateRules(c, i) ==
    At(i, c, c.steps[i].type = "validate" /\ \E r \in ToSet(c.steps[i].rules) : r.check \notin Checks, "rules")
CheckHasSteps(c)       == IF c.steps = <<>> THEN {<<NULL, "steps">>} ELSE {}
CheckStepCountLimit(c) == IF Len(c.steps) > MAX_PIPELINE_STEPS THEN {<<NULL, "steps">>} ELSE {}

validate(c, registered) ==
    CheckHasSteps(c) \cup CheckStepCountLimit(c) \cup UNION {
        LET type == CheckStepTypes(c, i)
        IN  type \cup CheckDuplicateStepNames(c, i) \cup CheckStepNameFormat(c, i)
            \cup IF type # {} THEN {} ELSE
                 CheckRequiredStepFields(c, i) \cup ValidateStepReference(c, i)
                 \cup CheckLoadFileIds(c, i, registered) \cup CheckFilterOperators(c, i)
                 \cup CheckJoinConfigs(c, i) \cup CheckAggregateConfigs(c, i) \cup CheckSaveFilenames(c, i)
                 \cup CheckValidateRules(c, i) \cup CheckUnsupportedSteps(c, i) : i \in DOMAIN c.steps}

-----------------------------------------------------------------------------
(* The columns of every step, without running it *)

\* The columns a step names; a join names its key on both sides.
Mentions(s) ==
    CASE s.type = "filter"       -> {s.column}
      [] s.type \in {"select", "fill_nulls"} -> ToSet(s.columns)
      [] s.type = "rename"       -> DOMAIN s.mapping
      [] s.type = "join"         -> {s.on}
      [] s.type = "aggregate"    -> ToSet(s.group_by) \cup {a.column : a \in ToSet(s.aggregations)}
      [] s.type = "sort"         -> ToSet(s.by)
      [] s.type = "validate"     -> {r.column : r \in ToSet(s.rules)}
      [] s.type = "pivot"        -> ToSet(s.index) \cup {s.columns, s.values}
      [] s.type = "unpivot"      -> ToSet(s.id_vars) \cup ToSet(s.value_vars)
      [] s.type = "deduplicate"  -> ToSet(s.subset)
      [] s.type = "sample"       -> {s.stratify_by}
      [] s.type = "wasm_compute" -> ToSet(s.input_columns)
      [] OTHER                   -> {}

\* _append_missing_column_error
MissingColumns(s, available) == Mentions(s) \ (available \cup {NULL})

\* Mutant: the columns of a rename keep their names.
SchemaAfterKeepsNames(s, available, right) ==
    CASE s.type = "join"      -> available \cup (right \ {s.on})
      [] s.type = "select"    -> ToSet(s.columns) \cap available
      [] s.type = "aggregate" -> ToSet(s.group_by) \cap available
      [] OTHER                -> available

SchemaAfter(s, available, right) ==
    CASE s.type = "join"      -> available \cup (right \ {s.on})
      [] s.type = "select"    -> ToSet(s.columns) \cap available
      [] s.type = "rename"    -> {Renamed(s.mapping, c) : c \in available}
      [] s.type = "aggregate" -> (ToSet(s.group_by) \cap available)
            \cup {a.column \o "_" \o a.function :
                     a \in {a \in ToSet(s.aggregations) : a.column \in available}}
      [] s.type = "pivot"     -> (ToSet(s.index) \cap available)
            \cup IF s.values \in available THEN {s.values \o "_pivoted"} ELSE {}
      [] s.type = "unpivot"   -> (ToSet(s.id_vars) \cap available) \cup {s.var_name, s.value_name}
      [] s.type = "wasm_compute" -> available \cup {s.output_column}
      [] OTHER                -> available

SchemaOf(schema, n) == IF n \in DOMAIN schema THEN schema[n] ELSE {}

\* stored: file -> the columns recorded when it was uploaded.
collect_schema_validation_errors(c, stored) ==
    LET Flow(acc, s) ==
            LET ins   == Inputs(s)
                left  == IF ins = <<>> THEN {} ELSE SchemaOf(acc.schema, ins[1])
                right == IF Len(ins) < 2 THEN {} ELSE SchemaOf(acc.schema, ins[2])
                missing == MissingColumns(s, left) \cup IF Len(ins) < 2 THEN {} ELSE MissingColumns(s, right)
            IN  IF s.type = "load"
                THEN [schema |-> (s.name :> SchemaOf(stored, s.file_id)) @@ acc.schema,
                      errors |-> acc.errors \cup IF s.file_id \in DOMAIN stored THEN {} ELSE {<<s.name, "file_id">>}]
                ELSE [schema |-> (s.name :> SchemaAfter(s, left, right)) @@ acc.schema,
                      errors |-> acc.errors \cup {<<s.name, x>> : x \in missing}]
    IN  FoldLeft(Flow, [schema |-> <<>>, errors |-> {}], c.steps)

-----------------------------------------------------------------------------
(* generate_execution_plan, from the raw steps.  stored: file -> columns;  *)
(* counted: file -> rows.                                                  *)

EstimatedColumns(s, left, right) ==
    CASE s.type = "join"      -> left \cup right
      [] s.type = "aggregate" -> ToSet(s.group_by)
                                 \cup {a.column \o "_" \o a.function : a \in ToSet(s.aggregations)}
      [] s.type = "select"    -> ToSet(s.columns)
      [] s.type = "rename"    -> {Renamed(s.mapping, c) : c \in left}
      [] s.type = "pivot"     -> ToSet(s.index)
      [] s.type = "unpivot"   -> ToSet(s.id_vars) \cup {s.var_name, s.value_name}
      [] OTHER                -> left

AtLeast1(n) == IF n < 1 THEN 1 ELSE n
AtMost(n, m) == IF n > m THEN m ELSE n

EstimatedRows(s, rows, right) ==
    CASE s.type = "filter"      -> (rows * 7) \div 10
      [] s.type = "join"        -> CASE s.how = "inner" -> AtMost(rows, right)
                                     [] s.how = "outer" -> rows + right
                                     [] OTHER           -> rows
      [] s.type = "aggregate"   -> AtLeast1(rows \div 10)
      [] s.type = "pivot"       -> AtLeast1(rows \div AtLeast1(rows \div 10))
      [] s.type = "unpivot"     -> rows * AtLeast1(Len(s.value_vars))
      [] s.type = "deduplicate" -> AtLeast1((rows * 85) \div 100)
      [] s.type = "sample"      -> IF s.n # NULL THEN AtMost(s.n, rows)
                                   ELSE IF s.halves # NULL THEN (rows * s.halves) \div 2 ELSE rows
      [] OTHER                  -> rows

generate_execution_plan(c, stored, counted) ==
    LET Plan(acc, s) ==
            LET ins == Inputs(s)
                Known2(f, k, none) == IF Len(ins) >= k /\ ins[k] \in DOMAIN f THEN f[ins[k]] ELSE none
                found == s.type = "load" /\ s.file_id \in DOMAIN stored
                rows  == IF s.type = "load" THEN IF found THEN counted[s.file_id] ELSE 0
                         ELSE EstimatedRows(s, Known2(acc.rows, 1, 0), Known2(acc.rows, 2, 0))
                cols  == IF s.type = "load" THEN IF found THEN stored[s.file_id] ELSE {}
                         ELSE EstimatedColumns(s, Known2(acc.columns, 1, {}), Known2(acc.columns, 2, {}))
            IN  [rows |-> (s.name :> rows) @@ acc.rows, columns |-> (s.name :> cols) @@ acc.columns,
                 will_succeed |-> acc.will_succeed /\ (s.type = "load" => found)]
    IN  FoldLeft(Plan, [rows |-> <<>>, columns |-> <<>>, will_succeed |-> TRUE], c.steps)

-----------------------------------------------------------------------------
(* Patches of a text.  An item is a step, a field, an old and a new value. *)

Replace(seq, old, new) == [i \in DOMAIN seq |-> IF seq[i] = old THEN new ELSE seq[i]]

PatchListField(s, p)  == IF p.field \in DOMAIN s /\ s.type # "pivot" THEN {[s EXCEPT ![p.field] = Replace(@, p.old, p.new)]} ELSE {}
PatchSortField(s, p)  == PatchListField(s, p)
PatchMappingField(s, p) ==
    IF "mapping" \notin DOMAIN s THEN {}
    ELSE LET m == s.mapping
             Swap(x) == IF x = p.old THEN p.new ELSE x
         IN  {[s EXCEPT !.mapping = [k \in {Swap(x) : x \in DOMAIN m} |->
                  Swap(m[CHOOSE x \in DOMAIN m : Swap(x) = k])]]}
PatchAggregationsField(s, p) ==
    IF "aggregations" \notin DOMAIN s THEN {}
    ELSE {[s EXCEPT !.aggregations = [i \in DOMAIN @ |->
              IF @[i].column = p.old THEN [@[i] EXCEPT !.column = p.new] ELSE @[i]]]}

\* An unexpected old value is overwritten all the same.  YAML reads a bare
\* "on" as true: such a step has no field "on" for a patch.
PatchScalarField(s, p) ==
    IF p.field \in DOMAIN s /\ ~(p.field = "on" /\ s.bare) THEN {[s EXCEPT ![p.field] = p.new]} ELSE {}

PatchItem(s, p) ==
    CASE p.field \in {"columns", "group_by"} -> PatchListField(s, p)
      [] p.field = "by"           -> PatchSortField(s, p)
      [] p.field = "mapping"      -> PatchMappingField(s, p)
      [] p.field = "aggregations" -> PatchAggregationsField(s, p)
      [] OTHER                    -> PatchScalarField(s, p)

\* The set of the patched text, or {} when a patch does not apply.
ApplyPatchItem(text, p) ==
    LET is == {i \in DOMAIN text.steps : text.steps[i].name = p.step_name}
    IN  IF is = {} THEN {}
        ELSE {[text EXCEPT !.steps[Max(is)] = s] : s \in PatchItem(text.steps[Max(is)], p)}

apply_patch(text, patches) ==
    LET Apply(texts, p) == UNION {ApplyPatchItem(x, p) : x \in texts}
    IN  {[x EXCEPT !.layout = IF @ = "rooted" THEN @ ELSE "flush"] : x \in FoldLeft(Apply, {text}, patches)}

-----------------------------------------------------------------------------
(* healing_classifier *)

HealableErrors == {"ColumnNotFoundError", "JoinKeyMissingError", "KeyError", "MergeError"}
MaybeHealable  == {"ValueError", "TypeError", "AggregationError"}

\* marker: what the message of the error looks like.
is_healable(error) ==
    /\ error.marker # "not_healable"
    /\ \/ error.type \in HealableErrors
       \/ error.type \in MaybeHealable /\ error.marker = "healable"

-----------------------------------------------------------------------------
(* The query of a sql step, as tokens.  Strings, quoted names and comments *)
(* are masked before the scan for keywords.  A delimiter is one token, and *)
(* a doubled quote two; "drop" stands for the forbidden keywords,          *)
(* "read_csv" for the functions, "://" for the URIs.                       *)

Opens  == ("'" :> "single_quote") @@ ("\"" :> "double_quote") @@ ("--" :> "line_comment")
          @@ ("/*" :> "block_comment") @@ ("$$" :> "dollar_quote") @@ ("$t$" :> "tagged_quote")
Closes == [single_quote |-> "'", double_quote |-> "\"", block_comment |-> "*/", line_comment |-> "newline",
           dollar_quote |-> "$$", tagged_quote |-> "$t$"]

\* Mutant: a line comment swallows the rest of the query.
LexWithoutNewline(state, tok) ==
    IF state = "code" THEN IF tok \in DOMAIN Opens THEN Opens[tok] ELSE "code"
    ELSE IF state # "line_comment" /\ tok = Closes[state] THEN "code" ELSE state

\* The state after a token; a dollar quote remembers its delimiter.  A doubled
\* quote leaves the literal and enters it again, which masks the same tokens.
Lex(state, tok) ==
    IF state = "code" THEN IF tok \in DOMAIN Opens THEN Opens[tok] ELSE "code"
    ELSE IF tok = Closes[state] THEN "code" ELSE state

StateBefore(q, i) == FoldLeft(Lex, "code", SubSeq(q, 1, i - 1))

\* The positions that are not masked.
Executable(q)   == {i \in DOMAIN q : StateBefore(q, i) = "code" /\ Lex("code", q[i]) = "code"}
Unterminated(q) == StateBefore(q, Len(q) + 1) \notin {"code", "line_comment"}

\* _FORBIDDEN_SQL_FUNCTIONS: only blanks, what is masked included, may be
\* between the name and the parenthesis.
CallsForbidden(q) ==
    \E i, j \in Executable(q) : /\ q[i] = "read_csv" /\ q[j] = "(" /\ i < j
                                /\ \A k \in Executable(q) : i < k /\ k < j => q[k] = "newline"

\* The query without the comments that _LEADING_COMMENT removes: blanks come
\* before the first comment and after a block comment, not after a line comment.
Body(q) ==
    LET After(i) == \A j \in 1..(i - 1) :
            \/ StateBefore(q, j) # "code"
            \/ q[j] \in {"--", "/*"}
            \/ q[j] = "newline" /\ ~\E k \in 1..(j - 1) : /\ q[k] = "newline" /\ StateBefore(q, k) = "line_comment"
                                                         /\ \A l \in (k + 1)..(j - 1) : q[l] = "newline"
        starts == {i \in 1..(Len(q) + 1) : After(i) /\ StateBefore(q, i) = "code"}
    IN  SubSeq(q, Max(starts), Len(q))

\* The first word, after blanks.
Leading(q) == LET words == {i \in DOMAIN q : q[i] # "newline"} IN IF words = {} THEN "" ELSE q[Min(words)]

Stripped(q) == SubSeq(q, 1, Max({0} \cup {i \in DOMAIN q : q[i] # "newline"}))

validate_sql_step_query(q) ==
    LET s    == Stripped(q)
        n    == IF s # <<>> /\ Last(s) = ";" THEN Stripped(Front(s)) ELSE s
        body == Body(n)
    IN  /\ ToSet(n) \cap {";", "://"} = {}
        /\ "{{input}}" \in ToSet(n)
        /\ Leading(body) \in {"select", "with"}
        /\ ~Unterminated(body)
        /\ \A i \in Executable(body) : body[i] # "drop"
        /\ ~CallsForbidden(body)
=============================================================================
