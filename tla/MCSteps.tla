------------------------------ MODULE MCSteps -------------------------------
(* Tables of at most two rows over three values, and one of three rows.    *)
EXTENDS Steps

MCTextOrder == <<"***", "k", "v", "w", "x">>
Cells == {0, 1, NULL}
RowsOf(n) == [1..n -> [{"k", "v"} -> Cells]]
File3 == << [c \in {"k", "v"} |-> 0], [c \in {"k", "v"} |-> IF c = "k" THEN 0 ELSE 1],
            [c \in {"k", "v"} |-> 1] >>
MCLoadTables == {Table(<<"k", "v">>, {"k", "v"}, r) :
                    r \in {<<>>, File3} \cup RowsOf(1)
                          \cup {r \in RowsOf(2) : r[1]["k"] = 0}}
MCRightTable == Table(<<"k", "w">>, {"k", "w"},
                      << [c \in {"k", "w"} |-> 0], [c \in {"k", "w"} |-> IF c = "k" THEN 0 ELSE 1] >>)

Policy(c, p, roles) == [column |-> c, policy |-> p, allowed_roles |-> roles]
MCPolicies == {{}, {Policy("v", "masked", {"admin"})}, {Policy("v", "redacted", {}), Policy("k", "masked", {"viewer"})}}

Filter(c, op, v) == [type |-> "filter", column |-> c, operator |-> op, value |-> v]
MCConfigs ==
    {Filter("v", op, v) : op \in {"equals", "not_equals", "gte", "less_than", "is_null"}, v \in {1}}
    \cup {Filter("k", "not_contains", 1), Filter("k", "equals", Text), Filter("x", "is_not_null", NULL),
          Filter("v", "less_than", Text), Filter("k", "is_null", Text)}
    \cup {[type |-> "select", columns |-> <<"v">>],
          [type |-> "rename", mapping |-> [c \in {"k", "v"} |-> IF c = "k" THEN "v" ELSE "k"]],
          [type |-> "rename", mapping |-> [c \in {"v"} |-> "k"]],
          [type |-> "rename", mapping |-> [c \in {"v"} |-> "w"]],
          [type |-> "aggregate", group_by |-> <<"k">>,
           aggregations |-> <<[column |-> "v", function |-> "sum", alias |-> NULL], [column |-> "v", function |-> "count", alias |-> NULL]>>],
          [type |-> "aggregate", group_by |-> <<"v">>, aggregations |-> <<[column |-> "k", function |-> "max", alias |-> NULL]>>],
          [type |-> "aggregate", group_by |-> <<"k">>,
           aggregations |-> <<[column |-> "v", function |-> "min", alias |-> NULL], [column |-> "k", function |-> "count", alias |-> NULL],
                              [column |-> "v", function |-> "last", alias |-> "w"]>>],
          [type |-> "sort", by |-> <<"v">>, ascending |-> <<FALSE>>],
          [type |-> "sort", by |-> <<"k", "v">>, ascending |-> <<TRUE>>],
          [type |-> "deduplicate", subset |-> <<"k">>, keep |-> "last"],
          [type |-> "deduplicate", subset |-> <<>>, keep |-> "none"],
          [type |-> "deduplicate", subset |-> <<>>, keep |-> "last"],
          [type |-> "sample", n |-> 1, halves |-> NULL, stratify_by |-> NULL],
          [type |-> "sample", n |-> 1, halves |-> NULL, stratify_by |-> "k"],
          [type |-> "sample", n |-> NULL, halves |-> 1, stratify_by |-> NULL],
          [type |-> "fill_nulls", columns |-> <<"v">>, strategy |-> "constant", constant_value |-> 0],
          [type |-> "fill_nulls", columns |-> <<"v">>, strategy |-> "forward_fill", constant_value |-> NULL],
          [type |-> "fill_nulls", columns |-> <<"k">>, strategy |-> "mode", constant_value |-> NULL],
          [type |-> "fill_nulls", columns |-> <<"v">>, strategy |-> "mean", constant_value |-> NULL],
          [type |-> "pivot", index |-> <<"k">>, columns |-> "v", values |-> "v", aggfunc |-> "count", fill_value |-> 0],
          [type |-> "pivot", index |-> <<"k">>, columns |-> "v", values |-> "v", aggfunc |-> "sum", fill_value |-> NULL],
          [type |-> "unpivot", id_vars |-> <<"k">>, value_vars |-> <<"v">>, var_name |-> "variable", value_name |-> "value"],
          [type |-> "wasm_compute", input_columns |-> <<"v">>, output_column |-> "out"],
          [type |-> "save", filename |-> "f"],
          [type |-> "validate"], [type |-> "stream_publish"]}
    \cup {[type |-> "join", on |-> "k", how |-> h] : h \in {"inner", "left", "right", "outer"}}

Column1(c, decimal, allowed) ==
    [name |-> c, dtype |-> "number", required |-> TRUE, not_null |-> TRUE, unique |-> TRUE,
     min_value |-> 0, max_value |-> 1, allowed_values |-> allowed, decimal |-> decimal]
MCPromises ==
    {[columns |-> {Column1("k", FALSE, {0, 1}), Column1("w", TRUE, {0})}, null_thresholds |-> <<>>,
      min_rows |-> 1, max_rows |-> 1],
     [columns |-> {[Column1("v", TRUE, {1}) EXCEPT !.min_value = 1]}, null_thresholds |-> [c \in {"v"} |-> 20],
      min_rows |-> NULL, max_rows |-> NULL]}
=============================================================================
