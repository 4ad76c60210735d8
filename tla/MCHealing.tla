----------------------------- MODULE MCHealing ------------------------------
(* Three-step definitions over a file of two columns that may be renamed.  *)
EXTENDS Healing

MCTextOrder == <<"***", "k", "v", "value_1", "value_2", "x">>

Load == [name |-> "a", type |-> "load", file_id |-> "f"]
Save == [name |-> "z", type |-> "save", input |-> "c", filename |-> "o"]
S(name, in, config) == [name |-> name, input |-> in] @@ config

Configs(x, y) ==
    {[type |-> "filter", column |-> x, operator |-> "gte", value |-> 1],
     [type |-> "select", columns |-> <<x>>],
     [type |-> "rename", mapping |-> [c \in {x} |-> "w"]],
     [type |-> "rename", mapping |-> [c \in {x, y} |-> IF c = x THEN y ELSE x]],
     [type |-> "aggregate", group_by |-> <<x>>, aggregations |-> <<[column |-> y, function |-> "sum", alias |-> NULL]>>],
     [type |-> "aggregate", group_by |-> <<y>>, aggregations |-> <<[column |-> x, function |-> "max", alias |-> "k"]>>],
     [type |-> "sort", by |-> <<x>>],
     [type |-> "validate", rules |-> <<[check |-> "not_null", column |-> x]>>],
     [type |-> "deduplicate", subset |-> <<x>>],
     [type |-> "fill_nulls", columns |-> <<x>>, constant_value |-> 0],
     [type |-> "sample", n |-> 1, stratify_by |-> x],
     [type |-> "pivot", index |-> <<x>>, columns |-> y, values |-> y],
     [type |-> "unpivot", id_vars |-> <<x>>, value_vars |-> <<y>>],
     [type |-> "wasm_compute", input_columns |-> <<x>>, output_column |-> "out"]}
Joins(name, l, r) == {[name |-> name, type |-> "join", left |-> l, right |-> r, on |-> "k", bare |-> b] : b \in BOOLEAN}

First  == {S("b", "a", c) : c \in Configs("k", "v") \cup Configs("v", "k")} \cup Joins("b", "a", "a")
Second == {S("c", "b", c) : c \in Configs("k", "v") \cup {[type |-> "filter", column |-> "v_sum", operator |-> "gte", value |-> 1],
                                                         [type |-> "transform"]}}
          \cup Joins("c", "a", "b") \cup {S("c", "x", [type |-> "sort", by |-> <<"k">>])}
Pairs == {<<s, t>> \in First \X Second : s.type \in {"rename", "aggregate", "join"} \/ t.type \in {"rename", "filter", "select", "unpivot"}}
MCTexts ==
    {[layout |-> "rooted", name |-> "p", steps |-> <<Load, p[1], p[2], Save>>] : p \in Pairs}
    \cup {[layout |-> "indented", name |-> "p", steps |-> <<Load, s>>] : s \in First}

File(cols) == Table(cols, ToSet(cols), << [c \in ToSet(cols) |-> 0], [c \in ToSet(cols) |-> 1] >>)
Upload(ext, t, sampled, policies) == [extension |-> ext, table |-> t, sampled |-> sampled, policies |-> policies]
Csv(t) == Upload(".csv", t, t.num, {})
Mixed  == Table(<<"k", "x">>, {"k"}, [i \in 1..3 |-> [c \in {"k", "x"} |-> IF c = "k" THEN i ELSE "x"]])
Restrict1(c, p) == {[column |-> c, policy |-> p, allowed_roles |-> {"admin"}], [column |-> "k", policy |-> "masked", allowed_roles |-> {"viewer"}]}
MCFiles == {Csv(File(<<"k", "v">>)), Csv(File(<<"k", "x">>)), Csv(File(<<"x", "v">>)), Csv(Table(<<"k", "v">>, {}, <<>>)),
            Upload(".csv", Mixed, {"k", "x"}, {}), Upload(".json", Mixed, {"k"}, {}),
            Upload(".parquet", File(<<"k", "x">>), {"k", "x"}, {}),
            Upload(".csv", File(<<"k", "v">>), {"k", "v"}, Restrict1("v", "redacted")),
            Upload(".csv", File(<<"k", "x">>), {"k", "x"}, Restrict1("x", "masked"))}

Item(step, field, old, new) == [step_name |-> step, field |-> field, old |-> old, new |-> new]
MCPatches ==
    {<<Item("b", f, "v", "x")>> : f \in {"column", "columns", "group_by", "by", "mapping", "aggregations"}}
    \cup {<<Item("b", f, "k", "x"), Item("c", f, "k", "x")>> : f \in {"column", "on", "mapping", "by"}}
    \cup {<<Item("b", "group_by", "k", "x"), Item("c", "column", "k", "x")>>,
          <<Item("c", "input", "b", "a")>>, <<Item("y", "column", "v", "x")>>}

Tokens == {"select", "with", "drop", "read_csv", "(", "://", "{{input}}", "'", "\"", "$$", "$t$", "--", "/*", "*/", "newline", ";"}
MCQueries == {<<"select">> \o q \o <<"{{input}}">> : q \in UNION {[1..n -> Tokens \ {"select", "with", "{{input}}"}] : n \in 1..3}}
             \cup [1..2 -> Tokens] \cup {q \o <<"select", "{{input}}">> : q \in [1..3 -> {"--", "/*", "*/", "newline", "drop"}]}
=============================================================================
