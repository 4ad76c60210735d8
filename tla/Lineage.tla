------------------------------ MODULE Lineage -------------------------------
(***************************************************************************)
(* LineageRecorder: the column-level lineage graph of a run.  A node is a  *)
(* file, a step, a column of a step or an output file.  Every edge enters  *)
(* or leaves a step node, so that an output column descends from every     *)
(* input column that is recorded for its step.                             *)
(*                                                                         *)
(* kind gives the node_type of the nodes that _add_node has added (an edge *)
(* also creates a node, without attributes), source the source_column      *)
(* attribute of the outputs of aggregations.                               *)
(***************************************************************************)
EXTENDS Integers, SequencesExt, FiniteSetsExt

File(f)      == <<"file", f>>
Step(s)      == <<"step", s>>
Col(s, c)    == <<"col", s, c>>
Output(s, f) == <<"output", s, f>>

EmptyGraph == [kind |-> <<>>, source |-> <<>>, edges |-> {}]

Cols(s, cs) == {Col(s, c) : c \in cs}

AddNodes(g, nodes, kind) ==
    [g EXCEPT !.kind = [n \in nodes \cup DOMAIN @ |-> IF n \in nodes THEN kind ELSE @[n]]]
AddEdges(g, A, B)        == [g EXCEPT !.edges = @ \cup (A \X B)]

\* What all recorders share: the inputs flow into the step, the step into its outputs.
Record(g, s, ins, outs) ==
    AddEdges(AddEdges(AddNodes(AddNodes(g, {Step(s)}, "step"), Cols(s, outs), "output_column"),
                      ins, {Step(s)}),
             {Step(s)}, Cols(s, outs))

record_load(g, file, s, cols) ==
    LET h == AddNodes(AddNodes(AddNodes(g, {File(file)}, "source_file"), {Step(s)}, "step"),
                      Cols(s, cols), "source_column")
    IN  AddEdges(AddEdges(h, {File(file)}, {Step(s)}), {Step(s)}, Cols(s, cols))

record_passthrough(g, s, input, cols) == Record(g, s, Cols(input, cols), cols)
record_deduplicate(g, s, input, cols) == Record(g, s, Cols(input, cols), cols)
record_fill_nulls(g, s, input, cols)  == Record(g, s, Cols(input, cols), cols)
record_sample(g, s, input, cols)      == Record(g, s, Cols(input, cols), cols)

\* Mutant: a dropped column leaves no trace and a kept one no input.
record_projection_of_dropped(g, s, input, kept, dropped) == Record(g, s, Cols(input, dropped), kept)

record_projection(g, s, input, kept, dropped) == Record(g, s, Cols(input, kept \cup dropped), kept)

record_rename(g, s, input, mapping, cols) ==
    Record(g, s, Cols(input, cols), {IF c \in DOMAIN mapping THEN mapping[c] ELSE c : c \in cols})

ConnectJoinSide(input, cols) == Cols(input, cols)

record_join(g, s, left, right, lcols, rcols, outs) ==
    Record(g, s, ConnectJoinSide(left, lcols) \cup ConnectJoinSide(right, rcols), outs)

\* inputOf: output column -> the column it is computed from.
record_aggregate(g, s, input, inputOf, outs) ==
    LET h == Record(g, s, Cols(input, {inputOf[c] : c \in DOMAIN inputOf}), outs)
    IN  [h EXCEPT !.source = [n \in Cols(s, outs) |->
                                 IF n[3] \in DOMAIN inputOf THEN inputOf[n[3]] ELSE n[3]] @@ @]

record_save(g, s, input, filename, cols) ==
    LET h == AddNodes(AddNodes(g, {Step(s)}, "step"), {Output(s, filename)}, "output_file")
    IN  AddEdges(AddEdges(h, Cols(input, cols), {Step(s)}), {Step(s)}, {Output(s, filename)})

\* Of several index columns only the first is recorded.
record_pivot(g, s, input, index, columns, values, outs) ==
    Record(g, s, Cols(input, {index[1], columns, values}), outs)

record_unpivot(g, s, input, ids, vals, outs)  == Record(g, s, Cols(input, ids \cup vals), outs)
record_sql(g, s, input, ins, outs)            == Record(g, s, Cols(input, ins), outs)
record_wasm_compute(g, s, input, ins, outs)   == Record(g, s, Cols(input, ins), outs)

-----------------------------------------------------------------------------
(* Queries *)

Nodes(g)    == DOMAIN g.kind \cup {e[1] : e \in g.edges}
Kind(g, n)  == IF n \in DOMAIN g.kind THEN g.kind[n] ELSE ""
Preds(g, S) == {e[1] : e \in {e \in g.edges : e[2] \in S}}
Succs(g, S) == {e[2] : e \in {e \in g.edges : e[1] \in S}}

\* The nodes at distance at most d before n: the levels of the search.
Before(g, n, d) ==
    LET level[k \in 0..d] ==
            IF k = 0 THEN {n} ELSE LET near == level[k - 1] IN near \cup Preds(g, near)
    IN  level[d]
After(g, n, d) ==
    LET level[k \in 0..d] ==
            IF k = 0 THEN {n} ELSE LET near == level[k - 1] IN near \cup Succs(g, near)
    IN  level[d]

Ancestors(g, n)   == Before(g, n, Cardinality(Nodes(g)))
Descendants(g, n) == After(g, n, Cardinality(Nodes(g))) \ {n}

OfKind(g, S, kind) == {n \in S : Kind(g, n) = kind}

\* Of the sources of a column: one of its own name, else the one its
\* source_column names, else one of those the search meets first.
get_column_ancestry(g, s, c) ==
    LET n      == Col(s, c)
        seen   == Ancestors(g, n)
        found  == OfKind(g, seen, "source_column")
        first  == Min({d \in 0..Cardinality(Nodes(g)) :
                          found = {} \/ OfKind(g, Before(g, n, d), "source_column") # {}})
        Named(x) == {m \in found : m[3] = x}
        source == IF n \in DOMAIN g.source THEN g.source[n] ELSE ""
    IN  [steps   |-> {m[2] : m \in OfKind(g, seen, "step")},
         files   |-> {m[2] : m \in OfKind(g, seen, "source_file")},
         columns |-> IF found = {} \/ Named(c) # {} THEN {c}
                    ELSE IF Named(source) # {} THEN {source}
                    ELSE {m[3] : m \in OfKind(g, Before(g, n, first), "source_column")}]

get_impact_analysis(g, s, c) ==
    LET after == Descendants(g, Col(s, c))
    IN  [steps   |-> {m[2] : m \in OfKind(g, after, "step")},
         columns |-> OfKind(g, after, "output_column") \cup OfKind(g, after, "output_file")]

\* Longest path from a source; topological order makes it well defined.
AssignLayers(g) ==
    LET layer[n \in Nodes(g)] ==
            IF Preds(g, {n}) = {} THEN 0 ELSE 1 + Max({layer[m] : m \in Preds(g, {n})})
    IN  layer
=============================================================================
