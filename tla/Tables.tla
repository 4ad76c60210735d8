------------------------------- MODULE Tables -------------------------------
(***************************************************************************)
(* What a step computes.  Every batch step exists twice: StepExecutor      *)
(* works on Pandas frames, and sql_builder writes the query that DuckDB    *)
(* runs when the input is large.                                           *)
(*                                                                         *)
(* A table is its columns in order, the set of the numeric ones, and its   *)
(* rows in order.  A cell is an integer, a string or NULL.  execute_x and  *)
(* build_x_sql give the SET of tables the step may produce: more than one  *)
(* when the order of ties or the rows of a sample are the library's        *)
(* choice, none when the step raises.                                      *)
(*                                                                         *)
(* Texts are atoms: a text contains, starts or ends with only itself, and  *)
(* texts are in the order in which TextOrder lists them.  Joining texts (a *)
(* sum of Pandas over a text column) is taken to raise, and so is a query  *)
(* whose result would repeat a column name.                                *)
(***************************************************************************)
EXTENDS Integers, SequencesExt, FiniteSetsExt

CONSTANTS
    NULL,       \* NaN, None, SQL NULL
    Text,       \* a filter value that is no number: no cell has it, and it is after all texts
    TextOrder   \* the texts that cells hold, in ascending order

Table(cols, num, rows) == [cols |-> cols, num |-> num, rows |-> rows]
WithRows(t, rows) == Table(t.cols, t.num, rows)
Rows(t)           == DOMAIN t.rows
Column(t, c)      == [i \in Rows(t) |-> t.rows[i][c]]

\* A set in ascending order, given a strict total order of it.
Ranked(S, before) ==
    [n \in 1..Cardinality(S) |->
        CHOOSE x \in S : Cardinality({y \in S : <<y, x>> \in before}) = n - 1]
Indices(S)        == Ranked(S, {p \in S \X S : p[1] < p[2]})

\* A cell as a number that is ordered as the cells of its column are.
IsText(x)   == \E i \in DOMAIN TextOrder : ToString(TextOrder[i]) = ToString(x)
Rank(x)     == IF IsText(x) THEN CHOOSE i \in DOMAIN TextOrder : TextOrder[i] = x ELSE x
Least(S)    == CHOOSE x \in S : \A y \in S : Rank(x) <= Rank(y)
Greatest(S) == CHOOSE x \in S : \A y \in S : Rank(x) >= Rank(y)
Sorted(S)   == Ranked(S, {p \in S \X S : Rank(p[1]) < Rank(p[2])})

Take(seq, indices) == [i \in DOMAIN indices |-> seq[indices[i]]]
Pick(t, indices)  == WithRows(t, Take(t.rows, indices))
Known(vals)       == Take(vals, Indices({i \in DOMAIN vals : vals[i] # NULL}))
Has(t, cs)        == ToSet(cs) \subseteq ToSet(t.cols)
SameRow(a, b, cs) == \A c \in ToSet(cs) : a[c] = b[c]

\* The rows are numbered from 1, and each has one cell per column.
IsTable(t) ==
    /\ Len(t.rows) \in Nat
    /\ t.rows = [i \in 1..Len(t.rows) |-> [c \in ToSet(t.cols) |-> t.rows[i][c]]]

\* Arrow tables do not repeat a column name.
Distinct(cols) == Cardinality(ToSet(cols)) = Len(cols)

-----------------------------------------------------------------------------
(* load: the policies of the file apply before any step sees its columns. *)

\* Of a value of up to three characters nothing stays visible.
ApplyMask(v) == IF v = NULL THEN NULL ELSE "***"

apply_column_policies(t, role, policies) ==
    LET Applies(p) == role \notin p.allowed_roles /\ Has(t, <<p.column>>)
        redacted == {p.column : p \in {p \in policies : Applies(p) /\ p.policy = "redacted"}}
        masked   == {p.column : p \in {p \in policies : Applies(p) /\ p.policy = "masked"}}
        cols     == Take(t.cols, Indices({i \in DOMAIN t.cols : t.cols[i] \notin redacted}))
        Shown(v, c) == IF c \in masked THEN ApplyMask(v) ELSE v
    IN  Table(cols, t.num \ (redacted \cup masked),
              [i \in Rows(t) |-> [c \in ToSet(cols) |-> Shown(t.rows[i][c], c)]])

-----------------------------------------------------------------------------
(* filter *)

Orderings   == {"greater_than", "less_than", "gte", "lte"}
Comparisons == Orderings \cup {"equals", "not_equals"}
Negative    == {"not_equals", "not_contains"}
NullTests   == {"is_null", "is_not_null"}

\* Are the column and the value both numbers, or both texts?
Alike(t, s) == s.value # Text <=> s.column \in t.num

\* x is known.  What is not alike is not equal.
Compare(alike, op, x, v) ==
    CASE ~alike              -> op \in Negative
      [] v = Text            -> op \in Negative \cup {"less_than", "lte"}
      [] op = "greater_than" -> x > v
      [] op = "less_than"    -> x < v
      [] op = "gte"          -> x >= v
      [] op = "lte"          -> x <= v
      [] op \in Negative     -> x # v
      [] OTHER               -> x = v

\* Mutant: ">=" is written as ">".
SqlKeepsStrict(alike, op, x, v) ==
    CASE op = "is_null"     -> x = NULL
      [] op = "is_not_null" -> x # NULL
      [] op = "gte" /\ alike /\ v # Text -> x # NULL /\ x > v
      [] OTHER              -> x # NULL /\ Compare(alike, op, x, v)

PandasKeeps(alike, op, x, v) ==
    CASE op = "is_null"     -> x = NULL
      [] op = "is_not_null" -> x # NULL
      [] OTHER              -> IF x = NULL THEN op \in Negative ELSE Compare(alike, op, x, v)

SqlKeeps(alike, op, x, v) ==
    CASE op = "is_null"     -> x = NULL
      [] op = "is_not_null" -> x # NULL
      [] OTHER              -> x # NULL /\ Compare(alike, op, x, v)

\* to_numeric of the value, or FilterTypeMismatchError.
CoerceFilterValue(t, s) == s.column \in t.num => s.value # Text

Filtered(t, s, Keeps(_, _, _, _)) ==
    Pick(t, Indices({i \in Rows(t) : Keeps(Alike(t, s), s.operator, t.rows[i][s.column], s.value)}))

\* An object column is not equal to a number, and has no order with it.
execute_filter(t, s) ==
    IF /\ Has(t, <<s.column>>)
       /\ CoerceFilterValue(t, s)
       /\ ~Alike(t, s) /\ s.operator \in Orderings => \A i \in Rows(t) : t.rows[i][s.column] = NULL
    THEN {Filtered(t, s, PandasKeeps)} ELSE {}

\* DuckDB compares no text with a number; LIKE casts the column first.
build_filter_sql(t, s) ==
    IF Has(t, <<s.column>>) /\ (s.operator \in Comparisons => Alike(t, s))
    THEN {Filtered(t, s, SqlKeeps)} ELSE {}

-----------------------------------------------------------------------------
(* select, rename *)

Projected(t, cs) == Table(cs, t.num \cap ToSet(cs),
                          [i \in Rows(t) |-> [c \in ToSet(cs) |-> t.rows[i][c]]])

execute_select(t, s)   == IF Has(t, s.columns) /\ Distinct(s.columns) THEN {Projected(t, s.columns)} ELSE {}
build_select_sql(t, s) == IF s.columns = <<>> THEN {t} ELSE execute_select(t, s)

Renamed(mapping, c) == IF c \in DOMAIN mapping THEN mapping[c] ELSE c

execute_rename(t, s) ==
    LET m    == s.mapping
        cols == [i \in DOMAIN t.cols |-> Renamed(m, t.cols[i])]
        preserved == ToSet(t.cols) \ DOMAIN m
        Old(n) == CHOOSE c \in ToSet(t.cols) : Renamed(m, c) = n
    IN  IF /\ DOMAIN m \subseteq ToSet(t.cols)
           /\ {m[c] : c \in DOMAIN m} \cap preserved = {}       \* RenameConflictError
           /\ Distinct(cols)
        THEN {Table(cols, {Renamed(m, c) : c \in t.num},
                    [i \in Rows(t) |-> [n \in ToSet(cols) |-> t.rows[i][Old(n)]]])}
        ELSE {}

-----------------------------------------------------------------------------
(* join.  The order of the joined rows is not modelled: left rows first.   *)

PandasMatch(x, y) == x = y                  \* merge matches NaN with NaN
SqlMatch(x, y)    == x # NULL /\ x = y

PandasSuffix(c, side) == c \o "_" \o side
SqlSuffix(c, side)    == IF side = "left" THEN c ELSE c \o "_1"

Matching(t, u, k, Match(_, _)) ==
    {p \in Rows(t) \X Rows(u) : Match(t.rows[p[1]][k], u.rows[p[2]][k])}

\* The names that the columns have in the result.
Shared(t, u, k) == (ToSet(t.cols) \cap ToSet(u.cols)) \ {k}
Suffixed(t, u, k, side, Suffix(_, _)) ==
    [c \in ToSet(t.cols) \cup ToSet(u.cols) |-> IF c \in Shared(t, u, k) THEN Suffix(c, side) ELSE c]

Joined(t, u, s, both, left, right) ==
    LET k      == s.on
        lcols  == [i \in DOMAIN t.cols |-> left[t.cols[i]]]
        others == Take(u.cols, Indices({i \in DOMAIN u.cols : u.cols[i] # k}))
        rcols  == [i \in DOMAIN others |-> right[others[i]]]
        pairs  == both
                  \cup (IF s.how \in {"left", "outer"}
                        THEN {<<i, 0>> : i \in Rows(t) \ {p[1] : p \in both}} ELSE {})
                  \cup (IF s.how \in {"right", "outer"}
                        THEN {<<0, j>> : j \in Rows(u) \ {p[2] : p \in both}} ELSE {})
        order  == Ranked(pairs, {x \in pairs \X pairs :
                      x[1][1] > x[2][1] \/ (x[1][1] = x[2][1] /\ x[1][2] < x[2][2])})
        Cell(p, n) ==
            IF n = k /\ p[1] = 0 THEN u.rows[p[2]][k]
            ELSE IF \E i \in DOMAIN lcols : lcols[i] = n
            THEN IF p[1] = 0 THEN NULL
                 ELSE t.rows[p[1]][CHOOSE c \in ToSet(t.cols) : left[c] = n]
            ELSE IF p[2] = 0 THEN NULL
                 ELSE u.rows[p[2]][CHOOSE c \in ToSet(others) : right[c] = n]
        cols == lcols \o rcols
    IN  IF Has(t, <<k>>) /\ Has(u, <<k>>) /\ Distinct(cols)
           /\ (k \in t.num <=> k \in u.num)
        THEN {Table(cols, {left[c] : c \in t.num} \cup {right[c] : c \in u.num \ {k}},
                    [i \in DOMAIN order |-> [n \in ToSet(cols) |-> Cell(order[i], n)]])}
        ELSE {}

execute_join(t, u, s) ==
    Joined(t, u, s, Matching(t, u, s.on, PandasMatch),
           Suffixed(t, u, s.on, "left", PandasSuffix), Suffixed(t, u, s.on, "right", PandasSuffix))
\* "OUTER JOIN" alone, without FULL, is no join of DuckDB.
build_join_sql(t, u, s) ==
    IF s.how = "outer" THEN {}
    ELSE Joined(t, u, s, Matching(t, u, s.on, SqlMatch),
                Suffixed(t, u, s.on, "left", SqlSuffix), Suffixed(t, u, s.on, "right", SqlSuffix))

-----------------------------------------------------------------------------
(* aggregate.  mean and median are rounded down; std and var are left out. *)

Sum(vals)    == FoldSeq(LAMBDA x, acc : x + acc, 0, vals)
Times(vals, v) == Cardinality({i \in DOMAIN vals : vals[i] = v})
Modes(vals)  == {v \in ToSet(vals) : \A w \in ToSet(vals) : Times(vals, w) <= Times(vals, v)}
Middle(vals) == LET s == SortSeq(vals, LAMBDA a, b : Rank(a) < Rank(b))
                    h == Len(s) \div 2
                IN  IF Len(s) % 2 = 1 THEN s[h + 1]
                    ELSE IF IsText(s[h]) THEN s[h] ELSE (s[h] + s[h + 1]) \div 2

Aggregate(f, vals) ==
    CASE f = "count"  -> Len(vals)
      [] f = "sum"    -> Sum(vals)
      [] f = "mean"   -> Sum(vals) \div Len(vals)
      [] f = "median" -> Middle(vals)
      [] f = "min"    -> Least(ToSet(vals))
      [] f = "max"    -> Greatest(ToSet(vals))
      [] f = "first"  -> Head(vals)
      [] f = "last"   -> Last(vals)

Statistic(f, vals, sumOfNone) ==
    IF f = "count" \/ vals # <<>> THEN Aggregate(f, vals)
    ELSE IF f = "sum" THEN sumOfNone ELSE NULL

\* FIRST and LAST of SQL do not skip nulls, and its SUM of none is NULL.
GroupStatistic(f, vals, sql) ==
    IF sql /\ f \in {"first", "last"} THEN Aggregate(f, vals)
    ELSE Statistic(f, Known(vals), IF sql THEN NULL ELSE 0)

\* f"{col}_{func}" if func != col else col
OutputName(a) == IF a.function # a.column THEN a.column \o "_" \o a.function ELSE a.column
\* The alias of the YAML, which Pandas does not look at, or f"{column}_{function}".
SqlAlias(a)   == IF a.alias # NULL THEN a.alias ELSE a.column \o "_" \o a.function

\* _build_aggregation_dict lists the functions of a column where the column
\* is first named.
ByColumn(aggs) ==
    LET First(i) == Min({j \in DOMAIN aggs : aggs[j].column = aggs[i].column})
    IN  Take(aggs, Ranked(DOMAIN aggs, {p \in (DOMAIN aggs) \X (DOMAIN aggs) :
            First(p[1]) < First(p[2]) \/ (First(p[1]) = First(p[2]) /\ p[1] < p[2])}))

\* Groups are sorted by the first key, a null last; ties stay in order.
KeyRank(t, c, i) ==
    LET Less(a, b) == a # NULL /\ (b = NULL \/ Rank(a) < Rank(b))
    IN  Cardinality({j \in Rows(t) : Less(t.rows[j][c], t.rows[i][c])})
GroupOrder(t, c, S) ==
    Ranked(S, {p \in S \X S : \/ KeyRank(t, c, p[1]) < KeyRank(t, c, p[2])
                              \/ KeyRank(t, c, p[1]) = KeyRank(t, c, p[2]) /\ p[1] < p[2]})

\* aggs with the names of their columns; the functions in numeric raise on texts.
Grouped(t, gs, aggs, names, groups, numeric, sql) ==
    LET cols  == gs \o names
        key(i) == [c \in ToSet(gs) |-> t.rows[i][c]]
        Members(i) == Indices({j \in Rows(t) : key(j) = key(i)})
        firsts == {i \in groups : \A j \in 1..(i - 1) : key(j) # key(i)}
        order  == GroupOrder(t, gs[1], firsts)
        Cell(i, n) ==
            IF n \in ToSet(gs) THEN t.rows[i][n]
            ELSE LET a == aggs[CHOOSE k \in DOMAIN names : names[k] = n]
                 IN  GroupStatistic(a.function, Column(Pick(t, Members(i)), a.column), sql)
        numbers == {k \in DOMAIN names : aggs[k].function = "count" \/ aggs[k].column \in t.num}
    IN  IF /\ Has(t, gs)
           /\ \A a \in ToSet(aggs) :
                  Has(t, <<a.column>>) /\ (a.function \in numeric => a.column \in t.num)
           /\ Distinct(cols)
        THEN {Table(cols, (t.num \cap ToSet(gs)) \cup {names[k] : k \in numbers},
                    [x \in DOMAIN order |-> [n \in ToSet(cols) |-> Cell(order[x], n)]])}
        ELSE {}

\* groupby leaves out the rows with a null key; GROUP BY gives them a group.
Keyed(t, cs) == {i \in Rows(t) : \A c \in ToSet(cs) : t.rows[i][c] # NULL}

execute_aggregate(t, s) ==
    LET aggs == ByColumn(s.aggregations)
    IN  Grouped(t, s.group_by, aggs, [i \in DOMAIN aggs |-> OutputName(aggs[i])],
                IF Has(t, s.group_by) THEN Keyed(t, s.group_by) ELSE {},
                {"sum", "mean", "median"}, FALSE)
build_aggregate_sql(t, s) ==
    LET aggs == s.aggregations
    IN  Grouped(t, s.group_by, aggs, [i \in DOMAIN aggs |-> SqlAlias(aggs[i])],
                Rows(t), {"sum", "mean"}, TRUE)

-----------------------------------------------------------------------------
(* sort, deduplicate, sample *)

Ascending(s) == IF Len(s.ascending) = 1 THEN [i \in DOMAIN s.by |-> s.ascending[1]] ELSE s.ascending

\* Nulls come last in both directions.
NotAfter(a, b, up) == b = NULL \/ (a # NULL /\ IF up THEN Rank(a) <= Rank(b) ELSE Rank(a) >= Rank(b))

InOrder(t, s, i, j) ==
    \/ SameRow(t.rows[i], t.rows[j], s.by)
    \/ \E k \in DOMAIN s.by :
           /\ \A l \in 1..(k - 1) : t.rows[i][s.by[l]] = t.rows[j][s.by[l]]
           /\ t.rows[i][s.by[k]] # t.rows[j][s.by[k]]
           /\ NotAfter(t.rows[i][s.by[k]], t.rows[j][s.by[k]], Ascending(s)[k])

Orders(S) == {p \in [1..Cardinality(S) -> S] : \A i, j \in DOMAIN p : p[i] = p[j] => i = j}

execute_sort(t, s) ==
    IF Has(t, s.by) /\ Len(Ascending(s)) = Len(s.by)
    THEN {Pick(t, p) : p \in {q \in Orders(Rows(t)) :
                                \A i, j \in DOMAIN q : i < j => InOrder(t, s, q[i], q[j])}}
    ELSE {}
build_sort_sql(t, s) == execute_sort(t, s)

Deduplicated(t, subset, keep) ==
    LET Twin(i, j) == i # j /\ SameRow(t.rows[i], t.rows[j], subset)
    IN  Pick(t, Indices({i \in Rows(t) : \A j \in Rows(t) :
            CASE keep = "first" -> j < i => ~Twin(i, j)
              [] keep = "last"  -> j > i => ~Twin(i, j)
              [] keep = "none"  -> ~Twin(i, j)}))

execute_deduplicate(t, s) ==
    IF Has(t, s.subset)
    THEN {Deduplicated(t, IF s.subset = <<>> THEN t.cols ELSE s.subset, s.keep)} ELSE {}

\* DISTINCT ignores keep, and has no form for "none".
build_deduplicate_sql(t, s) ==
    IF ~Has(t, s.subset) THEN {}
    ELSE IF s.subset # <<>> THEN {Deduplicated(t, s.subset, s.keep)}
    ELSE IF s.keep = "none" THEN {} ELSE {Deduplicated(t, t.cols, "first")}

Samples(t, n) == UNION {{Pick(t, p) : p \in Orders(S)} : S \in kSubset(n, Rows(t))}
HalfEven(k)   == IF k % 2 = 0 THEN k \div 2 ELSE IF (k \div 2) % 2 = 0 THEN k \div 2 ELSE k \div 2 + 1

\* A group of size g of a table of size len contributes max(1, int(g / len * target)).
Share(g, len, target) == IF (g * target) \div len < 1 THEN 1 ELSE (g * target) \div len

StratifiedSamples(t, by, target) ==
    LET Group(i) == {j \in Rows(t) : t.rows[j][by] = t.rows[i][by]}
        groups   == {Group(i) : i \in Keyed(t, <<by>>)}
        Fair(S)  == \A g \in groups : Cardinality(S \cap g) =
                        LET share == Share(Cardinality(g), Len(t.rows), target)
                        IN  IF share > Cardinality(g) THEN Cardinality(g) ELSE share
    IN  UNION {{Pick(t, p) : p \in Orders(S)} : S \in {S \in SUBSET UNION groups : Fair(S)}}

\* n and halves (twice the fraction): one of them is NULL.
execute_sample(t, s) ==
    IF \/ s.n = NULL <=> s.halves = NULL
       \/ s.stratify_by # NULL /\ ~Has(t, <<s.stratify_by>>)
    THEN {}
    ELSE IF s.n # NULL /\ s.n > Len(t.rows) THEN {t}
    ELSE IF s.stratify_by # NULL
         THEN StratifiedSamples(t, s.stratify_by,
                                IF s.n # NULL THEN s.n ELSE (Len(t.rows) * s.halves) \div 2)
    ELSE IF s.n # NULL THEN Samples(t, s.n)
    ELSE IF s.halves > 2 THEN {} ELSE Samples(t, HalfEven(Len(t.rows) * s.halves))

build_sample_sql(t, s) ==
    IF s.n = NULL <=> s.halves = NULL THEN {}
    ELSE IF s.n # NULL THEN Samples(t, IF s.n > Len(t.rows) THEN Len(t.rows) ELSE s.n)
    ELSE IF s.halves = 0 THEN {WithRows(t, <<>>)}
    ELSE IF s.halves >= 2 THEN {t}
    ELSE {Pick(t, Indices(S)) : S \in SUBSET Rows(t)}                \* bernoulli

-----------------------------------------------------------------------------
(* fill_nulls: each column in turn *)

Coalesced(vals, fill) == [i \in DOMAIN vals |-> IF vals[i] = NULL THEN fill ELSE vals[i]]
Carried(vals, up) ==
    [i \in DOMAIN vals |->
        LET seen == {j \in DOMAIN vals : vals[j] # NULL /\ IF up THEN j <= i ELSE j >= i}
        IN  IF seen = {} THEN NULL ELSE vals[IF up THEN Max(seen) ELSE Min(seen)]]

PandasFill(vals, s) ==
    CASE s.strategy = "constant"      -> Coalesced(vals, s.constant_value)
      [] s.strategy = "forward_fill"  -> Carried(vals, TRUE)
      [] s.strategy = "backward_fill" -> Carried(vals, FALSE)
      [] s.strategy = "mode"          -> IF Known(vals) = <<>> THEN vals
                                         ELSE Coalesced(vals, Least(Modes(Known(vals))))
      [] OTHER                        -> Coalesced(vals, Statistic(s.strategy, Known(vals), NULL))

Nulls(t, c) == {i \in Rows(t) : t.rows[i][c] = NULL}

\* A column of nothing but nulls has the type of what it is filled with.
FilledColumns(t, s) ==
    LET typed == {c \in ToSet(s.columns) : s.strategy = "constant" /\ t.rows # <<>> /\ Nulls(t, c) = Rows(t)}
    IN  Table(t.cols, t.num \cup typed, [i \in Rows(t) |-> [c \in ToSet(t.cols) |->
            IF c \in ToSet(s.columns) THEN PandasFill(Column(t, c), s)[i] ELSE t.rows[i][c]]])

\* A constant is a number; among texts it makes a column Arrow rejects.
execute_fill_nulls(t, s) ==
    IF /\ Has(t, s.columns)
       /\ s.strategy = "constant" => /\ s.constant_value # NULL
                                     /\ \A c \in ToSet(s.columns) : c \in t.num \/ Nulls(t, c) \in {{}, Rows(t)}
       /\ s.strategy \in {"mean", "median"} => ToSet(s.columns) \subseteq t.num
    THEN {FilledColumns(t, s)} ELSE {}

\* COALESCE mixes no texts with numbers; MEDIAN takes texts.  Which of several
\* modes MODE returns is not modelled: the least, as in Pandas.
build_fill_nulls_sql(t, s) ==
    IF /\ s.columns # <<>> /\ Has(t, s.columns) /\ Distinct(s.columns)
       /\ s.strategy \in {"constant", "mean"} => ToSet(s.columns) \subseteq t.num
    THEN {FilledColumns(t, s)} ELSE {}

-----------------------------------------------------------------------------
(* pivot, unpivot *)

\* str(col)
CellName(v) == IF IsText(v) THEN v ELSE ToString(v)

Pivoted(t, s, rows, fill, names) ==
    LET cells(i, v) == Known(Column(Pick(t, Indices({j \in rows :
                           SameRow(t.rows[i], t.rows[j], s.index) /\ t.rows[j][s.columns] = v})), s.values))
        firsts == Indices({i \in rows : \A j \in rows :
                               j < i => ~SameRow(t.rows[i], t.rows[j], s.index)})
        cols   == s.index \o [k \in DOMAIN names |-> CellName(names[k])]
        Value(i, v) == IF cells(i, v) = <<>> THEN fill ELSE Statistic(s.aggfunc, cells(i, v), NULL)
    IN  IF Distinct(cols)
        THEN {Table(cols, (t.num \cap ToSet(s.index))
                          \cup IF s.aggfunc = "count" \/ s.values \in t.num THEN ToSet(cols) \ ToSet(s.index) ELSE {},
                    [x \in DOMAIN firsts |-> [n \in ToSet(cols) |->
                        IF n \in ToSet(s.index) THEN t.rows[firsts[x]][n]
                        ELSE Value(firsts[x], CHOOSE v \in ToSet(names) : CellName(v) = n)]])}
        ELSE {}

PivotDefined(t, s) ==
    /\ Has(t, s.index) /\ Has(t, <<s.columns, s.values>>)
    /\ s.aggfunc \in {"sum", "mean", "median"} => s.values \in t.num

\* pivot_table: rows with a null key or no value drop out, gaps are filled.
execute_pivot(t, s) ==
    IF ~PivotDefined(t, s) THEN {}
    ELSE LET rows == Keyed(t, s.index) \cap Keyed(t, <<s.columns, s.values>>)
         IN  Pivoted(t, s, rows, s.fill_value, Sorted({t.rows[i][s.columns] : i \in rows}))

\* PIVOT: gaps stay NULL.
build_pivot_sql(t, s) ==
    IF ~PivotDefined(t, s) THEN {}
    ELSE Pivoted(t, s, Rows(t), NULL, Sorted({t.rows[i][s.columns] : i \in Keyed(t, <<s.columns>>)}))

Melted(t, s, cells) ==
    LET cols  == s.id_vars \o <<s.var_name, s.value_name>>
        order == Ranked(cells, {x \in cells \X cells :
                     x[1][1] < x[2][1] \/ (x[1][1] = x[2][1] /\ x[1][2] < x[2][2])})
    IN  Table(cols, (t.num \cap ToSet(s.id_vars)) \cup
                    IF ToSet(s.value_vars) \subseteq t.num THEN {s.value_name} ELSE {},
              [x \in DOMAIN order |-> [n \in ToSet(cols) |->
                  LET c == s.value_vars[order[x][1]]  r == t.rows[order[x][2]]
                  IN  CASE n = s.var_name   -> c
                        [] n = s.value_name -> r[c]
                        [] OTHER            -> r[n]]])

UnpivotDefined(t, s) ==
    /\ Has(t, s.id_vars) /\ Has(t, s.value_vars)
    /\ ToSet(s.id_vars) \cap ToSet(s.value_vars) = {}
    /\ ToSet(s.value_vars) \subseteq t.num \/ ToSet(s.value_vars) \cap t.num = {}   \* one type of values
    /\ Distinct(s.id_vars \o <<s.var_name, s.value_name>>)

AllCells(t, s) == (DOMAIN s.value_vars) \X Rows(t)

\* melt rejects a value_name that is a column.
execute_unpivot(t, s) ==
    IF UnpivotDefined(t, s) /\ ~Has(t, <<s.value_name>>) THEN {Melted(t, s, AllCells(t, s))} ELSE {}

\* UNPIVOT leaves out the cells that are NULL.
build_unpivot_sql(t, s) ==
    IF ~UnpivotDefined(t, s) THEN {}
    ELSE {Melted(t, s, {p \in AllCells(t, s) : t.rows[p[2]][s.value_vars[p[1]]] # NULL})}

-----------------------------------------------------------------------------
(* wasm_compute: a row on which the function traps, or whose inputs are no *)
(* numbers, loses its result and its inputs; more than MaxErrors traps     *)
(* fail the step.                                                          *)

WasmResult == 1
MaxErrors(t) == IF Len(t.rows) \div 10 > 10 THEN Len(t.rows) \div 10 ELSE 10

execute_wasm_compute(t, s) ==
    LET cols   == IF Has(t, <<s.output_column>>) THEN t.cols ELSE Append(t.cols, s.output_column)
        unread == IF ToSet(s.input_columns) \subseteq t.num THEN {} ELSE Rows(t)
        Computed(i, c, trapped) ==
            IF c = s.output_column THEN IF i \in trapped THEN NULL ELSE WasmResult
            ELSE IF c \in ToSet(s.input_columns) /\ i \in trapped THEN NULL
            ELSE t.rows[i][c]
    IN  IF Has(t, s.input_columns) /\ s.output_column \notin ToSet(s.input_columns)
        THEN {Table(cols, t.num \cup {s.output_column},
                    [i \in Rows(t) |-> [c \in ToSet(cols) |-> Computed(i, c, trapped)]]) :
                  trapped \in {T \cup unread : T \in {T \in SUBSET (Rows(t) \ unread) : Cardinality(T) <= MaxErrors(t)}}}
        ELSE {}

\* These pass their input on; storage or the broker may make two of them raise.
execute_save(t, s)           == {t}
execute_validate(t, s)       == {t}
execute_stream_publish(t, s) == {t}
CallsOut(s) == s.type \in {"save", "stream_publish"}

-----------------------------------------------------------------------------
(* Dispatch.  right is the second input of a join.  rename and             *)
(* wasm_compute never run on DuckDB.                                       *)

Pandas(t, right, s) ==
    CASE s.type = "filter"       -> execute_filter(t, s)
      [] s.type = "select"       -> execute_select(t, s)
      [] s.type = "rename"       -> execute_rename(t, s)
      [] s.type = "join"         -> execute_join(t, right, s)
      [] s.type = "aggregate"    -> execute_aggregate(t, s)
      [] s.type = "sort"         -> execute_sort(t, s)
      [] s.type = "deduplicate"  -> execute_deduplicate(t, s)
      [] s.type = "sample"       -> execute_sample(t, s)
      [] s.type = "fill_nulls"   -> execute_fill_nulls(t, s)
      [] s.type = "pivot"        -> execute_pivot(t, s)
      [] s.type = "unpivot"      -> execute_unpivot(t, s)
      [] s.type = "wasm_compute" -> execute_wasm_compute(t, s)
      [] s.type = "save"         -> execute_save(t, s)
      [] s.type = "validate"     -> execute_validate(t, s)
      [] s.type = "stream_publish" -> execute_stream_publish(t, s)

build_sql_for_step(t, right, s) ==
    CASE s.type = "filter"       -> build_filter_sql(t, s)
      [] s.type = "select"       -> build_select_sql(t, s)
      [] s.type = "join"         -> build_join_sql(t, right, s)
      [] s.type = "aggregate"    -> build_aggregate_sql(t, s)
      [] s.type = "sort"         -> build_sort_sql(t, s)
      [] s.type = "deduplicate"  -> build_deduplicate_sql(t, s)
      [] s.type = "sample"       -> build_sample_sql(t, s)
      [] s.type = "fill_nulls"   -> build_fill_nulls_sql(t, s)
      [] s.type = "pivot"        -> build_pivot_sql(t, s)
      [] s.type = "unpivot"      -> build_unpivot_sql(t, s)

\* The steps for which sql_builder does what Pandas does.  It does not
\* - compare a number with a text as Pandas does (no rows, or all), nor look
\*   at a value before a LIKE or IS NULL, which Pandas coerces first;
\* - name or order the columns of an aggregate alike when there is an alias,
\*   a function named as its column, or a column named in two places, nor say
\*   which row of a group is the first or the last;
\* - join OUTER, nor suffix the columns that both sides have;
\* - keep none of equal whole rows, sample by fraction or by stratum, fill
\*   the gaps of a pivot, fill texts, take a list of no columns, or name a
\*   column twice.
SameMeaning(t, u, s) ==
    CASE s.type = "filter"      -> Alike(t, s) \/ (s.operator \in Comparisons <=> s.value = Text)
      [] s.type = "join"        -> s.how # "outer" /\ ToSet(t.cols) \cap ToSet(u.cols) \subseteq {s.on}
      [] s.type = "aggregate"   ->
            /\ ByColumn(s.aggregations) = s.aggregations
            /\ Distinct(s.group_by \o [i \in DOMAIN s.aggregations |-> OutputName(s.aggregations[i])])
            /\ \A a \in ToSet(s.aggregations) :
                   /\ SqlAlias(a) = OutputName(a)
                   /\ a.function \notin {"first", "last"}
                   /\ a.function = "median" => a.column \in t.num
      [] s.type = "deduplicate" -> s.subset # <<>> \/ s.keep \in {"first", "last"}
      [] s.type = "sample"      -> s.halves = NULL /\ s.stratify_by = NULL
      [] s.type = "pivot"       -> /\ s.fill_value = NULL /\ s.aggfunc \notin {"first", "last"}
                                   /\ Distinct(s.index) /\ s.columns \notin ToSet(s.index)
                                   /\ Has(t, <<s.columns>>) => \A i \in Rows(t) : CellName(t.rows[i][s.columns]) \notin ToSet(s.index)
                                   /\ Has(t, <<s.values>>) => s.values \in t.num
      [] s.type = "unpivot"     -> ~Has(t, <<s.value_name>>) /\ Distinct(s.id_vars \o s.value_vars \o <<s.var_name>>)
      [] s.type = "select"      -> s.columns # <<>> /\ Distinct(s.columns)
      [] s.type = "fill_nulls"  -> /\ s.columns # <<>> /\ Distinct(s.columns)
                                   /\ s.strategy = "constant" => s.constant_value # NULL
                                   /\ s.strategy \in {"constant", "median"} => ToSet(s.columns) \subseteq t.num
      [] OTHER                  -> TRUE
=============================================================================
