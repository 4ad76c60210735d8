-------------------------- MODULE ExecutionProofs ---------------------------
(***************************************************************************)
(* What holds of the execution of any pipeline, on tables of any size.     *)
(*                                                                         *)
(* Of Steps: the tables of a run stay well formed, and on tables without   *)
(* nulls Pandas and DuckDB, and the three rule engines, agree.             *)
(* The lineage graph covers what the columns are computed from.            *)
(*                                                                         *)
(* Of Runner: the registry holds exactly the tables that are still needed, *)
(* so that no step of a validated pipeline misses one.                     *)
(*                                                                         *)
(* Of Healing: the rows of the attempts account for what was done to the   *)
(* run.                                                                    *)
(***************************************************************************)
EXTENDS Steps, Runner, Healing, FiniteSetTheorems, FunctionTheorems, TLAPS

-----------------------------------------------------------------------------
(* Sets in order.                                                          *)

StrictOrder(S, R) ==
    /\ \A x \in S : <<x, x>> \notin R
    /\ \A x, y, z \in S : <<x, y>> \in R /\ <<y, z>> \in R => <<x, z>> \in R
    /\ \A x, y \in S : x # y => <<x, y>> \in R \/ <<y, x>> \in R

\* Ranked lists a set in strict order: each element once, the n-th has n - 1 before it.
LEMMA RankedIsBijection ==
    ASSUME NEW S, IsFiniteSet(S), NEW R, StrictOrder(S, R)
    PROVE  /\ Cardinality(S) \in Nat
           /\ Ranked(S, R) \in Bijection(1..Cardinality(S), S)
           /\ \A n \in 1..Cardinality(S) : Cardinality({y \in S : <<y, Ranked(S, R)[n]>> \in R}) = n - 1
  <1> DEFINE B(x) == {y \in S : <<y, x>> \in R}
             N == Cardinality(S)
             rank == [x \in S |-> Cardinality(B(x)) + 1]
  <1>1. N \in Nat BY FS_CardinalityType
  <1>2. \A x \in S : IsFiniteSet(B(x)) /\ Cardinality(B(x)) \in Nat
    <2> TAKE x \in S
    <2>1. B(x) \in SUBSET S OBVIOUS
    <2> QED BY <2>1, FS_Subset, FS_CardinalityType
  <1>3. \A x \in S : Cardinality(B(x)) < N
    <2> TAKE x \in S
    <2>1. B(x) \in SUBSET S /\ B(x) # S BY DEF StrictOrder
    <2>2. Cardinality(B(x)) <= N /\ Cardinality(B(x)) # N BY <2>1, FS_Subset
    <2> QED BY <1>1, <1>2, <2>2
  <1>4. \A x, y \in S : <<x, y>> \in R => Cardinality(B(x)) < Cardinality(B(y))
    <2> SUFFICES ASSUME NEW x \in S, NEW y \in S, <<x, y>> \in R
                 PROVE  Cardinality(B(x)) < Cardinality(B(y))
      OBVIOUS
    <2>1. B(x) \in SUBSET B(y) /\ B(x) # B(y) BY DEF StrictOrder
    <2>2. Cardinality(B(x)) <= Cardinality(B(y)) /\ Cardinality(B(x)) # Cardinality(B(y))
      BY <1>2, <2>1, FS_Subset
    <2> QED BY <1>2, <2>2
  <1>5. rank \in [S -> 1..N]
    <2> HIDE DEF B, N
    <2>1. \A x \in S : Cardinality(B(x)) + 1 \in 1..N BY <1>1, <1>2, <1>3
    <2> QED BY <2>1
  <1>6. rank \in Injection(S, 1..N)
    <2>1. ASSUME NEW x \in S, NEW y \in S, x # y PROVE rank[x] # rank[y]
      <3>1. <<x, y>> \in R \/ <<y, x>> \in R BY <2>1 DEF StrictOrder
      <3>2. Cardinality(B(x)) # Cardinality(B(y)) BY <1>2, <1>4, <3>1
      <3> HIDE DEF B
      <3> QED BY <1>2, <3>2
    <2> QED BY <1>5, <2>1 DEF Injection, IsInjective
  <1>7. IsFiniteSet(1..N) /\ Cardinality(1..N) = N
    <2>1. 1 \in Int /\ N \in Int BY <1>1
    <2>2. IsFiniteSet(1..N) /\ Cardinality(1..N) = IF 1 > N THEN 0 ELSE N - 1 + 1
      BY <2>1, FS_Interval
    <2> QED BY <1>1, <2>2
  <1>8. rank \in Surjection(S, 1..N) BY <1>6, <1>7, FS_Injection
  <1>9. \A n \in 1..N : \E x \in S : rank[x] = n BY <1>8 DEF Surjection
  <1> DEFINE f == Ranked(S, R)
  <1>10. ASSUME NEW n \in 1..N PROVE f[n] \in S /\ rank[f[n]] = n /\ Cardinality(B(f[n])) = n - 1
    <2>1. f[n] = CHOOSE x \in S : Cardinality(B(x)) = n - 1 BY DEF Ranked
    <2>2. PICK x \in S : rank[x] = n BY <1>9
    <2>3. Cardinality(B(x)) = n - 1 BY <1>2, <2>2
    <2>4. f[n] \in S /\ Cardinality(B(f[n])) = n - 1 BY <2>1, <2>3
    <2> QED BY <2>4
  <1>11. f \in [1..N -> S] BY <1>10 DEF Ranked
  <1>12. \A m, n \in 1..N : f[m] = f[n] => m = n BY <1>10
  <1>13. \A x \in S : \E n \in 1..N : f[n] = x
    <2> TAKE x \in S
    <2>1. rank[x] \in 1..N /\ rank[f[rank[x]]] = rank[x] /\ f[rank[x]] \in S BY <1>5, <1>10
    <2>2. f[rank[x]] = x BY <1>6, <2>1 DEF Injection, IsInjective
    <2> QED BY <2>1, <2>2
  <1>14. f \in Bijection(1..N, S)
    BY <1>11, <1>12, <1>13 DEF Bijection, Injection, Surjection, IsInjective
  <1> QED BY <1>1, <1>10, <1>14

\* The same for a finite set of integers.
LEMMA IndicesIsBijection ==
    ASSUME NEW S \in SUBSET Int, IsFiniteSet(S)
    PROVE  /\ Cardinality(S) \in Nat
           /\ Indices(S) \in Bijection(1..Cardinality(S), S)
           /\ \A n \in 1..Cardinality(S) : Cardinality({y \in S : y < Indices(S)[n]}) = n - 1
  <1> DEFINE R == {p \in S \X S : p[1] < p[2]}
  <1>1. \A x, y \in S : <<x, y>> \in R <=> x < y OBVIOUS
  <1> HIDE DEF R
  <1>2. StrictOrder(S, R) BY <1>1 DEF StrictOrder
  <1>3. /\ Cardinality(S) \in Nat
        /\ Ranked(S, R) \in Bijection(1..Cardinality(S), S)
        /\ \A n \in 1..Cardinality(S) : Cardinality({y \in S : <<y, Ranked(S, R)[n]>> \in R}) = n - 1
    BY <1>2, RankedIsBijection
  <1>4. Indices(S) = Ranked(S, R) BY DEF Indices, R
  <1>5. ASSUME NEW n \in 1..Cardinality(S)
        PROVE  {y \in S : y < Indices(S)[n]} = {y \in S : <<y, Ranked(S, R)[n]>> \in R}
    <2>1. Ranked(S, R)[n] \in S BY <1>3 DEF Bijection, Injection
    <2> QED BY <1>1, <1>4, <2>1
  <1> QED BY <1>3, <1>4, <1>5

\* What the proofs below use of it.
LEMMA IndicesShape ==
    ASSUME NEW S \in SUBSET Int, IsFiniteSet(S)
    PROVE  /\ Cardinality(S) \in Nat
           /\ Indices(S) \in [1..Cardinality(S) -> S]
           /\ DOMAIN Indices(S) = 1..Cardinality(S)
           /\ \A m, n \in 1..Cardinality(S) : Indices(S)[m] = Indices(S)[n] => m = n
           /\ \A x \in S : \E n \in 1..Cardinality(S) : Indices(S)[n] = x
  BY IndicesIsBijection DEF Bijection, Injection, Surjection, IsInjective

-----------------------------------------------------------------------------

\* Rows that are numbered and have one cell per column make a table.
LEMMA TableShape ==
    ASSUME NEW t, NEW n \in Nat, t.rows = [i \in 1..n |-> t.rows[i]],
           \A i \in 1..n : t.rows[i] = [c \in ToSet(t.cols) |-> t.rows[i][c]]
    PROVE  IsTable(t)
  <1>1. t.rows \in [1..n -> {t.rows[i] : i \in 1..n}] OBVIOUS
  <1>2. Len(t.rows) = n BY <1>1
  <1>3. t.rows = [i \in 1..n |-> [c \in ToSet(t.cols) |-> t.rows[i][c]]] OBVIOUS
  <1> QED BY <1>2, <1>3 DEF IsTable

\* What is known of the rows of a table.
LEMMA RowsOfTable ==
    ASSUME NEW t, IsTable(t)
    PROVE  /\ Len(t.rows) \in Nat
           /\ Rows(t) = 1..Len(t.rows)
           /\ IsFiniteSet(Rows(t))
           /\ Rows(t) \subseteq Int
           /\ Cardinality(Rows(t)) = Len(t.rows)
           /\ t.rows = [i \in Rows(t) |-> t.rows[i]]
           /\ \A i \in Rows(t) : t.rows[i] = [c \in ToSet(t.cols) |-> t.rows[i][c]]
  <1> DEFINE n == Len(t.rows)
  <1>1. n \in Nat /\ Rows(t) = 1..n BY DEF IsTable, Rows
  <1>2. IsFiniteSet(1..n) /\ Cardinality(1..n) = IF 1 > n THEN 0 ELSE n - 1 + 1
    <2>1. 1 \in Int /\ n \in Int BY <1>1
    <2> QED BY <2>1, FS_Interval
  <1>3. Cardinality(1..n) = n BY <1>1, <1>2
  <1>4. t.rows = [i \in 1..n |-> [c \in ToSet(t.cols) |-> t.rows[i][c]]] BY DEF IsTable
  <1>5. \A i \in 1..n : t.rows[i] = [c \in ToSet(t.cols) |-> t.rows[i][c]] BY <1>4
  <1>6. t.rows = [i \in 1..n |-> t.rows[i]] BY <1>4
  <1> QED BY <1>1, <1>2, <1>3, <1>5, <1>6

\* The fields of a table.
LEMMA TableFields ==
    ASSUME NEW cols, NEW num, NEW rows
    PROVE  /\ Table(cols, num, rows).cols = cols
           /\ Table(cols, num, rows).num = num
           /\ Table(cols, num, rows).rows = rows
  BY DEF Table

\* Any choice of rows of a table, in any order, makes a table.
LEMMA PickIsTable ==
    ASSUME NEW t, IsTable(t), NEW n \in Nat, NEW p \in [1..n -> Rows(t)]
    PROVE  IsTable(Pick(t, p))
  <1> DEFINE u == Pick(t, p)
  <1>1. u.cols = t.cols /\ u.rows = [i \in 1..n |-> t.rows[p[i]]]
    BY TableFields DEF Pick, WithRows, Take
  <1>2. \A i \in 1..n : t.rows[p[i]] = [c \in ToSet(t.cols) |-> t.rows[p[i]][c]]
    BY RowsOfTable
  <1> HIDE DEF u
  <1>3. u.rows = [i \in 1..n |-> u.rows[i]] BY <1>1
  <1>4. \A i \in 1..n : u.rows[i] = [c \in ToSet(u.cols) |-> u.rows[i][c]] BY <1>1, <1>2
  <1>5. IsTable(u) BY <1>3, <1>4, TableShape
  <1> QED BY <1>5 DEF u

\* A set of row numbers is a finite set of integers.
LEMMA RowSubset ==
    ASSUME NEW t, IsTable(t), NEW S \in SUBSET Rows(t)
    PROVE  IsFiniteSet(S) /\ S \in SUBSET Int /\ Cardinality(S) \in Nat
  BY RowsOfTable, FS_Subset, FS_CardinalityType

\* Some rows of a table, in their order, make a table.
LEMMA PickIndicesIsTable ==
    ASSUME NEW t, IsTable(t), NEW S \in SUBSET Rows(t)
    PROVE  IsTable(Pick(t, Indices(S)))
  <1>1. IsFiniteSet(S) /\ S \in SUBSET Int /\ Cardinality(S) \in Nat BY RowSubset
  <1>2. Indices(S) \in [1..Cardinality(S) -> S] BY <1>1, IndicesShape
  <1>3. Indices(S) \in [1..Cardinality(S) -> Rows(t)] BY <1>2
  <1> QED BY <1>1, <1>3, PickIsTable

\* Some rows of a table, in another order, make a table.
LEMMA PickOrderIsTable ==
    ASSUME NEW t, IsTable(t), NEW S \in SUBSET Rows(t), NEW p \in Orders(S)
    PROVE  IsTable(Pick(t, p))
  <1>1. Cardinality(S) \in Nat BY RowSubset
  <1>2. p \in [1..Cardinality(S) -> Rows(t)] BY DEF Orders
  <1> QED BY <1>1, <1>2, PickIsTable

-----------------------------------------------------------------------------
(* Every step makes tables of tables.                                      *)

\* filter keeps some rows of its input.
LEMMA FilterMakesTables ==
    ASSUME NEW t, IsTable(t), NEW s, NEW out \in execute_filter(t, s) \cup build_filter_sql(t, s)
    PROVE  IsTable(out)
  <1>1. PICK S \in SUBSET Rows(t) : out = Pick(t, Indices(S))
    <2>1. CASE out \in execute_filter(t, s) BY <2>1 DEF execute_filter, Filtered
    <2>2. CASE out \in build_filter_sql(t, s) BY <2>2 DEF build_filter_sql, Filtered
    <2> QED BY <2>1, <2>2
  <1> QED BY <1>1, PickIndicesIsTable

\* A table whose rows are computed one by one from those of another.
LEMMA RowwiseIsTable ==
    ASSUME NEW t, IsTable(t), NEW u, u.rows = [i \in Rows(t) |-> u.rows[i]],
           \A i \in Rows(t) : u.rows[i] = [c \in ToSet(u.cols) |-> u.rows[i][c]]
    PROVE  IsTable(u)
  BY RowsOfTable, TableShape

\* select keeps some columns of every row.
LEMMA SelectMakesTables ==
    ASSUME NEW t, IsTable(t), NEW s, NEW out \in execute_select(t, s) \cup build_select_sql(t, s)
    PROVE  IsTable(out)
  <1>1. out = t \/ out = Projected(t, s.columns) BY DEF execute_select, build_select_sql
  <1> DEFINE p == Projected(t, s.columns)
  <1>2. /\ p.cols = s.columns
        /\ p.rows = [i \in Rows(t) |-> [c \in ToSet(s.columns) |-> t.rows[i][c]]]
    BY TableFields DEF Projected
  <1> HIDE DEF p
  <1>3. \A i \in Rows(t) : p.rows[i] = [c \in ToSet(p.cols) |-> p.rows[i][c]] BY <1>2
  <1>4. p.rows = [i \in Rows(t) |-> p.rows[i]] BY <1>2
  <1>5. IsTable(p) BY <1>3, <1>4, RowwiseIsTable
  <1> QED BY <1>1, <1>5 DEF p

\* rename keeps the rows under other columns.
LEMMA RenameMakesTables ==
    ASSUME NEW t, IsTable(t), NEW s, NEW out \in execute_rename(t, s)
    PROVE  IsTable(out)
  <1> DEFINE m == s.mapping
             cols == [i \in DOMAIN t.cols |-> Renamed(m, t.cols[i])]
             Old(n) == CHOOSE c \in ToSet(t.cols) : Renamed(m, c) = n
  <1>1. out = Table(cols, {Renamed(m, c) : c \in t.num},
                    [i \in Rows(t) |-> [n \in ToSet(cols) |-> t.rows[i][Old(n)]]])
    BY DEF execute_rename
  <1> HIDE DEF cols, Old
  <1>2. out.cols = cols /\ out.rows = [i \in Rows(t) |-> [n \in ToSet(cols) |-> t.rows[i][Old(n)]]]
    BY <1>1, TableFields
  <1>3. \A i \in Rows(t) : out.rows[i] = [c \in ToSet(out.cols) |-> out.rows[i][c]] BY <1>2
  <1>4. out.rows = [i \in Rows(t) |-> out.rows[i]] BY <1>2
  <1> QED BY <1>3, <1>4, RowwiseIsTable

\* A join has one row per pair of rows, in the order of the pairs.
LEMMA JoinedMakesTables ==
    ASSUME NEW t, IsTable(t), NEW u, IsTable(u), NEW s, NEW both \in SUBSET (Rows(t) \X Rows(u)),
           NEW left, NEW right, NEW out \in Joined(t, u, s, both, left, right)
    PROVE  IsTable(out)
  <1> DEFINE k      == s.on
             lcols  == [i \in DOMAIN t.cols |-> left[t.cols[i]]]
             others == Take(u.cols, Indices({i \in DOMAIN u.cols : u.cols[i] # k}))
             rcols  == [i \in DOMAIN others |-> right[others[i]]]
             pairs  == both
                  \cup (IF s.how \in {"left", "outer"}
                        THEN {<<i, 0>> : i \in Rows(t) \ {p[1] : p \in both}} ELSE {})
                  \cup (IF s.how \in {"right", "outer"}
                        THEN {<<0, j>> : j \in Rows(u) \ {p[2] : p \in both}} ELSE {})
             order  == Ranked(pairs, {x \in pairs \X pairs :
                      x[1][1] > x[2][1] \/ (x[1][1] = x[2][1] /\ x[1][2] < x[2][2])})
             Cell(p, n) ==
                IF n = k /\ p[1] = 0 THEN u.rows[p[2]][k]
                ELSE IF \E i \in DOMAIN lcols : lcols[i] = n
                THEN IF p[1] = 0 THEN NULL
                     ELSE t.rows[p[1]][CHOOSE c \in ToSet(t.cols) : left[c] = n]
                ELSE IF p[2] = 0 THEN NULL
                     ELSE u.rows[p[2]][CHOOSE c \in ToSet(others) : right[c] = n]
             cols == lcols \o rcols
  <1>1. out = Table(cols, {left[c] : c \in t.num} \cup {right[c] : c \in u.num \ {k}},
                    [i \in DOMAIN order |-> [n \in ToSet(cols) |-> Cell(order[i], n)]])
    BY DEF Joined
  <1>2. IsFiniteSet(pairs)
    <2> DEFINE m == Len(t.rows)  n == Len(u.rows)
    <2>1. m \in Nat /\ n \in Nat /\ Rows(t) = 1..m /\ Rows(u) = 1..n BY RowsOfTable
    <2> HIDE DEF m, n
    <2>2. IsFiniteSet(0..m) /\ IsFiniteSet(0..n)
      <3>1. 0 \in Int /\ m \in Int /\ n \in Int BY <2>1
      <3> QED BY <3>1, FS_Interval
    <2>3. IsFiniteSet((0..m) \X (0..n)) BY <2>2, FS_Product
    <2>4. pairs \in SUBSET ((0..m) \X (0..n))
      <3>1. both \subseteq (0..m) \X (0..n) BY <2>1
      <3>2. {<<i, 0>> : i \in Rows(t) \ {p[1] : p \in both}} \subseteq (0..m) \X (0..n) BY <2>1
      <3>3. {<<0, j>> : j \in Rows(u) \ {p[2] : p \in both}} \subseteq (0..m) \X (0..n) BY <2>1
      <3> QED BY <3>1, <3>2, <3>3
    <2> QED BY <2>3, <2>4, FS_Subset
  <1> DEFINE N == Cardinality(pairs)
  <1>3. N \in Nat BY <1>2, FS_CardinalityType
  <1>4. DOMAIN order = 1..N BY DEF Ranked
  <1> DEFINE num  == {left[c] : c \in t.num} \cup {right[c] : c \in u.num \ {k}}
             rows == [i \in DOMAIN order |-> [n \in ToSet(cols) |-> Cell(order[i], n)]]
  <1>a. out = Table(cols, num, rows) BY <1>1
  <1>b. rows = [i \in 1..N |-> rows[i]]
    <2> HIDE DEF order, Cell, N, cols
    <2> QED BY <1>4
  <1>c. \A i \in 1..N : rows[i] = [n \in ToSet(cols) |-> rows[i][n]]
    <2> HIDE DEF order, Cell, N, cols
    <2> QED BY <1>4
  <1> HIDE DEF order, Cell, N, cols, num, rows
  <1>5. out.cols = cols /\ out.rows = rows
    BY <1>a, TableFields
  <1>6. \A i \in 1..N : out.rows[i] = [c \in ToSet(out.cols) |-> out.rows[i][c]] BY <1>5, <1>c
  <1>7. out.rows = [i \in 1..N |-> out.rows[i]] BY <1>5, <1>b
  <1> QED BY <1>3, <1>6, <1>7, TableShape

\* Both joins are of that form.
LEMMA JoinMakesTables ==
    ASSUME NEW t, IsTable(t), NEW u, IsTable(u), NEW s,
           NEW out \in execute_join(t, u, s) \cup build_join_sql(t, u, s)
    PROVE  IsTable(out)
  <1>1. Matching(t, u, s.on, PandasMatch) \in SUBSET (Rows(t) \X Rows(u)) BY DEF Matching
  <1>2. Matching(t, u, s.on, SqlMatch) \in SUBSET (Rows(t) \X Rows(u)) BY DEF Matching
  <1>3. CASE out \in execute_join(t, u, s) BY <1>1, <1>3, JoinedMakesTables DEF execute_join
  <1>4. CASE out \in build_join_sql(t, u, s) BY <1>2, <1>4, JoinedMakesTables DEF build_join_sql
  <1> QED BY <1>3, <1>4

\* Rows given by a function make a table.
LEMMA RowsMakeTable ==
    ASSUME NEW cols, NEW num, NEW rows, NEW n \in Nat, rows = [i \in 1..n |-> rows[i]],
           \A i \in 1..n : rows[i] = [c \in ToSet(cols) |-> rows[i][c]]
    PROVE  IsTable(Table(cols, num, rows))
  <1> DEFINE u == Table(cols, num, rows)
  <1>1. u.cols = cols /\ u.rows = rows BY TableFields
  <1> HIDE DEF u
  <1>2. IsTable(u) BY <1>1, TableShape
  <1> QED BY <1>2 DEF u

\* A table whose rows are computed one by one from those of another.
LEMMA RowwiseMakesTable ==
    ASSUME NEW t, IsTable(t), NEW cols, NEW num, NEW rows, rows = [i \in Rows(t) |-> rows[i]],
           \A i \in Rows(t) : rows[i] = [c \in ToSet(cols) |-> rows[i][c]]
    PROVE  IsTable(Table(cols, num, rows))
  <1>1. PICK n \in Nat : Rows(t) = 1..n BY RowsOfTable
  <1> QED BY <1>1, RowsMakeTable

\* An aggregation has one row per group.
LEMMA GroupedMakesTables ==
    ASSUME NEW t, IsTable(t), NEW gs, NEW aggs, NEW names, NEW groups \in SUBSET Rows(t), NEW numeric, NEW sql,
           NEW out \in Grouped(t, gs, aggs, names, groups, numeric, sql)
    PROVE  IsTable(out)
  <1> DEFINE cols  == gs \o names
             key(i) == [c \in ToSet(gs) |-> t.rows[i][c]]
             Members(i) == Indices({j \in Rows(t) : key(j) = key(i)})
             firsts == {i \in groups : \A j \in 1..(i - 1) : key(j) # key(i)}
             order  == GroupOrder(t, gs[1], firsts)
             Cell(i, n) ==
                IF n \in ToSet(gs) THEN t.rows[i][n]
                ELSE LET a == aggs[CHOOSE k \in DOMAIN names : names[k] = n]
                     IN  GroupStatistic(a.function, Column(Pick(t, Members(i)), a.column), sql)
             numbers == {k \in DOMAIN names : aggs[k].function = "count" \/ aggs[k].column \in t.num}
             num  == (t.num \cap ToSet(gs)) \cup {names[k] : k \in numbers}
             rows == [x \in DOMAIN order |-> [n \in ToSet(cols) |-> Cell(order[x], n)]]
             N == Cardinality(firsts)
  <1>1. out = Table(cols, num, rows) BY DEF Grouped
  <1>2. N \in Nat
    <2>1. firsts \in SUBSET Rows(t) OBVIOUS
    <2> QED BY <2>1, RowSubset
  <1>3. DOMAIN order = 1..N BY DEF GroupOrder, Ranked
  <1> HIDE DEF order, Cell, N, cols, num
  <1>4. rows = [i \in 1..N |-> rows[i]] BY <1>3
  <1>5. \A i \in 1..N : rows[i] = [n \in ToSet(cols) |-> rows[i][n]] BY <1>3
  <1> HIDE DEF rows
  <1> QED BY <1>1, <1>2, <1>4, <1>5, RowsMakeTable

\* Both aggregations are of that form.
LEMMA AggregateMakesTables ==
    ASSUME NEW t, IsTable(t), NEW s,
           NEW out \in execute_aggregate(t, s) \cup build_aggregate_sql(t, s)
    PROVE  IsTable(out)
  <1> DEFINE G == IF Has(t, s.group_by) THEN Keyed(t, s.group_by) ELSE {}
             gs == s.group_by
  <1>1. G \in SUBSET Rows(t) BY DEF Keyed
  <1>2. Rows(t) \in SUBSET Rows(t) OBVIOUS
  <1>3. \E aggs, names, numeric, sql : \/ out \in Grouped(t, gs, aggs, names, G, numeric, sql)
                                       \/ out \in Grouped(t, gs, aggs, names, Rows(t), numeric, sql)
    BY DEF execute_aggregate, build_aggregate_sql
  <1> HIDE DEF G
  <1> QED BY <1>1, <1>2, <1>3, GroupedMakesTables

\* sort permutes the rows.
LEMMA SortMakesTables ==
    ASSUME NEW t, IsTable(t), NEW s, NEW out \in execute_sort(t, s) \cup build_sort_sql(t, s)
    PROVE  IsTable(out)
  <1>1. PICK p \in Orders(Rows(t)) : out = Pick(t, p) BY DEF execute_sort, build_sort_sql
  <1>2. Rows(t) \in SUBSET Rows(t) OBVIOUS
  <1> QED BY <1>1, <1>2, PickOrderIsTable

\* deduplicate keeps some rows.
LEMMA DeduplicateMakesTables ==
    ASSUME NEW t, IsTable(t), NEW s,
           NEW out \in execute_deduplicate(t, s) \cup build_deduplicate_sql(t, s)
    PROVE  IsTable(out)
  <1>1. ASSUME NEW subset, NEW keep PROVE IsTable(Deduplicated(t, subset, keep))
    <2>1. PICK S \in SUBSET Rows(t) : Deduplicated(t, subset, keep) = Pick(t, Indices(S))
      BY DEF Deduplicated
    <2> QED BY <2>1, PickIndicesIsTable
  <1>2. \E subset, keep : out = Deduplicated(t, subset, keep)
    BY DEF execute_deduplicate, build_deduplicate_sql
  <1> QED BY <1>1, <1>2

\* A sample of n rows is a table.
LEMMA SamplesAreTables ==
    ASSUME NEW t, IsTable(t), NEW n, NEW out \in Samples(t, n)
    PROVE  IsTable(out)
  <1>1. PICK S \in kSubset(n, Rows(t)) : out \in {Pick(t, p) : p \in Orders(S)} BY DEF Samples
  <1>2. S \in SUBSET Rows(t) BY DEF kSubset
  <1> QED BY <1>1, <1>2, PickOrderIsTable

\* So is a sample by stratum.
LEMMA StratifiedSamplesAreTables ==
    ASSUME NEW t, IsTable(t), NEW by, NEW target, NEW out \in StratifiedSamples(t, by, target)
    PROVE  IsTable(out)
  <1> DEFINE Group(i) == {j \in Rows(t) : t.rows[j][by] = t.rows[i][by]}
             groups   == {Group(i) : i \in Keyed(t, <<by>>)}
  <1>1. PICK S \in SUBSET UNION groups : out \in {Pick(t, p) : p \in Orders(S)}
    BY DEF StratifiedSamples
  <1>2. UNION groups \subseteq Rows(t) OBVIOUS
  <1>3. S \in SUBSET Rows(t) BY <1>2
  <1> QED BY <1>1, <1>3, PickOrderIsTable

\* Every form of sample makes a table.
LEMMA SampleMakesTables ==
    ASSUME NEW t, IsTable(t), NEW s, NEW out \in execute_sample(t, s) \cup build_sample_sql(t, s)
    PROVE  IsTable(out)
  <1>1. \/ out = t
        \/ \E n : out \in Samples(t, n)
        \/ \E by, target : out \in StratifiedSamples(t, by, target)
        \/ out = WithRows(t, <<>>)
        \/ \E S \in SUBSET Rows(t) : out = Pick(t, Indices(S))
    <2>1. CASE out \in execute_sample(t, s) BY <2>1 DEF execute_sample
    <2>2. CASE out \in build_sample_sql(t, s) BY <2>2 DEF build_sample_sql
    <2> QED BY <2>1, <2>2
  <1>2. IsTable(WithRows(t, <<>>))
    <2>1. <<>> = [i \in 1..0 |-> <<>>[i]] /\ 0 \in Nat OBVIOUS
    <2>2. \A i \in 1..0 : <<>>[i] = [c \in ToSet(t.cols) |-> <<>>[i][c]] OBVIOUS
    <2>3. IsTable(Table(t.cols, t.num, <<>>)) BY <2>1, <2>2, RowsMakeTable
    <2> QED BY <2>3 DEF WithRows
  <1> QED BY <1>1, <1>2, SamplesAreTables, StratifiedSamplesAreTables, PickIndicesIsTable

\* fill_nulls changes cells.
LEMMA FillMakesTables ==
    ASSUME NEW t, IsTable(t), NEW s, NEW out \in execute_fill_nulls(t, s) \cup build_fill_nulls_sql(t, s)
    PROVE  IsTable(out)
  <1> DEFINE rows == [i \in Rows(t) |-> [c \in ToSet(t.cols) |->
                 IF c \in ToSet(s.columns) THEN PandasFill(Column(t, c), s)[i] ELSE t.rows[i][c]]]
  <1>1. PICK num : out = Table(t.cols, num, rows)
    BY DEF execute_fill_nulls, build_fill_nulls_sql, FilledColumns
  <1>2. \A i \in Rows(t) : rows[i] = [c \in ToSet(t.cols) |-> rows[i][c]] OBVIOUS
  <1>3. rows = [i \in Rows(t) |-> rows[i]] OBVIOUS
  <1> HIDE DEF rows
  <1> QED BY <1>1, <1>2, <1>3, RowwiseMakesTable

\* A pivot has one row per value of the index.
LEMMA PivotedMakesTables ==
    ASSUME NEW t, IsTable(t), NEW s, NEW R \in SUBSET Rows(t), NEW fill, NEW names,
           NEW out \in Pivoted(t, s, R, fill, names)
    PROVE  IsTable(out)
  <1> DEFINE cells(i, v) == Known(Column(Pick(t, Indices({j \in R :
                 SameRow(t.rows[i], t.rows[j], s.index) /\ t.rows[j][s.columns] = v})), s.values))
             S == {i \in R : \A j \in R : j < i => ~SameRow(t.rows[i], t.rows[j], s.index)}
             firsts == Indices(S)
             cols   == s.index \o [k \in DOMAIN names |-> CellName(names[k])]
             Value(i, v) == IF cells(i, v) = <<>> THEN fill ELSE Statistic(s.aggfunc, cells(i, v), NULL)
             num  == (t.num \cap ToSet(s.index))
                     \cup IF s.aggfunc = "count" \/ s.values \in t.num THEN ToSet(cols) \ ToSet(s.index) ELSE {}
             rows == [x \in DOMAIN firsts |-> [n \in ToSet(cols) |->
                        IF n \in ToSet(s.index) THEN t.rows[firsts[x]][n]
                        ELSE Value(firsts[x], CHOOSE v \in ToSet(names) : CellName(v) = n)]]
             N == Cardinality(S)
  <1>1. out = Table(cols, num, rows) BY DEF Pivoted
  <1>2. N \in Nat
    <2>1. S \in SUBSET Rows(t) OBVIOUS
    <2> QED BY <2>1, RowSubset
  <1>3. DOMAIN firsts = 1..N BY DEF Indices, Ranked
  <1> HIDE DEF firsts, Value, N, cols, num
  <1>4. rows = [i \in 1..N |-> rows[i]] BY <1>3
  <1>5. \A i \in 1..N : rows[i] = [n \in ToSet(cols) |-> rows[i][n]] BY <1>3
  <1> HIDE DEF rows
  <1> QED BY <1>1, <1>2, <1>4, <1>5, RowsMakeTable

\* Both pivots are of that form.
LEMMA PivotMakesTables ==
    ASSUME NEW t, IsTable(t), NEW s, NEW out \in execute_pivot(t, s) \cup build_pivot_sql(t, s)
    PROVE  IsTable(out)
  <1> DEFINE K == Keyed(t, s.index) \cap Keyed(t, <<s.columns, s.values>>)
  <1>1. K \in SUBSET Rows(t) BY DEF Keyed
  <1>2. \/ \E names : out \in Pivoted(t, s, K, s.fill_value, names)
        \/ \E names : out \in Pivoted(t, s, Rows(t), NULL, names)
    BY DEF execute_pivot, build_pivot_sql
  <1> HIDE DEF K
  <1>3. Rows(t) \in SUBSET Rows(t) OBVIOUS
  <1> QED BY <1>1, <1>2, <1>3, PivotedMakesTables

\* unpivot has one row per cell, in the order of the columns.
LEMMA UnpivotMakesTables ==
    ASSUME NEW t, IsTable(t), NEW s, IsFiniteSet(DOMAIN s.value_vars),
           NEW out \in execute_unpivot(t, s) \cup build_unpivot_sql(t, s)
    PROVE  IsTable(out)
  <1>1. PICK cells \in SUBSET AllCells(t, s) : out = Melted(t, s, cells)
    <2>1. AllCells(t, s) \in SUBSET AllCells(t, s) OBVIOUS
    <2>2. {p \in AllCells(t, s) : t.rows[p[2]][s.value_vars[p[1]]] # NULL} \in SUBSET AllCells(t, s) OBVIOUS
    <2>3. CASE out \in execute_unpivot(t, s) BY <2>1, <2>3 DEF execute_unpivot
    <2>4. CASE out \in build_unpivot_sql(t, s) BY <2>2, <2>4 DEF build_unpivot_sql
    <2> QED BY <2>3, <2>4
  <1>2. IsFiniteSet(cells)
    <2>1. IsFiniteSet(AllCells(t, s)) BY RowsOfTable, FS_Product DEF AllCells
    <2> QED BY <2>1, FS_Subset
  <1> DEFINE cols  == s.id_vars \o <<s.var_name, s.value_name>>
             order == Ranked(cells, {x \in cells \X cells :
                     x[1][1] < x[2][1] \/ (x[1][1] = x[2][1] /\ x[1][2] < x[2][2])})
             num == (t.num \cap ToSet(s.id_vars)) \cup
                    IF ToSet(s.value_vars) \subseteq t.num THEN {s.value_name} ELSE {}
             rows == [x \in DOMAIN order |-> [n \in ToSet(cols) |->
                  LET c == s.value_vars[order[x][1]]  r == t.rows[order[x][2]]
                  IN  CASE n = s.var_name   -> c
                        [] n = s.value_name -> r[c]
                        [] OTHER            -> r[n]]]
             N == Cardinality(cells)
  <1>3. out = Table(cols, num, rows) BY <1>1 DEF Melted
  <1>4. N \in Nat BY <1>2, FS_CardinalityType
  <1>5. DOMAIN order = 1..N BY DEF Ranked
  <1> HIDE DEF order, N, cols, num
  <1>6. rows = [i \in 1..N |-> rows[i]] BY <1>5
  <1>7. \A i \in 1..N : rows[i] = [n \in ToSet(cols) |-> rows[i][n]] BY <1>5
  <1> HIDE DEF rows
  <1> QED BY <1>3, <1>4, <1>6, <1>7, RowsMakeTable

\* wasm_compute adds or changes cells.
LEMMA WasmMakesTables ==
    ASSUME NEW t, IsTable(t), NEW s, NEW out \in execute_wasm_compute(t, s)
    PROVE  IsTable(out)
  <1> DEFINE cols == IF Has(t, <<s.output_column>>) THEN t.cols ELSE Append(t.cols, s.output_column)
             num  == t.num \cup {s.output_column}
             Computed(i, c, trapped) ==
                IF c = s.output_column THEN IF i \in trapped THEN NULL ELSE WasmResult
                ELSE IF c \in ToSet(s.input_columns) /\ i \in trapped THEN NULL
                ELSE t.rows[i][c]
  <1>1. PICK trapped : out = Table(cols, num, [i \in Rows(t) |-> [c \in ToSet(cols) |-> Computed(i, c, trapped)]])
    BY DEF execute_wasm_compute
  <1> DEFINE rows == [i \in Rows(t) |-> [c \in ToSet(cols) |-> Computed(i, c, trapped)]]
  <1>2. out = Table(cols, num, rows) BY <1>1
  <1> HIDE DEF cols, num, Computed
  <1>3. \A i \in Rows(t) : rows[i] = [c \in ToSet(cols) |-> rows[i][c]] OBVIOUS
  <1>4. rows = [i \in Rows(t) |-> rows[i]] OBVIOUS
  <1> HIDE DEF rows
  <1> QED BY <1>2, <1>3, <1>4, RowwiseMakesTable

-----------------------------------------------------------------------------
(* The engines.                                                            *)

\* Without nulls every cell of a column is known.
LEMMA CellsAreKnown ==
    ASSUME NEW t, NoNulls(t), NEW cs, Has(t, cs), NEW c \in ToSet(cs), NEW i \in Rows(t)
    PROVE  t.rows[i][c] # NULL
  BY DEF NoNulls, Has

\* To have one column.
LEMMA HasOne == ASSUME NEW t, NEW c PROVE Has(t, <<c>>) <=> c \in ToSet(t.cols)
  BY DEF Has, ToSet

\* Pandas and SQL decide alike on every value that is not null, where a number
\* meets no text, or both raise, or neither looks.
LEMMA FiltersAgree ==
    ASSUME NEW t, NoNulls(t), NEW s, Alike(t, s) \/ (s.operator \in Comparisons <=> s.value = Text)
    PROVE  execute_filter(t, s) = build_filter_sql(t, s)
  <1> DEFINE A == Alike(t, s)
             O == s.operator \in Orderings
             C == s.operator \in Comparisons
             E == s.value = Text
             H == Has(t, <<s.column>>)
             V == CoerceFilterValue(t, s)
             W == \A i \in Rows(t) : t.rows[i][s.column] = NULL
             P == {i \in Rows(t) : PandasKeeps(A, s.operator, t.rows[i][s.column], s.value)}
             Q == {i \in Rows(t) : SqlKeeps(A, s.operator, t.rows[i][s.column], s.value)}
  <1>1. execute_filter(t, s) = IF H /\ V /\ (~A /\ O => W) THEN {Pick(t, Indices(P))} ELSE {}
    BY DEF execute_filter, Filtered
  <1>2. build_filter_sql(t, s) = IF H /\ (C => A) THEN {Pick(t, Indices(Q))} ELSE {}
    BY DEF build_filter_sql, Filtered
  <1>3. ASSUME NEW x, x # NULL, NEW op, NEW v, NEW alike
        PROVE PandasKeeps(alike, op, x, v) <=> SqlKeeps(alike, op, x, v)
    BY <1>3 DEF PandasKeeps, SqlKeeps
  <1>4. H => P = Q
    <2> SUFFICES ASSUME H PROVE P = Q OBVIOUS
    <2>1. \A i \in Rows(t) : t.rows[i][s.column] # NULL BY HasOne DEF NoNulls
    <2> HIDE DEF A
    <2> QED BY <1>3, <2>1
  <1>5. V <=> (A \/ ~E) BY DEF CoerceFilterValue, Alike
  <1>6. O => C BY DEF Comparisons
  <1> HIDE DEF P, Q, A, O, C, E, H, V, W
  <1>7. A \/ (C <=> E) BY DEF A, C, E
  <1>8. CASE A BY <1>1, <1>2, <1>4, <1>5, <1>8
  <1>9. CASE ~A /\ C /\ E BY <1>1, <1>2, <1>5, <1>9
  <1>10. CASE ~A /\ ~C /\ ~E BY <1>1, <1>2, <1>4, <1>5, <1>6, <1>10
  <1> QED BY <1>7, <1>8, <1>9, <1>10

\* The two joins differ in null keys and in suffixes only.
LEMMA JoinsAgree ==
    ASSUME NEW t, NoNulls(t), NEW u, NEW s, s.how # "outer", ToSet(t.cols) \cap ToSet(u.cols) \subseteq {s.on}
    PROVE  execute_join(t, u, s) = build_join_sql(t, u, s)
  <1> DEFINE P == Matching(t, u, s.on, PandasMatch)
             Q == Matching(t, u, s.on, SqlMatch)
             PL == Suffixed(t, u, s.on, "left", PandasSuffix)
             PR == Suffixed(t, u, s.on, "right", PandasSuffix)
             QL == Suffixed(t, u, s.on, "left", SqlSuffix)
             QR == Suffixed(t, u, s.on, "right", SqlSuffix)
  <1>1. Shared(t, u, s.on) = {} BY DEF Shared
  <1>2. PL = QL /\ PR = QR BY <1>1 DEF Suffixed
  <1>3. Has(t, <<s.on>>) => P = Q
    <2> SUFFICES ASSUME Has(t, <<s.on>>) PROVE P = Q OBVIOUS
    <2>1. \A i \in Rows(t) : t.rows[i][s.on] # NULL BY HasOne DEF NoNulls
    <2> QED BY <2>1 DEF Matching, PandasMatch, SqlMatch
  <1>4. execute_join(t, u, s) = Joined(t, u, s, P, PL, PR) BY DEF execute_join
  <1>5. build_join_sql(t, u, s) = Joined(t, u, s, Q, QL, QR) BY DEF build_join_sql
  <1> HIDE DEF P, Q, PL, PR, QL, QR
  <1>6. ~Has(t, <<s.on>>) => Joined(t, u, s, P, PL, PR) = {} /\ Joined(t, u, s, Q, QL, QR) = {}
    BY DEF Joined
  <1> QED BY <1>2, <1>3, <1>4, <1>5, <1>6

\* Without nulls every row has a key.
LEMMA KeyedRows ==
    ASSUME NEW t, NoNulls(t), NEW cs, Has(t, cs)
    PROVE  Keyed(t, cs) = Rows(t)
  BY CellsAreKnown DEF Keyed

\* The two pivots differ in null keys and in gaps only.
LEMMA PivotsAgree ==
    ASSUME NEW t, NoNulls(t), NEW s, s.fill_value = NULL
    PROVE  execute_pivot(t, s) = build_pivot_sql(t, s)
  <1>1. CASE ~PivotDefined(t, s) BY <1>1 DEF execute_pivot, build_pivot_sql
  <1>2. CASE PivotDefined(t, s)
    <2> DEFINE K == Keyed(t, s.index) \cap Keyed(t, <<s.columns, s.values>>)
               L == Keyed(t, <<s.columns>>)
    <2>1. K = Rows(t) BY <1>2, KeyedRows DEF PivotDefined
    <2>2. L = Rows(t)
      <3>1. Has(t, <<s.columns>>) BY <1>2 DEF PivotDefined, Has, ToSet
      <3> QED BY <3>1, KeyedRows
    <2>3. execute_pivot(t, s) = Pivoted(t, s, K, s.fill_value, Sorted({t.rows[i][s.columns] : i \in K}))
      BY <1>2 DEF execute_pivot
    <2>4. build_pivot_sql(t, s) = Pivoted(t, s, Rows(t), NULL, Sorted({t.rows[i][s.columns] : i \in L}))
      BY <1>2 DEF build_pivot_sql
    <2> HIDE DEF K, L
    <2> QED BY <2>1, <2>2, <2>3, <2>4
  <1> QED BY <1>1, <1>2

\* UNPIVOT leaves out only cells that are null.
LEMMA UnpivotsAgree ==
    ASSUME NEW t, NoNulls(t), NEW s, ~Has(t, <<s.value_name>>)
    PROVE  execute_unpivot(t, s) = build_unpivot_sql(t, s)
  <1>1. CASE ~UnpivotDefined(t, s) BY <1>1 DEF execute_unpivot, build_unpivot_sql
  <1>2. CASE UnpivotDefined(t, s)
    <2> DEFINE A == AllCells(t, s)
               B == {p \in A : t.rows[p[2]][s.value_vars[p[1]]] # NULL}
    <2>1. \A k \in DOMAIN s.value_vars : s.value_vars[k] \in ToSet(t.cols)
      BY <1>2 DEF UnpivotDefined, Has, ToSet
    <2>2. A = B BY <2>1 DEF AllCells, NoNulls
    <2>3. execute_unpivot(t, s) = {Melted(t, s, A)} BY <1>2 DEF execute_unpivot
    <2>4. build_unpivot_sql(t, s) = {Melted(t, s, B)} BY <1>2 DEF build_unpivot_sql
    <2> HIDE DEF A, B
    <2> QED BY <2>2, <2>3, <2>4
  <1> QED BY <1>1, <1>2

\* The elements of a concatenation.
LEMMA ConcatenatedSet ==
    ASSUME NEW S, NEW a \in Seq(S), NEW T, NEW b \in Seq(T)
    PROVE  ToSet(a \o b) = ToSet(a) \cup ToSet(b)
  <1>1. a \in Seq(S \cup T) /\ b \in Seq(S \cup T) OBVIOUS
  <1> DEFINE c == a \o b
  <1>2. /\ Len(c) = Len(a) + Len(b) /\ DOMAIN c = 1..Len(c)
        /\ \A i \in 1..Len(c) : c[i] = IF i <= Len(a) THEN a[i] ELSE b[i - Len(a)]
    BY <1>1
  <1>3. Len(a) \in Nat /\ Len(b) \in Nat /\ DOMAIN a = 1..Len(a) /\ DOMAIN b = 1..Len(b) OBVIOUS
  <1> HIDE DEF c
  <1>4. ToSet(c) \subseteq ToSet(a) \cup ToSet(b)
    <2> SUFFICES ASSUME NEW i \in DOMAIN c PROVE c[i] \in ToSet(a) \cup ToSet(b)
      BY DEF ToSet
    <2>1. CASE i <= Len(a)
      <3>1. i \in DOMAIN a /\ c[i] = a[i] BY <1>2, <1>3, <2>1
      <3> QED BY <3>1 DEF ToSet
    <2>2. CASE ~(i <= Len(a))
      <3>1. i - Len(a) \in DOMAIN b /\ c[i] = b[i - Len(a)] BY <1>2, <1>3, <2>2
      <3> QED BY <3>1 DEF ToSet
    <2> QED BY <2>1, <2>2
  <1>5. ToSet(a) \subseteq ToSet(c)
    <2> SUFFICES ASSUME NEW i \in DOMAIN a PROVE a[i] \in ToSet(c)
      BY DEF ToSet
    <2>1. i \in DOMAIN c /\ c[i] = a[i] BY <1>2, <1>3
    <2> QED BY <2>1 DEF ToSet
  <1>6. ToSet(b) \subseteq ToSet(c)
    <2> SUFFICES ASSUME NEW i \in DOMAIN b PROVE b[i] \in ToSet(c)
      BY DEF ToSet
    <2>1. i + Len(a) \in DOMAIN c /\ c[i + Len(a)] = b[i] BY <1>2, <1>3
    <2> QED BY <2>1 DEF ToSet
  <1> QED BY <1>4, <1>5, <1>6 DEF c

\* The column of some rows.
LEMMA PickedColumn ==
    ASSUME NEW t, IsTable(t), NEW S \in SUBSET Rows(t), NEW c
    PROVE  /\ Indices(S) \in [1..Cardinality(S) -> S]
           /\ Column(Pick(t, Indices(S)), c) = [k \in 1..Cardinality(S) |-> t.rows[Indices(S)[k]][c]]
  <1>1. IsFiniteSet(S) /\ S \in SUBSET Int BY RowSubset
  <1>2. Indices(S) \in [1..Cardinality(S) -> S] /\ DOMAIN Indices(S) = 1..Cardinality(S) BY <1>1, IndicesShape
  <1>3. Pick(t, Indices(S)).rows = [k \in 1..Cardinality(S) |-> t.rows[Indices(S)[k]]]
    <2>1. Take(t.rows, Indices(S)) = [k \in 1..Cardinality(S) |-> t.rows[Indices(S)[k]]]
      BY <1>2 DEF Take
    <2> QED BY <2>1, TableFields DEF Pick, WithRows
  <1> QED BY <1>2, <1>3 DEF Column, Rows

\* A group that has a row has a value to aggregate.
LEMMA SomethingKnown ==
    ASSUME NEW t, IsTable(t), NoNulls(t), NEW S \in SUBSET Rows(t), S # {}, NEW c \in ToSet(t.cols)
    PROVE  Known(Column(Pick(t, Indices(S)), c)) # <<>>
  <1> DEFINE N == Cardinality(S)
             p == Indices(S)
             vals == Column(Pick(t, p), c)
             D == {i \in DOMAIN vals : vals[i] # NULL}
  <1>1. N \in Nat /\ N # 0 BY RowSubset, FS_EmptySet
  <1>2. p \in [1..N -> S] /\ vals = [k \in 1..N |-> t.rows[p[k]][c]] BY PickedColumn
  <1> HIDE DEF N, p, vals
  <1>3. \A k \in 1..N : vals[k] # NULL BY <1>2 DEF NoNulls
  <1>4. D = 1..N BY <1>2, <1>3
  <1>5. IsFiniteSet(1..N) /\ Cardinality(1..N) = N
    <2>1. 1 \in Int /\ N \in Int BY <1>1
    <2>2. IsFiniteSet(1..N) /\ Cardinality(1..N) = IF 1 > N THEN 0 ELSE N - 1 + 1
      BY <2>1, FS_Interval
    <2> QED BY <1>1, <2>2
  <1>6. DOMAIN Indices(D) = 1..N
    <2> HIDE DEF D
    <2>1. D \in SUBSET Int /\ IsFiniteSet(D) /\ Cardinality(D) = N BY <1>1, <1>4, <1>5
    <2> QED BY <2>1, IndicesShape
  <1>7. DOMAIN Known(vals) = 1..N BY <1>6 DEF Known, Take
  <1>8. 1 \in DOMAIN Known(vals) BY <1>1, <1>7
  <1>9. Known(vals) # <<>> BY <1>8
  <1> QED BY <1>9 DEF vals, p

\* The groups are listed by one of their rows.
LEMMA GroupOrderInGroups ==
    ASSUME NEW t, IsTable(t), NEW c, NEW S \in SUBSET Rows(t)
    PROVE  GroupOrder(t, c, S) \in [1..Cardinality(S) -> S]
  <1> DEFINE K(i) == KeyRank(t, c, i)
             R == {p \in S \X S : K(p[1]) < K(p[2]) \/ (K(p[1]) = K(p[2]) /\ p[1] < p[2])}
  <1>1. IsFiniteSet(S) /\ S \in SUBSET Int BY RowSubset
  <1>2. ASSUME NEW i \in S PROVE K(i) \in Nat
    <2>1. PICK T \in SUBSET Rows(t) : K(i) = Cardinality(T) BY DEF KeyRank
    <2> QED BY <2>1, RowSubset
  <1> HIDE DEF K
  <1>3. \A x, y \in S : <<x, y>> \in R <=> (K(x) < K(y) \/ (K(x) = K(y) /\ x < y)) OBVIOUS
  <1> HIDE DEF R
  <1>4. StrictOrder(S, R)
    <2>1. \A x \in S : <<x, x>> \notin R BY <1>1, <1>2, <1>3
    <2>2. \A x, y, z \in S : <<x, y>> \in R /\ <<y, z>> \in R => <<x, z>> \in R
      BY <1>1, <1>2, <1>3
    <2>3. \A x, y \in S : x # y => <<x, y>> \in R \/ <<y, x>> \in R BY <1>1, <1>2, <1>3
    <2> QED BY <2>1, <2>2, <2>3 DEF StrictOrder
  <1>5. GroupOrder(t, c, S) = Ranked(S, R) BY DEF GroupOrder, R, K
  <1>6. Ranked(S, R) \in Bijection(1..Cardinality(S), S) BY <1>1, <1>4, RankedIsBijection
  <1> QED BY <1>5, <1>6 DEF Bijection, Injection

\* What the sum of no value is makes no difference when a group has a value.
LEMMA GroupsAgree ==
    ASSUME NEW t, IsTable(t), NoNulls(t), NEW gs \in Seq(STRING), NEW aggs, NEW names,
           names = [i \in DOMAIN aggs |-> OutputName(aggs[i])], aggs \in Seq(ToSet(aggs)),
           \A a \in ToSet(aggs) : /\ Has(t, <<a.column>>)
                                  /\ a.function \notin {"first", "last"}
                                  /\ a.function = "median" => a.column \in t.num
    PROVE  Grouped(t, gs, aggs, names, Rows(t), {"sum", "mean", "median"}, FALSE)
               = Grouped(t, gs, aggs, names, Rows(t), {"sum", "mean"}, TRUE)
  <1> DEFINE cols  == gs \o names
             key(i) == [c \in ToSet(gs) |-> t.rows[i][c]]
             Group(i) == {j \in Rows(t) : key(j) = key(i)}
             firsts == {i \in Rows(t) : \A j \in 1..(i - 1) : key(j) # key(i)}
             order  == GroupOrder(t, gs[1], firsts)
             Of(n) == aggs[CHOOSE k \in DOMAIN names : names[k] = n]
             Vals(i, a) == Column(Pick(t, Indices(Group(i))), a.column)
             Cell(i, n, sql) ==
                IF n \in ToSet(gs) THEN t.rows[i][n]
                ELSE GroupStatistic(Of(n).function, Vals(i, Of(n)), sql)
             numbers == {k \in DOMAIN names : aggs[k].function = "count" \/ aggs[k].column \in t.num}
             num  == (t.num \cap ToSet(gs)) \cup {names[k] : k \in numbers}
             rows(sql) == [x \in DOMAIN order |-> [n \in ToSet(cols) |-> Cell(order[x], n, sql)]]
             G(numeric) == /\ Has(t, gs)
                           /\ \A a \in ToSet(aggs) :
                                  Has(t, <<a.column>>) /\ (a.function \in numeric => a.column \in t.num)
                           /\ Distinct(cols)
  <1>1. ASSUME NEW numeric, NEW sql
        PROVE Grouped(t, gs, aggs, names, Rows(t), numeric, sql)
                  = IF G(numeric) THEN {Table(cols, num, rows(sql))} ELSE {}
    BY DEF Grouped
  <1>2. order \in [1..Cardinality(firsts) -> firsts]
    <2>1. firsts \in SUBSET Rows(t) OBVIOUS
    <2> HIDE DEF firsts
    <2> QED BY <2>1, GroupOrderInGroups
  <1>3. ToSet(cols) = ToSet(gs) \cup ToSet(names)
    <2>1. names \in Seq({OutputName(aggs[i]) : i \in DOMAIN aggs}) OBVIOUS
    <2> QED BY <2>1, ConcatenatedSet
  <1>4. ASSUME NEW i \in Rows(t), NEW n \in ToSet(cols), n \notin ToSet(gs)
        PROVE  Known(Vals(i, Of(n))) # <<>> /\ Of(n) \in ToSet(aggs)
    <2>1. PICK m \in DOMAIN names : names[m] = n BY <1>3, <1>4 DEF ToSet
    <2>2. (CHOOSE k \in DOMAIN names : names[k] = n) \in DOMAIN aggs BY <2>1
    <2>3. Of(n) \in ToSet(aggs) BY <2>2 DEF ToSet
    <2> HIDE DEF Of
    <2>4. Of(n).column \in ToSet(t.cols)
      <3>1. Has(t, <<Of(n).column>>) BY <2>3
      <3> QED BY <3>1, HasOne
    <2>5. Group(i) \in SUBSET Rows(t) /\ i \in Group(i) OBVIOUS
    <2> HIDE DEF Group
    <2> QED BY <2>3, <2>4, <2>5, SomethingKnown
  <1>5. ASSUME NEW i \in Rows(t), NEW n \in ToSet(cols) PROVE Cell(i, n, FALSE) = Cell(i, n, TRUE)
    <2>1. ASSUME NEW vals, Known(vals) # <<>>, NEW f, f \notin {"first", "last"}
          PROVE GroupStatistic(f, vals, FALSE) = GroupStatistic(f, vals, TRUE)
      BY <2>1 DEF GroupStatistic, Statistic
    <2> HIDE DEF Vals, Of, cols
    <2>2. CASE n \in ToSet(gs) BY <2>2
    <2>3. CASE n \notin ToSet(gs)
      <3>1. Known(Vals(i, Of(n))) # <<>> /\ Of(n) \in ToSet(aggs) BY <1>4, <2>3
      <3>2. Of(n).function \notin {"first", "last"} BY <3>1
      <3>3. GroupStatistic(Of(n).function, Vals(i, Of(n)), FALSE) = GroupStatistic(Of(n).function, Vals(i, Of(n)), TRUE)
        BY <2>1, <3>1, <3>2
      <3> QED BY <2>3, <3>3
    <2> QED BY <2>2, <2>3
  <1>6. rows(FALSE) = rows(TRUE)
    <2>1. \A x \in DOMAIN order : order[x] \in Rows(t) BY <1>2
    <2> HIDE DEF order, Cell, cols
    <2> QED BY <1>5, <2>1
  <1>7. G({"sum", "mean", "median"}) <=> G({"sum", "mean"}) OBVIOUS
  <1>8. Grouped(t, gs, aggs, names, Rows(t), {"sum", "mean", "median"}, FALSE)
          = IF G({"sum", "mean", "median"}) THEN {Table(cols, num, rows(FALSE))} ELSE {}
    BY <1>1
  <1>9. Grouped(t, gs, aggs, names, Rows(t), {"sum", "mean"}, TRUE)
          = IF G({"sum", "mean"}) THEN {Table(cols, num, rows(TRUE))} ELSE {}
    BY <1>1
  <1> HIDE DEF rows, G, cols, num
  <1> QED BY <1>6, <1>7, <1>8, <1>9

\* The two aggregations differ in null keys, in the sum of no value, and in
\* what SameMeaning excludes.
LEMMA AggregatesAgree ==
    ASSUME NEW t, IsTable(t), NoNulls(t), NEW s, s.group_by \in Seq(STRING),
           s.aggregations \in Seq(ToSet(s.aggregations)), ByColumn(s.aggregations) = s.aggregations,
           \A a \in ToSet(s.aggregations) : /\ SqlAlias(a) = OutputName(a)
                                            /\ a.function \notin {"first", "last"}
                                            /\ a.function = "median" => a.column \in t.num
    PROVE  execute_aggregate(t, s) = build_aggregate_sql(t, s)
  <1> DEFINE aggs == s.aggregations
             gs == s.group_by
             G == Has(t, gs) /\ \A a \in ToSet(aggs) : Has(t, <<a.column>>)
             K == IF Has(t, gs) THEN Keyed(t, gs) ELSE {}
             names == [i \in DOMAIN aggs |-> OutputName(aggs[i])]
             three == {"sum", "mean", "median"}
             two == {"sum", "mean"}
  <1>0. [i \in DOMAIN aggs |-> SqlAlias(aggs[i])] = names
    <2>1. \A i \in DOMAIN aggs : aggs[i] \in ToSet(aggs) BY DEF ToSet
    <2>2. \A i \in DOMAIN aggs : SqlAlias(aggs[i]) = OutputName(aggs[i]) BY <2>1
    <2> QED BY <2>2
  <1>10. \A a \in ToSet(aggs) : a.function \notin {"first", "last"} /\ (a.function = "median" => a.column \in t.num)
    OBVIOUS
  <1>1. execute_aggregate(t, s) = Grouped(t, gs, aggs, names, K, three, FALSE) BY DEF execute_aggregate
  <1>2. build_aggregate_sql(t, s) = Grouped(t, gs, aggs, names, Rows(t), two, TRUE)
    BY <1>0 DEF build_aggregate_sql
  <1> HIDE DEF names, aggs, gs
  <1>3. CASE ~G
    <2>1. Grouped(t, gs, aggs, names, K, three, FALSE) = {} BY <1>3 DEF Grouped
    <2>2. Grouped(t, gs, aggs, names, Rows(t), two, TRUE) = {} BY <1>3 DEF Grouped
    <2> QED BY <1>1, <1>2, <2>1, <2>2
  <1>4. CASE G
    <2>1. K = Rows(t) BY <1>4, KeyedRows
    <2>2. Grouped(t, gs, aggs, names, Rows(t), three, FALSE) = Grouped(t, gs, aggs, names, Rows(t), two, TRUE)
      <3>1. names = [i \in DOMAIN aggs |-> OutputName(aggs[i])] BY DEF names
      <3>2. aggs \in Seq(ToSet(aggs)) /\ gs \in Seq(STRING) BY DEF aggs, gs
      <3>3. \A a \in ToSet(aggs) : /\ Has(t, <<a.column>>)
                                   /\ a.function \notin {"first", "last"}
                                   /\ a.function = "median" => a.column \in t.num
        BY <1>4, <1>10
      <3> QED BY <3>1, <3>2, <3>3, GroupsAgree
    <2> HIDE DEF K
    <2> QED BY <1>1, <1>2, <2>1, <2>2
  <1> QED BY <1>3, <1>4

\* The two fillings, on what SameMeaning leaves.
LEMMA FillsAgree ==
    ASSUME NEW t, NEW s, s.columns # <<>>, Distinct(s.columns),
           s.strategy = "constant" => s.constant_value # NULL,
           s.strategy \in {"constant", "median"} => ToSet(s.columns) \subseteq t.num
    PROVE  execute_fill_nulls(t, s) = build_fill_nulls_sql(t, s)
  <1> DEFINE P == /\ Has(t, s.columns)
                  /\ s.strategy = "constant" => /\ s.constant_value # NULL
                                                /\ \A c \in ToSet(s.columns) : c \in t.num \/ Nulls(t, c) \in {{}, Rows(t)}
                  /\ s.strategy \in {"mean", "median"} => ToSet(s.columns) \subseteq t.num
             Q == /\ s.columns # <<>> /\ Has(t, s.columns) /\ Distinct(s.columns)
                  /\ s.strategy \in {"constant", "mean"} => ToSet(s.columns) \subseteq t.num
  <1>1. P <=> Q
    <2>1. CASE s.strategy = "constant" BY <2>1
    <2>2. CASE s.strategy = "mean" BY <2>2
    <2>3. CASE s.strategy = "median" BY <2>3
    <2>4. CASE s.strategy \notin {"constant", "mean", "median"} BY <2>4
    <2> QED BY <2>1, <2>2, <2>3, <2>4
  <1>2. execute_fill_nulls(t, s) = IF P THEN {FilledColumns(t, s)} ELSE {} BY DEF execute_fill_nulls
  <1>3. build_fill_nulls_sql(t, s) = IF Q THEN {FilledColumns(t, s)} ELSE {} BY DEF build_fill_nulls_sql
  <1> HIDE DEF P, Q
  <1> QED BY <1>1, <1>2, <1>3

-----------------------------------------------------------------------------
(* Contents.                                                               *)

\* The size of 1..n.
LEMMA IntervalSize == ASSUME NEW n \in Nat PROVE IsFiniteSet(1..n) /\ Cardinality(1..n) = n
  <1>1. 1 \in Int /\ n \in Int OBVIOUS
  <1>2. IsFiniteSet(1..n) /\ Cardinality(1..n) = IF 1 > n THEN 0 ELSE n - 1 + 1
    BY <1>1, FS_Interval
  <1> QED BY <1>2

\* A finite set of integers has a least and a greatest element.
LEMMA Extremes ==
    ASSUME NEW S \in SUBSET Int, IsFiniteSet(S), S # {}
    PROVE  /\ \E x \in S : \A y \in S : ~(y < x)
           /\ \E x \in S : \A y \in S : ~(y > x)
  <1> DEFINE N == Cardinality(S)  p == Indices(S)  B(x) == {y \in S : y < x}
  <1>1. N \in Nat /\ N # 0 BY FS_CardinalityType, FS_EmptySet
  <1>2. p \in [1..N -> S] BY IndicesShape
  <1>3. \A n \in 1..N : Cardinality(B(p[n])) = n - 1 BY IndicesIsBijection
  <1>4. \A x \in S : IsFiniteSet(B(x)) BY FS_Subset
  <1> HIDE DEF N, p
  <1>5. \E x \in S : \A y \in S : ~(y < x)
    <2>1. p[1] \in S /\ Cardinality(B(p[1])) = 0 BY <1>1, <1>2, <1>3
    <2>2. B(p[1]) = {} BY <1>4, <2>1, FS_EmptySet
    <2> QED BY <2>1, <2>2
  <1>6. \E x \in S : \A y \in S : ~(y > x)
    <2> DEFINE x == p[N]
    <2>1. x \in S /\ Cardinality(B(x)) = N - 1 BY <1>1, <1>2, <1>3
    <2> HIDE DEF x
    <2>2. x \notin B(x)
      <3>1. x \in Int BY <2>1
      <3>2. ~(x < x) BY <3>1
      <3> QED BY <3>2
    <2>3. Cardinality(B(x) \cup {x}) = N
      <3>1. Cardinality(B(x) \cup {x}) = Cardinality(B(x)) + 1 BY <1>4, <2>1, <2>2, FS_AddElement
      <3> QED BY <1>1, <2>1, <3>1
    <2>4. B(x) \cup {x} \in SUBSET S BY <2>1
    <2>5. S = B(x) \cup {x}
      <3>1. Cardinality(S) = Cardinality(B(x) \cup {x}) BY <2>3 DEF N
      <3> QED BY <2>4, <3>1, FS_Subset
    <2> QED BY <2>1, <2>5
  <1> QED BY <1>5, <1>6

\* Another order of the rows is the same content.
LEMMA PermutationKeepsContent ==
    ASSUME NEW t, IsTable(t), NEW p \in Orders(Rows(t))
    PROVE  Content(Pick(t, p)) = Content(t)
  <1> DEFINE N == Len(t.rows)
             rows == Take(t.rows, p)
  <1>1. N \in Nat /\ Rows(t) = 1..N /\ IsFiniteSet(Rows(t)) /\ Cardinality(Rows(t)) = N BY RowsOfTable
  <1> HIDE DEF N
  <1>2. p \in [1..N -> 1..N] /\ \A i, j \in 1..N : p[i] = p[j] => i = j BY <1>1 DEF Orders
  <1>3. p \in Injection(1..N, 1..N) BY <1>2 DEF Injection, IsInjective
  <1>4. p \in Surjection(1..N, 1..N) BY <1>1, <1>3, FS_Injection
  <1>5. \A j \in 1..N : \E i \in 1..N : p[i] = j BY <1>4 DEF Surjection
  <1>6. rows = [i \in 1..N |-> t.rows[p[i]]] /\ DOMAIN t.rows = 1..N BY <1>1, <1>2 DEF Take, Rows
  <1> HIDE DEF rows
  <1>7. ToSet(rows) = ToSet(t.rows)
    <2>1. \A x : x \in ToSet(t.rows) <=> \E j \in 1..N : x = t.rows[j] BY <1>6 DEF ToSet
    <2>2. \A x : x \in ToSet(rows) <=> \E i \in 1..N : x = t.rows[p[i]]
      <3>1. DOMAIN rows = 1..N /\ \A i \in 1..N : rows[i] = t.rows[p[i]] BY <1>6
      <3> QED BY <3>1 DEF ToSet
    <2>3. \A i \in 1..N : p[i] \in 1..N BY <1>2
    <2>4. ASSUME NEW x \in ToSet(rows) PROVE x \in ToSet(t.rows)
      <3>1. PICK i \in 1..N : x = t.rows[p[i]] BY <2>2, <2>4
      <3> QED BY <2>1, <2>3, <3>1
    <2>5. ASSUME NEW x \in ToSet(t.rows) PROVE x \in ToSet(rows)
      <3>1. PICK j \in 1..N : x = t.rows[j] BY <2>1, <2>5
      <3>2. PICK i \in 1..N : p[i] = j BY <1>5
      <3> QED BY <2>2, <3>1, <3>2
    <2> QED BY <2>4, <2>5
  <1>8. ASSUME NEW r PROVE Times(rows, r) = Times(t.rows, r)
    <2> DEFINE A == {i \in 1..N : t.rows[p[i]] = r}
               B == {j \in 1..N : t.rows[j] = r}
               f == [i \in A |-> p[i]]
    <2>1. f \in Bijection(A, B)
      <3>1. f \in [A -> B] BY <1>2
      <3>2. \A i, j \in A : f[i] = f[j] => i = j BY <1>2
      <3>3. \A j \in B : \E i \in A : f[i] = j BY <1>5
      <3> QED BY <3>1, <3>2, <3>3 DEF Bijection, Injection, Surjection, IsInjective
    <2>2. IsFiniteSet(A) BY <1>1, FS_Subset
    <2>3. ExistsBijection(A, B) BY <2>1 DEF ExistsBijection
    <2>4. Cardinality(A) = Cardinality(B)
      <3> HIDE DEF A, B
      <3> QED BY <2>2, <2>3, FS_Bijection
    <2>5. {i \in DOMAIN rows : rows[i] = r} = A BY <1>6
    <2>6. {i \in DOMAIN t.rows : t.rows[i] = r} = B BY <1>6
    <2> HIDE DEF A, B
    <2> QED BY <2>4, <2>5, <2>6 DEF Times
  <1>9. Pick(t, p).rows = rows /\ Pick(t, p).cols = t.cols BY TableFields DEF Pick, WithRows, rows
  <1> QED BY <1>7, <1>8, <1>9 DEF Content

\* Of each row one: which of them is taken makes no difference.
LEMMA OneOfEach ==
    ASSUME NEW t, IsTable(t), NEW S \in SUBSET Rows(t),
           \A i, j \in S : t.rows[i] = t.rows[j] => i = j,
           \A i \in Rows(t) : \E j \in S : t.rows[j] = t.rows[i]
    PROVE  Content(Pick(t, Indices(S))) = [cols |-> t.cols, rows |-> [r \in ToSet(t.rows) |-> 1]]
  <1> DEFINE N == Cardinality(S)
             p == Indices(S)
             rows == Take(t.rows, p)
  <1>1. N \in Nat /\ IsFiniteSet(S) /\ S \in SUBSET Int BY RowSubset
  <1>2. /\ p \in [1..N -> S]
        /\ DOMAIN p = 1..N
        /\ \A m, n \in 1..N : p[m] = p[n] => m = n
        /\ \A x \in S : \E n \in 1..N : p[n] = x
    BY <1>1, IndicesShape
  <1> HIDE DEF N, p
  <1>3. rows = [i \in 1..N |-> t.rows[p[i]]] BY <1>2 DEF Take
  <1> HIDE DEF rows
  <1>4. ToSet(rows) = ToSet(t.rows)
    <2>1. ToSet(rows) \subseteq ToSet(t.rows) BY <1>2, <1>3 DEF ToSet, Rows
    <2>2. ASSUME NEW i \in Rows(t) PROVE t.rows[i] \in ToSet(rows)
      <3>1. PICK j \in S : t.rows[j] = t.rows[i] OBVIOUS
      <3>2. PICK n \in 1..N : p[n] = j BY <1>2
      <3>3. rows[n] = t.rows[i] /\ n \in DOMAIN rows BY <1>3, <3>1, <3>2
      <3> QED BY <3>3 DEF ToSet
    <2> QED BY <2>1, <2>2 DEF ToSet, Rows
  <1>5. ASSUME NEW r \in ToSet(rows) PROVE Times(rows, r) = 1
    <2>1. PICK n \in DOMAIN rows : rows[n] = r BY <1>5 DEF ToSet
    <2>2. \A m \in DOMAIN rows : rows[m] = r => m = n BY <1>2, <1>3, <2>1
    <2>3. {i \in DOMAIN rows : rows[i] = r} = {n} BY <2>1, <2>2
    <2> QED BY <2>3, FS_Singleton DEF Times
  <1>6. Pick(t, p).rows = rows /\ Pick(t, p).cols = t.cols BY TableFields DEF Pick, WithRows, rows
  <1>7. [r \in ToSet(rows) |-> Times(rows, r)] = [r \in ToSet(t.rows) |-> 1] BY <1>4, <1>5
  <1>8. Content(Pick(t, p)) = [cols |-> t.cols, rows |-> [r \in ToSet(t.rows) |-> 1]]
    BY <1>6, <1>7 DEF Content
  <1> QED BY <1>8 DEF p

\* Rows that agree on all columns are equal.
LEMMA SameRowIsEqual ==
    ASSUME NEW t, IsTable(t), NEW i \in Rows(t), NEW j \in Rows(t)
    PROVE  SameRow(t.rows[i], t.rows[j], t.cols) <=> t.rows[i] = t.rows[j]
  <1>1. /\ t.rows[i] = [c \in ToSet(t.cols) |-> t.rows[i][c]]
        /\ t.rows[j] = [c \in ToSet(t.cols) |-> t.rows[j][c]]
    BY RowsOfTable
  <1>2. ASSUME \A c \in ToSet(t.cols) : t.rows[i][c] = t.rows[j][c] PROVE t.rows[i] = t.rows[j]
    <2>1. [c \in ToSet(t.cols) |-> t.rows[i][c]] = [c \in ToSet(t.cols) |-> t.rows[j][c]] BY <1>2
    <2> QED BY <1>1, <2>1
  <1> QED BY <1>2 DEF SameRow

\* Which of several equal rows is kept makes no difference.
LEMMA DistinctRows ==
    ASSUME NEW t, IsTable(t), NEW keep \in {"first", "last"}
    PROVE  Content(Deduplicated(t, t.cols, keep)) = [cols |-> t.cols, rows |-> [r \in ToSet(t.rows) |-> 1]]
  <1> DEFINE First == {i \in Rows(t) : \A j \in Rows(t) : j < i => t.rows[i] # t.rows[j]}
             Final == {i \in Rows(t) : \A j \in Rows(t) : j > i => t.rows[i] # t.rows[j]}
             Twin(i, j) == i # j /\ SameRow(t.rows[i], t.rows[j], t.cols)
  <1>0. Rows(t) \subseteq Int /\ IsFiniteSet(Rows(t)) BY RowsOfTable
  <1>1. \A i, j \in Rows(t) : Twin(i, j) <=> i # j /\ t.rows[i] = t.rows[j] BY SameRowIsEqual
  <1>2. CASE keep = "first"
    <2> DEFINE K == {i \in Rows(t) : \A j \in Rows(t) : j < i => ~Twin(i, j)}
    <2>1. Deduplicated(t, t.cols, keep) = Pick(t, Indices(K)) BY <1>2 DEF Deduplicated
    <2> HIDE DEF Twin
    <2>2. K = First BY <1>0, <1>1
    <2>3. \A i, j \in First : t.rows[i] = t.rows[j] => i = j BY <1>0
    <2>4. ASSUME NEW i \in Rows(t) PROVE \E j \in First : t.rows[j] = t.rows[i]
      <3> DEFINE T == {j \in Rows(t) : t.rows[j] = t.rows[i]}
      <3>1. T \in SUBSET Int /\ IsFiniteSet(T) /\ T # {} BY <1>0, FS_Subset
      <3>2. PICK x \in T : \A y \in T : ~(y < x)
        <4> HIDE DEF T
        <4> QED BY <3>1, Extremes
      <3> QED BY <3>2
    <2> HIDE DEF K, First
    <2>5. First \in SUBSET Rows(t) BY DEF First
    <2> QED BY <2>1, <2>2, <2>3, <2>4, <2>5, OneOfEach
  <1>3. CASE keep = "last"
    <2> DEFINE K == {i \in Rows(t) : \A j \in Rows(t) : j > i => ~Twin(i, j)}
    <2>1. Deduplicated(t, t.cols, keep) = Pick(t, Indices(K)) BY <1>3 DEF Deduplicated
    <2> HIDE DEF Twin
    <2>2. K = Final BY <1>0, <1>1
    <2>3. \A i, j \in Final : t.rows[i] = t.rows[j] => i = j BY <1>0
    <2>4. ASSUME NEW i \in Rows(t) PROVE \E j \in Final : t.rows[j] = t.rows[i]
      <3> DEFINE T == {j \in Rows(t) : t.rows[j] = t.rows[i]}
      <3>1. T \in SUBSET Int /\ IsFiniteSet(T) /\ T # {} BY <1>0, FS_Subset
      <3>2. PICK x \in T : \A y \in T : ~(y > x)
        <4> HIDE DEF T
        <4> QED BY <3>1, Extremes
      <3> QED BY <3>2
    <2> HIDE DEF K, Final
    <2>5. Final \in SUBSET Rows(t) BY DEF Final
    <2> QED BY <2>1, <2>2, <2>3, <2>4, <2>5, OneOfEach
  <1> QED BY <1>2, <1>3

\* The two deduplications keep the same rows, up to equal ones.
LEMMA DeduplicatesAgree ==
    ASSUME NEW t, IsTable(t), NEW s, s.subset # <<>> \/ s.keep \in {"first", "last"}
    PROVE  {Content(x) : x \in execute_deduplicate(t, s)} = {Content(x) : x \in build_deduplicate_sql(t, s)}
  <1>1. CASE ~Has(t, s.subset)
    <2>1. execute_deduplicate(t, s) = {} BY <1>1 DEF execute_deduplicate
    <2>2. build_deduplicate_sql(t, s) = {} BY <1>1 DEF build_deduplicate_sql
    <2> QED BY <2>1, <2>2
  <1>2. CASE Has(t, s.subset) /\ s.subset # <<>>
    BY <1>2 DEF execute_deduplicate, build_deduplicate_sql
  <1>3. CASE Has(t, s.subset) /\ s.subset = <<>>
    <2>1. execute_deduplicate(t, s) = {Deduplicated(t, t.cols, s.keep)} BY <1>3 DEF execute_deduplicate
    <2>2. build_deduplicate_sql(t, s) = {Deduplicated(t, t.cols, "first")}
      BY <1>3 DEF build_deduplicate_sql
    <2>3. Content(Deduplicated(t, t.cols, s.keep)) = Content(Deduplicated(t, t.cols, "first"))
      <3>1. s.keep \in {"first", "last"} BY <1>3
      <3> QED BY <3>1, DistinctRows
    <2> QED BY <2>1, <2>2, <2>3
  <1> QED BY <1>1, <1>2, <1>3

\* A sample as large as the table is the table in another order.
LEMMA WholeSample ==
    ASSUME NEW t, IsTable(t)
    PROVE  {Content(x) : x \in Samples(t, Len(t.rows))} = {Content(t)}
  <1> DEFINE N == Len(t.rows)  R == Rows(t)
  <1>1. N \in Nat /\ R = 1..N /\ IsFiniteSet(R) /\ Cardinality(R) = N BY RowsOfTable
  <1>2. kSubset(N, R) = {R}
    <2>1. R \in kSubset(N, R) BY <1>1 DEF kSubset
    <2>2. ASSUME NEW S \in kSubset(N, R) PROVE S = R
      <3>1. S \in SUBSET R /\ Cardinality(S) = Cardinality(R) BY <1>1, <2>2 DEF kSubset
      <3> QED BY <1>1, <3>1, FS_Subset
    <2> QED BY <2>1, <2>2
  <1>3. Samples(t, N) = {Pick(t, p) : p \in Orders(R)} BY <1>2 DEF Samples
  <1>4. [i \in 1..N |-> i] \in Orders(R) BY <1>1 DEF Orders
  <1> HIDE DEF N, R
  <1>5. \A p \in Orders(R) : Content(Pick(t, p)) = Content(t) BY PermutationKeepsContent DEF R
  <1>6. {Content(x) : x \in Samples(t, N)} = {Content(t)} BY <1>3, <1>4, <1>5
  <1> QED BY <1>6 DEF N

\* The two samples of n rows have the same outcomes.
LEMMA SamplesAgree ==
    ASSUME NEW t, IsTable(t), NEW s, s.halves = NULL, s.stratify_by = NULL
    PROVE  {Content(x) : x \in execute_sample(t, s)} = {Content(x) : x \in build_sample_sql(t, s)}
  <1>1. CASE s.n = NULL
    <2>1. execute_sample(t, s) = {} BY <1>1 DEF execute_sample
    <2>2. build_sample_sql(t, s) = {} BY <1>1 DEF build_sample_sql
    <2> QED BY <2>1, <2>2
  <1>2. CASE s.n # NULL /\ s.n > Len(t.rows)
    <2>1. execute_sample(t, s) = {t} BY <1>2 DEF execute_sample
    <2>2. build_sample_sql(t, s) = Samples(t, Len(t.rows)) BY <1>2 DEF build_sample_sql
    <2> QED BY <2>1, <2>2, WholeSample
  <1>3. CASE s.n # NULL /\ ~(s.n > Len(t.rows))
    <2>1. execute_sample(t, s) = Samples(t, s.n) BY <1>3 DEF execute_sample
    <2>2. build_sample_sql(t, s) = Samples(t, s.n) BY <1>3 DEF build_sample_sql
    <2> QED BY <2>1, <2>2
  <1> QED BY <1>1, <1>2, <1>3

-----------------------------------------------------------------------------
(* The rule engines.                                                       *)

\* Without nulls the known values of a column are its values.
LEMMA AllKnown ==
    ASSUME NEW t, IsTable(t), NEW c, \A i \in Rows(t) : t.rows[i][c] # NULL
    PROVE  LET col == Column(t, c)
           IN  ToSet(Known(col)) = ToSet(col) /\ (Repeats(Known(col)) <=> Repeats(col))
  <1> DEFINE col == Column(t, c)
             D == {i \in DOMAIN col : col[i] # NULL}
             N == Len(t.rows)
             p == Indices(D)
  <1>1. N \in Nat /\ Rows(t) = 1..N /\ IsFiniteSet(Rows(t)) /\ Cardinality(Rows(t)) = N BY RowsOfTable
  <1>2. col = [i \in Rows(t) |-> t.rows[i][c]] BY DEF Column
  <1> HIDE DEF col, N
  <1>3. D = 1..N BY <1>1, <1>2
  <1> HIDE DEF D
  <1>4. /\ p \in [1..N -> 1..N]
        /\ DOMAIN p = 1..N
        /\ \A m, n \in 1..N : p[m] = p[n] => m = n
        /\ \A x \in 1..N : \E n \in 1..N : p[n] = x
    <2>1. D \in SUBSET Int /\ IsFiniteSet(D) /\ Cardinality(D) = N BY <1>1, <1>3
    <2> QED BY <1>3, <2>1, IndicesShape
  <1> HIDE DEF p
  <1>5. Known(col) = [i \in 1..N |-> col[p[i]]]
    <2>1. Known(col) = Take(col, p) BY DEF Known, D, p
    <2> QED BY <1>4, <2>1 DEF Take
  <1>6. DOMAIN col = 1..N BY <1>1, <1>2
  <1>7. ToSet(Known(col)) = ToSet(col) BY <1>4, <1>5, <1>6 DEF ToSet
  <1>8. Repeats(Known(col)) => Repeats(col)
    <2> SUFFICES ASSUME Repeats(Known(col)) PROVE Repeats(col) OBVIOUS
    <2>1. PICK i, j \in 1..N : i # j /\ col[p[i]] = col[p[j]] BY <1>5 DEF Repeats
    <2>2. p[i] \in DOMAIN col /\ p[j] \in DOMAIN col /\ p[i] # p[j] BY <1>4, <1>6, <2>1
    <2> QED BY <2>1, <2>2 DEF Repeats
  <1>9. Repeats(col) => Repeats(Known(col))
    <2> SUFFICES ASSUME Repeats(col) PROVE Repeats(Known(col)) OBVIOUS
    <2>1. PICK x, y \in 1..N : x # y /\ col[x] = col[y] BY <1>6 DEF Repeats
    <2>2. PICK i \in 1..N : p[i] = x BY <1>4
    <2>3. PICK j \in 1..N : p[j] = y BY <1>4
    <2>4. i \in DOMAIN Known(col) /\ j \in DOMAIN Known(col) /\ i # j /\ Known(col)[i] = Known(col)[j]
      BY <1>5, <2>1, <2>2, <2>3
    <2> QED BY <2>4 DEF Repeats
  <1> QED BY <1>7, <1>8, <1>9 DEF col

\* Rules distributes over the violations.
LEMMA RulesOfUnion == ASSUME NEW A, NEW B PROVE Rules(A \cup B) = Rules(A) \cup Rules(B)
  BY DEF Rules

\* The rule of a violation that is found on a condition.
LEMMA RulesOfWhen ==
    ASSUME NEW P \in BOOLEAN, NEW c, NEW rule, NEW severity
    PROVE  Rules(When(P, Violation(c, rule, severity))) = IF P THEN {<<c, rule>>} ELSE {}
  <1>1. Violation(c, rule, severity).column = c /\ Violation(c, rule, severity).rule = rule
    BY DEF Violation
  <1> QED BY <1>1 DEF Rules, When

\* The rule of a single violation.
LEMMA RulesOfOne ==
    ASSUME NEW c, NEW rule, NEW severity
    PROVE  Rules({Violation(c, rule, severity)}) = {<<c, rule>>}
  <1>1. Violation(c, rule, severity).column = c /\ Violation(c, rule, severity).rule = rule
    BY DEF Violation
  <1> QED BY <1>1 DEF Rules

\* A violation names its rule.
LEMMA WhenNames ==
    ASSUME NEW P, NEW c, NEW rule, NEW severity, NEW v \in When(P, Violation(c, rule, severity))
    PROVE  v.rule = rule
  BY DEF When, Violation

\* The rules a column breaks, for both kinds of contract.
Broken(t, k) ==
    LET col == ToSet(Column(t, k.name))
        If(P, rule) == IF P THEN {<<k.name, rule>>} ELSE {}
    IN  If((k.dtype = "number") # (k.name \in t.num), "type")
        \cup If(k.not_null /\ NULL \in col, "not_null")
        \cup If(k.unique /\ Repeats(Column(t, k.name)), "unique")
        \cup If(Below(col, k.min_value), "min_value")
        \cup If(Above(col, k.max_value), "max_value")
        \cup If(~(col \subseteq k.allowed_values), "allowed_values")

\* Both kinds of contract find that a numeric column without nulls breaks the same rules.
LEMMA ColumnRules ==
    ASSUME NEW t, IsTable(t), NEW k, NEW floats, k.name \in t.num, k.decimal <=> k.name \in floats,
           \A i \in Rows(t) : t.rows[i][k.name] # NULL
    PROVE  /\ Rules(ColumnViolations(t, k)) = Broken(t, k)
           /\ Rules(PromisedColumn(t, k, floats)) = Broken(t, k)
  <1> DEFINE c == k.name
             col == ToSet(Column(t, c))
             T  == When((k.dtype = "number") # (c \in t.num), Violation(c, "type", "error"))
             NN == When(k.not_null /\ NULL \in Values(t, c), Violation(c, "not_null", "error"))
             U(sev) == When(k.unique /\ Repeats(Known(Column(t, c))), Violation(c, "unique", sev))
             some == ToSet(Known(Column(t, c)))
             L1 == When(c \in t.num /\ Below(some, k.min_value), Violation(c, "min_value", "error"))
             L2 == When(Below(some, k.min_value), Violation(c, "min_value", "error"))
             H1 == When(c \in t.num /\ Above(some, k.max_value), Violation(c, "max_value", "error"))
             H2 == When(Above(some, k.max_value), Violation(c, "max_value", "error"))
             A1 == When(~(some \subseteq k.allowed_values), Violation(c, "allowed_values", "error"))
             A2 == When(~({Str(v, c \in floats) : v \in Values(t, c)} \subseteq {Str(v, k.decimal) : v \in k.allowed_values}),
                        Violation(c, "allowed_values", "error"))
             If(P, rule) == IF P THEN {<<c, rule>>} ELSE {}
  <1>1. some = col /\ (Repeats(Known(Column(t, c))) <=> Repeats(Column(t, c))) BY AllKnown
  <1>2. Values(t, c) = col BY DEF Values
  <1>3. Rules(T) = If((k.dtype = "number") # (c \in t.num), "type") BY RulesOfWhen
  <1>4. Rules(NN) = If(k.not_null /\ NULL \in col, "not_null") BY <1>2, RulesOfWhen
  <1>5. \A sev : Rules(U(sev)) = If(k.unique /\ Repeats(Column(t, c)), "unique") BY <1>1, RulesOfWhen
  <1>6. Rules(L1) = If(Below(col, k.min_value), "min_value") BY <1>1, RulesOfWhen DEF Below
  <1>7. Rules(L2) = If(Below(col, k.min_value), "min_value") BY <1>1, RulesOfWhen DEF Below
  <1>8. Rules(H1) = If(Above(col, k.max_value), "max_value") BY <1>1, RulesOfWhen DEF Above
  <1>9. Rules(H2) = If(Above(col, k.max_value), "max_value") BY <1>1, RulesOfWhen DEF Above
  <1>10. Rules(A1) = If(~(col \subseteq k.allowed_values), "allowed_values") BY <1>1, RulesOfWhen
  <1>11. Rules(A2) = If(~(col \subseteq k.allowed_values), "allowed_values")
    <2> HIDE DEF c
    <2>1. \A v : Str(v, c \in floats) = Str(v, k.decimal) BY DEF Str, c
    <2>2. \A v, w : Str(v, k.decimal) = Str(w, k.decimal) => v = w BY DEF Str
    <2>3. {Str(v, c \in floats) : v \in Values(t, c)} \subseteq {Str(v, k.decimal) : v \in k.allowed_values}
            <=> col \subseteq k.allowed_values
      BY <1>2, <2>1, <2>2
    <2> QED BY <2>3, RulesOfWhen
  <1>12. ColumnViolations(t, k) = T \cup NN \cup U("warning") \cup L1 \cup H1 \cup A1
    BY DEF ColumnViolations
  <1>13. PromisedColumn(t, k, floats) = T \cup NN \cup L2 \cup H2 \cup A2 \cup U("error")
    BY DEF PromisedColumn
  <1>14. Broken(t, k) = If((k.dtype = "number") # (c \in t.num), "type")
             \cup If(k.not_null /\ NULL \in col, "not_null")
             \cup If(k.unique /\ Repeats(Column(t, c)), "unique")
             \cup If(Below(col, k.min_value), "min_value")
             \cup If(Above(col, k.max_value), "max_value")
             \cup If(~(col \subseteq k.allowed_values), "allowed_values")
    BY DEF Broken
  <1>15. Broken(t, k) = Rules(T) \cup Rules(NN) \cup Rules(U("warning")) \cup Rules(L1) \cup Rules(H1) \cup Rules(A1)
    <2> HIDE DEF T, NN, U, L1, H1, A1, If, col, c
    <2> QED BY <1>3, <1>4, <1>5, <1>6, <1>8, <1>10, <1>14
  <1>16. Broken(t, k) = Rules(T) \cup Rules(NN) \cup Rules(L2) \cup Rules(H2) \cup Rules(A2) \cup Rules(U("error"))
    <2> HIDE DEF T, NN, U, L2, H2, A2, If, col, c
    <2> QED BY <1>3, <1>4, <1>5, <1>7, <1>9, <1>11, <1>14
  <1> HIDE DEF T, NN, U, L1, H1, A1, L2, H2, A2
  <1>17. Rules(ColumnViolations(t, k)) = Broken(t, k) BY <1>12, <1>15 DEF Rules
  <1>18. Rules(PromisedColumn(t, k, floats)) = Broken(t, k) BY <1>13, <1>16 DEF Rules
  <1> QED BY <1>17, <1>18

BrokenRows(t, k) ==
    (IF k.min_rows # NULL /\ Len(t.rows) < k.min_rows THEN {<<"", "min_rows">>} ELSE {})
    \cup (IF k.max_rows # NULL /\ Len(t.rows) > k.max_rows THEN {<<"", "max_rows">>} ELSE {})

BrokenPromises(t, k) ==
    (UNION {IF Has(t, <<c.name>>) THEN Broken(t, c) ELSE {<<c.name, "missing">>} : c \in k.columns})
    \cup BrokenRows(t, k)

\* The severity of a row count makes no difference to the rule.
LEMMA RowRules == ASSUME NEW t, NEW k, NEW sev PROVE Rules(RowViolations(t, k, sev)) = BrokenRows(t, k)
  <1> DEFINE A == When(k.min_rows # NULL /\ Len(t.rows) < k.min_rows, Violation("", "min_rows", "error"))
             B == When(k.max_rows # NULL /\ Len(t.rows) > k.max_rows, Violation("", "max_rows", sev))
  <1>1. Rules(A) = IF k.min_rows # NULL /\ Len(t.rows) < k.min_rows THEN {<<"", "min_rows">>} ELSE {}
    BY RulesOfWhen
  <1>2. Rules(B) = IF k.max_rows # NULL /\ Len(t.rows) > k.max_rows THEN {<<"", "max_rows">>} ELSE {}
    BY RulesOfWhen
  <1>3. RowViolations(t, k, sev) = A \cup B BY DEF RowViolations
  <1> HIDE DEF A, B
  <1>4. Rules(A \cup B) = Rules(A) \cup Rules(B) BY RulesOfUnion
  <1> QED BY <1>1, <1>2, <1>3, <1>4 DEF BrokenRows

\* What makes the engines comparable, see ChecksAgree.
Comparable(t, k, floats) ==
    /\ NoNulls(t)
    /\ \A c \in k.columns : IF Has(t, <<c.name>>)
                            THEN c.name \in t.num /\ (c.decimal <=> c.name \in floats)
                            ELSE c.required
    /\ \A c, d \in k.columns : c.name = d.name => c = d

\* What an inline contract finds.
LEMMA InlineRules ==
    ASSUME NEW t, IsTable(t), NEW k, NEW floats, Comparable(t, k, floats)
    PROVE  Rules(StepContract(t, k)) = BrokenPromises(t, k)
  <1> DEFINE V(c) == IF Has(t, <<c.name>>) THEN ColumnViolations(t, c)
                     ELSE When(c.required, Violation(c.name, "missing", "error"))
             E(c) == IF Has(t, <<c.name>>) THEN Broken(t, c) ELSE {<<c.name, "missing">>}
             W == UNION {V(c) : c \in k.columns}
             RV == RowViolations(t, k, "warning")
  <1>1. ASSUME NEW c \in k.columns PROVE Rules(V(c)) = E(c)
    <2>1. CASE Has(t, <<c.name>>)
      <3>1. c.name \in t.num /\ (c.decimal <=> c.name \in floats) BY <2>1 DEF Comparable
      <3>2. \A i \in Rows(t) : t.rows[i][c.name] # NULL BY <2>1, HasOne DEF Comparable, NoNulls
      <3> QED BY <2>1, <3>1, <3>2, ColumnRules
    <2>2. CASE ~Has(t, <<c.name>>)
      <3>1. c.required BY <2>2 DEF Comparable
      <3>2. V(c) = {Violation(c.name, "missing", "error")} BY <2>2, <3>1 DEF When
      <3> QED BY <2>2, <3>2, RulesOfOne
    <2> QED BY <2>1, <2>2
  <1>2. StepContract(t, k) = W \cup RV BY DEF StepContract
  <1>3. BrokenPromises(t, k) = (UNION {E(c) : c \in k.columns}) \cup BrokenRows(t, k) BY DEF BrokenPromises
  <1> HIDE DEF V, E
  <1>4. Rules(W) = UNION {E(c) : c \in k.columns}
    <2>1. ASSUME NEW x \in Rules(W) PROVE x \in UNION {E(c) : c \in k.columns}
      <3>1. PICK v \in W : x = <<v.column, v.rule>> BY <2>1 DEF Rules
      <3>2. PICK c \in k.columns : v \in V(c) BY <3>1
      <3>3. x \in Rules(V(c)) BY <3>1, <3>2 DEF Rules
      <3> QED BY <1>1, <3>3
    <2>2. ASSUME NEW c \in k.columns, NEW x \in E(c) PROVE x \in Rules(W)
      <3>1. x \in Rules(V(c)) BY <1>1, <2>2
      <3>2. PICK v \in V(c) : x = <<v.column, v.rule>> BY <3>1 DEF Rules
      <3>3. v \in W BY <3>2
      <3> QED BY <3>2, <3>3 DEF Rules
    <2> QED BY <2>1, <2>2
  <1> HIDE DEF W, RV
  <1>5. Rules(RV) = BrokenRows(t, k) BY RowRules DEF RV
  <1>6. Rules(W \cup RV) = Rules(W) \cup Rules(RV) BY RulesOfUnion
  <1> QED BY <1>2, <1>3, <1>4, <1>5, <1>6

\* None of the violations of a promise is of the kinds left out.
LEMMA PromisedRuleNames ==
    ASSUME NEW t, NEW c, NEW floats, NEW v \in PromisedColumn(t, c, floats) \cup {Violation(c.name, "missing", "error")}
    PROVE  v.rule \notin {"unexpected", "null_threshold"}
  <1> DEFINE some == ToSet(Known(Column(t, c.name)))
             T  == When((c.dtype = "number") # (c.name \in t.num), Violation(c.name, "type", "error"))
             NN == When(c.not_null /\ NULL \in Values(t, c.name), Violation(c.name, "not_null", "error"))
             L  == When(Below(some, c.min_value), Violation(c.name, "min_value", "error"))
             H  == When(Above(some, c.max_value), Violation(c.name, "max_value", "error"))
             A  == When(~({Str(x, c.name \in floats) : x \in Values(t, c.name)}
                            \subseteq {Str(x, c.decimal) : x \in c.allowed_values}),
                        Violation(c.name, "allowed_values", "error"))
             U  == When(c.unique /\ Repeats(Known(Column(t, c.name))), Violation(c.name, "unique", "error"))
  <1>1. PromisedColumn(t, c, floats) = T \cup NN \cup L \cup H \cup A \cup U BY DEF PromisedColumn
  <1>2. /\ \A x \in T : x.rule = "type"
        /\ \A x \in NN : x.rule = "not_null"
        /\ \A x \in L : x.rule = "min_value"
        /\ \A x \in H : x.rule = "max_value"
        /\ \A x \in A : x.rule = "allowed_values"
        /\ \A x \in U : x.rule = "unique"
    BY WhenNames
  <1>3. Violation(c.name, "missing", "error").rule = "missing" BY DEF Violation
  <1> HIDE DEF T, NN, L, H, A, U
  <1> QED BY <1>1, <1>2, <1>3

\* Nor is a violation of a row count.
LEMMA RowRuleNames ==
    ASSUME NEW t, NEW k, NEW sev, NEW v \in RowViolations(t, k, sev)
    PROVE  v.rule \notin {"unexpected", "null_threshold"}
  BY WhenNames DEF RowViolations

\* What the contract of the pipeline finds, but for what only it reports.
LEMMA RulesAtEnd ==
    ASSUME NEW t, IsTable(t), NEW k, NEW floats, Comparable(t, k, floats)
    PROVE  Rules({v \in validate_against_contract(t, k, floats) : v.rule \notin {"unexpected", "null_threshold"}})
             = BrokenPromises(t, k)
  <1> DEFINE V(c) == IF Has(t, <<c.name>>) THEN PromisedColumn(t, c, floats)
                     ELSE {Violation(c.name, "missing", "error")}
             E(c) == IF Has(t, <<c.name>>) THEN Broken(t, c) ELSE {<<c.name, "missing">>}
             W == UNION {V(c) : c \in k.columns}
             RV == RowViolations(t, k, "error")
             NT == {Violation(c, "null_threshold", "warning") :
                      c \in {c \in DOMAIN k.null_thresholds \cap ToSet(t.cols) :
                                t.rows # <<>> /\ NullRate(t, c) > k.null_thresholds[c]}}
             UE == {Violation(c, "unexpected", "warning") : c \in ToSet(t.cols) \ {x.name : x \in k.columns}}
             Left == {"unexpected", "null_threshold"}
  <1>1. ASSUME NEW c \in k.columns PROVE Rules(V(c)) = E(c)
    <2>1. CASE Has(t, <<c.name>>)
      <3>1. c.name \in t.num /\ (c.decimal <=> c.name \in floats) BY <2>1 DEF Comparable
      <3>2. \A i \in Rows(t) : t.rows[i][c.name] # NULL BY <2>1, HasOne DEF Comparable, NoNulls
      <3> QED BY <2>1, <3>1, <3>2, ColumnRules
    <2>2. CASE ~Has(t, <<c.name>>)
      BY <2>2, RulesOfOne
    <2> QED BY <2>1, <2>2
  <1>2. validate_against_contract(t, k, floats) = W \cup NT \cup RV \cup UE BY DEF validate_against_contract
  <1>3. BrokenPromises(t, k) = (UNION {E(c) : c \in k.columns}) \cup BrokenRows(t, k) BY DEF BrokenPromises
  <1>4. \A v \in NT \cup UE : v.rule \in Left BY DEF Violation
  <1>5. \A v \in RV : v.rule \notin Left BY RowRuleNames
  <1>6. \A c \in k.columns : \A v \in V(c) : v.rule \notin Left BY PromisedRuleNames
  <1> HIDE DEF V, E, Left, NT, UE, RV
  <1>7. \A v \in W : v.rule \notin Left BY <1>6
  <1>8. {v \in validate_against_contract(t, k, floats) : v.rule \notin Left} = W \cup RV
    <2> HIDE DEF W
    <2> QED BY <1>2, <1>4, <1>5, <1>7
  <1>9. Rules(W) = UNION {E(c) : c \in k.columns}
    <2>1. ASSUME NEW x \in Rules(W) PROVE x \in UNION {E(c) : c \in k.columns}
      <3>1. PICK v \in W : x = <<v.column, v.rule>> BY <2>1 DEF Rules
      <3>2. PICK c \in k.columns : v \in V(c) BY <3>1
      <3>3. x \in Rules(V(c)) BY <3>1, <3>2 DEF Rules
      <3> QED BY <1>1, <3>3
    <2>2. ASSUME NEW c \in k.columns, NEW x \in E(c) PROVE x \in Rules(W)
      <3>1. x \in Rules(V(c)) BY <1>1, <2>2
      <3>2. PICK v \in V(c) : x = <<v.column, v.rule>> BY <3>1 DEF Rules
      <3>3. v \in W BY <3>2
      <3> QED BY <3>2, <3>3 DEF Rules
    <2> QED BY <2>1, <2>2
  <1> HIDE DEF W
  <1>10. Rules(W \cup RV) = BrokenPromises(t, k)
    <2>1. Rules(RV) = BrokenRows(t, k) BY RowRules DEF RV
    <2>2. Rules(W \cup RV) = Rules(W) \cup Rules(RV) BY RulesOfUnion
    <2> QED BY <1>3, <1>9, <2>1, <2>2
  <1> QED BY <1>8, <1>10 DEF Left

\* The rules of a column are found in the contract that names it once.
LEMMA RuleOfColumn ==
    ASSUME NEW t, NEW k, NEW floats, Comparable(t, k, floats), NEW c \in k.columns, Has(t, <<c.name>>),
           NEW rule \in {"type", "not_null", "unique", "min_value", "max_value", "allowed_values"}
    PROVE  <<c.name, rule>> \in BrokenPromises(t, k) <=> <<c.name, rule>> \in Broken(t, c)
  <1> DEFINE E(d) == IF Has(t, <<d.name>>) THEN Broken(t, d) ELSE {<<d.name, "missing">>}
  <1>1. BrokenPromises(t, k) = (UNION {E(d) : d \in k.columns}) \cup BrokenRows(t, k) BY DEF BrokenPromises
  <1>2. <<c.name, rule>> \notin BrokenRows(t, k) BY DEF BrokenRows
  <1>3. \A d \in k.columns : \A x \in E(d) : x[1] = d.name BY DEF Broken
  <1>4. E(c) = Broken(t, c) OBVIOUS
  <1>5. \A d \in k.columns : d.name = c.name => d = c BY DEF Comparable
  <1> HIDE DEF E
  <1>6. ASSUME NEW d \in k.columns, <<c.name, rule>> \in E(d) PROVE d = c
    BY <1>3, <1>5, <1>6
  <1> QED BY <1>1, <1>2, <1>4, <1>6

\* The rules a column breaks, one by one.
LEMMA RulesOfColumn ==
    ASSUME NEW t, NEW c
    PROVE  LET col == ToSet(Column(t, c.name))
           IN  /\ <<c.name, "min_value">> \in Broken(t, c) <=> Below(col, c.min_value)
               /\ <<c.name, "max_value">> \in Broken(t, c) <=> Above(col, c.max_value)
               /\ <<c.name, "allowed_values">> \in Broken(t, c) <=> ~(col \subseteq c.allowed_values)
               /\ <<c.name, "unique">> \in Broken(t, c) <=> c.unique /\ Repeats(Column(t, c.name))
  <1> DEFINE col == ToSet(Column(t, c.name))
             P1 == (c.dtype = "number") # (c.name \in t.num)
             P2 == c.not_null /\ NULL \in col
             P3 == c.unique /\ Repeats(Column(t, c.name))
             P4 == Below(col, c.min_value)
             P5 == Above(col, c.max_value)
             P6 == ~(col \subseteq c.allowed_values)
  <1>1. Broken(t, c) = (IF P1 THEN {<<c.name, "type">>} ELSE {})
                       \cup (IF P2 THEN {<<c.name, "not_null">>} ELSE {})
                       \cup (IF P3 THEN {<<c.name, "unique">>} ELSE {})
                       \cup (IF P4 THEN {<<c.name, "min_value">>} ELSE {})
                       \cup (IF P5 THEN {<<c.name, "max_value">>} ELSE {})
                       \cup (IF P6 THEN {<<c.name, "allowed_values">>} ELSE {})
    BY DEF Broken
  <1> HIDE DEF P1, P2, P3, P4, P5, P6
  <1>2. /\ <<c.name, "min_value">> \in Broken(t, c) <=> P4
        /\ <<c.name, "max_value">> \in Broken(t, c) <=> P5
        /\ <<c.name, "allowed_values">> \in Broken(t, c) <=> P6
        /\ <<c.name, "unique">> \in Broken(t, c) <=> P3
    BY <1>1
  <1> QED BY <1>2 DEF P3, P4, P5, P6

\* What a validate rule says of a column without nulls.
LEMMA ValidateRules ==
    ASSUME NEW t, IsTable(t), NEW c, Has(t, <<c.name>>), \A i \in Rows(t) : t.rows[i][c.name] # NULL
    PROVE  LET col == ToSet(Column(t, c.name))
               Violated(check) == RuleFails(t, [check |-> check, column |-> c.name, min |-> c.min_value,
                                             max |-> c.max_value, values |-> c.allowed_values])
           IN  /\ Violated("between") <=> \E v \in col : v < c.min_value \/ v > c.max_value
               /\ Violated("in_values") <=> ~(col \subseteq c.allowed_values)
               /\ Violated("no_duplicates") <=> Repeats(Column(t, c.name))
  <1> DEFINE r(check) == [check |-> check, column |-> c.name, min |-> c.min_value,
                          max |-> c.max_value, values |-> c.allowed_values]
             col == Column(t, c.name)
  <1>1. \A check : /\ r(check).check = check /\ r(check).column = c.name
                   /\ r(check).min = c.min_value /\ r(check).max = c.max_value
                   /\ r(check).values = c.allowed_values
    OBVIOUS
  <1>2. ToSet(Known(col)) = ToSet(col) BY AllKnown
  <1> HIDE DEF r
  <1>3. RuleFails(t, r("between")) <=> \E v \in ToSet(col) : v < c.min_value \/ v > c.max_value
    BY <1>1, <1>2 DEF RuleFails
  <1>4. RuleFails(t, r("in_values")) <=> ~(ToSet(col) \subseteq c.allowed_values)
    BY <1>1 DEF RuleFails
  <1>5. RuleFails(t, r("no_duplicates")) <=> Repeats(col)
    BY <1>1 DEF RuleFails
  <1> QED BY <1>3, <1>4, <1>5 DEF r

\* Whatever the step and the engine, the output of a step on tables is a table.
LEMMA StepMakesTables ==
    ASSUME NEW t, IsTable(t), NEW u, IsTable(u), NEW s, IsConfig(s),
           NEW out, out \in Pandas(t, u, s) \/ (s.type \in DuckDBCapable /\ out \in build_sql_for_step(t, u, s))
    PROVE  IsTable(out)
  <1>1. s.type \in StepTypes BY DEF IsConfig
  <1>2. CASE s.type = "filter" BY <1>2, FilterMakesTables DEF Pandas, build_sql_for_step
  <1>3. CASE s.type = "select" BY <1>3, SelectMakesTables DEF Pandas, build_sql_for_step
  <1>4. CASE s.type = "rename" BY <1>4, RenameMakesTables DEF Pandas, DuckDBCapable
  <1>5. CASE s.type = "join" BY <1>5, JoinMakesTables DEF Pandas, build_sql_for_step
  <1>6. CASE s.type = "aggregate" BY <1>6, AggregateMakesTables DEF Pandas, build_sql_for_step
  <1>7. CASE s.type = "sort" BY <1>7, SortMakesTables DEF Pandas, build_sql_for_step
  <1>8. CASE s.type = "deduplicate" BY <1>8, DeduplicateMakesTables DEF Pandas, build_sql_for_step
  <1>9. CASE s.type = "sample" BY <1>9, SampleMakesTables DEF Pandas, build_sql_for_step
  <1>10. CASE s.type = "fill_nulls" BY <1>10, FillMakesTables DEF Pandas, build_sql_for_step
  <1>11. CASE s.type = "pivot" BY <1>11, PivotMakesTables DEF Pandas, build_sql_for_step
  <1>12. CASE s.type = "unpivot"
    <2>1. DOMAIN s.value_vars = 1..Len(s.value_vars) /\ Len(s.value_vars) \in Nat BY <1>12 DEF IsConfig
    <2>2. IsFiniteSet(DOMAIN s.value_vars) BY <2>1, FS_Interval
    <2> QED BY <1>12, <2>2, UnpivotMakesTables DEF Pandas, build_sql_for_step
  <1>13. CASE s.type = "wasm_compute" BY <1>13, WasmMakesTables DEF Pandas, DuckDBCapable
  <1>14. CASE s.type \in {"save", "validate", "stream_publish"}
    BY <1>14 DEF Pandas, DuckDBCapable, execute_save, execute_validate, execute_stream_publish
  <1> QED BY <1>1, <1>2, <1>3, <1>4, <1>5, <1>6, <1>7, <1>8, <1>9, <1>10, <1>11, <1>12, <1>13, <1>14
          DEF StepTypes, DuckDBCapable

\* Whatever the step, the two engines have the same outcomes on tables without nulls.
LEMMA StepsAgree ==
    ASSUME NEW t, IsTable(t), NoNulls(t), NEW u, NoNulls(u), NEW s, IsConfig(s),
           s.type \in DuckDBCapable, SameMeaning(t, u, s)
    PROVE  {Content(x) : x \in Pandas(t, u, s)} = {Content(x) : x \in build_sql_for_step(t, u, s)}
  <1>1. CASE s.type = "filter"
    <2>1. Alike(t, s) \/ (s.operator \in Comparisons <=> s.value = Text) BY <1>1 DEF SameMeaning
    <2> QED BY <1>1, <2>1, FiltersAgree DEF Pandas, build_sql_for_step
  <1>2. CASE s.type = "select"
    BY <1>2 DEF Pandas, build_sql_for_step, build_select_sql, SameMeaning
  <1>3. CASE s.type = "join" BY <1>3, JoinsAgree DEF Pandas, build_sql_for_step, SameMeaning
  <1>4. CASE s.type = "aggregate"
    <2>1. s.group_by \in Seq(STRING) /\ s.aggregations \in Seq([column : STRING, function : STRING, alias : STRING \cup {NULL}])
      BY <1>4 DEF IsConfig
    <2>2. s.aggregations \in Seq(ToSet(s.aggregations)) BY <2>1 DEF ToSet
    <2>3. /\ ByColumn(s.aggregations) = s.aggregations
          /\ \A a \in ToSet(s.aggregations) : /\ SqlAlias(a) = OutputName(a)
                                              /\ a.function \notin {"first", "last"}
                                              /\ a.function = "median" => a.column \in t.num
      BY <1>4 DEF SameMeaning
    <2> QED BY <1>4, <2>1, <2>2, <2>3, AggregatesAgree DEF Pandas, build_sql_for_step
  <1>5. CASE s.type = "sort" BY <1>5 DEF Pandas, build_sql_for_step, build_sort_sql
  <1>6. CASE s.type = "deduplicate" BY <1>6, DeduplicatesAgree DEF Pandas, build_sql_for_step, SameMeaning
  <1>7. CASE s.type = "sample" BY <1>7, SamplesAgree DEF Pandas, build_sql_for_step, SameMeaning
  <1>8. CASE s.type = "fill_nulls"
    <2>1. /\ s.columns # <<>> /\ Distinct(s.columns)
          /\ s.strategy = "constant" => s.constant_value # NULL
          /\ s.strategy \in {"constant", "median"} => ToSet(s.columns) \subseteq t.num
      BY <1>8 DEF SameMeaning
    <2> QED BY <1>8, <2>1, FillsAgree DEF Pandas, build_sql_for_step
  <1>9. CASE s.type = "pivot" BY <1>9, PivotsAgree DEF Pandas, build_sql_for_step, SameMeaning
  <1>10. CASE s.type = "unpivot" BY <1>10, UnpivotsAgree DEF Pandas, build_sql_for_step, SameMeaning
  <1> QED BY <1>1, <1>2, <1>3, <1>4, <1>5, <1>6, <1>7, <1>8, <1>9, <1>10 DEF DuckDBCapable

-----------------------------------------------------------------------------
(* The invariant of Steps, and what follows from it.                       *)

\* Names of the tables after the steps executed so far.
TablesInv ==
    /\ done \in 0..MaxSteps
    /\ DOMAIN tables = {"a", "b"} \cup {StepNames[i] : i \in 1..done}
    /\ \A n \in DOMAIN tables : IsTable(tables[n])

\* Column policies remove columns and change cells.
LEMMA PoliciesMakeTables ==
    ASSUME NEW t, IsTable(t), NEW role, NEW policies
    PROVE  IsTable(apply_column_policies(t, role, policies))
  <1> DEFINE Applies(p) == role \notin p.allowed_roles /\ Has(t, <<p.column>>)
             redacted == {p.column : p \in {p \in policies : Applies(p) /\ p.policy = "redacted"}}
             masked   == {p.column : p \in {p \in policies : Applies(p) /\ p.policy = "masked"}}
             cols     == Take(t.cols, Indices({i \in DOMAIN t.cols : t.cols[i] \notin redacted}))
             rows     == [i \in Rows(t) |-> [c \in ToSet(cols) |->
                            IF c \in masked THEN ApplyMask(t.rows[i][c]) ELSE t.rows[i][c]]]
  <1>1. apply_column_policies(t, role, policies) = Table(cols, t.num \ (redacted \cup masked), rows)
    BY DEF apply_column_policies
  <1> HIDE DEF cols, redacted, masked
  <1>2. rows = [i \in Rows(t) |-> rows[i]] OBVIOUS
  <1>3. \A i \in Rows(t) : rows[i] = [c \in ToSet(cols) |-> rows[i][c]] OBVIOUS
  <1> HIDE DEF rows
  <1> QED BY <1>1, <1>2, <1>3, RowwiseMakesTable

\* The loaded tables are well formed.
LEMMA TablesInvInit == Init => TablesInv
  <1> SUFFICES ASSUME Init PROVE TablesInv OBVIOUS
  <1>1. PICK t \in LoadTables, policies \in Policies :
          /\ tables = [n \in {"a", "b"} |->
                         IF n = "a" THEN apply_column_policies(t, "viewer", policies) ELSE RightTable]
          /\ done = 0
    BY DEF Init
  <1>2. IsTable(apply_column_policies(t, "viewer", policies)) /\ IsTable(RightTable)
    BY StepsAssumption, PoliciesMakeTables
  <1>3. done \in 0..MaxSteps BY <1>1, StepsAssumption DEF StepNames
  <1>4. {StepNames[i] : i \in 1..done} = {} BY <1>1
  <1> QED BY <1>1, <1>2, <1>3, <1>4 DEF TablesInv

\* The output of a step is stored under the name of the step.
LEMMA FinishKeepsTablesInv ==
    ASSUME TablesInv, done < MaxSteps, NEW in, NEW right, NEW s, NEW out, IsTable(out),
           Finish(StepNames[done + 1], in, right, s, out)
    PROVE  TablesInv'
  <1> DEFINE name == StepNames[done + 1]
  <1>1. /\ DOMAIN tables' = {name} \cup DOMAIN tables
        /\ tables'[name] = out
        /\ \A n \in DOMAIN tables : n # name => tables'[n] = tables[n]
    BY DEF Finish, Put
  <1>2. done' = done + 1 /\ done \in Nat /\ done' \in 0..MaxSteps
    BY StepsAssumption DEF Finish, TablesInv
  <1>3. 1..done' = (1..done) \cup {done + 1} BY <1>2
  <1>4. DOMAIN tables' = {"a", "b"} \cup {StepNames[i] : i \in 1..done'}
    BY <1>1, <1>3 DEF TablesInv
  <1>5. \A n \in DOMAIN tables' : IsTable(tables'[n])
    BY <1>1 DEF TablesInv
  <1>6. TablesInv' <=> /\ done' \in 0..MaxSteps
                       /\ DOMAIN tables' = {"a", "b"} \cup {StepNames[i] : i \in 1..done'}
                       /\ \A n \in DOMAIN tables' : IsTable(tables'[n])
    BY DEF TablesInv
  <1> QED BY <1>2, <1>4, <1>5, <1>6

\* Every step keeps the tables well formed.
LEMMA TablesInvNext == TablesInv /\ [Next]_vars => TablesInv'
  <1>1. ASSUME TablesInv, NEW in \in DOMAIN tables, NEW s \in Configs, ExecutePandas(in, s) PROVE TablesInv'
    <2>1. PICK out \in Pandas(tables[in], tables["b"], s) : Finish(StepNames[done + 1], in, "b", s, out)
      BY <1>1 DEF ExecutePandas
    <2>2. IsTable(tables[in]) /\ IsTable(tables["b"]) BY <1>1 DEF TablesInv
    <2>3. IsTable(out) BY <2>1, <2>2, StepMakesTables, StepsAssumption
    <2> QED BY <1>1, <2>1, <2>3, FinishKeepsTablesInv DEF ExecutePandas
  <1>2. ASSUME TablesInv, NEW in \in DOMAIN tables, NEW s \in Configs, ExecuteDuckDB(in, s) PROVE TablesInv'
    <2>1. PICK out \in build_sql_for_step(tables[in], tables["b"], s) :
            Finish(StepNames[done + 1], in, "b", s, out)
      BY <1>2 DEF ExecuteDuckDB
    <2>2. IsTable(tables[in]) /\ IsTable(tables["b"]) BY <1>2 DEF TablesInv
    <2>3. IsTable(out) BY <1>2, <2>1, <2>2, StepMakesTables, StepsAssumption DEF ExecuteDuckDB
    <2> QED BY <1>2, <2>1, <2>3, FinishKeepsTablesInv DEF ExecuteDuckDB
  <1>3. ASSUME TablesInv, NEW in, NEW s, StepRaises(in, s) PROVE TablesInv'
    BY <1>3 DEF StepRaises, TablesInv
  <1>4. ASSUME TablesInv, UNCHANGED vars PROVE TablesInv' BY <1>4 DEF vars, TablesInv
  <1> QED BY <1>1, <1>2, <1>3, <1>4 DEF Next

\* Every table the registry holds is well formed.
THEOREM TablesAreWellFormed == Spec => []TablesInv
  BY TablesInvInit, TablesInvNext, PTL DEF Spec

\* The table that was stored last is one of them.
LEMMA LatestIsTable == TablesInv => IsTable(Latest)
  <1> SUFFICES ASSUME TablesInv PROVE IsTable(Latest) OBVIOUS
  <1>1. CASE done = 0 BY <1>1 DEF TablesInv, Latest
  <1>2. CASE done # 0
    <2>1. done \in 1..done BY <1>2, StepsAssumption DEF TablesInv
    <2>2. StepNames[done] \in DOMAIN tables BY <2>1 DEF TablesInv
    <2> QED BY <1>2, <2>2 DEF TablesInv, Latest
  <1> QED BY <1>1, <1>2

\* On well-formed tables the engines agree.
LEMMA TablesInvEnginesAgree == TablesInv => EnginesAgree
  <1> SUFFICES ASSUME TablesInv, NEW s \in Configs, s.type \in DuckDBCapable,
                      NoNulls(Latest), NoNulls(tables["b"]), SameMeaning(Latest, tables["b"], s)
               PROVE  {Content(x) : x \in Pandas(Latest, tables["b"], s)}
                        = {Content(x) : x \in build_sql_for_step(Latest, tables["b"], s)}
    BY DEF EnginesAgree
  <1> QED BY LatestIsTable, StepsAgree, StepsAssumption

\* Whether a table is above the row threshold never changes what a step computes:
\* at any point of any run, on tables without nulls, the query of sql_builder and
\* the Pandas executor have the same outcomes, for tables of any size.
THEOREM EnginesAlwaysAgree == Spec => []EnginesAgree
  BY TablesAreWellFormed, TablesInvEnginesAgree, PTL

\* The three rule engines agree on one table and one contract.
LEMMA PromisesAgree ==
    ASSUME NEW t, IsTable(t), NEW k, k # NULL, NEW floats, Comparable(t, k, floats)
    PROVE  LET inline == Rules(validate_step_contract(t, k))
               atEnd  == Rules({v \in validate_against_contract(t, k, floats) :
                                  v.rule \notin {"unexpected", "null_threshold"}})
               Violated(c, check) == RuleFails(t, [check |-> check, column |-> c.name, min |-> c.min_value,
                                                max |-> c.max_value, values |-> c.allowed_values])
           IN  /\ inline = atEnd
               /\ \A c \in k.columns : Has(t, <<c.name>>) =>
                     /\ NULL \notin {c.min_value, c.max_value} =>
                          (Violated(c, "between")
                              <=> inline \cap {<<c.name, "min_value">>, <<c.name, "max_value">>} # {})
                     /\ Violated(c, "in_values") <=> <<c.name, "allowed_values">> \in inline
                     /\ c.unique => (Violated(c, "no_duplicates") <=> <<c.name, "unique">> \in inline)
  <1> DEFINE inline == Rules(validate_step_contract(t, k))
             B == BrokenPromises(t, k)
             Violated(c, check) == RuleFails(t, [check |-> check, column |-> c.name, min |-> c.min_value,
                                              max |-> c.max_value, values |-> c.allowed_values])
  <1>1. inline = B BY InlineRules DEF validate_step_contract
  <1>2. Rules({v \in validate_against_contract(t, k, floats) : v.rule \notin {"unexpected", "null_threshold"}}) = B
    BY RulesAtEnd
  <1>3. ASSUME NEW c \in k.columns, Has(t, <<c.name>>)
        PROVE  /\ NULL \notin {c.min_value, c.max_value} =>
                    (Violated(c, "between") <=> B \cap {<<c.name, "min_value">>, <<c.name, "max_value">>} # {})
               /\ Violated(c, "in_values") <=> <<c.name, "allowed_values">> \in B
               /\ c.unique => (Violated(c, "no_duplicates") <=> <<c.name, "unique">> \in B)
    <2> DEFINE col == ToSet(Column(t, c.name))
    <2>1. \A i \in Rows(t) : t.rows[i][c.name] # NULL BY <1>3, HasOne DEF Comparable, NoNulls
    <2>2. /\ Violated(c, "between") <=> \E v \in col : v < c.min_value \/ v > c.max_value
          /\ Violated(c, "in_values") <=> ~(col \subseteq c.allowed_values)
          /\ Violated(c, "no_duplicates") <=> Repeats(Column(t, c.name))
      BY <1>3, <2>1, ValidateRules
    <2>3. /\ <<c.name, "min_value">> \in B <=> Below(col, c.min_value)
          /\ <<c.name, "max_value">> \in B <=> Above(col, c.max_value)
          /\ <<c.name, "allowed_values">> \in B <=> ~(col \subseteq c.allowed_values)
          /\ <<c.name, "unique">> \in B <=> c.unique /\ Repeats(Column(t, c.name))
      BY <1>3, RuleOfColumn, RulesOfColumn
    <2> HIDE DEF B, Violated, col
    <2>4. NULL \notin {c.min_value, c.max_value} =>
            ((Below(col, c.min_value) \/ Above(col, c.max_value))
                <=> \E v \in col : v < c.min_value \/ v > c.max_value)
      BY DEF Below, Above
    <2> QED BY <2>2, <2>3, <2>4
  <1> HIDE DEF inline, B, Violated
  <1>4. /\ inline = B
        /\ \A c \in k.columns : Has(t, <<c.name>>) =>
             /\ NULL \notin {c.min_value, c.max_value} =>
                  (Violated(c, "between")
                      <=> inline \cap {<<c.name, "min_value">>, <<c.name, "max_value">>} # {})
             /\ Violated(c, "in_values") <=> <<c.name, "allowed_values">> \in inline
             /\ c.unique => (Violated(c, "no_duplicates") <=> <<c.name, "unique">> \in inline)
    BY <1>1, <1>3
  <1> QED BY <1>2, <1>4 DEF inline, Violated

\* On well-formed tables the rule engines agree.
LEMMA TablesInvChecksAgree == TablesInv => ChecksAgree
  BY LatestIsTable, PromisesAgree, StepsAssumption DEF ChecksAgree, Comparable

\* An inline contract, the contract of the pipeline and the validate rules never
\* contradict each other on a table without nulls, for tables of any size.
THEOREM ChecksAlwaysAgree == Spec => []ChecksAgree
  BY TablesAreWellFormed, TablesInvChecksAgree, PTL

-----------------------------------------------------------------------------
(* Lineage.                                                                *)

\* Induction up to a bound, for a set.
LEMMA SetInduction ==
    ASSUME NEW d \in Nat, NEW S, 0 \in S, \A k \in 1..d : k - 1 \in S => k \in S
    PROVE  0..d \subseteq S
  <1> SUFFICES ASSUME (0..d) \ S # {} PROVE FALSE OBVIOUS
  <1> DEFINE T == (0..d) \ S
  <1>1. T \in SUBSET Int /\ IsFiniteSet(T)
    <2>1. 0 \in Int /\ d \in Int OBVIOUS
    <2>2. IsFiniteSet(0..d) BY <2>1, FS_Interval
    <2> QED BY <2>2, FS_Subset
  <1>2. PICK x \in T : \A y \in T : ~(y < x) BY <1>1, Extremes
  <1>3. x \in 1..d /\ x - 1 \in 0..d /\ x - 1 < x BY <1>2
  <1>4. x - 1 \in S BY <1>2, <1>3
  <1> QED BY <1>2, <1>3, <1>4

-----------------------------------------------------------------------------
(* The levels of a search.                                                 *)

\* F adds to a set of nodes those next to it.
IsLevels(f, F, A, d) == f = [k \in 0..d |-> IF k = 0 THEN A ELSE F[f[k - 1]]]
Climbs(f, F, A, N) ==
    /\ f[0] = A
    /\ \A k \in 1..Cardinality(N) : f[k - 1] \in SUBSET N => f[k] = F[f[k - 1]]
Grows(F, N) == \A L \in SUBSET N : L \subseteq F[L]

\* There are levels up to any distance.
LEMMA LevelsExist ==
    ASSUME NEW X0, NEW F \in [SUBSET X0 -> SUBSET X0], NEW A \in SUBSET X0, NEW d \in Nat
    PROVE  \E f \in [0..d -> SUBSET X0] : IsLevels(f, F, A, d)
  <1> DEFINE Levels(f, k) == f = [i \in 0..k |-> IF i = 0 THEN A ELSE F[f[i - 1]]]
             S == {k \in 0..d : \E f \in [0..k -> SUBSET X0] : Levels(f, k)}
  <1>1. 0 \in S
    <2> DEFINE f == [i \in 0..0 |-> A]
    <2>1. f \in [0..0 -> SUBSET X0] OBVIOUS
    <2>2. Levels(f, 0)
      <3>1. \A i \in 0..0 : i = 0 OBVIOUS
      <3> QED BY <3>1
    <2>3. 0 \in 0..d OBVIOUS
    <2> HIDE DEF f
    <2> QED BY <2>1, <2>2, <2>3
  <1>2. ASSUME NEW k \in 1..d, k - 1 \in S PROVE k \in S
    <2>1. PICK f \in [0..(k - 1) -> SUBSET X0] : Levels(f, k - 1) BY <1>2
    <2> DEFINE h == [i \in 0..k |-> IF i = k THEN F[f[k - 1]] ELSE f[i]]
    <2>2. k - 1 \in 0..(k - 1) /\ k \in 0..d OBVIOUS
    <2>3. \A i \in 0..k : i = k \/ i \in 0..(k - 1) OBVIOUS
    <2>4. h \in [0..k -> SUBSET X0] BY <2>2, <2>3
    <2>5. \A i \in 0..k : h[i] = IF i = 0 THEN A ELSE F[h[i - 1]]
      <3>1. ASSUME NEW i \in 0..k PROVE h[i] = IF i = 0 THEN A ELSE F[h[i - 1]]
        <4>1. CASE i = k
          <5>1. h[k - 1] = f[k - 1] /\ k # 0 BY <2>2
          <5> QED BY <4>1, <5>1
        <4>2. CASE i # k
          <5>1. i \in 0..(k - 1) /\ (i # 0 => i - 1 \in 0..(k - 1)) /\ i - 1 # k BY <4>2
          <5>2. h[i] = f[i] BY <4>2
          <5>3. i # 0 => h[i - 1] = f[i - 1] BY <5>1
          <5>4. f[i] = IF i = 0 THEN A ELSE F[f[i - 1]] BY <2>1, <5>1
          <5> QED BY <5>2, <5>3, <5>4
        <4> QED BY <4>1, <4>2
      <3> QED BY <3>1
    <2>6. h = [i \in 0..k |-> h[i]] OBVIOUS
    <2> HIDE DEF h
    <2>7. Levels(h, k) BY <2>5, <2>6
    <2> QED BY <2>2, <2>4, <2>7
  <1>3. 0..d \subseteq S
    <2> HIDE DEF S
    <2> QED BY <1>1, <1>2, SetInduction
  <1>4. d \in S BY <1>3
  <1> QED BY <1>4 DEF IsLevels

\* After as many levels as there are nodes, nothing is added any more.
LEMMA LevelsSaturate ==
    ASSUME NEW X0, IsFiniteSet(X0), NEW F \in [SUBSET X0 -> SUBSET X0],
           Grows(F, X0), NEW A \in SUBSET X0, A # {}, NEW f, Climbs(f, F, A, X0)
    PROVE  LET d == Cardinality(X0) IN f[d] \in SUBSET X0 /\ A \subseteq f[d] /\ F[f[d]] = f[d]
  <1> DEFINE d == Cardinality(X0)
             S == {k \in 0..d : /\ f[k] \in SUBSET X0
                                /\ A \subseteq f[k]
                                /\ F[f[k]] = f[k] \/ Cardinality(f[k]) > k}
  <1> USE DEF Climbs, Grows
  <1>0. d \in Nat BY FS_CardinalityType
  <1>1. 0 \in S
    <2>1. IsFiniteSet(A) BY FS_Subset
    <2>2. Cardinality(A) \in Nat /\ Cardinality(A) # 0 BY <2>1, FS_CardinalityType, FS_EmptySet
    <2> QED BY <1>0, <2>2
  <1>2. ASSUME NEW k \in 1..d, k - 1 \in S PROVE k \in S
    <2> DEFINE L == f[k - 1]
    <2>1. L \in SUBSET X0 /\ A \subseteq L /\ (F[L] = L \/ Cardinality(L) > k - 1) BY <1>2
    <2>2. f[k] = F[L] BY <2>1
    <2>3. L \subseteq f[k] /\ f[k] \in SUBSET X0 BY <2>1, <2>2
    <2>4. CASE f[k] = L BY <1>0, <2>1, <2>2, <2>3, <2>4
    <2>5. CASE f[k] # L
      <3>1. IsFiniteSet(f[k]) BY <2>3, FS_Subset
      <3>2. IsFiniteSet(L) /\ Cardinality(L) <= Cardinality(f[k]) /\ Cardinality(L) # Cardinality(f[k])
        BY <2>3, <2>5, <3>1, FS_Subset
      <3>3. Cardinality(L) \in Nat /\ Cardinality(f[k]) \in Nat BY <3>1, <3>2, FS_CardinalityType
      <3>4. Cardinality(L) > k - 1 BY <2>1, <2>2, <2>5
      <3> HIDE DEF L
      <3>5. Cardinality(f[k]) > k BY <3>2, <3>3, <3>4, <1>0
      <3> QED BY <1>0, <2>1, <2>3, <3>5
    <2> QED BY <2>4, <2>5
  <1>3. d \in S
    <2> HIDE DEF S
    <2>1. \A k \in 1..d : k - 1 \in S => k \in S BY <1>2
    <2>2. 0..d \subseteq S BY <1>0, <1>1, <2>1, SetInduction
    <2> QED BY <1>0, <2>2
  <1>4. ~(Cardinality(f[d]) > d)
    <2>1. f[d] \in SUBSET X0 BY <1>3
    <2>2. Cardinality(f[d]) <= d /\ IsFiniteSet(f[d]) BY <2>1, FS_Subset
    <2>3. Cardinality(f[d]) \in Nat BY <2>2, FS_CardinalityType
    <2> HIDE DEF d
    <2> QED BY <1>0, <2>2, <2>3
  <1> QED BY <1>3, <1>4

\* The search backwards ends with all there is before a node.
LEMMA BeforeIsClosed ==
    ASSUME NEW g, IsFiniteSet(Nodes(g)), NEW n \in Nodes(g)
    PROVE  LET A == Before(g, n, Cardinality(Nodes(g)))
           IN  n \in A /\ A \subseteq Nodes(g) /\ Preds(g, A) \subseteq A
  <1> DEFINE d == Cardinality(Nodes(g))
             F == [L \in SUBSET Nodes(g) |-> L \cup Preds(g, L)]
             Level(f) == f = [k \in 0..d |-> IF k = 0 THEN {n} ELSE LET near == f[k - 1] IN near \cup Preds(g, near)]
             level == CHOOSE f : Level(f)
  <1>1. d \in Nat BY FS_CardinalityType
  <1>2. \A L \in SUBSET Nodes(g) : Preds(g, L) \subseteq Nodes(g) BY DEF Preds, Nodes
  <1>3. F \in [SUBSET Nodes(g) -> SUBSET Nodes(g)] BY <1>2
  <1>4. {n} \in SUBSET Nodes(g) /\ {n} # {} OBVIOUS
  <1> HIDE DEF d
  <1>5. \E f : Level(f)
    <2> HIDE DEF F
    <2>1. PICK f \in [0..d -> SUBSET Nodes(g)] : IsLevels(f, F, {n}, d)
      BY <1>1, <1>3, <1>4, LevelsExist
    <2>2. ASSUME NEW k \in 0..d, k # 0 PROVE F[f[k - 1]] = f[k - 1] \cup Preds(g, f[k - 1])
      <3>1. k - 1 \in 0..d BY <1>1, <2>2
      <3> QED BY <2>1, <3>1 DEF F
    <2>3. f = [k \in 0..d |-> IF k = 0 THEN {n} ELSE f[k - 1] \cup Preds(g, f[k - 1])] BY <2>1, <2>2 DEF IsLevels
    <2> QED BY <2>3
  <1>6. Level(level) BY <1>5
  <1>7. Before(g, n, d) = level[d] BY DEF Before
  <1> HIDE DEF level
  <1>8. level[0] = {n} BY <1>1, <1>6
  <1>9. Climbs(level, F, {n}, Nodes(g))
    <2>1. ASSUME NEW k \in 1..d, level[k - 1] \in SUBSET Nodes(g) PROVE level[k] = F[level[k - 1]]
      <3>1. k \in 0..d /\ k # 0 BY <1>1
      <3>2. level[k] = level[k - 1] \cup Preds(g, level[k - 1]) BY <1>6, <3>1
      <3> QED BY <2>1, <3>2
    <2> QED BY <1>8, <2>1 DEF Climbs, d
  <1>10. Grows(F, Nodes(g)) BY DEF Grows
  <1> HIDE DEF F, Level
  <1>11. level[d] \in SUBSET Nodes(g) /\ {n} \subseteq level[d] /\ F[level[d]] = level[d]
    <2> DEFINE M == Nodes(g)  A == {n}
    <2>1. /\ IsFiniteSet(M) /\ F \in [SUBSET M -> SUBSET M] /\ Grows(F, M)
          /\ A \in SUBSET M /\ A # {} /\ Climbs(level, F, A, M)
      BY <1>3, <1>4, <1>9, <1>10
    <2> HIDE DEF M, A
    <2>2. /\ level[Cardinality(M)] \in SUBSET M /\ A \subseteq level[Cardinality(M)]
          /\ F[level[Cardinality(M)]] = level[Cardinality(M)]
      BY ONLY <2>1, LevelsSaturate
    <2> QED BY <2>2 DEF M, A, d
  <1>12. Preds(g, level[d]) \subseteq level[d] BY <1>11 DEF F
  <1> QED BY <1>7, <1>11, <1>12 DEF d

\* And the search forwards with all there is after it.
LEMMA AfterIsClosed ==
    ASSUME NEW g, IsFiniteSet(Nodes(g)), \A e \in g.edges : e[2] \in Nodes(g), NEW n \in Nodes(g)
    PROVE  LET A == After(g, n, Cardinality(Nodes(g)))
           IN  n \in A /\ A \subseteq Nodes(g) /\ Succs(g, A) \subseteq A
  <1> DEFINE d == Cardinality(Nodes(g))
             F == [L \in SUBSET Nodes(g) |-> L \cup Succs(g, L)]
             Level(f) == f = [k \in 0..d |-> IF k = 0 THEN {n} ELSE LET near == f[k - 1] IN near \cup Succs(g, near)]
             level == CHOOSE f : Level(f)
  <1>1. d \in Nat BY FS_CardinalityType
  <1>2. \A L \in SUBSET Nodes(g) : Succs(g, L) \subseteq Nodes(g) BY DEF Succs, Nodes
  <1>3. F \in [SUBSET Nodes(g) -> SUBSET Nodes(g)] BY <1>2
  <1>4. {n} \in SUBSET Nodes(g) /\ {n} # {} OBVIOUS
  <1> HIDE DEF d
  <1>5. \E f : Level(f)
    <2> HIDE DEF F
    <2>1. PICK f \in [0..d -> SUBSET Nodes(g)] : IsLevels(f, F, {n}, d)
      BY <1>1, <1>3, <1>4, LevelsExist
    <2>2. ASSUME NEW k \in 0..d, k # 0 PROVE F[f[k - 1]] = f[k - 1] \cup Succs(g, f[k - 1])
      <3>1. k - 1 \in 0..d BY <1>1, <2>2
      <3> QED BY <2>1, <3>1 DEF F
    <2>3. f = [k \in 0..d |-> IF k = 0 THEN {n} ELSE f[k - 1] \cup Succs(g, f[k - 1])] BY <2>1, <2>2 DEF IsLevels
    <2> QED BY <2>3
  <1>6. Level(level) BY <1>5
  <1>7. After(g, n, d) = level[d] BY DEF After
  <1> HIDE DEF level
  <1>8. level[0] = {n} BY <1>1, <1>6
  <1>9. Climbs(level, F, {n}, Nodes(g))
    <2>1. ASSUME NEW k \in 1..d, level[k - 1] \in SUBSET Nodes(g) PROVE level[k] = F[level[k - 1]]
      <3>1. k \in 0..d /\ k # 0 BY <1>1
      <3>2. level[k] = level[k - 1] \cup Succs(g, level[k - 1]) BY <1>6, <3>1
      <3> QED BY <2>1, <3>2
    <2> QED BY <1>8, <2>1 DEF Climbs, d
  <1>10. Grows(F, Nodes(g)) BY DEF Grows
  <1> HIDE DEF F, Level
  <1>11. level[d] \in SUBSET Nodes(g) /\ {n} \subseteq level[d] /\ F[level[d]] = level[d]
    <2> DEFINE M == Nodes(g)  A == {n}
    <2>1. /\ IsFiniteSet(M) /\ F \in [SUBSET M -> SUBSET M] /\ Grows(F, M)
          /\ A \in SUBSET M /\ A # {} /\ Climbs(level, F, A, M)
      BY <1>3, <1>4, <1>9, <1>10
    <2> HIDE DEF M, A
    <2>2. /\ level[Cardinality(M)] \in SUBSET M /\ A \subseteq level[Cardinality(M)]
          /\ F[level[Cardinality(M)]] = level[Cardinality(M)]
      BY ONLY <2>1, LevelsSaturate
    <2> QED BY <2>2 DEF M, A, d
  <1>12. Succs(g, level[d]) \subseteq level[d] BY <1>11 DEF F
  <1> QED BY <1>7, <1>11, <1>12 DEF d

-----------------------------------------------------------------------------
(* Layers.                                                                 *)

\* A finite set has finitely many images.
LEMMA FiniteImage ==
    ASSUME NEW S, IsFiniteSet(S), NEW f PROVE IsFiniteSet({f[x] : x \in S})
  <1> DEFINE T == {f[x] : x \in S}  h == [x \in S |-> f[x]]
  <1>1. h \in Surjection(S, T) BY DEF Surjection
  <1> QED BY <1>1, FS_Surjection

LayerOf(g, f, n) == IF Preds(g, {n}) = {} THEN 0 ELSE 1 + Max({f[m] : m \in Preds(g, {n})})
IsLayers(g, f, N) == f = [n \in N |-> LayerOf(g, f, n)]

\* A rank that every edge increases.
IsRank(g, rank, R) ==
    /\ rank \in [Nodes(g) -> 0..R]
    /\ \A e \in g.edges : /\ e[1] \in Nodes(g)
                          /\ e[2] \in Nodes(g)
                          /\ rank[e[1]] < rank[e[2]]

\* The nodes before a node have lower ranks.
LEMMA PredsRank ==
    ASSUME NEW g, NEW R \in Nat, NEW rank, IsRank(g, rank, R), NEW n \in Nodes(g), NEW m \in Preds(g, {n})
    PROVE  m \in Nodes(g) /\ rank[m] \in 0..R /\ rank[n] \in 0..R /\ rank[m] < rank[n]
  <1>1. PICK e \in g.edges : e[2] = n /\ m = e[1] BY DEF Preds
  <1> QED BY <1>1 DEF IsRank

\* The layer of a node depends on the nodes before it only.
LEMMA LayerOfLocal ==
    ASSUME NEW g, NEW f, NEW h, NEW n, \A m \in Preds(g, {n}) : f[m] = h[m]
    PROVE  LayerOf(g, f, n) = LayerOf(g, h, n)
  <1>1. {f[m] : m \in Preds(g, {n})} = {h[m] : m \in Preds(g, {n})} OBVIOUS
  <1> QED BY <1>1 DEF LayerOf

\* An acyclic graph has layers.
LEMMA LayersExist ==
    ASSUME NEW g, NEW R \in Nat, NEW rank, IsRank(g, rank, R)
    PROVE  \E f : IsLayers(g, f, Nodes(g))
  <1> DEFINE N(r) == {n \in Nodes(g) : rank[n] <= r}
             S == {r \in 0..R : \E f : IsLayers(g, f, N(r))}
  <1>0. \A n \in Nodes(g) : rank[n] \in 0..R BY DEF IsRank
  <1>1. 0 \in S
    <2> DEFINE f == [n \in N(0) |-> 0]
    <2>1. ASSUME NEW n \in N(0) PROVE LayerOf(g, f, n) = 0
      <3>1. Preds(g, {n}) = {}
        <4> SUFFICES ASSUME NEW m \in Preds(g, {n}) PROVE FALSE OBVIOUS
        <4>1. rank[m] \in 0..R /\ rank[n] \in 0..R /\ rank[m] < rank[n] BY PredsRank
        <4> QED BY <4>1
      <3> QED BY <3>1 DEF LayerOf
    <2>2. f = [n \in N(0) |-> LayerOf(g, f, n)] BY <2>1
    <2> HIDE DEF f
    <2> QED BY <2>2 DEF IsLayers
  <1>2. ASSUME NEW r \in 1..R, r - 1 \in S PROVE r \in S
    <2>1. PICK f : IsLayers(g, f, N(r - 1)) BY <1>2
    <2> DEFINE h == [n \in N(r) |-> IF rank[n] <= r - 1 THEN f[n] ELSE LayerOf(g, f, n)]
    <2>2. ASSUME NEW n \in N(r) PROVE h[n] = LayerOf(g, f, n)
      <3>1. CASE rank[n] <= r - 1
        <4>1. n \in N(r - 1) BY <3>1
        <4>2. f[n] = LayerOf(g, f, n) BY <2>1, <4>1 DEF IsLayers
        <4> QED BY <3>1, <4>2
      <3>2. CASE ~(rank[n] <= r - 1) BY <3>2
      <3> QED BY <3>1, <3>2
    <2>3. ASSUME NEW n \in N(r) PROVE LayerOf(g, f, n) = LayerOf(g, h, n)
      <3>1. ASSUME NEW m \in Preds(g, {n}) PROVE f[m] = h[m]
        <4>1. m \in Nodes(g) /\ rank[m] \in 0..R /\ rank[n] \in 0..R /\ rank[m] < rank[n] BY <3>1, PredsRank
        <4>2. rank[m] <= r - 1 /\ rank[m] <= r BY <4>1, <2>3
        <4> QED BY <4>1, <4>2
      <3> HIDE DEF h
      <3> QED BY <3>1, LayerOfLocal
    <2>4. h = [n \in N(r) |-> h[n]] OBVIOUS
    <2> HIDE DEF h
    <2>5. h = [n \in N(r) |-> LayerOf(g, h, n)] BY <2>2, <2>3, <2>4
    <2> QED BY <2>5 DEF IsLayers
  <1>3. R \in S
    <2> HIDE DEF S
    <2> QED BY <1>1, <1>2, SetInduction
  <1>4. N(R) = Nodes(g) BY <1>0
  <1> QED BY <1>3, <1>4

\* A finite set of numbers has a greatest one.
LEMMA MaxIsGreatest ==
    ASSUME NEW S \in SUBSET Nat, IsFiniteSet(S), S # {}
    PROVE  Max(S) \in S /\ \A y \in S : Max(S) >= y
  <1>1. PICK x \in S : \A y \in S : ~(y > x)
    <2>1. S \in SUBSET Int OBVIOUS
    <2> QED BY <2>1, Extremes
  <1>2. \A y \in S : x >= y BY <1>1
  <1> QED BY <1>1, <1>2 DEF Max

\* Every edge leads from one layer to a later one.
LEMMA LayersIncrease ==
    ASSUME NEW g, IsFiniteSet(Nodes(g)), NEW R \in Nat, NEW rank, IsRank(g, rank, R)
    PROVE  /\ \A n \in Nodes(g) : AssignLayers(g)[n] \in Nat
           /\ \A n \in Nodes(g) : \A m \in Preds(g, {n}) : AssignLayers(g)[m] < AssignLayers(g)[n]
  <1> DEFINE f == AssignLayers(g)
  <1>1. IsLayers(g, f, Nodes(g))
    <2>1. f = CHOOSE h : IsLayers(g, h, Nodes(g)) BY DEF AssignLayers, IsLayers, LayerOf
    <2> QED BY <2>1, LayersExist
  <1> HIDE DEF f
  <1>2. \A n \in Nodes(g) : f[n] = LayerOf(g, f, n) BY <1>1 DEF IsLayers
  <1>3. \A n \in Nodes(g) : rank[n] \in 0..R BY DEF IsRank
  <1>4. ASSUME NEW n \in Nodes(g), \A m \in Preds(g, {n}) : f[m] \in Nat
        PROVE  f[n] \in Nat /\ \A m \in Preds(g, {n}) : f[m] < f[n]
    <2> DEFINE P == Preds(g, {n})  V == {f[m] : m \in P}
    <2>1. CASE P = {}
      <3>1. f[n] = 0 BY <1>2, <2>1 DEF LayerOf
      <3> QED BY <2>1, <3>1
    <2>2. CASE P # {}
      <3>1. P \in SUBSET Nodes(g) BY PredsRank
      <3>2. IsFiniteSet(P) BY <3>1, FS_Subset
      <3>3. IsFiniteSet(V) BY <3>2, FiniteImage
      <3>4. V \in SUBSET Nat /\ V # {} BY <1>4, <2>2
      <3>5. Max(V) \in V /\ \A y \in V : Max(V) >= y BY <3>3, <3>4, MaxIsGreatest
      <3>6. f[n] = 1 + Max(V) BY <1>2, <2>2 DEF LayerOf
      <3>7. \A m \in P : f[m] \in V OBVIOUS
      <3> HIDE DEF V, P
      <3>8. Max(V) \in Nat BY <3>4, <3>5
      <3>9. \A m \in P : f[m] \in Nat /\ Max(V) >= f[m] BY <3>4, <3>5, <3>7
      <3> QED BY <3>6, <3>8, <3>9 DEF P
    <2> QED BY <2>1, <2>2
  <1> DEFINE S == {r \in 0..R : \A n \in Nodes(g) : rank[n] <= r => f[n] \in Nat}
  <1>5. 0 \in S
    <2> SUFFICES ASSUME NEW n \in Nodes(g), rank[n] <= 0 PROVE f[n] \in Nat OBVIOUS
    <2>1. \A m \in Preds(g, {n}) : f[m] \in Nat
      <3> SUFFICES ASSUME NEW m \in Preds(g, {n}) PROVE FALSE OBVIOUS
      <3>1. rank[m] \in 0..R /\ rank[n] \in 0..R /\ rank[m] < rank[n] BY PredsRank
      <3> QED BY <3>1
    <2> QED BY <1>4, <2>1
  <1>6. ASSUME NEW r \in 1..R, r - 1 \in S PROVE r \in S
    <2> SUFFICES ASSUME NEW n \in Nodes(g), rank[n] <= r PROVE f[n] \in Nat OBVIOUS
    <2>1. ASSUME NEW m \in Preds(g, {n}) PROVE f[m] \in Nat
      <3>1. m \in Nodes(g) /\ rank[m] \in 0..R /\ rank[n] \in 0..R /\ rank[m] < rank[n] BY PredsRank
      <3>2. rank[m] <= r - 1 BY <3>1
      <3> QED BY <1>6, <3>1, <3>2
    <2> QED BY <1>4, <2>1
  <1>7. R \in S
    <2> HIDE DEF S
    <2> QED BY <1>5, <1>6, SetInduction
  <1>8. \A n \in Nodes(g) : f[n] \in Nat BY <1>3, <1>7
  <1>9. \A n \in Nodes(g) : \A m \in Preds(g, {n}) : f[m] \in Nat BY <1>8, PredsRank
  <1> QED BY <1>4, <1>8, <1>9 DEF f

-----------------------------------------------------------------------------
(* The columns of the output of a step.                                    *)

IsCols(c) == c \in Seq(ToSet(c))

\* The columns of a table are finitely many.
LEMMA ColsShape ==
    ASSUME NEW c, IsCols(c)
    PROVE  /\ Len(c) \in Nat /\ DOMAIN c = 1..Len(c)
           /\ ToSet(c) = {c[i] : i \in 1..Len(c)}
           /\ IsFiniteSet(DOMAIN c) /\ IsFiniteSet(ToSet(c))
  <1>1. Len(c) \in Nat /\ DOMAIN c = 1..Len(c) BY DEF IsCols
  <1>2. IsFiniteSet(1..Len(c))
    <2>1. 1 \in Int /\ Len(c) \in Int BY <1>1
    <2> QED BY <2>1, FS_Interval
  <1>3. ToSet(c) = {c[i] : i \in 1..Len(c)} BY <1>1 DEF ToSet
  <1>4. IsFiniteSet(ToSet(c)) BY <1>2, <1>3, FiniteImage
  <1> QED BY <1>1, <1>2, <1>3, <1>4

\* Columns given by a function.
LEMMA FunctionIsCols ==
    ASSUME NEW n \in Nat, NEW f, f = [i \in 1..n |-> f[i]]
    PROVE  IsCols(f) /\ Len(f) = n
  <1>1. DOMAIN f = 1..n OBVIOUS
  <1>2. \A i \in 1..n : f[i] \in ToSet(f) BY <1>1 DEF ToSet
  <1>3. f \in [1..n -> ToSet(f)] BY <1>2
  <1>4. f \in Seq(ToSet(f)) BY <1>3
  <1> QED BY <1>1, <1>4 DEF IsCols

\* Any sequence may be a list of columns.
LEMMA SeqIsCols == ASSUME NEW S, NEW c \in Seq(S) PROVE IsCols(c)
  <1>1. Len(c) \in Nat /\ c = [i \in 1..Len(c) |-> c[i]] OBVIOUS
  <1> QED BY <1>1, FunctionIsCols

\* Columns after columns.
LEMMA ConcatCols ==
    ASSUME NEW a, IsCols(a), NEW b, IsCols(b)
    PROVE  IsCols(a \o b) /\ ToSet(a \o b) = ToSet(a) \cup ToSet(b)
  <1>1. a \in Seq(ToSet(a)) /\ b \in Seq(ToSet(b)) BY DEF IsCols
  <1>2. ToSet(a \o b) = ToSet(a) \cup ToSet(b) BY <1>1, ConcatenatedSet
  <1>3. a \o b \in Seq(ToSet(a) \cup ToSet(b))
    <2>1. a \in Seq(ToSet(a) \cup ToSet(b)) /\ b \in Seq(ToSet(a) \cup ToSet(b)) BY <1>1
    <2> QED BY <2>1
  <1> QED BY <1>2, <1>3 DEF IsCols

\* Columns that are mapped one by one.
LEMMA MappedCols ==
    ASSUME NEW c, IsCols(c), NEW f, NEW d, d = [i \in DOMAIN c |-> f[c[i]]]
    PROVE  IsCols(d) /\ ToSet(d) = {f[x] : x \in ToSet(c)}
  <1>1. Len(c) \in Nat /\ DOMAIN c = 1..Len(c) BY ColsShape
  <1>2. DOMAIN d = DOMAIN c /\ \A i \in DOMAIN c : d[i] = f[c[i]] OBVIOUS
  <1>3. d = [i \in 1..Len(c) |-> d[i]] BY <1>1, <1>2
  <1>4. IsCols(d) BY <1>1, <1>3, FunctionIsCols
  <1>5. ToSet(d) = {f[x] : x \in ToSet(c)}
    <2>1. ASSUME NEW y \in ToSet(d) PROVE y \in {f[x] : x \in ToSet(c)}
      <3>1. PICK i \in DOMAIN c : y = f[c[i]] BY <1>2, <2>1 DEF ToSet
      <3> QED BY <3>1 DEF ToSet
    <2>2. ASSUME NEW x \in ToSet(c) PROVE f[x] \in ToSet(d)
      <3>1. PICK i \in DOMAIN c : x = c[i] BY <2>2 DEF ToSet
      <3> QED BY <1>2, <3>1 DEF ToSet
    <2> QED BY <2>1, <2>2
  <1> QED BY <1>4, <1>5

\* Some columns, in their order.
LEMMA PickedCols ==
    ASSUME NEW c, IsCols(c), NEW I \in SUBSET (DOMAIN c)
    PROVE  LET d == Take(c, Indices(I)) IN IsCols(d) /\ ToSet(d) = {c[i] : i \in I}
  <1> DEFINE d == Take(c, Indices(I))  n == Cardinality(I)
  <1>1. IsFiniteSet(DOMAIN c) /\ DOMAIN c = 1..Len(c) /\ Len(c) \in Nat BY ColsShape
  <1>2. IsFiniteSet(I) /\ I \in SUBSET Int BY <1>1, FS_Subset
  <1>3. n \in Nat BY <1>2, FS_CardinalityType
  <1>4. Indices(I) \in [1..n -> I] BY <1>2, IndicesShape
  <1>5. Indices(I) \in Surjection(1..n, I) BY <1>2, IndicesIsBijection DEF Bijection
  <1>6. d = [i \in 1..n |-> c[Indices(I)[i]]] BY <1>4 DEF Take
  <1> HIDE DEF d, n
  <1>7. d = [i \in 1..n |-> d[i]] /\ DOMAIN d = 1..n BY <1>6
  <1>8. IsCols(d) BY <1>3, <1>7, FunctionIsCols
  <1>9. ToSet(d) = {c[i] : i \in I}
    <2>1. ASSUME NEW y \in ToSet(d) PROVE y \in {c[i] : i \in I}
      <3>1. PICK i \in 1..n : y = c[Indices(I)[i]] BY <1>6, <1>7, <2>1 DEF ToSet
      <3> QED BY <1>4, <3>1
    <2>2. ASSUME NEW j \in I PROVE c[j] \in ToSet(d)
      <3>1. PICK i \in 1..n : Indices(I)[i] = j BY <1>5 DEF Surjection
      <3>2. d[i] = c[j] BY <1>6, <3>1
      <3> QED BY <1>7, <3>2 DEF ToSet
    <2> QED BY <2>1, <2>2
  <1> QED BY <1>8, <1>9 DEF d

SameColumnsTypes == {"filter", "sort", "deduplicate", "sample", "fill_nulls",
                     "save", "validate", "stream_publish"}

\* A choice of rows keeps the columns.
LEMMA PickKeepsColumns == ASSUME NEW t, NEW p PROVE Pick(t, p).cols = t.cols
  BY TableFields DEF Pick, WithRows

\* The columns of a table.
LEMMA ColumnsOf ==
    ASSUME NEW out, NEW cols, \E num, rows : out = Table(cols, num, rows)
    PROVE  out.cols = cols
  BY TableFields

\* Steps that only choose, order or change rows.
LEMMA SampleColumns ==
    ASSUME NEW t, NEW s, NEW out \in execute_sample(t, s) \cup build_sample_sql(t, s)
    PROVE  out.cols = t.cols
  <1>1. \/ out = t
        \/ \E n : out \in Samples(t, n)
        \/ \E by, target : out \in StratifiedSamples(t, by, target)
        \/ out = WithRows(t, <<>>)
        \/ \E S \in SUBSET Rows(t) : out = Pick(t, Indices(S))
    <2>1. CASE out \in execute_sample(t, s) BY <2>1 DEF execute_sample
    <2>2. CASE out \in build_sample_sql(t, s) BY <2>2 DEF build_sample_sql
    <2> QED BY <2>1, <2>2
  <1>2. ASSUME NEW n, out \in Samples(t, n) PROVE out.cols = t.cols
    <2>1. \E p : out = Pick(t, p) BY <1>2 DEF Samples
    <2> QED BY <2>1, PickKeepsColumns
  <1>3. ASSUME NEW by, NEW target, out \in StratifiedSamples(t, by, target) PROVE out.cols = t.cols
    <2>1. \E p : out = Pick(t, p) BY <1>3 DEF StratifiedSamples
    <2> QED BY <2>1, PickKeepsColumns
  <1>4. WithRows(t, <<>>).cols = t.cols BY TableFields DEF WithRows
  <1> QED BY <1>1, <1>2, <1>3, <1>4, PickKeepsColumns

\* Whatever the engine, the columns stay.
LEMMA RowStepsKeepColumns ==
    ASSUME NEW t, NEW u, NEW s, s.type \in SameColumnsTypes,
           NEW out, out \in Pandas(t, u, s) \/ (s.type \in DuckDBCapable /\ out \in build_sql_for_step(t, u, s))
    PROVE  out.cols = t.cols
  <1>1. CASE s.type = "filter"
    <2>1. out \in execute_filter(t, s) \/ out \in build_filter_sql(t, s)
      BY <1>1 DEF Pandas, build_sql_for_step
    <2>2. \E p : out = Pick(t, p) BY <2>1 DEF execute_filter, build_filter_sql, Filtered
    <2> QED BY <2>2, PickKeepsColumns
  <1>2. CASE s.type = "sort"
    <2>1. \E p : out = Pick(t, p) BY <1>2 DEF Pandas, build_sql_for_step, build_sort_sql, execute_sort
    <2> QED BY <2>1, PickKeepsColumns
  <1>3. CASE s.type = "deduplicate"
    <2>1. \E subset, keep : out = Deduplicated(t, subset, keep)
      BY <1>3 DEF Pandas, build_sql_for_step, execute_deduplicate, build_deduplicate_sql
    <2>2. \E p : out = Pick(t, p) BY <2>1 DEF Deduplicated
    <2> QED BY <2>2, PickKeepsColumns
  <1>4. CASE s.type = "sample" BY <1>4, SampleColumns DEF Pandas, build_sql_for_step
  <1>5. CASE s.type = "fill_nulls"
    <2>1. out = FilledColumns(t, s)
      BY <1>5 DEF Pandas, build_sql_for_step, execute_fill_nulls, build_fill_nulls_sql
    <2> QED BY <2>1, TableFields DEF FilledColumns, WithRows
  <1>6. CASE s.type \in {"save", "validate", "stream_publish"}
    BY <1>6 DEF Pandas, DuckDBCapable, execute_save, execute_validate, execute_stream_publish
  <1> QED BY <1>1, <1>2, <1>3, <1>4, <1>5, <1>6 DEF SameColumnsTypes

\* select keeps columns that are there.
LEMMA SelectColumns ==
    ASSUME NEW t, NEW s, NEW out \in execute_select(t, s) \cup build_select_sql(t, s)
    PROVE  out.cols \in {t.cols, s.columns} /\ ToSet(out.cols) \subseteq ToSet(t.cols)
  <1>1. out = t \/ (out = Projected(t, s.columns) /\ Has(t, s.columns))
    BY DEF execute_select, build_select_sql
  <1> QED BY <1>1, TableFields DEF Projected, Has

\* rename maps the columns one by one.
LEMMA RenameColumns ==
    ASSUME NEW t, IsCols(t.cols), NEW s, NEW out \in execute_rename(t, s)
    PROVE  IsCols(out.cols) /\ ToSet(out.cols) = {Renamed(s.mapping, c) : c \in ToSet(t.cols)}
  <1> DEFINE f == [c \in ToSet(t.cols) |-> Renamed(s.mapping, c)]
             cols == [i \in DOMAIN t.cols |-> Renamed(s.mapping, t.cols[i])]
  <1>1. out.cols = cols BY TableFields DEF execute_rename
  <1>2. \A i \in DOMAIN t.cols : t.cols[i] \in ToSet(t.cols) BY DEF ToSet
  <1>3. cols = [i \in DOMAIN t.cols |-> f[t.cols[i]]] BY <1>2
  <1>4. IsCols(cols) /\ ToSet(cols) = {f[c] : c \in ToSet(t.cols)}
    <2> HIDE DEF f, cols
    <2> QED BY <1>3, MappedCols
  <1> QED BY <1>1, <1>4

\* A join has the columns of both tables, some of them under another name.
LEMMA JoinedColumns ==
    ASSUME NEW t, IsCols(t.cols), NEW u, IsCols(u.cols), NEW s, NEW both, NEW left, NEW right,
           NEW out \in Joined(t, u, s, both, left, right)
    PROVE  IsCols(out.cols)
  <1> DEFINE lcols  == [i \in DOMAIN t.cols |-> left[t.cols[i]]]
             I      == {i \in DOMAIN u.cols : u.cols[i] # s.on}
             others == Take(u.cols, Indices(I))
             rcols  == [i \in DOMAIN others |-> right[others[i]]]
             cols   == lcols \o rcols
  <1>0. \E num, rows : out = Table(cols, num, rows) BY DEF Joined
  <1>1. out.cols = cols
    <2> HIDE DEF cols
    <2> QED BY <1>0, ColumnsOf
  <1>2. IsCols(others) BY PickedCols
  <1> HIDE DEF others
  <1>3. IsCols(lcols) BY MappedCols
  <1>4. IsCols(rcols) BY <1>2, MappedCols
  <1> QED BY <1>1, <1>3, <1>4, ConcatCols DEF cols

\* An aggregation has the keys and one column per aggregation.
LEMMA GroupedColumns ==
    ASSUME NEW t, NEW gs, IsCols(gs), NEW aggs, NEW names, IsCols(names), NEW groups, NEW numeric, NEW sql,
           NEW out \in Grouped(t, gs, aggs, names, groups, numeric, sql)
    PROVE  IsCols(out.cols)
  <1> DEFINE cols == gs \o names
  <1>1. \E num, rows : out = Table(cols, num, rows) BY DEF Grouped
  <1>2. IsCols(cols) BY ConcatCols
  <1> HIDE DEF cols
  <1> QED BY <1>1, <1>2, ColumnsOf

\* _build_aggregation_dict loses no aggregation.
LEMMA ByColumnLists ==
    ASSUME NEW aggs, IsCols(aggs)
    PROVE  IsCols(ByColumn(aggs)) /\ ToSet(ByColumn(aggs)) = ToSet(aggs)
  <1> DEFINE D == DOMAIN aggs
             Same(i) == {j \in D : aggs[j].column = aggs[i].column}
             F(i) == Min(Same(i))
             R == {p \in D \X D : F(p[1]) < F(p[2]) \/ (F(p[1]) = F(p[2]) /\ p[1] < p[2])}
             order == Ranked(D, R)
             n == Cardinality(D)
             d == ByColumn(aggs)
  <1>1. IsFiniteSet(D) /\ D \in SUBSET Int BY ColsShape
  <1>2. ASSUME NEW i \in D PROVE F(i) \in Int
    <2>1. Same(i) \in SUBSET D /\ i \in Same(i) OBVIOUS
    <2>2. IsFiniteSet(Same(i)) /\ Same(i) \in SUBSET Int BY <1>1, <2>1, FS_Subset
    <2> HIDE DEF Same, D
    <2>3. \E x \in Same(i) : \A y \in Same(i) : ~(y < x) BY <2>1, <2>2, Extremes
    <2>4. \E x \in Same(i) : \A y \in Same(i) : x <= y BY <2>2, <2>3
    <2> QED BY <2>2, <2>4 DEF Min
  <1>3. d = Take(aggs, order) BY DEF ByColumn
  <1> HIDE DEF F, D
  <1>4. \A x, y \in D : <<x, y>> \in R <=> (F(x) < F(y) \/ (F(x) = F(y) /\ x < y)) OBVIOUS
  <1> HIDE DEF R
  <1>5. StrictOrder(D, R)
    <2>1. \A x \in D : <<x, x>> \notin R BY <1>1, <1>2, <1>4
    <2>2. \A x, y, z \in D : <<x, y>> \in R /\ <<y, z>> \in R => <<x, z>> \in R BY <1>1, <1>2, <1>4
    <2>3. \A x, y \in D : x # y => <<x, y>> \in R \/ <<y, x>> \in R BY <1>1, <1>2, <1>4
    <2> QED BY <2>1, <2>2, <2>3 DEF StrictOrder
  <1>6. n \in Nat /\ order \in Bijection(1..n, D) BY <1>1, <1>5, RankedIsBijection
  <1> HIDE DEF order, n, d
  <1>7. order \in [1..n -> D] /\ \A j \in D : \E i \in 1..n : order[i] = j
    BY <1>6 DEF Bijection, Injection, Surjection
  <1>8. d = [i \in 1..n |-> aggs[order[i]]] BY <1>3, <1>7 DEF Take
  <1>9. d = [i \in 1..n |-> d[i]] /\ DOMAIN d = 1..n BY <1>8
  <1>10. IsCols(d) BY <1>6, <1>9, FunctionIsCols
  <1>11. ToSet(d) = ToSet(aggs)
    <2>1. ASSUME NEW y \in ToSet(d) PROVE y \in ToSet(aggs)
      <3>1. PICK i \in 1..n : y = aggs[order[i]] BY <1>8, <1>9, <2>1 DEF ToSet
      <3> QED BY <1>7, <3>1 DEF ToSet, D
    <2>2. ASSUME NEW y \in ToSet(aggs) PROVE y \in ToSet(d)
      <3>1. PICK j \in D : y = aggs[j] BY <2>2 DEF ToSet, D
      <3>2. PICK i \in 1..n : order[i] = j BY <1>7
      <3>3. d[i] = y BY <1>8, <3>1, <3>2
      <3> QED BY <1>9, <3>3 DEF ToSet
    <2> QED BY <2>1, <2>2
  <1> QED BY <1>10, <1>11 DEF d

\* The names of the columns of the Pandas executor.
LEMMA NamedColumns ==
    ASSUME NEW aggs, IsCols(aggs)
    PROVE  LET names == [i \in DOMAIN aggs |-> OutputName(aggs[i])]
           IN  IsCols(names) /\ ToSet(names) = {OutputName(a) : a \in ToSet(aggs)}
  <1> DEFINE names == [i \in DOMAIN aggs |-> OutputName(aggs[i])]
             f == [a \in ToSet(aggs) |-> OutputName(a)]
  <1>1. \A i \in DOMAIN aggs : aggs[i] \in ToSet(aggs) BY DEF ToSet
  <1>2. names = [i \in DOMAIN aggs |-> f[aggs[i]]] BY <1>1
  <1>3. IsCols(names) /\ ToSet(names) = {f[a] : a \in ToSet(aggs)}
    <2> HIDE DEF f, names
    <2> QED BY <1>2, MappedCols
  <1> HIDE DEF names
  <1>4. {f[a] : a \in ToSet(aggs)} = {OutputName(a) : a \in ToSet(aggs)} OBVIOUS
  <1> HIDE DEF f
  <1> QED BY <1>3, <1>4 DEF names

\* Whatever the engine, the columns of an aggregate are listed.
LEMMA AggregateColumns ==
    ASSUME NEW t, NEW s, IsCols(s.group_by), IsCols(s.aggregations),
           NEW out \in execute_aggregate(t, s) \cup build_aggregate_sql(t, s)
    PROVE  IsCols(out.cols)
  <1>1. CASE out \in execute_aggregate(t, s)
    <2> DEFINE aggs == ByColumn(s.aggregations)
               names == [i \in DOMAIN aggs |-> OutputName(aggs[i])]
    <2>1. PICK groups, numeric : out \in Grouped(t, s.group_by, aggs, names, groups, numeric, FALSE)
      BY <1>1 DEF execute_aggregate
    <2>2. IsCols(aggs) BY ByColumnLists
    <2> HIDE DEF aggs
    <2>3. IsCols(names) BY <2>2, NamedColumns
    <2> HIDE DEF names
    <2> QED BY <2>1, <2>3, GroupedColumns
  <1>2. CASE out \in build_aggregate_sql(t, s)
    <2> DEFINE aggs == s.aggregations
               names == [i \in DOMAIN aggs |-> SqlAlias(aggs[i])]
               f == [a \in ToSet(aggs) |-> SqlAlias(a)]
    <2>1. PICK groups, numeric : out \in Grouped(t, s.group_by, aggs, names, groups, numeric, TRUE)
      BY <1>2 DEF build_aggregate_sql
    <2>2. \A i \in DOMAIN aggs : aggs[i] \in ToSet(aggs) BY DEF ToSet
    <2>3. names = [i \in DOMAIN aggs |-> f[aggs[i]]] BY <2>2
    <2> HIDE DEF names, f
    <2>4. IsCols(names) BY <2>3, MappedCols
    <2> QED BY <2>1, <2>4, GroupedColumns
  <1> QED BY <1>1, <1>2

\* A pivot has the index and one column per value.
LEMMA PivotedColumns ==
    ASSUME NEW t, NEW s, IsCols(s.index), NEW R, NEW fill, NEW names, IsCols(names),
           NEW out \in Pivoted(t, s, R, fill, names)
    PROVE  IsCols(out.cols)
  <1> DEFINE f == [v \in ToSet(names) |-> CellName(v)]
             texts == [k \in DOMAIN names |-> CellName(names[k])]
             cols == s.index \o texts
  <1>0. \E num, rows : out = Table(cols, num, rows) BY DEF Pivoted
  <1>1. out.cols = cols
    <2> HIDE DEF cols
    <2> QED BY <1>0, ColumnsOf
  <1>2. \A k \in DOMAIN names : names[k] \in ToSet(names) BY DEF ToSet
  <1>3. texts = [k \in DOMAIN names |-> f[names[k]]] BY <1>2
  <1>4. IsCols(texts)
    <2> HIDE DEF f, texts
    <2> QED BY <1>3, MappedCols
  <1> HIDE DEF texts
  <1> QED BY <1>1, <1>4, ConcatCols DEF cols

\* A finite set has finitely many elements to list.
LEMMA RankedAreCols == ASSUME NEW S, IsFiniteSet(S), NEW R PROVE IsCols(Ranked(S, R))
  <1>1. Cardinality(S) \in Nat BY FS_CardinalityType
  <1> DEFINE P(n) == CHOOSE x \in S : Cardinality({y \in S : <<y, x>> \in R}) = n - 1
             f == [n \in 1..Cardinality(S) |-> P(n)]
  <1>2. Ranked(S, R) = f BY DEF Ranked
  <1> HIDE DEF P
  <1>3. f = [n \in 1..Cardinality(S) |-> f[n]] OBVIOUS
  <1> HIDE DEF f
  <1> QED BY <1>1, <1>2, <1>3, FunctionIsCols

\* Both pivots are of that form.
LEMMA PivotColumns ==
    ASSUME NEW t, IsTable(t), NEW s, IsCols(s.index), NEW out \in execute_pivot(t, s) \cup build_pivot_sql(t, s)
    PROVE  IsCols(out.cols) /\ PivotDefined(t, s)
  <1> DEFINE K == Keyed(t, s.index) \cap Keyed(t, <<s.columns, s.values>>)
             L == Keyed(t, <<s.columns>>)
             Labels(S) == {t.rows[i][s.columns] : i \in S}
  <1>1. K \in SUBSET Rows(t) /\ L \in SUBSET Rows(t) BY DEF Keyed
  <1>2. /\ PivotDefined(t, s)
        /\ \/ out \in Pivoted(t, s, K, s.fill_value, Sorted(Labels(K)))
           \/ out \in Pivoted(t, s, Rows(t), NULL, Sorted(Labels(L)))
    BY DEF execute_pivot, build_pivot_sql
  <1>3. ASSUME NEW S \in SUBSET Rows(t) PROVE IsCols(Sorted(Labels(S)))
    <2>1. IsFiniteSet(S) BY RowSubset
    <2> DEFINE f == [i \in S |-> t.rows[i][s.columns]]
    <2>2. Labels(S) = {f[i] : i \in S} OBVIOUS
    <2> HIDE DEF f, Labels
    <2>3. IsFiniteSet(Labels(S)) BY <2>1, <2>2, FiniteImage
    <2> QED BY <2>3, RankedAreCols DEF Sorted
  <1> HIDE DEF K, L, Labels
  <1> QED BY <1>1, <1>2, <1>3, PivotedColumns

\* unpivot has the identifiers and two more columns.
LEMMA UnpivotColumns ==
    ASSUME NEW t, NEW s, IsCols(s.id_vars), NEW out \in execute_unpivot(t, s) \cup build_unpivot_sql(t, s)
    PROVE  IsCols(out.cols) /\ UnpivotDefined(t, s)
  <1>1. UnpivotDefined(t, s) /\ \E cells : out = Melted(t, s, cells)
    BY DEF execute_unpivot, build_unpivot_sql
  <1> DEFINE cols == s.id_vars \o <<s.var_name, s.value_name>>
  <1>0. \E num, rows : out = Table(cols, num, rows) BY <1>1 DEF Melted
  <1>2. out.cols = cols
    <2> HIDE DEF cols
    <2> QED BY <1>0, ColumnsOf
  <1>3. <<s.var_name, s.value_name>> \in Seq({s.var_name, s.value_name}) OBVIOUS
  <1>4. IsCols(<<s.var_name, s.value_name>>) BY <1>3, SeqIsCols
  <1> QED BY <1>1, <1>2, <1>4, ConcatCols

\* wasm_compute adds at most one column.
LEMMA WasmColumns ==
    ASSUME NEW t, IsCols(t.cols), NEW s, NEW out \in execute_wasm_compute(t, s)
    PROVE  IsCols(out.cols)
  <1>0. \E cols, num, rows : out = Table(cols, num, rows) /\ cols \in {t.cols, Append(t.cols, s.output_column)}
    BY DEF execute_wasm_compute
  <1>1. out.cols \in {t.cols, Append(t.cols, s.output_column)} BY <1>0, TableFields
  <1>2. IsCols(Append(t.cols, s.output_column))
    <2>1. t.cols \in Seq(ToSet(t.cols) \cup {s.output_column})
      <3>1. t.cols \in Seq(ToSet(t.cols)) BY DEF IsCols
      <3> QED BY <3>1
    <2>2. Append(t.cols, s.output_column) \in Seq(ToSet(t.cols) \cup {s.output_column}) BY <2>1
    <2> QED BY <2>2, SeqIsCols
  <1> QED BY <1>1, <1>2

\* Whatever a step makes has columns.
LEMMA StepMakesColumns ==
    ASSUME NEW t, IsTable(t), IsCols(t.cols), NEW u, IsCols(u.cols), NEW s, IsConfig(s),
           NEW out, out \in Pandas(t, u, s) \/ (s.type \in DuckDBCapable /\ out \in build_sql_for_step(t, u, s))
    PROVE  IsCols(out.cols)
  <1>1. s.type \in StepTypes BY DEF IsConfig
  <1>2. CASE s.type \in SameColumnsTypes BY <1>2, RowStepsKeepColumns
  <1>3. CASE s.type = "select"
    <2>1. s.columns \in Seq(STRING) BY <1>3 DEF IsConfig
    <2>2. IsCols(s.columns) BY <2>1, SeqIsCols
    <2>3. out \in execute_select(t, s) \cup build_select_sql(t, s) BY <1>3 DEF Pandas, build_sql_for_step
    <2> QED BY <2>2, <2>3, SelectColumns
  <1>4. CASE s.type = "rename" BY <1>4, RenameColumns DEF Pandas, DuckDBCapable
  <1>5. CASE s.type = "join"
    <2>1. out \in execute_join(t, u, s) \/ out \in build_join_sql(t, u, s) BY <1>5 DEF Pandas, build_sql_for_step
    <2> QED BY <2>1, JoinedColumns DEF execute_join, build_join_sql
  <1>6. CASE s.type = "aggregate"
    <2>1. IsCols(s.group_by) /\ IsCols(s.aggregations) BY <1>6, SeqIsCols DEF IsConfig
    <2>2. out \in execute_aggregate(t, s) \cup build_aggregate_sql(t, s)
      BY <1>6 DEF Pandas, build_sql_for_step
    <2> QED BY <2>1, <2>2, AggregateColumns
  <1>7. CASE s.type = "pivot"
    <2>1. IsCols(s.index) BY <1>7, SeqIsCols DEF IsConfig
    <2> QED BY <1>7, <2>1, PivotColumns DEF Pandas, build_sql_for_step
  <1>8. CASE s.type = "unpivot"
    <2>1. IsCols(s.id_vars) BY <1>8, SeqIsCols DEF IsConfig
    <2> QED BY <1>8, <2>1, UnpivotColumns DEF Pandas, build_sql_for_step
  <1>9. CASE s.type = "wasm_compute" BY <1>9, WasmColumns DEF Pandas, DuckDBCapable
  <1> QED BY <1>1, <1>2, <1>3, <1>4, <1>5, <1>6, <1>7, <1>8, <1>9
          DEF StepTypes, DuckDBCapable, SameColumnsTypes

\* Column policies remove columns.
LEMMA PoliciesKeepColumns ==
    ASSUME NEW t, IsCols(t.cols), NEW role, NEW policies
    PROVE  IsCols(apply_column_policies(t, role, policies).cols)
  <1> DEFINE a == apply_column_policies(t, role, policies)
  <1>0. \E I \in SUBSET (DOMAIN t.cols) : \E num, rows : a = Table(Take(t.cols, Indices(I)), num, rows)
    BY DEF apply_column_policies
  <1>1. PICK I \in SUBSET (DOMAIN t.cols) : a.cols = Take(t.cols, Indices(I))
    BY <1>0, TableFields
  <1> HIDE DEF a
  <1>2. IsCols(a.cols) BY <1>1, PickedCols
  <1> QED BY <1>2 DEF a

-----------------------------------------------------------------------------
(* What a step adds to the graph.                                          *)

IsGraph(g) == g = [kind |-> g.kind, source |-> g.source, edges |-> g.edges]

\* h is g and a step that reads ins and writes outs.
Appended(g, h, s, ins, outs, kind) ==
    /\ IsGraph(h)
    /\ DOMAIN h.kind = (DOMAIN g.kind \cup {Step(s)}) \cup outs
    /\ \A n \in DOMAIN h.kind : h.kind[n] = IF n \in outs THEN kind ELSE IF n = Step(s) THEN "step" ELSE g.kind[n]
    /\ h.edges = (g.edges \cup (ins \X {Step(s)})) \cup ({Step(s)} \X outs)

\* _add_node adds nodes and no edge.
LEMMA NodesAdded ==
    ASSUME NEW g, IsGraph(g), NEW nodes, NEW kind
    PROVE  LET h == AddNodes(g, nodes, kind)
           IN  /\ IsGraph(h)
               /\ DOMAIN h.kind = nodes \cup DOMAIN g.kind
               /\ \A n \in DOMAIN h.kind : h.kind[n] = IF n \in nodes THEN kind ELSE g.kind[n]
               /\ h.edges = g.edges
  BY DEF AddNodes, IsGraph

\* _add_edge adds edges and leaves the attributes alone.
LEMMA EdgesAdded ==
    ASSUME NEW g, IsGraph(g), NEW A, NEW B
    PROVE  LET h == AddEdges(g, A, B)
           IN  IsGraph(h) /\ h.kind = g.kind /\ h.edges = g.edges \cup (A \X B)
  BY DEF AddEdges, IsGraph

\* The four calls that all recorders make.
LEMMA StepAdded ==
    ASSUME NEW g, IsGraph(g), NEW s, NEW ins, NEW outs, NEW kind, Step(s) \notin outs
    PROVE  LET a == AddNodes(g, {Step(s)}, "step")
               b == AddNodes(a, outs, kind)
               c == AddEdges(b, ins, {Step(s)})
           IN  Appended(g, AddEdges(c, {Step(s)}, outs), s, ins, outs, kind)
  <1> DEFINE a == AddNodes(g, {Step(s)}, "step")
             b == AddNodes(a, outs, kind)
             c == AddEdges(b, ins, {Step(s)})
             h == AddEdges(c, {Step(s)}, outs)
  <1>1. /\ IsGraph(a)
        /\ DOMAIN a.kind = {Step(s)} \cup DOMAIN g.kind
        /\ \A n \in DOMAIN a.kind : a.kind[n] = IF n \in {Step(s)} THEN "step" ELSE g.kind[n]
        /\ a.edges = g.edges
    BY NodesAdded
  <1> HIDE DEF a
  <1>2. /\ IsGraph(b)
        /\ DOMAIN b.kind = outs \cup DOMAIN a.kind
        /\ \A n \in DOMAIN b.kind : b.kind[n] = IF n \in outs THEN kind ELSE a.kind[n]
        /\ b.edges = a.edges
    BY <1>1, NodesAdded
  <1> HIDE DEF b
  <1>3. IsGraph(c) /\ c.kind = b.kind /\ c.edges = b.edges \cup (ins \X {Step(s)})
    BY <1>2, EdgesAdded
  <1> HIDE DEF c
  <1>4. IsGraph(h) /\ h.kind = c.kind /\ h.edges = c.edges \cup ({Step(s)} \X outs)
    BY <1>3, EdgesAdded
  <1> HIDE DEF h
  <1>5. DOMAIN h.kind = (DOMAIN g.kind \cup {Step(s)}) \cup outs BY <1>1, <1>2, <1>3, <1>4
  <1>6. \A n \in DOMAIN h.kind : h.kind[n] = IF n \in outs THEN kind ELSE IF n = Step(s) THEN "step" ELSE g.kind[n]
    BY <1>1, <1>2, <1>3, <1>4
  <1>7. h.edges = (g.edges \cup (ins \X {Step(s)})) \cup ({Step(s)} \X outs) BY <1>1, <1>2, <1>3, <1>4
  <1>8. Appended(g, h, s, ins, outs, kind) BY <1>4, <1>5, <1>6, <1>7 DEF Appended
  <1> QED BY <1>8 DEF a, b, c, h

\* Record appends a step with its columns.
LEMMA RecordAppends ==
    ASSUME NEW g, IsGraph(g), NEW s, NEW ins, NEW outs
    PROVE  Appended(g, Record(g, s, ins, outs), s, ins, Cols(s, outs), "output_column")
  <1>1. Step(s) \notin Cols(s, outs) BY DEF Step, Cols, Col
  <1> QED BY <1>1, StepAdded DEF Record

\* record_aggregate appends a step and names the source columns.
LEMMA AggregateAppends ==
    ASSUME NEW g, IsGraph(g), NEW s, NEW input, NEW inputOf, NEW outs
    PROVE  Appended(g, record_aggregate(g, s, input, inputOf, outs), s,
                    Cols(input, {inputOf[c] : c \in DOMAIN inputOf}), Cols(s, outs), "output_column")
  <1> DEFINE ins == Cols(input, {inputOf[c] : c \in DOMAIN inputOf})
             h == Record(g, s, ins, outs)
             r == record_aggregate(g, s, input, inputOf, outs)
  <1>1. Appended(g, h, s, ins, Cols(s, outs), "output_column") BY RecordAppends
  <1>2. PICK src : r = [h EXCEPT !.source = src] BY DEF record_aggregate
  <1> HIDE DEF h, r, ins
  <1>3. IsGraph(r) /\ r.kind = h.kind /\ r.edges = h.edges BY <1>1, <1>2 DEF Appended, IsGraph
  <1>4. Appended(g, r, s, ins, Cols(s, outs), "output_column") BY <1>1, <1>3 DEF Appended
  <1> QED BY <1>4 DEF r, ins

\* record_save appends a step with its file.
LEMMA SaveAppends ==
    ASSUME NEW g, IsGraph(g), NEW s, NEW input, NEW filename, NEW cols
    PROVE  Appended(g, record_save(g, s, input, filename, cols), s,
                    Cols(input, cols), {Output(s, filename)}, "output_file")
  <1>1. Step(s) \notin {Output(s, filename)} BY DEF Step, Output
  <1> QED BY <1>1, StepAdded DEF record_save

-----------------------------------------------------------------------------
(* What the recorders are told.                                            *)

\* Finitely many columns are finitely many nodes.
LEMMA ColsAreFinite == ASSUME NEW S, IsFiniteSet(S), NEW m PROVE IsFiniteSet(Cols(m, S))
  <1> DEFINE f == [c \in S |-> Col(m, c)]
  <1>1. Cols(m, S) = {f[c] : c \in S} BY DEF Cols
  <1> HIDE DEF f
  <1> QED BY <1>1, FiniteImage

\* A column is among the nodes of the columns.
LEMMA ColInCols == ASSUME NEW S, NEW m, NEW c \in S PROVE Col(m, c) \in Cols(m, S)
  BY DEF Cols

\* The node of a column names its table.
LEMMA ColsNames == ASSUME NEW S, NEW m, NEW n \in Cols(m, S) PROVE n[1] = "col" /\ n[2] = m
  BY DEF Cols, Col

\* Columns that are distinct have one place each.
LEMMA DistinctIsInjective ==
    ASSUME NEW c, IsCols(c), Distinct(c), NEW i \in DOMAIN c, NEW j \in DOMAIN c, c[i] = c[j]
    PROVE  i = j
  <1>1. Len(c) \in Nat /\ DOMAIN c = 1..Len(c) /\ IsFiniteSet(DOMAIN c) BY ColsShape
  <1>2. c \in [DOMAIN c -> ToSet(c)] BY DEF IsCols
  <1>3. c \in Surjection(DOMAIN c, ToSet(c)) BY <1>2 DEF Surjection, ToSet
  <1>4. Cardinality(DOMAIN c) = Len(c) BY <1>1, IntervalSize
  <1>5. Cardinality(ToSet(c)) = Cardinality(DOMAIN c) BY <1>4 DEF Distinct
  <1>6. c \in Injection(DOMAIN c, ToSet(c)) BY <1>1, <1>3, <1>5, FS_Surjection
  <1> QED BY <1>6 DEF Injection, IsInjective

\* No two aggregations of a step give the same column.
LEMMA AggregationOfColumn ==
    ASSUME NEW gs, IsCols(gs), NEW aggs, IsCols(aggs), NEW names, IsCols(names), Distinct(gs \o names),
           names = [i \in DOMAIN aggs |-> OutputName(aggs[i])],
           NEW a \in ToSet(aggs), NEW b \in ToSet(aggs), OutputName(a) = OutputName(b)
    PROVE  a = b
  <1>1. IsCols(gs \o names) BY ConcatCols
  <1>2. PICK i \in DOMAIN aggs : a = aggs[i] BY DEF ToSet
  <1>3. PICK j \in DOMAIN aggs : b = aggs[j] BY DEF ToSet
  <1>4. DOMAIN names = DOMAIN aggs /\ names[i] = names[j] BY <1>2, <1>3
  <1>5. gs \in Seq(ToSet(gs)) /\ names \in Seq(ToSet(names)) BY DEF IsCols
  <1>6. /\ Len(gs) \in Nat /\ Len(names) \in Nat /\ DOMAIN names = 1..Len(names)
        /\ DOMAIN (gs \o names) = 1..(Len(gs) + Len(names))
        /\ \A k \in 1..Len(names) : (gs \o names)[Len(gs) + k] = names[k]
    BY <1>5
  <1>7. i \in 1..Len(names) /\ j \in 1..Len(names) BY <1>4, <1>6
  <1>8. Len(gs) + i \in DOMAIN (gs \o names) /\ Len(gs) + j \in DOMAIN (gs \o names) BY <1>6, <1>7
  <1>9. Len(gs) + i = Len(gs) + j
    <2> DEFINE c == gs \o names
    <2>1. IsCols(c) /\ Distinct(c) BY <1>1
    <2>2. Len(gs) + i \in DOMAIN c /\ Len(gs) + j \in DOMAIN c BY <1>8
    <2>3. c[Len(gs) + i] = c[Len(gs) + j] BY <1>4, <1>6, <1>7
    <2> HIDE DEF c
    <2> QED BY <2>1, <2>2, <2>3, DistinctIsInjective
  <1>10. i = j BY <1>6, <1>7, <1>9
  <1> QED BY <1>2, <1>3, <1>10

\* What the Pandas executor makes of the aggregations of a step.
LEMMA AggregatedColumns ==
    ASSUME NEW t, NEW s, IsCols(s.group_by), IsCols(s.aggregations), NEW out \in execute_aggregate(t, s)
    PROVE  /\ IsCols(out.cols)
           /\ ToSet(out.cols) = ToSet(s.group_by) \cup {OutputName(a) : a \in ToSet(s.aggregations)}
           /\ Has(t, s.group_by)
           /\ \A a \in ToSet(s.aggregations) : Has(t, <<a.column>>)
           /\ \A a, b \in ToSet(s.aggregations) : OutputName(a) = OutputName(b) => a = b
  <1> DEFINE gs == s.group_by
             aggs == ByColumn(s.aggregations)
             names == [i \in DOMAIN aggs |-> OutputName(aggs[i])]
  <1>0. IsCols(gs) OBVIOUS
  <1>1. PICK groups, numeric : out \in Grouped(t, gs, aggs, names, groups, numeric, FALSE)
    BY DEF execute_aggregate
  <1>2. IsCols(aggs) /\ ToSet(aggs) = ToSet(s.aggregations) BY ByColumnLists
  <1> HIDE DEF aggs
  <1>3. IsCols(names) /\ ToSet(names) = {OutputName(a) : a \in ToSet(aggs)} BY <1>2, NamedColumns
  <1>4. names = [i \in DOMAIN aggs |-> OutputName(aggs[i])] OBVIOUS
  <1> HIDE DEF names, gs
  <1>5. /\ IsCols(out.cols) /\ out.cols = gs \o names
        /\ ToSet(out.cols) = ToSet(gs) \cup ToSet(names)
        /\ Distinct(out.cols)
        /\ Has(t, gs)
        /\ \A a \in ToSet(aggs) : Has(t, <<a.column>>)
    <2>1. IsCols(out.cols) /\ out.cols = gs \o names /\ ToSet(out.cols) = ToSet(gs) \cup ToSet(names)
      <3> DEFINE cols == gs \o names
      <3>1. \E num, rows : out = Table(cols, num, rows) BY <1>1 DEF Grouped
      <3>2. IsCols(cols) /\ ToSet(cols) = ToSet(gs) \cup ToSet(names) BY <1>0, <1>3, ConcatCols
      <3> HIDE DEF cols
      <3>3. out.cols = cols BY <3>1, ColumnsOf
      <3> QED BY <3>2, <3>3 DEF cols
    <2>2. Distinct(gs \o names) /\ Has(t, gs) /\ \A a \in ToSet(aggs) : Has(t, <<a.column>>)
      BY <1>1 DEF Grouped
    <2> QED BY <2>1, <2>2
  <1>6. \A a, b \in ToSet(aggs) : OutputName(a) = OutputName(b) => a = b
    BY <1>0, <1>2, <1>3, <1>4, <1>5, AggregationOfColumn
  <1> QED BY <1>2, <1>3, <1>5, <1>6 DEF gs

\* The recorder is told of column p[2] of input p[1].
Read(p, t, u, in, right, ins) ==
    \/ p[1] = 1 /\ p[2] \in ToSet(t.cols) /\ Col(in, p[2]) \in ins
    \/ p[1] # 1 /\ p[2] \in ToSet(u.cols) /\ Col(right, p[2]) \in ins

\* How the graph h is made of g by a step, and what it knows of the columns in outs.
Recording(g, h, name, in, right, s, t, u, out, ins, outs, kind) ==
    /\ Appended(g, h, name, ins, outs, kind)
    /\ IsFiniteSet(ins) /\ IsFiniteSet(outs)
    /\ \A n \in ins : n[1] = "col" /\ n[2] \in {in, right}
    /\ \A n \in outs : n[1] \in {"col", "output"} /\ n[2] = name
    /\ RecordsAllInputs(s) =>
          /\ kind = "output_column"
          /\ outs = Cols(name, ToSet(out.cols))
          /\ \A n \in ToSet(out.cols) : \A p \in ComputedFrom(s, t, u, out, n) : Read(p, t, u, in, right, ins)

\* A recorder that has been told of enough columns.
LEMMA RecordRecords ==
    ASSUME NEW g, IsGraph(g), NEW name, NEW in, NEW right, NEW s, NEW t, NEW u, NEW out,
           IsCols(out.cols), NEW ins, IsFiniteSet(ins),
           \A n \in ins : n[1] = "col" /\ n[2] \in {in, right},
           RecordsAllInputs(s) => \A n \in ToSet(out.cols) : \A p \in ComputedFrom(s, t, u, out, n) :
                                      Read(p, t, u, in, right, ins)
    PROVE  LET outs == ToSet(out.cols)
           IN  Recording(g, Record(g, name, ins, outs), name, in, right, s, t, u, out,
                         ins, Cols(name, outs), "output_column")
  <1>1. IsFiniteSet(ToSet(out.cols)) BY ColsShape
  <1>2. IsFiniteSet(Cols(name, ToSet(out.cols))) BY <1>1, ColsAreFinite
  <1>3. \A n \in Cols(name, ToSet(out.cols)) : n[1] = "col" /\ n[2] = name BY ColsNames
  <1>4. Appended(g, Record(g, name, ins, ToSet(out.cols)), name, ins, Cols(name, ToSet(out.cols)), "output_column")
    BY RecordAppends
  <1> QED BY <1>2, <1>3, <1>4 DEF Recording

\* The usual case: the columns of one input.
LEMMA OneInputRecords ==
    ASSUME NEW g, IsGraph(g), NEW name, NEW in, NEW right, NEW s, NEW t, NEW u, NEW out,
           IsCols(out.cols), NEW C, IsFiniteSet(C),
           RecordsAllInputs(s) => \A n \in ToSet(out.cols) : \A p \in ComputedFrom(s, t, u, out, n) :
                                      p[1] = 1 /\ p[2] \in ToSet(t.cols) /\ p[2] \in C
    PROVE  \E ins, outs, kind :
             Recording(g, Record(g, name, Cols(in, C), ToSet(out.cols)), name, in, right, s, t, u, out, ins, outs, kind)
  <1> DEFINE ins == Cols(in, C)
  <1>1. IsFiniteSet(ins) BY ColsAreFinite
  <1>2. \A n \in ins : n[1] = "col" /\ n[2] \in {in, right} BY ColsNames
  <1>3. \A c \in C : Col(in, c) \in ins BY ColInCols
  <1> HIDE DEF ins
  <1>4. RecordsAllInputs(s) => \A n \in ToSet(out.cols) : \A p \in ComputedFrom(s, t, u, out, n) :
                                      Read(p, t, u, in, right, ins)
    BY <1>3 DEF Read
  <1>5. Recording(g, Record(g, name, ins, ToSet(out.cols)), name, in, right, s, t, u, out,
                  ins, Cols(name, ToSet(out.cols)), "output_column")
    BY <1>1, <1>2, <1>4, RecordRecords
  <1> QED BY <1>5 DEF ins

\* The recorders of the steps that keep their columns; save records its file.
LEMMA SameColumnsRecord ==
    ASSUME NEW g, IsGraph(g), NEW name, NEW in, NEW right, NEW s, NEW t, NEW u, NEW out,
           IsCols(t.cols), out.cols = t.cols, s.type \in SameColumnsTypes
    PROVE  \E ins, outs, kind : Recording(g, Recorded(g, name, in, right, s, t, u, out),
                                          name, in, right, s, t, u, out, ins, outs, kind)
  <1> DEFINE C == ToSet(t.cols)
  <1>1. IsFiniteSet(C) BY ColsShape
  <1>2. CASE s.type # "save"
    <2>1. Recorded(g, name, in, right, s, t, u, out) = Record(g, name, Cols(in, C), ToSet(out.cols))
      BY <1>2 DEF Recorded, SameColumnsTypes, record_passthrough, record_deduplicate, record_fill_nulls, record_sample
    <2>2. \A n \in ToSet(out.cols) : ComputedFrom(s, t, u, out, n) = {<<1, n>>}
      BY <1>2 DEF ComputedFrom, SameColumnsTypes
    <2>3. \A n \in ToSet(out.cols) : \A p \in ComputedFrom(s, t, u, out, n) :
            p[1] = 1 /\ p[2] \in ToSet(t.cols) /\ p[2] \in C
      BY <2>2
    <2> HIDE DEF C
    <2>4. \E ins, outs, kind : Recording(g, Record(g, name, Cols(in, C), ToSet(out.cols)),
                                          name, in, right, s, t, u, out, ins, outs, kind)
      BY <1>1, <2>3, OneInputRecords
    <2> QED BY <2>1, <2>4
  <1>3. CASE s.type = "save"
    <2> DEFINE ins == Cols(in, C)  outs == {Output(name, s.filename)}
    <2>1. Recorded(g, name, in, right, s, t, u, out) = record_save(g, name, in, s.filename, C)
      BY <1>3 DEF Recorded
    <2>2. Appended(g, record_save(g, name, in, s.filename, C), name, ins, outs, "output_file") BY SaveAppends
    <2>3. IsFiniteSet(ins) BY <1>1, ColsAreFinite
    <2>4. IsFiniteSet(outs) BY FS_Singleton
    <2>5. \A n \in ins : n[1] = "col" /\ n[2] \in {in, right} BY ColsNames
    <2>6. \A n \in outs : n[1] \in {"col", "output"} /\ n[2] = name BY DEF Output
    <2>7. ~RecordsAllInputs(s) BY <1>3 DEF RecordsAllInputs
    <2> HIDE DEF ins, outs
    <2> QED BY <2>1, <2>2, <2>3, <2>4, <2>5, <2>6, <2>7 DEF Recording
  <1> QED BY <1>2, <1>3

\* record_projection is told of the kept and the dropped columns.
LEMMA SelectRecords ==
    ASSUME NEW g, IsGraph(g), NEW name, NEW in, NEW right, NEW s, NEW t, NEW u, NEW out,
           IsCols(t.cols), IsCols(out.cols), s.type = "select", out \in execute_select(t, s)
    PROVE  \E ins, outs, kind : Recording(g, Recorded(g, name, in, right, s, t, u, out),
                                          name, in, right, s, t, u, out, ins, outs, kind)
  <1> DEFINE O == ToSet(out.cols)  C == O \cup (ToSet(t.cols) \ O)
  <1>1. IsFiniteSet(ToSet(t.cols)) BY ColsShape
  <1>2. O \subseteq ToSet(t.cols) BY SelectColumns
  <1>3. C = ToSet(t.cols) BY <1>2
  <1>4. IsFiniteSet(C) BY <1>1, <1>3
  <1>5. Recorded(g, name, in, right, s, t, u, out) = Record(g, name, Cols(in, C), O)
    BY DEF Recorded, record_projection
  <1>6. \A n \in O : ComputedFrom(s, t, u, out, n) = {<<1, n>>} BY DEF ComputedFrom
  <1>7. \A n \in O : \A p \in ComputedFrom(s, t, u, out, n) : p[1] = 1 /\ p[2] \in ToSet(t.cols) /\ p[2] \in C
    BY <1>2, <1>3, <1>6
  <1> HIDE DEF C
  <1>8. \E ins, outs, kind : Recording(g, Record(g, name, Cols(in, C), ToSet(out.cols)),
                                        name, in, right, s, t, u, out, ins, outs, kind)
    BY <1>4, <1>7, OneInputRecords
  <1> QED BY <1>5, <1>8

\* record_rename is told of every column.
LEMMA RenameRecords ==
    ASSUME NEW g, IsGraph(g), NEW name, NEW in, NEW right, NEW s, NEW t, NEW u, NEW out,
           IsCols(t.cols), s.type = "rename", out \in execute_rename(t, s)
    PROVE  \E ins, outs, kind : Recording(g, Recorded(g, name, in, right, s, t, u, out),
                                          name, in, right, s, t, u, out, ins, outs, kind)
  <1> DEFINE C == ToSet(t.cols)  m == s.mapping
  <1>1. IsFiniteSet(C) BY ColsShape
  <1>2. IsCols(out.cols) /\ ToSet(out.cols) = {Renamed(m, c) : c \in C} BY RenameColumns
  <1>3. {Renamed(m, c) : c \in C} = {IF c \in DOMAIN m THEN m[c] ELSE c : c \in C} BY DEF Renamed
  <1>4. Recorded(g, name, in, right, s, t, u, out)
            = Record(g, name, Cols(in, C), {IF c \in DOMAIN m THEN m[c] ELSE c : c \in C})
    BY DEF Recorded, record_rename
  <1>5. \A n \in ToSet(out.cols) : ComputedFrom(s, t, u, out, n) = {<<1, c>> : c \in {c \in C : Renamed(m, c) = n}}
    BY DEF ComputedFrom
  <1>6. \A n \in ToSet(out.cols) : \A p \in ComputedFrom(s, t, u, out, n) :
          p[1] = 1 /\ p[2] \in ToSet(t.cols) /\ p[2] \in C
    BY <1>5
  <1>7. Recorded(g, name, in, right, s, t, u, out) = Record(g, name, Cols(in, C), ToSet(out.cols))
    BY <1>2, <1>3, <1>4
  <1> HIDE DEF C
  <1>8. \E ins, outs, kind : Recording(g, Record(g, name, Cols(in, C), ToSet(out.cols)),
                                        name, in, right, s, t, u, out, ins, outs, kind)
    BY <1>1, <1>2, <1>6, OneInputRecords
  <1> QED BY <1>7, <1>8

\* record_join is told of the columns of both sides.
LEMMA JoinRecords ==
    ASSUME NEW g, IsGraph(g), NEW name, NEW in, NEW right, NEW s, NEW t, NEW u, NEW out,
           IsCols(t.cols), IsCols(u.cols), IsCols(out.cols), s.type = "join"
    PROVE  \E ins, outs, kind : Recording(g, Recorded(g, name, in, right, s, t, u, out),
                                          name, in, right, s, t, u, out, ins, outs, kind)
  <1> DEFINE A == Cols(in, ToSet(t.cols))  B == Cols(right, ToSet(u.cols))  ins == A \cup B
  <1>1. IsFiniteSet(ToSet(t.cols)) /\ IsFiniteSet(ToSet(u.cols)) BY ColsShape
  <1>2. IsFiniteSet(A) /\ IsFiniteSet(B) BY <1>1, ColsAreFinite
  <1>3. IsFiniteSet(ins) BY <1>2, FS_Union
  <1>4. \A n \in ins : n[1] = "col" /\ n[2] \in {in, right} BY ColsNames
  <1>5. (\A c \in ToSet(t.cols) : Col(in, c) \in ins) /\ (\A c \in ToSet(u.cols) : Col(right, c) \in ins)
    BY ColInCols
  <1>6. Recorded(g, name, in, right, s, t, u, out) = Record(g, name, ins, ToSet(out.cols))
    BY DEF Recorded, record_join, ConnectJoinSide
  <1>7. ASSUME NEW n, NEW p \in ComputedFrom(s, t, u, out, n) PROVE Read(p, t, u, in, right, ins)
    <2>1. PICK P \in SUBSET ToSet(t.cols), Q \in SUBSET ToSet(u.cols) :
            ComputedFrom(s, t, u, out, n) = {<<1, c>> : c \in P} \cup {<<2, c>> : c \in Q}
      BY DEF ComputedFrom
    <2> HIDE DEF ins
    <2> QED BY <1>5, <1>7, <2>1 DEF Read
  <1> HIDE DEF ins
  <1>8. Recording(g, Record(g, name, ins, ToSet(out.cols)), name, in, right, s, t, u, out,
                  ins, Cols(name, ToSet(out.cols)), "output_column")
    BY <1>3, <1>4, <1>7, RecordRecords
  <1> QED BY <1>6, <1>8

\* record_aggregate is told of the one column each output is computed from.
LEMMA AggregateRecords ==
    ASSUME NEW g, IsGraph(g), NEW name, NEW in, NEW right, NEW s, NEW t, NEW u, NEW out,
           IsCols(s.group_by), IsCols(s.aggregations), s.type = "aggregate", out \in execute_aggregate(t, s)
    PROVE  \E ins, outs, kind : Recording(g, Recorded(g, name, in, right, s, t, u, out),
                                          name, in, right, s, t, u, out, ins, outs, kind)
  <1> DEFINE O == ToSet(out.cols)
             F(n) == ComputedFrom(s, t, u, out, n)
             inputOf == [n \in O |-> (CHOOSE p \in F(n) : TRUE)[2]]
             C == {inputOf[c] : c \in DOMAIN inputOf}
             ins == Cols(in, C)
             h == record_aggregate(g, name, in, inputOf, O)
             As(n) == {a \in ToSet(s.aggregations) : OutputName(a) = n}
  <1>2. /\ IsCols(out.cols)
        /\ O = ToSet(s.group_by) \cup {OutputName(a) : a \in ToSet(s.aggregations)}
        /\ Has(t, s.group_by)
        /\ \A a \in ToSet(s.aggregations) : Has(t, <<a.column>>)
    BY AggregatedColumns
  <1>3. \A a, b \in ToSet(s.aggregations) : OutputName(a) = OutputName(b) => a = b
    BY AggregatedColumns
  <1>4. Recorded(g, name, in, right, s, t, u, out) = h BY DEF Recorded
  <1>5. \A n \in O : F(n) = IF n \in ToSet(s.group_by) THEN {<<1, n>>}
                            ELSE {<<1, c>> : c \in {a.column : a \in As(n)}}
    BY DEF ComputedFrom
  <1>6. ASSUME NEW n \in O PROVE \E c \in ToSet(t.cols) : F(n) = {<<1, c>>}
    <2>1. CASE n \in ToSet(s.group_by)
      <3>1. n \in ToSet(t.cols) BY <1>2, <2>1 DEF Has
      <3> QED BY <1>5, <2>1, <3>1
    <2>2. CASE n \notin ToSet(s.group_by)
      <3>3. PICK a \in ToSet(s.aggregations) : OutputName(a) = n BY <1>2, <2>2
      <3>4. As(n) = {a} BY <1>3, <3>3
      <3>5. F(n) = {<<1, a.column>>}
        <4> HIDE DEF F, As
        <4> QED BY <1>5, <2>2, <3>4
      <3>6. a.column \in ToSet(t.cols) BY <1>2, <3>3, HasOne
      <3> QED BY <3>5, <3>6
    <2> QED BY <2>1, <2>2
  <1> HIDE DEF F
  <1>7. \A n \in O : \A p \in F(n) : p[1] = 1 /\ p[2] \in ToSet(t.cols) /\ p[2] = inputOf[n] BY <1>6
  <1>8. IsFiniteSet(O) BY <1>2, ColsShape
  <1>9. DOMAIN inputOf = O OBVIOUS
  <1> HIDE DEF inputOf, O
  <1>10. C = {inputOf[c] : c \in O} BY <1>9
  <1>11. IsFiniteSet(C) BY <1>8, <1>10, FiniteImage
  <1>12. IsFiniteSet(ins) BY <1>11, ColsAreFinite
  <1>13. \A n \in O : Col(in, inputOf[n]) \in ins
    <2>1. \A n \in O : inputOf[n] \in C BY <1>10
    <2> HIDE DEF C
    <2> QED BY <2>1, ColInCols
  <1>14. \A n \in ins : n[1] = "col" /\ n[2] \in {in, right} BY ColsNames
  <1>15. Appended(g, h, name, ins, Cols(name, O), "output_column") BY AggregateAppends
  <1>16. IsFiniteSet(Cols(name, O)) BY <1>8, ColsAreFinite
  <1>17. \A n \in Cols(name, O) : n[1] = "col" /\ n[2] = name BY ColsNames
  <1> HIDE DEF C, ins, h
  <1>18. \A n \in O : \A p \in F(n) : Read(p, t, u, in, right, ins)
    BY <1>7, <1>13 DEF Read
  <1>19. \A n \in ToSet(out.cols) : \A p \in ComputedFrom(s, t, u, out, n) : Read(p, t, u, in, right, ins)
    BY <1>18 DEF O, F
  <1>20. Recording(g, h, name, in, right, s, t, u, out, ins, Cols(name, ToSet(out.cols)), "output_column")
    BY <1>12, <1>14, <1>15, <1>16, <1>17, <1>19 DEF Recording, O
  <1> QED BY <1>4, <1>20

\* record_pivot is told of one index column.
LEMMA PivotRecords ==
    ASSUME NEW g, IsGraph(g), NEW name, NEW in, NEW right, NEW s, NEW t, NEW u, NEW out,
           IsTable(t), IsCols(s.index), s.type = "pivot", out \in execute_pivot(t, s)
    PROVE  \E ins, outs, kind : Recording(g, Recorded(g, name, in, right, s, t, u, out),
                                          name, in, right, s, t, u, out, ins, outs, kind)
  <1> DEFINE C == {s.index[1], s.columns, s.values}
  <1>1. IsCols(out.cols) /\ PivotDefined(t, s) BY PivotColumns
  <1>2. IsFiniteSet(C)
    <2>1. IsFiniteSet({s.index[1]}) /\ IsFiniteSet({s.columns}) /\ IsFiniteSet({s.values}) BY FS_Singleton
    <2>2. IsFiniteSet({s.index[1]} \cup {s.columns}) BY <2>1, FS_Union
    <2>3. IsFiniteSet(({s.index[1]} \cup {s.columns}) \cup {s.values}) BY <2>1, <2>2, FS_Union
    <2>4. C = ({s.index[1]} \cup {s.columns}) \cup {s.values} OBVIOUS
    <2> QED BY <2>3, <2>4
  <1>3. Recorded(g, name, in, right, s, t, u, out) = Record(g, name, Cols(in, C), ToSet(out.cols))
    BY DEF Recorded, record_pivot
  <1>4. \A n \in ToSet(out.cols) : ComputedFrom(s, t, u, out, n)
            = IF n \in ToSet(s.index) THEN {<<1, n>>} ELSE {<<1, c>> : c \in {s.columns, s.values}}
    BY DEF ComputedFrom
  <1>5. {s.columns, s.values} \subseteq ToSet(t.cols) /\ ToSet(s.index) \subseteq ToSet(t.cols)
    <2>1. ToSet(<<s.columns, s.values>>) = {s.columns, s.values} BY DEF ToSet
    <2> QED BY <1>1, <2>1 DEF PivotDefined, Has
  <1>6. RecordsAllInputs(s) => ToSet(s.index) \subseteq C
    <2>1. ToSet(s.index) = {s.index[i] : i \in 1..Len(s.index)} BY ColsShape
    <2>2. RecordsAllInputs(s) => Len(s.index) = 1 BY DEF RecordsAllInputs
    <2> QED BY <2>1, <2>2
  <1>7. RecordsAllInputs(s) => \A n \in ToSet(out.cols) : \A p \in ComputedFrom(s, t, u, out, n) :
          p[1] = 1 /\ p[2] \in ToSet(t.cols) /\ p[2] \in C
    BY <1>4, <1>5, <1>6
  <1> HIDE DEF C
  <1>8. \E ins, outs, kind : Recording(g, Record(g, name, Cols(in, C), ToSet(out.cols)),
                                       name, in, right, s, t, u, out, ins, outs, kind)
    BY <1>1, <1>2, <1>7, OneInputRecords
  <1> QED BY <1>3, <1>8

\* record_unpivot is told of the identifiers and of the values.
LEMMA UnpivotRecords ==
    ASSUME NEW g, IsGraph(g), NEW name, NEW in, NEW right, NEW s, NEW t, NEW u, NEW out,
           IsCols(s.id_vars), IsCols(s.value_vars), s.type = "unpivot", out \in execute_unpivot(t, s)
    PROVE  \E ins, outs, kind : Recording(g, Recorded(g, name, in, right, s, t, u, out),
                                          name, in, right, s, t, u, out, ins, outs, kind)
  <1> DEFINE C == ToSet(s.id_vars) \cup ToSet(s.value_vars)
  <1>1. IsCols(out.cols) /\ UnpivotDefined(t, s) BY UnpivotColumns
  <1>2. IsFiniteSet(C)
    <2>1. IsFiniteSet(ToSet(s.id_vars)) /\ IsFiniteSet(ToSet(s.value_vars)) BY ColsShape
    <2> QED BY <2>1, FS_Union
  <1>3. Recorded(g, name, in, right, s, t, u, out) = Record(g, name, Cols(in, C), ToSet(out.cols))
    BY DEF Recorded, record_unpivot
  <1>4. \A n \in ToSet(out.cols) : ComputedFrom(s, t, u, out, n)
            = IF n \in ToSet(s.id_vars) THEN {<<1, n>>} ELSE {<<1, c>> : c \in ToSet(s.value_vars)}
    BY DEF ComputedFrom
  <1>5. C \subseteq ToSet(t.cols) BY <1>1 DEF UnpivotDefined, Has
  <1>7. \A n \in ToSet(out.cols) : \A p \in ComputedFrom(s, t, u, out, n) :
          p[1] = 1 /\ p[2] \in ToSet(t.cols) /\ p[2] \in C
    BY <1>4, <1>5
  <1> HIDE DEF C
  <1>8. \E ins, outs, kind : Recording(g, Record(g, name, Cols(in, C), ToSet(out.cols)),
                                       name, in, right, s, t, u, out, ins, outs, kind)
    BY <1>1, <1>2, <1>7, OneInputRecords
  <1> QED BY <1>3, <1>8

\* record_wasm_compute is told of the inputs of the function.
LEMMA WasmRecords ==
    ASSUME NEW g, IsGraph(g), NEW name, NEW in, NEW right, NEW s, NEW t, NEW u, NEW out,
           IsCols(out.cols), IsCols(s.input_columns), s.type = "wasm_compute"
    PROVE  \E ins, outs, kind : Recording(g, Recorded(g, name, in, right, s, t, u, out),
                                          name, in, right, s, t, u, out, ins, outs, kind)
  <1> DEFINE C == ToSet(s.input_columns)
  <1>1. IsFiniteSet(C) BY ColsShape
  <1>2. Recorded(g, name, in, right, s, t, u, out) = Record(g, name, Cols(in, C), ToSet(out.cols))
    BY DEF Recorded, record_wasm_compute
  <1>3. ~RecordsAllInputs(s) BY DEF RecordsAllInputs
  <1> HIDE DEF C
  <1>4. \E ins, outs, kind : Recording(g, Record(g, name, Cols(in, C), ToSet(out.cols)),
                                       name, in, right, s, t, u, out, ins, outs, kind)
    BY <1>1, <1>3, OneInputRecords
  <1> QED BY <1>2, <1>4

\* What the recorder adds for a step of Pandas.
LEMMA StepRecords ==
    ASSUME NEW g, IsGraph(g), NEW name, NEW in, NEW right, NEW t, IsTable(t), IsCols(t.cols),
           NEW u, IsCols(u.cols), NEW s, IsConfig(s), NEW out \in Pandas(t, u, s)
    PROVE  \E ins, outs, kind : Recording(g, Recorded(g, name, in, right, s, t, u, out),
                                          name, in, right, s, t, u, out, ins, outs, kind)
  <1>1. s.type \in StepTypes BY DEF IsConfig
  <1>2. IsCols(out.cols) BY StepMakesColumns
  <1>3. CASE s.type \in SameColumnsTypes BY <1>3, RowStepsKeepColumns, SameColumnsRecord
  <1>4. CASE s.type = "select" BY <1>2, <1>4, SelectRecords DEF Pandas
  <1>5. CASE s.type = "rename" BY <1>5, RenameRecords DEF Pandas
  <1>6. CASE s.type = "join" BY <1>2, <1>6, JoinRecords
  <1>7. CASE s.type = "aggregate"
    <2>1. IsCols(s.group_by) /\ IsCols(s.aggregations) BY <1>7, SeqIsCols DEF IsConfig
    <2> QED BY <1>7, <2>1, AggregateRecords DEF Pandas
  <1>8. CASE s.type = "pivot"
    <2>1. IsCols(s.index) BY <1>8, SeqIsCols DEF IsConfig
    <2> QED BY <1>8, <2>1, PivotRecords DEF Pandas
  <1>9. CASE s.type = "unpivot"
    <2>1. IsCols(s.id_vars) /\ IsCols(s.value_vars) BY <1>9, SeqIsCols DEF IsConfig
    <2> QED BY <1>9, <2>1, UnpivotRecords DEF Pandas
  <1>10. CASE s.type = "wasm_compute"
    <2>1. IsCols(s.input_columns) BY <1>10, SeqIsCols DEF IsConfig
    <2> QED BY <1>2, <1>10, <2>1, WasmRecords
  <1> QED BY <1>1, <1>3, <1>4, <1>5, <1>6, <1>7, <1>8, <1>9, <1>10
          DEF StepTypes, DuckDBCapable, SameColumnsTypes

-----------------------------------------------------------------------------
(* The order of the nodes, and what leads to what.                         *)

LoadNames == {"a", "b"}
Place(m)  == IF m \in LoadNames THEN 0 ELSE CHOOSE i \in 1..4 : StepNames[i] = m
RankOf(n) == IF n[1] = "file" THEN 0 ELSE IF n[1] = "step" THEN 2 * Place(n[2]) + 1 ELSE 2 * Place(n[2]) + 2

IsOrdered(g) ==
    /\ IsGraph(g)
    /\ IsFiniteSet(DOMAIN g.kind) /\ IsFiniteSet(g.edges)
    /\ \A n \in DOMAIN g.kind : RankOf(n) \in 0..10
    /\ \A e \in g.edges : e[2] \in DOMAIN g.kind /\ RankOf(e[1]) \in 0..10 /\ RankOf(e[1]) < RankOf(e[2])

ClosedBack(g, A)  == \A e \in g.edges : e[2] \in A => e[1] \in A
ClosedAhead(g, A) == \A e \in g.edges : e[1] \in A => e[2] \in A

\* Every path back from column c of step n meets the loaded column o, and on from o meets c.
Feeds(g, o, n, c) ==
    /\ \A A : ClosedBack(g, A) /\ Col(n, c) \in A => Col(o[1], o[2]) \in A /\ Step(n) \in A /\ Step(o[1]) \in A
    /\ \A A : ClosedAhead(g, A) /\ Col(o[1], o[2]) \in A => Col(n, c) \in A

\* More edges take nothing away.
LEMMA FeedsStays ==
    ASSUME NEW g, NEW h, g.edges \subseteq h.edges, NEW o, NEW n, NEW c, Feeds(g, o, n, c)
    PROVE  Feeds(h, o, n, c)
  <1>1. \A A : ClosedBack(h, A) => ClosedBack(g, A) BY DEF ClosedBack
  <1>2. \A A : ClosedAhead(h, A) => ClosedAhead(g, A) BY DEF ClosedAhead
  <1> QED BY <1>1, <1>2 DEF Feeds

\* What feeds a column that a step reads feeds the columns that it writes.
LEMMA FeedsOn ==
    ASSUME NEW g, NEW h, NEW o, NEW m, NEW d, NEW n, NEW c, Feeds(g, o, m, d), g.edges \subseteq h.edges,
           <<Col(m, d), Step(n)>> \in h.edges, <<Step(n), Col(n, c)>> \in h.edges
    PROVE  Feeds(h, o, n, c)
  <1>1. Feeds(h, o, m, d) BY FeedsStays
  <1>2. ASSUME NEW A, ClosedBack(h, A), Col(n, c) \in A
        PROVE  Col(o[1], o[2]) \in A /\ Step(n) \in A /\ Step(o[1]) \in A
    <2>1. Step(n) \in A BY <1>2 DEF ClosedBack
    <2>2. Col(m, d) \in A BY <1>2, <2>1 DEF ClosedBack
    <2> QED BY <1>1, <1>2, <2>1, <2>2 DEF Feeds
  <1>3. ASSUME NEW A, ClosedAhead(h, A), Col(o[1], o[2]) \in A PROVE Col(n, c) \in A
    <2>1. Col(m, d) \in A BY <1>1, <1>3 DEF Feeds
    <2>2. Step(n) \in A BY <1>3, <2>1 DEF ClosedAhead
    <2> QED BY <1>3, <2>2 DEF ClosedAhead
  <1> QED BY <1>2, <1>3 DEF Feeds

\* The steps have names of their own.
LEMMA StepNamePlaces ==
    /\ \A i \in 1..4 : StepNames[i] \notin LoadNames /\ Place(StepNames[i]) = i
    /\ \A m \in LoadNames : Place(m) = 0
  <1>1. \A m \in LoadNames : Place(m) = 0 BY DEF Place
  <1>2. \A i \in 1..4 : StepNames[i] \notin LoadNames BY DEF StepNames, LoadNames
  <1>3. \A i, j \in 1..4 : StepNames[i] = StepNames[j] => i = j BY DEF StepNames
  <1>4. \A i \in 1..4 : Place(StepNames[i]) = i BY <1>2, <1>3 DEF Place
  <1> QED BY <1>1, <1>2, <1>4

\* The name of the next step is new, and its place is after those of all tables.
LEMMA NewName ==
    ASSUME TablesInv, done < MaxSteps, NEW in \in DOMAIN tables
    PROVE  LET name == StepNames[done + 1]
           IN  /\ name \notin DOMAIN tables /\ name \notin LoadNames
               /\ Place(name) \in 1..4 /\ Place(in) \in 0..4 /\ Place(in) < Place(name) /\ Place("b") = 0
  <1>1. done \in 0..3 /\ done + 1 \in 1..4 BY StepsAssumption DEF TablesInv, StepNames
  <1>2. \A n \in DOMAIN tables : Place(n) \in 0..done
    <2>1. ASSUME NEW n \in DOMAIN tables PROVE Place(n) \in 0..done
      <3>1. n \in LoadNames \/ \E i \in 1..done : n = StepNames[i] BY DEF TablesInv, LoadNames
      <3>2. CASE n \in LoadNames BY <1>1, <3>2, StepNamePlaces
      <3>3. CASE \E i \in 1..done : n = StepNames[i]
        <4>1. PICK i \in 1..done : n = StepNames[i] BY <3>3
        <4>2. i \in 1..4 /\ i \in 0..done BY <1>1
        <4> QED BY <4>1, <4>2, StepNamePlaces
      <3> QED BY <3>1, <3>2, <3>3
    <2> QED BY <2>1
  <1>3. Place(StepNames[done + 1]) = done + 1 /\ StepNames[done + 1] \notin LoadNames BY <1>1, StepNamePlaces
  <1>4. Place("b") = 0 BY StepNamePlaces DEF LoadNames
  <1>5. StepNames[done + 1] \notin DOMAIN tables
    <2> SUFFICES ASSUME StepNames[done + 1] \in DOMAIN tables PROVE FALSE OBVIOUS
    <2>1. Place(StepNames[done + 1]) \in 0..done BY <1>2
    <2> QED BY <1>1, <1>3, <2>1
  <1>6. Place(in) \in 0..done BY <1>2
  <1> QED BY <1>1, <1>3, <1>4, <1>5, <1>6

\* A step keeps the graph ordered.
LEMMA AppendedIsOrdered ==
    ASSUME NEW g, IsOrdered(g), NEW h, NEW name, NEW ins, NEW outs, NEW kind,
           Appended(g, h, name, ins, outs, kind), IsFiniteSet(ins), IsFiniteSet(outs),
           Place(name) \in 0..4,
           \A n \in ins : RankOf(n) \in 0..10 /\ RankOf(n) < 2 * Place(name) + 1,
           \A n \in outs : n[1] \in {"col", "output"} /\ n[2] = name
    PROVE  IsOrdered(h)
  <1> DEFINE st == Step(name)
  <1>1. RankOf(st) = 2 * Place(name) + 1 BY DEF RankOf, Step
  <1>2. \A n \in outs : RankOf(n) = 2 * Place(name) + 2 BY DEF RankOf
  <1> HIDE DEF st
  <1>3. /\ DOMAIN h.kind = (DOMAIN g.kind \cup {st}) \cup outs
        /\ h.edges = (g.edges \cup (ins \X {st})) \cup ({st} \X outs)
        /\ IsGraph(h)
    BY DEF Appended, st
  <1>4. IsFiniteSet({st}) BY FS_Singleton
  <1>5. IsFiniteSet(DOMAIN h.kind)
    <2>1. IsFiniteSet(DOMAIN g.kind) BY DEF IsOrdered
    <2>2. IsFiniteSet(DOMAIN g.kind \cup {st}) BY <1>4, <2>1, FS_Union
    <2>3. IsFiniteSet((DOMAIN g.kind \cup {st}) \cup outs) BY <2>2, FS_Union
    <2> QED BY <1>3, <2>3
  <1>6. IsFiniteSet(h.edges)
    <2>1. IsFiniteSet(g.edges) BY DEF IsOrdered
    <2>2. IsFiniteSet(ins \X {st}) /\ IsFiniteSet({st} \X outs) BY <1>4, FS_Product
    <2>3. IsFiniteSet(g.edges \cup (ins \X {st})) BY <2>1, <2>2, FS_Union
    <2>4. IsFiniteSet((g.edges \cup (ins \X {st})) \cup ({st} \X outs)) BY <2>2, <2>3, FS_Union
    <2> QED BY <1>3, <2>4
  <1>7. \A n \in DOMAIN h.kind : RankOf(n) \in 0..10
    BY <1>1, <1>2, <1>3 DEF IsOrdered
  <1>8. ASSUME NEW e \in h.edges
        PROVE  e[2] \in DOMAIN h.kind /\ RankOf(e[1]) \in 0..10 /\ RankOf(e[1]) < RankOf(e[2])
    <2>1. CASE e \in g.edges BY <1>3, <2>1 DEF IsOrdered
    <2>2. CASE e \in ins \X {st}
      <3>1. e[1] \in ins /\ e[2] = st BY <2>2
      <3> QED BY <1>1, <1>3, <3>1
    <2>3. CASE e \in {st} \X outs
      <3>1. e[1] = st /\ e[2] \in outs BY <2>3
      <3> QED BY <1>1, <1>2, <1>3, <3>1
    <2> QED BY <1>3, <2>1, <2>2, <2>3
  <1> QED BY <1>3, <1>5, <1>6, <1>7, <1>8 DEF IsOrdered

\* The edges of the step.
LEMMA AppendedEdges ==
    ASSUME NEW g, NEW h, NEW name, NEW ins, NEW outs, NEW kind, Appended(g, h, name, ins, outs, kind)
    PROVE  /\ g.edges \subseteq h.edges
           /\ \A n \in ins : <<n, Step(name)>> \in h.edges
           /\ \A n \in outs : <<Step(name), n>> \in h.edges
  BY DEF Appended

-----------------------------------------------------------------------------

\* What the graph knows of the columns of a table whose step is traced.
ColumnsTraced(g, n, orig, cols) ==
    /\ DOMAIN orig = cols
    /\ Step(n) \in DOMAIN g.kind /\ g.kind[Step(n)] = "step"
    /\ \A c \in cols : /\ Col(n, c) \in DOMAIN g.kind
                       /\ g.kind[Col(n, c)] = IF n \in LoadNames THEN "source_column" ELSE "output_column"

OriginsTraced(g, n, orig, cols, Loads) ==
    \A c \in cols : \A o \in orig[c] :
        /\ o[1] \in LoadNames
        /\ n \in LoadNames => o[1] = n
        /\ o[2] \in Loads[o[1]]
        /\ Feeds(g, o, n, c)

LoadedColumns == [m \in LoadNames |-> ToSet(tables[m].cols)]

LineageInv ==
    /\ IsOrdered(graph)
    /\ LoadNames \subseteq traced /\ traced \subseteq DOMAIN tables /\ DOMAIN origin = DOMAIN tables
    /\ \A n \in DOMAIN tables : IsCols(tables[n].cols)
    /\ \A n \in traced : /\ ColumnsTraced(graph, n, origin[n], ToSet(tables[n].cols))
                         /\ OriginsTraced(graph, n, origin[n], ToSet(tables[n].cols), LoadedColumns)

\* A step leaves the nodes of other tables alone.
LEMMA ColumnsStayTraced ==
    ASSUME NEW g, NEW h, NEW name, NEW ins, NEW outs, NEW kind, Appended(g, h, name, ins, outs, kind),
           \A n \in outs : n[1] \in {"col", "output"} /\ n[2] = name,
           NEW n, n # name, NEW orig, NEW cols, ColumnsTraced(g, n, orig, cols)
    PROVE  ColumnsTraced(h, n, orig, cols)
  <1>1. Step(n) \notin outs /\ Step(n) # Step(name) BY DEF Step
  <1>2. \A c : Col(n, c) \notin outs /\ Col(n, c) # Step(name) BY DEF Step, Col
  <1>3. h.kind[Step(n)] = "step" /\ Step(n) \in DOMAIN h.kind BY <1>1 DEF ColumnsTraced, Appended
  <1>4. \A c \in cols : Col(n, c) \in DOMAIN h.kind /\ h.kind[Col(n, c)] = g.kind[Col(n, c)]
    BY <1>2 DEF ColumnsTraced, Appended
  <1> QED BY <1>3, <1>4 DEF ColumnsTraced

\* And the paths between them.
LEMMA OriginsStayTraced ==
    ASSUME NEW g, NEW h, g.edges \subseteq h.edges, NEW n, NEW orig, NEW cols, NEW Loads,
           OriginsTraced(g, n, orig, cols, Loads)
    PROVE  OriginsTraced(h, n, orig, cols, Loads)
  BY FeedsStays DEF OriginsTraced

OriginOf(from, right, s, t, u, out) ==
    [n \in ToSet(out.cols) |-> UNION {IF p[1] = 1 THEN from[p[2]] ELSE right[p[2]] :
                                         p \in ComputedFrom(s, t, u, out, n)}]

\* The columns a traced step has made descend from those it was made of.
LEMMA NewOriginsTraced ==
    ASSUME NEW g, NEW h, NEW name, name \notin LoadNames, NEW in, NEW r, NEW s, NEW t, NEW u, NEW out, NEW ins, NEW outs, NEW kind,
           Recording(g, h, name, in, r, s, t, u, out, ins, outs, kind), RecordsAllInputs(s),
           NEW from, NEW right, NEW Loads,
           OriginsTraced(g, in, from, ToSet(t.cols), Loads), OriginsTraced(g, r, right, ToSet(u.cols), Loads)
    PROVE  OriginsTraced(h, name, OriginOf(from, right, s, t, u, out), ToSet(out.cols), Loads)
  <1> DEFINE orig == OriginOf(from, right, s, t, u, out)
             F(n) == ComputedFrom(s, t, u, out, n)
  <1> SUFFICES ASSUME NEW c \in ToSet(out.cols), NEW o \in orig[c]
               PROVE  o[1] \in LoadNames /\ o[2] \in Loads[o[1]] /\ Feeds(h, o, name, c)
    BY DEF OriginsTraced
  <1>1. orig[c] = UNION {IF p[1] = 1 THEN from[p[2]] ELSE right[p[2]] : p \in F(c)} BY DEF OriginOf
  <1>2. \A p \in F(c) : Read(p, t, u, in, r, ins) BY DEF Recording
  <1> HIDE DEF F
  <1>3. PICK p \in F(c) : o \in IF p[1] = 1 THEN from[p[2]] ELSE right[p[2]] BY <1>1
  <1>4. /\ g.edges \subseteq h.edges
        /\ \A n \in ins : <<n, Step(name)>> \in h.edges
        /\ \A n \in outs : <<Step(name), n>> \in h.edges
    BY AppendedEdges DEF Recording
  <1>5. Col(name, c) \in outs BY ColInCols DEF Recording
  <1>6. CASE p[1] = 1
    <2>1. p[2] \in ToSet(t.cols) /\ Col(in, p[2]) \in ins BY <1>2, <1>6 DEF Read
    <2>2. o[1] \in LoadNames /\ o[2] \in Loads[o[1]] /\ Feeds(g, o, in, p[2]) BY <1>3, <1>6, <2>1 DEF OriginsTraced
    <2>3. <<Col(in, p[2]), Step(name)>> \in h.edges /\ <<Step(name), Col(name, c)>> \in h.edges BY <1>4, <1>5, <2>1
    <2>4. Feeds(h, o, name, c) BY ONLY <1>4, <2>2, <2>3, FeedsOn
    <2> QED BY <2>2, <2>4
  <1>7. CASE p[1] # 1
    <2>1. p[2] \in ToSet(u.cols) /\ Col(r, p[2]) \in ins BY <1>2, <1>7 DEF Read
    <2>2. o[1] \in LoadNames /\ o[2] \in Loads[o[1]] /\ Feeds(g, o, r, p[2]) BY <1>3, <1>7, <2>1 DEF OriginsTraced
    <2>3. <<Col(r, p[2]), Step(name)>> \in h.edges /\ <<Step(name), Col(name, c)>> \in h.edges BY <1>4, <1>5, <2>1
    <2>4. Feeds(h, o, name, c) BY ONLY <1>4, <2>2, <2>3, FeedsOn
    <2> QED BY <2>2, <2>4
  <1> QED BY <1>6, <1>7

\* They are nodes of the graph.
LEMMA NewColumnsTraced ==
    ASSUME NEW g, NEW h, NEW name, name \notin LoadNames, NEW in, NEW r, NEW s, NEW t, NEW u, NEW out, NEW ins, NEW outs, NEW kind,
           Recording(g, h, name, in, r, s, t, u, out, ins, outs, kind), RecordsAllInputs(s),
           NEW orig, DOMAIN orig = ToSet(out.cols)
    PROVE  ColumnsTraced(h, name, orig, ToSet(out.cols))
  <1>1. Appended(g, h, name, ins, outs, kind) /\ kind = "output_column" /\ outs = Cols(name, ToSet(out.cols))
    BY DEF Recording
  <1>2. Step(name) \notin outs BY <1>1 DEF Step, Cols, Col
  <1>3. \A c \in ToSet(out.cols) : Col(name, c) \in outs BY <1>1, ColInCols
  <1>4. Step(name) \in DOMAIN h.kind /\ h.kind[Step(name)] = "step" BY <1>1, <1>2 DEF Appended
  <1>5. \A c \in ToSet(out.cols) : Col(name, c) \in DOMAIN h.kind /\ h.kind[Col(name, c)] = "output_column"
    BY <1>1, <1>3 DEF Appended
  <1> QED BY <1>4, <1>5 DEF ColumnsTraced

\* A step of Pandas is recorded: its columns are traced when those it reads are.
LEMMA PandasKeepsLineageInv ==
    ASSUME TablesInv, LineageInv, NEW in \in DOMAIN tables, NEW s \in Configs, ExecutePandas(in, s)
    PROVE  LineageInv'
  <1> DEFINE t == tables[in]  r == "b"  u == tables[r]
  <1>0. PICK name : name = StepNames[done + 1] OBVIOUS
  <1>1. done < MaxSteps BY <1>0 DEF ExecutePandas
  <1>2. PICK out \in Pandas(t, u, s) :
          /\ Finish(name, in, r, s, out)
          /\ graph' = Recorded(graph, name, in, r, s, t, u, out)
    BY <1>0 DEF ExecutePandas
  <1>3. /\ name \notin DOMAIN tables /\ name \notin LoadNames
        /\ Place(name) \in 1..4 /\ Place(in) \in 0..4 /\ Place(in) < Place(name) /\ Place(r) = 0
    BY <1>0, <1>1, NewName
  <1>4. r \in DOMAIN tables /\ r \in traced BY DEF LineageInv, LoadNames
  <1>5. IsTable(t) /\ IsTable(u) /\ IsCols(t.cols) /\ IsCols(u.cols) /\ IsConfig(s)
    BY <1>4, StepsAssumption DEF TablesInv, LineageInv
  <1>6. IsGraph(graph) BY DEF LineageInv, IsOrdered
  <1>7. PICK ins, outs, kind : Recording(graph, graph', name, in, r, s, t, u, out, ins, outs, kind)
    <2> HIDE DEF t, u, r
    <2> QED BY <1>2, <1>5, <1>6, StepRecords
  <1>8. IsCols(out.cols)
    <2> HIDE DEF t, u
    <2> QED BY <1>2, <1>5, StepMakesColumns
  <1>a. LoadNames \subseteq traced /\ traced \subseteq DOMAIN tables /\ DOMAIN origin = DOMAIN tables BY DEF LineageInv
  <1> HIDE DEF r
  <1>9. /\ DOMAIN tables' = DOMAIN tables \cup {name} /\ tables'[name] = out
        /\ \A n \in DOMAIN tables : tables'[n] = tables[n] /\ origin'[n] = origin[n]
        /\ LoadedColumns' = LoadedColumns
        /\ DOMAIN origin' = DOMAIN tables'
        /\ origin'[name] = OriginOf(origin[in], origin[r], s, t, u, out)
    <2> DEFINE orig == OriginOf(origin[in], origin[r], s, t, u, out)
    <2>1. tables' = Put(tables, name, out) /\ origin' = Put(origin, name, orig) BY <1>2 DEF Finish, OriginOf
    <2> HIDE DEF orig, t, u
    <2>2. DOMAIN tables' = DOMAIN tables \cup {name} /\ tables'[name] = out BY <2>1 DEF Put
    <2>3. DOMAIN origin' = DOMAIN tables' /\ origin'[name] = orig BY <1>a, <2>1 DEF Put
    <2>4. \A n \in DOMAIN tables : tables'[n] = tables[n] /\ origin'[n] = origin[n] BY <1>3, <1>a, <2>1 DEF Put
    <2>5. \A m \in LoadNames : tables'[m] = tables[m] BY <1>a, <2>4
    <2>6. LoadedColumns' = LoadedColumns BY <2>5 DEF LoadedColumns
    <2> QED BY <2>2, <2>3, <2>4, <2>6 DEF orig
  <1>10. traced' = IF in \in traced /\ RecordsAllInputs(s) THEN traced \cup {name} ELSE traced
    BY <1>0 DEF ExecutePandas
  <1> HIDE DEF t, u, r
  <1>11. IsOrdered(graph')
    <2>1. \A n \in ins : RankOf(n) \in 0..10 /\ RankOf(n) < 2 * Place(name) + 1
      <3>1. ASSUME NEW n \in ins PROVE RankOf(n) \in 0..10 /\ RankOf(n) < 2 * Place(name) + 1
        <4>1. n[1] = "col" /\ n[2] \in {in, r} BY <1>7 DEF Recording
        <4>2. RankOf(n) = 2 * Place(n[2]) + 2 BY <4>1 DEF RankOf
        <4>3. Place(n[2]) \in 0..4 /\ Place(n[2]) < Place(name) BY <1>3, <4>1
        <4> QED BY <1>3, <4>2, <4>3
      <3> QED BY <3>1
    <2>2. Place(name) \in 0..4 BY <1>3
    <2> QED BY <1>7, <2>1, <2>2, AppendedIsOrdered DEF Recording, LineageInv
  <1>12. LoadNames \subseteq traced' /\ traced' \subseteq DOMAIN tables' BY <1>9, <1>10 DEF LineageInv
  <1>13. \A n \in DOMAIN tables' : IsCols(tables'[n].cols) BY <1>8, <1>9 DEF LineageInv
  <1>14. ASSUME NEW n \in traced
         PROVE  /\ ColumnsTraced(graph', n, origin'[n], ToSet(tables'[n].cols))
                /\ OriginsTraced(graph', n, origin'[n], ToSet(tables'[n].cols), LoadedColumns')
    <2>1. n \in DOMAIN tables /\ n # name BY <1>3 DEF LineageInv
    <2>2. origin'[n] = origin[n] /\ tables'[n] = tables[n] /\ LoadedColumns' = LoadedColumns BY <1>9, <2>1
    <2>3. /\ ColumnsTraced(graph, n, origin[n], ToSet(tables[n].cols))
          /\ OriginsTraced(graph, n, origin[n], ToSet(tables[n].cols), LoadedColumns)
      BY DEF LineageInv
    <2>4. /\ Appended(graph, graph', name, ins, outs, kind)
          /\ \A x \in outs : x[1] \in {"col", "output"} /\ x[2] = name
      BY <1>7 DEF Recording
    <2>5. ColumnsTraced(graph', n, origin[n], ToSet(tables[n].cols)) BY <2>1, <2>3, <2>4, ColumnsStayTraced
    <2>6. graph.edges \subseteq (graph').edges BY <2>4, AppendedEdges
    <2>7. OriginsTraced(graph', n, origin[n], ToSet(tables[n].cols), LoadedColumns)
      BY <2>3, <2>6, OriginsStayTraced
    <2> QED BY <2>2, <2>5, <2>7
  <1>15. ASSUME in \in traced, RecordsAllInputs(s)
         PROVE  /\ ColumnsTraced(graph', name, origin'[name], ToSet(tables'[name].cols))
                /\ OriginsTraced(graph', name, origin'[name], ToSet(tables'[name].cols), LoadedColumns')
    <2>1. tables'[name] = out /\ LoadedColumns' = LoadedColumns BY <1>9
    <2>2. DOMAIN (origin'[name]) = ToSet(out.cols) BY <1>9 DEF OriginOf
    <2>3. ColumnsTraced(graph', name, origin'[name], ToSet(out.cols))
      BY <1>3, <1>7, <1>15, <2>2, NewColumnsTraced
    <2>4. /\ OriginsTraced(graph, in, origin[in], ToSet(t.cols), LoadedColumns)
          /\ OriginsTraced(graph, r, origin[r], ToSet(u.cols), LoadedColumns)
      BY <1>4, <1>15 DEF LineageInv, t, u
    <2>5. OriginsTraced(graph', name, origin'[name], ToSet(out.cols), LoadedColumns)
      <3>1. OriginsTraced(graph', name, OriginOf(origin[in], origin[r], s, t, u, out), ToSet(out.cols), LoadedColumns)
        BY ONLY <1>3, <1>7, <1>15, <2>4, NewOriginsTraced
      <3> QED BY <1>9, <3>1
    <2> QED BY <2>1, <2>3, <2>5
  <1>16. \A n \in traced' : /\ ColumnsTraced(graph', n, origin'[n], ToSet(tables'[n].cols))
                            /\ OriginsTraced(graph', n, origin'[n], ToSet(tables'[n].cols), LoadedColumns')
    BY <1>10, <1>14, <1>15
  <1> QED BY <1>9, <1>11, <1>12, <1>13, <1>16 DEF LineageInv

\* A step of DuckDB is not recorded, and not traced.
LEMMA DuckDBKeepsLineageInv ==
    ASSUME TablesInv, LineageInv, NEW in \in DOMAIN tables, NEW s \in Configs, ExecuteDuckDB(in, s)
    PROVE  LineageInv'
  <1> DEFINE t == tables[in]  r == "b"  u == tables[r]
  <1>0. PICK name : name = StepNames[done + 1] OBVIOUS
  <1>1. done < MaxSteps /\ graph' = graph /\ traced' = traced /\ s.type \in DuckDBCapable BY DEF ExecuteDuckDB
  <1>2. PICK out \in build_sql_for_step(t, u, s) : Finish(name, in, r, s, out) BY <1>0 DEF ExecuteDuckDB
  <1>3. name \notin DOMAIN tables BY <1>0, <1>1, NewName
  <1>4. r \in DOMAIN tables BY DEF LineageInv, LoadNames
  <1>5. IsTable(t) /\ IsCols(t.cols) /\ IsCols(u.cols) /\ IsConfig(s)
    BY <1>4, StepsAssumption DEF TablesInv, LineageInv
  <1>6. IsCols(out.cols)
    <2> HIDE DEF t, u
    <2> QED BY <1>1, <1>2, <1>5, StepMakesColumns
  <1>a. LoadNames \subseteq traced /\ traced \subseteq DOMAIN tables /\ DOMAIN origin = DOMAIN tables BY DEF LineageInv
  <1> HIDE DEF r
  <1>7. /\ DOMAIN tables' = DOMAIN tables \cup {name} /\ tables'[name] = out
        /\ \A n \in DOMAIN tables : tables'[n] = tables[n] /\ origin'[n] = origin[n]
        /\ LoadedColumns' = LoadedColumns
        /\ DOMAIN origin' = DOMAIN tables'
    <2> DEFINE orig == OriginOf(origin[in], origin[r], s, t, u, out)
    <2>1. tables' = Put(tables, name, out) /\ origin' = Put(origin, name, orig) BY <1>2 DEF Finish, OriginOf
    <2> HIDE DEF orig, t, u
    <2>2. DOMAIN tables' = DOMAIN tables \cup {name} /\ tables'[name] = out BY <2>1 DEF Put
    <2>3. DOMAIN origin' = DOMAIN tables' /\ origin'[name] = orig BY <1>a, <2>1 DEF Put
    <2>4. \A n \in DOMAIN tables : tables'[n] = tables[n] /\ origin'[n] = origin[n] BY <1>3, <1>a, <2>1 DEF Put
    <2>5. \A m \in LoadNames : tables'[m] = tables[m] BY <1>a, <2>4
    <2>6. LoadedColumns' = LoadedColumns BY <2>5 DEF LoadedColumns
    <2> QED BY <2>2, <2>3, <2>4, <2>6 DEF orig
  <1> HIDE DEF t, u, r
  <1>8. \A n \in DOMAIN tables' : IsCols(tables'[n].cols) BY <1>6, <1>7 DEF LineageInv
  <1>9. \A n \in traced' : /\ ColumnsTraced(graph', n, origin'[n], ToSet(tables'[n].cols))
                           /\ OriginsTraced(graph', n, origin'[n], ToSet(tables'[n].cols), LoadedColumns')
    BY <1>1, <1>7 DEF LineageInv
  <1> QED BY <1>1, <1>7, <1>8, <1>9 DEF LineageInv

\* A file is before everything.
LEMMA FileIsOrdered ==
    ASSUME NEW g, IsOrdered(g), NEW f
    PROVE  LET h == AddNodes(g, {File(f)}, "source_file") IN IsOrdered(h) /\ h.edges = g.edges
  <1> DEFINE h == AddNodes(g, {File(f)}, "source_file")
  <1>1. IsGraph(g) BY DEF IsOrdered
  <1>2. IsGraph(h) /\ DOMAIN h.kind = {File(f)} \cup DOMAIN g.kind /\ h.edges = g.edges BY <1>1, NodesAdded
  <1> HIDE DEF h
  <1>3. IsFiniteSet(DOMAIN h.kind)
    <2>1. IsFiniteSet({File(f)}) BY FS_Singleton
    <2>2. IsFiniteSet(DOMAIN g.kind) BY DEF IsOrdered
    <2>3. IsFiniteSet({File(f)} \cup DOMAIN g.kind) BY <2>1, <2>2, FS_Union
    <2> QED BY <1>2, <2>3
  <1>4. RankOf(File(f)) = 0 BY DEF RankOf, File
  <1>5. \A n \in DOMAIN h.kind : RankOf(n) \in 0..10 BY <1>2, <1>4 DEF IsOrdered
  <1>6. \A e \in h.edges : e[2] \in DOMAIN h.kind /\ RankOf(e[1]) \in 0..10 /\ RankOf(e[1]) < RankOf(e[2])
    BY <1>2 DEF IsOrdered
  <1>7. IsFiniteSet(h.edges) BY <1>2 DEF IsOrdered
  <1>8. IsOrdered(h) BY <1>2, <1>3, <1>5, <1>6, <1>7 DEF IsOrdered
  <1> QED BY <1>2, <1>8 DEF h

\* record_load appends a step that reads a file.
LEMMA LoadAppends ==
    ASSUME NEW g, IsOrdered(g), NEW f, NEW m \in LoadNames, NEW cols, IsFiniteSet(cols)
    PROVE  LET h == record_load(g, f, m, cols)
               n == AddNodes(g, {File(f)}, "source_file")
           IN  IsOrdered(h) /\ Appended(n, h, m, {File(f)}, Cols(m, cols), "source_column")
  <1> DEFINE h == record_load(g, f, m, cols)
             n == AddNodes(g, {File(f)}, "source_file")
             ins == {File(f)}  outs == Cols(m, cols)
  <1>1. IsOrdered(n) BY FileIsOrdered
  <1>2. IsGraph(n) BY <1>1 DEF IsOrdered
  <1>3. Step(m) \notin outs BY DEF Step, Cols, Col
  <1>4. h = AddEdges(AddEdges(AddNodes(AddNodes(n, {Step(m)}, "step"), outs, "source_column"), ins, {Step(m)}), {Step(m)}, outs)
    BY DEF record_load
  <1>5. IsFiniteSet(ins) BY FS_Singleton
  <1>6. IsFiniteSet(outs) BY ColsAreFinite
  <1>7. Place(m) = 0 BY StepNamePlaces
  <1>8. \A x \in ins : RankOf(x) \in 0..10 /\ RankOf(x) < 2 * Place(m) + 1
    <2>1. RankOf(File(f)) = 0 BY DEF RankOf, File
    <2> QED BY <1>7, <2>1
  <1>9. \A x \in outs : x[1] \in {"col", "output"} /\ x[2] = m BY ColsNames
  <1> HIDE DEF n, ins, outs, h
  <1>10. Appended(n, h, m, ins, outs, "source_column") BY <1>2, <1>3, <1>4, StepAdded
  <1>11. Place(m) \in 0..4 BY <1>7
  <1>12. IsOrdered(h) BY <1>1, <1>5, <1>6, <1>8, <1>9, <1>10, <1>11, AppendedIsOrdered
  <1> QED BY <1>10, <1>12 DEF n, ins, outs, h

\* A loaded column is its own source.
LEMMA LoadTraces ==
    ASSUME NEW n, NEW h, NEW m \in LoadNames, NEW ins, NEW cols, Appended(n, h, m, ins, Cols(m, cols), "source_column"),
           NEW orig, orig = [c \in cols |-> {<<m, c>>}], NEW Loads, Loads[m] = cols
    PROVE  ColumnsTraced(h, m, orig, cols) /\ OriginsTraced(h, m, orig, cols, Loads)
  <1>1. Step(m) \notin Cols(m, cols) BY DEF Step, Cols, Col
  <1>2. \A c \in cols : Col(m, c) \in Cols(m, cols) BY ColInCols
  <1>3. Step(m) \in DOMAIN h.kind /\ h.kind[Step(m)] = "step" BY <1>1 DEF Appended
  <1>4. \A c \in cols : Col(m, c) \in DOMAIN h.kind /\ h.kind[Col(m, c)] = "source_column" BY <1>2 DEF Appended
  <1>5. ColumnsTraced(h, m, orig, cols) BY <1>3, <1>4 DEF ColumnsTraced
  <1>6. ASSUME NEW c \in cols, NEW o \in orig[c]
        PROVE  o[1] \in LoadNames /\ o[1] = m /\ o[2] \in Loads[o[1]] /\ Feeds(h, o, m, c)
    <2>1. o[1] = m /\ o[2] = c BY <1>6
    <2>2. <<Step(m), Col(m, c)>> \in h.edges BY <1>2, AppendedEdges
    <2>3. ASSUME NEW A, ClosedBack(h, A), Col(m, c) \in A PROVE Step(m) \in A BY <2>2, <2>3 DEF ClosedBack
    <2>4. Feeds(h, o, m, c) BY <2>1, <2>3 DEF Feeds
    <2> QED BY <2>1, <2>4
  <1> QED BY <1>5, <1>6 DEF OriginsTraced

\* A further file leaves the nodes alone.
LEMMA FileKeepsTraced ==
    ASSUME NEW g, IsGraph(g), NEW f, NEW n, NEW orig, NEW cols, ColumnsTraced(g, n, orig, cols)
    PROVE  ColumnsTraced(AddNodes(g, {File(f)}, "source_file"), n, orig, cols)
  <1> DEFINE h == AddNodes(g, {File(f)}, "source_file")
  <1>1. /\ DOMAIN h.kind = {File(f)} \cup DOMAIN g.kind
        /\ \A x \in DOMAIN h.kind : h.kind[x] = IF x \in {File(f)} THEN "source_file" ELSE g.kind[x]
    BY NodesAdded
  <1> HIDE DEF h
  <1>2. Step(n) # File(f) BY DEF Step, File
  <1>3. \A c \in cols : Col(n, c) # File(f) BY DEF Col, File
  <1>4. ColumnsTraced(h, n, orig, cols) BY <1>1, <1>2, <1>3 DEF ColumnsTraced
  <1> QED BY <1>4 DEF h

\* The graph of a new recorder.
LEMMA EmptyIsOrdered == IsOrdered(EmptyGraph)
  <1> DEFINE g == EmptyGraph
  <1>1. g.kind = <<>> /\ g.edges = {} /\ IsGraph(g) BY DEF EmptyGraph, IsGraph
  <1>2. DOMAIN g.kind = {} BY <1>1
  <1>3. IsFiniteSet({}) BY FS_EmptySet
  <1> HIDE DEF g
  <1>4. IsOrdered(g) BY <1>1, <1>2, <1>3 DEF IsOrdered
  <1> QED BY <1>4 DEF g

\* The loaded tables are traced.
LEMMA LineageInvInit == Init => LineageInv
  <1> SUFFICES ASSUME Init PROVE LineageInv OBVIOUS
  <1>1. PICK t \in LoadTables, policies \in Policies :
          LET x == apply_column_policies(t, "viewer", policies)
          IN  /\ tables = [n \in {"a", "b"} |-> IF n = "a" THEN x ELSE RightTable]
              /\ graph = record_load(record_load(EmptyGraph, "f", "a", ToSet(x.cols)),
                                     "g", "b", ToSet(RightTable.cols))
              /\ origin = [n \in {"a", "b"} |-> Loaded(n, IF n = "a" THEN x ELSE RightTable)]
              /\ traced = {"a", "b"}
    BY DEF Init
  <1> DEFINE x == apply_column_policies(t, "viewer", policies)
             A == ToSet(x.cols)  B == ToSet(RightTable.cols)
             one == record_load(EmptyGraph, "f", "a", A)
             n1 == AddNodes(EmptyGraph, {File("f")}, "source_file")
             n2 == AddNodes(one, {File("g")}, "source_file")
             L == LoadedColumns
  <1>2. t.cols \in Seq(STRING) /\ RightTable.cols \in Seq(STRING) BY StepsAssumption
  <1>3. IsCols(t.cols) /\ IsCols(RightTable.cols) BY <1>2, SeqIsCols
  <1>4. IsCols(x.cols) BY <1>3, PoliciesKeepColumns
  <1> HIDE DEF x
  <1>5. IsFiniteSet(A) /\ IsFiniteSet(B) BY <1>3, <1>4, ColsShape
  <1>6. /\ tables["a"] = x /\ tables["b"] = RightTable /\ DOMAIN tables = {"a", "b"}
        /\ DOMAIN origin = {"a", "b"}
        /\ origin["a"] = [c \in A |-> {<<"a", c>>}] /\ origin["b"] = [c \in B |-> {<<"b", c>>}]
        /\ graph = record_load(one, "g", "b", B)
        /\ traced = {"a", "b"}
    BY <1>1 DEF Loaded, x
  <1>7. L["a"] = A /\ L["b"] = B BY <1>6 DEF LoadedColumns, LoadNames
  <1>8. "a" \in LoadNames /\ "b" \in LoadNames BY DEF LoadNames
  <1> HIDE DEF A, B, L, one
  <1>9. IsOrdered(one) /\ Appended(n1, one, "a", {File("f")}, Cols("a", A), "source_column")
    BY <1>5, <1>8, EmptyIsOrdered, LoadAppends DEF one
  <1>10. IsOrdered(graph) /\ Appended(n2, graph, "b", {File("g")}, Cols("b", B), "source_column")
    BY <1>5, <1>6, <1>8, <1>9, LoadAppends
  <1>11. n2.edges = one.edges BY <1>9, FileIsOrdered
  <1> HIDE DEF n1, n2
  <1>12. ColumnsTraced(one, "a", origin["a"], A) /\ OriginsTraced(one, "a", origin["a"], A, L)
    BY <1>6, <1>7, <1>8, <1>9, LoadTraces
  <1>13. ColumnsTraced(graph, "b", origin["b"], B) /\ OriginsTraced(graph, "b", origin["b"], B, L)
    BY <1>6, <1>7, <1>8, <1>10, LoadTraces
  <1>14. ColumnsTraced(graph, "a", origin["a"], A)
    <2>1. ColumnsTraced(n2, "a", origin["a"], A) BY <1>9, <1>12, FileKeepsTraced DEF IsOrdered, n2
    <2>2. \A n \in Cols("b", B) : n[1] \in {"col", "output"} /\ n[2] = "b" BY ColsNames
    <2> QED BY <1>10, <2>1, <2>2, ColumnsStayTraced
  <1>15. OriginsTraced(graph, "a", origin["a"], A, L)
    <2>1. one.edges \subseteq graph.edges BY <1>10, <1>11, AppendedEdges
    <2> QED BY <1>12, <2>1, OriginsStayTraced
  <1>16. \A n \in traced : /\ ColumnsTraced(graph, n, origin[n], ToSet(tables[n].cols))
                           /\ OriginsTraced(graph, n, origin[n], ToSet(tables[n].cols), LoadedColumns)
    BY <1>6, <1>13, <1>14, <1>15 DEF A, B, L
  <1>17. \A n \in DOMAIN tables : IsCols(tables[n].cols) BY <1>3, <1>4, <1>6
  <1> QED BY <1>6, <1>10, <1>16, <1>17 DEF LineageInv, LoadNames

\* Every step keeps the invariant of the lineage.
LEMMA LineageInvNext == TablesInv /\ LineageInv /\ [Next]_vars => LineageInv'
  <1>1. ASSUME TablesInv, LineageInv, NEW in, NEW s, StepRaises(in, s) PROVE LineageInv'
    BY <1>1 DEF StepRaises, LineageInv, LoadedColumns
  <1>2. ASSUME LineageInv, UNCHANGED vars PROVE LineageInv' BY <1>2 DEF vars, LineageInv, LoadedColumns
  <1> QED BY <1>1, <1>2, PandasKeepsLineageInv, DuckDBKeepsLineageInv DEF Next

-----------------------------------------------------------------------------

\* An ordered graph is finite and has no loose end.
LEMMA OrderedFacts ==
    ASSUME NEW g, IsOrdered(g)
    PROVE  /\ IsFiniteSet(Nodes(g))
           /\ \A e \in g.edges : e[1] \in Nodes(g) /\ e[2] \in Nodes(g)
           /\ \A n \in Nodes(g) : RankOf(n) \in 0..10
  <1> DEFINE f == [e \in g.edges |-> e[1]]
  <1>1. {e[1] : e \in g.edges} = {f[e] : e \in g.edges} OBVIOUS
  <1> HIDE DEF f
  <1>2. IsFiniteSet(g.edges) /\ IsFiniteSet(DOMAIN g.kind) BY DEF IsOrdered
  <1>3. IsFiniteSet({e[1] : e \in g.edges})
    <2>1. IsFiniteSet({f[e] : e \in g.edges}) BY <1>2, FiniteImage
    <2> QED BY <1>1, <2>1
  <1>4. IsFiniteSet(Nodes(g))
    <2> DEFINE E == {e[1] : e \in g.edges}
    <2>1. Nodes(g) = DOMAIN g.kind \cup E BY DEF Nodes
    <2>2. IsFiniteSet(E) BY <1>3
    <2> HIDE DEF E
    <2>3. IsFiniteSet(DOMAIN g.kind \cup E) BY <1>2, <2>2, FS_Union
    <2> QED BY <2>1, <2>3
  <1>5. \A e \in g.edges : e[1] \in Nodes(g) /\ e[2] \in Nodes(g) BY DEF Nodes, IsOrdered
  <1>6. \A n \in Nodes(g) : RankOf(n) \in 0..10 BY DEF Nodes, IsOrdered
  <1> QED BY <1>4, <1>5, <1>6

\* Its layers increase along every edge.
LEMMA OrderedLayers ==
    ASSUME NEW g, IsOrdered(g)
    PROVE  /\ \A n \in Nodes(g) : AssignLayers(g)[n] \in Nat
           /\ \A e \in g.edges : AssignLayers(g)[e[1]] < AssignLayers(g)[e[2]]
  <1> DEFINE rank == [n \in Nodes(g) |-> RankOf(n)]  layer == AssignLayers(g)
  <1>1. /\ IsFiniteSet(Nodes(g))
        /\ \A e \in g.edges : e[1] \in Nodes(g) /\ e[2] \in Nodes(g)
        /\ \A n \in Nodes(g) : RankOf(n) \in 0..10
    BY OrderedFacts
  <1>2. rank \in [Nodes(g) -> 0..10] BY <1>1
  <1>3. \A e \in g.edges : rank[e[1]] < rank[e[2]] BY <1>1 DEF IsOrdered
  <1> HIDE DEF rank, layer
  <1>4. IsRank(g, rank, 10) BY <1>1, <1>2, <1>3 DEF IsRank
  <1>5. /\ \A n \in Nodes(g) : layer[n] \in Nat
        /\ \A n \in Nodes(g) : \A m \in Preds(g, {n}) : layer[m] < layer[n]
    BY <1>1, <1>4, LayersIncrease DEF layer
  <1>6. \A e \in g.edges : e[1] \in Preds(g, {e[2]}) BY DEF Preds
  <1> QED BY <1>1, <1>5, <1>6 DEF layer

\* The layout places what a column is computed from to the left of it.
LEMMA FeedsFromTheLeft ==
    ASSUME NEW g, IsOrdered(g), NEW o, NEW n, NEW c, Feeds(g, o, n, c), Col(n, c) \in Nodes(g), n # o[1]
    PROVE  AssignLayers(g)[Col(n, c)] > AssignLayers(g)[Col(o[1], o[2])]
  <1> DEFINE layer == AssignLayers(g)  x == Col(n, c)  y == Col(o[1], o[2])
             A == {m \in Nodes(g) : layer[m] < layer[x]} \cup {x}
  <1>1. /\ \A m \in Nodes(g) : layer[m] \in Nat
        /\ \A e \in g.edges : layer[e[1]] < layer[e[2]] /\ e[1] \in Nodes(g) /\ e[2] \in Nodes(g)
    BY OrderedLayers, OrderedFacts
  <1>2. x # y BY DEF Col
  <1> HIDE DEF layer
  <1>3. ClosedBack(g, A)
    <2> SUFFICES ASSUME NEW e \in g.edges, e[2] \in A PROVE e[1] \in A BY DEF ClosedBack
    <2>1. layer[e[1]] < layer[e[2]] /\ layer[e[1]] \in Nat /\ layer[e[2]] \in Nat /\ layer[x] \in Nat BY <1>1
    <2>2. layer[e[2]] <= layer[x] BY <2>1
    <2> QED BY <1>1, <2>1, <2>2
  <1>4. y \in A BY <1>3 DEF Feeds
  <1>5. layer[y] < layer[x] BY <1>2, <1>4
  <1>6. layer[y] \in Nat /\ layer[x] \in Nat BY <1>1, <1>4
  <1> QED BY <1>5, <1>6 DEF layer

\* One column, and one loaded column it is computed from.
LEMMA OneColumnCovers ==
    ASSUME LineageInv, NEW n \in traced, NEW c \in DOMAIN origin[n], NEW o \in origin[n][c]
    PROVE  /\ Col(o[1], o[2]) \in OfKind(graph, Ancestors(graph, Col(n, c)), "source_column")
           /\ {n, o[1]} \subseteq get_column_ancestry(graph, n, c).steps
           /\ n = o[1] \/ ( /\ Col(n, c) \in get_impact_analysis(graph, o[1], o[2]).columns
                            /\ AssignLayers(graph)[Col(n, c)] > AssignLayers(graph)[Col(o[1], o[2])] )
  <1> DEFINE x == Col(n, c)  y == Col(o[1], o[2])  g == graph  N == Cardinality(Nodes(g))
             A == Before(g, x, N)  D == After(g, y, N)
  <1>1. /\ ColumnsTraced(g, n, origin[n], ToSet(tables[n].cols))
        /\ OriginsTraced(g, n, origin[n], ToSet(tables[n].cols), LoadedColumns)
        /\ IsOrdered(g)
    BY DEF LineageInv
  <1>2. c \in ToSet(tables[n].cols) BY <1>1 DEF ColumnsTraced
  <1>3. /\ o[1] \in LoadNames /\ o[2] \in LoadedColumns[o[1]]
        /\ n \in LoadNames => o[1] = n
        /\ Feeds(g, o, n, c)
    BY <1>1, <1>2 DEF OriginsTraced
  <1>4. o[1] \in traced /\ o[2] \in ToSet(tables[o[1]].cols) BY <1>3 DEF LineageInv, LoadedColumns
  <1>5. ColumnsTraced(g, o[1], origin[o[1]], ToSet(tables[o[1]].cols)) BY <1>4 DEF LineageInv
  <1>6. /\ Kind(g, x) = IF n \in LoadNames THEN "source_column" ELSE "output_column"
        /\ Kind(g, y) = "source_column"
        /\ Kind(g, Step(n)) = "step" /\ Kind(g, Step(o[1])) = "step"
        /\ x \in Nodes(g) /\ y \in Nodes(g)
    BY <1>1, <1>2, <1>3, <1>4, <1>5 DEF ColumnsTraced, Kind, Nodes
  <1>7. IsFiniteSet(Nodes(g)) /\ \A e \in g.edges : e[1] \in Nodes(g) /\ e[2] \in Nodes(g) BY <1>1, OrderedFacts
  <1>8. x \in A /\ Preds(g, A) \subseteq A
    <2> HIDE DEF x
    <2> QED BY <1>6, <1>7, BeforeIsClosed
  <1>9. y \in D /\ Succs(g, D) \subseteq D
    <2> HIDE DEF y
    <2> QED BY <1>6, <1>7, AfterIsClosed
  <1> HIDE DEF A, D
  <1>10. ClosedBack(g, A) BY <1>8 DEF ClosedBack, Preds
  <1>11. ClosedAhead(g, D) BY <1>9 DEF ClosedAhead, Succs
  <1>12. y \in A /\ Step(n) \in A /\ Step(o[1]) \in A BY <1>3, <1>8, <1>10 DEF Feeds
  <1>13. x \in D BY <1>3, <1>9, <1>11 DEF Feeds
  <1>14. y \in OfKind(g, Ancestors(g, x), "source_column") BY <1>6, <1>12 DEF OfKind, Ancestors, A
  <1>15. {n, o[1]} \subseteq get_column_ancestry(g, n, c).steps
    <2>1. get_column_ancestry(g, n, c).steps = {m[2] : m \in OfKind(g, A, "step")}
      BY DEF get_column_ancestry, Ancestors, A
    <2>2. Step(n) \in OfKind(g, A, "step") /\ Step(o[1]) \in OfKind(g, A, "step") BY <1>6, <1>12 DEF OfKind
    <2>3. Step(n)[2] = n /\ Step(o[1])[2] = o[1] BY DEF Step
    <2> HIDE DEF x, y
    <2> QED BY <2>1, <2>2, <2>3
  <1>16. ASSUME n # o[1]
         PROVE  x \in get_impact_analysis(g, o[1], o[2]).columns /\ AssignLayers(g)[x] > AssignLayers(g)[y]
    <2>1. x # y BY <1>16 DEF Col
    <2>2. Kind(g, x) = "output_column" BY <1>3, <1>6, <1>16
    <2>3. x \in OfKind(g, Descendants(g, y), "output_column") BY <1>13, <2>1, <2>2 DEF OfKind, Descendants, D
    <2>4. get_impact_analysis(g, o[1], o[2]).columns
            = OfKind(g, Descendants(g, y), "output_column") \cup OfKind(g, Descendants(g, y), "output_file")
      BY DEF get_impact_analysis
    <2>5. AssignLayers(g)[x] > AssignLayers(g)[y] BY <1>1, <1>3, <1>6, <1>16, FeedsFromTheLeft
    <2> QED BY <2>3, <2>4, <2>5
  <1> QED BY <1>14, <1>15, <1>16

\* The invariant implies the property.
LEMMA LineageInvCovers == LineageInv => LineageCovers
  BY OneColumnCovers DEF LineageCovers

\* The lineage graph is complete for the steps that record all columns they read:
\* at any point of any run, on tables of any size, get_column_ancestry finds every
\* loaded column that a column is computed from, get_impact_analysis finds the way
\* back, and the layout places the one to the left of the other.
THEOREM LineageAlwaysCovers == Spec => []LineageCovers
  <1>1. Spec => []LineageInv BY TablesAreWellFormed, LineageInvInit, LineageInvNext, PTL DEF Spec
  <1> QED BY <1>1, LineageInvCovers, PTL

-----------------------------------------------------------------------------
(* Runner: its inductive invariant.                                        *)

RunnerInv ==
    /\ TypeOK
    /\ Valid(cfg)
    /\ NoTableMissing
    /\ status = "RUNNING" => CountsExact
    /\ RegistryExact
    /\ ResultsArePrefix

-----------------------------------------------------------------------------
(* Counting readers.                                                       *)

\* The references of a step of a valid pipeline.
LEMMA ValidShape ==
    ASSUME NEW c \in Seq(StepConfig), Valid(c), NEW i \in DOMAIN c
    PROVE  /\ c[i].name \in Names
           /\ c[i].refs \in Seq(Names)
           /\ Len(c[i].refs) <= 2
           /\ DOMAIN c[i].refs \subseteq 1..2
  <1>1. c[i] \in StepConfig OBVIOUS
  <1>2. c[i].name \in Names /\ c[i].refs \in Seq(Names) BY <1>1 DEF StepConfig
  <1>3. Len(c[i].refs) = Arity(c[i].kind) BY DEF Valid, CheckRequiredFields
  <1>4. Arity(c[i].kind) \in 0..2 BY DEF Arity
  <1> QED BY <1>2, <1>3, <1>4

\* Intervals are finite.
LEMMA IntervalFinite == \A a, b \in Int : IsFiniteSet(a..b)
  BY FS_Interval

\* There are finitely many reads.
LEMMA UsesFinite ==
    ASSUME NEW c \in Seq(StepConfig), NEW n, NEW i \in Int
    PROVE  IsFiniteSet(Uses(c, n, i))
  <1>1. IsFiniteSet(i..Len(c)) /\ IsFiniteSet(1..2)
    <2>1. Len(c) \in Int /\ 1 \in Int /\ 2 \in Int OBVIOUS
    <2> QED BY <2>1, IntervalFinite
  <1>2. IsFiniteSet((i..Len(c)) \X (1..2)) BY <1>1, FS_Product
  <1>3. Uses(c, n, i) \subseteq (i..Len(c)) \X (1..2) BY DEF Uses
  <1> QED BY <1>2, <1>3, FS_Subset

\* The reads from step i on are those of step i and the later ones.
LEMMA UsesSplit ==
    ASSUME NEW c \in Seq(StepConfig), Valid(c), NEW n, NEW i \in DOMAIN c
    PROVE  LET R == {k \in DOMAIN c[i].refs : c[i].refs[k] = n}
           IN  /\ IsFiniteSet(R)
               /\ Cardinality(R) \in Nat
               /\ Cardinality(Uses(c, n, i)) = Cardinality(Uses(c, n, i + 1)) + Cardinality(R)
               /\ R = {} => Uses(c, n, i) = Uses(c, n, i + 1)
               /\ R # {} => Uses(c, n, i) # {}
  <1> DEFINE R == {k \in DOMAIN c[i].refs : c[i].refs[k] = n}
             P == {<<i, k>> : k \in R}
             U == Uses(c, n, i + 1)
             f == [k \in R |-> <<i, k>>]
  <1>0. i \in Int /\ i + 1 \in Int /\ i <= Len(c) /\ i >= 1 OBVIOUS
  <1>1. R \subseteq 1..2 BY ValidShape
  <1>2. IsFiniteSet(1..2)
    <2>1. 1 \in Int /\ 2 \in Int OBVIOUS
    <2> QED BY <2>1, IntervalFinite
  <1>3. IsFiniteSet(R) BY <1>1, <1>2, FS_Subset
  <1>4. Uses(c, n, i) = U \cup P
    <2>1. ASSUME NEW u \in Uses(c, n, i) PROVE u \in U \cup P
      <3>1. CASE u[1] = i
        <4>1. u = <<u[1], u[2]>> /\ u[2] \in R BY <2>1, <3>1 DEF Uses
        <4> QED BY <3>1, <4>1
      <3>2. CASE u[1] # i
        <4>1. u[1] \in (i + 1)..Len(c) BY <1>0, <2>1, <3>2 DEF Uses
        <4> QED BY <2>1, <4>1 DEF Uses
      <3> QED BY <3>1, <3>2
    <2>2. ASSUME NEW u \in P PROVE u \in Uses(c, n, i)
      <3>1. PICK k \in R : u = <<i, k>> BY <2>2
      <3>2. u[1] = i /\ u[2] = k /\ k \in 1..2 /\ i \in i..Len(c) BY <3>1, <1>0, <1>1
      <3>3. u \in (i..Len(c)) \X (1..2) BY <3>1, <3>2
      <3> QED BY <3>1, <3>2, <3>3 DEF Uses
    <2>3. ASSUME NEW u \in U PROVE u \in Uses(c, n, i)
      BY <1>0, <2>3 DEF Uses
    <2> QED BY <2>1, <2>2, <2>3
  <1>5. U \cap P = {}
    BY <1>0 DEF Uses
  <1>6. IsFiniteSet(P) /\ Cardinality(P) = Cardinality(R)
    <2>1. f \in Bijection(R, P)
      BY DEF Bijection, Injection, Surjection, IsInjective
    <2>2. ExistsBijection(R, P) BY <2>1 DEF ExistsBijection
    <2> QED BY <1>3, <2>2, FS_Bijection
  <1>7. IsFiniteSet(U) BY <1>0, UsesFinite
  <1>8. Cardinality(U) \in Nat /\ Cardinality(P) \in Nat BY <1>6, <1>7, FS_CardinalityType
  <1>9. Cardinality(U \cup P) = Cardinality(U) + Cardinality(P) - Cardinality(U \cap P)
    BY <1>6, <1>7, FS_Union
  <1>10. Cardinality(U \cap P) = 0 BY <1>5, FS_EmptySet
  <1>11. R = {} => P = {} OBVIOUS
  <1>12. R # {} => P # {} OBVIOUS
  <1> QED BY <1>3, <1>4, <1>6, <1>8, <1>9, <1>10, <1>11, <1>12

-----------------------------------------------------------------------------
(* Which tables are needed.                                                *)

\* The step that runs next reads only tables that are needed.
LEMMA ReadsAreNeeded ==
    ASSUME NEW c \in Seq(StepConfig), Valid(c), NEW i \in DOMAIN c, NEW k \in DOMAIN c[i].refs
    PROVE  c[i].refs[k] \in Needed(c, i)
  <1> DEFINE n == c[i].refs[k]
  <1>1. n \in Names /\ k \in 1..2 BY ValidShape
  <1>2. \E j \in 1..(i - 1) : c[j].name = n BY DEF Valid, CheckStepReferences
  <1>3. <<i, k>> \in Uses(c, n, i)
    <2>1. i \in i..Len(c) OBVIOUS
    <2>2. <<i, k>> \in (i..Len(c)) \X (1..2) BY <1>1, <2>1
    <2> QED BY <2>2 DEF Uses
  <1> QED BY <1>1, <1>2, <1>3 DEF Needed

\* Every reader of a step's table comes after the step.
LEMMA ReadersComeLater ==
    ASSUME NEW c \in Seq(StepConfig), Valid(c), NEW i \in DOMAIN c, c[i].name \in Referenced(c)
    PROVE  Uses(c, c[i].name, i + 1) # {}
  <1> DEFINE n == c[i].name
  <1>0. PICK m \in DOMAIN c : \E k \in DOMAIN c[m].refs : c[m].refs[k] = n
    BY DEF Referenced
  <1>1. PICK k \in DOMAIN c[m].refs : c[m].refs[k] = n
    BY <1>0
  <1>2. PICK j \in 1..(m - 1) : c[j].name = n
    BY <1>1 DEF Valid, CheckStepReferences
  <1>3. j \in DOMAIN c BY <1>1, <1>2
  <1>4. j = i BY <1>2, <1>3 DEF Valid, CheckDuplicateNames
  <1>5. m \in (i + 1)..Len(c) /\ k \in 1..2 BY <1>1, <1>2, <1>4, ValidShape
  <1>6. <<m, k>> \in ((i + 1)..Len(c)) \X (1..2) BY <1>5
  <1>7. <<m, k>> \in Uses(c, n, i + 1) BY <1>1, <1>6 DEF Uses
  <1> QED BY <1>7

\* What is needed after step i: what was, and its output, less what it read last.
LEMMA NeededStep ==
    ASSUME NEW c \in Seq(StepConfig), Valid(c), NEW i \in DOMAIN c
    PROVE  Needed(c, i + 1) =
             (Needed(c, i) \cup {c[i].name}) \
               {n \in Referenced(c) : /\ {k \in DOMAIN c[i].refs : c[i].refs[k] = n} # {}
                                      /\ Uses(c, n, i + 1) = {}
                                      /\ n # c[i].name}
  <1> DEFINE R(n) == {k \in DOMAIN c[i].refs : c[i].refs[k] = n}
             E == {n \in Referenced(c) : R(n) # {} /\ Uses(c, n, i + 1) = {} /\ n # c[i].name}
  <1>0. i \in Nat /\ i >= 1 /\ i <= Len(c) OBVIOUS
  <1>1. \A n : R(n) = {} => Uses(c, n, i) = Uses(c, n, i + 1) BY UsesSplit
  <1>2. \A n : Uses(c, n, i + 1) \subseteq Uses(c, n, i) BY <1>0 DEF Uses
  <1>3. ASSUME NEW n \in Needed(c, i + 1) PROVE n \in (Needed(c, i) \cup {c[i].name}) \ E
    <2>1. PICK j \in 1..i : c[j].name = n BY <1>3, <1>0 DEF Needed
    <2>2. n \in Referenced(c) => Uses(c, n, i + 1) # {} BY <1>3 DEF Needed
    <2>3. n \notin E BY <2>2
    <2>4. CASE j = i BY <2>1, <2>3, <2>4
    <2>5. CASE j # i
      <3>1. j \in 1..(i - 1) BY <2>5, <1>0
      <3>2. n \in Names BY <1>3 DEF Needed
      <3>3. n \in Needed(c, i) BY <2>1, <2>2, <3>1, <3>2, <1>2 DEF Needed
      <3> QED BY <2>3, <3>3
    <2> QED BY <2>4, <2>5
  <1>4. ASSUME NEW n \in (Needed(c, i) \cup {c[i].name}) \ E PROVE n \in Needed(c, i + 1)
    <2>1. CASE n = c[i].name
      <3>1. n \in Names BY <2>1, ValidShape
      <3>2. i \in 1..((i + 1) - 1) BY <1>0
      <3> QED BY <2>1, <3>1, <3>2, ReadersComeLater DEF Needed
    <2>2. CASE n # c[i].name
      <3>1. n \in Needed(c, i) BY <1>4, <2>2
      <3>2. PICK j \in 1..(i - 1) : c[j].name = n BY <3>1 DEF Needed
      <3>3. j \in 1..((i + 1) - 1) BY <1>0
      <3>4. n \in Referenced(c) => Uses(c, n, i + 1) # {}
        BY <1>1, <1>4, <2>2, <3>1 DEF Needed
      <3>5. n \in Names BY <3>1 DEF Needed
      <3> QED BY <3>2, <3>3, <3>4, <3>5 DEF Needed
    <2> QED BY <2>1, <2>2
  <1> QED BY <1>3, <1>4

-----------------------------------------------------------------------------
(* The invariant.                                                          *)

\* The invariant holds when the run starts.
LEMMA RunnerInvInit == RunnerInit => RunnerInv
  <1> SUFFICES ASSUME RunnerInit PROVE RunnerInv
    OBVIOUS
  <1>0. cfg \in Seq(StepConfig) /\ Valid(cfg) /\ index = 1 BY RunnerAssumption DEF RunnerAssumption, RunnerInit
  <1>1. \A n : IsFiniteSet(Uses(cfg, n, 1))
    <2>1. 1 \in Int OBVIOUS
    <2> QED BY <1>0, <2>1, UsesFinite
  <1>2. \A n : Cardinality(Uses(cfg, n, 1)) \in Nat BY <1>1, FS_CardinalityType
  <1>3. remaining \in [Referenced(cfg) -> Nat]
    BY <1>2 DEF RunnerInit, ComputeConsumerCounts
  <1>4. CountsExact BY <1>0 DEF RunnerInit, ComputeConsumerCounts, CountsExact
  <1>5. DOMAIN registry = {} BY DEF RunnerInit
  <1>6. Needed(cfg, 1) = {} BY DEF Needed
  <1>7. results \in Seq([name : Names, output_table : RowCounts]) BY DEF RunnerInit
  <1>8. TypeOK BY <1>0, <1>3, <1>5, <1>7 DEF RunnerInit, TypeOK
  <1>9. RegistryExact BY <1>0, <1>5, <1>6 DEF RegistryExact
  <1> QED BY <1>0, <1>4, <1>8, <1>9 DEF RunnerInit, RunnerInv, NoTableMissing, ResultsArePrefix

\* Every step of the runner keeps the invariant.
LEMMA RunnerInvNext == RunnerInv /\ [RunnerNext]_runnerVars => RunnerInv'
  <1> SUFFICES ASSUME RunnerInv, [RunnerNext]_runnerVars PROVE RunnerInv'
    OBVIOUS
  <1>0. cfg \in Seq(StepConfig) /\ Valid(cfg) /\ index \in 1..(Len(cfg) + 1)
    BY RunnerAssumption DEF RunnerAssumption, RunnerInv, TypeOK
  <1>1. CASE ExecuteStep
    <2>0. /\ status = "RUNNING" /\ index \in DOMAIN cfg /\ index + 1 \in 1..(Len(cfg) + 1)
          /\ index' = index + 1 /\ cfg' = cfg /\ status' = status
      BY <1>0, <1>1 DEF ExecuteStep, Running
    <2>1. PICK table \in RowCounts :
            /\ StoreAndEvict(table)
            /\ results' = Append(results, [name |-> step.name, output_table |-> table])
      BY <1>1 DEF ExecuteStep
    <2> DEFINE left == [n \in DOMAIN remaining |-> remaining[n] - Cardinality(Reads(n))]
    <2>2. ASSUME NEW n
          PROVE  /\ Cardinality(Uses(cfg, n, index))
                      = Cardinality(Uses(cfg, n, index + 1)) + Cardinality(Reads(n))
                 /\ Cardinality(Reads(n)) \in Nat
      <3>1. Reads(n) = {k \in DOMAIN cfg[index].refs : cfg[index].refs[k] = n} BY DEF Reads, step
      <3>2. index \in DOMAIN cfg BY <2>0
      <3> DEFINE R == {k \in DOMAIN cfg[index].refs : cfg[index].refs[k] = n}
      <3>3. /\ Cardinality(R) \in Nat
            /\ Cardinality(Uses(cfg, n, index)) = Cardinality(Uses(cfg, n, index + 1)) + Cardinality(R)
        BY <1>0, <3>2, UsesSplit
      <3> QED BY <3>1, <3>3
    <2>3. \A n : /\ IsFiniteSet(Uses(cfg, n, index + 1))
                /\ Cardinality(Uses(cfg, n, index + 1)) \in Nat
      <3>1. index + 1 \in Int BY <1>0
      <3> QED BY <1>0, <3>1, UsesFinite, FS_CardinalityType
    <2>4. \A n \in DOMAIN remaining : left[n] = Cardinality(Uses(cfg, n, index + 1))
      <3>1. \A n \in DOMAIN remaining : remaining[n] = Cardinality(Uses(cfg, n, index))
        BY <2>0 DEF RunnerInv, CountsExact
      <3> QED BY <2>2, <2>3, <3>1
    <2>5. DOMAIN remaining = Referenced(cfg) BY DEF RunnerInv, TypeOK
    <2>6. remaining' = left BY <2>1 DEF StoreAndEvict
    <2>7. remaining' \in [Referenced(cfg) -> Nat] BY <2>3, <2>4, <2>5, <2>6
    <2>8. CountsExact' BY <2>0, <2>4, <2>6 DEF CountsExact
    <2>9. Evicted(left) = {n \in Referenced(cfg) : /\ Reads(n) # {}
                                                  /\ Uses(cfg, n, index + 1) = {}
                                                  /\ n # step.name}
      <3>1. \A n \in DOMAIN remaining : left[n] <= 0 <=> Uses(cfg, n, index + 1) = {}
        BY <2>3, <2>4, FS_EmptySet
      <3>2. DOMAIN left = Referenced(cfg) BY <2>5
      <3> HIDE DEF left
      <3> QED BY <2>5, <3>1, <3>2 DEF Evicted
    <2>10. DOMAIN registry' = (DOMAIN registry \cup {step.name}) \ Evicted(left)
      BY <2>1 DEF StoreAndEvict
    <2>11. DOMAIN registry' = Needed(cfg, index + 1)
      <3>1. DOMAIN registry = Needed(cfg, index) BY DEF RunnerInv, RegistryExact
      <3> HIDE DEF left
      <3> QED BY <1>0, <2>0, <2>9, <2>10, <3>1, NeededStep DEF step, Reads
    <2>12. \A n \in DOMAIN registry' : registry'[n] \in RowCounts
      <3>1. registry' = [n \in (DOMAIN registry \cup {step.name}) \ Evicted(left) |->
                            IF n = step.name THEN table ELSE registry[n]]
        BY <2>1 DEF StoreAndEvict
      <3> HIDE DEF left
      <3> QED BY <2>10, <3>1 DEF RunnerInv, TypeOK
    <2>13. step.name \in Names BY <1>0, <2>0, ValidShape DEF step
    <2>14. results' \in Seq([name : Names, output_table : RowCounts])
      BY <2>1, <2>13 DEF RunnerInv, TypeOK
    <2>15. ResultsArePrefix'
      <3>1. Len(results) = index - 1 /\ \A i \in DOMAIN results : results[i].name = cfg[i].name
        BY <2>0 DEF RunnerInv, ResultsArePrefix
      <3>2. results \in Seq([name : Names, output_table : RowCounts]) BY DEF RunnerInv, TypeOK
      <3>3. Len(results') = index BY <1>0, <2>1, <3>1, <3>2
      <3>4. ASSUME NEW i \in DOMAIN results' PROVE results'[i].name = cfg[i].name
        <4>1. i \in 1..index BY <3>2, <3>3, <2>1
        <4>2. CASE i = index BY <2>1, <3>1, <3>2, <4>2, <1>0 DEF step
        <4>3. CASE i # index
          <5>1. i \in DOMAIN results BY <4>1, <4>3, <3>1, <3>2, <1>0
          <5> QED BY <2>1, <3>1, <3>2, <5>1
        <4> QED BY <4>2, <4>3
      <3> QED BY <1>0, <2>0, <3>3, <3>4 DEF ResultsArePrefix
    <2>16. recorded' \subseteq Names BY <1>1, <2>13 DEF ExecuteStep, RunnerInv, TypeOK
    <2>17. DOMAIN registry' \subseteq Names BY <2>11 DEF Needed
    <2>18. TypeOK'
      BY <2>0, <2>7, <2>12, <2>14, <2>16, <2>17 DEF RunnerInv, TypeOK
    <2> QED BY <1>0, <2>0, <2>8, <2>11, <2>15, <2>18
            DEF RunnerInv, NoTableMissing, RegistryExact
  <1>2. CASE StepFails
    BY <1>2 DEF StepFails, Running, RunnerInv, TypeOK, NoTableMissing, CountsExact,
       RegistryExact, ResultsArePrefix
  <1>3. CASE ExecuteRaises
    <2>1. index \in DOMAIN cfg BY <1>0, <1>3 DEF ExecuteRaises, Running
    <2>2. InputsPresent
      BY <1>0, <2>1, ReadsAreNeeded DEF InputsPresent, step, RunnerInv, RegistryExact
    <2>3. status' = "raised" BY <1>3, <2>2 DEF ExecuteRaises
    <2>4. results' \in Seq([name : Names, output_table : RowCounts]) BY <1>3 DEF ExecuteRaises
    <2> QED BY <1>3, <2>3, <2>4 DEF ExecuteRaises, RunnerInv, TypeOK, NoTableMissing,
           RegistryExact, ResultsArePrefix
  <1>4. CASE Complete
    BY <1>4 DEF Complete, RunnerInv, TypeOK, NoTableMissing, CountsExact, RegistryExact,
       ResultsArePrefix
  <1>5. CASE UNCHANGED runnerVars
    BY <1>5 DEF runnerVars, RunnerInv, TypeOK, NoTableMissing, CountsExact, RegistryExact,
       ResultsArePrefix
  <1> QED BY <1>1, <1>2, <1>3, <1>4, <1>5 DEF RunnerNext

\* The invariant of the runner.
LEMMA RunnerInvariant == RunnerSpec => []RunnerInv
  BY RunnerInvInit, RunnerInvNext, PTL DEF RunnerSpec

-----------------------------------------------------------------------------

\* Every variable of Runner keeps its type; a reader count never gets negative.
THEOREM RunnerTypeCorrect == RunnerSpec => []TypeOK
  <1>1. RunnerInv => TypeOK BY DEF RunnerInv
  <1> QED BY <1>1, RunnerInvariant, PTL

\* No step of any validated pipeline misses a table.
THEOREM TablesArePresent == RunnerSpec => []NoTableMissing
  <1>1. RunnerInv => NoTableMissing BY DEF RunnerInv
  <1> QED BY <1>1, RunnerInvariant, PTL

\* The registry holds the needed tables and no other, at every step.
THEOREM EvictionIsExact == RunnerSpec => []RegistryExact
  <1>1. RunnerInv => RegistryExact BY DEF RunnerInv
  <1> QED BY <1>1, RunnerInvariant, PTL

\* The results are those of the steps that ran, in order.
THEOREM ResultsInOrder == RunnerSpec => []ResultsArePrefix
  <1>1. RunnerInv => ResultsArePrefix BY DEF RunnerInv
  <1> QED BY <1>1, RunnerInvariant, PTL

-----------------------------------------------------------------------------
(* Healing: its inductive invariant.                                       *)

\* What the rows are in each phase.
HealInv ==
    LET NoneApplied == \A i \in DOMAIN log : log[i].status # "APPLIED"
    IN  /\ \E S : log \in Seq(S)
        /\ attempt \in 0..(MAX_HEALING_RETRIES + 1)
        /\ phase \in {"queued", "HEALING", "saving", "patched", "HEALED", "COMPLETED", "FAILED", "lost"}
        /\ phase = "queued" => log = <<>> /\ attempt = 0
        /\ phase = "HEALING" => /\ attempt > 0
                                /\ NoneApplied
                                /\ attempt <= MAX_HEALING_RETRIES => Len(log) = attempt - 1
        /\ attempt > 0 => Len(log) <= MAX_HEALING_RETRIES
        /\ phase \in {"saving", "patched", "HEALED"} => log # <<>> /\ log[Len(log)].status = "APPLIED"
        /\ \A i \in DOMAIN log : log[i].status = "APPLIED" =>
               i = Len(log) /\ (log[i].proposed = text \/ phase \in {"saving", "lost", "FAILED"})

\* A sequence with one more element.
LEMMA OneMore ==
    ASSUME NEW S, NEW l \in Seq(S), NEW e
    PROVE  /\ Append(l, e) \in Seq(S \cup {e})
           /\ Len(Append(l, e)) = Len(l) + 1
           /\ Len(l) \in Nat
           /\ DOMAIN l = 1..Len(l)
           /\ DOMAIN Append(l, e) = 1..(Len(l) + 1)
           /\ \A i \in 1..Len(l) : Append(l, e)[i] = l[i]
           /\ Append(l, e)[Len(l) + 1] = e
           /\ Append(l, e) # <<>>
  <1>1. l \in Seq(S \cup {e}) OBVIOUS
  <1> QED BY <1>1

\* The invariant of healing holds when the run starts.
LEMMA HealInvInit == HealingInit => HealInv
  <1> SUFFICES ASSUME HealingInit PROVE HealInv OBVIOUS
  <1>1. log = <<>> /\ attempt = 0 /\ phase = "queued" BY DEF HealingInit
  <1>2. log \in Seq({}) BY <1>1
  <1>3. attempt \in 0..(MAX_HEALING_RETRIES + 1) BY <1>1, HealingAssumption DEF HealingAssumption
  <1>4. \A i \in DOMAIN log : FALSE BY <1>1
  <1> QED BY <1>1, <1>2, <1>3, <1>4 DEF HealInv

\* An attempt that fails leaves a row that is not that of an applied patch.
LEMMA FailedAttempt ==
    ASSUME HealInv, Attempting, NEW st, st # "APPLIED", NEW proposed,
           RecordAttempt(st, proposed),
           attempt' \in {attempt + 1, MAX_HEALING_RETRIES + 1}, UNCHANGED <<text, data, phase>>
    PROVE  HealInv'
  <1> DEFINE e == [status |-> st, proposed |-> proposed]
  <1>1. log' = Append(log, e) /\ e.status = st /\ phase = "HEALING" /\ phase' = "HEALING" /\ text' = text
    BY DEF RecordAttempt, Attempting
  <1>2. PICK S : log \in Seq(S) BY DEF HealInv
  <1>3. /\ log' \in Seq(S \cup {e})
        /\ Len(log') = Len(log) + 1
        /\ Len(log) \in Nat
        /\ DOMAIN log = 1..Len(log)
        /\ DOMAIN log' = 1..(Len(log) + 1)
        /\ \A i \in 1..Len(log) : log'[i] = log[i]
        /\ log'[Len(log) + 1] = e
    <2> HIDE DEF e
    <2> QED BY <1>1, <1>2, OneMore
  <1> HIDE DEF e
  <1>4. MAX_HEALING_RETRIES \in Nat /\ attempt <= MAX_HEALING_RETRIES /\ attempt \in Nat /\ attempt > 0
        /\ Len(log) = attempt - 1
    <2>1. MAX_HEALING_RETRIES \in Nat BY HealingAssumption DEF HealingAssumption
    <2>2. attempt <= MAX_HEALING_RETRIES BY DEF Attempting
    <2>3. attempt \in 0..(MAX_HEALING_RETRIES + 1) /\ attempt > 0 BY <1>1 DEF HealInv
    <2>4. Len(log) = attempt - 1 BY <1>1, <2>2 DEF HealInv
    <2> QED BY <2>1, <2>2, <2>3, <2>4
  <1>5. \A i \in DOMAIN log' : log'[i].status # "APPLIED" BY <1>1, <1>3 DEF HealInv
  <1>6. attempt' \in 0..(MAX_HEALING_RETRIES + 1) /\ attempt' > 0 /\ Len(log') <= MAX_HEALING_RETRIES
        /\ (attempt' <= MAX_HEALING_RETRIES => Len(log') = attempt' - 1)
    <2>1. Len(log') = attempt /\ Len(log') <= MAX_HEALING_RETRIES BY <1>3, <1>4
    <2>2. CASE attempt' = attempt + 1 BY <1>4, <2>1, <2>2
    <2>3. CASE attempt' = MAX_HEALING_RETRIES + 1 BY <1>4, <2>1, <2>3
    <2> QED BY <2>2, <2>3
  <1> QED BY <1>1, <1>3, <1>5, <1>6 DEF HealInv

\* A failure of the run starts healing, or leaves a row that it does not.
LEMMA FailedRun ==
    ASSUME HealInv, phase \in {"queued", "patched"}, NEW healable, FailsWith(healable)
    PROVE  HealInv'
  <1>0. MAX_HEALING_RETRIES \in Nat BY HealingAssumption DEF HealingAssumption
  <1>1. CASE phase = "queued" /\ healable
    <2>1. phase' = "HEALING" /\ attempt' = 1 /\ UNCHANGED <<text, log>> BY <1>1 DEF FailsWith
    <2>2. log = <<>> BY <1>1 DEF HealInv
    <2>3. Len(log) = 0 /\ DOMAIN log = {} BY <2>2
    <2> QED BY <1>0, <2>1, <2>3 DEF HealInv
  <1>2. CASE phase = "queued" /\ ~healable
    <2> DEFINE e == [status |-> "NON_HEALABLE", proposed |-> NULL]
    <2>1. log' = Append(log, e) /\ phase' = "FAILED" /\ UNCHANGED <<text, attempt>> BY <1>2 DEF FailsWith
    <2>2. log = <<>> /\ attempt = 0 BY <1>2 DEF HealInv
    <2>3. log' = <<e>> /\ log' \in Seq({e}) /\ e.status = "NON_HEALABLE" BY <2>1, <2>2
    <2>4. DOMAIN log' = {1} /\ log'[1] = e BY <2>3
    <2> HIDE DEF e
    <2>5. attempt' = 0 /\ attempt' \in 0..(MAX_HEALING_RETRIES + 1) BY <1>0, <2>1, <2>2
    <2>6. \A i \in DOMAIN log' : log'[i].status # "APPLIED" BY <2>3, <2>4
    <2>7. \E S : log' \in Seq(S) BY <2>3
    <2>8. ~(attempt' > 0) BY <2>5
    <2> QED BY <2>1, <2>5, <2>6, <2>7, <2>8 DEF HealInv
  <1>3. CASE phase # "queued"
    <2>1. phase' = "FAILED" /\ UNCHANGED <<text, attempt, log>> BY <1>3 DEF FailsWith
    <2> QED BY <2>1 DEF HealInv
  <1> QED BY <1>1, <1>2, <1>3

\* Every step of healing keeps it.
LEMMA HealInvNext ==
    HealInv /\ [HealingNext]_healingVars => HealInv'
  <1> SUFFICES ASSUME HealInv, [HealingNext]_healingVars PROVE HealInv'
    OBVIOUS
  <1>0. MAX_HEALING_RETRIES \in Nat BY HealingAssumption DEF HealingAssumption
  <1>1. CASE ExecutionSucceeds
    <2>1. /\ UNCHANGED <<text, attempt, log>>
          /\ \/ phase = "queued" /\ phase' = "COMPLETED"
             \/ phase = "patched" /\ phase' = "HEALED"
      BY <1>1 DEF ExecutionSucceeds
    <2> QED BY <2>1 DEF HealInv
  <1>2. CASE ExecutionFails \/ PolicyLookupFails
    <2>1. PICK healable : phase \in {"queued", "patched"} /\ FailsWith(healable)
      <3>1. CASE ExecutionFails
        <4> DEFINE h == is_healable(ErrorOf(RunPipeline(parse(text), Files1)))
        <4>1. phase \in {"queued", "patched"} /\ FailsWith(h) BY <3>1 DEF ExecutionFails
        <4> HIDE DEF h
        <4> QED BY <4>1
      <3>2. CASE PolicyLookupFails
        <4> DEFINE h == is_healable([type |-> "RuntimeError", marker |-> ""])
        <4>1. phase \in {"queued", "patched"} /\ FailsWith(h) BY <3>2 DEF PolicyLookupFails
        <4> HIDE DEF h
        <4> QED BY <4>1
      <3> QED BY <1>2, <3>1, <3>2
    <2> QED BY <2>1, FailedRun
  <1>3. CASE CallFails
    BY <1>3, FailedAttempt DEF CallFails, NextAttempt
  <1>4. CASE QuotaExceeded
    BY <1>4, FailedAttempt DEF QuotaExceeded
  <1>5. CASE AnswerIsInvalid
    BY <1>5, FailedAttempt DEF AnswerIsInvalid, NextAttempt
  <1>6. CASE PatchDoesNotApply
    BY <1>6, FailedAttempt DEF PatchDoesNotApply, NextAttempt
  <1>7. CASE SandboxRejects
    BY <1>7, FailedAttempt DEF SandboxRejects, NextAttempt
  <1>8. CASE PatchIsApplied
    <2>1. PICK patched : RecordAttempt("APPLIED", patched) BY <1>8 DEF PatchIsApplied
    <2> DEFINE e == [status |-> "APPLIED", proposed |-> patched]
    <2>2. /\ log' = Append(log, e) /\ phase' = "saving" /\ attempt' = attempt
          /\ phase = "HEALING" /\ attempt <= MAX_HEALING_RETRIES
          /\ e.status = "APPLIED"
      BY <1>8, <2>1 DEF PatchIsApplied, RecordAttempt, Attempting
    <2>3. PICK S : log \in Seq(S) BY DEF HealInv
    <2> HIDE DEF e
    <2>4. /\ log' \in Seq(S \cup {e})
          /\ Len(log') = Len(log) + 1
          /\ Len(log) \in Nat
          /\ DOMAIN log = 1..Len(log)
          /\ DOMAIN log' = 1..(Len(log) + 1)
          /\ \A i \in 1..Len(log) : log'[i] = log[i]
          /\ log'[Len(log) + 1] = e
          /\ log' # <<>>
      BY <2>2, <2>3, OneMore
    <2>5. \A i \in DOMAIN log : log[i].status # "APPLIED" BY <2>2 DEF HealInv
    <2>6. attempt \in Nat /\ attempt > 0 /\ Len(log) = attempt - 1 BY <1>0, <2>2 DEF HealInv
    <2>7. Len(log') <= MAX_HEALING_RETRIES /\ log'[Len(log')].status = "APPLIED" BY <1>0, <2>2, <2>4, <2>6
    <2>8. \A i \in DOMAIN log' : log'[i].status = "APPLIED" => i = Len(log')
      BY <2>2, <2>4, <2>5
    <2>9. attempt' \in 0..(MAX_HEALING_RETRIES + 1) BY <2>2 DEF HealInv
    <2> QED BY <2>2, <2>4, <2>7, <2>8, <2>9 DEF HealInv
  <1>9. CASE HealingFails
    <2>1. phase = "HEALING" /\ phase' = "FAILED" /\ UNCHANGED <<text, attempt, log>> BY <1>9 DEF HealingFails
    <2> QED BY <2>1 DEF HealInv
  <1>10. CASE SaveText
    <2>1. /\ phase = "saving" /\ phase' = "patched" /\ UNCHANGED <<attempt, log>>
          /\ text' = log[Len(log)].proposed
      BY <1>10 DEF SaveText, Last
    <2> QED BY <2>1 DEF HealInv
  <1>11. CASE Interrupted
    <2>1. /\ phase' \in {"lost", "FAILED"} /\ UNCHANGED <<text, attempt, log>>
      BY <1>11 DEF Interrupted
    <2> QED BY <2>1 DEF HealInv
  <1>12. CASE UNCHANGED healingVars BY <1>12 DEF healingVars, HealInv
  <1> QED BY <1>1, <1>2, <1>3, <1>4, <1>5, <1>6, <1>7, <1>8, <1>9, <1>10, <1>11, <1>12 DEF HealingNext

\* The rows of the attempts account for what healing did to a run, whatever the
\* model answers, for every number of attempts that is allowed.
THEOREM HealingIsAccountedFor ==
    HealingSpec => []AttemptsAreRecorded
  <1>1. HealInv => AttemptsAreRecorded
    <2> SUFFICES ASSUME HealInv PROVE AttemptsAreRecorded OBVIOUS
    <2>1. Last(log) = log[Len(log)] BY DEF Last
    <2> QED BY <2>1 DEF HealInv, AttemptsAreRecorded
  <1> QED BY <1>1, HealInvInit, HealInvNext, PTL DEF HealingSpec
=============================================================================
