----------------------------- MODULE Contracts ------------------------------
(***************************************************************************)
(* The three rule engines a table meets: the rules of a validate step, the *)
(* contract a step declares inline, and the YAML contract of the pipeline  *)
(* that is checked against the last table.  A rule is violated or not;     *)
(* wording, counts and examples are left out.                              *)
(*                                                                         *)
(* A pattern and a date format are the set of the texts that match; of the *)
(* types only number and string are told apart.                            *)
(***************************************************************************)
EXTENDS Tables

Values(t, c) == ToSet(Column(t, c))
Repeats(vals) == \E i, j \in DOMAIN vals : i # j /\ vals[i] = vals[j]

\* _execute_single_rule: TRUE when the rule fails.  A null is neither too
\* small nor too large, but it is in no list and repeats itself.
RuleFails(t, r) ==
    LET col  == Column(t, r.column)
        some == ToSet(Known(col))
    IN  CASE r.check = "min_rows" -> Len(t.rows) < r.value
          [] r.check = "max_rows" -> Len(t.rows) > r.value
          [] OTHER -> \/ ~Has(t, <<r.column>>)
                      \/ CASE r.check = "not_null" -> NULL \in ToSet(col)
                           [] r.check = "not_empty" -> FALSE              \* no text is blank here
                           [] r.check = "greater_than" -> \E v \in some : v <= r.value
                           [] r.check = "less_than"    -> \E v \in some : v >= r.value
                           [] r.check = "positive"     -> \E v \in some : v <= 0
                           [] r.check = "between"      -> \E v \in some : v < r.min \/ v > r.max
                           [] r.check \in {"in_values", "matches_pattern"} -> ~(ToSet(col) \subseteq r.values)
                           [] r.check = "date_format"  -> ~(some \subseteq r.values)
                           [] r.check = "no_duplicates" -> Repeats(col)
                           [] OTHER -> TRUE                               \* unknown check

\* execute_validate: the step warns, and passes its input on in any case.
ValidatePassed(t, rules) == \A r \in rules : r.severity = "error" => ~RuleFails(t, r)

-----------------------------------------------------------------------------
(* ColumnContract.validate and Contract.validate.  A violation is its      *)
(* column, its rule and its severity.                                      *)

Violation(c, rule, severity) == [column |-> c, rule |-> rule, severity |-> severity]
When(P, v) == IF P THEN {v} ELSE {}

\* Mutant: rows at the bound count as below it.
BelowOrAt(vals, bound) == bound # NULL /\ \E v \in vals : v <= bound

Below(vals, bound) == bound # NULL /\ \E v \in vals : v < bound
Above(vals, bound) == bound # NULL /\ \E v \in vals : v > bound

ColumnViolations(t, k) ==
    LET some == ToSet(Known(Column(t, k.name)))
    IN  When((k.dtype = "number") # (k.name \in t.num), Violation(k.name, "type", "error"))
        \cup When(k.not_null /\ NULL \in Values(t, k.name), Violation(k.name, "not_null", "error"))
        \cup When(k.unique /\ Repeats(Known(Column(t, k.name))), Violation(k.name, "unique", "warning"))
        \cup When(k.name \in t.num /\ Below(some, k.min_value), Violation(k.name, "min_value", "error"))
        \cup When(k.name \in t.num /\ Above(some, k.max_value), Violation(k.name, "max_value", "error"))
        \cup When(~(some \subseteq k.allowed_values), Violation(k.name, "allowed_values", "error"))

RowViolations(t, k, severity) ==
    When(k.min_rows # NULL /\ Len(t.rows) < k.min_rows, Violation("", "min_rows", "error"))
    \cup When(k.max_rows # NULL /\ Len(t.rows) > k.max_rows, Violation("", "max_rows", severity))

\* A column that is not required may be missing.
StepContract(t, k) ==
    (UNION {IF Has(t, <<c.name>>) THEN ColumnViolations(t, c)
            ELSE When(c.required, Violation(c.name, "missing", "error")) : c \in k.columns})
    \cup RowViolations(t, k, "warning")

validate_step_contract(t, k) == IF k = NULL THEN {} ELSE StepContract(t, k)

-----------------------------------------------------------------------------
(* validate_against_contract.  Every promised column is required, a null   *)
(* is not an allowed value, and a column nobody promised is reported.      *)

\* str(v): 1 and 1.0 are equal, but not as texts.
Str(v, float) == IF float THEN <<v, ".0">> ELSE <<v>>

\* floats: the columns whose numbers are floats; decimal: so are those of the
\* contract's list.
PromisedColumn(t, k, floats) ==
    LET some == ToSet(Known(Column(t, k.name)))
    IN  When((k.dtype = "number") # (k.name \in t.num), Violation(k.name, "type", "error"))
        \cup When(k.not_null /\ NULL \in Values(t, k.name), Violation(k.name, "not_null", "error"))
        \cup When(Below(some, k.min_value), Violation(k.name, "min_value", "error"))
        \cup When(Above(some, k.max_value), Violation(k.name, "max_value", "error"))
        \cup When(~({Str(v, k.name \in floats) : v \in Values(t, k.name)}
                        \subseteq {Str(v, k.decimal) : v \in k.allowed_values}),
                  Violation(k.name, "allowed_values", "error"))
        \cup When(k.unique /\ Repeats(Known(Column(t, k.name))), Violation(k.name, "unique", "error"))

NullRate(t, c) == (100 * Cardinality({i \in Rows(t) : t.rows[i][c] = NULL})) \div Len(t.rows)

validate_against_contract(t, k, floats) ==
    (UNION {IF Has(t, <<c.name>>) THEN PromisedColumn(t, c, floats)
            ELSE {Violation(c.name, "missing", "error")} : c \in k.columns})
    \cup {Violation(c, "null_threshold", "warning") :
              c \in {c \in DOMAIN k.null_thresholds \cap ToSet(t.cols) :
                        t.rows # <<>> /\ NullRate(t, c) > k.null_thresholds[c]}}
    \cup RowViolations(t, k, "error")
    \cup {Violation(c, "unexpected", "warning") : c \in ToSet(t.cols) \ {x.name : x \in k.columns}}

\* build_breach_report: only an error of a blocking contract blocks the run.
ShouldBlock(violations, severity) == severity = "block" /\ \E v \in violations : v.severity = "error"
=============================================================================
