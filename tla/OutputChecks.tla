----------------------------- MODULE OutputChecks -----------------------------
(***************************************************************************)
(* The deterministic checks of what generated code has produced: the       *)
(* quality gate of a transformed table (agents/pipeline/quality.py) and    *)
(* the sanity checks of Gold and Science results                           *)
(* (core/output_validation.py).                                            *)
(*                                                                         *)
(* A table is one of its columns; a column is how many of its cells have   *)
(* each value.  Checks that only ever add a warning of their own, and that *)
(* nothing else depends on, are left out: repeated rows and values, types, *)
(* outliers.                                                               *)
(***************************************************************************)
EXTENDS Integers, FiniteSetsExt

CONSTANTS
  Cell,      \* the numbers in cells
  MaxRows,   \* bound: rows of a table
  Forecast,  \* values predicted, and of their history
  Null

ASSUME OutputChecksAssumption ==
  /\ Cell \subseteq Int /\ IsFiniteSet(Cell) /\ Null \notin Cell
  /\ Forecast \subseteq Int /\ MaxRows \in Nat

VARIABLES
  ocInput, \* what is checked, with its kind
  ocReport \* the warnings and errors of its report

ocVars == <<ocInput, ocReport>>

Value == Cell \cup {Null}
Rows(column) == MapThenSumSet(LAMBDA x : column[x], DOMAIN column)
ColumnsOf(values) == {c \in [values -> 0..MaxRows] : Rows(c) <= MaxRows}
Total(column) == MapThenSumSet(LAMBDA x : IF x = Null THEN 0 ELSE x * column[x], DOMAIN column)

Operator == {"not_null", "gte", "lte", "gt", "lt", "eq", "ne"}
Rule == [operator : Operator, value : Cell, severity : {"warning", "error"}, present : BOOLEAN]
\* A column of that name in an extracted source: text, of which so many cells are neither
\* blank nor a number, or numbers.
Bronze == [text : BOOLEAN, unparsable : 0..1]
NumbersOnly == [text |-> FALSE, unparsable |-> 0]
NoRule(rule) == rule.operator = "gte" /\ rule.severity = "warning"

\* Each check is made for itself, so either the rule varies, or the sources do.
Table ==
  LET T(rules, bronze) == [kind : {"table"}, column : ColumnsOf(Value), number : BOOLEAN,
                           twice : BOOLEAN, rule : rules, bronze : bronze]
  IN T(Rule, {<<NumbersOnly, NumbersOnly>>}) \cup T({r \in Rule : NoRule(r)}, Bronze \X Bronze)
Gold == [kind : {"gold"}, silver : ColumnsOf(Cell), gold : ColumnsOf(Cell), cites : BOOLEAN]
Science == [kind : {"science"}, low : Forecast, high : Forecast, predicted : Forecast]

OCInit == ocInput = [kind |-> "none"] /\ ocReport = {}

-----------------------------------------------------------------------------
(* quality_node                                                            *)

\* A mistake: the boundary is let through by a strict comparison.
ViolatesBeyond(operator, x, v) ==
  CASE operator = "not_null" -> x = Null
    [] operator \in {"gte", "gt"} -> x # Null /\ x < v
    [] operator \in {"lte", "lt"} -> x # Null /\ x > v
    [] operator = "eq" -> x # v
    [] operator = "ne" -> x = v

\* _CUSTOM_RULE_OPERATORS, each the negation that the code evaluates; a comparison
\* with a null is false, and unequal is true.
Violates(operator, x, v) ==
  CASE operator = "not_null" -> x = Null
    [] operator = "gte" -> x # Null /\ x < v
    [] operator = "lte" -> x # Null /\ x > v
    [] operator = "gt" -> x # Null /\ x <= v
    [] operator = "lt" -> x # Null /\ x >= v
    [] operator = "eq" -> x # v
    [] operator = "ne" -> x = v

\* Text is of no order, and equals no number.
Incomparable(t) == ~t.number /\ t.rule.operator \in {"gte", "lte", "gt", "lt"}
Violations(t) ==
  {x \in Value : t.column[x] > 0 /\ IF t.number THEN Violates(t.rule.operator, x, t.rule.value)
                                    ELSE \/ t.rule.operator = "eq"
                                         \/ t.rule.operator = "not_null" /\ x = Null}

\* _check_custom_rules
CheckCustomRule(t) ==
  CASE ~t.rule.present \/ Incomparable(t) -> {[check |-> "custom_rule", severity |-> "error"]}
    [] t.rule.present /\ ~Incomparable(t) /\ Violations(t) # {} ->
         {[check |-> "custom_rule", severity |-> t.rule.severity]}
    [] OTHER -> {}

\* _check_nulls: from a fifth on an error, from a twentieth on a warning; of no rows the
\* ratio is no number, and reaches neither.
CheckNulls(t) ==
  LET n == Rows(t.column) IN
  CASE n > 0 /\ t.column[Null] * 5 >= n -> {[check |-> "null", severity |-> "error"]}
    [] n > 0 /\ t.column[Null] * 5 < n /\ t.column[Null] * 20 >= n ->
         {[check |-> "null", severity |-> "warning"]}
    [] OTHER -> {}

\* _check_coerced_numeric_loss: compared with the first source that has text there.
FirstText(t) == IF t.bronze[1].text THEN t.bronze[1] ELSE t.bronze[2]
Blanks(t) == t.column[Null] + (IF 0 \in Cell THEN t.column[0] ELSE 0)
CheckCoercedLoss(t) ==
  IF t.number /\ FirstText(t).text /\ FirstText(t).unparsable > 0 /\ Blanks(t) > 0
  THEN {[check |-> "coerced_numeric_loss", severity |-> "warning"]} ELSE {}

\* With two columns of one name there is no other check.
QualityNode(t) ==
  /\ ocInput' = t
  /\ ocReport' = IF t.twice THEN {[check |-> "duplicate_columns", severity |-> "error"]}
                 ELSE CheckNulls(t) \cup CheckCoercedLoss(t) \cup CheckCustomRule(t)

-----------------------------------------------------------------------------
(* check_gold_output, check_science_output: nothing but warnings           *)

Warning(check, flagged) == IF flagged THEN {[check |-> check, severity |-> "warning"]} ELSE {}

\* Half a percent is allowed for; an empty source or result has no sum to compare.
CheckGoldOutput(g) ==
  /\ ocInput' = g
  /\ ocReport' =
       Warning("sum_conservation", /\ Rows(g.silver) > 0 /\ Rows(g.gold) > 0 /\ Total(g.silver) >= 0
                                   /\ Total(g.gold) * 200 > Total(g.silver) * 201)
       \cup Warning("row_count_bound", Rows(g.silver) > 0 /\ Rows(g.gold) > Rows(g.silver))
       \cup Warning("empty_result", Rows(g.gold) = 0 /\ g.cites)

Abs(x) == IF x < 0 THEN -x ELSE x
Span(s) == Max({s.high - s.low, Abs(s.high), 1})
CheckScienceOutput(s) ==
  /\ s.low <= s.high /\ ocInput' = s
  /\ ocReport' = Warning("prediction_range", \/ s.predicted < s.low - 3 * Span(s)
                                             \/ s.predicted > s.high + 3 * Span(s))

OCNext ==
  /\ ocInput.kind = "none"
  /\ \/ \E t \in Table : QualityNode(t)
     \/ \E g \in Gold : CheckGoldOutput(g)
     \/ \E s \in Science : CheckScienceOutput(s)

OCSpec == OCInit /\ [][OCNext]_ocVars

-----------------------------------------------------------------------------
OCTypeOK ==
  /\ ocInput.kind \in {"none", "table", "gold", "science"}
  /\ \A r \in ocReport : r.severity \in {"warning", "error"}

Blocked == \E r \in ocReport : r.severity = "error"
Flagged(check) == \E r \in ocReport : r.check = check

\* What an operator means by a rule, of the values that are there; only a rule of
\* equality, and not_null, say something of those that are missing.
Meant(operator, x, v) ==
  CASE operator = "gte" -> x >= v [] operator = "gt" -> x > v [] operator = "eq" -> x = v
    [] operator = "lte" -> x <= v [] operator = "lt" -> x < v [] operator = "ne" -> x # v
    [] operator = "not_null" -> TRUE
Kept(t) ==
  /\ t.rule.operator \in {"eq", "not_null"} => t.column[Null] = 0
  /\ \A x \in Cell : t.column[x] > 0 =>
       IF t.number THEN Meant(t.rule.operator, x, t.rule.value)
       ELSE t.rule.operator \in {"ne", "not_null"}

TableIsRight(t) ==
  LET n == Rows(t.column) IN
  /\ Blocked <=> \/ t.twice
                 \/ n > 0 /\ 100 * t.column[Null] >= 20 * n
                 \/ t.rule.severity = "error" /\ (~Incomparable(t) => ~Kept(t))
                 \/ ~t.rule.present \/ Incomparable(t)
  /\ t.number /\ ~t.twice /\ t.bronze[1].text /\ t.bronze[1].unparsable = 1 /\ Blanks(t) > 0
       => Flagged("coerced_numeric_loss")
GoldIsRight(g) ==
  (\A x \in Cell : x < 0 => g.silver[x] = 0) /\ Rows(g.silver) > 0 =>
    /\ (\A x \in Cell : g.gold[x] <= g.silver[x]) =>
         ~Flagged("sum_conservation") /\ ~Flagged("row_count_bound")
    /\ Total(g.gold) > 2 * Total(g.silver) => Flagged("sum_conservation")
ScienceIsRight(s) ==
  /\ s.predicted \in s.low..s.high => ~Flagged("prediction_range")
  /\ s.high >= 1 /\ s.low >= 0 /\ s.predicted >= 10 * s.high => Flagged("prediction_range")

\* The gate stops a table exactly if a column is there twice, a fifth of one is missing,
\* or a rule of severity error is not kept or cannot be evaluated; a number lost
\* to zero or null is reported unless an earlier source has text without loss there.  A
\* selection of rows is not suspected as long as no number is negative, a result that
\* is more than its source is; a prediction inside its history is not, and one ten times
\* its positive maximum is.
ChecksAreRight ==
  /\ ocInput.kind = "table" => TableIsRight(ocInput)
  /\ ocInput.kind = "gold" => GoldIsRight(ocInput)
  /\ ocInput.kind = "science" => ScienceIsRight(ocInput)
=============================================================================
