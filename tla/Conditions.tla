----------------------------- MODULE Conditions -----------------------------
(***************************************************************************)
(* From the rule form to the verdict of one evaluation: build_rule_from_   *)
(* form and parse_condition_value (main.py), save_rule and rule_from_row   *)
(* (db.py), condition_matches and condition_group_matches                  *)
(* (rules/engine.py), with the worker's choice of what a rule is given.    *)
(*                                                                         *)
(* A Python value is a type and a number, counted in halves so that a      *)
(* decimal is one too; a Boolean is the number 0 or 1, as in Python.       *)
(* "raises" is an exception of the comparison: evaluate has no handler, so *)
(* it ends the worker's process (worker.py:211).                           *)
(***************************************************************************)
EXTENDS ObjectCount, SequencesExt

VARIABLES
    class,      \* the class the monitor counts
    typed,      \* the form the rule was saved from last, if any
    row         \* the rule's row

forms == <<class, typed, row>>

Ordered   == {">", ">=", "<", "<="}
Operators == Ordered \cup {"is_true", "is_false", "exists", "==", "!="}
Verdict(holds) == IF holds THEN "true" ELSE "false"

Value(type, half) == [type |-> type, half |-> half]
Numeric == {"bool", "int", "float"}
SameValue(a, b) ==
    IF {a.type, b.type} \subseteq Numeric THEN a.half = b.half ELSE a.type = "str" /\ a = b

\* A Boolean on either side is refused by the code, a text by Python; no order holds of
\* the float NaN.
OrderedMatches(operator, left, right) ==
    IF "bool" \in {left.type, right.type} \/ right.type = "str" THEN "raises"
    ELSE Verdict(right.type # "nan" /\ CASE operator = ">"  -> left.half > right.half
                                         [] operator = ">=" -> left.half >= right.half
                                         [] operator = "<"  -> left.half < right.half
                                         [] operator = "<=" -> left.half <= right.half)

ConditionMatches(condition, observation) ==
    LET left  == observation.value
        right == condition.value
    IN  CASE observation.metric # condition.metric -> "false"
          [] condition.operator = "is_true"  -> Verdict(left = Value("bool", 2))
          [] condition.operator = "is_false" -> Verdict(left = Value("bool", 0))
          [] condition.operator = "exists"   -> "true"
          [] condition.operator = "==" -> Verdict(SameValue(left, right))
          [] condition.operator = "!=" -> Verdict(~SameValue(left, right))
          [] condition.operator \in Ordered -> OrderedMatches(condition.operator, left, right)
          [] OTHER -> "raises"

\* condition_group_matches: each condition looks at the first observation of its
\* metric, every condition is tried whatever the others say.
GroupMatches(group, observations) ==
    LET Of(c) == {i \in DOMAIN observations : observations[i].metric = c.metric}
        verdicts == {IF Of(c) = {} THEN "false"
                     ELSE ConditionMatches(c, observations[Min(Of(c))]) :
                        c \in ToSet(group.conditions)}
    IN  IF "raises" \in verdicts \/ group.mode \notin {"any", "all"} THEN "raises"
        ELSE Verdict(IF group.mode = "any" THEN "true" \in verdicts ELSE "false" \notin verdicts)

\* evaluate: of what it is given, a rule sees the observations of its monitor and those
\* of none, in their order.
Scoped(rule, observations) ==
    Restrict(observations,
             {i \in DOMAIN observations : observations[i].monitor \in {rule.monitor, "None"}})

-----------------------------------------------------------------------------
(***************************************************************************)
(* The form and the row.                                                   *)
(***************************************************************************)

\* What a text field may hold: what int() and float() read in it, or neither; "blank" is
\* white space only, which is not the empty field.
Whole   == [t \in {"0", "1", "2"} |-> CASE t = "0" -> 0 [] t = "1" -> 2 [] t = "2" -> 4]
Decimal == [t \in {"1.0", "1.5"} |-> IF t = "1.0" THEN 2 ELSE 3]
Texts   == {"true", "false", "nan", "", "blank", "many"} \cup DOMAIN Whole \cup DOMAIN Decimal

ParseConditionValue(raw) ==
    CASE raw = "true"  -> Value("bool", 2)
      [] raw = "false" -> Value("bool", 0)
      [] raw \in DOMAIN Whole   -> Value("int", Whole[raw])
      [] raw \in DOMAIN Decimal -> Value("float", Decimal[raw])
      [] raw = "nan" -> Value("nan", 0)
      [] OTHER -> Value("str", 0)

ValidMonitorMetrics == {class} \X {"count", "present"}

\* The handlers' parameters: an empty field is given its default in the place of "".
Received(raw) == IF raw = "" THEN "2" ELSE raw

\* build_rule_from_form: no rule (a 400) when the metric is not the monitor's; the
\* operator and the value are taken as they come.
BuiltRule(form) ==
    {[monitor |-> f.monitor,
      group |-> [mode |-> "all",
                 conditions |-> << [metric |-> f.metric, operator |-> f.operator,
                                    value |-> ParseConditionValue(Received(f.value))] >>]] :
        f \in {f \in {form} : f.metric \in ValidMonitorMetrics}}

\* save_rule writes the group and its first condition, and no camera.
RowOf(rule) == [monitor |-> rule.monitor, cameras |-> << >>, group |-> rule.group,
                condition |-> Head(rule.group.conditions)]

\* migrate adds two columns to the rows of earlier versions, monitor_id and then
\* condition_group_json, NULL in the rows it finds (kept here as "" and as a group without
\* conditions): a row lacks the second column or both.  What it has is its condition and
\* the cameras it was about.
LegacyRowsOf(rule, cameras) ==
    {[monitor |-> monitor, cameras |-> cameras, group |-> [mode |-> "all", conditions |-> << >>],
      condition |-> Head(rule.group.conditions)] : monitor \in {rule.monitor, ""}}

FirstMonitorIdFromLegacy(r) == IF r.cameras = << >> THEN "" ELSE Head(r.cameras)

\* Mutant: the cameras are looked at first, the monitor where there are none.
RuleFromRowByCamera(r) ==
    [monitor |-> IF r.cameras # << >> THEN Head(r.cameras) ELSE r.monitor,
     group |-> IF r.group.conditions # << >> THEN r.group
               ELSE [mode |-> "all", conditions |-> << r.condition >>]]

\* rule_from_row: the group, or one of the row's condition; the monitor, or the first of
\* the cameras in its place.
RuleFromRow(r) ==
    [monitor |-> IF r.monitor # "" THEN r.monitor ELSE FirstMonitorIdFromLegacy(r),
     group |-> IF r.group.conditions # << >> THEN r.group
               ELSE [mode |-> "all", conditions |-> << r.condition >>]]

FormInit == class = "person" /\ typed = {} /\ row = {}

\* create_rule and update_rule.
SaveForm(form) ==
    /\ BuiltRule(form) # {}
    /\ typed' = {form}
    /\ row' = {RowOf(rule) : rule \in BuiltRule(form)}
    /\ UNCHANGED class

\* The database was brought along from an earlier version, whose rule said the same.
Upgrade(form, cameras) ==
    /\ typed = {} /\ BuiltRule(form) # {}
    /\ typed' = {form}
    /\ \E rule \in BuiltRule(form) : \E r \in LegacyRowsOf(rule, cameras) : row' = {r}
    /\ UNCHANGED class

\* update_monitor: the rules of the monitor stay as they are.
ChangeClass(c) == class' = c /\ UNCHANGED <<typed, row>>

\* The verdict of a row in a cycle: the worker gives a rule what its monitor observed, and
\* a fault where that is nothing.
EvaluateRow(r, observed) ==
    LET rule == RuleFromRow(r)
        observations == IF rule.monitor \in DOMAIN observed THEN observed[rule.monitor] ELSE << >>
    IN  IF observations = << >> THEN "fault"
        ELSE GroupMatches(rule.group, Scoped(rule, observations))

-----------------------------------------------------------------------------
(***************************************************************************)
(* What the operator asked for and what the engine answers.                *)
(***************************************************************************)

Numbers == 0 .. 2
Forms  == [monitor : {"gate"}, metric : Classes \X {"count", "present"},
           operator : Operators \cup {"between"}, value : Texts]
CameraLists == {<< >>, <<"cam-1">>, <<"cam-2", "cam-1">>}
Crowd(c, n) == [i \in 1 .. n |-> [class |-> c, confidence |-> 1,
                                  bbox |-> [x |-> 0, y |-> 0, width |-> 1, height |-> 1]]]
Seen(monitor, c, n) ==
    ObservationsFor(monitor, [class |-> c, threshold |-> 1, zone |-> {}], Crowd(c, n))

\* The number the operator typed or left to the default, and what a comparison means.
Typed(raw) == CASE raw = "" -> 4 [] raw = "false" -> 0 [] raw = "true" -> 2
                [] raw \in DOMAIN Whole -> Whole[raw] [] raw \in DOMAIN Decimal -> Decimal[raw] [] OTHER -> -1
Compares(operator, a, b) ==
    CASE operator = ">" -> a > b [] operator = ">=" -> a >= b [] operator = "<" -> a < b
      [] operator = "<=" -> a <= b [] operator = "==" -> a = b [] operator = "!=" -> a # b

\* The verdict on a count of n, told without the engine's types.
Means(form, n) ==
    LET truth  == form.metric[2] = "present"
        number == IF truth THEN (IF n > 0 THEN 2 ELSE 0) ELSE 2 * n
    IN  CASE form.operator = "between" -> "raises"
          [] form.operator = "exists"   -> "true"
          [] form.operator = "is_true"  -> Verdict(truth /\ n > 0)
          [] form.operator = "is_false" -> Verdict(truth /\ n = 0)
          [] form.operator \in {"==", "!="} -> Verdict(Compares(form.operator, number, Typed(form.value)))
          [] OTHER ->
                IF truth \/ form.value \in {"true", "false", "blank", "many"} THEN "raises"
                ELSE Verdict(form.value # "nan" /\ Compares(form.operator, number, Typed(form.value)))

Observed(n, other) ==
    [m \in {"gate", "yard"} |-> IF m = "gate" THEN Seen(m, class, n) ELSE Seen(m, "person", other)]

FormSpec ==
    FormInit /\ [][\/ \E form \in Forms : SaveForm(form)
                  \/ \E form \in Forms, cameras \in CameraLists : Upgrade(form, cameras)
                  \/ \E c \in Classes : ChangeClass(c)]_forms

(* Every rule the form accepts, saved, read back and evaluated against two monitors'
   observations, says what was typed (2 where nothing was) about the count of its own
   monitor and nothing else's, and so does a row from before the condition groups, whatever
   cameras it lists.  It ends the worker's process (raises) exactly when an order is asked
   of a truth or of a text, or the operator is unknown: the form lets all three through.
   After the monitor was given another class, the rule is false, whatever was typed, until
   the class is given back, and no fault tells of it.  A row from before monitor_id says
   nothing any more: it is read as a rule of a monitor with its first camera's id, which
   observes nothing, and is in fault in every cycle until the rule is saved again. *)
RulesMeanWhatWasTyped ==
    \A form \in typed, r \in row, n \in Numbers, other \in Numbers :
        EvaluateRow(r, Observed(n, other)) =
            CASE r.monitor = "" -> "fault"
              [] r.monitor # "" /\ form.metric[1] = class -> Means(form, n)
              [] OTHER -> "false"
=============================================================================
