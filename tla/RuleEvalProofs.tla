--------------------------- MODULE RuleEvalProofs ---------------------------
(***************************************************************************)
(* The two judges of a rule agree on every saved rule, for every set of    *)
(* strings, lists, accounts, bodies and stored facts.                      *)
(***************************************************************************)
EXTENDS RuleEval, TLAPS

\* What an Option holds is all it holds.
LEMMA OptionIs ==
    ASSUME NEW S, NEW o \in Option(S), NEW a \in o
    PROVE  o = {a} /\ a \in S
  BY DEF Option

LEMMA OptionOne == ASSUME NEW S, NEW a \in S PROVE {a} \in Option(S) /\ {} \in Option(S)
  BY DEF Option

-----------------------------------------------------------------------------
\* normalize_value returns a value of the type asked for, or an error.
LEMMA Normal ==
    ASSUME NEW target \in Target, NEW op \in Operator, NEW raw \in Raw,
           NEW v \in normalize_value(target, op, raw)
    PROVE  /\ v \in Value
           /\ target = "flag" => v.bool # {}
           /\ target \in {"count", "age"} => v.int # {}
           /\ target = "text" /\ op \in {"in", "not_in"} => v.items # {}
           /\ target = "list" \/ (target = "text" /\ op \notin {"in", "not_in"}) => v.text # {}
<1> USE DEF Raw
<1>0. NoValue \in Value
  BY DEF NoValue, Value, Option
<1>1. CASE target = "flag"
  <2>1. PICK b \in raw.bool : v = [NoValue EXCEPT !.bool = {b}]
    BY <1>1 DEF normalize_value
  <2>2. {b} \in Option(BOOLEAN)
    <3>1. raw.bool \in Option(BOOLEAN) /\ b \in raw.bool
      BY <2>1
    <3> HIDE DEF Raw
    <3> QED BY <3>1, OptionIs, OptionOne
  <2> QED BY <1>0, <1>1, <2>1, <2>2 DEF Value
<1>2. CASE target \in {"count", "age"}
  <2>1. PICK n \in raw.int : v = [NoValue EXCEPT !.int = {n}]
    BY <1>2 DEF normalize_value
  <2>2. {n} \in Option(Int)
    <3>1. raw.int \in Option(Int) /\ n \in raw.int
      BY <2>1
    <3> HIDE DEF Raw
    <3> QED BY <3>1, OptionIs, OptionOne
  <2> QED BY <1>0, <1>2, <2>1, <2>2 DEF Value
<1>3. CASE target = "text" /\ op \in {"in", "not_in"}
  <2>1. v = [NoValue EXCEPT !.items = {raw.items}]
    BY <1>3 DEF normalize_value
  <2>2. {raw.items} \in Option(SUBSET Text)
    BY OptionOne
  <2> QED BY <1>0, <1>3, <2>1, <2>2 DEF Value
<1>4. CASE target = "list" \/ (target = "text" /\ op \notin {"in", "not_in"})
  <2>1. v = [NoValue EXCEPT !.text = {raw.text}]
    BY <1>4 DEF normalize_value
  <2>2. {raw.text} \in Option(Text)
    BY OptionOne
  <2> QED BY <1>0, <1>4, <2>1, <2>2 DEF Value
<1> QED BY <1>1, <1>2, <1>3, <1>4 DEF Target

\* A condition that passes validate_condition has the types both judges read.
LEMMA Validated ==
    ASSUME NEW raw \in RawCondition, NEW c \in validate_condition(raw)
    PROVE  c \in Condition /\ valid_for(c.operator, c.target) /\ Typed(c)
<1> USE DEF RawCondition
<1>1. PICK v \in normalize_value(raw.target, raw.operator, raw.value), e \in EndOf(raw) :
        c = [target |-> raw.target, operator |-> raw.operator, value |-> v, value_end |-> e]
  BY DEF validate_condition
<1>2. valid_for(c.operator, c.target)
  BY DEF validate_condition
<1>3. v \in Value
  BY <1>1, Normal
<1>4. e \in Option(Value) /\ (raw.operator = "between" /\ raw.target \in {"count", "age"}
                                => \E u \in e : u.int # {})
  <2>1. CASE raw.operator # "between"
    BY <1>1, <2>1 DEF EndOf, Option
  <2>2. CASE raw.operator = "between"
    <3>1. PICK u \in UNION {normalize_value(raw.target, "between", r) : r \in raw.value_end} : e = {u}
      BY <1>1, <2>2 DEF EndOf
    <3>2. PICK r \in raw.value_end : u \in normalize_value(raw.target, "between", r)
      BY <3>1
    <3>3. r \in Raw
      BY <3>2, OptionIs
    <3>4. u \in Value /\ (raw.target \in {"count", "age"} => u.int # {})
      BY <3>2, <3>3, Normal DEF Operator
    <3> QED BY <3>1, <3>4, OptionOne
  <2> QED BY <2>1, <2>2
<1>5. c \in Condition
  BY <1>1, <1>3, <1>4 DEF Condition
<1>6. Typed(c)
  <2>1. /\ raw.target = "flag" => v.bool # {}
        /\ raw.target \in {"count", "age"} => v.int # {}
        /\ raw.target = "text" /\ raw.operator \in {"in", "not_in"} => v.items # {}
        /\ raw.target = "list" \/ (raw.target = "text" /\ raw.operator \notin {"in", "not_in"})
             => v.text # {}
    BY <1>1, Normal
  <2> QED BY <1>1, <1>2, <1>4, <2>1 DEF Typed, valid_for, Target
<1> QED BY <1>2, <1>5, <1>6

\* What parse_rule_tree lets through.
LEMMA Parsed ==
    ASSUME NEW body \in RawBody, NEW r \in parse_rule_tree(body)
    PROVE  /\ r \in Rule
           /\ \A g \in r.groups : \A c \in g : valid_for(c.operator, c.target) /\ Typed(c)
<1>1. CASE body.any
  <2>1. r = [any |-> TRUE, groups |-> {}]
    BY <1>1 DEF parse_rule_tree
  <2> QED BY <2>1 DEF Rule
<1>2. CASE ~body.any
  <2>1. r = [any |-> FALSE,
             groups |-> {UNION {validate_condition(c) : c \in g} : g \in body.groups}]
    BY <1>2 DEF parse_rule_tree
  <2>2. ASSUME NEW g \in r.groups, NEW c \in g
        PROVE  c \in Condition /\ valid_for(c.operator, c.target) /\ Typed(c)
    <3>1. PICK h \in body.groups : g = UNION {validate_condition(d) : d \in h}
      BY <2>1, <2>2
    <3>2. PICK d \in h : c \in validate_condition(d)
      BY <2>2, <3>1
    <3>3. d \in RawCondition
      BY <3>1, <3>2 DEF RawBody
    <3> QED BY <3>2, <3>3, Validated
  <2>3. r \in Rule
    BY <2>1, <2>2 DEF Rule
  <2> QED BY <2>2, <2>3
<1> QED BY <1>1, <1>2

\* Every stored rule is well typed.
THEOREM TypeCorrect == Spec => []TypeOK
<1>1. Init => TypeOK
  <2>1. [any |-> FALSE, groups |-> {}] \in Rule
    BY DEF Rule
  <2> SUFFICES ASSUME Init PROVE TypeOK
    OBVIOUS
  <2>2. rule \in Rule /\ rule.groups = {}
    BY <2>1 DEF Init
  <2>3. viewer \in Facts
    BY InputAssumption DEF Init
  <2> QED BY <2>2, <2>3 DEF Init, TypeOK
<1>2. TypeOK /\ [Next]_vars => TypeOK'
  <2> SUFFICES ASSUME TypeOK, [Next]_vars PROVE TypeOK'
    OBVIOUS
  <2>1. ASSUME NEW body \in Body, Save(body) PROVE TypeOK'
    <3>1. body \in RawBody
      BY InputAssumption
    <3>2. /\ rule' \in Rule
          /\ \A g \in rule'.groups : \A c \in g : valid_for(c.operator, c.target) /\ Typed(c)
      BY <2>1, <3>1, Parsed DEF Save
    <3> QED BY <2>1, <3>1, <3>2 DEF Save, TypeOK, RawBody
  <2>2. ASSUME NEW facts \in Viewer, Learn(facts) PROVE TypeOK'
    BY <2>2, InputAssumption DEF Learn, TypeOK
  <2>3. CASE Disconnect \/ UNCHANGED vars
    BY <2>3 DEF Disconnect, vars, TypeOK
  <2> QED BY <2>1, <2>2, <2>3 DEF Next
<1> QED BY <1>1, <1>2, PTL DEF Spec

-----------------------------------------------------------------------------
\* Integers: the default of unwrap_or is never used.
LEMMA SameInt ==
    ASSUME NEW c \in Condition, NEW expr, c.target \in {"count", "age"},
           valid_for(c.operator, c.target), Typed(c)
    PROVE  int_match(c, expr) <=> SqlInt(c, expr)
<1>1. PICK n \in c.value.int : c.value.int = {n}
  <2>1. c.value.int \in Option(Int)
    BY DEF Condition, Value
  <2>2. PICK n : n \in c.value.int
    BY DEF Typed
  <2> QED BY <2>1, <2>2, OptionIs
<1>2. IntOr0(c.value) = n
  BY <1>1 DEF IntOr0, Coalesce
<1> DEFINE end == UNION {v.int : v \in c.value_end}
<1>3. CASE c.operator = "between"
  <2>1. PICK v \in c.value_end : v.int # {}
    BY <1>3 DEF Typed
  <2>2. c.value_end = {v} /\ v \in Value
    BY <2>1, OptionIs DEF Condition
  <2>3. PICK hi : v.int = {hi}
    BY <2>1, <2>2, OptionIs DEF Value
  <2>4. end = {hi}
    BY <2>2, <2>3
  <2>5. EndOr(c, n) = hi
    BY <2>4 DEF EndOr, Coalesce
  <2> QED BY <1>1, <1>2, <2>4, <2>5 DEF int_match, SqlInt
<1>4. CASE c.operator # "between"
  BY <1>1, <1>2, <1>4 DEF int_match, SqlInt, Compare
<1> QED BY <1>3, <1>4

\* Strings: a NULL differs from every value, and nothing else holds of it.
LEMMA SameText ==
    ASSUME NEW c \in Condition, NEW column \in Option(Text), c.target = "text",
           valid_for(c.operator, c.target), Typed(c),
           c.operator = "not_in" => UNION c.value.items # {},
           c.operator \in {"contains", "regex"} =>
             \A a \in column, s \in c.value.text :
               <<a, s>> \in Matches["rust"][c.operator] <=> <<a, s>> \in Matches["postgres"][c.operator]
    PROVE  string_match(c, column) <=> SqlText(c, column)
<1>1. CASE c.operator \in {"eq", "neq"}
  BY <1>1 DEF string_match, SqlText, Typed
<1>2. CASE c.operator \in {"contains", "regex"}
  BY <1>2 DEF string_match, SqlText
<1>3. CASE c.operator \in {"in", "not_in"}
  BY <1>3 DEF string_match, SqlText
<1> QED BY <1>1, <1>2, <1>3 DEF valid_for

\* One condition.
LEMMA SameCondition ==
    ASSUME TypeOK, NEW c \in Condition, valid_for(c.operator, c.target), Typed(c), SameGround(c)
    PROVE  evaluate_single(c) <=> build_condition(c)
<1>1. CASE c.target = "flag"
  BY <1>1 DEF evaluate_single, build_condition, bool_match, valid_for
<1>2. CASE c.target = "count"
  BY <1>2, SameInt DEF evaluate_single, build_condition
<1>3. CASE c.target = "age"
  <2>1. \A h \in viewer.halfDays : h \in Int /\ Trunc(h) = Floor(h)
    <3>1. \A h \in viewer.halfDays : h \in Int
      BY DEF TypeOK, Facts, Option
    <3> QED BY <1>3, <3>1 DEF SameGround, Trunc, Floor
  <2>2. {Trunc(h) : h \in viewer.halfDays} = {Floor(h) : h \in viewer.halfDays}
    BY <2>1, Zenon
  <2>3. /\ evaluate_single(c) <=> int_match(c, {Trunc(h) : h \in viewer.halfDays})
        /\ build_condition(c) <=> SqlInt(c, {Floor(h) : h \in viewer.halfDays})
    BY <1>3 DEF evaluate_single, build_condition
  <2> QED BY <1>3, <2>2, <2>3, SameInt
<1>4. CASE c.target = "text"
  <2>1. viewer.text \in Option(Text)
    BY DEF TypeOK, Facts
  <2>2. string_match(c, viewer.text) <=> SqlText(c, viewer.text)
    BY <1>4, <2>1, SameText DEF SameGround
  <2> QED BY <1>4, <2>2 DEF evaluate_single, build_condition
<1>5. CASE c.target = "list"
  <2>1. c.operator = "eq" /\ \A l \in c.value.text : Owner[l] = account
    BY <1>5 DEF valid_for, SameGround
  <2> QED BY <1>5, <2>1 DEF evaluate_single, build_condition, load_memberships
<1> QED BY <1>1, <1>2, <1>3, <1>4, <1>5 DEF Condition, Target

\* The player sync and the config sync want the same for a member, wherever
\* the four kinds of condition SameGround names do not differ.
THEOREM Agreement == Spec => []SameVerdictOnSameGround
<1>1. TypeOK => SameVerdictOnSameGround
  <2> SUFFICES ASSUME TypeOK, \A g \in rule.groups : \A c \in g : SameGround(c)
               PROVE SameVerdict
    BY DEF SameVerdictOnSameGround
  <2>1. \A g \in rule.groups : \A c \in g : evaluate_single(c) <=> build_condition(c)
    <3> SUFFICES ASSUME NEW g \in rule.groups, NEW c \in g
                 PROVE evaluate_single(c) <=> build_condition(c)
      OBVIOUS
    <3>1. c \in Condition /\ valid_for(c.operator, c.target) /\ Typed(c)
      BY DEF TypeOK, Rule
    <3> QED BY <3>1, SameCondition
  <2>2. evaluate <=> build_rule_where
    BY <2>1 DEF evaluate, build_rule_where
  <2> QED BY <2>2 DEF SameVerdict, PlayerGrants, LinkGrants, evaluate
<1> QED BY <1>1, TypeCorrect, PTL
=============================================================================
