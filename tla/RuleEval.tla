------------------------------ MODULE RuleEval ------------------------------
(***************************************************************************)
(* A rule is judged twice: for one member by the evaluator the player sync *)
(* calls (services/condition_eval.rs), for a whole guild by the WHERE      *)
(* clause the config sync sends to Postgres (services/rule_sql.rs).  Each  *)
(* sync undoes what the other did wherever the two disagree.  The rules    *)
(* are those services/rule_validator.rs lets an admin save.                *)
(*                                                                         *)
(* A nullable column, an Option and what as_bool, as_i64, as_str and       *)
(* as_array find in a JSON value are sets of at most one element.  Targets *)
(* are taken by the kind of column they read: "flag" (COALESCEd booleans), *)
(* "count" (COALESCEd integers), "age" (days since a nullable timestamp),  *)
(* "text" (nullable strings) and "list" (memberships).                     *)
(***************************************************************************)
EXTENDS Integers, FiniteSets

CONSTANTS
    Text,        \* strings: handles, names, patterns, URIs
    Blank,       \* those that trim to nothing
    List,        \* those that start with at://
    Account,     \* the connected Bluesky accounts
    Owner,       \* Owner[l]: the account whose list l is
    NoAccount,   \* a NULL bsky_account_did
    Matches,     \* Matches[engine][op]: the pairs <<value, pattern>> that match
    Regex,       \* the patterns the regex crate compiles
    Body,        \* the bodies the page posts
    Viewer,      \* what the tables may hold about a member
    MAX_GROUPS, MAX_CONDITIONS_PER_GROUP

Option(S) == {x \in SUBSET S : \A a, b \in x : a = b}

Target   == {"flag", "count", "age", "text", "list"}
Operator == {"eq", "neq", "gt", "gte", "lt", "lte", "between",
             "contains", "regex", "in", "not_in"}

\* A JSON value as normalize_value reads it: as a boolean, as an integer, as
\* a string or its spelling, as an array or a comma-separated list of strings
\* (`odd`: with members that are neither null nor strings).
Raw == [is : {"null", "bool", "num", "str", "arr"}, bool : Option(BOOLEAN),
        int : Option(Int), text : Text, items : SUBSET Text, odd : BOOLEAN]

RawCondition == [target : Target, operator : Operator, value : Raw, value_end : Option(Raw)]
RawBody == [any : BOOLEAN, account : Account \cup {NoAccount},
            groups : SUBSET SUBSET RawCondition]

Value     == [bool : Option(BOOLEAN), int : Option(Int), text : Option(Text),
              items : Option(SUBSET Text)]
NoValue   == [bool |-> {}, int |-> {}, text |-> {}, items |-> {}]
Condition == [target : Target, operator : Operator, value : Value, value_end : Option(Value)]
Rule      == [any : BOOLEAN, groups : SUBSET SUBSET Condition]
Facts     == [flag : Option(BOOLEAN), count : Option(Nat), halfDays : Option(Int),
              text : Option(Text), lists : SUBSET List]

ASSUME TextAssumption == Blank \subseteq Text /\ List \subseteq Text \ Blank
                         /\ Regex \subseteq Text
ASSUME AccountAssumption == NoAccount \notin Account /\ Owner \in [List -> Account]
ASSUME MatchesAssumption ==
    Matches \in [{"rust", "postgres"} -> [{"contains", "regex"} -> SUBSET (Text \X Text)]]
ASSUME InputAssumption == Body \subseteq RawBody /\ Viewer \subseteq Facts

VARIABLES
    rule, account,  \* rule_tree and bsky_account_did of the link
    saved,          \* bound: the rule is saved once
    viewer          \* what the tables hold about a member

vars == <<rule, account, saved, viewer>>

-----------------------------------------------------------------------------
(* services/rule_validator.rs: Err is the empty option.                    *)

valid_for(op, target) ==
    CASE target = "flag" -> op = "eq"
      [] target \in {"count", "age"} -> op \in {"eq", "neq", "gt", "gte", "lt", "lte", "between"}
      [] target = "text" -> op \in {"eq", "neq", "contains", "regex", "in", "not_in"}
      [] target = "list" -> op = "eq"

normalize_value(target, op, raw) ==
    CASE target = "flag" ->
            {[NoValue EXCEPT !.bool = {b}] : b \in IF raw.is \in {"bool", "str"} THEN raw.bool ELSE {}}
      [] target \in {"count", "age"} ->
            {[NoValue EXCEPT !.int = {n}] : n \in IF raw.is \in {"num", "str"} THEN raw.int ELSE {}}
      [] target = "text" /\ op \in {"in", "not_in"} ->
            {[NoValue EXCEPT !.items = {I}] :
                I \in IF raw.items # {} \/ raw.odd THEN {raw.items} ELSE {}}
      [] OTHER ->
            {[NoValue EXCEPT !.text = {s}] :
                s \in IF raw.is \in {"bool", "num", "str"} THEN {raw.text} \ Blank ELSE {}}

\* Mutant of EndOf: between accepts a missing maximum.
EndOfLenient(raw) ==
    IF raw.operator # "between" THEN {{}}
    ELSE {{v} : v \in UNION {normalize_value(raw.target, "between", e) : e \in raw.value_end}}
         \cup (IF raw.value_end = {} THEN {{}} ELSE {})

\* value_end: both ends for between, none for the other operators.
EndOf(raw) ==
    IF raw.operator # "between" THEN {{}}
    ELSE {{v} : v \in UNION {normalize_value(raw.target, "between", e) : e \in raw.value_end}}

validate_condition(raw) ==
    {c \in {[target |-> raw.target, operator |-> raw.operator, value |-> v, value_end |-> e] :
               v \in normalize_value(raw.target, raw.operator, raw.value), e \in EndOf(raw)} :
        /\ valid_for(c.operator, c.target)
        /\ c.operator = "regex" => c.value.text \subseteq Regex
        /\ c.target = "list" => c.value.text \subseteq List}

parse_rule_tree(body) ==
    IF body.any THEN {[any |-> TRUE, groups |-> {}]}
    ELSE {r \in {[any |-> FALSE,
                  groups |-> {UNION {validate_condition(c) : c \in g} : g \in body.groups}]} :
            /\ Cardinality(body.groups) \in 1..MAX_GROUPS
            /\ \A g \in body.groups :
                /\ Cardinality(g) \in 1..MAX_CONDITIONS_PER_GROUP
                /\ \A c \in g : validate_condition(c) # {}}

-----------------------------------------------------------------------------
(* services/condition_eval.rs, on the row FACTS_SELECT returns.            *)

Coalesce(column, default) == IF column = {} THEN {default} ELSE column

Trunc(h) == IF h >= 0 THEN h \div 2 ELSE -((-h) \div 2)
Floor(h) == h \div 2

Compare(op, a, n, end) ==
    CASE op = "eq"  -> a = n   [] op = "neq" -> a # n
      [] op = "gt"  -> a > n   [] op = "gte" -> a >= n
      [] op = "lt"  -> a < n   [] op = "lte" -> a <= n
      [] op = "between" -> a >= n /\ \E hi \in end : a <= hi
      [] OTHER -> FALSE

int_match(c, actual) ==
    \E a \in actual, n \in c.value.int :
        Compare(c.operator, a, n, UNION {v.int : v \in c.value_end})

bool_match(c, actual) == c.operator = "eq" /\ c.value.bool = actual

\* Without a value (None) only Neq holds.
string_match(c, actual) ==
    CASE c.operator = "eq"  -> \E a \in actual : c.value.text = {a}
      [] c.operator = "neq" -> \/ actual = {}
                               \/ c.value.text # {} /\ c.value.text # actual
      [] c.operator \in {"contains", "regex"} ->
            \E a \in actual, s \in c.value.text : <<a, s>> \in Matches["rust"][c.operator]
      [] c.operator = "in" -> \E a \in actual : a \in UNION c.value.items
      [] c.operator = "not_in" -> \E a \in actual : a \notin UNION c.value.items
      [] OTHER -> FALSE

\* The lists of the bound account only.
load_memberships == {l \in viewer.lists : Owner[l] = account}

evaluate_single(c) ==
    CASE c.target = "flag"  -> bool_match(c, Coalesce(viewer.flag, FALSE))
      [] c.target = "count" -> int_match(c, Coalesce(viewer.count, 0))
      [] c.target = "age"   -> int_match(c, {Trunc(h) : h \in viewer.halfDays})
      [] c.target = "text"  -> string_match(c, viewer.text)
      [] c.target = "list"  -> c.value.text \cap load_memberships # {}

evaluate ==
    \/ rule.any
    \/ \E g \in rule.groups : g # {} /\ \A c \in g : evaluate_single(c)

\* sync_for_player: what it wants for a member with a linked account.
PlayerGrants == rule.any \/ (account # NoAccount /\ evaluate)

-----------------------------------------------------------------------------
(* services/rule_sql.rs, as Postgres answers.  The clause has AND and OR   *)
(* but no NOT: a condition that is NULL counts as one that is false.       *)

\* unwrap_or: what a value of the wrong type is replaced with.
IntOr0(v)    == CHOOSE n \in Coalesce(v.int, 0) : TRUE
EndOr(c, lo) == CHOOSE n \in Coalesce(UNION {v.int : v \in c.value_end}, lo) : TRUE

SqlInt(c, expr) ==
    LET n == IntOr0(c.value) IN
    \E a \in expr : Compare(c.operator, a, n, {EndOr(c, n)})

\* Mutant of SqlText: neq is <>, which is NULL when the column is.
SqlTextUnequal(c, expr) ==
    CASE c.operator = "eq"  -> \E a \in expr : c.value.text = {a}
      [] c.operator = "neq" -> \E a \in expr : c.value.text # {a}
      [] c.operator \in {"contains", "regex"} ->
            \E a \in expr, s \in c.value.text : <<a, s>> \in Matches["postgres"][c.operator]
      [] c.operator = "in" -> \E a \in expr : a \in UNION c.value.items
      [] c.operator = "not_in" -> \/ UNION c.value.items = {}
                                  \/ \E a \in expr : a \notin UNION c.value.items

SqlText(c, expr) ==
    CASE c.operator = "eq"  -> \E a \in expr : c.value.text = {a}
      [] c.operator = "neq" -> c.value.text # expr
      [] c.operator \in {"contains", "regex"} ->
            \E a \in expr, s \in c.value.text : <<a, s>> \in Matches["postgres"][c.operator]
      [] c.operator = "in" -> \E a \in expr : a \in UNION c.value.items
      [] c.operator = "not_in" -> \/ UNION c.value.items = {}
                                  \/ \E a \in expr : a \notin UNION c.value.items

build_condition(c) ==
    CASE c.target = "flag"  -> c.value.bool = Coalesce(viewer.flag, FALSE)
      [] c.target = "count" -> SqlInt(c, Coalesce(viewer.count, 0))
      [] c.target = "age"   -> SqlInt(c, {Floor(h) : h \in viewer.halfDays})
      [] c.target = "text"  -> SqlText(c, viewer.text)
      [] c.target = "list"  -> c.operator = "eq" /\ c.value.text \cap viewer.lists # {}

build_rule_where ==
    \/ rule.any
    \/ \E g \in rule.groups : g # {} /\ \A c \in g : build_condition(c)

\* sync_for_role_link: what it wants for the same member.
LinkGrants ==
    ~(~rule.any /\ (account = NoAccount \/ rule.groups = {})) /\ build_rule_where

-----------------------------------------------------------------------------
\* register: the default rule; the tables hold what they hold.
Init ==
    /\ rule = [any |-> FALSE, groups |-> {}] /\ account = NoAccount
    /\ saved = FALSE
    /\ viewer \in Viewer

\* role_config_save stores what parse_rule_tree returns, or refuses.
Save(body) ==
    /\ ~saved /\ saved' = TRUE
    /\ body.any \/ body.account # NoAccount
    /\ rule' \in parse_rule_tree(body) /\ account' = body.account
    /\ UNCHANGED viewer

\* verify_bsky, refresh_account or the passing of a day changes the facts.
Learn(facts) ==
    /\ facts # viewer /\ viewer' = facts
    /\ UNCHANGED <<rule, account, saved>>

\* broadcaster_disconnect of the account.
Disconnect ==
    /\ account # NoAccount /\ account' = NoAccount
    /\ UNCHANGED <<rule, saved, viewer>>

Next ==
    \/ \E body \in Body : Save(body)
    \/ \E facts \in Viewer : Learn(facts)
    \/ Disconnect

Spec == Init /\ [][Next]_vars

-----------------------------------------------------------------------------
(* Properties.                                                             *)

\* What a saved condition looks like: its value has the type its target and
\* operator read, so that no unwrap_or of rule_sql.rs and no "false" of
\* condition_eval.rs for a value of the wrong type is ever reached.
Typed(c) ==
    CASE c.target = "flag" -> c.operator = "eq" /\ c.value.bool # {}
      [] c.target \in {"count", "age"} ->
            /\ c.value.int # {}
            /\ c.operator = "between" => \E v \in c.value_end : v.int # {}
      [] c.target = "text" -> IF c.operator \in {"in", "not_in"} THEN c.value.items # {}
                                                                  ELSE c.value.text # {}
      [] c.target = "list" -> c.operator = "eq" /\ c.value.text # {}

TypeOK ==
    /\ rule \in Rule /\ account \in Account \cup {NoAccount} /\ saved \in BOOLEAN
    /\ viewer \in Facts
    /\ \A g \in rule.groups : \A c \in g : valid_for(c.operator, c.target) /\ Typed(c)

\* "Pushes the same DNF semantics as condition_eval::evaluate down into
\* Postgres" (services/rule_sql.rs:3-4).
SameVerdict == PlayerGrants <=> LinkGrants

\* Where a saved condition may be judged differently.
SameGround(c) ==
    /\ c.target = "age" => \A h \in viewer.halfDays : h >= 0
    /\ c.target = "list" => \A l \in c.value.text : Owner[l] = account
    /\ c.operator = "not_in" => UNION c.value.items # {}
    /\ c.operator \in {"contains", "regex"} =>
         \A a \in viewer.text, s \in c.value.text :
            <<a, s>> \in Matches["rust"][c.operator] <=> <<a, s>> \in Matches["postgres"][c.operator]

\* The two syncs want the same for a member, though columns are NULL and rows
\* are missing, but for four kinds of condition: an age from a time in the
\* future, a list of an account the link is not bound to, not_in without a
\* string to exclude, and a pattern on which the two engines differ.
SameVerdictOnSameGround ==
    (\A g \in rule.groups : \A c \in g : SameGround(c)) => SameVerdict
=============================================================================
