----------------------------- MODULE MCRuleEval -----------------------------
(***************************************************************************)
(* A small instance of RuleEval: two strings s and t (t also matches the   *)
(* pattern s), a list of each of two accounts, numbers around zero.        *)
(***************************************************************************)
EXTENDS RuleEval

CONSTANTS blank, s, t, listX, listY, x, y

MCText  == {blank, s, t, listX, listY}
MCList  == {listX, listY}
MCOwner == [l \in MCList |-> IF l = listX THEN x ELSE y]

\* The engines agree on s and differ on t.
MCMatches == [engine \in {"rust", "postgres"} |-> [op \in {"contains", "regex"} |->
    {<<s, s>>, <<t, s>>} \cup (IF engine = "rust" THEN {<<t, t>>} ELSE {<<s, t>>})]]

Nothing == [is |-> "null", bool |-> {}, int |-> {}, text |-> blank, items |-> {}, odd |-> FALSE]
Bool(b) == [Nothing EXCEPT !.is = "bool", !.bool = {b}, !.text = s, !.odd = TRUE]
Num(n)  == [Nothing EXCEPT !.is = "num", !.int = {n}, !.text = t, !.odd = TRUE]
Str(w)  == [Nothing EXCEPT !.is = "str", !.text = w, !.items = {w} \ Blank]
Arr(I, odd) == [Nothing EXCEPT !.is = "arr", !.items = I, !.odd = odd]

Raws == {Nothing, Bool(TRUE), Bool(FALSE), [Str(s) EXCEPT !.bool = {FALSE}],
         Num(-1), Num(0), Num(1), [Str(t) EXCEPT !.int = {1}],
         Str(blank), Str(s), Str(t), Str(listX), Str(listY),
         Arr({}, FALSE), Arr({}, TRUE), Arr({s}, TRUE), Arr({s, t}, FALSE)}

Conditions == [target : Target, operator : Operator, value : Raws,
               value_end : {{}, {Num(0)}, {Num(1)}, {Nothing}}]
Singles == {c \in Conditions : c.value_end = {} \/ c.operator = "between"}
OneEach == {[target |-> target, operator |-> IF target = "age" THEN "gte" ELSE "eq",
             value |-> v, value_end |-> {}] :
              target \in Target, v \in {Bool(TRUE), Num(0), Str(s), Str(listX)}}

MCBody == [any : BOOLEAN, account : {x, NoAccount},
           groups : {{}, {{}}} \cup {{{c}} : c \in Singles}
                    \cup {{{c, d}} : c, d \in OneEach} \cup {{{c}, {d}} : c, d \in OneEach}]

MCViewer == [flag : {{}, {TRUE}}, count : {{}, {1}}, halfDays : {{}, {-1}, {0}, {3}},
             text : {{}, {s}, {t}}, lists : {{}, {listX}, {listY}}]
=============================================================================
