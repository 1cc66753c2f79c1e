----------------------------- MODULE MCLanguage -----------------------------
(***************************************************************************)
(* Small programs for Language: a family fixes the items of a module and   *)
(* what its main begins and ends with, and what stands between are all     *)
(* sequences of at most Length of the family's statements.                 *)
(***************************************************************************)
EXTENDS Language

CONSTANTS Families, Length

I(n) == <<"Int", n>>
S(s) == <<"Str", s>>
V(x) == <<"Ident", x>>
Yes == <<"Bool", TRUE>>
No == <<"Bool", FALSE>>
Bin(op, l, r) == <<"Bin", op, l, r>>
Call(f, args) == <<"Call", f, args>>
Say(e) == <<"Do", Call("print", <<e>>)>>
Decl(x, e) == <<"Decl", x, Infer, e, FALSE>>
Set(x, e) == <<"Assign", x, e>>
Return(e) == <<"Return", e>>
If(e, yes, no) == <<"If", e, yes, no>>
For(x, e, body) == <<"For", x, e, body, FALSE>>
Method(e, m, args) == <<"Method", e, m, args>>
Field(x, f) == <<"Field", V(x), f>>
IsVariant(v, patterns) == <<"PVariant", v, patterns>>
Arm(pattern, body) == [pattern |-> pattern, guard |-> NoExpr, body |-> body]

Param(x, type) == [name |-> x, type |-> type]
Fn(params, ret, body) == [params |-> params, ret |-> ret, body |-> body]
TInt == <<"Int">>
TStr == <<"Str">>
TResult == <<"Generic", "Result", <<TInt, TStr>>>>

Sequences(S0, n) == UNION {[1 .. k -> S0] : k \in 1 .. n}

Module(items, fns, classes, enums, body) ==
    [items |-> Append(items, "main"), fns |-> fns @@ ("main" :> Fn(<<>>, Infer, body)),
     classes |-> classes, enums |-> enums, interfaces |-> <<>>, consts |-> <<>>,
     others |-> <<>>, imports |-> <<>>, exports |-> <<>>]

(* Strings that are given away, in branches, loops and calls. *)
Take == Fn(<<Param("p", TStr)>>, TInt, <<Return(I(1))>>)
Give(x) == <<"Do", Call("take", <<V(x)>>)>>
MoveStatements ==
    {Give("s"), Say(V("s")), Decl("t", V("s")), Set("t", V("s")), Set("s", S("b")),
     If(Yes, <<Give("s")>>, <<>>), If(No, <<Decl("u", V("s"))>>, <<Set("s", S("c"))>>),
     For("i", <<"Range", I(0), I(1)>>, <<Give("s")>>), Set("n", Bin("+", V("n"), I(1))),
     <<"Do", Call("take", <<V("s"), V("s")>>)>>, Return(V("s"))}
Moves == {Module(<<"take">>, [take |-> Take], <<>>, <<>>,
                 <<Decl("s", S("a")), Decl("n", I(1))>> \o body \o <<Say(V("n"))>>) :
          body \in Sequences(MoveStatements, Length)}

(* Results, the operator ?, catching, matching and blocks. *)
Choose == Fn(<<Param("n", TInt)>>, TResult,
             <<If(Bin("<", V("n"), I(1)), <<Return(<<"Err", S("e")>>)>>, <<>>), Return(<<"Ok", V("n")>>)>>)
Through == Fn(<<Param("n", TInt)>>, TResult,
             <<Decl("x", <<"Try", Call("choose", <<V("n")>>)>>), Say(V("x")), Return(<<"Ok", V("x")>>)>>)
Colours == [Colour |-> {"red", "dark"}]
Red == <<"Variant", "Colour", "red", <<>>>>
Dark(e) == <<"Variant", "Colour", "dark", <<e>>>>
ResultStatements ==
    {Decl("r", Call("through", <<I(2)>>)), Say(Call("through", <<I(0)>>)),
     Set("n", <<"Try", Call("choose", <<I(2)>>)>>), Set("n", <<"Try", Call("choose", <<I(0)>>)>>),
     Set("c", Dark(I(2))), Set("c", Red),
     Set("n", <<"Match", V("c"), <<Arm(IsVariant("red", <<>>), I(5)),
                                   Arm(IsVariant("dark", <<<<"PIdent", "k">>>>), V("k"))>>>>),
     Set("n", <<"Match", V("n"), <<Arm(<<"PInt", 1>>, I(7)), Arm(<<"PIgnore">>, I(8))>>>>),
     Set("n", <<"Match", V("n"), <<Arm(<<"PInt", 1>>, I(2)), Arm(<<"PInt", 5>>, I(6)), Arm(<<"PIgnore">>, I(0))>>>>),
     Set("n", <<"Match", V("c"), <<[pattern |-> <<"PIdent", "k">>, guard |-> Bin(">", V("n"), I(1)), body |-> I(6)],
                                   Arm(<<"PIgnore">>, I(3))>>>>),
     <<"Do", <<"Catch", <<Say(V("n")), Set("n", <<"Try", Call("choose", <<I(0)>>)>>)>>, "x", <<Say(I(9))>>>>>>,
     Set("n", <<"Block", <<Say(V("n")), Decl("m", V("n")), Return(Bin("+", V("m"), I(1)))>>>>)}
Results == {Module(<<"Colour", "choose", "through">>, [choose |-> Choose, through |-> Through], <<>>, Colours,
                   <<Decl("c", Dark(I(4))), Decl("n", I(1))>> \o body \o <<Say(V("n"))>>) :
            body \in Sequences(ResultStatements, Length)}

(* Objects of a class and of a class that extends it. *)
Self(f) == Field("self", f)
SetSelf(f, e) == <<"Do", Bin("=", Self(f), e)>>
Get == Fn(<<>>, TInt, <<Return(Self("x"))>>)
Class(extends, methods, init) ==
    [extends |-> extends, implements |-> {}, ctor |-> <<Param("x", TInt)>>, fields |-> <<>>,
     methods |-> methods, init |-> init]
Base == Class(NoClass, [get |-> Get, put |-> Fn(<<Param("v", TInt)>>, Infer, <<SetSelf("x", V("v"))>>)],
              <<Say(I(1)), SetSelf("x", Bin("+", Self("x"), I(1)))>>)
Derived == Class("Base", [get |-> Fn(<<>>, TInt, <<Return(Bin("+", Self("x"), I(2)))>>)], <<>>)
Deeper == Class("Derived", <<>>, <<Say(I(2))>>)
ClassStatements ==
    {Set("o", Call("Base", <<I(2)>>)), Set("o", Call("Derived", <<I(2)>>)), Set("o", Call("Deeper", <<I(2)>>)),
     Decl("q", V("o")), Say(Method(V("o"), "get", <<>>)),
     <<"Do", Method(V("o"), "put", <<I(3)>>)>>, Say(Field("o", "x")),
     <<"Do", Bin("=", Field("o", "x"), I(4))>>, Decl("l", <<"List", <<I(1), Field("o", "x")>>>>),
     <<"Do", Method(V("l"), "push", <<I(2)>>)>>, Say(V("l")), Say(<<"Index", V("l"), I(1)>>)}
Objects == {Module(<<"Base", "Derived", "Deeper">>, <<>>, [Base |-> Base, Derived |-> Derived, Deeper |-> Deeper], <<>>,
                   <<Decl("o", Call("Base", <<I(0)>>))>> \o body \o <<Say(Field("o", "x"))>>) :
            body \in Sequences(ClassStatements, Length)}

(* The same without methods that change their object. *)
Shape == Class(NoClass, [area |-> Get, twice |-> Fn(<<Param("v", TInt)>>, TInt, <<Return(Bin("+", Self("x"), V("v")))>>)],
               <<Say(I(1))>>)
Square == Class("Shape", [area |-> Fn(<<>>, TInt, <<Return(Bin("*", Self("x"), I(2)))>>)], <<>>)
Pair == [Class(NoClass, [sum |-> Fn(<<>>, TInt, <<Return(Bin("+", Self("x"), Self("y")))>>)], <<>>)
            EXCEPT !.fields = <<Param("y", TInt)>>]
NewPair(e) == <<"New", "Pair", <<<<"x", e>>, <<"y", I(5)>>>>>>
ShapeStatements ==
    {Set("q", Call("Square", <<I(3)>>)), Decl("p", NewPair(I(3))), Set("o", V("q")), Say(Method(V("o"), "area", <<>>)),
     Say(Method(V("q"), "area", <<>>)), Say(Method(V("p"), "sum", <<>>)), Say(Method(V("q"), "twice", <<Field("o", "x")>>)),
     <<"Do", Method(V("l"), "push", <<I(2)>>)>>, Set("n", <<"Index", V("l"), I(1)>>), Set("m", V("l")), Say(V("m"))}
Shapes == {Module(<<"Shape", "Square", "Pair">>, <<>>, [Shape |-> Shape, Square |-> Square, Pair |-> Pair], <<>>,
                  <<Decl("o", Call("Shape", <<I(1)>>)), Decl("q", Call("Shape", <<I(1)>>)), Decl("n", I(7)),
                    Decl("l", <<"List", <<I(1), Field("o", "x")>>>>)>>
                      \o body \o <<Say(V("n")), Say(V("l"))>>) : body \in Sequences(ShapeStatements, Length)}

(* Operators, in what order and how often their operands are computed. *)
Show == Fn(<<Param("n", TInt)>>, TInt, <<Say(V("n")), Return(V("n"))>>)
Operands == {V("n"), I(2), Call("show", <<V("n")>>), Call("show", <<I(1)>>), <<"Inc", V("n")>>, Yes, S("a")}
Values == {Bin(op, l, r) : op \in {"+", "-", "/", "<", "==", "&&"}, l \in Operands, r \in Operands}
              \cup {<<"Un", op, e>> : op \in {"-", "!"}, e \in Operands}
              \cup {<<"IfE", Bin("<", V("n"), I(2)), l, r>> : l \in Operands, r \in Operands}
Operators == {Module(<<"show">>, [show |-> Show], <<>>, <<>>,
                     <<Decl("n", I(k)), Say(e), Say(V("n"))>>) :
              k \in {0, 1}, e \in Values}

(* Loops, scopes and closures. *)
Add == Fn(<<Param("n", TInt)>>, TInt, <<Set("n", Bin("+", V("n"), I(1))), Set("m", V("n")), Return(V("n"))>>)
LoopStatements ==
    {For("i", <<"Range", I(a), I(1 - a)>>, <<Say(V("i"))>>) : a \in {0, 1}}
        \cup {For("i", V("n"), <<Set("m", Bin("+", V("m"), I(1)))>>),
              <<"While", Bin("<", V("m"), I(2)), <<Set("m", Bin("+", V("m"), I(1))), Say(V("m"))>>>>,
              Decl("m", I(0)), Set("m", Call("add", <<V("n")>>)), Say(V("m")),
              If(Bin(">", V("m"), I(0)), <<Decl("k", V("m")), Set("n", V("k"))>>, <<Decl("k", I(3))>>),
              Decl("f", <<"Closure", <<Param("a", Infer)>>, Bin("+", V("a"), V("n"))>>),
              Set("n", Call("f", <<V("m")>>)), <<"Decl", "g", Infer, <<"Spawn", Call("add", <<I(1)>>)>>, TRUE>>,
              Set("n", <<"Await", V("g")>>), Return(NoExpr)}
Loops == {Module(<<"add">>, [add |-> Add], <<>>, <<>>, <<Decl("n", I(1))>> \o body \o <<Say(V("n"))>>) :
          body \in Sequences(LoopStatements, Length)}

(* Everything the parser knows, within everything else: for the parser only. *)
Ops == {"+", "-", "*", "%", "**", "<<", "&", "<", "==", "&&", "||", "="}
Dots == <<<<"PInt", 1>>, <<"PRest", "r">>>>
Around(e) ==
    {Bin(op, e, V("b")) : op \in Ops} \cup {Bin(op, V("b"), e) : op \in Ops}
        \cup {<<k, e>> : k \in {"Ok", "Err", "Spawn", "Await", "Try", "Const", "Inc", "Dec"}}
        \cup {<<k, <<e, I(2)>>>> : k \in {"List", "Set", "Tuple", "Vector"}}
        \cup {<<"Un", "-", e>>, <<"Un", "!", e>>, <<"Field", e, "f">>, <<"Safe", e, "f">>, Method(e, "m", <<e>>),
              Method(V("b"), "get", <<e>>), <<"Index", e, I(1)>>, <<"Index", V("b"), e>>, <<"Apply", <<"Index", V("b"), e>>, <<e>>>>,
              Call("f", <<e, e>>), <<"As", e, <<"Nullable", TInt>>>>, <<"Range", e, e>>, <<"Elvis", e, e>>,
              <<"IfE", e, e, e>>, <<"IfE", e, e, NoExpr>>, <<"Closure", <<Param("x", Infer)>>, e>>, <<"Closure", <<>>, e>>,
              <<"Map", <<<<S("k"), e>>, <<I(3), e>>>>>>, <<"Matrix", <<<<e>>, <<I(1)>>>>>>, Dark(e),
              <<"FnLit", <<Param("x", TStr)>>, TInt, e>>, <<"New", "P", <<<<"x", e>>>>>>,
              <<"Match", e, <<Arm(<<"PIdent", "k">>, e)>>>>,
              <<"Match", V("b"), <<[pattern |-> <<"PList", Dots>>, guard |-> e, body |-> e], Arm(<<"PIgnore">>, e)>>>>,
              <<"Block", <<Say(e), Return(e)>>>>, <<"Catch", <<Say(e)>>, "x", <<Return(e)>>>>}
Trees == UNION {Around(e) : e \in Around(V("a")) \cup {<<"Literal", "1i">>}}

(* One of each kind of statement, type and item. *)
Map(t) == <<"Map", TStr, t>>
Types == {<<"Rint">>, <<"Real">>, <<"Bool">>, <<"Symbol">>, <<"Nullable", <<"List", TInt>>>>, Map(Map(TInt)), <<"Set", <<"Set", TStr>>>>,
          <<"Generic", "Pair", <<TInt, <<"Generic", "Pair", <<TStr, TResult>>>>>>>>, <<"Union", <<TInt, <<"Nullable", TStr>>>>>>}
Statements ==
    {<<"Loop", <<Say(I(1))>>>>, <<"Destruct", <<"PList", <<<<"PIdent", "x">>, <<"PRest", "y">>>>>>, V("l")>>,
     <<"Destruct", <<"PFields", <<<<"x", <<"PIdent", "x">>>>, <<"y", <<"PIdent", "y">>>>>>>>, V("o")>>,
     <<"For", "x", V("l"), <<Say(V("x"))>>, TRUE>>, If(V("a"), <<>>, <<If(V("b"), <<>>, <<Return(NoExpr)>>)>>),
     <<"Do", <<"Block", <<Decl("x", V("a")), Say(V("x"))>>>>>>, <<"Decl", "x", Infer, <<"Const", V("a")>>, TRUE>>}
        \cup {<<"Decl", "x", t, <<"Null">>, FALSE>> : t \in Types}
Item(part, name, v) == [Module(<<name>>, <<>>, <<>>, <<>>, <<Return(NoExpr)>>) EXCEPT ![part] = (name :> v) @@ @, !.exports = <<name>>]
Fields == <<Param("x", TInt), Param("y", Map(TStr))>>
Thing == [Class("Base", [get |-> Get], <<Say(I(1))>>) EXCEPT !.implements = {"I"}, !.fields = Fields]
Items ==
    {Item("others", "P", <<k, Fields>>) : k \in {"struct", "union"}}
        \cup {Item("others", "P", <<"type", t>>) : t \in Types}
        \cup {Item("others", "P", <<"object", [Thing EXCEPT !.extends = NoClass, !.implements = {}, !.ctor = <<>>]>>),
              Item("classes", "P", Thing), Item("consts", "P", Bin("+", I(1), I(2))), Item("enums", "P", {"red", "dark"}),
              Item("interfaces", "P", [get |-> [params |-> <<TInt>>, ret |-> TStr], put |-> [params |-> <<>>, ret |-> Infer]])}

(* The import keeps them from being run. *)
Main(body) ==
    [Module(<<>>, <<>>, <<>>, <<>>, body) EXCEPT
        !.imports = <<[names |-> <<<<"a", "b", FALSE>>, <<"c", "c", FALSE>>>>, source |-> "m"]>>]
Sources == {Main(<<Decl("x", e), Return(e)>>) : e \in Trees} \cup {Main(<<s, s>>) : s \in Statements} \cup Items

MCPool ==
    [f \in Families |->
        CASE f = "moves" -> Moves [] f = "results" -> Results [] f = "objects" -> Objects [] f = "shapes" -> Shapes
          [] f = "operators" -> Operators [] f = "loops" -> Loops
          [] f = "sources" -> Sources]
=============================================================================
