------------------------------- MODULE Parser -------------------------------
(***************************************************************************)
(* The recursive descent and precedence climbing of                        *)
(* src/syntax/parser.rs, from the tokens of a module to its tree.  A token *)
(* is <<kind, text>>: keywords, operators and brackets are kinds of their  *)
(* own (& is also the keyword ref), and "id", "num", "text" (strings),     *)
(* "real", ".num" (a real that begins with the dot), "literal" (the other  *)
(* literals), "fstr" and "decorator" have a text; "eof" ends the list.  The *)
(* text of an f-string is cut into its parts, <<"text", s>> and            *)
(* <<"code", tokens>>.                                                     *)
(*                                                                         *)
(* A cursor is [toks, noStruct]: the tokens ahead, so that going back is   *)
(* to use an earlier cursor.  Every rule gives [ok, p, v]: whether the     *)
(* source was taken, the cursor behind what was read, and the tree.        *)
(***************************************************************************)
EXTENDS Syntax, FiniteSetsExt

Kind(p) == p.toks[1][1]
Text(p) == p.toks[1][2]
Ahead(p) == IF Len(p.toks) > 1 THEN p.toks[2][1] ELSE "nothing"
Advance(p) == [p EXCEPT !.toks = Tail(@)]
Skip(p, kinds) == IF Kind(p) \in kinds THEN Advance(p) ELSE p
Cursor(toks) == [toks |-> toks, noStruct |-> FALSE]

Done(p, v) == [ok |-> TRUE, p |-> p, v |-> v]
Refuse(p) == [ok |-> FALSE, p |-> p, v |-> <<>>]
Then(r, F(_, _)) == IF r.ok THEN F(r.p, r.v) ELSE r
Giving(r, F(_)) == IF r.ok THEN Done(r.p, F(r.v)) ELSE r
Wrap(kind, r) == Giving(r, LAMBDA v : <<kind, v>>)

Eat(p, kind) == IF Kind(p) = kind THEN Done(Advance(p), <<>>) ELSE Refuse(p)

(* The closing bracket of generic arguments is also found in a shift. *)
EatGt(p) ==
    CASE Kind(p) = ">" -> Done(Advance(p), <<>>)
      [] Kind(p) = ">>" -> Done([p EXCEPT !.toks = <<<<">", "">>>> \o Tail(@)], <<>>)
      [] OTHER -> Refuse(p)

(* Keywords that are names where a name is expected, in an expression, and  *)
(* after a dot.                                                            *)
ExprWords == {"int", "rint", "real", "complex", "bool", "str", "symbol", "vector", "matrix", "map", "infiny", "open",
              "abstract", "data", "init", "super", "override", "final"}
IdentWords == ExprWords \cup {"enum", "object", "mut", "&", "fn", "if", "None", "true", "false", "null"}
FieldWords ==
    (IdentWords \ {"enum", "object"})
        \cup {"match", "else", "for", "in", "while", "loop", "return", "struct", "class", "interface", "union", "type",
              "use", "export", "as", "from", "async", "await", "spawn", "try", "catch", "Ok", "Error", "const"}

Ident(p) ==
    CASE Kind(p) = "id" -> Done(Advance(p), Text(p))
      [] Kind(p) \in IdentWords ->
            Done(Advance(p), CASE Kind(p) = "&" -> "ref" [] Kind(p) = "true" -> "True" [] Kind(p) = "false" -> "False"
                               [] Kind(p) = "null" -> "Null" [] OTHER -> Kind(p))
      [] OTHER -> Refuse(p)

FieldIdent(p) ==
    CASE Kind(p) \in {"id", "num"} -> Done(Advance(p), Text(p))
      [] Kind(p) \in FieldWords ->
            Done(Advance(p), CASE Kind(p) = "&" -> "ref" [] Kind(p) \in {"None", "null"} -> "none" [] OTHER -> Kind(p))
      [] OTHER -> Refuse(p)

(* The rules that other rules come back to, by what they read: operators    *)
(* only if they bind as tightly as min.                                    *)
RECURSIVE Rule(_, _, _)
Expr(p, min) == Rule("expr", p, min)
Type(p) == Rule("type", p, 0)
Pattern(p) == Rule("pattern", p, 0)

(***************************************************************************)
(* What lists are made of                                                  *)
(***************************************************************************)
Param(x, type) == [name |-> x, type |-> type]
Typed(p) == IF Kind(p) = ":" THEN Type(Advance(p)) ELSE Done(p, Infer)
NamedParam(p) ==
    Then(Ident(p), LAMBDA q, x : Then(Eat(q, ":"), LAMBDA r, u : Giving(Type(r), LAMBDA t : Param(x, t))))

(* self is no parameter of the trees here; & self is one too. *)
MethodParam(p) ==
    CASE p.toks[1] = <<"id", "self">> -> Done(Advance(p), <<>>)
      [] Kind(p) = "&" /\ p.toks[2] = <<"id", "self">> -> Done(Advance(Advance(p)), <<>>)
      [] OTHER -> Giving(NamedParam(p), LAMBDA v : <<v>>)

(* A key of a map is a computed one, a name or an expression. *)
Pair(p) ==
    IF Kind(p) = "["
    THEN Then(Expr(Advance(p), 0), LAMBDA q, k : Then(Eat(q, "]"), LAMBDA r, u : Then(Eat(r, ":"), LAMBDA s, w :
              Giving(Expr(s, 0), LAMBDA v : <<k, v>>))))
    ELSE IF Kind(p) = "id" /\ Ahead(p) \in {",", "}"}
    THEN Done(Advance(p), <<<<"Str", Text(p)>>, <<"Ident", Text(p)>>>>)
    ELSE Then(Expr(p, 0), LAMBDA q, k : Then(Eat(q, ":"), LAMBDA r, u :
              Giving(Expr(r, 0), LAMBDA v : <<IF k[1] = "Ident" THEN <<"Str", k[2]>> ELSE k, v>>)))

FieldValue(p) ==
    Then(Ident(p), LAMBDA q, x : Then(Eat(q, ":"), LAMBDA r, u : Giving(Expr(r, 0), LAMBDA v : <<x, v>>)))
FieldPattern(p) ==
    Then(FieldIdent(p), LAMBDA q, x :
        IF Kind(q) = ":" THEN Giving(Pattern(Advance(q)), LAMBDA v : <<x, v>>) ELSE Done(q, <<x, <<"PIdent", x>>>>))

(* An element of a list pattern in a match; the rest is its last one. *)
ListItem(p) ==
    IF Kind(p) # "..." THEN Pattern(p)
    ELSE LET q == Advance(p)
             rest == IF Kind(q) = "id" THEN Done(Advance(q), <<"PRest", Text(q)>>) ELSE Done(q, <<"PRest", "_">>)
         IN  IF Kind(rest.p) = "]" THEN rest ELSE Refuse(rest.p)

(* An element of a list on the left of an assignment. *)
Slot(p) ==
    CASE Kind(p) = "..." -> Then(Ident(Advance(p)), LAMBDA q, x : Giving(Typed(q), LAMBDA t : <<"PRest", x>>))
      [] Kind(p) = "," -> Done(p, <<"PIgnore">>)
      [] Kind(p) = "id" -> Giving(Typed(Advance(p)), LAMBDA t : <<"PIdent", Text(p)>>)
      [] OTHER -> Refuse(p)

Arm(p) ==
    Then(Pattern(p), LAMBDA q, pattern :
        Then(IF Kind(q) = "if" THEN Expr(Advance(q), 0) ELSE Done(q, NoExpr), LAMBDA r, guard :
            Then(Eat(r, "=>"), LAMBDA s, u :
                Giving(Expr(s, 0), LAMBDA body : [pattern |-> pattern, guard |-> guard, body |-> body]))))

(* A strict list needs a separator between elements, in others it may be   *)
(* left out.                                                               *)
RECURSIVE Many(_, _, _, _, _), AtLeastOne(_, _)
Many(what, p, close, seps, strict) ==
    IF Kind(p) = close THEN Done(Advance(p), <<>>)
    ELSE Then(Rule(what, p, 0), LAMBDA q, v :
            IF strict /\ Kind(q) \notin seps THEN Giving(Eat(q, close), LAMBDA u : <<v>>)
            ELSE Giving(Many(what, Skip(q, seps), close, seps, strict), LAMBDA vs : <<v>> \o vs))

AtLeastOne(what, p) ==
    Then(Rule(what, p, 0), LAMBDA q, v :
        IF Kind(q) = "," THEN Giving(AtLeastOne(what, Advance(q)), LAMBDA vs : <<v>> \o vs) ELSE Done(q, <<v>>))

(* A variant of an enum, of which the name is kept. *)
VariantName(p) ==
    Then(Ident(p), LAMBDA q, x :
        IF Kind(q) = "(" THEN Giving(Many("param", Advance(q), ")", {",", ";"}, TRUE), LAMBDA v : x) ELSE Done(q, x))

Args(p) == Many("expr", p, ")", {","}, TRUE)
Block(p) == Then(Eat(p, "{"), LAMBDA q, u : Many("stmt", q, "}", {}, FALSE))
InParens(p) == Then(Eat(p, "("), LAMBDA q, u : Then(Expr(q, 0), LAMBDA r, e : Giving(Eat(r, ")"), LAMBDA w : e)))
InBraces(p) == Then(Eat(p, "{"), LAMBDA q, u : Then(Expr(q, 0), LAMBDA r, e : Giving(Eat(r, "}"), LAMBDA w : e)))

(***************************************************************************)
(* Types.  Widths are left out.                                            *)
(***************************************************************************)
TwoTypes(p, close, F(_, _)) ==
    Then(Type(p), LAMBDA q, a : Then(Eat(q, ","), LAMBDA r, u : Then(Type(r), LAMBDA s, b :
        Giving(Eat(s, close), LAMBDA w : F(a, b)))))
OneType(p, close, F(_)) == Then(Type(p), LAMBDA q, a : Giving(Eat(q, close), LAMBDA u : F(a)))

BaseType(p) ==
    LET k == Kind(p)
        q == Advance(p)
        listed == Kind(q) = "["
    IN  CASE k \in {"int", "rint", "real"} ->
                Done(IF Text(p) = "" THEN Skip(q, {"num"}) ELSE q,
                     CASE k = "int" -> <<"Int">> [] k = "rint" -> <<"Rint">> [] k = "real" -> <<"Real">>)
          [] k = "complex" -> IF listed THEN TwoTypes(Advance(q), "]", LAMBDA a, b : <<"Complex", a, b>>)
                              ELSE Done(q, <<"Complex", <<"Real">>, <<"Real">>>>)
          [] k = "map" -> IF listed THEN TwoTypes(Advance(q), "]", LAMBDA a, b : <<"Map", a, b>>)
                          ELSE Done(q, <<"Map", <<"Str">>, Infer>>)
          [] k \in {"bool", "str", "symbol"} ->
                Done(q, CASE k = "bool" -> <<"Bool">> [] k = "str" -> <<"Str">> [] k = "symbol" -> <<"Symbol">>)
          [] k \in {"vector", "matrix"} -> Done(q, IF k = "vector" THEN <<"Vector", Infer>> ELSE <<"Matrix", Infer>>)
          [] k = "{" -> TwoTypes(q, "}", LAMBDA a, b : <<"Map", a, b>>)
          [] k = "[" -> OneType(q, "]", LAMBDA a : <<"List", a>>)
          [] k = "id" /\ Text(p) = "auto" -> Done(q, Infer)
          [] k = "id" /\ Text(p) = "set" /\ listed -> OneType(Advance(q), "]", LAMBDA a : <<"Set", a>>)
          [] k = "id" /\ Text(p) = "list" /\ listed -> OneType(Advance(q), "]", LAMBDA a : <<"List", a>>)
          [] k = "id" /\ ~(Text(p) \in {"set", "list"} /\ listed) /\ Text(p) # "auto" -> Done(q, <<"Named", Text(p)>>)
          [] k = "const" -> IF Kind(q) # "<" THEN Done(q, <<"Const", Infer>>)
                            ELSE Then(Type(Advance(q)), LAMBDA r, t : Giving(EatGt(r), LAMBDA u : <<"Const", t>>))
          [] OTHER -> Refuse(p)

RECURSIVE Listed(_, _)
Listed(p, t) == IF Kind(p) = "[" /\ Ahead(p) = "]" THEN Listed(Advance(Advance(p)), <<"List", t>>) ELSE Done(p, t)

(* Built-in containers are written as generic types, too. *)
Generic(n, args) ==
    CASE n \in {"List", "list"} /\ Len(args) = 1 -> <<"List", args[1]>>
      [] n \in {"Set", "set"} /\ Len(args) = 1 -> <<"Set", args[1]>>
      [] n = "Vector" /\ Len(args) = 1 -> <<"Vector", args[1]>>
      [] n = "Matrix" /\ Len(args) = 1 -> <<"Matrix", args[1]>>
      [] n \in {"Map", "map"} /\ Len(args) = 2 -> <<"Map", args[1], args[2]>>
      [] OTHER -> <<"Generic", n, args>>
GenericType(p, t) ==
    IF Kind(p) # "<" THEN Done(p, t)
    ELSE Then(AtLeastOne("type", Advance(p)), LAMBDA q, args : Then(EatGt(q), LAMBDA r, u :
            IF t[1] = "Named" THEN Done(r, Generic(t[2], args)) ELSE Refuse(r)))

(* What follows the bar is read as a type of its own, with its bars. *)
WholeType(p) ==
    Then(BaseType(p), LAMBDA q, b : Then(Listed(q, b), LAMBDA r, l : Then(GenericType(r, l), LAMBDA s, g :
        LET t == IF Kind(s) = "?" THEN Done(Advance(s), <<"Nullable", g>>) ELSE Done(s, g)
        IN  IF Kind(t.p) = "|" THEN Giving(Type(Advance(t.p)), LAMBDA u : <<"Union", <<t.v, u>>>>) ELSE t)))

(***************************************************************************)
(* Expressions                                                             *)
(***************************************************************************)
(* 0 for what is no operator. *)
OpPrec(op) ==
    CASE op = "=" -> 1 [] op = "||" -> 2 [] op = "&&" -> 3 [] op = "|" -> 4 [] op = "^" -> 5 [] op = "&" -> 6
      [] op \in {"==", "!="} -> 7 [] op \in {"<", ">", "<=", ">="} -> 8 [] op \in {"<<", ">>"} -> 9
      [] op \in {"+", "-"} -> 10 [] op \in {"*", "/", "%"} -> 11 [] op = "**" -> 12 [] OTHER -> 0
Unary == 13

(* a += b stands for a = a + b. *)
Compound(k) ==
    CASE k = "+=" -> "+" [] k = "-=" -> "-" [] k = "*=" -> "*" [] k = "/=" -> "/" [] k = "%=" -> "%" [] k = "**=" -> "**"
      [] k = "|=" -> "|" [] k = "&=" -> "&" [] k = "^=" -> "^" [] k = "<<=" -> "<<" [] k = ">>=" -> ">>" [] OTHER -> ""

(* Mutant: every operator takes what follows to its right first. *)
RightPrecSame(op) == OpPrec(op)

(* Operators of one level group from the left, powers from the right. *)
RightPrec(op) == IF op = "**" THEN OpPrec(op) ELSE OpPrec(op) + 1

Applied(e, args) ==
    CASE e[1] = "Ident" -> <<"Call", e[2], args>>
      [] e[1] = "Field" -> <<"Method", e[2], e[3], args>>
      [] OTHER -> <<"Apply", e, args>>

RECURSIVE Postfix(_, _)
Postfix(p, l) ==
    LET q == Advance(p)
    IN  CASE Kind(p) = "[" -> Then(Expr(q, 0), LAMBDA r, i : Then(Eat(r, "]"), LAMBDA s, u : Postfix(s, <<"Index", l, i>>)))
          [] Kind(p) = "." -> Then(FieldIdent(q), LAMBDA r, f : Postfix(r, <<"Field", l, f>>))
          [] Kind(p) = "?." -> Then(FieldIdent(q), LAMBDA r, f : Postfix(r, <<"Safe", l, f>>))
          [] Kind(p) = ".num" -> Postfix(q, <<"Field", l, Text(p)>>)
          [] Kind(p) = "(" -> Then(Args(q), LAMBDA r, args : Postfix(r, Applied(l, args)))
          [] Kind(p) = "++" -> Postfix(q, <<"Inc", l>>)
          [] Kind(p) = "--" -> Postfix(q, <<"Dec", l>>)
          [] Kind(p) = "?" -> Postfix(q, <<"Try", l>>)
          [] OTHER -> Done(p, l)

(* A compound assignment and a conversion are taken whatever stands left. *)
RECURSIVE Infix(_, _, _, _)
Infix(p, l, min, as) ==
    LET k == Kind(p)
        q == Advance(p)
    IN  CASE as /\ k = "as" /\ Kind(q) = "const" -> Infix(Advance(q), <<"Const", l>>, min, as)
          [] as /\ k = "as" /\ Kind(q) # "const" -> Then(Type(q), LAMBDA r, t : Infix(r, <<"As", l, t>>, min, as))
          [] Compound(k) # "" ->
                Then(Expr(q, 1), LAMBDA r, e : Infix(r, <<"Bin", "=", l, <<"Bin", Compound(k), l, e>>>>, min, as))
          [] OpPrec(k) # 0 /\ OpPrec(k) >= min ->
                Then(Expr(q, RightPrec(k)), LAMBDA r, e : Infix(r, <<"Bin", k, l, e>>, min, as))
          [] OTHER -> Done(p, l)

Calls == {"Call", "Method", "Apply"}
WithArg(call, e) == [call EXCEPT ![Len(call)] = Append(@, e)]

Ternary(p, c) ==
    IF Kind(p) # "?" THEN Done(p, c)
    ELSE Then(Expr(Advance(p), 0), LAMBDA q, t : Then(Eat(q, ":"), LAMBDA r, u :
            Giving(Expr(r, 0), LAMBDA e : <<"IfE", c, t, e>>)))
Elvis(p, l, min) ==
    IF Kind(p) # "?:" THEN Done(p, l) ELSE Giving(Expr(Advance(p), min), LAMBDA r : <<"Elvis", l, r>>)
TrailingClosure(p, l) ==
    IF Kind(p) # ":" \/ l[1] \notin Calls THEN Done(p, l)
    ELSE Then(Eat(Advance(p), "("), LAMBDA q, u : Then(Many("closure param", q, ")", {","}, TRUE), LAMBDA r, params :
            Giving(InBraces(r), LAMBDA body : WithArg(l, <<"Closure", params, body>>))))
ServerMethods == {"get", "post", "put", "delete", "patch", "ws", "serve"}
TrailingBlock(p, l) ==
    IF Kind(p) # "{" \/ l[1] # "Method" THEN Done(p, l)
    ELSE IF l[2][1] # "Ident" \/ l[3] \notin ServerMethods THEN Done(p, l)
    ELSE Giving(InBraces(p), LAMBDA body : WithArg(l, <<"Closure", <<>>, body>>))

(* A name, and what may be written with one. *)
Named(p, name) ==
    LET q == Advance(p)
        at == Kind(q)
    IN  CASE Kind(p) = "id" /\ at = "::" ->
                Then(Ident(Advance(q)), LAMBDA r, v :
                    IF Kind(r) = "(" THEN Giving(Args(Advance(r)), LAMBDA args : <<"Variant", name, v, args>>)
                    ELSE Done(r, <<"Variant", name, v, <<>>>>))
          [] at = "{" /\ name = "set" -> Wrap("Set", Many("expr", Advance(q), "}", {","}, TRUE))
          [] at = "{" /\ name = "tuple" -> Wrap("Tuple", Many("expr", Advance(q), "}", {","}, TRUE))
          [] at = "{" /\ name \in {"map", "Map"} -> Wrap("Map", Many("pair", Advance(q), "}", {","}, TRUE))
          [] at = "(" -> Giving(Args(Advance(q)), LAMBDA args : <<"Call", name, args>>)
          [] at = "{" /\ name \notin {"set", "tuple", "map", "Map"} /\ ~p.noStruct ->
                Giving(Many("field", Advance(q), "}", {","}, TRUE), LAMBDA fs : <<"New", name, fs>>)
          [] OTHER -> Done(q, <<"Ident", name>>)

ClosureOf(p, params) ==
    Giving(IF Kind(p) = "{" THEN Wrap("Block", Block(p)) ELSE Expr(p, 0), LAMBDA body : <<"Closure", params, body>>)
ParamOf(e) == Param(IF e[1] = "Ident" THEN e[2] ELSE "", Infer)

(* p is behind the bracket. *)
Paren(p) ==
    IF Kind(p) = ")"
    THEN IF Ahead(p) = "=>" THEN ClosureOf(Advance(Advance(p)), <<>>) ELSE Done(Advance(p), <<"Tuple", <<>>>>)
    ELSE Then(Expr(p, 0), LAMBDA q, e :
            CASE Kind(q) = ":" -> Giving(Many("expr", Advance(q), ")", {":"}, TRUE), LAMBDA es : <<"Vector", <<e>> \o es>>)
              [] Kind(q) = "," ->
                    Then(Args(Advance(q)), LAMBDA r, es :
                        LET items == <<e>> \o es
                        IN  CASE Kind(r) = "=>" -> ClosureOf(Advance(r), [i \in DOMAIN items |-> ParamOf(items[i])])
                              [] Kind(r) # "=>" /\ \A i \in DOMAIN items : items[i][1] = "List" ->
                                    Done(r, <<"Matrix", [i \in DOMAIN items |-> items[i][2]]>>)
                              [] OTHER -> Done(r, <<"Tuple", items>>))
              [] OTHER ->
                    Then(Eat(q, ")"), LAMBDA r, u :
                        IF Kind(r) = "=>" THEN ClosureOf(Advance(r), <<ParamOf(e)>>) ELSE Done(r, e)))

(* A brace opens a map if what follows looks like a key, a set if a comma   *)
(* stands outside of brackets (the first token is not looked at), and       *)
(* otherwise a block.                                                       *)
LooksLikeMap(p) ==
    CASE Kind(p) = "}" -> TRUE
      [] Kind(p) = "id" -> Ahead(p) \in {":", ",", "}"}
      [] Kind(p) \in {"text", "num", "real", ".num"} -> Ahead(p) = ":"
      [] Kind(p) = "[" ->
            LET close == SelectInSubSeq(p.toks, 2, Min({20, Len(p.toks)}), LAMBDA t : t[1] = "]")
            IN  close # 0 /\ p.toks[close + 1][1] = ":"
      [] OTHER -> FALSE

RECURSIVE CommaOutside(_, _)
CommaOutside(toks, depth) ==
    toks # <<>> /\
    LET k == toks[1][1]
    IN  CASE depth = 0 /\ k \in {"}", ","} -> k = ","
          [] k \in {"(", "[", "{"} -> CommaOutside(Tail(toks), depth + 1)
          [] k \in {")", "]", "}"} /\ ~(depth = 0 /\ k = "}") -> CommaOutside(Tail(toks), depth - 1)
          [] OTHER -> CommaOutside(Tail(toks), depth)

Brace(p) ==
    LET q == Advance(p)
    IN  CASE LooksLikeMap(q) -> Wrap("Map", Many("pair", q, "}", {","}, TRUE))
          [] ~LooksLikeMap(q) /\ CommaOutside(SubSeq(q.toks, 2, Min({101, Len(q.toks)})), 0) ->
                Wrap("Set", Many("expr", q, "}", {","}, TRUE))
          [] OTHER -> Wrap("Block", Block(p))

Ret(p) == IF Kind(p) = "->" THEN Type(Advance(p)) ELSE Done(p, Infer)

FnLit(p) ==
    Then(Eat(p, "("), LAMBDA q, u : Then(Many("literal param", q, ")", {","}, TRUE), LAMBDA r, params :
        Then(Ret(r), LAMBDA s, ret : Giving(InBraces(s), LAMBDA body : <<"FnLit", params, ret, body>>))))

IfExpr(p) ==
    Then(InParens(p), LAMBDA q, c : Then(Expr(q, 0), LAMBDA r, t :
        IF Kind(r) = "else" THEN Giving(Expr(Advance(r), 0), LAMBDA e : <<"IfE", c, t, e>>)
        ELSE Done(r, <<"IfE", c, t, NoExpr>>)))

(* A brace behind a name in the scrutinee opens the arms. *)
Match(p) ==
    Then(Expr([p EXCEPT !.noStruct = TRUE], 0), LAMBDA q, e : Then(Eat([q EXCEPT !.noStruct = p.noStruct], "{"), LAMBDA r, u :
        Giving(Many("arm", r, "}", {","}, FALSE), LAMBDA arms : <<"Match", e, arms>>)))

TryCatch(p) ==
    Then(Block(p), LAMBDA q, body : Then(Eat(q, "catch"), LAMBDA r, u : Then(Eat(r, "("), LAMBDA s, w :
        Then(Ident(s), LAMBDA t, x : Then(Eat(t, ")"), LAMBDA y, z :
            Giving(Block(y), LAMBDA handler : <<"Catch", body, x, handler>>))))))

(* Each part is a string; what stands behind an expression is left unread. *)
FPart(part) ==
    IF part[1] = "text" THEN Done(Cursor(<<>>), <<"Str", part[2]>>)
    ELSE Giving(Expr(Cursor(part[2]), 0), LAMBDA e : <<"Call", "str", <<e>>>>)
FString(p, parts) ==
    LET read == [i \in DOMAIN parts |-> FPart(parts[i])]
    IN  IF \E i \in DOMAIN read : ~read[i].ok THEN Refuse(p)
        ELSE IF parts = <<>> THEN Done(p, <<"Str", "">>)
        ELSE Done(p, FoldLeft(LAMBDA l, r : <<"Bin", "+", l, r.v>>, read[1].v, Tail(read)))

Prefix(p) ==
    LET k == Kind(p)
        q == Advance(p)
    IN  CASE k = "num" -> Done(q, <<"Int", Text(p)>>)
          [] k = "text" -> Done(q, <<"Str", Text(p)>>)
          [] k \in {"true", "false"} -> Done(q, <<"Bool", k = "true">>)
          [] k = "null" -> Done(q, <<"Null">>)
          [] k \in {"real", ".num", "literal", "None"} -> Done(q, <<"Literal", Text(p)>>)
          [] k = "id" -> Named(p, Text(p))
          [] k \in ExprWords -> Named(p, k)
          [] k \in {"-", "!", "~"} -> Giving(Rule("operand", q, Unary), LAMBDA e : <<"Un", k, e>>)
          [] k = "(" -> Paren(q)
          [] k = "{" -> Brace(p)
          [] k = "fn" -> FnLit(q)
          [] k = "[" -> Wrap("List", Many("expr", q, "]", {","}, TRUE))
          [] k = "Ok" -> Wrap("Ok", Expr(q, 0))
          [] k = "Error" -> Wrap("Err", Expr(q, 0))
          [] k = "spawn" -> Wrap("Spawn", Expr(q, 0))
          [] k = "await" -> Wrap("Await", Expr(q, 0))
          [] k = "if" -> IfExpr(q)
          [] k = "match" -> Match(q)
          [] k = "try" -> TryCatch(q)
          [] k = "fstr" -> FString(q, Text(p))
          [] OTHER -> Refuse(p)

Inner(p, min, as) ==
    Then(Prefix(p), LAMBDA q, e : Then(Postfix(q, e), LAMBDA r, f : Then(Infix(r, f, min, as), LAMBDA s, g :
        Then(Ternary(s, g), LAMBDA t, h : Then(Elvis(t, h, min), LAMBDA u, i : Then(TrailingClosure(u, i), LAMBDA v, j :
            TrailingBlock(v, j)))))))

Ranged(p, min) ==
    Then(Inner(p, min, TRUE), LAMBDA q, l :
        IF Kind(q) = ".." THEN Giving(Expr(Advance(q), min), LAMBDA r : <<"Range", l, r>>) ELSE Done(q, l))

(***************************************************************************)
(* Patterns                                                                *)
(***************************************************************************)
AnyPattern(p) ==
    LET k == Kind(p)
        q == Advance(p)
        name == Text(p)
        fields == Many("field pattern", Advance(q), "}", {","}, TRUE)
    IN  CASE k = "id" /\ name = "_" -> Done(q, <<"PIgnore">>)
          [] k = "id" /\ name # "_" ->
                CASE Kind(q) = "(" ->
                        Giving(Many("pattern", Advance(q), ")", {","}, TRUE), LAMBDA ps : <<"PVariant", name, ps>>)
                  [] Kind(q) = "..." -> Done(Advance(q), <<"PRest", name>>)
                  [] Kind(q) = "{" -> Wrap("PFields", fields)
                  [] OTHER -> Done(q, <<"PIdent", name>>)
          [] k = "num" -> Done(q, <<"PInt", name>>)
          [] k \in {"real", ".num", "text"} -> Done(q, <<"PLiteral", name>>)
          [] k \in {"true", "false"} -> Done(q, <<"PBool", k = "true">>)
          [] k = "[" -> Wrap("PList", Many("list item", q, "]", {","}, FALSE))
          [] k = "{" -> Wrap("PFields", Many("field pattern", q, "}", {","}, TRUE))
          [] OTHER -> Refuse(p)

(***************************************************************************)
(* Statements                                                              *)
(***************************************************************************)
Line(p) == Then(Expr(p, 0), LAMBDA q, e : Done(Skip(q, {";"}), e))

RECURSIVE IfStmt(_)
IfStmt(p) ==
    Then(InParens(Advance(p)), LAMBDA q, c : Then(Block(q), LAMBDA r, yes :
        CASE Kind(r) = "else" /\ Ahead(r) = "if" -> Giving(IfStmt(Advance(r)), LAMBDA s : <<"If", c, yes, <<s>>>>)
          [] Kind(r) = "else" /\ Ahead(r) # "if" -> Giving(Block(Advance(r)), LAMBDA no : <<"If", c, yes, no>>)
          [] OTHER -> Done(r, <<"If", c, yes, <<>>>>)))

(* A loop of three parts is a while loop; the first part is forgotten. *)
CountedLoop(p) ==
    Then(Expr(p, 0), LAMBDA q, c : Then(Eat(q, ";"), LAMBDA r, u : Then(Expr(r, 0), LAMBDA s, inc :
        Then(Eat(s, ")"), LAMBDA t, w : Giving(Block(t), LAMBDA body : <<"While", c, Append(body, <<"Do", inc>>)>>)))))
ForStmt(p) ==
    Then(Eat(Advance(p), "("), LAMBDA q, u :
        CASE Kind(q) = ";" -> CountedLoop(Advance(q))
          [] Kind(q) = "id" /\ Ahead(q) \in {"in", ":"} ->
                Then(Expr(Advance(Advance(q)), 0), LAMBDA r, e : Then(Eat(r, ")"), LAMBDA s, w :
                    Giving(Block(s), LAMBDA body : <<"For", Text(q), e, body, Ahead(q) = ":">>)))
          [] OTHER -> Then(Expr(q, 0), LAMBDA r, init : Then(Eat(r, ";"), LAMBDA s, w : CountedLoop(s))))

DeclType(p) ==
    CASE Kind(p) = "const" /\ Ahead(p) = "<" ->
            Then(Type(Advance(Advance(p))), LAMBDA q, t : Giving(EatGt(q), LAMBDA u : [type |-> t, const |-> TRUE]))
      [] Kind(p) = "const" /\ Ahead(p) # "<" -> Done(Advance(p), [type |-> Infer, const |-> TRUE])
      [] OTHER -> Giving(Type(p), LAMBDA t : [type |-> t, const |-> FALSE])
DeclStmt(p, x) ==
    Then(DeclType(p), LAMBDA q, d :
        IF Kind(q) # "=" THEN Done(Skip(q, {";"}), <<"Decl", x, d.type, <<"Null">>, d.const>>)
        ELSE Then(Expr(Advance(q), 0), LAMBDA r, e :
                Then(IF Kind(r) = "as" THEN Giving(Eat(Advance(r), "const"), LAMBDA u : <<"Const", e>>) ELSE Done(r, e), LAMBDA s, v :
                    Done(Skip(s, {";"}), <<"Decl", x, d.type, v, d.const>>))))

(* The names of {x, y} = e, or that what is written is something else. *)
RECURSIVE FieldNames(_)
FieldNames(p) ==
    CASE Kind(p) = "}" -> Done(Advance(p), [is |-> TRUE, names |-> <<>>])
      [] Kind(p) = "id" ->
            Then(Typed(Advance(p)), LAMBDA q, t :
                IF Kind(q) \notin {",", "}"} THEN Done(q, [is |-> FALSE, names |-> <<>>])
                ELSE Giving(FieldNames(Skip(q, {","})), LAMBDA v : [v EXCEPT !.names = <<Text(p)>> \o @]))
      [] OTHER -> Done(p, [is |-> FALSE, names |-> <<>>])
BraceStmt(p) ==
    Then(FieldNames(Advance(p)), LAMBDA q, v :
        IF v.is /\ Kind(q) = "="
        THEN Giving(Line(Advance(q)), LAMBDA e :
                <<"Destruct", <<"PFields", [i \in DOMAIN v.names |-> <<v.names[i], <<"PIdent", v.names[i]>>>>]>>, e>>)
        ELSE Giving(Block(p), LAMBDA b : <<"Do", <<"Block", b>>>>))

NamedStmt(p) ==
    Then(Ident(p), LAMBDA q, x :
        CASE Kind(q) = ":" -> DeclStmt(Advance(q), x)
          [] Kind(q) = "=" -> Giving(Line(Advance(q)), LAMBDA e : <<"Assign", x, e>>)
          [] OTHER -> Wrap("Do", Line(p)))

Stmt(p) ==
    LET k == Kind(p)
    IN  CASE k = "if" -> IfStmt(p)
          [] k = "for" -> ForStmt(p)
          [] k = "while" -> Then(InParens(Advance(p)), LAMBDA q, c : Giving(Block(q), LAMBDA body : <<"While", c, body>>))
          [] k \in {"loop", "infiny"} -> Wrap("Loop", Block(Advance(p)))
          [] k = "return" -> IF Ahead(p) = ";" THEN Done(Advance(Advance(p)), <<"Return", NoExpr>>)
                             ELSE Wrap("Return", Line(Advance(p)))
          [] k = "{" -> BraceStmt(p)
          [] k = "[" -> Then(Many("slot", Advance(p), "]", {","}, TRUE), LAMBDA q, slots : Then(Eat(q, "="), LAMBDA r, u :
                            Giving(Line(r), LAMBDA e : <<"Destruct", <<"PList", slots>>, e>>)))
          [] k \in {"id", "data", "open", "abstract", "init", "super", "override", "final"} -> NamedStmt(p)
          [] OTHER -> Wrap("Do", Line(p))

(***************************************************************************)
(* Items                                                                   *)
(***************************************************************************)
Generics(p) ==
    IF Kind(p) # "<" THEN Done(p, <<>>)
    ELSE Then(AtLeastOne("name", Advance(p)), LAMBDA q, names : Giving(EatGt(q), LAMBDA u : names))

Params(p, close) == Many("param", p, close, {",", ";"}, TRUE)
MethodParams(p) == Giving(Many("method param", p, ")", {","}, FALSE), LAMBDA ps : FlattenSeq(ps))

Fn(params, ret, body) == [params |-> params, ret |-> ret, body |-> body]

(* fn name<...>(...) -> type { ... }, behind what may stand before fn.  A   *)
(* method takes self, one of an object has no types of its own, and an      *)
(* abstract one no body.                                                    *)
FnItem(p, place, bodiless) ==
    Then(Eat(p, "fn"), LAMBDA q, u : Then(Ident(q), LAMBDA r, name :
        Then(IF place = "object" THEN Done(r, <<>>) ELSE Generics(r), LAMBDA s, g : Then(Eat(s, "("), LAMBDA t, w :
            Then(IF place = "module" THEN Params(t, ")") ELSE MethodParams(t), LAMBDA x, params :
                Then(Ret(x), LAMBDA y, ret : Giving(IF bodiless THEN Eat(y, ";") ELSE Block(y), LAMBDA body :
                    [name |-> name, fn |-> Fn(params, ret, body)])))))))

MethodItem(p, place) ==
    LET q == Skip(Skip(Skip(p, {"override"}), {"final"}), {"open"})
    IN  IF place = "object" THEN FnItem(p, place, FALSE) ELSE FnItem(Skip(q, {"abstract"}), place, Kind(q) = "abstract")

MethodStarts(place) == IF place = "object" THEN {"fn"} ELSE {"fn", "override", "final", "open", "abstract"}

(* What stands in the braces of a class or object. *)
RECURSIVE Members(_, _, _)
Members(p, place, c) ==
    CASE Kind(p) = "}" -> Done(Advance(p), c)
      [] Kind(p) = ";" -> Members(Advance(p), place, c)
      [] Kind(p) = "init" -> Then(Block(Advance(p)), LAMBDA q, b : Members(q, place, [c EXCEPT !.init = @ \o b]))
      [] Kind(p) \in MethodStarts(place) ->
            Then(MethodItem(p, place), LAMBDA q, m : Members(q, place, [c EXCEPT !.methods = Put(@, m.name, m.fn)]))
      [] OTHER -> Then(NamedParam(p), LAMBDA q, f : Members(q, place, [c EXCEPT !.fields = Append(@, f)]))

Blank(extends, implements, ctor) ==
    [extends |-> extends, implements |-> implements, ctor |-> ctor, fields |-> <<>>, methods |-> <<>>, init |-> <<>>]

Uses(p) == IF Kind(p) = "use" THEN AtLeastOne("name", Advance(p)) ELSE Done(p, <<>>)
Parent(p) ==
    IF Kind(p) # ":" THEN Done(p, [extends |-> NoClass, uses |-> <<>>])
    ELSE Then(Ident(Advance(p)), LAMBDA q, base :
            Then(IF Kind(q) = "(" THEN Args(Advance(q)) ELSE Done(q, <<>>), LAMBDA r, args :
                Giving(Uses(r), LAMBDA uses : [extends |-> base, uses |-> uses])))
Class(p) ==
    Then(Ident(p), LAMBDA q, name : Then(Generics(q), LAMBDA r, g :
        Then(IF Kind(r) = "(" THEN Params(Advance(r), ")") ELSE Done(r, <<>>), LAMBDA s, ctor :
            Then(Parent(s), LAMBDA t, up : Then(Uses(t), LAMBDA u, more : Then(Eat(u, "{"), LAMBDA v, w :
                Giving(Members(v, "class", Blank(up.extends, ToSet(up.uses \o more), ctor)), LAMBDA c :
                    [name |-> name, class |-> c])))))))

RECURSIVE Signatures(_, _)
Signatures(p, sigs) ==
    IF Kind(p) = "}" THEN Done(Advance(p), sigs)
    ELSE Then(Eat(p, "fn"), LAMBDA q, u : Then(Ident(q), LAMBDA r, name : Then(Eat(r, "("), LAMBDA s, w :
            Then(MethodParams(s), LAMBDA t, params : Then(Ret(t), LAMBDA v, ret : Then(Eat(v, ";"), LAMBDA x, y :
                Signatures(x, Put(sigs, name, [params |-> TypesOf(params), ret |-> ret]))))))))

Headed(p, F(_, _)) == Then(Ident(Advance(p)), LAMBDA q, name : Then(Eat(q, "{"), LAMBDA r, u : F(r, name)))

Decorator(p) ==
    CASE Text(p) = "use" -> Then(InParens(Advance(p)), LAMBDA q, e : Done(q, <<>>))
      [] Text(p) = "align" -> Then(InParens(Advance(p)), LAMBDA q, e : IF e[1] = "Int" THEN Done(q, <<>>) ELSE Refuse(q))
      [] OTHER -> Refuse(p)

(* The part of the module that an item goes to, its name, and what it is. *)
RECURSIVE Item(_)
Item(p) ==
    LET k == Kind(p)
        q == Advance(p)
    IN  CASE k = "decorator" -> Then(Decorator(p), LAMBDA r, u : Item(r))
          [] k \in {"fn", "async"} ->
                Giving(FnItem(Skip(p, {"async"}), "module", FALSE), LAMBDA f : <<"fns", f.name, f.fn>>)
          [] k = "struct" ->
                Then(Ident(q), LAMBDA r, name : Then(Generics(r), LAMBDA s, g : Then(Eat(s, "{"), LAMBDA t, u :
                    Giving(Params(t, "}"), LAMBDA fields : <<"others", name, <<"struct", fields>>>>))))
          [] k \in {"open", "abstract", "data"} ->
                Then(Eat(q, "class"), LAMBDA r, u : Giving(Class(r), LAMBDA c : <<"classes", c.name, c.class>>))
          [] k = "class" -> Giving(Class(q), LAMBDA c : <<"classes", c.name, c.class>>)
          [] k = "interface" -> Headed(p, LAMBDA r, name :
                Giving(Signatures(r, <<>>), LAMBDA sigs : <<"interfaces", name, sigs>>))
          [] k = "union" -> Headed(p, LAMBDA r, name :
                Giving(Params(r, "}"), LAMBDA variants : <<"others", name, <<"union", variants>>>>))
          [] k = "enum" -> Headed(p, LAMBDA r, name :
                Giving(Many("variant", r, "}", {",", ";"}, FALSE), LAMBDA vs : <<"enums", name, ToSet(vs)>>))
          [] k = "object" -> Headed(p, LAMBDA r, name :
                Giving(Members(r, "object", Blank(NoClass, {}, <<>>)), LAMBDA o : <<"others", name, <<"object", o>>>>))
          [] k = "type" ->
                Then(Ident(q), LAMBDA r, name : Then(Eat(r, "="), LAMBDA s, u : Then(Type(s), LAMBDA t, type :
                    Done(Skip(t, {";"}), <<"others", name, <<"type", type>>>>))))
          [] k = "const" ->
                Then(Ident(q), LAMBDA r, name : Then(Eat(r, ":"), LAMBDA s, u : Then(Type(s), LAMBDA t, type :
                    Then(Eat(t, "="), LAMBDA v, w : Giving(Line(v), LAMBDA e : <<"consts", name, e>>)))))
          [] OTHER -> Refuse(p)

(* Every rule by its name. *)
Rule(what, p, min) ==
    CASE what = "expr" -> Ranged(p, min)
      [] what = "operand" -> Inner(p, min, FALSE)
      [] what = "stmt" -> Stmt(p)
      [] what = "type" -> WholeType(p)
      [] what = "name" -> Ident(p)
      [] what = "param" -> NamedParam(p)
      [] what = "method param" -> MethodParam(p)
      [] what = "closure param" -> Giving(Ident(p), LAMBDA x : Param(x, Infer))
      [] what = "literal param" -> Then(Ident(p), LAMBDA q, x : Giving(Typed(q), LAMBDA t : Param(x, t)))
      [] what = "pair" -> Pair(p)
      [] what = "field" -> FieldValue(p)
      [] what = "variant" -> VariantName(p)
      [] what = "pattern" -> AnyPattern(p)
      [] what = "field pattern" -> FieldPattern(p)
      [] what = "list item" -> ListItem(p)
      [] what = "slot" -> Slot(p)
      [] what = "arm" -> Arm(p)
      [] what = "item" -> Item(p)

(* A name to import, another name for it, and whether it becomes constant.  *)
ImportName(p) ==
    Then(Ident(p), LAMBDA q, x :
        IF Kind(q) # "as" THEN Done(q, <<x, x, FALSE>>) ELSE Giving(Ident(Advance(q)), LAMBDA y : <<x, y, FALSE>>))
RECURSIVE ImportNames(_)
ImportNames(p) ==
    Then(ImportName(p), LAMBDA q, n :
        IF Kind(q) = "," THEN Giving(ImportNames(Advance(q)), LAMBDA ns : <<n>> \o ns) ELSE Done(q, <<n>>))
Imported(p) ==
    CASE Kind(p) = "{" -> Then(ImportNames(Advance(p)), LAMBDA q, ns : Giving(Eat(q, "}"), LAMBDA u : ns))
      [] Kind(p) # "{" /\ Ahead(p) = "as" /\ p.toks[3][1] = "const" ->
            Then(Ident(p), LAMBDA q, x : Done(Advance(Advance(q)), <<<<x, x, TRUE>>>>))
      [] OTHER -> Giving(ImportName(p), LAMBDA n : <<n>>)
Import(p) ==
    Then(Imported(Advance(p)), LAMBDA q, names :
        Then(Eat(q, "from"), LAMBDA s, u : Then(Eat(s, "text"), LAMBDA t, w :
            Done(Skip(t, {";"}), [names |-> names, source |-> Text(s)]))))

Empty == [items |-> <<>>, fns |-> <<>>, classes |-> <<>>, enums |-> <<>>, interfaces |-> <<>>, consts |-> <<>>,
          others |-> <<>>, imports |-> <<>>, exports |-> <<>>]

(* A module with one item more, as the kind of item it is. *)
With(m, part, name, v) == [m EXCEPT ![part] = Put(@, name, v), !.items = Append(@, name)]

(* One import or item of a module; the item behind `export` is exported. *)
TopLevel(p, m) ==
    IF Kind(p) = "use" THEN Giving(Import(p), LAMBDA i : [m EXCEPT !.imports = Append(@, i)])
    ELSE Giving(Rule("item", IF Kind(p) = "export" THEN Advance(p) ELSE p, 0), LAMBDA i :
            [With(m, i[1], i[2], i[3]) EXCEPT !.exports = IF Kind(p) = "export" THEN Append(@, i[2]) ELSE @])
=============================================================================
