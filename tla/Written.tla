------------------------------ MODULE Written -------------------------------
(***************************************************************************)
(* How a tree is written down, as the documents of yidika tell (the order  *)
(* of the operators is that of docs/dev/SYNTAX_TREE.md:56-72 and           *)
(* docs/dev/SPEC_MVP.md, with && and || between comparison and             *)
(* assignment): what the parser has to read back.  Brackets stand wherever *)
(* that order does not decide.                                             *)
(***************************************************************************)
EXTENDS Syntax, FiniteSets

T(kind) == <<<<kind, "">>>>
Id(x) == <<<<"id", x>>>>
Quoted(s) == <<<<"text", s>>>>

Level(e) ==
    CASE e[1] = "Bin" ->
            CASE e[2] = "=" -> 1
              [] e[2] = "||" -> 2
              [] e[2] = "&&" -> 3
              [] e[2] \in {"==", "!=", "<", ">", "<=", ">="} -> 4
              [] e[2] \in {"+", "-"} -> 5
              [] e[2] \in {"*", "/"} -> 6
              [] OTHER -> 0
      [] e[1] = "Un" -> 7
      [] e[1] \in {"Inc", "Dec", "Field", "Index", "Method", "Call", "Apply", "Try", "Safe", "Int", "Bool", "Str", "Null",
                   "Ident", "List", "Variant", "New", "Literal", "Map", "Set", "Tuple", "Vector", "Matrix"} -> 8
      [] OTHER -> 0

Joined(parts, sep) ==
    FlattenSeq([i \in DOMAIN parts |-> IF i = Len(parts) THEN parts[i] ELSE parts[i] \o sep])

RECURSIVE WriteType(_)
WriteType(t) ==
    CASE t[1] \in {"Int", "Rint", "Real", "Bool", "Str", "Symbol"} ->
            <<<<CASE t[1] = "Int" -> "int" [] t[1] = "Rint" -> "rint" [] t[1] = "Real" -> "real" [] t[1] = "Bool" -> "bool"
                  [] t[1] = "Str" -> "str" [] t[1] = "Symbol" -> "symbol", "">>>>
      [] t = Infer -> Id("auto")
      [] t[1] = "Named" -> Id(t[2])
      [] t[1] = "List" -> T("[") \o WriteType(t[2]) \o T("]")
      [] t[1] = "Map" -> T("map") \o T("[") \o WriteType(t[2]) \o T(",") \o WriteType(t[3]) \o T("]")
      [] t[1] = "Set" -> Id("set") \o T("[") \o WriteType(t[2]) \o T("]")
      [] t[1] = "Nullable" -> WriteType(t[2]) \o T("?")
      [] t[1] = "Generic" ->
            \* two closing brackets are one token
            LET args == Joined([i \in DOMAIN t[3] |-> WriteType(t[3][i])], T(","))
            IN  Id(t[2]) \o T("<") \o (IF Last(args) = <<">", "">> THEN Front(args) \o T(">>") ELSE args \o T(">"))
      [] t[1] = "Union" -> WriteType(t[2][1]) \o T("|") \o WriteType(t[2][2])

RECURSIVE Write(_), WriteStmts(_), WritePattern(_), At(_, _)

At(level, e) == IF Level(e) < level THEN T("(") \o Write(e) \o T(")") ELSE Write(e)
List(items, open, close) == T(open) \o Joined([i \in DOMAIN items |-> Write(items[i])], T(",")) \o T(close)
Braced(stmts) == T("{") \o WriteStmts(stmts) \o T("}")
Pairs(pairs, W(_)) == T("{") \o Joined([i \in DOMAIN pairs |-> W(pairs[i])], T(",")) \o T("}")
Params(params) == Joined([i \in DOMAIN params |-> Id(params[i].name) \o T(":") \o WriteType(params[i].type)], T(","))

WritePattern(p) ==
    LET all(ps) == Joined([i \in DOMAIN ps |-> WritePattern(ps[i])], T(","))
    IN  CASE p[1] = "PIgnore" -> Id("_")
          [] p[1] = "PIdent" -> Id(p[2])
          [] p[1] = "PInt" -> <<<<"num", p[2]>>>>
          [] p[1] = "PBool" -> T(IF p[2] THEN "true" ELSE "false")
          [] p[1] = "PVariant" -> Id(p[2]) \o T("(") \o all(p[3]) \o T(")")
          [] p[1] = "PList" -> T("[") \o all(p[2]) \o T("]")
          [] p[1] = "PRest" -> T("...") \o Id(p[2])
          [] p[1] = "PFields" -> Pairs(p[2], LAMBDA f : Id(f[1]) \o T(":") \o WritePattern(f[2]))

(* A map that a closure gives is put into brackets, a block is not.        *)
Body(e) ==
    LET w == Write(e) IN IF e[1] # "Block" /\ w[1][1] = "{" THEN T("(") \o w \o T(")") ELSE w

(* A comparison of comparisons is put into brackets on both sides. *)
WriteBin(op, l, r) ==
    LET level == Level(<<"Bin", op, l, r>>)
        loose == level \in {0, 1, 4}
    IN  At(IF level = 0 THEN 8 ELSE IF loose THEN level + 1 ELSE level, l) \o T(op)
            \o At(IF level = 0 THEN 8 ELSE level + 1, r)

WriteArms(arms) ==
    FlattenSeq([i \in DOMAIN arms |->
        WritePattern(arms[i].pattern)
            \o (IF arms[i].guard = NoExpr THEN <<>> ELSE T("if") \o Write(arms[i].guard))
            \o T("=>") \o At(1, arms[i].body) \o T(",")])

Write(e) ==
    LET k == e[1]
    IN  CASE k = "Int" -> <<<<"num", e[2]>>>>
          [] k = "Str" -> Quoted(e[2])
          [] k = "Bool" -> T(IF e[2] THEN "true" ELSE "false")
          [] k = "Null" -> T("null")
          [] k = "Literal" -> <<<<"literal", e[2]>>>>
          [] k = "Ident" -> Id(e[2])
          [] k = "Bin" -> WriteBin(e[2], e[3], e[4])
          [] k = "Un" -> T(e[2]) \o At(8, e[3])
          [] k = "Call" -> Id(e[2]) \o List(e[3], "(", ")")
          [] k = "Apply" -> At(8, e[2]) \o List(e[3], "(", ")")
          [] k = "Method" -> At(8, e[2]) \o T(".") \o Id(e[3]) \o List(e[4], "(", ")")
          [] k = "Field" -> At(8, e[2]) \o T(".") \o Id(e[3])
          [] k = "Safe" -> At(8, e[2]) \o T("?.") \o Id(e[3])
          [] k = "Index" -> At(8, e[2]) \o T("[") \o Write(e[3]) \o T("]")
          [] k \in {"Inc", "Dec"} -> At(8, e[2]) \o T(IF k = "Inc" THEN "++" ELSE "--")
          [] k = "Try" -> At(8, e[2]) \o T("?")
          [] k = "Range" -> At(8, e[2]) \o T("..") \o At(8, e[3])
          [] k = "Elvis" -> At(8, e[2]) \o T("?:") \o At(8, e[3])
          [] k = "List" -> List(e[2], "[", "]")
          [] k = "Set" -> Id("set") \o List(e[2], "{", "}")
          [] k = "Tuple" -> Id("tuple") \o List(e[2], "{", "}")
          [] k = "Matrix" -> T("(") \o Joined([i \in DOMAIN e[2] |-> List(e[2][i], "[", "]")], T(",")) \o T(")")
          [] k = "Vector" -> T("(") \o Joined([i \in DOMAIN e[2] |-> At(1, e[2][i])], T(":")) \o T(")")
          [] k = "Map" -> Pairs(e[2], LAMBDA f : Write(f[1]) \o T(":") \o Write(f[2]))
          [] k = "Block" -> Braced(e[2])
          [] k = "IfE" -> T("if") \o T("(") \o Write(e[2]) \o T(")") \o At(1, e[3])
                             \o (IF e[4] = NoExpr THEN <<>> ELSE T("else") \o At(1, e[4]))
          [] k = "Closure" ->
                T("(") \o Joined([i \in DOMAIN e[2] |-> Id(e[2][i].name)], T(",")) \o T(")") \o T("=>") \o Body(e[3])
          [] k = "FnLit" -> T("fn") \o T("(") \o Params(e[2]) \o T(")") \o T("->") \o WriteType(e[3])
                               \o T("{") \o Write(e[4]) \o T("}")
          [] k = "New" -> Id(e[2]) \o Pairs(e[3], LAMBDA f : Id(f[1]) \o T(":") \o Write(f[2]))
          [] k = "Variant" -> Id(e[2]) \o T("::") \o Id(e[3]) \o (IF e[4] = <<>> THEN <<>> ELSE List(e[4], "(", ")"))
          [] k = "Const" -> At(8, e[2]) \o T("as") \o T("const")
          [] k = "As" -> At(8, e[2]) \o T("as") \o WriteType(e[3])
          [] k = "Ok" -> T("Ok") \o List(<<e[2]>>, "(", ")")
          [] k = "Err" -> T("Error") \o List(<<e[2]>>, "(", ")")
          [] k = "Spawn" -> T("spawn") \o At(8, e[2])
          [] k = "Await" -> T("await") \o At(8, e[2])
          [] k = "Catch" -> T("try") \o Braced(e[2]) \o T("catch") \o T("(") \o Id(e[3]) \o T(")") \o Braced(e[4])
          [] k = "Match" -> T("match") \o At(8, e[2]) \o T("{") \o WriteArms(e[3]) \o T("}")

(* An expression that begins as a statement does is put into brackets. *)
Line(e) ==
    LET w == Write(e) IN (IF w[1][1] \in {"if", "[", "{"} THEN T("(") \o w \o T(")") ELSE w) \o T(";")

WriteStmt(s) ==
    LET k == s[1]
    IN  CASE k = "Decl" -> Id(s[2]) \o T(":") \o (IF s[5] THEN T("const") ELSE WriteType(s[3])) \o T("=") \o Write(s[4]) \o T(";")
          [] k = "Assign" -> Id(s[2]) \o T("=") \o Write(s[3]) \o T(";")
          [] k = "Do" -> IF s[2][1] = "Block" THEN Write(s[2]) ELSE Line(s[2])
          [] k = "Return" -> T("return") \o (IF s[2] = NoExpr THEN <<>> ELSE Write(s[2])) \o T(";")
          [] k = "For" -> T("for") \o T("(") \o Id(s[2]) \o T(IF s[5] THEN ":" ELSE "in") \o Write(s[3]) \o T(")") \o Braced(s[4])
          [] k = "While" -> T("while") \o T("(") \o Write(s[2]) \o T(")") \o Braced(s[3])
          [] k = "Loop" -> T("loop") \o Braced(s[2])
          [] k = "Destruct" ->
                (IF s[2][1] = "PList" THEN WritePattern(s[2])
                 ELSE Pairs(s[2][2], LAMBDA f : Id(f[1]))) \o T("=") \o Write(s[3]) \o T(";")
          [] k = "If" -> T("if") \o T("(") \o Write(s[2]) \o T(")") \o Braced(s[3])
                            \o (IF s[4] = <<>> THEN <<>> ELSE T("else") \o Braced(s[4]))
WriteStmts(stmts) == FlattenSeq([i \in DOMAIN stmts |-> WriteStmt(stmts[i])])

Signature(self, params, ret) ==
    T("(") \o self \o Params(params) \o T(")") \o (IF ret = Infer THEN <<>> ELSE T("->") \o WriteType(ret))
WriteFn(name, self, f) == T("fn") \o Id(name) \o Signature(self, f.params, f.ret) \o Braced(f.body)
Self(params) == IF params = <<>> THEN Id("self") ELSE Id("self") \o T(",")

Ordered(map) == SetToSeq(DOMAIN map)
WriteClass(name, c) ==
    T("class") \o Id(name)
        \o (IF c.ctor = <<>> THEN <<>> ELSE T("(") \o Params(c.ctor) \o T(")"))
        \o (IF c.extends = NoClass THEN <<>> ELSE T(":") \o Id(c.extends))
        \o (IF c.implements = {} THEN <<>> ELSE T("use") \o Joined([i \in 1 .. Cardinality(c.implements) |-> Id(SetToSeq(c.implements)[i])], T(",")))
        \o T("{")
        \o FlattenSeq([i \in DOMAIN c.fields |-> Id(c.fields[i].name) \o T(":") \o WriteType(c.fields[i].type) \o T(";")])
        \o (IF c.init = <<>> THEN <<>> ELSE T("init") \o Braced(c.init))
        \o FlattenSeq([i \in 1 .. Len(Ordered(c.methods)) |->
                LET m == Ordered(c.methods)[i] IN WriteFn(m, Self(c.methods[m].params), c.methods[m])])
        \o T("}")

WriteOther(name, o) ==
    CASE o[1] \in {"struct", "union"} -> T(o[1]) \o Id(name) \o T("{") \o Params(o[2]) \o T("}")
      [] o[1] = "type" -> T("type") \o Id(name) \o T("=") \o WriteType(o[2]) \o T(";")
      [] o[1] = "object" -> T("object") \o Tail(WriteClass(name, o[2]))

WriteItem(name) ==
    (IF name \in ToSet(program.exports) THEN T("export") ELSE <<>>) \o
    CASE name \in DOMAIN program.fns -> WriteFn(name, <<>>, program.fns[name])
      [] name \in DOMAIN program.classes -> WriteClass(name, program.classes[name])
      [] name \in DOMAIN program.enums ->
            T("enum") \o Id(name) \o T("{") \o FlattenSeq([i \in 1 .. Cardinality(program.enums[name]) |->
                Id(SetToSeq(program.enums[name])[i]) \o T(",")]) \o T("}")
      [] name \in DOMAIN program.interfaces ->
            LET sigs == program.interfaces[name]
            IN  T("interface") \o Id(name) \o T("{") \o FlattenSeq([i \in 1 .. Len(Ordered(sigs)) |->
                    LET m == Ordered(sigs)[i]
                        params == [k \in DOMAIN sigs[m].params |-> [name |-> "p", type |-> sigs[m].params[k]]]
                    IN  T("fn") \o Id(m) \o Signature(Self(params), params, sigs[m].ret) \o T(";")]) \o T("}")
      [] name \in DOMAIN program.consts -> T("const") \o Id(name) \o T(":") \o T("int") \o T("=") \o Write(program.consts[name]) \o T(";")
      [] name \in DOMAIN program.others -> WriteOther(name, program.others[name])

WriteImport(i) ==
    T("use") \o T("{") \o Joined([k \in DOMAIN i.names |->
        Id(i.names[k][1]) \o (IF i.names[k][1] = i.names[k][2] THEN <<>> ELSE T("as") \o Id(i.names[k][2]))], T(","))
        \o T("}") \o T("from") \o Quoted(i.source) \o T(";")

WriteModule ==
    FlattenSeq([i \in DOMAIN program.imports |-> WriteImport(program.imports[i])])
        \o FlattenSeq([i \in DOMAIN program.items |-> WriteItem(program.items[i])]) \o T("eof")
=============================================================================
