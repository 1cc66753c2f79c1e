------------------------------ MODULE Codegen ------------------------------
(***************************************************************************)
(* The LLVM code generator (src/codegen/llvm.rs) for functions, classes,   *)
(* lists, results, variants and nullable types.  Strings are values here,  *)
(* where the code builds them from a pointer and a length; integers of     *)
(* other widths, reals, unions, interfaces, objects, tuples, tasks and the *)
(* network library are left out.                                           *)
(*                                                                         *)
(* What is compiled so far is [fns, todo, code, n, vars, tags, methods,    *)
(* ret]: the functions that are done, what is left to do, the instructions *)
(* of the function being compiled, the next free label, the alloca and the *)
(* type of every variable, the tags of the variants met, the return types  *)
(* of the methods met, the return type of the last function begun.  An     *)
(* instruction is [k, dst, ty, ops, x]: kind, the register it sets, its    *)
(* type, its typed operands and what else it names.                        *)
(***************************************************************************)
EXTENDS Syntax, SequencesExt, FiniteSets

I64 == <<"i64">>
I1 == <<"i1">>
I32 == <<"i32">>
Text == <<"str">>
Pointer == <<"ptr">>
Result == <<"result">>
Tagged == <<"variant">>
Void == <<"void">>

Imm(n) == <<"Int", n>>
Reg(name) == <<"Reg", name>>
Zero == <<"Zero">>
Undef == <<"Undef">>
Op(ty, v) == [t |-> ty, v |-> v]

(* The LLVM type of a type of the language. *)
RECURSIVE Lower(_)
Lower(t) ==
    CASE t[1] = "Bool" -> I1
      [] t[1] = "Str" -> Text
      [] t[1] = "List" -> Pointer
      [] t[1] = "Generic" /\ t[2] = "Result" -> Result
      [] t[1] = "Nullable" -> <<"nullable", Lower(t[2])>>
      [] t[1] = "Named" /\ t[2] \in DOMAIN program.classes -> <<"class", t[2]>>
      [] OTHER -> I64

IsNullable(ty) == ty[1] = "nullable"

(* A class has its own constructor's parameters and its own fields only. *)
OwnFields(cl) == program.classes[cl].ctor \o program.classes[cl].fields
Layout(ty) ==
    CASE ty = Result -> <<I64, I1>>
      [] ty = Tagged -> <<I64, I64>>
      [] ty = Text -> <<Pointer, I64>>
      [] IsNullable(ty) -> <<ty[2], I1>>
      [] ty[1] = "class" -> <<I64>> \o [i \in DOMAIN OwnFields(ty[2]) |-> Lower(OwnFields(ty[2])[i].type)]
      [] OTHER -> <<>>

(* Inherited methods first, each replaced where the class has its own. *)
RECURSIVE VTable(_)
VTable(cl) ==
    LET inherited == IF program.classes[cl].extends = NoClass THEN <<>>
                     ELSE VTable(program.classes[cl].extends)
        own == program.classes[cl].methods
        names == {inherited[i][1] : i \in DOMAIN inherited}
    IN  [i \in DOMAIN inherited |->
            IF inherited[i][1] \in DOMAIN own THEN <<inherited[i][1], cl>> ELSE inherited[i]]
        \o SetToSeq({<<m, cl>> : m \in DOMAIN own \ names})

(* The types that some choices are made by, ahead of compiling: those of   *)
(* the left operand even for a comparison, i64 for whatever is not listed. *)
RECURSIVE StaticType(_, _)
StaticType(c, e) ==
    CASE e[1] = "Bool" -> I1
      [] e[1] = "Str" -> Text
      [] e[1] = "Ident" -> IF e[2] \in DOMAIN c.vars THEN c.vars[e[2]].ty ELSE I64
      [] e[1] = "Bin" -> StaticType(c, e[3])
      [] e[1] = "Un" -> StaticType(c, e[3])
      [] e[1] = "New" -> <<"class", e[2]>>
      [] e[1] = "Inc" -> StaticType(c, e[2])
      [] e[1] \in {"Ok", "Err"} -> Result
      [] e[1] = "As" -> Lower(e[3])
      [] e[1] = "Match" -> StaticType(c, e[3][1].body)
      [] OTHER -> I64

(***************************************************************************)
(* Emitting                                                                *)
(***************************************************************************)
Made(c, v, ty) == [c |-> c, v |-> v, ty |-> ty]
On(r, F(_, _, _)) == F(r.c, r.v, r.ty)

Fresh(c) == "yk_" \o ToString(c.n)
Emit(c, k, dst, ty, ops, x) ==
    [c EXCEPT !.code = Append(@, [k |-> k, dst |-> dst, ty |-> ty, ops |-> ops, x |-> x])]

(* An instruction that sets a fresh register. *)
Def(c, k, ty, ops, x) == Made([Emit(c, k, Fresh(c), ty, ops, x) EXCEPT !.n = @ + 1], Reg(Fresh(c)), ty)

Do(c, k, ops, x) == Emit(c, k, "", Void, ops, x)
Store(c, ty, v, ptr) == Do(c, "store", <<Op(ty, v), Op(Pointer, ptr)>>, "")
Jump(c, label) == Do(c, "br", <<>>, label)
Branch(c, v, yes, no) == Do(c, "cbr", <<Op(I1, v)>>, <<yes, no>>)
Label(c, label) == Emit(c, "label", label, Void, <<>>, "")

(* The label l of a construct that has number n: labels are never reused. *)
(* Mutant: labels are not numbered. *)
PartUnnumbered(n, l) == "yk_" \o l

Part(n, l) == "yk_" \o ToString(n) \o l
Number(c) == [c EXCEPT !.n = @ + 1]

(* A variable's slot is named after the variable alone. *)
SlotName(x) == x \o ".ptr"
SetVarSlot(c, x, ptr, ty) == [c EXCEPT !.vars = Put(@, x, [ptr |-> ptr, ty |-> ty])]
Alloca(c, x, ty) == SetVarSlot(Emit(c, "alloca", SlotName(x), ty, <<>>, ""), x, Reg(SlotName(x)), ty)

RECURSIVE PtrOf(_, _)
PtrOf(c, e) ==
    CASE e[1] = "Ident" -> IF e[2] \in DOMAIN c.vars THEN c.vars[e[2]].ptr ELSE Reg(SlotName(e[2]))
      [] e[1] = "Field" -> Reg(PtrOf(c, e[2])[2] \o "." \o e[3])
      [] OTHER -> Reg("0")

ToI64(c, v, ty) ==
    CASE ty = I1 -> Def(c, "zext", I64, <<Op(I1, v)>>, "")
      [] ty = Text -> Def(c, "rt", I64, <<Op(Text, v)>>, "box")
      [] OTHER -> Made(c, v, I64)

(* A value becomes nullable with a flag that says it is there. *)
WrapNullable(c, nullable, v, ty, isNull) ==
    IF isNull THEN Def(c, "agg", nullable, <<Op(nullable[2], Zero), Op(I1, Imm(0))>>, "")
    ELSE Def(c, "agg", nullable, <<Op(ty, v), Op(I1, Imm(1))>>, "")

StoreInto(c, e, ty, v, valueTy, ptr) ==
    IF IsNullable(ty) /\ ~IsNullable(valueTy)
    THEN On(WrapNullable(c, ty, v, valueTy, e[1] = "Null"), LAMBDA d, w, t : Store(d, ty, w, ptr))
    ELSE IF ty = I1 /\ valueTy = I64
    THEN On(Def(c, "cmp", I1, <<Op(I64, v), Op(I64, Imm(0))>>, "ne"), LAMBDA d, w, t : Store(d, I1, w, ptr))
    ELSE Store(c, valueTy, v, ptr)

RECURSIVE Generate(_, _, _), CompileArms(_, _, _, _, _, _, _), Bind(_, _, _, _)
CompileExpr(c, e) == Generate(c, "expr", e)
CompileStmt(c, s) == Generate(c, "stmt", s)

(* The arguments, from left to right, as operands. *)
CompileAll(c, es) ==
    FoldLeft(LAMBDA r, e : On(CompileExpr(r.c, e), LAMBDA d, v, ty : [c |-> d, ops |-> Append(r.ops, Op(ty, v))]),
             [c |-> c, ops |-> <<>>], es)
CompileBody(c, ss) == FoldLeft(CompileStmt, c, ss)

(***************************************************************************)
(* Operators                                                               *)
(***************************************************************************)
BinName(op) == CASE op = "+" -> "add" [] op = "-" -> "sub" [] op = "*" -> "mul" [] op = "/" -> "sdiv"

(* == and != are emitted with the conditions of reals, which no integer has. *)
Condition(op) == CASE op = "<" -> "slt" [] op = ">" -> "sgt" [] op = "==" -> "oeq" [] op = "!=" -> "one"

IsZero(c, ty, v) == Def(c, "cmp", I1, <<Op(ty, v), Op(ty, Imm(0))>>, "ne")

(* The left operand first; both are typed by what they look like.  Logical *)
(* operators compute both operands.                                        *)
CompileBin(c, e) ==
    LET op == e[2]
        lt == StaticType(c, e[3])
        l == CompileExpr(c, e[3])
        rt == StaticType(l.c, e[4])
        r == CompileExpr(l.c, e[4])
        both == <<Op(lt, l.v), Op(lt, r.v)>>
    IN  CASE op = "+" /\ lt = Text -> Def(r.c, "rt", Text, both, "concat")
          [] op \in {"+", "-", "*", "/"} /\ lt # Text -> Def(r.c, "bin", lt, both, BinName(op))
          [] op \in {"-", "*", "/"} /\ lt = Text -> Def(r.c, "bin", lt, both, BinName(op))
          [] op \in {"<", ">", "==", "!="} -> Def(r.c, "cmp", I1, both, Condition(op))
          [] op \in {"&&", "||"} ->
                On(IsZero(r.c, lt, l.v), LAMBDA d, a, t :
                On(IsZero(d, lt, r.v), LAMBDA f, b, u :
                    Def(f, "bin", I1, <<Op(I1, a), Op(I1, b)>>, IF op = "&&" THEN "and" ELSE "or")))
          [] op = "=" -> Made(Store(r.c, lt, r.v, PtrOf(r.c, e[3])), r.v, lt)

CompileUn(c, e) ==
    On(CompileExpr(c, e[3]), LAMBDA d, v, ty :
        CASE e[2] = "-" -> Def(d, "bin", ty, <<Op(ty, Imm(0)), Op(ty, v)>>, "neg")
          [] e[2] = "!" /\ ty = I1 -> Def(d, "bin", I1, <<Op(I1, v), Op(I1, <<"Bool", TRUE>>)>>, "xor")
          [] e[2] = "!" /\ ty # I1 -> Def(d, "cmp", I1, <<Op(I64, v), Op(I64, Imm(0))>>, "eq"))

CompileIdent(c, x) ==
    IF x \in DOMAIN c.vars THEN Def(c, "load", c.vars[x].ty, <<Op(Pointer, c.vars[x].ptr)>>, "")
    ELSE Made(c, Reg(x), I64)

CompileInc(c, e) ==
    On(CompileExpr(c, e[2]), LAMBDA d, seen, ty :
    On(Def(d, "load", ty, <<Op(Pointer, PtrOf(d, e[2]))>>, ""), LAMBDA f, old, t :
    On(Def(f, "bin", ty, <<Op(ty, old), Op(ty, Imm(1))>>, "add"), LAMBDA g, new, u :
        Made(Store(g, ty, new, PtrOf(g, e[2])), old, ty))))

(***************************************************************************)
(* Calls                                                                   *)
(***************************************************************************)
(* What is no string, number, truth value, list or result is printed as an *)
(* integer; of a variant its payload.                                      *)
EmitPrint(c, op) ==
    LET n == c.n IN
    CASE IsNullable(op.t) ->
            On(Def(c, "extract", I1, <<op>>, 1), LAMBDA d, flag, t :
            On(Def(d, "extract", op.t[2], <<op>>, 0), LAMBDA f, v, u :
                LET some == Label(Branch(f, flag, Part(n, "some"), Part(n, "none")), Part(n, "none"))
                    none == Jump(Do(some, "rt", <<Op(Text, <<"Str", "(null)">>)>>, "print"), Part(n, "done"))
                    int == Do(Label(none, Part(n, "some")), "rt", <<Op(I64, v)>>, "print")
                IN  Label(Jump(int, Part(n, "done")), Part(n, "done"))))
      [] op.t = Result ->
            On(Def(c, "extract", I64, <<op>>, 0), LAMBDA d, v, t :
            On(Def(d, "extract", I1, <<op>>, 1), LAMBDA f, ok, u :
                Do(f, "rt", <<Op(I64, v), Op(I1, ok)>>, "print_result")))
      [] op.t = Tagged ->
            On(Def(c, "extract", I64, <<op>>, 1), LAMBDA d, v, t : Do(d, "rt", <<Op(I64, v)>>, "print"))
      [] op.t \in {I64, I1, Text, Pointer} -> Do(c, "rt", <<op>>, "print")
      [] OTHER -> Do(c, "rt", <<Op(I64, op.v)>>, "print")

Reserve(c, ty) == Def(c, "alloca", ty, <<>>, "")

(* The object is loaded before its init blocks run on the place it was in. *)
Construct(c, cl, args) ==
    LET ty == <<"class", cl>>
        fields == Layout(ty)
        parts == [i \in DOMAIN fields |-> IF i = 1 THEN Op(I64, <<"Vt", cl>>)
                                          ELSE IF i - 1 <= Len(args) THEN Op(fields[i], args[i - 1].v)
                                          ELSE Op(fields[i], Zero)]
    IN  On(Reserve(c, ty), LAMBDA d, ptr, t :
        On(Def(d, "agg", ty, parts, ""), LAMBDA f, obj, u :
        On(Def(Store(f, ty, obj, ptr), "load", ty, <<Op(Pointer, ptr)>>, ""), LAMBDA g, loaded, w :
            Made(Do(g, "call", <<Op(Pointer, ptr)>>, "init " \o cl), loaded, ty))))

RetOf(fn) == IF fn.ret = Infer THEN Void ELSE Lower(fn.ret)

CallResult(c, ret, k, ops, x) ==
    IF ret = Void THEN Made(Do(c, k, ops, x), Imm(0), Void) ELSE Def(c, k, ret, ops, x)

CompileCall(c, e) ==
    LET args == CompileAll(c, e[3]) IN
    CASE e[2] = "print" -> Made(FoldLeft(EmitPrint, args.c, args.ops), Imm(0), Void)
      [] e[2] \in DOMAIN program.classes -> Construct(args.c, e[2], args.ops)
      [] OTHER -> CallResult(args.c, IF e[2] \in DOMAIN program.fns THEN RetOf(program.fns[e[2]]) ELSE I64,
                             "call", args.ops, e[2])

MethodName(cl, m) == "method " \o cl \o "." \o m

(* A method runs on a copy of the object, at the place its class gives it. *)
CallMethod(c, obj, ty, m, args) ==
    LET cl == ty[2]
        places == {i \in DOMAIN VTable(cl) : VTable(cl)[i][1] = m}
        ret == IF MethodName(cl, m) \in DOMAIN c.methods THEN c.methods[MethodName(cl, m)] ELSE I64
    IN  IF places = {} THEN Def(c, "call", I64, args, "no such method")
        ELSE On(Reserve(c, ty), LAMBDA d, self, t :
             On(Def(Store(d, ty, obj, self), "load", I64, <<Op(Pointer, self)>>, ""), LAMBDA f, vt, u :
                CallResult(f, ret, "vcall", <<Op(I64, vt), Op(Pointer, self)>> \o args, Min(places))))

(* A list is changed in place, through its pointer. *)
ListCall(c, list, m, args) ==
    CASE m = "push" /\ args = <<>> -> Made(c, Imm(0), I64)
      [] m = "push" /\ args # <<>> ->
                       LET item == IF args[1].t = I1 THEN ToI64(c, args[1].v, I1) ELSE Made(c, args[1].v, I64)
                       IN  Made(Do(item.c, "rt", <<Op(Pointer, list), Op(I64, item.v)>>, "push"), Imm(0), I64)
      [] m \in {"pop", "len"} -> Def(c, "rt", I64, <<Op(Pointer, list)>>, m)

CompileMethod(c, e) ==
    LET args == CompileAll(c, e[4]) IN
    On(CompileExpr(args.c, e[2]), LAMBDA d, obj, ty :
        IF ty = Pointer /\ e[3] \in {"push", "pop", "len"} THEN ListCall(d, obj, e[3], args.ops)
        ELSE IF ty[1] = "class" THEN CallMethod(d, obj, ty, e[3], args.ops)
        ELSE Def(d, "call", I64, args.ops, "no function"))

(***************************************************************************)
(* Objects, lists, results                                                 *)
(***************************************************************************)
(* A field that the class does not have is a register that nothing sets. *)
CompileField(c, e) ==
    On(CompileExpr(c, e[2]), LAMBDA d, obj, ty :
        LET places == {i \in DOMAIN OwnFields(ty[2]) : OwnFields(ty[2])[i].name = e[3]} IN
        CASE ty = Text -> Def(d, "extract", I64, <<Op(Text, obj)>>, 1)
          [] ty[1] = "class" ->
                IF places = {} THEN Made(d, Reg("unset"), I64)
                ELSE Def(d, "extract", Layout(ty)[Min(places) + 1], <<Op(ty, obj)>>, Min(places))
          [] ty = Pointer /\ e[3] = "length" -> Def(d, "rt", I64, <<Op(Pointer, obj)>>, "len")
          [] OTHER -> Def(d, "bin", I64, <<Op(I64, Imm(0)), Op(I64, Imm(0))>>, "add"))

CompileIndex(c, e) ==
    On(CompileExpr(c, e[2]), LAMBDA d, list, ty :
    On(CompileExpr(d, e[3]), LAMBDA f, i, t :
        IF ty = Pointer THEN Def(f, "rt", I64, <<Op(Pointer, list), Op(I64, i)>>, "get")
        ELSE Def(f, "load", I64, <<Op(Pointer, list), Op(I64, i)>>, "")))

CompileList(c, e) ==
    On(Def(c, "rt", Pointer, <<>>, "new"), LAMBDA d, list, ty :
        Made(FoldLeft(LAMBDA f, item :
                On(CompileExpr(f, item), LAMBDA g, v, t :
                On(ToI64(g, v, t), LAMBDA h, w, u :
                    Do(h, "rt", <<Op(Pointer, list), Op(I64, w)>>, "push"))), d, e[2]),
             list, Pointer))

(* In the order of the class; a field that is not given stays undefined. *)
CompileNew(c, e) ==
    LET ty == <<"class", e[2]>>
        Given(f) == {i \in DOMAIN e[3] : e[3][i][1] = f.name}
        Field(r, f) ==
            IF Given(f) = {} THEN [r EXCEPT !.ops = Append(@, Op(Lower(f.type), Undef))]
            ELSE On(CompileExpr(r.c, e[3][Min(Given(f))][2]), LAMBDA d, v, t :
                    [c |-> d, ops |-> Append(r.ops, Op(t, v))])
        vt == Op(I64, IF VTable(e[2]) = <<>> THEN Undef ELSE <<"Vt", e[2]>>)
        all == FoldLeft(Field, [c |-> c, ops |-> <<vt>>], OwnFields(e[2]))
    IN  Def(all.c, "agg", ty, all.ops, "")

CompileResult(c, e) ==
    On(CompileExpr(c, e[2]), LAMBDA d, v, t :
    On(ToI64(d, v, t), LAMBDA f, payload, u :
        Def(f, "agg", Result, <<Op(I64, payload), Op(I1, Imm(IF e[1] = "Ok" THEN 1 ELSE 0))>>, "")))

(* An error leaves a function that returns a result; in any other the      *)
(* payload is taken, of an error too.                                      *)
CompileTry(c, e) ==
    On(CompileExpr(c, e[2]), LAMBDA d, v, ty :
        IF ty # Result THEN Made(d, v, ty)
        ELSE On(Def(d, "extract", I1, <<Op(Result, v)>>, 1), LAMBDA f, flag, t :
             On(Def(f, "cmp", I1, <<Op(I1, flag), Op(I1, Imm(0))>>, "eq"), LAMBDA g, isErr, u :
                LET n == g.n
                    out == Label(Branch(Number(g), isErr, Part(n, "ret"), Part(n, "cont")), Part(n, "ret"))
                    go == Label(Do(out, "ret", <<Op(Result, v)>>, ""), Part(n, "cont"))
                IN  Def(IF c.ret = Result THEN go ELSE g, "extract", I64, <<Op(Result, v)>>, 0))))

(* The body and the handler run one after the other, whatever happens. *)
CompileCatch(c, e) ==
    On(Reserve(CompileBody(c, e[2]), I64), LAMBDA d, ptr, ty :
        Made(CompileBody(SetVarSlot(Store(d, I64, Imm(0), ptr), e[3], ptr, I64), e[4]), Imm(0), I64))

TagOf(c, v) == IF v \in DOMAIN c.tags THEN c.tags[v] ELSE -1
WithTag(c, v) == IF v \in DOMAIN c.tags THEN c ELSE [c EXCEPT !.tags = Put(@, v, Cardinality(DOMAIN @))]

(* One value is the payload, none or several are not kept. *)
CompileVariant(c, e) ==
    LET args == CompileAll(WithTag(c, e[3]), e[4])
        one == IF Len(e[4]) = 1 THEN args.ops[1] ELSE Op(I64, Imm(0))
        payload == CASE one.t \in {Text, Pointer} -> Def(args.c, "rt", I64, <<one>>, "box")
                     [] one.t = I1 -> ToI64(args.c, one.v, I1)
                     [] OTHER -> Made(args.c, one.v, I64)
    IN  Def(payload.c, "agg", Tagged, <<Op(I64, Imm(TagOf(payload.c, e[3]))), Op(I64, payload.v)>>, "")

(* A closure becomes a function of its own that is compiled at the end and *)
(* knows none of the variables around it; its value is an address.         *)
CompileClosure(c, e) ==
    LET name == "closure " \o ToString(c.n)
    IN  Made([Number(c) EXCEPT !.todo = Append(@, <<"closure", name, e[2], e[3]>>)], <<"Fn", name>>, I64)

(***************************************************************************)
(* Branching expressions                                                   *)
(***************************************************************************)
CompileIf(c, e) ==
    LET n == c.n
        else == IF e[4] = NoExpr THEN <<"Null">> ELSE e[4]
    IN  On(CompileExpr(Number(c), e[2]), LAMBDA d, cond, ty :
        On(CompileExpr(Label(Branch(d, cond, Part(n, "then"), Part(n, "else")), Part(n, "then")), e[3]),
           LAMBDA f, a, t :
        On(CompileExpr(Label(Jump(f, Part(n, "merge")), Part(n, "else")), else), LAMBDA g, b, u :
            Def(Label(Jump(g, Part(n, "merge")), Part(n, "merge")), "phi", t,
                <<Op(t, a), Op(t, b)>>, <<Part(n, "then"), Part(n, "else")>>))))

CompileElvis(c, e) ==
    On(CompileExpr(c, e[2]), LAMBDA d, a, ty :
    On(Def(d, "extract", I1, <<Op(ty, a)>>, 1), LAMBDA f, flag, t :
    On(Def(f, "cmp", I1, <<Op(I1, flag), Op(I1, Imm(0))>>, "eq"), LAMBDA g, isNull, u :
        LET n == g.n
            null == Label(Branch(Number(g), isNull, Part(n, "null"), Part(n, "some")), Part(n, "null"))
        IN  On(CompileExpr(null, e[3]), LAMBDA h, b, bty :
            On(Def(Label(Jump(h, Part(n, "merge")), Part(n, "some")), "extract",
                   IF Layout(ty) = <<>> THEN I64 ELSE Layout(ty)[1], <<Op(ty, a)>>, 0), LAMBDA i, inner, w :
                Def(Label(Jump(i, Part(n, "merge")), Part(n, "merge")), "phi", bty,
                    <<Op(bty, b), Op(bty, inner)>>, <<Part(n, "null"), Part(n, "some")>>))))))

(* A return among the statements of a block keeps its value for the block, *)
(* and goes on with the next statement.                                    *)
CompileBlock(c, e) ==
    On(Reserve(c, I64), LAMBDA d, ptr, ty :
        LET Keep(r, n) == Label(Jump(Number(Store(r.c, r.ty, r.v, ptr)), Part(n, "end")), Part(n, "end"))
            Stmt(f, s) == IF s[1] # "Return" THEN CompileStmt(f, s)
                          ELSE LET r == IF s[2] = NoExpr THEN Made(f, Imm(0), I64) ELSE CompileExpr(f, s[2])
                               IN  Keep(r, r.c.n)
        IN  Def(FoldLeft(Stmt, Store(d, I64, Imm(0), ptr), e[2]), "load", I64, <<Op(Pointer, ptr)>>, ""))

(***************************************************************************)
(* Matches                                                                 *)
(***************************************************************************)
Always == <<"Bool", TRUE>>

(* The condition under which a pattern fits; NoExpr when it always does.   *)
(* A variant that was not built before has the tag of none.                *)
CompilePattern(c, p, v, ty) ==
    CASE p[1] \in {"PIgnore", "PIdent"} -> Made(c, NoExpr, I1)
      [] p[1] = "PInt" /\ ty = I64 -> Def(c, "cmp", I1, <<Op(I64, v), Op(I64, Imm(p[2]))>>, "eq")
      [] p[1] = "PBool" /\ ty = I1 -> Def(c, "cmp", I1, <<Op(I1, v), Op(I1, <<"Bool", p[2]>>)>>, "eq")
      [] p[1] = "PBool" /\ ty # I1 -> Made(c, <<"Bool", p[2]>>, I1)
      [] p[1] = "PVariant" /\ ty = Tagged ->
            On(Def(c, "extract", I64, <<Op(Tagged, v)>>, 0), LAMBDA d, tag, t :
                Def(d, "cmp", I1, <<Op(I64, tag), Op(I64, Imm(TagOf(d, p[2])))>>, "eq"))
      [] OTHER -> Made(c, Always, I1)

Bind(c, p, v, ty) ==
    CASE p[1] = "PIdent" -> Store(Alloca(c, p[2], ty), ty, v, Reg(SlotName(p[2])))
      [] p[1] = "PVariant" /\ ty = Tagged ->
            On(Def(c, "extract", I64, <<Op(Tagged, v)>>, 1), LAMBDA d, payload, t :
                FoldLeft(LAMBDA f, q : Bind(f, q, payload, I64), d, p[3]))
      [] p[1] = "PVariant" /\ ty # Tagged -> FoldLeft(LAMBDA f, q : Bind(f, q, v, ty), c, p[3])
      [] OTHER -> c

(* The test of every arm but the first comes after the jump that ends the  *)
(* arm before it: a value that the first pattern does not fit goes to the  *)
(* body of the second arm untested.  Guards are not compiled.              *)
CompileArms(c, arms, i, v, ty, ptr, n) ==
    IF i > Len(arms) THEN Label(c, Part(n, "merge"))
    ELSE LET arm(j) == IF j <= Len(arms) THEN Part(n, "arm" \o ToString(j)) ELSE Part(n, "merge")
         IN  On(CompilePattern(c, arms[i].pattern, v, ty), LAMBDA d, fits, t :
                LET go == IF fits = NoExpr THEN Jump(d, arm(i)) ELSE Branch(d, fits, arm(i), arm(i + 1))
                IN  On(CompileExpr(Bind(Label(go, arm(i)), arms[i].pattern, v, ty), arms[i].body), LAMBDA f, b, bty :
                        CompileArms(Jump(Store(f, bty, b, ptr), Part(n, "merge")), arms, i + 1, v, ty, ptr, n)))

CompileMatch(c, e) ==
    On(CompileExpr(c, e[2]), LAMBDA d, v, ty :
        LET result == StaticType(d, e[3][1].body) IN
        On(Reserve(d, result), LAMBDA f, ptr, t :
            Def(CompileArms(Number(f), e[3], 1, v, ty, ptr, f.n), "load", result, <<Op(Pointer, ptr)>>, "")))

Expression(c, e) ==
    CASE e[1] = "Int" -> Made(c, e, I64)
      [] e[1] = "Bool" -> Made(c, e, I1)
      [] e[1] = "Str" -> Made(c, e, Text)
      [] e[1] = "Null" -> Made(c, Imm(0), I64)
      [] e[1] = "Ident" -> CompileIdent(c, e[2])
      [] e[1] = "Bin" -> CompileBin(c, e)
      [] e[1] = "Un" -> CompileUn(c, e)
      [] e[1] = "Call" -> CompileCall(c, e)
      [] e[1] = "Method" -> CompileMethod(c, e)
      [] e[1] = "Field" -> CompileField(c, e)
      [] e[1] = "Index" -> CompileIndex(c, e)
      [] e[1] = "Range" -> CompileExpr(CompileExpr(c, e[2]).c, e[3])
      [] e[1] = "List" -> CompileList(c, e)
      [] e[1] = "Block" -> CompileBlock(c, e)
      [] e[1] = "IfE" -> CompileIf(c, e)
      [] e[1] = "Closure" -> CompileClosure(c, e)
      [] e[1] = "New" -> CompileNew(c, e)
      [] e[1] = "Variant" -> CompileVariant(c, e)
      [] e[1] = "Inc" -> CompileInc(c, e)
      [] e[1] = "Const" -> CompileExpr(c, e[2])
      [] e[1] = "As" -> On(CompileExpr(c, e[2]), LAMBDA d, v, ty : Made(d, v, Lower(e[3])))
      [] e[1] \in {"Ok", "Err"} -> CompileResult(c, e)
      [] e[1] = "Try" -> CompileTry(c, e)
      [] e[1] = "Catch" -> CompileCatch(c, e)
      [] e[1] = "Elvis" -> CompileElvis(c, e)
      [] e[1] = "Match" -> CompileMatch(c, e)

(***************************************************************************)
(* Statements                                                              *)
(***************************************************************************)
(* The slot has the type of the value where the declared one is not known; *)
(* a truth value that was not expected is stored in 64 bits all the same.  *)
CompileDecl(c, d) ==
    LET ty == IF d[3] = Infer /\ d[5] THEN StaticType(c, d[4]) ELSE Lower(d[3])
        value == CompileExpr(c, d[4])
        slot == Alloca(value.c, d[2], IF ty = I64 THEN value.ty ELSE ty)
    IN  IF ty = I64 /\ value.ty = I1
        THEN On(Def(slot, "zext", I64, <<Op(I1, value.v)>>, ""), LAMBDA f, w, t :
                Store(f, I64, w, Reg(SlotName(d[2]))))
        ELSE StoreInto(slot, d[4], ty, value.v, value.ty, Reg(SlotName(d[2])))

(* The first assignment that is compiled makes the slot, where it stands. *)
CompileAssign(c, x, e) ==
    On(CompileExpr(c, e), LAMBDA d, v, ty :
        LET f == IF x \in DOMAIN d.vars THEN d ELSE Alloca(d, x, ty)
        IN  StoreInto(f, e, f.vars[x].ty, v, ty, f.vars[x].ptr))

CompileReturn(c, e) ==
    IF e = NoExpr THEN Do(c, "ret", <<>>, "")
    ELSE On(CompileExpr(c, e), LAMBDA d, v, ty :
         LET r == IF IsNullable(c.ret) /\ ~IsNullable(ty) THEN WrapNullable(d, c.ret, v, ty, e[1] = "Null")
                  ELSE IF {c.ret, ty} = {I64, Pointer} THEN Def(d, "cast", c.ret, <<Op(ty, v)>>, "")
                  ELSE Made(d, v, ty)
         IN  Do(r.c, "ret", <<Op(r.ty, r.v)>>, ""))

CompileIfStmt(c, s) ==
    LET n == c.n IN
    On(CompileExpr(Number(c), s[2]), LAMBDA d, cond, ty :
        LET then == CompileBody(Label(Branch(d, cond, Part(n, "then"), Part(n, "else")), Part(n, "then")), s[3])
            else == CompileBody(Label(Jump(then, Part(n, "merge")), Part(n, "else")), s[4])
        IN  Label(Jump(else, Part(n, "merge")), Part(n, "merge")))

CompileWhile(c, s) ==
    LET n == c.n IN
    On(CompileExpr(Label(Jump(Number(c), Part(n, "head")), Part(n, "head")), s[2]), LAMBDA d, cond, ty :
        LET body == CompileBody(Label(Branch(d, cond, Part(n, "body"), Part(n, "exit")), Part(n, "body")), s[3])
        IN  Label(Jump(body, Part(n, "head")), Part(n, "exit")))

(* Every loop counts from 0 up to what the range ends with, or the number; *)
(* the register of the comparison is named after the variable alone.       *)
CompileFor(c, s) ==
    LET n == c.n
        cmp == "cmp_" \o s[2]
    IN  On(CompileExpr(Number(c), s[3]), LAMBDA d, end, ty :
        LET slot == Store(Alloca(d, s[2], I64), I64, Imm(0), Reg(SlotName(s[2])))
            head == Label(Jump(slot, Part(n, "cond")), Part(n, "cond"))
        IN  On(Def(head, "load", I64, <<Op(Pointer, Reg(SlotName(s[2])))>>, ""), LAMBDA f, at, t :
            LET test == Branch(Emit(f, "cmp", cmp, I1, <<Op(I64, at), Op(I64, end)>>, "sle"),
                               Reg(cmp), Part(n, "body"), Part(n, "exit"))
                body == CompileBody(Label(test, Part(n, "body")), s[4])
            IN  On(Def(body, "bin", I64, <<Op(I64, at), Op(I64, Imm(1))>>, "add"), LAMBDA g, next, u :
                Label(Jump(Store(g, I64, next, Reg(SlotName(s[2]))), Part(n, "cond")), Part(n, "exit")))))

Statement(c, s) ==
    CASE s[1] = "Decl" -> CompileDecl(c, s)
      [] s[1] = "Assign" -> CompileAssign(c, s[2], s[3])
      [] s[1] = "Do" -> CompileExpr(c, s[2]).c
      [] s[1] = "Return" -> CompileReturn(c, s[2])
      [] s[1] = "For" -> CompileFor(c, s)
      [] s[1] = "While" -> CompileWhile(c, s)
      [] s[1] = "If" -> CompileIfStmt(c, s)

Generate(c, what, n) == IF what = "expr" THEN Expression(c, n) ELSE Statement(c, n)

(***************************************************************************)
(* Functions and modules                                                   *)
(***************************************************************************)
Params(c, types, names) ==
    FoldLeft(LAMBDA d, i : Store(Alloca(d, names[i], types[i]), types[i], Reg(ToString(i)), Reg(SlotName(names[i]))),
             c, [i \in DOMAIN names |-> i])

Open(c) == [c EXCEPT !.code = <<>>, !.vars = <<>>]
Close(c, name, types, ret) ==
    [c EXCEPT !.fns = Put(@, name, [params |-> types, ret |-> ret, code |-> c.code]), !.code = <<>>, !.vars = <<>>]

Default(c, ret) == Do(c, "ret", IF ret = Void THEN <<>> ELSE <<Op(ret, Zero)>>, "")

LowerAll(params) == [i \in DOMAIN params |-> Lower(params[i].type)]

CompileFn(c, name) ==
    LET fn == program.fns[name]
        types == LowerAll(fn.params)
        ret == RetOf(fn)
        body == CompileBody(Params(Open([c EXCEPT !.ret = ret]), types, NamesOf(fn.params)), fn.body)
        ends == fn.body # <<>> /\ Last(fn.body)[1] = "Return"
    IN  Close(IF ends THEN body ELSE Default(body, ret), name, types, ret)

(* self is a copy of what the pointer points at; nothing is written back. *)
Self(c, cl, from) ==
    On(Def(c, "load", <<"class", cl>>, <<Op(Pointer, from)>>, ""), LAMBDA d, obj, ty :
        Store(Alloca(d, "self", ty), ty, obj, Reg(SlotName("self"))))

CompileClassMethod(c, cl, m) ==
    LET fn == program.classes[cl].methods[m]
        types == <<Pointer>> \o LowerAll(fn.params)
        ret == RetOf(fn)
        open == Self(Open([c EXCEPT !.methods = Put(@, MethodName(cl, m), ret)]), cl, Reg("1"))
        params == FoldLeft(LAMBDA d, i : Store(Alloca(d, fn.params[i].name, types[i + 1]), types[i + 1],
                                               Reg(ToString(i + 1)), Reg(SlotName(fn.params[i].name))),
                           open, [i \in DOMAIN fn.params |-> i])
    IN  Close(Default(CompileBody(params, fn.body), ret), MethodName(cl, m), types, ret)

CompileClassInit(c, cl) ==
    LET body == CompileBody(Self(Open([c EXCEPT !.ret = Void]), cl, Reg("1")), program.classes[cl].init)
    IN  [Close(Default(body, Void), "init " \o cl, <<Pointer>>, Void) EXCEPT !.ret = c.ret]

CompileMain(c) ==
    LET body == CompileBody(Open([c EXCEPT !.ret = I32]), program.fns["main"].body)
    IN  Close(Default(body, I32), "main", <<>>, I32)

CompileLater(c, name, params, e) ==
    LET types == LowerAll(params)
        body == CompileStmt(Params(Open([c EXCEPT !.ret = I64]), types, NamesOf(params)), <<"Return", e>>)
    IN  Close(Default(body, I64), name, types, I64)

(* The functions, the methods, the init blocks, main, then the closures. *)
Jobs ==
    LET fns == SelectSeq(program.items, LAMBDA n : n \in DOMAIN program.fns \ {"main"})
        classes == SelectSeq(program.items, LAMBDA n : n \in DOMAIN program.classes)
        Methods(cl) == SetToSeq({<<"method", cl, m>> : m \in DOMAIN program.classes[cl].methods})
    IN  [i \in DOMAIN fns |-> <<"fn", fns[i]>>]
            \o FlattenSeq([i \in DOMAIN classes |-> Methods(classes[i])])
            \o [i \in DOMAIN classes |-> <<"init", classes[i]>>] \o <<<<"main">>>>

(* The return types of all functions are looked at first: the methods see  *)
(* that of the last one.                                                   *)
NewCompiler ==
    LET fns == SelectSeq(program.items, LAMBDA n : n \in DOMAIN program.fns)
    IN  [fns |-> <<>>, todo |-> Jobs, code |-> <<>>, n |-> 0, vars |-> <<>>, tags |-> <<>>, methods |-> <<>>,
         ret |-> RetOf(program.fns[Last(fns)])]

CompileNext(c) ==
    LET job == Head(c.todo)
        d == [c EXCEPT !.todo = Tail(@)]
    IN  CASE job[1] = "fn" -> CompileFn(d, job[2])
          [] job[1] = "method" -> CompileClassMethod(d, job[2], job[3])
          [] job[1] = "init" -> CompileClassInit(d, job[2])
          [] job[1] = "main" -> CompileMain(d)
          [] job[1] = "closure" -> CompileLater(d, job[2], job[3], job[4])
=============================================================================
