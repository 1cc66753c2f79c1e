------------------------------- MODULE Interp -------------------------------
(***************************************************************************)
(* The tree-walking interpreter (src/interpret).  Its state is a record:   *)
(*   frames   the stack of scopes, each a map from names to values;        *)
(*   globals, consts   what the module declared, names that are constant;  *)
(*   tasks    the results of the tasks that were spawned and not awaited;  *)
(*   out      what was printed;  fuel   loop rounds and calls left         *)
(* and every evaluation gives [st, k, v]: the state after it, how it ended *)
(* ("value", "return", "error", "panic", or "fuel" when the bound on loops *)
(* and calls was met), and the value, or the kind of the error.            *)
(*                                                                         *)
(* Moves are noted by the interpreter and never looked at (env.rs:422), so *)
(* they are left out.                                                      *)
(***************************************************************************)
EXTENDS Syntax, SequencesExt

None == <<"None">>
Bool(b) == <<"Bool", b>>

Value(st, v) == [st |-> st, k |-> "value", v |-> v]
Returns(st, v) == [st |-> st, k |-> "return", v |-> v]
Error(st, kind) == [st |-> st, k |-> "error", v |-> kind]
Stop(st, how) == [st |-> st, k |-> how, v |-> None]

(* The operator `?` of the source and the macro eval!. *)
Then(r, F(_, _)) == IF r.k = "value" THEN F(r.st, r.v) ELSE r

(* In arguments and list items a return is taken for a value. *)
Flat(r) == IF r.k = "return" THEN [r EXCEPT !.k = "value"] ELSE r

Burn(st, F(_)) == IF st.fuel = 0 THEN Stop(st, "fuel") ELSE F([st EXCEPT !.fuel = @ - 1])

(***************************************************************************)
(* Variables: a name is looked up in every frame, callers' included        *)
(***************************************************************************)
Push(st, frame) == [st EXCEPT !.frames = Append(@, frame)]
Pop(st) == [st EXCEPT !.frames = Front(@)]
Popped(r) == IF r.k \in {"value", "return"} THEN [r EXCEPT !.st = Pop(@)] ELSE r

FramesWith(st, x) == {i \in DOMAIN st.frames : x \in DOMAIN st.frames[i]}

(* Mutant: a name is looked up in the innermost frame only. *)
GetInnermost(st, x) ==
    IF x \in DOMAIN Last(st.frames) THEN Value(st, Last(st.frames)[x])
    ELSE IF x \in DOMAIN st.globals THEN Value(st, st.globals[x])
    ELSE Error(st, "name")

GetVar(st, x) ==
    IF FramesWith(st, x) # {} THEN Value(st, st.frames[Max(FramesWith(st, x))][x])
    ELSE IF x \in DOMAIN st.globals THEN Value(st, st.globals[x])
    ELSE Error(st, "name")

Bind(st, x, v) == [st EXCEPT !.frames[Len(st.frames)] = Put(@, x, v)]

SetVar(st, x, v) ==
    IF x \in st.consts THEN Error(st, "const")
    ELSE IF FramesWith(st, x) # {}
         THEN Value([st EXCEPT !.frames[Max(FramesWith(st, x))] = Put(@, x, v)], None)
    ELSE IF x \in DOMAIN st.globals THEN Value([st EXCEPT !.globals = Put(@, x, v)], None)
    ELSE Value(Bind(st, x, v), None)

(* The parameters that have no argument are none. *)
Arguments(params, args) ==
    [x \in ToSet(params) |->
        LET i == CHOOSE j \in DOMAIN params : params[j] = x
        IN  IF i <= Len(args) THEN args[i] ELSE None]

(***************************************************************************)
(* Values                                                                  *)
(***************************************************************************)
Truthy(v) == v \notin {Bool(FALSE), <<"Int", 0>>, None, <<"Null">>}

Wrap(n) == ((n + MaxInt + 1) % (2 * MaxInt + 2)) - MaxInt - 1

Abs(n) == IF n < 0 THEN -n ELSE n

(* Rust's quotient rounds towards zero. *)
Quotient(a, b) == IF (a < 0) = (b < 0) THEN Abs(a) \div Abs(b) ELSE -(Abs(a) \div Abs(b))

IntOp(st, op, a, b) ==
    CASE op = "+" -> Value(st, <<"Int", Wrap(a + b)>>)
      [] op = "-" -> Value(st, <<"Int", Wrap(a - b)>>)
      [] op = "*" -> Value(st, <<"Int", Wrap(a * b)>>)
      [] op = "/" /\ b = 0 -> Stop(st, "panic")
      [] op = "/" /\ b # 0 -> Value(st, <<"Int", Wrap(Quotient(a, b))>>)
      [] op = "<" -> Value(st, Bool(a < b))
      [] op = ">" -> Value(st, Bool(a > b))

EvalBinop(st, op, l, r) ==
    CASE op = "==" -> Value(st, Bool(l = r))
      [] op = "!=" -> Value(st, Bool(l # r))
      [] op = "&&" -> Value(st, Bool(Truthy(l) /\ Truthy(r)))
      [] op = "||" -> Value(st, Bool(Truthy(l) \/ Truthy(r)))
      [] OTHER -> IF l[1] = "Int" /\ r[1] = "Int" THEN IntOp(st, op, l[2], r[2])
                  ELSE IF op = "+" /\ l[1] = "Str" /\ r[1] = "Str"
                  THEN Value(st, <<"Str", l[2] \o r[2]>>)
                  ELSE Error(st, "type")

EvalUnop(st, op, v) ==
    CASE op = "-" /\ v[1] = "Int" -> Value(st, <<"Int", Wrap(-v[2])>>)
      [] op = "!" /\ v[1] = "Bool" -> Value(st, Bool(~v[2]))
      [] OTHER -> Error(st, "type")

Cast(st, v, type) ==
    IF v[1] \in {"Int", "Bool"} /\ type = <<"Str">> THEN Value(st, <<"Str", ToString(v[2])>>)
    ELSE IF v[1] = "Int" /\ type = <<"Int">> THEN Value(st, v)
    ELSE Error(st, "type")

(* Bounds are inclusive: the end is moved by one, away from the start. *)
RangeOf(a, b) == <<"Range", a, IF a <= b THEN b + 1 ELSE b - 1>>

At(st, list, i) ==
    LET j == IF i < 0 THEN Len(list) + i ELSE i
    IN  IF j \in 0 .. Len(list) - 1 THEN Value(st, list[j + 1]) ELSE Error(st, "bounds")

(* What a for statement goes through. *)
Up(a, b) == [i \in 1 .. b - a |-> <<"Int", a + i - 1>>]
Down(a, b) == [i \in 1 .. a - b |-> <<"Int", a - i + 1>>]
Rounds(v, of) ==
    CASE v[1] = "Range" -> IF v[2] <= v[3] THEN Up(v[2], v[3]) ELSE Down(v[2], v[3])
      [] v[1] = "Int" -> Up(0, v[2])
      [] v[1] = "List" -> IF of THEN v[2] ELSE Up(0, Len(v[2]))

RECURSIVE Matches(_, _)
Matches(p, v) ==
    CASE p[1] \in {"PIgnore", "PIdent"} -> TRUE
      [] p[1] = "PInt" -> v = <<"Int", p[2]>>
      [] p[1] = "PBool" -> v = Bool(p[2])
      [] p[1] = "PVariant" -> /\ v[1] = "Variant" /\ v[2] = p[2]
                              /\ Len(v[3]) = Len(p[3])
                              /\ \A i \in DOMAIN p[3] : Matches(p[3][i], v[3][i])

RECURSIVE Bindings(_, _)
Bindings(p, v) ==
    IF p[1] = "PIdent" THEN p[2] :> v
    ELSE IF p[1] = "PVariant"
    THEN FoldFunction(LAMBDA b, m : b @@ m, <<>>, [i \in DOMAIN p[3] |-> Bindings(p[3][i], v[3][i])])
    ELSE <<>>

(* Pattern variables are set, not declared: a variable of that name that is *)
(* in scope gets the value, and a constant keeps its own.                   *)
RECURSIVE SetAll(_, _)
SetAll(st, bindings) ==
    IF DOMAIN bindings = {} THEN st
    ELSE LET x == CHOOSE y \in DOMAIN bindings : TRUE
         IN  SetAll(SetVar(st, x, bindings[x]).st, [y \in DOMAIN bindings \ {x} |-> bindings[y]])

(***************************************************************************)
(* Classes.  A method is looked up in the class and in its parent; the     *)
(* fields of a class are those of its parent, of its constructor, its own. *)
(***************************************************************************)
Classes == program.classes

RECURSIVE AllFields(_)
AllFields(c) ==
    (IF Classes[c].extends = NoClass THEN <<>> ELSE AllFields(Classes[c].extends))
        \o NamesOf(Classes[c].ctor) \o NamesOf(Classes[c].fields)

Having(c, m) == {d \in {c, Classes[c].extends} \ {NoClass} : m \in DOMAIN Classes[d].methods}
FindMethod(c, m) == Classes[IF c \in Having(c, m) THEN c ELSE Classes[c].extends].methods[m]

FieldIndex(c, f) == {i \in DOMAIN AllFields(c) : AllFields(c)[i] = f}
HasField(c, f) == FieldIndex(c, f) # {}
WithField(obj, f, v) == [obj EXCEPT ![3] = Put(@, Min(FieldIndex(obj[2], f)), v)]
GetField(obj, f) == obj[3][Min(FieldIndex(obj[2], f))]
Blank(c) == <<"Obj", c, [i \in DOMAIN AllFields(c) |-> None]>>

(* obj.f = v changes a copy and stores it in the variable obj. *)
AssignField(st, x, f, v) ==
    LET obj == GetVar(st, x) IN
    IF obj.k = "value" /\ obj.v[1] = "Obj" /\ HasField(obj.v[2], f)
    THEN Then(SetVar(st, x, WithField(obj.v, f, v)), LAMBDA s, n : Value(s, v))
    ELSE Value(st, v)

(* The variable, and the field of it, that a method's changes to its       *)
(* receiver go to: of a longer path the first field only.                  *)
RECURSIVE PathHead(_)
PathHead(e) == IF e[2][1] = "Field" THEN PathHead(e[2]) ELSE <<e[2][2], e[3]>>

WriteBack(st, place, v) ==
    IF place[1] = "Ident" THEN SetVar(st, place[2], v).st
    ELSE IF place[1] = "Field" THEN AssignField(st, PathHead(place)[1], PathHead(place)[2], v).st
    ELSE st

(* A list goes back to a variable only, which must not be constant. *)
Replace(st, place, list, result) ==
    IF place[1] # "Ident" THEN Value(st, result)
    ELSE Then(SetVar(st, place[2], <<"List", list>>), LAMBDA s, n : Value(s, result))

RECURSIVE Eval(_, _), EvalAll(_, _, _), Exec(_, _), ExecAll(_, _), Loop(_, _, _, _), While(_, _),
          RunInits(_, _, _), Arms(_, _, _)

(***************************************************************************)
(* Expressions                                                             *)
(***************************************************************************)
(* From left to right; a return in an argument or an item is its value. *)
EvalAll(st, es, flat) ==
    IF es = <<>> THEN Value(st, <<>>)
    ELSE Then(IF flat THEN Flat(Eval(st, Head(es))) ELSE Eval(st, Head(es)), LAMBDA s, v :
         Then(EvalAll(s, Tail(es), flat), LAMBDA s2, vs : Value(s2, <<v>> \o vs)))

(* The right operand is evaluated before the left, and both always are. *)
EvalBin(st, e) ==
    Then(Eval(st, e[4]), LAMBDA s, r :
        IF e[2] # "=" THEN Then(Eval(s, e[3]), LAMBDA s2, l : EvalBinop(s2, e[2], l, r))
        ELSE IF e[3][1] = "Field" THEN AssignField(s, e[3][2][2], e[3][3], r)
        ELSE Then(SetVar(s, e[3][2], r), LAMBDA s2, n : Value(s2, r)))

(* A body that ends without a return gives none. *)
Apply(st, fn, frame, After(_)) ==
    Burn(st, LAMBDA s0 :
        LET r == ExecAll(Push(s0, frame), fn.body) IN
        IF r.k \in {"value", "return"}
        THEN Value(Pop(After(r.st)), IF r.k = "return" THEN r.v ELSE None)
        ELSE r)

Same(st) == st

SelfOf(st, default) ==
    IF "self" \in DOMAIN Last(st.frames) THEN Last(st.frames)["self"] ELSE default

Construct(st, c, args) ==
    LET given == Arguments(NamesOf(Classes[c].ctor), args)
        obj == [i \in DOMAIN AllFields(c) |->
                    IF AllFields(c)[i] \in DOMAIN given THEN given[AllFields(c)[i]] ELSE None]
    IN  RunInits(st, c, <<"Obj", c, obj>>)

CallNamed(st, f, args) ==
    CASE f = "print" -> Value([st EXCEPT !.out = @ \o args], None)
      [] f \in DOMAIN program.fns ->
            Apply(st, program.fns[f], Arguments(NamesOf(program.fns[f].params), args), Same)
      [] f \in DOMAIN Classes -> Construct(st, f, args)
      [] OTHER ->
            LET var == GetVar(st, f) IN
            IF var.k = "value" /\ var.v[1] = "Fn"
            THEN Apply(st, [body |-> <<<<"Return", var.v[3]>>>>], Arguments(var.v[2], args), Same)
            ELSE Error(st, "name")

(* A method runs on a copy of its receiver, which replaces the variable or *)
(* field it came from when the method is done; super is the receiver too.  *)
Invoke(st, place, obj, c, m, args) ==
    LET fn == FindMethod(c, m)
        frame == Put(Put(Arguments(NamesOf(fn.params), args), "self", obj), "super", obj)
    IN  IF c = NoClass \/ Having(c, m) = {} THEN Error(st, "method")
        ELSE Then(Apply(st, fn, frame, LAMBDA s : [s EXCEPT !.self = SelfOf(s, NoExpr)]), LAMBDA s, v :
                 Value(IF s.self = NoExpr THEN s ELSE WriteBack(s, place, s.self), v))

ListMethod(st, place, list, m, args) ==
    CASE list[1] # "List" -> Error(st, "type")
      [] m = "push" -> Replace(st, place, list[2] \o args, None)
      [] m = "pop" -> IF list[2] = <<>> THEN Error(st, "bounds")
                      ELSE Replace(st, place, Front(list[2]), Last(list[2]))
      [] m = "len" -> Value(st, <<"Int", Len(list[2])>>)
      [] OTHER -> Error(st, "method")

(* The receiver is evaluated once to see whether it belongs to the network  *)
(* library, whatever comes of it, and again after the arguments.            *)
EvalMethod(st, e) ==
    LET early == Eval(st, e[2]) IN
    IF early.k \in {"panic", "fuel"} THEN early
    ELSE Then(EvalAll(early.st, e[4], TRUE), LAMBDA s, args :
         Then(Eval(s, e[2]), LAMBDA s2, obj :
            IF obj[1] = "Obj"
            THEN Invoke(s2, e[2], obj, IF e[2] = <<"Ident", "super">> THEN Classes[obj[2]].extends
                                       ELSE obj[2], e[3], args)
            ELSE ListMethod(s2, e[2], obj, e[3], args)))

EvalField(st, e) ==
    Then(Eval(st, e[2]), LAMBDA s, obj :
        IF obj[1] = "Obj" /\ HasField(obj[2], e[3]) THEN Value(s, GetField(obj, e[3]))
        ELSE IF obj[1] = "Obj" /\ e[3] \in DOMAIN Classes[obj[2]].methods THEN Value(s, <<"Str", e[3]>>)
        ELSE IF obj[1] = "List" /\ e[3] = "length" THEN Value(s, <<"Int", Len(obj[2])>>)
        ELSE Error(s, "field"))

EvalIndex(st, e) ==
    Then(Eval(st, e[2]), LAMBDA s, list :
    Then(Eval(s, e[3]), LAMBDA s2, i :
        IF list[1] = "List" /\ i[1] = "Int" THEN At(s2, list[2], i[2]) ELSE Error(s2, "type")))

EvalRange(st, e) ==
    Then(Eval(st, e[2]), LAMBDA s, a :
    Then(Eval(s, e[3]), LAMBDA s2, b :
        IF a[1] = "Int" /\ b[1] = "Int" THEN Value(s2, RangeOf(a[2], b[2])) ELSE Error(s2, "type")))

(* A return inside a block is the value of the block. *)
EvalBlock(st, e) == Flat(Popped(ExecAll(Push(st, <<>>), e[2])))

EvalIf(st, e) ==
    Then(Eval(st, e[2]), LAMBDA s, c :
        IF Truthy(c) THEN Eval(s, e[3]) ELSE IF e[4] = NoExpr THEN Value(s, None) ELSE Eval(s, e[4]))

EvalNew(st, e) ==
    LET c == e[2]
        Fill(r, f) == Then(r, LAMBDA s, obj :
            IF ~HasField(c, f[1]) THEN Error(s, "field")
            ELSE Then(Eval(s, f[2]), LAMBDA s2, v : Value(s2, WithField(obj, f[1], v))))
    IN  IF c \notin DOMAIN Classes THEN Error(st, "name")
        ELSE Then(FoldLeft(Fill, Value(st, Blank(c)), e[3]), LAMBDA s, obj : RunInits(s, c, obj))

(* An init block may return an error, which takes the place of the object. *)
RunInit(st, c, obj) ==
    LET r == ExecAll(Push(st, "self" :> obj), Classes[c].init) IN
    IF r.k = "value" THEN Value(Pop(r.st), SelfOf(r.st, obj))
    ELSE IF r.k = "return" /\ r.v[1] # "Err" THEN Error(Pop(r.st), "init")
    ELSE Popped(r)

(* All blocks of the parent, then those of the parent itself once more,    *)
(* then the own ones.                                                      *)
RunInits(st, c, obj) ==
    IF Classes[c].extends = NoClass THEN Flat(RunInit(st, c, obj))
    ELSE Then(RunInits(st, Classes[c].extends, obj), LAMBDA s, o :
         Flat(Then(RunInit(s, Classes[c].extends, o), LAMBDA s2, o2 : RunInit(s2, c, o2))))

EvalInc(st, e) ==
    Then(Eval(st, e[2]), LAMBDA s, v :
    Then(EvalBinop(s, "+", v, <<"Int", 1>>), LAMBDA s2, n :
        IF e[2][1] = "Ident" THEN Then(SetVar(s2, e[2][2], n), LAMBDA s3, x : Value(s3, v))
        ELSE Error(s2, "type")))

(* The operator ? of the language: an error leaves the function. *)
EvalTry(st, e) ==
    Then(Eval(st, e[2]), LAMBDA s, v :
        CASE v[1] = "Ok" -> Value(s, v[2])
          [] v[1] = "Err" -> Returns(s, v)
          [] OTHER -> Error(s, "type"))

(* An error that is returned in the body is caught, any other return goes  *)
(* on; a return of the handler is the value of the whole.                  *)
EvalCatch(st, e) ==
    LET r == Popped(ExecAll(Push(st, <<>>), e[2])) IN
    IF r.k = "return" /\ r.v[1] = "Err"
    THEN Flat(Popped(ExecAll(Push(r.st, e[3] :> r.v), e[4])))
    ELSE r

EvalElvis(st, e) ==
    Then(Eval(st, e[2]), LAMBDA s, a : IF a = <<"Null">> THEN Eval(s, e[3]) ELSE Value(s, a))

(* The first arm that matches and whose guard holds.  A guard that returns *)
(* leaves its frame behind.                                                *)
Arms(st, arms, v) ==
    IF arms = <<>> THEN Error(st, "match")
    ELSE LET arm == Head(arms)
             bound == SetAll(Push(st, <<>>), Bindings(arm.pattern, v))
             guard == IF arm.guard = NoExpr THEN Value(bound, Bool(TRUE)) ELSE Eval(bound, arm.guard)
             Scoped(s) == SetAll(Push(s, <<>>), Bindings(arm.pattern, v))
         IN  IF ~Matches(arm.pattern, v) THEN Arms(st, Tail(arms), v)
             ELSE Then(guard, LAMBDA s, ok :
                CASE ok = Bool(TRUE) -> LET r == Eval(Scoped(Pop(s)), arm.body)
                                        IN  [r EXCEPT !.st = Pop(@)]
                  [] ok = Bool(FALSE) -> Arms(Pop(s), Tail(arms), v)
                  [] OTHER -> Error(Pop(s), "type"))

(* A task has the functions and the classes but no variable; what it prints *)
(* is lost and an error becomes its result.                                 *)
EvalSpawn(st, e) ==
    LET r == Eval([st EXCEPT !.frames = <<<<>>, <<>>>>, !.globals = <<>>, !.consts = {},
                             !.tasks = <<>>, !.out = <<>>], e[2])
        result == CASE r.k \in {"value", "return"} -> r.v
                    [] r.k = "panic" -> NoExpr
                    [] OTHER -> <<"Str", "failed">>
    IN  IF r.k = "fuel" THEN Stop(st, "fuel")
        ELSE Value([st EXCEPT !.tasks = Append(@, result)], <<"Int", Len(st.tasks)>>)

EvalAwait(st, e) ==
    Then(Eval(st, e[2]), LAMBDA s, t :
        IF t[1] # "Int" \/ t[2] < 0 THEN Value(s, t)
        ELSE IF t[2] >= Len(s.tasks) THEN Value(s, None)
        ELSE IF s.tasks[t[2] + 1] = NoExpr THEN Error(s, "task")
        ELSE Value([s EXCEPT !.tasks[t[2] + 1] = None], s.tasks[t[2] + 1]))

Eval(st, e) ==
    CASE e[1] \in {"Int", "Bool", "Str", "Null"} -> Value(st, e)
      [] e[1] = "Ident" -> GetVar(st, e[2])
      [] e[1] = "Bin" -> EvalBin(st, e)
      [] e[1] = "Un" -> Then(Eval(st, e[3]), LAMBDA s, v : EvalUnop(s, e[2], v))
      [] e[1] = "Call" -> Then(EvalAll(st, e[3], TRUE), LAMBDA s, args : CallNamed(s, e[2], args))
      [] e[1] = "Method" -> EvalMethod(st, e)
      [] e[1] = "Field" -> EvalField(st, e)
      [] e[1] = "Index" -> EvalIndex(st, e)
      [] e[1] = "Range" -> EvalRange(st, e)
      [] e[1] = "List" -> Then(EvalAll(st, e[2], TRUE), LAMBDA s, vs : Value(s, <<"List", vs>>))
      [] e[1] = "Block" -> EvalBlock(st, e)
      [] e[1] = "IfE" -> EvalIf(st, e)
      [] e[1] = "Closure" -> Value(st, <<"Fn", NamesOf(e[2]), e[3]>>)
      [] e[1] = "New" -> EvalNew(st, e)
      [] e[1] = "Variant" -> Then(EvalAll(st, e[4], FALSE), LAMBDA s, vs : Value(s, <<"Variant", e[3], vs>>))
      [] e[1] = "Inc" -> EvalInc(st, e)
      [] e[1] = "Const" -> Eval(st, e[2])
      [] e[1] = "As" -> Then(Eval(st, e[2]), LAMBDA s, v : Cast(s, v, e[3]))
      [] e[1] \in {"Ok", "Err"} -> Then(Eval(st, e[2]), LAMBDA s, v : Value(s, <<e[1], v>>))
      [] e[1] = "Try" -> EvalTry(st, e)
      [] e[1] = "Catch" -> EvalCatch(st, e)
      [] e[1] = "Elvis" -> EvalElvis(st, e)
      [] e[1] = "Match" -> Then(Eval(st, e[2]), LAMBDA s, v : Arms(s, e[3], v))
      [] e[1] = "Spawn" -> EvalSpawn(st, e)
      [] e[1] = "Await" -> EvalAwait(st, e)

(***************************************************************************)
(* Statements: "value" goes on with the next one                           *)
(***************************************************************************)
ExecAll(st, ss) ==
    IF ss = <<>> THEN Value(st, None)
    ELSE Then(Exec(st, Head(ss)), LAMBDA s, v : ExecAll(s, Tail(ss)))

Scope(st, frame, ss) == Popped(ExecAll(Push(st, frame), ss))

(* Constness belongs to the name from here on, in every scope. *)
Declare(st, d) ==
    Then(Eval(st, d[4]), LAMBDA s, v :
        LET s2 == IF d[5] \/ d[4][1] = "Const" THEN [s EXCEPT !.consts = @ \cup {d[2]}] ELSE s
        IN  Value(Bind(s2, d[2], v), None))

Assign(st, a) ==
    IF a[2] \in st.consts THEN Error(st, "const")
    ELSE Then(Eval(st, a[3]), LAMBDA s, v : SetVar(s, a[2], v))

Loop(st, x, rounds, body) ==
    IF rounds = <<>> THEN Value(st, None)
    ELSE Then(Scope(st, x :> Head(rounds), body), LAMBDA s, v : Loop(s, x, Tail(rounds), body))

For(st, f) ==
    Then(Eval(st, f[3]), LAMBDA s, v :
        IF v[1] \in {"Range", "Int", "List"} THEN Loop(s, f[2], Rounds(v, f[5]), f[4])
        ELSE Error(s, "type"))

While(st, w) ==
    Then(Eval(st, w[2]), LAMBDA s, c :
        IF ~Truthy(c) THEN Value(s, None)
        ELSE Burn(s, LAMBDA s2 : Then(Scope(s2, <<>>, w[3]), LAMBDA s3, v : While(s3, w))))

If(st, i) ==
    Then(Eval(st, i[2]), LAMBDA s, c : Scope(s, <<>>, IF Truthy(c) THEN i[3] ELSE i[4]))

Exec(st, s) ==
    CASE s[1] = "Decl" -> Declare(st, s)
      [] s[1] = "Assign" -> Assign(st, s)
      [] s[1] = "Do" -> Eval(st, s[2])
      [] s[1] = "Return" -> IF s[2] = NoExpr THEN Returns(st, None)
                            ELSE Then(Eval(st, s[2]), LAMBDA t, v : Returns(t, v))
      [] s[1] = "For" -> For(st, s)
      [] s[1] = "While" -> While(st, s)
      [] s[1] = "If" -> If(st, s)

(***************************************************************************)
(* run_main                                                                *)
(***************************************************************************)
Start == [frames |-> <<<<>>, <<>>>>, globals |-> program.consts, consts |-> DOMAIN program.consts,
          tasks |-> <<>>, out |-> <<>>, fuel |-> Fuel, self |-> None]

RunMain == ExecAll(Start, program.fns["main"].body)
=============================================================================
