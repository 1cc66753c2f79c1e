----------------------------- MODULE TypeCheck -----------------------------
(***************************************************************************)
(* The type checker (src/semantic/typeck.rs, env.rs).  Its state is        *)
(*   vars      the variables of the function, [type, const, moved];        *)
(*   fns, classes, types   what has been declared so far;                  *)
(*   ret       the return type, Infer while it is to be found;             *)
(* and every check gives [st, ok, ty]: the state after it and the type, or *)
(* the kind of the error.                                                  *)
(***************************************************************************)
EXTENDS Syntax, SequencesExt

TInt == <<"Int">>
Auto == <<"Named", "auto">>
TNull == <<"Null">>
TNone == <<"None">>
TBool == <<"Bool">>
TStr == <<"Str">>

Typed(st, ty) == [st |-> st, ok |-> TRUE, ty |-> ty]
Fails(st, kind) == [st |-> st, ok |-> FALSE, ty |-> kind]
Go(r, F(_, _)) == IF r.ok THEN F(r.st, r.ty) ELSE r

(* Mutant: types of one kind are compatible. *)
CompatibleKinds(expected, actual) == expected[1] = actual[1] \/ Infer \in {expected, actual}

RECURSIVE Compatible(_, _)
Compatible(expected, actual) ==
    \/ Infer \in {expected, actual}
    \/ Auto \in {expected, actual}
    \/ actual = TNull
    \/ expected = actual
    \/ expected = <<"Rint">> /\ actual = TInt
    \/ expected = <<"Real">> /\ actual \in {TInt, <<"Rint">>}
    \/ expected[1] = "Nullable" /\ Compatible(expected[2], actual)

Wider(a, b) == IF Compatible(a, b) THEN a ELSE b

IsCopy(t) == t \in {TInt, <<"Rint">>, <<"Real">>, TBool, TNull, TNone}

(* A name that is no declared type stands for itself. *)
Resolve(st, t) == IF t[1] = "Named" /\ t[2] \in DOMAIN st.types THEN st.types[t[2]] ELSE t

Var(type, const) == [type |-> type, const |-> const, moved |-> FALSE]
Knows(st, x) == x \in DOMAIN st.vars
DeclareVar(st, x, type, const) == [st EXCEPT !.vars = Put(@, x, Var(type, const))]
Restore(st, before) == [st EXCEPT !.vars = before.vars]

MoveName(st, x) == IF Knows(st, x) THEN [st EXCEPT !.vars[x].moved = TRUE] ELSE st

(* An expression of a type that is not copied moves the variable it names. *)
RECURSIVE MarkMoved(_, _, _)
MarkMoved(st, e, ty) ==
    CASE IsCopy(ty) -> st
      [] ~IsCopy(ty) /\ e[1] = "Ident" -> MoveName(st, e[2])
      [] ~IsCopy(ty) /\ e[1] = "Field" /\ e[2][1] = "Ident" -> MoveName(st, e[2][2])
      [] ~IsCopy(ty) /\ e[1] = "Variant" -> FoldLeft(LAMBDA s, a : MarkMoved(s, a, Infer), st, e[4])
      [] ~IsCopy(ty) /\ e[1] = "Const" -> MarkMoved(st, e[2], ty)
      [] OTHER -> st

(* Arguments beyond the parameters, and missing ones, are not looked at. *)
RECURSIVE PassAll(_, _, _, _, _)
(* Mutant: arguments are not moved. *)
PassUnmoved(st, params, args, types, ret) ==
    IF \A i \in DOMAIN params \cap DOMAIN types : Compatible(params[i], types[i])
    THEN Typed(st, ret) ELSE Fails(st, "type")

PassAll(st, params, args, types, ret) ==
    IF params = <<>> \/ args = <<>> THEN Typed(st, ret)
    ELSE IF ~Compatible(Head(params), Head(types)) THEN Fails(st, "type")
    ELSE PassAll(IF IsCopy(Head(params)) THEN st ELSE MarkMoved(st, Head(args), Head(types)),
                 Tail(params), Tail(args), Tail(types), ret)

ClassOf(st, t) == IF t[1] = "Named" /\ t[2] \in DOMAIN st.classes THEN t[2] ELSE NoClass

Arithmetic == {"+", "-", "*", "/"}

Covers(arms, v) == \E i \in DOMAIN arms : arms[i].pattern = v
CatchAll(arms) == \E i \in DOMAIN arms : arms[i].pattern[1] \in {"PIgnore", "PIdent"}

(* Every variant or truth value has an arm; guards do not count against it. *)
Exhaustive(t, arms) ==
    \/ CatchAll(arms)
    \/ /\ t = TBool => Covers(arms, <<"PBool", TRUE>>) /\ Covers(arms, <<"PBool", FALSE>>)
       /\ t[1] = "Named" /\ t[2] \in DOMAIN program.enums =>
             \A v \in program.enums[t[2]] :
                \E i \in DOMAIN arms : arms[i].pattern[1] = "PVariant" /\ arms[i].pattern[2] = v

CanCast(from, to) ==
    \/ from[1] = "Named"
    \/ from \in {TInt, <<"Rint">>, <<"Real">>, TBool} /\ to = TStr
    \/ from \in {TInt, <<"Rint">>, <<"Real">>} /\ to = TInt

RECURSIVE TExpr(_, _), TExprs(_, _), TStmt(_, _), TStmts(_, _), TArms(_, _, _)

(***************************************************************************)
(* Expressions                                                             *)
(***************************************************************************)
TExprs(st, es) ==
    IF es = <<>> THEN Typed(st, <<>>)
    ELSE Go(TExpr(st, Head(es)), LAMBDA s, t :
         Go(TExprs(s, Tail(es)), LAMBDA s2, ts : Typed(s2, <<t>> \o ts)))

TIdent(st, x) ==
    IF Knows(st, x) THEN IF st.vars[x].moved THEN Fails(st, "moved") ELSE Typed(st, st.vars[x].type)
    ELSE IF x \in DOMAIN st.fns THEN Typed(st, st.fns[x].ret)
    ELSE Fails(st, "name")

TBin(st, e) ==
    Go(TExpr(st, e[3]), LAMBDA s, l :
    Go(TExpr(s, e[4]), LAMBDA s2, r :
        CASE e[2] \in Arithmetic ->
                IF l = Infer THEN Typed(s2, r)
                ELSE IF Compatible(l, r) \/ Compatible(r, l) THEN Typed(s2, Wider(l, r))
                ELSE Fails(s2, "type")
          [] e[2] = "=" -> Go(TExpr(s2, e[4]), LAMBDA s3, t : Typed(MarkMoved(s3, e[4], t), t))
          [] OTHER -> Typed(s2, TBool)))

(* A function before a variable before a class; a variable that is called *)
(* is not looked at.                                                      *)
TCall(st, e) ==
    Go(TExprs(st, e[3]), LAMBDA s, ts :
        CASE e[2] = "print" -> Typed(s, TNone)
          [] e[2] \in DOMAIN s.fns -> PassAll(s, s.fns[e[2]].params, e[3], ts, s.fns[e[2]].ret)
          [] Knows(s, e[2]) -> Typed(s, Infer)
          [] e[2] \in DOMAIN s.classes ->
                IF \A i \in DOMAIN ts \cap DOMAIN s.classes[e[2]].fields :
                      Compatible(s.classes[e[2]].fields[i].type, ts[i])
                THEN Typed(s, <<"Named", e[2]>>) ELSE Fails(s, "type")
          [] OTHER -> Fails(s, "name"))

(* Only a receiver that is a name is looked at, and only for its class. *)
TMethod(st, e) ==
    Go(TExprs(st, e[4]), LAMBDA s, ts :
        IF e[2][1] # "Ident" THEN Typed(s, Infer)
        ELSE LET x == e[2][2]
                 c == ClassOf(s, IF Knows(s, x) THEN s.vars[x].type ELSE Resolve(s, <<"Named", x>>))
             IN  IF c = NoClass THEN Typed(s, Infer)
                 ELSE IF e[3] \notin DOMAIN s.classes[c].methods THEN Fails(s, "method")
                 ELSE LET m == s.classes[c].methods[e[3]]
                      IN  PassAll(s, TypesOf(m.params), e[4], ts, m.ret))

TClosure(st, e) ==
    LET inside == FoldLeft(LAMBDA s, p : DeclareVar(s, p.name, Resolve(s, p.type), FALSE), st, e[2])
    IN  Go(TExpr(inside, e[3]), LAMBDA s, t : Typed(Restore(s, st), <<"Fn">>))

(* Branches that are expressions share one state. *)
TIf(st, e) ==
    Go(TExpr(st, e[2]), LAMBDA s, c :
    Go(TExpr(s, e[3]), LAMBDA s2, t :
        IF e[4] = NoExpr THEN Typed(s2, t) ELSE Go(TExpr(s2, e[4]), LAMBDA s3, u : Typed(s3, t))))

(* Patterns declare no variable.  The type is that of the first arm. *)
TArms(st, arms, ty) ==
    IF arms = <<>> THEN Typed(st, ty)
    ELSE Go(IF Head(arms).guard = NoExpr THEN Typed(st, TBool) ELSE TExpr(st, Head(arms).guard),
               LAMBDA s, g :
         Go(TExpr(s, Head(arms).body), LAMBDA s2, t :
            TArms(s2, Tail(arms), IF ty = NoExpr THEN t ELSE ty)))

TMatch(st, e) ==
    Go(TExpr(st, e[2]), LAMBDA s, t :
        IF Exhaustive(t, e[3]) THEN TArms(s, e[3], NoExpr) ELSE Fails(s, "match"))

TVariant(st, e) ==
    Go(TExprs(st, e[4]), LAMBDA s, ts :
        Typed(FoldLeft(LAMBDA u, i : MarkMoved(u, e[4][i], ts[i]), s, [i \in DOMAIN ts |-> i]),
              <<"Named", e[2]>>))

TNeg(t) == IF t = TInt THEN <<"Rint">> ELSE t

(* Indices, ranges, ?, try, await and ?: are taken without a look inside. *)
TExpr(st, e) ==
    CASE e[1] = "Int" -> Typed(st, TInt)
      [] e[1] = "Bool" -> Typed(st, TBool)
      [] e[1] = "Str" -> Typed(st, TStr)
      [] e[1] = "Null" -> Typed(st, TNull)
      [] e[1] = "Ident" -> TIdent(st, e[2])
      [] e[1] = "Bin" -> TBin(st, e)
      [] e[1] = "Un" -> Go(TExpr(st, e[3]), LAMBDA s, t : Typed(s, IF e[2] = "-" THEN TNeg(t) ELSE t))
      [] e[1] = "Call" -> TCall(st, e)
      [] e[1] = "Method" -> TMethod(st, e)
      [] e[1] = "Field" -> IF e[3] # "length" THEN Typed(st, Infer)
                           ELSE Go(TExpr(st, e[2]), LAMBDA s, t :
                                Typed(s, IF t = TStr \/ t[1] = "List" THEN TInt ELSE Infer))
      [] e[1] = "List" -> Go(TExprs(st, e[2]), LAMBDA s, ts :
                          Typed(s, <<"List", IF ts = <<>> THEN Infer ELSE ts[1]>>))
      [] e[1] = "Block" -> Go(TStmts(st, e[2]), LAMBDA s, t : Typed(Restore(s, st), TNone))
      [] e[1] = "IfE" -> TIf(st, e)
      [] e[1] = "Closure" -> TClosure(st, e)
      [] e[1] = "New" -> Go(TExprs(st, [i \in DOMAIN e[3] |-> e[3][i][2]]), LAMBDA s, ts : Typed(s, Infer))
      [] e[1] = "Variant" -> TVariant(st, e)
      [] e[1] \in {"Inc", "Const", "Spawn"} -> TExpr(st, e[2])
      [] e[1] = "As" -> Go(TExpr(st, e[2]), LAMBDA s, t :
                        IF CanCast(t, Resolve(s, e[3])) THEN Typed(s, Resolve(s, e[3])) ELSE Fails(s, "type"))
      [] e[1] \in {"Ok", "Err"} -> Go(TExpr(st, e[2]), LAMBDA s, t : Typed(s, Auto))
      [] e[1] = "Match" -> TMatch(st, e)
      [] e[1] \in {"Index", "Range", "Try", "Catch", "Elvis", "Await"} -> Typed(st, Infer)

(***************************************************************************)
(* Statements                                                              *)
(***************************************************************************)
TStmts(st, ss) ==
    IF ss = <<>> THEN Typed(st, TNone)
    ELSE Go(TStmt(st, Head(ss)), LAMBDA s, t : TStmts(s, Tail(ss)))

(* What is declared, assigned for the first time or moved in a body is     *)
(* forgotten after it.                                                     *)
TScope(st, ss, before) == Go(TStmts(st, ss), LAMBDA s, t : Typed(Restore(s, before), TNone))

TDecl(st, d) ==
    IF Knows(st, d[2]) THEN Fails(st, "redeclared")
    ELSE Go(TExpr(st, d[4]), LAMBDA s, t :
         LET ty == IF d[3] = Infer THEN t ELSE Resolve(s, d[3])
             Implements == ty[1] = "Named" /\ ClassOf(s, t) # NoClass
                              /\ ty[2] \in program.classes[t[2]].implements
         IN  IF Compatible(ty, t) \/ Implements
             THEN Typed(DeclareVar(MarkMoved(s, d[4], ty), d[2], ty, d[5] \/ d[4][1] = "Const"), ty)
             ELSE Fails(s, "type"))

TReturn(st, t) ==
    IF st.ret = Infer THEN Typed([st EXCEPT !.ret = t], t)
    ELSE IF Compatible(st.ret, t) THEN Typed(st, t) ELSE Fails(st, "type")

(* The first assignment of an unknown name declares it; assigning does not *)
(* bring back what was moved.                                              *)
TAssign(st, x, e) ==
    IF Knows(st, x) /\ st.vars[x].const THEN Fails(st, "const")
    ELSE Go(TExpr(st, e), LAMBDA s, t :
         IF ~Knows(st, x) THEN Typed(DeclareVar(MarkMoved(s, e, t), x, t, FALSE), t)
         ELSE IF Compatible(st.vars[x].type, t) THEN Typed(MarkMoved(s, e, t), t)
         ELSE Fails(s, "type"))

ElementType(t, of) == IF t[1] = "List" /\ of THEN t[2] ELSE TInt

TStmt(st, s) ==
    CASE s[1] = "Decl" -> TDecl(st, s)
      [] s[1] = "Do" -> TExpr(st, s[2])
      [] s[1] = "Return" -> IF s[2] = NoExpr THEN TReturn(st, TNone)
                            ELSE Go(TExpr(st, s[2]), LAMBDA u, t : TReturn(MarkMoved(u, s[2], t), t))
      [] s[1] = "For" -> Go(TExpr(st, s[3]), LAMBDA u, t :
                         TScope(DeclareVar(u, s[2], ElementType(t, s[5]), FALSE), s[4], u))
      [] s[1] = "While" -> Go(TExpr(st, s[2]), LAMBDA u, t : TScope(u, s[3], u))
      [] s[1] = "If" -> Go(TExpr(st, s[2]), LAMBDA u, t :
                        Go(TScope(u, s[3], u), LAMBDA v, a : TScope(v, s[4], u)))
      [] s[1] = "Assign" -> TAssign(st, s[2], s[3])

(***************************************************************************)
(* Items, in the order of the source                                       *)
(***************************************************************************)
(* Constants of the module are variables, which the next function clears. *)
TFn(st, name, fn) ==
    LET params == [i \in DOMAIN fn.params |-> Resolve(st, fn.params[i].type)]
        sig == [params |-> params, ret |-> IF fn.ret = Infer THEN TNone ELSE Resolve(st, fn.ret)]
        open == [st EXCEPT !.fns = Put(@, name, sig), !.ret = Resolve(st, fn.ret),
                           !.vars = [x \in ToSet(NamesOf(fn.params)) |->
                               Var(params[CHOOSE i \in DOMAIN params : fn.params[i].name = x], FALSE)]]
    IN  Go(TStmts(open, fn.body), LAMBDA s, t :
            IF fn.ret # Infer THEN Typed(s, t)
            ELSE Typed([s EXCEPT !.fns[name].ret = IF s.ret = Infer THEN TNone ELSE s.ret], t))

(* Methods of an interface that the class has with other types, or lacks. *)
Wrong(st, methods, interface) ==
    {m \in DOMAIN interface :
        \/ m \notin DOMAIN methods
        \/ Len(interface[m].params) # Len(methods[m].params)
        \/ \E i \in DOMAIN methods[m].params :
              ~Compatible(Resolve(st, interface[m].params[i]), Resolve(st, methods[m].params[i].type))
        \/ ~Compatible(interface[m].ret, methods[m].ret)}

(* The bodies of the methods are not checked, nor the constructor's types. *)
TClass(st, name, c) ==
    IF c.extends # NoClass /\ c.extends \notin DOMAIN st.classes THEN Fails(st, "name")
    ELSE LET parent == IF c.extends = NoClass THEN [fields |-> <<>>, methods |-> <<>>]
                       ELSE st.classes[c.extends]
             methods == [m \in DOMAIN c.methods |-> [params |-> c.methods[m].params,
                             ret |-> IF c.methods[m].ret = Infer THEN TNone ELSE Resolve(st, c.methods[m].ret)]]
                        @@ parent.methods
             s == [st EXCEPT !.types = Put(@, name, <<"Named", name>>)]
         IN  IF \E i \in c.implements : i \notin DOMAIN program.interfaces THEN Fails(s, "name")
             ELSE IF \E i \in c.implements : Wrong(s, methods, program.interfaces[i]) # {} THEN Fails(s, "type")
             ELSE Typed([s EXCEPT !.classes =
                            Put(@, name, [fields |-> parent.fields \o c.fields, methods |-> methods])], TNone)

TItem(r, name) ==
    Go(r, LAMBDA st, t :
        CASE name \in DOMAIN program.fns -> TFn(st, name, program.fns[name])
          [] name \in DOMAIN program.classes -> TClass(st, name, program.classes[name])
          [] name \in DOMAIN program.enums ->
                Typed([st EXCEPT !.types = Put(@, name, <<"Named", name>>)], TNone)
          [] name \in DOMAIN program.consts ->
                Typed(DeclareVar(st, name, <<program.consts[name][1]>>, TRUE), TNone))

NewChecker == [vars |-> <<>>, fns |-> <<>>, classes |-> <<>>, ret |-> Infer,
               types |-> [n \in DOMAIN program.interfaces |-> <<"Named", n>>]]

CheckModule == FoldLeft(TItem, Typed(NewChecker, TNone), program.items)
=============================================================================
