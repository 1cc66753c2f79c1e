------------------------------- MODULE Syntax -------------------------------
(***************************************************************************)
(* The programs that the checkers, the interpreter and the code generator  *)
(* of yidika work on: the trees of src/syntax/ast.rs.  A node is a tuple   *)
(* whose first component names its kind; spans and ids are left out.       *)
(*                                                                         *)
(* Expressions                                                             *)
(*   <<"Int", n>> <<"Bool", b>> <<"Str", s>> <<"Null">> <<"Ident", x>>     *)
(*   <<"Bin", op, l, r>>  <<"Un", op, e>>     <<"Call", f, args>>          *)
(*   <<"Method", obj, m, args>>               <<"Field", obj, f>>          *)
(*   <<"Index", obj, i>>  <<"Range", a, b>>   <<"List", items>>            *)
(*   <<"Block", stmts>>   <<"IfE", c, t, e>>  <<"Closure", params, e>>     *)
(*   <<"New", class, <<<<field, e>>>> >>      <<"Variant", enum, v, args>> *)
(*   <<"Inc", e>>         <<"Const", e>>      <<"As", e, type>>            *)
(*   <<"Ok", e>>          <<"Err", e>>        <<"Try", e>>                 *)
(*   <<"Catch", stmts, x, stmts>>             <<"Elvis", a, b>>            *)
(*   <<"Match", e, <<[pattern, guard, body]>> >>                           *)
(*   <<"Spawn", e>>       <<"Await", e>>                                   *)
(* and, which only the parser makes,                                       *)
(*   <<"Literal", text>>  <<"Apply", e, args>> <<"Safe", obj, f>>          *)
(*   <<"Dec", e>>         <<"FnLit", params, type, e>>                     *)
(*   <<"Map", pairs>>     <<"Set", items>>    <<"Tuple", items>>           *)
(*   <<"Vector", items>>  <<"Matrix", rows>>                               *)
(* Statements                                                              *)
(*   <<"Decl", x, type, e, const>>            <<"Assign", x, e>>           *)
(*   <<"Do", e>>          <<"Return", e>>     <<"For", x, e, stmts, of>>   *)
(*   <<"While", e, stmts>>                    <<"If", e, stmts, stmts>>    *)
(*   <<"Loop", stmts>>    <<"Destruct", pattern, e>>                       *)
(* Patterns                                                                *)
(*   <<"PIgnore">> <<"PIdent", x>> <<"PInt", n>> <<"PBool", b>>            *)
(*   <<"PVariant", v, patterns>>                                           *)
(*   <<"PLiteral", text>> <<"PRest", x>> <<"PList", patterns>>             *)
(*   <<"PFields", <<<<field, pattern>>>> >>                                *)
(* Types                                                                   *)
(*   <<"Int">> <<"Rint">> <<"Real">> <<"Bool">> <<"Str">> <<"Null">>       *)
(*   <<"None">> <<"Infer">> <<"Named", n>> <<"List", t>> <<"Nullable", t>> *)
(*   <<"Generic", n, types>> <<"Fn">>, which is not written                *)
(*   <<"Set", t>> <<"Map", k, v>> <<"Vector", t>> <<"Matrix", t>>          *)
(*   <<"Complex", t, u>> <<"Symbol">> <<"Const", t>> <<"Union", types>>    *)
(***************************************************************************)
EXTENDS Integers, Sequences, SequencesExt

CONSTANTS Fuel, Steps, MaxInt
VARIABLE program

(* Bounds: rounds and calls of an interpreted run, the logarithm of the     *)
(* instructions of a native one, and the largest integer.                  *)

(* program is [items, fns, classes, enums, interfaces, consts, others,      *)
(* imports, exports]: the names of its items in their order, a map from     *)
(* names for every kind of item, its imports, [names, source], and the      *)
(* names it exports.                                                        *)
(*   a function, a method   [params, ret, body]                              *)
(*   a class      [extends, implements, ctor, fields, methods, init]         *)
(*   an enum      the set of its variants                                    *)
(*   an interface a map from methods to [params, ret], params being types    *)
(*   a constant   its value                                                  *)
(*   another      <<kind, what it is>>, of a struct, union, type or object   *)
(* A parameter or field is [name, type]; self is no parameter here.          *)
Infer == <<"Infer">>
NoExpr == <<"NoExpr">>
NoClass == "no class"

NamesOf(params) == [i \in DOMAIN params |-> params[i].name]
TypesOf(params) == [i \in DOMAIN params |-> params[i].type]

(* A finite map with one more entry, or another value for one it has. *)
Put(map, name, value) == (name :> value) @@ map

(* The expressions and statements that a node is made of, in their order. *)
Children(n) ==
    CASE n[1] = "Bin" -> <<n[3], n[4]>>
      [] n[1] = "Un" -> <<n[3]>>
      [] n[1] = "Call" -> n[3]
      [] n[1] = "Apply" -> <<n[2]>> \o n[3]
      [] n[1] = "Method" -> <<n[2]>> \o n[4]
      [] n[1] \in {"Field", "Safe", "Inc", "Dec", "Const", "As", "Ok", "Err", "Try", "Spawn", "Await", "Do"} -> <<n[2]>>
      [] n[1] \in {"Index", "Range", "Elvis"} -> <<n[2], n[3]>>
      [] n[1] \in {"List", "Set", "Tuple", "Vector", "Block", "Loop"} -> n[2]
      [] n[1] \in {"Map", "Matrix"} -> FlattenSeq(n[2])
      [] n[1] = "IfE" -> IF n[4] = NoExpr THEN <<n[2], n[3]>> ELSE <<n[2], n[3], n[4]>>
      [] n[1] \in {"Closure", "Destruct"} -> <<n[3]>>
      [] n[1] = "FnLit" -> <<n[4]>>
      [] n[1] = "New" -> [i \in DOMAIN n[3] |-> n[3][i][2]]
      [] n[1] = "Variant" -> n[4]
      [] n[1] = "Match" -> <<n[2]>> \o
            FlattenSeq([i \in DOMAIN n[3] |->
                IF n[3][i].guard = NoExpr THEN <<n[3][i].body>> ELSE <<n[3][i].guard, n[3][i].body>>])
      [] n[1] = "Catch" -> n[2] \o n[4]
      [] n[1] = "Decl" -> <<n[4]>>
      [] n[1] = "Assign" -> <<n[3]>>
      [] n[1] = "Return" -> IF n[2] = NoExpr THEN <<>> ELSE <<n[2]>>
      [] n[1] = "For" -> <<n[3]>> \o n[4]
      [] n[1] = "While" -> <<n[2]>> \o n[3]
      [] n[1] = "If" -> <<n[2]>> \o n[3] \o n[4]
      [] OTHER -> <<>>

(* All nodes of a list of trees, in the order of the source. *)
RECURSIVE InOrder(_)
InOrder(trees) == FlattenSeq([i \in DOMAIN trees |-> <<trees[i]>> \o InOrder(Children(trees[i]))])
NodesOf(trees) == ToSet(InOrder(trees))
=============================================================================
