------------------------------ MODULE Language ------------------------------
(***************************************************************************)
(* A program on its way through yidika: the parser reads it, the type      *)
(* checker and the borrow checker look at it, the interpreter runs it, the *)
(* code generator compiles it and the native program runs.                 *)
(***************************************************************************)
EXTENDS Syntax, SequencesExt

CONSTANT Pool   \* families of programs to look at

VARIABLES
    written,    \* the program as its author means it
    unread,     \* the tokens that the parser has not read
    phase,      \* what was done last
    checked,    \* the verdict of the type checker, [ok, kind, vars]
    borrowed,   \* the variables the borrow checker complains about
    ran,        \* how the interpreter ended, [k, v, out, depth, vars]
    code,       \* what the code generator made of it
    native      \* how the native program ended, [k, out]

vars == <<written, unread, program, phase, checked, borrowed, ran, code, native>>

Reader == INSTANCE Parser
Text == INSTANCE Written WITH program <- written
Checker == INSTANCE TypeCheck
Borrows == INSTANCE BorrowCheck
Interpreter == INSTANCE Interp
Native == INSTANCE Machine
Paths == INSTANCE MovePaths

BodiesOf(m) ==
    {m.fns[f].body : f \in DOMAIN m.fns}
        \cup UNION {{c.init} \cup {c.methods[n].body : n \in DOMAIN c.methods} :
                     c \in {m.classes[n] : n \in DOMAIN m.classes}}
Bodies == BodiesOf(program)
Nodes == UNION {NodesOf(b) : b \in Bodies}
Kinds == {n[1] : n \in Nodes}

Init ==
    /\ \E f \in DOMAIN Pool : written \in Pool[f]
    /\ unread = <<>>
    /\ program = Reader!Empty
    /\ phase = "meant"
    /\ checked = [ok |-> FALSE, kind |-> "", vars |-> <<>>]
    /\ borrowed = {}
    /\ ran = [k |-> "not", v |-> <<"None">>, out |-> <<>>, depth |-> 0, vars |-> <<>>]
    /\ code = <<>>
    /\ native = [k |-> "not", out |-> <<>>]

WriteDown ==
    /\ phase = "meant"
    /\ unread' = Text!WriteModule
    /\ phase' = "written"
    /\ UNCHANGED <<written, program, checked, borrowed, ran, code, native>>

(* One item or import at a time. *)
Parse ==
    /\ phase = "written"
    /\ LET p == Reader!Cursor(unread)
       IN  IF Reader!Kind(p) = "eof" THEN phase' = "parsed" /\ UNCHANGED <<unread, program>>
           ELSE \E r \in {Reader!TopLevel(p, program)} :
                   IF r.ok THEN unread' = r.p.toks /\ program' = r.v /\ UNCHANGED phase
                   ELSE phase' = "refused" /\ UNCHANGED <<unread, program>>
    /\ UNCHANGED <<written, checked, borrowed, ran, code, native>>

(* The parts of the language that the later phases are modelled for. *)
Executable ==
    /\ program.imports = <<>> /\ program.others = <<>> /\ program.exports = <<>>
    /\ Kinds \cap {"Literal", "Apply", "Safe", "Dec", "FnLit", "Map", "Set", "Tuple", "Vector", "Matrix", "Loop",
                    "Destruct", "Null"} = {}
    /\ \A n \in Nodes : n[1] = "Bin" => n[2] \in {"+", "-", "*", "/", "<", ">", "==", "!=", "&&", "||", "="}

Check ==
    /\ phase = "parsed" /\ Executable
    /\ \E r \in {Checker!CheckModule} :
           checked' = [ok |-> r.ok, kind |-> IF r.ok THEN "" ELSE r.ty, vars |-> r.st.vars]
    /\ phase' = "checked"
    /\ UNCHANGED <<written, unread, program, borrowed, ran, code, native>>

(* Only the tests of the repository call the borrow checker. *)
Borrow ==
    /\ phase = "checked" /\ checked.ok
    /\ borrowed' = Borrows!BorrowErrors
    /\ phase' = "borrowed"
    /\ UNCHANGED <<written, unread, program, checked, ran, code, native>>

Interpret ==
    /\ phase = "borrowed"
    /\ \E r \in {Interpreter!RunMain} :
           ran' = [k |-> r.k, v |-> r.v, out |-> r.st.out, depth |-> Len(r.st.frames), vars |-> Last(r.st.frames)]
    /\ phase' = "interpreted"
    /\ UNCHANGED <<written, unread, program, checked, borrowed, code, native>>

Open ==
    /\ phase = "interpreted" /\ Kinds \cap {"Spawn", "Await"} = {}
    /\ code' = Native!NewCompiler
    /\ phase' = "compiling"
    /\ UNCHANGED <<written, unread, program, checked, borrowed, ran, native>>

(* One function, method, init block or closure. *)
Compile ==
    /\ phase = "compiling" /\ code.todo # <<>>
    /\ code' = Native!CompileNext(code)
    /\ UNCHANGED <<written, unread, program, phase, checked, borrowed, ran, native>>

(* A module that LLVM refuses gives no program. *)
Build ==
    /\ phase = "compiling" /\ code.todo = <<>>
    /\ native' = [native EXCEPT !.k = IF Native!Builds(code.fns) THEN "built" ELSE "refused"]
    /\ phase' = "built"
    /\ UNCHANGED <<written, unread, program, checked, borrowed, ran, code>>

Run ==
    /\ phase = "built" /\ native.k = "built"
    /\ \E m \in {Native!Execute(code.fns, Native!Boot, Steps)} :
           native' = [k |-> m.k, out |-> m.out]
    /\ phase' = "executed"
    /\ UNCHANGED <<written, unread, program, checked, borrowed, ran, code>>

Next == WriteDown \/ Parse \/ Check \/ Borrow \/ Interpret \/ Open \/ Compile \/ Build \/ Run
Spec == Init /\ [][Next]_vars

(***************************************************************************)
(* The programs that both back ends are expected to agree on               *)
(***************************************************************************)
Effects == {"Call", "Method", "Inc", "New"}
Quiet(e) == \A n \in NodesOf(<<e>>) : n[1] \notin Effects

(* Operands are computed from the right by one and from the left by the    *)
(* other, equality and the logical operators are not compiled rightly.     *)
PlainOperator(n) ==
    /\ n[2] \in {"+", "-", "*", "/", "<", ">"}
    /\ Quiet(n[3]) /\ Quiet(n[4])
    /\ n[2] = "/" => n[4][1] = "Int" /\ n[4][2] # 0

(* Counting starts at 0 in a compiled loop, and goes up. *)
PlainLoop(n) == n[3][1] = "Range" /\ n[3][2] = <<"Int", 0>> /\ n[3][3][1] = "Int"

Refutable(p) == p[1] \in {"PInt", "PBool", "PVariant"}
PlainMatch(arms) ==
    /\ \A i \in DOMAIN arms : arms[i].guard = NoExpr /\ (Refutable(arms[i].pattern) => i = 1)

(* Inherited fields are missing in compiled objects, init blocks of parents *)
(* and of objects that are written out do not run, and a field that the     *)
(* constructor does not set is 0, not none.                                 *)
PlainClass(c) == program.classes[c].extends = NoClass
PlainCall(n) ==
    CASE n[2] \in DOMAIN program.classes -> PlainClass(n[2]) /\ program.classes[n[2]].fields = <<>>
      [] n[2] \in DOMAIN program.fns -> Len(n[3]) = Len(program.fns[n[2]].params)
      [] OTHER -> TRUE

(* A compiled list is shared by the variables that it was assigned to. *)
Source(n) == IF n[1] = "Decl" THEN n[4] ELSE n[3]
Shared == {<<Source(n)[2], n[2]>> : n \in {m \in Nodes : m[1] \in {"Decl", "Assign"} /\ Source(m)[1] = "Ident"}}
PlainReceiver(n) == n[3] \in {"push", "pop"} => n[2][1] # "Ident" \/ \A s \in Shared : n[2][2] \notin ToSet(s)

Literal(e) == e[1] \in {"Bool", "Str"}

PlainNode(n) ==
    CASE n[1] = "Bin" -> PlainOperator(n)
      [] n[1] = "For" -> PlainLoop(n)
      [] n[1] = "Call" -> PlainCall(n)
      [] n[1] = "New" -> PlainClass(n[2]) /\ program.classes[n[2]].init = <<>>
      [] n[1] = "Method" -> PlainReceiver(n)
      [] n[1] = "IfE" -> ~Literal(n[3]) /\ ~Literal(n[4])
      [] n[1] = "Match" -> PlainMatch(n[3])
      [] n[1] \in {"Un", "Catch", "Block", "Closure", "Elvis"} -> FALSE
      [] OTHER -> TRUE

(* Variables that are named twice in a body have one slot in compiled code. *)
Named(b) == SelectSeq(InOrder(b), LAMBDA n : n[1] \in {"Decl", "For"})
NamedOnce(b) == LET d == Named(b) IN \A i, j \in DOMAIN d : i # j => d[i][2] # d[j][2]

Portable ==
    /\ \A b \in Bodies : NamedOnce(b)
    /\ \A n \in Nodes : PlainNode(n)
    /\ \A n \in NodesOf(program.fns["main"].body) : n[1] \notin {"Return", "Try"}

Finished == phase = "executed" \/ (phase = "built" /\ native.k = "refused")

(***************************************************************************)
(* Properties                                                              *)
(***************************************************************************)
(* What the parser is known to mistake: a vector that begins with a call is *)
(* taken for a call with a closure behind it, a guard that begins with a    *)
(* bracket for a closure, a block that begins with a bracket for a set, a   *)
(* block that begins with a declaration for a map, and the brace behind an  *)
(* object literal or a server's method for theirs.                          *)
Opens(e) == Text!Write(e)[1][1] \in {"(", "Ok", "Error"}
Mistaken(n) ==
    CASE n[1] = "Vector" -> n[2][1][1] \in Reader!Calls
      [] n[1] = "Block" -> Text!Write(n)[2][1] = "(" \/ n[2][1][1] = "Decl"
      [] n[1] = "Match" ->
            \/ n[2][1] \in {"New", "Method"}
            \/ \E i \in DOMAIN n[3] : n[3][i].guard # NoExpr /\ Opens(n[3][i].guard)
      [] OTHER -> FALSE

(* The tree that the parser makes of a source is the one its author wrote   *)
(* down: no operator takes an operand that belongs to another, no block is  *)
(* taken for a map, no item, statement or argument gets lost, and nothing   *)
(* that the documents allow is refused.                                     *)
ParsedAsWritten ==
    phase \in {"parsed", "refused"} /\ (\A b \in BodiesOf(written) : \A n \in NodesOf(b) : ~Mistaken(n))
    => phase = "parsed" /\ program = written

Ends == phase = "interpreted" /\ ran.k \in {"value", "return"}

(* The checker takes these without a look at the names in them ... *)
Unlooked(n) == IF n[1] \in {"Method", "Field", "Index", "Await"} /\ n[2][1] = "Ident" THEN {n[2][2]} ELSE {}
Declares(s, x) == s[1] \in {"Decl", "Assign"} /\ s[2] = x
ReceiversDeclared(b) ==
    \A k \in DOMAIN b : \A x \in UNION {Unlooked(n) : n \in NodesOf(<<b[k]>>)} \ {"self"} :
        \E j \in 1 .. k - 1 : Declares(b[j], x)

(* ... and does not ask what an operator is applied to. *)
OnIntegers(n) == n[1] = "Bin" /\ n[2] # "=" => {n[3][1], n[4][1]} \cap {"Bool", "Str"} = {}

(* A program that the checker accepts, whose receivers and operands it      *)
(* could have judged, does not fail at run time for a name, a type, a       *)
(* constant, a field or a method: what the checker lets pass unseen through *)
(* branches, loops, closures, `?` and inheritance, the interpreter can do.  *)
(* And whichever way a call, a block, a loop, an arm or a catch is left,    *)
(* every scope that was opened has been closed when main ends.              *)
AcceptedRunsWell ==
    /\  /\ phase = "interpreted" /\ ran.k = "error"
        /\ \A b \in Bodies : ReceiversDeclared(b)
        /\ \A n \in Nodes : OnIntegers(n) /\ n[1] # "Un"
        => ran.v \notin {"name", "type", "const", "field", "method", "match"}
    /\ Ends => ran.depth = 2

(* The variables that main ends with hold values of the types that the      *)
(* checker found for them, which the two follow by different rules of       *)
(* scope: one restores a copy of the table, the other pops frames.  This is *)
(* so as long as no variable is set to what the checker knows nothing of.   *)
Unseen(e) ==
    \/ e[1] \in {"Index", "Try", "Catch", "Elvis", "Await", "Method", "Field"}
    \/ e[1] = "Call" /\ e[2] \notin DOMAIN program.fns \cup DOMAIN program.classes
Fits(v, t) ==
    CASE t \in {<<"Int">>, <<"Rint">>} -> v[1] = "Int"
      [] t = <<"Bool">> -> v[1] = "Bool"
      [] t = <<"Str">> -> v[1] = "Str"
      [] t = <<"None">> -> v[1] = "None"
      [] t[1] = "List" -> v[1] = "List"
      [] t = <<"Fn">> -> v[1] = "Fn"
      [] t[1] = "Named" /\ t[2] \in DOMAIN program.classes -> v[1] = "Obj" /\ v[2] = t[2]
      [] t[1] = "Named" /\ t[2] \in DOMAIN program.enums -> v[1] = "Variant" /\ v[2] \in program.enums[t[2]]
      [] OTHER -> TRUE
ValuesHaveTheirTypes ==
    Ends /\ (\A n \in Nodes : n[1] \in {"Decl", "Assign"} => ~Unseen(Source(n)))
    => \A x \in DOMAIN checked.vars \cap DOMAIN ran.vars : Fits(ran.vars[x], checked.vars[x].type)

(* Where there is one way through a function, or branches only, the borrow  *)
(* checker finds every use of a variable after it was an argument.          *)
BorrowSound ==
    phase = "borrowed" =>
        \A f \in DOMAIN program.fns :
            {n[1] : n \in NodesOf(program.fns[f].body)} \cap {"For", "While", "Closure", "Catch"} = {}
                => Paths!UsedAfterMove(program.fns[f].body, "pass") \subseteq borrowed

(* Where there is one way through main, an accepted program uses no value   *)
(* that is not copied after it went to another variable or a function.      *)
(* The receivers of fields and methods are among what is not looked at.     *)
MovesHonoured ==
    /\ phase = "checked" /\ checked.ok
    /\ {n[1] : n \in NodesOf(program.fns["main"].body)}
          \cap {"For", "While", "If", "IfE", "Match", "Block", "Closure", "Catch", "Elvis", "Index", "Try", "Await",
                  "Field", "Method"} = {}
    => \A x \in Paths!UsedAfterMove(program.fns["main"].body, "give") \cap DOMAIN checked.vars :
            Checker!IsCopy(checked.vars[x].type)

(* A portable program does the same compiled as interpreted: LLVM takes     *)
(* what is generated for it, it ends, and it prints the same.               *)
CompiledAgrees ==
    Finished /\ Portable /\ ran.k = "value" => native = [k |-> "done", out |-> ran.out]
=============================================================================
