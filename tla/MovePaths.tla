----------------------------- MODULE MovePaths -----------------------------
(***************************************************************************)
(* What it means that a value is used after it was given away: on a way    *)
(* through the function (every branch taken or not, every loop gone        *)
(* through at most twice) the variable is used after the event that gave   *)
(* it away and before it is set again.  This is the reference that the two *)
(* checkers of moves are compared with.                                    *)
(***************************************************************************)
EXTENDS Syntax, SequencesExt

(* Events: a variable is used; it is an argument ("pass"); its value goes   *)
(* to a variable, a caller or a function ("give"); it is set.              *)
Event(kind, x) == <<<<kind, x>>>>
Cat(A, B) == {a \o b : a \in A, b \in B}
CatAll(sets) == FoldLeft(Cat, {<<>>}, sets)

NameOf(e) == IF e[1] = "Ident" THEN {e[2]} ELSE {}
Gives(kind, es) == FlattenSeq([i \in DOMAIN es |->
                        IF es[i][1] = "Ident" THEN Event(kind, es[i][2]) ELSE <<>>])

RECURSIVE Paths(_), BodyPaths(_)

ArgPaths(args) ==
    CatAll([i \in DOMAIN args |-> Cat(Paths(args[i]), {Gives("pass", <<args[i]>>)})])

(* A closure runs later or not at all, in the middle of what follows. *)
Paths(e) ==
    CASE e[1] = "Ident" -> {Event("use", e[2])}
      [] e[1] = "Bin" -> Cat(Paths(e[3]), Paths(e[4]))
      [] e[1] = "Un" -> Paths(e[3])
      [] e[1] = "Call" -> Cat(ArgPaths(e[3]), {IF e[2] \in DOMAIN program.fns THEN Gives("give", e[3]) ELSE <<>>})
      [] e[1] = "Method" -> Cat(Paths(e[2]), ArgPaths(e[4]))
      [] e[1] \in {"Field", "Inc", "Const", "As", "Ok", "Err", "Try", "Spawn", "Await"} -> Paths(e[2])
      [] e[1] \in {"Index", "Range", "Elvis"} -> Cat(Paths(e[2]), Paths(e[3]))
      [] e[1] = "List" -> CatAll([i \in DOMAIN e[2] |-> Paths(e[2][i])])
      [] e[1] = "Variant" -> CatAll([i \in DOMAIN e[4] |-> Paths(e[4][i])])
      [] e[1] = "New" -> CatAll([i \in DOMAIN e[3] |-> Paths(e[3][i][2])])
      [] e[1] = "Block" -> BodyPaths(e[2])
      [] e[1] = "IfE" -> Cat(Paths(e[2]), Paths(e[3]) \cup (IF e[4] = NoExpr THEN {<<>>} ELSE Paths(e[4])))
      [] e[1] = "Match" -> Cat(Paths(e[2]), UNION {Paths(e[3][i].body) : i \in DOMAIN e[3]})
      [] e[1] = "Catch" -> Cat(BodyPaths(e[2]), {<<>>} \cup BodyPaths(e[4]))
      [] e[1] = "Closure" -> {<<>>} \cup Paths(e[3])
      [] OTHER -> {<<>>}

Twice(P) == {<<>>} \cup P \cup Cat(P, P)

StmtPaths(s) ==
    CASE s[1] = "Decl" -> Cat(Cat(Paths(s[4]), {Gives("give", <<s[4]>>)}), {Event("set", s[2])})
      [] s[1] = "Assign" -> Cat(Cat(Paths(s[3]), {Gives("give", <<s[3]>>)}), {Event("set", s[2])})
      [] s[1] = "Do" -> Paths(s[2])
      [] s[1] = "Return" -> IF s[2] = NoExpr THEN {<<>>} ELSE Cat(Paths(s[2]), {Gives("give", <<s[2]>>)})
      [] s[1] = "For" -> Cat(Paths(s[3]), Twice(BodyPaths(s[4])))
      [] s[1] = "While" -> Cat(Paths(s[2]), Twice(Cat(BodyPaths(s[3]), Paths(s[2]))))
      [] s[1] = "If" -> Cat(Paths(s[2]), BodyPaths(s[3]) \cup BodyPaths(s[4]))

BodyPaths(ss) ==
    IF ss = <<>> THEN {<<>>}
    ELSE IF Head(ss)[1] = "Return" THEN StmtPaths(Head(ss))
    ELSE Cat(StmtPaths(Head(ss)), BodyPaths(Tail(ss)))

UsedAfter(path, kind, x) ==
    \E i, j \in DOMAIN path :
        /\ i < j /\ path[i] = <<kind, x>> /\ path[j] = <<"use", x>>
        /\ \A k \in i .. j : path[k] # <<"set", x>>

(* The variables of a body that are used after an event of this kind. *)
UsedAfterMove(body, kind) ==
    LET paths == BodyPaths(body)
        names == UNION {{p[i][2] : i \in DOMAIN p} : p \in paths}
    IN  {x \in names : \E p \in paths : UsedAfter(p, kind, x)}
=============================================================================
