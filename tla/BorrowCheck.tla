---------------------------- MODULE BorrowCheck ----------------------------
(***************************************************************************)
(* The borrow checker (src/semantic/borrowck.rs).  It goes through a       *)
(* function once, in the order of its text, and keeps for every variable   *)
(* whether its value was given away: only an argument that is a name gives *)
(* it away, and only an assignment or a declaration brings it back.  State *)
(* is [live, moved, errors], three sets of names.                          *)
(***************************************************************************)
EXTENDS Syntax, SequencesExt

CheckUse(st, x) == IF x \in st.moved THEN [st EXCEPT !.errors = @ \cup {x}] ELSE st
MakeLive(st, x) == [st EXCEPT !.live = @ \cup {x}, !.moved = @ \ {x}]
GiveAway(st, e) ==
    IF e[1] = "Ident" /\ e[2] \in st.live
    THEN [st EXCEPT !.live = @ \ {e[2]}, !.moved = @ \cup {e[2]}] ELSE st

NewBorrow(params) == [live |-> ToSet(NamesOf(params)), moved |-> {}, errors |-> {}]

RECURSIVE BorrowExpr(_, _), BorrowStmt(_, _)
BorrowAll(st, es) == FoldLeft(BorrowExpr, st, es)
BorrowBody(st, ss) == FoldLeft(BorrowStmt, st, ss)

(* Mutant: all arguments are looked at before one of them is given away. *)
BorrowAllFirst(st, args) == FoldLeft(GiveAway, BorrowAll(st, args), args)

BorrowArguments(st, args) == FoldLeft(LAMBDA s, a : GiveAway(BorrowExpr(s, a), a), st, args)

(* A closure is checked alone: it knows its parameters and nothing else. *)
BorrowClosure(st, e) ==
    [st EXCEPT !.errors = @ \cup BorrowExpr(NewBorrow(e[2]), e[3]).errors]

BorrowExpr(st, e) ==
    CASE e[1] = "Ident" -> CheckUse(st, e[2])
      [] e[1] = "Call" -> BorrowArguments(CheckUse(st, e[2]), e[3])
      [] e[1] = "Method" -> BorrowArguments(BorrowExpr(st, e[2]), e[4])
      [] e[1] = "Block" -> BorrowBody(st, e[2])
      [] e[1] = "Catch" -> BorrowBody(st, e[4])   \* the tried statements are not visited
      [] e[1] = "Closure" -> BorrowClosure(st, e)
      [] OTHER -> BorrowAll(st, Children(e))

BorrowStmt(st, s) ==
    CASE s[1] = "Decl" -> MakeLive(BorrowExpr(st, s[4]), s[2])
      [] s[1] = "Assign" -> MakeLive(CheckUse(BorrowExpr(st, s[3]), s[2]), s[2])
      [] s[1] = "Do" -> BorrowExpr(st, s[2])
      [] s[1] = "Return" -> IF s[2] = NoExpr THEN st ELSE BorrowExpr(st, s[2])
      [] s[1] = "For" -> BorrowBody(BorrowExpr(st, s[3]), s[4])
      [] s[1] = "While" -> BorrowBody(BorrowExpr(st, s[2]), s[3])
      [] s[1] = "If" -> BorrowBody(BorrowBody(BorrowExpr(st, s[2]), s[3]), s[4])

CheckFunction(fn) == BorrowBody(NewBorrow(fn.params), fn.body).errors
BorrowErrors == UNION {CheckFunction(program.fns[f]) : f \in DOMAIN program.fns}
=============================================================================
