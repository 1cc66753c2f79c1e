------------------------------ MODULE Machine ------------------------------
(***************************************************************************)
(* What becomes of the code of Codegen outside the repository: the checks  *)
(* that LLVM makes of a module before it builds it, and the execution of   *)
(* the result together with the C runtime's lists and prints.              *)
(***************************************************************************)
EXTENDS Codegen

(***************************************************************************)
(* Building: every name is defined once and before it is used, on every    *)
(* way there; every operand has the type it is used with; a phi has one    *)
(* value for each block that jumps to it.                                  *)
(***************************************************************************)
Integer == {I64, I1, I32}
Aggregate(ty) == Layout(ty) # <<>>

Fits(regs, o) ==
    CASE o.v[1] = "Reg" -> o.v[2] \in DOMAIN regs /\ regs[o.v[2]] = o.t
      [] o.v[1] = "Int" -> o.t \in {I64, I32} \/ (o.t = I1 /\ o.v[2] \in {0, 1})
      [] o.v[1] = "Bool" -> o.t = I1
      [] o.v[1] = "Str" -> o.t = Text
      [] o.v[1] = "Fn" -> o.t = I64
      [] o.v[1] = "Vt" -> o.t = I64 /\ VTable(o.v[2]) # <<>>
      [] OTHER -> o.t # Void

Typed(i) ==
    CASE i.k = "alloca" -> i.ty # Void
      [] i.k = "bin" -> i.ty \in Integer
      [] i.k = "cmp" -> i.ops[1].t \in Integer \cup {Pointer} /\ i.x \in {"slt", "sgt", "sle", "eq", "ne"}
      [] i.k = "agg" -> [j \in DOMAIN i.ops |-> i.ops[j].t] = Layout(i.ty)
      [] i.k = "extract" -> Aggregate(i.ops[1].t) /\ i.ty = Layout(i.ops[1].t)[i.x + 1]
      [] i.k = "rt" /\ i.x = "concat" -> i.ops[2].t = Text
      [] OTHER -> TRUE

(* The state of the walk over a function's code: the type of every register *)
(* so far, those that are set on every way to here, the block it is in and  *)
(* whether anything jumps there, what is known of every label jumped to,    *)
(* and what is set at the end of every block.                               *)
Uses(w, i) ==
    LET used == {i.ops[j].v[2] : j \in {n \in DOMAIN i.ops : i.ops[n].v[1] = "Reg"}}
    IN  i.k # "phi" /\ w.live => used \subseteq w.set

Jumps(i) == CASE i.k = "br" -> {i.x} [] i.k = "cbr" -> ToSet(i.x) [] OTHER -> {}

Reach(w, label) ==
    LET known == IF label \in DOMAIN w.labels THEN w.labels[label] ELSE [from |-> {}, live |-> FALSE, set |-> {}]
    IN  [from |-> known.from \cup {w.block}, live |-> known.live \/ w.live,
         set |-> IF ~w.live THEN known.set ELSE IF ~known.live THEN w.set ELSE known.set \cap w.set]

GoodPhi(w, i) ==
    /\ w.block \in DOMAIN w.labels
    /\ w.labels[w.block].from = ToSet(i.x)
    /\ \A j \in DOMAIN i.ops :
          (i.ops[j].v[1] = "Reg" /\ w.ends[i.x[j]].live) => i.ops[j].v[2] \in w.ends[i.x[j]].set

GoodCall(mod, i) == i.k = "call" => i.x \in DOMAIN mod
GoodReturn(fn, i) ==
    i.k = "ret" => IF i.ops = <<>> THEN fn.ret = Void ELSE i.ops[1].t = fn.ret

Sound(mod, fn, w, i) ==
    /\ \A j \in DOMAIN i.ops : Fits(w.regs, i.ops[j])
    /\ Typed(i) /\ Uses(w, i) /\ GoodCall(mod, i) /\ GoodReturn(fn, i)
    /\ i.k = "phi" => GoodPhi(w, i)
    /\ i.dst # "" /\ i.k # "label" => i.dst \notin DOMAIN w.regs

EndBlock(w, i) ==
    [w EXCEPT !.labels = [l \in Jumps(i) |-> Reach(w, l)] @@ @,
              !.ends = Put(@, w.block, [live |-> w.live, set |-> w.set]),
              !.block = "dead", !.live = FALSE]

BeginBlock(w, label) ==
    LET known == Reach([w EXCEPT !.live = FALSE], label)
    IN  [w EXCEPT !.block = label, !.live = known.live, !.set = known.set]

Visit(mod, fn, w, i) ==
    CASE ~Sound(mod, fn, w, i) -> [w EXCEPT !.ok = FALSE]
      [] i.k = "label" -> BeginBlock(w, i.dst)
      [] i.k \in {"br", "cbr", "ret"} -> EndBlock(w, i)
      [] i.dst # "" -> [w EXCEPT !.regs = Put(@, i.dst, IF i.k = "alloca" THEN Pointer ELSE i.ty),
                                 !.set = @ \cup {i.dst}]
      [] OTHER -> w

Numbered(seq) == [i \in {ToString(j) : j \in DOMAIN seq} |-> seq[CHOOSE j \in DOMAIN seq : ToString(j) = i]]

RECURSIVE Walk(_, _, _, _)
Walk(mod, fn, w, n) ==
    IF ~w.ok \/ n > Len(fn.code) THEN w.ok ELSE Walk(mod, fn, Visit(mod, fn, w, fn.code[n]), n + 1)

FnBuilds(mod, fn) ==
    LET regs == Numbered(fn.params)
        entry == [regs |-> regs, set |-> DOMAIN regs, block |-> "entry", live |-> TRUE, labels |-> <<>>,
                  ends |-> <<>>, ok |-> TRUE]
    IN  Walk(mod, fn, entry, 1)

Builds(mod) == \A name \in DOMAIN mod : FnBuilds(mod, mod[name])

(***************************************************************************)
(* Running.  The state is [k, frames, mem, out]; k is "run" until the      *)
(* program is done, has crashed, or did what has no defined outcome.       *)
(***************************************************************************)
Top(m) == Last(m.frames)
Halt(m, how) == [m EXCEPT !.k = how]
WithTop(m, f) == [m EXCEPT !.frames[Len(m.frames)] = f]
Forward(m) == [m EXCEPT !.frames[Len(m.frames)].pc = @ + 1]
Set(m, dst, v) == [m EXCEPT !.frames[Len(m.frames)].regs = Put(@, dst, v)]
Goes(m, i, v) == Forward(Set(m, i.dst, v))

RECURSIVE ZeroOf(_)
ZeroOf(ty) ==
    CASE ty = I1 -> <<"Bool", FALSE>>
      [] ty = Text -> <<"Str", "">>
      [] ty = Pointer -> <<"Ptr", 0>>
      [] Layout(ty) # <<>> /\ ty # Text -> <<"Agg", [j \in DOMAIN Layout(ty) |-> ZeroOf(Layout(ty)[j])]>>
      [] OTHER -> Imm(0)

Val(m, o) ==
    CASE o.v[1] = "Reg" -> Top(m).regs[o.v[2]]
      [] o.v[1] = "Zero" -> ZeroOf(o.t)
      [] o.v[1] = "Int" /\ o.t = I1 -> <<"Bool", o.v[2] = 1>>
      [] OTHER -> o.v
Vals(m, i) == [j \in DOMAIN i.ops |-> Val(m, i.ops[j])]

Within(n) == n \in -MaxInt - 1 .. MaxInt
Truncated(a, b) == LET q(x, y) == (IF x < 0 THEN -x ELSE x) \div (IF y < 0 THEN -y ELSE y)
                   IN  IF (a < 0) = (b < 0) THEN q(a, b) ELSE -q(a, b)

(* Overflow and division by zero have no defined outcome. *)
Compute(op, a, b) ==
    CASE op = "add" -> a + b
      [] op = "sub" -> a - b
      [] op = "neg" -> IF Within(a - b) THEN a - b ELSE b
      [] op = "mul" -> a * b
      [] op = "sdiv" /\ b # 0 -> Truncated(a, b)
      [] OTHER -> MaxInt + 1

Logical(op, a, b) == CASE op = "and" -> a /\ b [] op = "or" -> a \/ b [] op = "xor" -> a # b [] OTHER -> FALSE
Compares(cond, a, b) == CASE cond = "slt" -> a < b [] cond = "sgt" -> a > b [] cond = "sle" -> a <= b
                          [] cond = "eq" -> a = b [] cond = "ne" -> a # b
AsNumber(v) == IF v[1] = "Bool" THEN IF v[2] THEN 1 ELSE 0 ELSE v[2]
Numeric(v) == v[1] \in {"Int", "Bool"}

RunBin(m, i, vs) ==
    CASE vs[1][1] = "Bool" /\ vs[2][1] = "Bool" -> Goes(m, i, <<"Bool", Logical(i.x, vs[1][2], vs[2][2])>>)
      [] vs[1][1] = "Int" /\ vs[2][1] = "Int" /\ Within(Compute(i.x, vs[1][2], vs[2][2])) ->
            Goes(m, i, Imm(Compute(i.x, vs[1][2], vs[2][2])))
      [] OTHER -> Halt(m, "ub")

(***************************************************************************)
(* Memory: a cell for every alloca, list and boxed string                  *)
(***************************************************************************)
Allocate(m, i, cell) == Goes([m EXCEPT !.mem = Append(@, cell)], i, <<"Ptr", Len(m.mem) + 1>>)
Cell(m, p) == m.mem[p[2]]
IsCell(m, p) == p[1] = "Ptr" /\ p[2] # 0

(* A cell is read as the type it was written with; a pointer to an object  *)
(* may be read as its first word, or as an object with fewer fields.       *)
Reads(m, i, cell) ==
    CASE cell.t = i.ty -> Goes(m, i, cell.v)
      [] i.ty = I64 /\ cell.t[1] = "class" -> Goes(m, i, cell.v[2][1])
      [] i.ty[1] = "class" /\ cell.t[1] = "class" /\ Len(Layout(i.ty)) <= Len(Layout(cell.t)) ->
            Goes(m, i, <<"Agg", SubSeq(cell.v[2], 1, Len(Layout(i.ty)))>>)
      [] OTHER -> Halt(m, "ub")

(* A store wider than its slot overwrites what lies beside it. *)
Writes(m, i, vs) ==
    IF i.ops[1].t # Cell(m, vs[2]).t THEN Halt(m, "ub")
    ELSE Forward([m EXCEPT !.mem[vs[2][2]].v = vs[1]])

(***************************************************************************)
(* The C runtime                                                           *)
(***************************************************************************)
ListOf(m, p) == Cell(m, p).v
IsList(m, p) == IsCell(m, p) /\ Cell(m, p).t = <<"list">>
SetList(m, p, items) == [m EXCEPT !.mem[p[2]].v = items]

Printed(m, v) == CASE v[1] \in {"Int", "Bool", "Str"} -> v
                   [] IsCell(m, v) /\ IsList(m, v) -> <<"List", ListOf(m, v)>>
                   [] OTHER -> <<"Address">>

(* The payload is taken for a string when it is not 0: a number is read as *)
(* an address.                                                             *)
PrintResult(m, vs) ==
    LET name == IF vs[2] = <<"Bool", TRUE>> THEN "Ok" ELSE "Err" IN
    CASE vs[1] = Imm(0) -> Forward([m EXCEPT !.out = Append(@, <<name, Imm(0)>>)])
      [] IsCell(m, vs[1]) /\ Cell(m, vs[1]).t = Text ->
            Forward([m EXCEPT !.out = Append(@, <<name, Cell(m, vs[1]).v>>)])
      [] OTHER -> Halt(m, "crash")

(* Reading past the end gives 0, and so does taking from an empty list. *)
Get(items, n) == IF n \in 0 .. Len(items) - 1 THEN items[n + 1] ELSE Imm(0)

RunList(m, i, vs) ==
    LET items == ListOf(m, vs[1]) IN
    CASE i.x = "push" -> Forward(SetList(m, vs[1], Append(items, vs[2])))
      [] i.x = "pop" -> IF items = <<>> THEN Goes(m, i, Imm(0))
                        ELSE Goes(SetList(m, vs[1], Front(items)), i, Last(items))
      [] i.x = "len" -> Goes(m, i, Imm(Len(items)))
      [] i.x = "get" -> IF vs[2][1] = "Int" THEN Goes(m, i, Get(items, vs[2][2])) ELSE Halt(m, "ub")

RunRuntime(m, i, vs) ==
    CASE i.x = "new" -> Allocate(m, i, [t |-> <<"list">>, v |-> <<>>])
      [] i.x = "box" -> Allocate(m, i, [t |-> i.ops[1].t, v |-> vs[1]])
      [] i.x = "concat" -> Goes(m, i, <<"Str", vs[1][2] \o vs[2][2]>>)
      [] i.x = "print" -> Forward([m EXCEPT !.out = Append(@, Printed(m, vs[1]))])
      [] i.x = "print_result" -> PrintResult(m, vs)
      [] OTHER -> IF IsList(m, vs[1]) THEN RunList(m, i, vs) ELSE Halt(m, "ub")

(***************************************************************************)
(* Control                                                                 *)
(***************************************************************************)
GoTo(mod, m, label) ==
    LET code == mod[Top(m).fn].code
        at == CHOOSE n \in DOMAIN code : code[n].k = "label" /\ code[n].dst = label
    IN  WithTop(m, [Top(m) EXCEPT !.pc = at, !.came = Top(m).here, !.here = label])

Frame(fn, args) == [fn |-> fn, pc |-> 1, regs |-> Numbered(args), here |-> "entry", came |-> "entry"]

Enter(mod, m, i, fn, args, types) ==
    IF types # mod[fn].params THEN Halt(m, "ub")
    ELSE [m EXCEPT !.frames = Append(@, Frame(fn, args))]

(* The caller's call instruction gets the value and is passed. *)
Leave(mod, m, vs) ==
    IF Len(m.frames) = 1 THEN Halt(m, "done")
    ELSE LET n == [m EXCEPT !.frames = Front(@)]
             call == mod[Top(n).fn].code[Top(n).pc]
         IN  IF call.dst = "" THEN Forward(n)
             ELSE IF vs = <<>> \/ call.ty # mod[Top(m).fn].ret THEN Halt(m, "ub")
             ELSE Goes(n, call, vs[1])

VCall(mod, m, i, vs) ==
    IF vs[1][1] # "Vt" \/ i.x > Len(VTable(vs[1][2])) THEN Halt(m, "ub")
    ELSE LET place == VTable(vs[1][2])[i.x]
         IN  Enter(mod, m, i, MethodName(place[2], place[1]), Tail(vs), Tail([j \in DOMAIN i.ops |-> i.ops[j].t]))

Instruction(mod, m, i, vs) ==
    CASE i.k = "alloca" -> Allocate(m, i, [t |-> i.ty, v |-> Undef])
      [] i.k = "store" -> IF IsCell(m, vs[2]) THEN Writes(m, i, vs) ELSE Halt(m, "ub")
      [] i.k = "load" -> IF IsCell(m, vs[1]) THEN Reads(m, i, Cell(m, vs[1])) ELSE Halt(m, "ub")
      [] i.k = "bin" -> RunBin(m, i, vs)
      [] i.k = "cmp" -> IF Numeric(vs[1]) /\ Numeric(vs[2])
                        THEN Goes(m, i, <<"Bool", Compares(i.x, AsNumber(vs[1]), AsNumber(vs[2]))>>)
                        ELSE Halt(m, "ub")
      [] i.k = "zext" -> IF Numeric(vs[1]) THEN Goes(m, i, Imm(AsNumber(vs[1]))) ELSE Halt(m, "ub")
      [] i.k = "cast" -> Goes(m, i, vs[1])
      [] i.k = "agg" -> Goes(m, i, <<"Agg", vs>>)
      [] i.k = "extract" -> IF vs[1][1] = "Agg" THEN Goes(m, i, vs[1][2][i.x + 1])
                            ELSE IF vs[1][1] = "Str" THEN Goes(m, i, Imm(Len(vs[1][2])))
                            ELSE Halt(m, "ub")
      [] i.k = "rt" -> RunRuntime(m, i, vs)
      [] i.k = "call" -> Enter(mod, m, i, i.x, vs, [j \in DOMAIN i.ops |-> i.ops[j].t])
      [] i.k = "vcall" -> VCall(mod, m, i, vs)
      [] i.k = "ret" -> Leave(mod, m, vs)
      [] i.k = "br" -> GoTo(mod, m, i.x)
      [] i.k = "cbr" -> IF vs[1][1] # "Bool" THEN Halt(m, "ub")
                        ELSE GoTo(mod, m, IF vs[1][2] THEN i.x[1] ELSE i.x[2])
      [] i.k = "label" -> Forward(m)
      [] i.k = "phi" -> Goes(m, i, Val(m, i.ops[CHOOSE j \in DOMAIN i.x : i.x[j] = Top(m).came]))

Tick(mod, m) ==
    LET i == mod[Top(m).fn].code[Top(m).pc]
    IN  Instruction(mod, m, i, IF i.k = "phi" THEN <<>> ELSE Vals(m, i))

(* At most 2 ^ n instructions. *)
RECURSIVE Execute(_, _, _)
Execute(mod, m, n) ==
    CASE m.k # "run" -> m
      [] m.k = "run" /\ n = 0 -> Tick(mod, m)
      [] m.k = "run" /\ n > 0 -> Execute(mod, Execute(mod, m, n - 1), n - 1)

Boot == [k |-> "run", frames |-> <<Frame("main", <<>>)>>, mem |-> <<>>, out |-> <<>>]
=============================================================================
