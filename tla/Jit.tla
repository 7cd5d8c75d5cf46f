--------------------------------- MODULE Jit ---------------------------------
(***************************************************************************)
(* The program as main.c runs it, from the tokens of a script to the value *)
(* it prints: parse, build the code, number it, allocate registers,        *)
(* generate machine code, call it, take the result from RAX.               *)
(*                                                                         *)
(* A script is a sequence of statements "local x = l1 op1 l2 op2 ...",     *)
(* given as records with the fields local, lits and opers.  A value is the *)
(* expression that computes it.  Beside the trees of scripts the phases    *)
(* behind the parser are given trees that only the constructors of ast.c   *)
(* make: Programs, each of which comes from no script.                     *)
(***************************************************************************)
EXTENDS Builder

CONSTANTS Sources,
          NULL

VARIABLES
  source,      \* the script, or NoScript
  phase, at, ssa, live_ranges, active, register_pool, register_maps, locations,
  ip, reg, result

M == INSTANCE Machine
RA == INSTANCE RegAlloc WITH kNumberOfCpuRegisters <- M!kNumberOfCpuRegisters

allocVars == <<phase, at, ssa, live_ranges, active, register_pool, register_maps, locations>>
machineVars == <<ip, reg, result>>
jitVars == <<vars, source, allocVars, machineVars>>

NoScript == <<>>

\* A script has a statement and each statement a value, or parse() is undefined.
ASSUME JitAssumption == /\ \A src \in Sources : /\ Len(src) \in Nat \ {0}
                                                /\ \A i \in 1 .. Len(src) : Len(src[i].lits) \in Nat \ {0}
                        /\ NULL \notin RA!LiveRange

JitInit == /\ \/ source \in Sources /\ program = parse(source)
              \/ source = NoScript /\ program \in Programs
           /\ child = 1 /\ todo = <<>> /\ values = <<>> /\ code = <<>>
           /\ temp_count = 0 /\ open = TRUE
           /\ RA!Init
           /\ M!MachineInit
-----------------------------------------------------------------------------
Run == /\ M!Next
       /\ UNCHANGED <<vars, source, at, ssa, live_ranges, active, register_pool, register_maps>>

Build == Next /\ UNCHANGED <<source, allocVars, machineVars>>

Allocate == /\ Done /\ RA!Next
            /\ UNCHANGED <<vars, source, machineVars>>

JitNext == Build \/ Allocate \/ Run

JitSpec == JitInit /\ [][JitNext]_jitVars /\ WF_jitVars(JitNext)
-----------------------------------------------------------------------------
Last(src) == src[Len(src)]
Finished == phase = "done"

\* Six instructions keep the allocator off the registers of the caller: in a
\* script, three literals.
Small == Len(code) <= 6

\* The expression of the first return in the tree.
Returned == LET Returns == {i \in DOMAIN program : program[i].type = "return"}
            IN  program[CHOOSE i \in Returns : \A j \in Returns : i <= j].value

(* Small code returns the value of the first return, which in a script is  *)
(* that of the last statement's expression, although the last two          *)
(* definitions of the code never get a register of their own and all share *)
(* RAX, the default of register_maps.                                      *)
ReturnsLastValue == Finished /\ Small =>
  /\ result = Returned
  /\ source # NoScript => result = parse_binary_expr(Last(source))

(* Small code gives the registers that main.c relies on back.              *)
KeepsCallersRegisters == Finished /\ Small => \A r \in M!CalleeSaved : reg[r] = M!Caller(r)

\* In longer code the ninth definition can get RDI, which the first one has
\* already: -1, what the first word of the pool becomes, is encoded as RDI.
EachRegisterOnce == Len(code) <= 10

(* When an instruction runs, each of its operands is still in the register *)
(* that its definition was given, whatever ran in between: in code of up to*)
(* ten instructions no two values that are alive together share a register,*)
(* the default one included.                                               *)
OperandsInPlace == phase = "assigned" /\ ip <= Len(code) =>
  \A k \in DOMAIN code[ip].inputs : M!In(k) = Computes[code[ip].inputs[k]]
OperandsIntact == EachRegisterOnce => OperandsInPlace

(* Every script, and every other tree with a return, is compiled and its   *)
(* code runs to its last instruction, however long it is; small code goes  *)
(* back to its caller from there, RSP still its own. (Longer code may have *)
(* lost RSP, the address to return to with it: AlwaysReturnsLastValue.)    *)
Terminates == source # NoScript \/ (\E i \in DOMAIN program : program[i].type = "return") =>
  <>(Finished /\ (Small => result # M!Lost))

(* Every script returns the value of its last statement.                   *)
AlwaysReturnsLastValue == Finished => result = parse_binary_expr(Last(source))

\* The value of "l1 - l2 - ... - lk" in Lua: operators of one precedence group to the left.
LuaValue(stmt) ==
  LET expr[i \in 1 .. Len(stmt.lits)] ==
        IF i = 1 THEN Literal(stmt.lits[1])
        ELSE BinaryOp(stmt.opers[i - 1], expr[i - 1], Literal(stmt.lits[i]))
  IN  expr[Len(stmt.lits)]

(* A script of subtractions returns what Lua says its last statement is.   *)
FollowsLua == Finished => result = LuaValue(Last(source))
=============================================================================
