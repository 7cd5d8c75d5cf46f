# MunVM: a verification development

MunVM runs a Lua script once: it parses the file into a tree, builds a line of
instructions, numbers the values, gives them registers, emits x86-64 code and calls
it. One thread does all of it. Objects come from a small two-generation allocator
with a copying minor collector. This directory holds TLA+ modules translated from
the C sources, TLC configurations that check them on small instances, and TLAPS
proofs of the theorems that hold for every instance.

## Inventory

Paths are relative to the repository. "State" is what a component keeps between its
operations.

| Component | Source | State | Operations | Correct when |
|---|---|---|---|---|
| Root table | `src/alloc.c` | `references[]`, `refs_count` | `mun_gc_add_ref`, `mun_gc_del_ref` | it is a set of addresses, each in one slot, inside its array |
| Minor collector | `src/alloc.c` | `minor_heap`, `free_chunk`, mark bits, `backpatch` | `minor_alloc`, `mun_gc_minor` (mark, copy, patch, restart) | live objects survive, pointers follow them, collections end |
| Major heap | `src/alloc.c` | `major_heap` headers | `major_alloc`, `mun_gc_major` | chunks do not overlap, the sweep ends |
| Lexer | `src/parser.c` | file position, one token in `peek` | `next_token` | every character belongs to one token, in order |
| Parser | `src/parser.c` | scope, the script's sequence node | `parse`, `parse_statement`, `parse_binary_expr` | the tree means what Lua says the script means |
| Scopes | `src/scope.c` | a tree of scopes, lists of locals, frame indices | new, add, insert, lookup, `func_alloc_variables` | two visible locals have two slots |
| Graph builder | `src/codegen/flow_graph.c` | fragments, `temp_count` | `evis_*`, `vvis_*`, `graph_build` | instructions compute the tree, in order |
| Blocks and SSA | `src/codegen/flow_graph.c`, `blocks.c` | preorder, postorder, dominators, phis | `graph_discover_blocks`, `graph_compute_ssa` | one index per value, real dominators |
| Liveness | `src/codegen/liveness.c` | `live_in`, `live_out`, `kill`, `assigned` | initial sets, the fixpoint, what is assigned | stores are marked rightly, phis are placed where needed |
| Register allocation | `src/codegen/interference_graph.c` | live ranges, `active`, `register_pool`, `register_maps` | number, build, allocate, assign | values alive together are in different registers |
| Code generation | `src/codegen/x64/compile.c`, `compiler.c` | code buffer | `*_compile` | the machine computes the instruction |
| Assembler, locations | `src/x64/core.c`, `src/location.c` | buffer cursor | encoders, packers | bytes decode to the instruction meant |
| Move resolver | `src/codegen/move_resolver.c` | pending moves | `perform_move` | parallel moves read before they are overwritten |
| Containers | `src/array.c`, `bitvec.c`, `sstream.c`, `table.c` | buffers, buckets | add, insert, remove, union | what a sequence, set, map promises |

How they interact: `main` calls parser, builder, discovery and numbering, allocator
and generator in turn. Each hands its result on in the shared graph; the
instructions keep pointers to each other (`input.defn`), and the later phases write
into them (`ssa_temp_index`, `lifetime_pos`, `locations`). The collector is entered
from any allocation, that is from the middle of a parse or of code generation, and
knows only the registered roots.

Nothing here runs concurrently and nothing is persisted. What is hard is order and
state that outlives its meaning: phases that agree on an index or a position only by
convention (ssa indices against counts of instructions), mark bits and pointers that
survive a collection, loops bounded by another loop's count, limits that are never
tested. `PROJECT.json` lists every such place under `hazards`, with the property
that covers it or the reason none does yet.

## Modules

| Module | What it is |
|---|---|
| `RootSet` | the abstract root set: add, delete |
| `RefTable` | the table of slots; implements `RootSet` (`ImplementsRootSet`) |
| `RefTableProofs` | proofs about `RefTable` |
| `MinorGc` | the minor collector and a client; instantiates `RefTable` for its roots |
| `MCMinorGc` | symmetry of the client's cells |
| `MinorGcProofs` | proofs about `MinorGc` |
| `Frontend` | lexer and parser, from characters to the tree |
| `ScriptText` | what it is for a text to be written for a script |
| `MCFrontend` | short files, short ends of declarations, texts of scripts |
| `FrontendProofs` | proofs about `Frontend`; uses `ScriptText` |
| `Ast` | tree nodes, and the tree that a well-formed script gives |
| `Builder` | `graph_build`: trees to instructions |
| `Blocks` | `graph_discover_blocks`: the walk over a graph of blocks |
| `Dominators` | `compute_dominators`, dominance frontiers |
| `Ssa` | the rest of `graph_compute_ssa`: liveness, phis, numbering |
| `MCSsa` | the program's graph, all graphs of four blocks, some of five |
| `SsaProofs` | proofs about `Blocks`, `Dominators` and `Ssa` |
| `RegAlloc` | numbering of a line, live ranges, register allocation |
| `MCRegAlloc` | all short straight lines of code |
| `RegAllocProofs` | proofs about `RegAlloc` |
| `Machine` | what the generated code of a line computes, one step per instruction |
| `Encoding` | parts of instructions as bytes: rex, operands, addresses, immediates |
| `Decoder` | how the processor splits the bytes at `rip` |
| `StackFrame` | where slots lie off RBP |
| `Locations` | registers and stack slots packed in words |
| `Assembler` | code generation to the byte and its execution; implements `Machine` (`ImplementsMachine`) |
| `AssemblerProofs` | proofs about `Locations`, `Encoding`, `Decoder` and `Assembler` |
| `MCAssembler` | one operation in every choice of registers |
| `Encoders` | the integer encoders, native calls, the flow graph compiler's frame |
| `Scope` | scopes, locals and their slots |
| `ScopeProofs` | proofs about `Scope` |
| `Frame` | `Scope`, then the entry code of `Encoders` for the slots it gave |
| `MCEncoders` | numbers around the limits of a byte, names |
| `Jit` | the whole pipeline: `Ast!parse`, then `Builder`, then `RegAlloc`, then `Machine` |
| `MCJit` | all scripts up to a number of literals, all small trees |
| `JitProofs` | proofs about `Builder`, up to the meaning of the code, and `Jit`; uses `RegAllocProofs` |

### RefTable

A registered range is always one word long, so it is represented by its first
address. The guards of `AddCovered`, `AddReuse`, `AddAppend` are the three loops of
`add_ref` in order; `RemoveFound` and `RemoveMissed` are the two halves of
`remove_ref`, the second one with the look past the end at `alloc.c:293`. The code
has no bound test. `RootLimit` is the assumption on the caller in its place: how
many distinct roots are held at once.

### MinorGc

`pc` names the part of the collection that runs and `idx` its loop index, so each
iteration of each loop is a step. Objects are all 32 bytes, the size of everything
the program allocates; the collector's scan stride of 64 bytes then meets only the
first word of each, which is `head`. `Reachable` is what the property compares the
marks with: the least set with the registered words' targets that is closed under
`head`. The client registers cells, allocates into them, copies pointers among cells
and objects, and unregisters cells; it fills objects in only while they are in the
minor heap. `Finish` ends the collection and includes the retried allocation that
started it. "undefined" is the state after the code reads through NULL or past the
minor heap. The client can build every graph of first words, the program itself
keeps pointers in later words: the properties state the promise of the collector to
a client whose pointers it can see.

### Frontend

`next_token` is a function of the position: it gives the token and the position
behind it, or "endless" for the two loops that never look for the end of the file.
A word is tested after every letter for being one of the 21 keywords (`Keywords`,
from `parser.h`) and is cut there: `WordEnd` is the nearest of such a place and of what
ends any word, so "index" is the tokens "in" and "dex".
`Consume` and `Deconsume` are the macros; the token that the parser meets, `next`,
is the held one if there is one. `pc` says what the parser does with it. The
recursion of `parse_binary_expr` is the stack `pending`; each return meets the held
token again, as the code does. The units of a file are letters, two digits, the
dot, the symbols, quote and white space; `Units` are those that a run's files may have.
The exits are "unexpected" and "duplicate" (the two aborts), "undefined" (no statement
was made: `array_last` of an empty array) and "done". `taken` is a
history of the tokens used, `file.script` the script that a file was written for;
the code has neither.

`ScriptText` has no steps. It says, of a text and a script, when the one is written
for the other: every token has a mark with its place and its role, the roles follow
each other as in a declaration (`Continues`) and from one to the next (`Follows`),
each place spells its role (`Spells`), and between the places there is white space or
nothing. No name of such a script begins with a keyword (`IsName`) or with an earlier
name (`IsScript`). The assumption `FilesWritten` of `MCFrontend` shows by evaluation
that the run's texts of scripts with plain names are written so.

Lua allows names that begin with a keyword or an earlier name. The program does not read
them: `local index = 1` leaves the declaration at "in" without a word and aborts at
"dex" (`parser.c:115`, `parser.c:210`), `local b, band = 1, 1` aborts as a duplicate
(`scope.c:16`). `ParsesBack` is therefore about `PlainNames` only. For the other names
`NeverMisread` says that the script is at least not taken for a different one, except
when "local" is in a name: `local dolocala = 1` declares a.

### Builder

The visitors' recursion is the stack `todo`. `evis_bind` and `evis_do` move the
temporaries' count and emit. The value a fragment leaves is on `values`.

### Blocks, Dominators, Ssa

`kDefinitions` gives successors to the graph entry only, so the one graph that the
program makes is an entry and a target. The algorithms are written for all graphs
and the modules follow them there; other graphs stand for successor tables not
written yet. `Blocks` starts `preorder_num` with `Garbage`, because nothing sets it.
`block_stack` keeps pointers to `new_state`, a local of an inner block: `slots` says
whether each call of the block has a place of its own ("many") or all share one
("one", what gcc makes of it at every level); with one, graphs deeper than two
levels overwrite states (`Overwritten`). An unset `postorder_num` that is used as an
index ends in "undefined".

In `Dominators` the words of `label` and `semi` become one for a finished block
(`flow_graph.c:113`), so one function stands for both, and `lowered` remembers which
blocks had their semidominator changed afterwards.

`Ssa` has the initial sets, the fixpoint and the assigned sets of `liveness.c`. Code
has stores and no loads, since nothing makes a load. A variable without a place has
index -2 and falls on bit 62. As no variable is ever assigned, `insert_phis` places
nothing and its worklist is left out. `Taken` at the end meets `RegAlloc`: the
target's instructions start at index 2.

### RegAlloc, Machine, Jit

`RegAlloc` keeps the code's conventions, wrong looking or not: ranges start at the
last use and end at the definition, ssa indices start at 2 because each of the two
blocks takes an index for its NIL constant, and the allocator's loop stops after as
many indices as there are instructions, so the last two definitions keep the
register that `register_maps` starts with. A word w taken from the pool becomes
register 16 - w, the first one -1, whose low bits encode RDI. So the definition at
position i of a line gets register i - 2, except the last two, which get RAX (0): the
second definition has RAX as well, and the ninth gets RDI a second time. The locations that the
code generator initialises first are all overwritten by `assign`.

`Machine` runs the generated code on symbolic registers: a value is the expression
that computes it, and each register starts with a token for the caller's content. A
`ret` works if RSP still holds the caller's. The number object that a binary
operation writes its result to is allocated when its code is generated, one per
instruction, so the result is identified with its expression. A store emits nothing
and is no step. `Jit` composes the phases. `JitAssumption` says of a script that it has a statement
and each statement a value, without which `parse` reads outside an array, and of NULL
that it is no live range. `Small` and `EachRegisterOnce` are the sizes up to which the
code keeps off the caller's registers, and up to which no register is given twice to
values that are alive together. The second bound is sharp: with six literals the
ninth definition's RDI is the first one's, and TLC finds `OperandsInPlace` violated.

### Encoding, Decoder, Locations, Assembler

Each handler of `compile.c` is an action that appends the bytes its encoders make;
the encoders are functions from operands to sequences of bytes, the REX prefix a set
of bits. `rip` then walks the same bytes through a decoder written from the
processor's side, which knows nothing of the encoders: prefixes, ModRM, SIB,
displacements. An undecodable byte has no step, so code that holds one never
returns. Registers hold objects, the number field of each object is memory.
`registers` and `placed` are histories for the refinement mapping: the assigned
registers before `loc_init_r` packs them, and how far the buffer was when an
instruction's output was loaded, the point where `Machine` takes its step. Between
that point and the store behind it the result is still in XMM0.

`is32` compares with INT32_MIN on both sides and is true of no number, so addresses
are always emitted in full. `offset` is the place of the number in an instance, 8 in
a 64-bit build; the run also takes 0, 127 and 128, which are what it needs to meet
all forms of an address.

### Encoders

One behaviour is one call of one encoder (or of a native call's or a frame's
sequence of them), then the processor's reading of its bytes. A call is a pair: the
bytes, and the instructions meant. What the code cannot do is part of what is
"meant", in two places: an operand's own prefix bits are dropped by `emit_oper_rex`,
so that a register or base above 7 loses its top bit (`Low`); and an immediate is
never taken for a 32-bit one, so that the forms with one go through TMP, which is
R11 and reads as RBX for the same reason. The program itself calls none of these
encoders.

`loc_init_s` adds a bias that a shift by more than the width folds to 0; a negative
slot comes back as a large positive one, and its address is made from that, at RBP +
8(-3 - slot). `FrameSlot` is that address.

`DecodesBack` therefore records these three and catches none of them: it says that the
bytes are those instructions, not that they are the ones a caller of the encoder would
have wanted. The hazards at `core.c:59` and `location.c:13` have no property.

### Scope, Frame

The program makes one scope and gives no slots. The client of `Scope` uses what
`scope.h` offers: scopes within scopes, locals declared, a local of a scope around
added once more (`Capture`; its `owner` stays the first scope), parameters inserted
at any place, all before one call of `func_alloc_variables`. Its recursion is the
stack `calls`: a step is a call up to its loop over the children (`Enter`), or its
return. Siblings start at one slot, children behind their parent. `free` is a
history of where each scope's own slots end; `func` receives the numbers that
`graph_variable_count` and the entry code use.

`Frame` goes on to the entry code of the flow graph compiler with those numbers: the
code writes every slot from the first to the last, with whatever RAX holds. That
`enter_frame` lowers RSP by a count of slots, through RBX, is in the bytes and not
in a claim. Its loop over blocks finds none and is left out.

## Runs

| Run | Checks | Bounds | Distinct states |
|---|---|---|---|
| `RefTable` | `TypeOK`, `OneSlotPerRoot`, `InBounds`, `ImplementsRootSet` | 4 addresses, 4 roots at once, 5 slots | 309 |
| `MinorGc` | `TypeOK`, `MarkExact`, `CellsValid`, `StaysDefined`, `RootsBounded` | 2 cells, 3 chunks, 6 slots | 4.6 million |
| `MinorGcEnds` | `CollectionEnds` | 2 cells, 2 chunks | 94 thousand |
| `MinorGcSurvivors` | `SurvivorsApart`, violated | as `MinorGc` | |
| `Frontend` | `TypeOK`, `TokensInOrder`, `NothingDropped`, `ParsesBack`, `NeverMisread`, `Finishes` | all files of up to 3 runs (a symbol, a letter, "nd", "local"), all ends of up to 4 runs of a declaration, texts of scripts of up to 2 declarations of up to 2 names, ten of them with names that are not plain | 63 thousand |
| `Assembler` | `TypeOK`, `CodeReturns`, `ImplementsMachine` | eight registers (-1, RAX, RSP, RBP, R8, R12, R13, R15) in each of three roles, four operations, four offsets; words of 26 bits, ints of 16 | 123 thousand |
| `Ssa` | `TypeOK`, `PreorderIsTree`, `PredecessorsExact`, `PostorderExact`, `DominatorsDominate`, `ExactUnlessLowered`, `NothingAssigned`, `OneIndexEach`, `Finishes` | the program's graph with code of up to 3 instructions, every graph of 4 blocks with up to 2 successors each, four of 5 blocks; two contents of unset memory | 220 thousand |
| `Encoders` | `LocalsApart`, `DecodesBack` | six registers (RAX, RSP, RBP, R11, R12, R13), 3 scales, 6 displacements, 7 immediates, 5 slots, 3 sizes of frames; up to 3 scopes and 3 locals, 2 names | 48 thousand |
| `Jit` | `TypeOK`, `OperandsOnTop`, `TempsBalanced`, `BuildsProgram`, `ReturnsLastValue`, `KeepsCallersRegisters`, `OperandsIntact`, `Terminates` | scripts of up to 6 literals in up to 6 statements, `+` and `-`; trees of up to 2 statements, expressions of up to 3 literals | 203 thousand |
| `RegAlloc` | `NothingExpires`, `RegistersApart` | every line of up to 5 instructions with up to 2 operands | 84 thousand |
| `JitLongScript` | `AlwaysReturnsLastValue`, violated | up to 5 literals | |
| `JitAssociativity` | `FollowsLua`, violated | up to 3 literals | |

Why the bounds are enough:

- The root table's cases depend on whether a slot covers an address, on the first
  cleared slot and on the end of the table. With four addresses all orders of these
  occur, and the theorems cover the rest.
- Three chunks make chains, shared tails and cycles of objects, and survivors next
  to garbage; two cells let a root be dropped while another still reaches the
  object. Collections repeat without limit. A major heap of two objects is full
  after the second survivor.
- One declaration and four more runs are enough for a second declaration, a chain
  of operators, a list, a wrong token in each place, and a token held when the file
  ends. Scripts cover what needs more: lists of two names with values of up to three
  literals, with and without space between tokens, a name ("b" after "band") that an
  earlier one begins with, and a name that ends in a keyword ("band"). Among the
  arbitrary files are words that become a keyword by the next run ("a", "nd"). All
  keywords are in the model; the proof holds for every file, whatever its letters.
  Names that are not plain stand first, second and in front of another declaration.
  An empty file is among the files as well: it ends as "undefined" (`parser.c:259`),
  which `Finishes` counts as an end and no property excludes.
- Expressions of three literals make operations in either operand; two statements
  make the return come before, after or between others.
- A script of n literals makes 2n instructions however it is split into statements.
  Twelve lie within `MaxInstrs` = 15, the longest code whose indices lie inside
  `register_maps`; the values that get RSP and RBP are among them.
  `ReturnsLastValue` and `KeepsCallersRegisters` speak of at most six instructions
  (`Small`), the scripts that stay off the caller's registers, and `OperandsIntact`
  of at most ten (`EachRegisterOnce`): the run has code on both sides of each bound.
- `Terminates` asks of every script and tree that its phases and its run end, and of
  code that is small in that sense that it returns to its caller (`result` is not
  `Lost`). Longer code may lose RSP, as `JitLongScript` shows.
- Encodings depend on whether a register is above 7 and on its low three bits being
  those of RSP or RBP, on the displacement being 0, a signed byte or more, and on
  the operation; the registers chosen have every combination. Machine code has no
  memory beyond registers and XMM0, XMM1, which one operation uses all; a store
  without code is between it and the return.
- Four blocks with two successors each make every join, loop, unreachable block and
  self-loop of the sort that dominator algorithms can get wrong; the five-block
  graphs are the loops with two entries or two exits, in which shared labels are
  lowered. Three instructions put stores of one variable in every order, dead and
  last.
- Three scopes are a chain, or two siblings; three locals let a parameter, an own
  and an added local meet. Four scopes with two locals were checked as well, without
  entry code. The theorem covers the rest.
- Registers that need a SIB byte, a displacement or a prefix bit occur in each place
  of an operand; displacements and immediates lie on both sides of a signed byte.
- Five instructions on a straight line have values that are used at once, late,
  twice or never, and more than two of them are allocated.

Deadlock is not checked where the model ends: a file that was parsed, a script that
has returned has nothing left to do, a finished tree neither, and after "undefined"
no step of the collector means anything.

### The three violated properties

- `SurvivorsApart`: `major_alloc` stops at an occupied chunk that is big enough, so
  all copies of a collection share one place. `CellsValid` and `MarkExact` hold
  nevertheless: they speak of where pointers lead, not of what is there.
  `StaysDefined`, too, is about one half only of what can go wrong with the last loops'
  bound: with more roots than chunks they leave the heap. With fewer roots they miss
  survivors in later chunks, which have a place in the major heap and are not copied
  there; no property claims otherwise.
- `AlwaysReturnsLastValue`: four literals make enough ranges for RSP to be handed
  out.
- `FollowsLua`: operators group to the right.

## Fairness

There is one thread. `JitSpec`, `FrontendSpec` and the `Spec` of `Assembler` and of
`Ssa` have weak fairness of the whole next-state relation: the program does not stop
between two instructions of its own. `FairSpec` of `MinorGc` has weak fairness of
the collection only: a collection is one call, once begun it continues, and the
client need never do anything. `FrameSpec` has it of the processor's reading only:
nobody need declare locals.

## Proofs

`RefTableProofs`, from `RefTableAssumption` (NULL is no address, the most roots held
is less than the number of slots):

- `Invariant`: `IInv` holds always. `IInv` adds `TailClear` to the properties: slots
  past `refs_count` are cleared. It is what makes the look of `remove_ref` past the
  end harmless, and without it neither `OneSlotPerRoot` nor the implementation is
  inductive. That the table fits is a counting argument: when `add_ref` appends, all
  used slots hold distinct roots, so there are `refs_count` of them, and the caller
  holds one more.
- `TypeCorrect`, `NoSecondSlot`, `TableFits`: the run's invariants, as consequences.
- `Implementation`: each step of the table is a step of `RootSet` or a stutter.

`RegAllocProofs`, for straight-line code of any length whose operands are defined
before their use (`CodeOK`, which `Builder!TypeOK` checks of the code built), a
natural number of registers, and a NULL that is no live range
(`RegAllocAssumption`):

- `Invariant`: while ranges are built backwards from position `at`, a range whose
  definition was passed is complete, ending at its definition and starting no
  earlier, and any other lies wholly behind `at`. While they are allocated, every
  active range ends before the next index's definition, the pool is what is left of
  its first content, and the indices allocated so far have the words taken from it,
  in order (`PoolAt`, `MapsAt`).
- `NoRangeExpires`: the expiry branch is never taken. It follows from the order: a
  range starts no earlier than its definition, which comes after the definitions of
  all ranges allocated before it.
- `NoSharedRegister`: so no word goes back to the pool, and two definitions that got
  a register got different ones. That every definition has a range (built at its own
  position at the latest) is needed: an index without one would keep register 0,
  which another index is given.
- The invariant ends in `Assigned`: which register each definition and each operand
  has when `assign` is through (`OutputOf`). It is what `JitProofs` needs.

`MinorGcProofs`, from `MinorGcAssumption` (cells are finite in number, cells and
chunks together fit the table, their addresses and NULL are distinct):

- `Invariant`: `IInv` joins `RefTable`'s own invariant, what the phase allows
  (`PhaseInv`), where registered cells may point (`ClientInv`), and one part for
  each loop. While it marks (`MarkInv`), what was met is reachable, and what a met
  object leads to is met or is the one the walk is at: when the walk ends the met
  set is closed, so it contains everything reachable. `CopyInv` and `PatchInv` say
  which chunks and words the loops are through with.
- `MarkingExact`, `ClientCells`, `NoStrayLoop`, `RootsFitTable`, `TypeCorrect`: the
  run's invariants. `RootsFitTable` counts: every root is a registered cell or the
  first word of a chunk, and none is in two slots.
- `OnePlace`: all survivors are given the start of the major heap, whatever the
  sizes. It is why `SurvivorsApart` fails.
- `TableImplemented`: the behaviours of client and collector, seen on the table's
  variables, are behaviours of `RefTable`.

`FrontendProofs`, for files of any number and length (`FrontendAssumption`: their
units are in `Units`, and the quote is one):

- `FrontendInvariant`: `FrontendInv` has the lexer's part (`Lexed`) and the parser's
  (`ParserInv`). `Lexed` says that what can be seen of the tokens used, and of the
  one that is held, is what can be seen of the file in front of `pos`; that a held
  token ends at `pos`, is not "endless", and in a file of whole lines without quotes
  ends before the file does unless it is the end itself. The last is about the loops
  of `next_token`: of all tokens only a number and a keyword can end with the file
  (`NumberEnds`, `WordEnds`), and such a file ends in neither. `ParserInv` adds to
  `TypeOK` that a declaration has a name before its "=" and that every waiting call
  of `parse_binary_expr` has its left operand.
- `TypeCorrect`, `InOrder`, `NothingLost`: the invariants of the run. `InOrder` rests
  on lemmas about recursive functions, `Visible` and the library's `FlattenSeq`: how
  they take one string behind another (`VisibleConcat`, `SpelledGrows`). These are
  inductions over positions, each on a set of numbers of its own (`Induction`), from
  the library's theorem that "<" on numbers is well-founded.
- `ParsedIsProgram`: what comes out is a program (`Ast!IsProgram`): stores and returns
  of expressions, in any set with the literals and closed under `BinaryOp`
  (`TreeInv`). The smallest such set is the one whose members `BuilderAssumption`
  describes, so what is proved about the builder holds for every file that is parsed.
- `WrittenParsesBack`: `ParsesBack`, for files of which every one that gives a script
  of plain names was written for it (`FilesFit`). The invariant is `ReadInv`: the
  tokens used are the first ones of the text and the one that is held is the next
  (`Lookahead`), and for each place in the code what is at hand is what the script has
  up to the token used last (`Progress`): the names of the declaration, the operands
  that wait, the expression from some literal on (`Rest`), the stores made. It rests
  on three facts. The lexer reads each token as the one that was written there,
  because what stands behind it is what ends its loop (`TokenEnds`, `WrittenRead`),
  and because no name begins with the letters of a keyword, so that no word is cut
  early; "local" is cut where it ends, since no other keyword begins it (`LocalIs`,
  `PrefixIs`). What stands behind an expression is no operator, so it is put back once
  for every call and met by the statement (`NoOperatorComes`). And between two
  statements the file is read to its end just when every token is used, although
  behind a declaration a token is held (`EndIs`): it is the end itself, or the "local"
  of a declaration that has more. The tree's recursion enters through its equation
  (`RestIs`).

`JitProofs` begins with the builder, for programs of any number of statements over
trees of any size and shape (`BuilderAssumption`: the statements are nodes that the
constructors of `ast.c` make over `Exprs`, a set that holds the operands of its
members):

- `Invariant`: every pending visit changes the number of operands at hand by a known
  amount (`Delta`) and needs a known number of them (`Needs`); along `todo` the
  needs are met and the sum ends at none (`StackInv`). The j-th operand at hand is
  in temporary j and no later instruction took it (`ValuesInv`).
- `OperandStack`, `StatementsBalanced`, `TypeCorrect`: the invariants of the run.
- `BuildInvariant`: what the code means. Every operand at hand computes the tree that
  its visit was for; along `todo` the visits still to make will turn the trees at
  hand into the statement under way (`StatementInv`); what was emitted so far is what
  the finished statements ask for, and a return is the last instruction there is
  (`ReturnInv`). `Computes` is a recursive function of the code: the proof uses only
  that it satisfies its equation and that appending an instruction leaves its earlier
  values alone, never induction over trees.
- `ProgramBuilt`: `BuildsProgram`, for every tree.

It goes on with the whole pipeline, for all scripts and all other trees
(`JitAssumption`):

- `JitInvariant`: the builder's invariant, the allocator's, and the machine's. Up to
  ten instructions each value computed is in the register of its definition
  (`Held`), with one exception: the next to last instruction overwrites the second
  definition's RAX. That nothing then asks for the second definition is `UsesInv`,
  a fact about the builder: a return or a store uses the value computed just before
  it, and an expression for its effect never has the second instruction as its left
  operand, because its left operand is the first instruction or comes later.
- `CompilesProgram`: the builder's theorems hold inside the pipeline.
- `LineForCodeGenerator`: the line and the registers that `assign` leaves are a line
  as `AssemblerAssumption` asks for (`Ast!IsLine`), so the theorems about the bytes
  hold for what the pipeline makes, as long as its operations are the four that
  `binary_op_compile` handles.
- `OperandsKept`, `CallersRegistersKept`, `LastValueReturned`: the run's invariants
  about the machine, for any program, any literals and any operators.

`SsaProofs`, for every graph, every content of unset memory and both ways of keeping
the walk's states (`BlocksAssumption`, `SsaAssumption`: what a graph is, and that code
has no loads):

- `WalkNumbersTree`: `PreorderIsTree`, from the types and from states on the stack
  being of marked blocks.
- `NoVariableAssigned`: without loads all live sets stay empty, so nothing is
  assigned, whether or not an update is skipped (`liveness.c:36`, a hazard that no
  property of code without loads can catch). That every block has a place in
  postorder when the sets are read is
  `EveryBlockPlaced`: the first block met without one would have a parent with one,
  whose successors have theirs.
- `GraphInvariant`: first the walk (`GraphInv`). The blocks below one have the
  numbers that follow it (`Below`), those met behind a block on the stack are below
  it, and so every edge that is recorded goes to a lower number or down in the tree.
  It holds also with overwritten states, where edges are lost. Then the passes
  (`DomInv`). There are semidominators s0, fixed when they are computed, which every
  edge bounds (`Bounds`): from a lower number directly, from a higher one through the
  semidominators of the blocks above its source. Labels that are lowered later stay
  at or below s0 (`Labels`), so the climb of the second pass only ever stops higher,
  and what it stops at is a block with no semidominator above itself in between
  (`Cut`).
- `DominatorsAreDominators`: a block d that is a cut above b dominates it. For the
  blocks that are above d or have, between d and themselves, a semidominator above d
  are closed under edges without d, contain the entry and not b (`CutDominates`). The
  argument needs no tree edges and does not look at the blocks' kinds.
- `DominatorsAreImmediate`: `ExactUnlessLowered`, for graphs whose kinds fit their
  edges (`KindsFit`: a block's field for a target's predecessor holds one, so a target
  is entered from one block; `GraphsFit` has TLC see that the run's graphs are such).
  Every edge of the walk's tree is recorded (`RecordedInv`), overwritten states or not.
  A semidominator is reached from an edge along blocks with higher numbers (`SemiInv`,
  `PathLowered`), so no block between it and its block dominates (`NoneBetween`), and
  where no label was lowered the climb passes no dominator (`IdomInv`). The runners of
  the third pass meet exactly the blocks above a predecessor that are below the join's
  dominator (`RunMeets`), and these make up the frontier (`FrontierInv`).
- `EveryEdgeRecorded`, `PostorderComplete`: as long as no state was overwritten, each
  state belongs to its own block, the edges it has looked at led to blocks met and
  are recorded at the joins they enter, the stack is a path of the tree, and what is
  behind it is in postorder (`ExactInv`). When the stack is empty every edge was
  looked at.
- `LastStoreMarked`: `StoresMarked`, the one property that is proved and in no run.
  What the loop over a block backwards has marked after k instructions is known in
  closed form (`After`); a block that is in postorder twice gets the same marks again
  (`MarkInv`).
- `IndicesApart`: a block waits in `todo` if it is not numbered and its dominator is
  (`Waiting`); every block is numbered, waits, or is below one that does (`TodoOK`),
  and the ranges of indices taken are apart and below the counter (`TakenOK`). The
  lists of dominated blocks being right (`ListsInv`) is what makes this inductive.
- `TypeCorrect`: `TypeOK` of all the passes; the arrays by place in postorder have
  its length (`ArraysInv`).

`ScopeProofs`, for every tree of scopes and any number of locals and parameters,
from `ScopeAssumption` (names are sequences with a length, the bounds are numbers):

- `Invariant`: the lists of children go from the youngest to the oldest (`TreeInv`);
  a local is in one place of its owner and otherwise only in scopes within
  (`LocalsInv`; here the lookup in front of every declaration matters); a scope
  visited has its locals between where its parent's end and where its own end, no
  two alike (`FrameInv`); a running call has visited the children behind the one it
  is at (`CallsInv`), and the lowest slot so far is known to one of the calls
  (`MinInv`).
- `SlotsApart`: `LocalsApart`. Scopes around one scope form a chain, and along it
  the parts of the stack lie below each other.

`AssemblerProofs`, for every line of instructions with registers -1 to 15 in any role
and the four operations, any offset below 256 of the number in its object, an int of
more than 8 bits and a word wider than an int by more than the kind field
(`AssemblerAssumption`, `LocationsAssumption`). The registers are those of the
allocator's pool and RAX, -1 and the repeated RDI included:

- `RegisterComesBack`: `loc_init_r` makes a register location of each of these
  registers, and `loc_get_register` gives it back; also -1, whose word loses its
  upper bits and gets its sign back from the cast to int. `WordBits` and `IntBits`
  stay parameters.
- `CodeIsInOrder`: `AsmInv`. What the encoders emit is worked out once as byte
  strings (`Loading` up to an instruction's output, `Rest` behind it); `LayoutInv`
  says at which places of the buffer they stand, and that the places of consecutive
  instructions meet, a store having none. `RunInv` says where in such a string `rip`
  is: in front of an instruction (`Ready`), or within an operation with one operand
  loaded, both, the result computed, or its object named and the store still to
  come. The decoder is then evaluated on the strings: RSP and R12 with their SIB
  byte, RBP and R13 with a displacement, registers above 7 with their prefix bit and
  -1 as RDI are cases of one lemma about ModRM. So the processor is at every moment
  in front of one of the machine instructions meant, and a byte is never read as
  part of another instruction.
- `TypeCorrect`: the run's invariant.
- `Implements`: each move of the processor is a step of `Machine` or a stutter. The
  mapping takes an instruction for done when its output is loaded. Two operations that
  follow each other, and an output that is one of the inputs, are where it could fail:
  the number that is read must be the one the earlier store left.

Model-checked only:

- `Encoders`: the encoders and the frame, which the program does not call.
- Liveness under fairness (`CollectionEnds`, `Terminates`, `Finishes`,
  `CodeReturns`, `DecodesBack`), which is outside the prover.
- `NeverMisread`: which tokens are left of names that are cut.
- What recursively defined functions compute for every input, beyond the equations
  that the proofs use (the walk of the decoder over bytes): induction over data.

## Not modelled

- Containers: arrays and bit vectors are sequences and sets where they are used;
  nothing is put into the table (which could not hold two keys in one chain,
  `table.c:36`); string buffers hold text that is abstracted.
- The worklist of `insert_phis`, phis of join entries and the environment of the
  renaming: without loads no variable is assigned (`NothingAssigned`, proved).
  `is_store_alive` and `is_last_load`: not called.
- `emit_complex` and `is_register`, which stand behind `is32`; the flow graph
  compiler's loop over blocks; the locations of constants and fpu registers.
- The messages that code generation prints. Those that name the register -1 read in
  front of `asm_registers`; the models go on as if they had not.
- The move resolver: no code emits a parallel move, and the loop that would perform
  them is empty. Local loads: no part of the program makes one.
- Major collection: no code calls it.
- Spilling: it needs more ranges than `register_maps` has entries.
- Explicit calls of `mun_gc_minor`, and objects that do not fit in a chunk.
- Floating point: a value is the expression that computes it.

## Plan

Done: `RootSet`, `RefTable`, `MinorGc`; `Frontend`; `Builder`, `RegAlloc`,
`Machine`, `Jit`; `Locations`, `Assembler`; `Blocks`, `Dominators`, `Ssa`;
`Encoders`; `Scope`, `Frame`; proofs of `RefTable`, `MinorGc`, `Builder`,
`RegAlloc`, `Jit`, `Ssa` with `Blocks` and `Dominators`, `Scope`, `Frontend`,
`Assembler` with `Locations`, `Encoding` and `Decoder`.

What is left, in the order of importance:

1. Explicit calls of `mun_gc_minor` in `MinorGc`'s client, and the sweep of
   `mun_gc_major` over the headers that `major_alloc` leaves, if a caller appears.
2. `insert_phis` and the renaming's environment, once loads exist.
3. The hash table against a map, once something is put into it.
