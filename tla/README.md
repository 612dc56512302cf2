# Lua 5.1 on Lua 5.5 and on Luau: specifications

The repository lets a program written for the C API of Lua 5.1 run on Lua 5.5
or on Luau.  `src/compat/lua55_compat.cpp` implements the functions of 5.1 over
those of Lua 5.5, whose source (`src/lua55`, every public name with the prefix
`lua55`) is linked into the same library.  `src/compat/lua51_compat.cpp` with
`luau_bridge.cpp` does the same over Luau, which is a submodule and not here.
`src/lua51` is the source and the manual of Lua 5.1: the contract.

This directory holds TLA+ models of the layer and of those parts of Lua 5.5 whose
correctness depends on long sequences of calls, on errors and yields that
cross C code, on a collector that runs between any two steps of the program, on
the exact place of values on a stack or in a table, or on arithmetic at the
limits.  All models are translated from the source.

## 1. Inventory

| Part | State it keeps | Operations | Interacts with | What makes it hard |
|---|---|---|---|---|
| String buffers over 5.5 (`lua55_compat.cpp` 777-852) | the `luaL_Buffer` of the application: `p`, `lvl`, the array; the pieces on the stack | `luaL_buffinit` .. `luaL_pushresult`; the macros of `lauxlib.h` write the same struct | the stack of the C function, `lua_concat` | the position of pieces and values on the stack; sizes at the edge of the array; nesting |
| String buffers over Luau (`lua51_compat.cpp` 582-660) | the same | the same, with `adjuststack` | the same | joins of pieces that must agree with `lvl` |
| Indices and globals over 5.5 (36-56, 142-431) | none of its own: the stack, the upvalues, the registry | the functions that take an index | `lapi.c` | 5.5 has no pseudo-index for the globals; index 0 as a sentinel; temporary pushes |
| Libraries over 5.5 (604-636, 769-775, 854-1098) | globals, `package.loaded` | `luaL_register`, `luaL_openlib`, functions that 5.5 dropped | 5.5's libraries | stack discipline around callbacks and upvalues; width of counts |
| Calls, errors, coroutines (`ldo.c`, `lapi.c`, `lstate.c`; 433-478 of the layer) | per thread: `CallInfo` list, `nCcalls`, `errorJmp`, `errfunc`, `allowhook`, `status` | call, pcall, error, yield, resume, close, hooks | one C stack for all threads, `longjmp` | errors and yields destroy C activations; limits on the C stack |
| To-be-closed variables (`lfunc.c`, `ldo.c`) | `tbclist` with 16-bit distances, the state of closing in the `CallInfo` | mark, close, return, error, yield, `lua_closethread` | the calls above | closing methods raise errors and yield in the middle of a return or of another error |
| Collector (`lgc.c`) | colours, ages, lists of all, gray, weak and finalizable objects | steps, minor and major collections, barriers, finalizers | every store of the program; tables, closures, threads | runs between any two steps of the program; the order of its atomic step; pointers into lists that change |
| Tables (`ltable.c`) | array part, chained nodes, hint of the length | get, set, next, length, resize | collector (dead keys) | nodes that move, two parts that exchange entries |
| Compiler (`lcode.c`, `lparser.c`) | the function being compiled: code, lists of jumps, blocks, labels, lines | expressions, assignments, blocks, gotos | the virtual machine | decisions that depend on instructions already emitted, patched later |
| Pattern matching (`lstrlib.c`) | `MatchState` | match, find, gmatch, gsub | | backtracking over shared captures |
| Operators (`lcode.c`, `lvm.c`, `ltm.c`) | the code, the registers, `L->top` | arithmetic, comparison, concatenation, fields, metamethods | calls and yields of metamethods | operands folded, exchanged and negated; an instruction that is interrupted and finished later |
| Numbers (`lvm.c`, `lobject.c`) | | loops, division, comparison, numerals | | overflow, loss of precision |
| Sort, table functions, references, packing, UTF-8 | the table in question | | order functions of the program | inconsistent input, positions at the limits |
| Debug interface over 5.5 (533-594) | two static variables, `g_debug55`, `g_user_hook` | getstack, getinfo, sethook, gethook | hooks of every thread and state | shared by everything; what is paired with what |
| `require` over Luau (462-580) | the tables `package`, `loaded`, `preload` | `pkg_require`, `luaopen_package` | loaders, which call it again | indices of a stack six values deep |
| Debug, hooks, panic over Luau (114-206, `luau_bridge.cpp`) | static variables | the same as over 5.5 | Luau's callbacks | as over 5.5 |
| Collector control (484-502), `io` over Luau (351-460) | parameters, a `FILE *` | | | little state |
| Lexer, binary chunks, string table, other libraries of 5.5 | | | | formats and system calls |

What makes each part correct:

* buffers: the text is what was added, in order; nothing else on the stack
  moves; the array is never overrun; the pieces are bounded;
* indices and library functions: a call does what 5.1 does and leaves nothing of
  its own behind;
* calls: an error goes to the innermost pending protected call, a resume goes on
  where the yield was, and counters, handlers and hooks are as the calls that
  are really pending require, although `longjmp` has skipped the code that
  would restore them; the C stack is bounded;
* to-be-closed variables: each is closed once, in reverse order, with the error
  in force, and nothing on the stack is lost meanwhile;
* collector: what the program can reach is never freed, what it cannot reach is
  freed in the end, finalizers run once for objects nobody else uses;
* tables: a map, whatever the two parts look like;
* compiler: the code computes what the source means;
* algorithms: the result is that of a definition without backtracking, words or
  registers;
* `require`: a module is loaded once.

`PROJECT.json` lists the hazards of this code, each at its line, with the
properties that cover it.

## 2. Modules

| Module | Models |
|---|---|
| `LuaStrings` | strings as sequences, `lua_concat` |
| `StringBuilder` | abstract: what a string buffer promises |
| `CompatBuffer` | the buffers over Lua 5.5; one action per call, `luaL_addlstring` one step per turn of its loop |
| `LuauBuffer` | the buffers over Luau (extends `CompatBuffer`: same struct, same application) |
| `LuauRequire` | `require` over Luau |
| `Lua55Stack` | the stack and table functions of Lua 5.5's API, as functions of a state |
| `Lua51Api` | abstract: the same functions as Lua 5.1 defines them |
| `CompatApi` | the layer's functions, composed of those of `Lua55Stack` |
| `CompatLib` | the layer's library functions, composed of the same |
| `Coroutines` | abstract: calls, protected calls and coroutines on logical call stacks |
| `LuaCalls` | how `ldo.c` does them |
| `LuaClose` | to-be-closed variables, with the stack and the `CallInfo`s of one thread |
| `LuaGC` | the collector and a program that changes the graph of objects |
| `LuaMap` | abstract: a table as a map with traversal and borders |
| `LuaTable` | how `ltable.c` does it |
| `LuaMatch`, `LuaSort`, `LuaTableLib`, `LuaPack`, `LuaUtf8`, `LuaNumbers` | algorithms as operators, each with its meaning |
| `LuaCode`, `LuaLines`, `LuaScopes`, `LuaAssign` | parts of the compiler as operators, and an interpreter of the code they emit |
| `LuaOperators` | operators with their metamethods: the code, its execution, and how an instruction is finished after a yield |
| `Shifts` | powers of two, shared by `LuaTable` and `LuaNumbers` |
| `LoopTheorems` | lemmas that all proofs share: induction over sets of natural numbers, loops as recursive functions, powers of two |
| `Buffer_proofs` | theorems about `Concat` and the buffers over both; `CompatBuffer` and `LuauBuffer` implement `StringBuilder` |
| `LuaCalls_steps` | the inductive invariant of one thread, and each step of `ldo.c` as a lemma on the values of one thread |
| `LuaCalls_proofs` | the invariant of all threads, one lemma per action of `LuaCalls`, and what the invariant says: the properties the runs check; `LuaCalls` implements `Coroutines` |
| `CompatApi_proofs` | `CompatApi` implements `Lua51Api`, call by call |
| `LuaClose_proofs` | theorems about to-be-closed variables: the inductive invariant, one lemma per action of `LuaClose` |
| `LuaTable_proofs` | chains of nodes, sizes, traversals and lengths of tables; `LuaTable` implements `LuaMap` |
| `LuaNumbers_proofs` | theorems about loops, division, comparison, numerals and parameters |
| `MC*` | instances for TLC |

`PROJECT.json` maps every definition to the lines it stands for.  Definitions
commented with "Mistake" are used by no specification: they are what a plausible
bug would make of another definition (section 3).

**Buffers.**  `stack` is the stack of the running C function, `bufs` the open
`luaL_Buffer`s: `lvl`, `buf` (the bytes between `buffer` and `p`) and the ghost
`base`, the height of the stack at `luaL_buffinit`.  Characters are numbers, each
used once, so that a lost, doubled or moved one is seen.  The application keeps
to the rule of the manual (a buffer is used only with nothing of one's own on top,
except the one value for `luaL_addvalue`); it may open a buffer inside another.
`luaL_addlstring` is the only call with a loop, and the only one split in steps;
no other call of the thread can come in between, for this is one C function.

The refinement mapping to `StringBuilder` gives a buffer the text *pieces, then
array, then what is still to be copied*, and as its values what lies above its
pieces.  An operation that touches a value below the pieces, or moves one,
is no step of `StringBuilder`.

**Calls.**  `ci[t]` is the list of `CallInfo`s of thread `t`.  A frame has the
flags of `CallInfo` that matter (`k`, `ypcall`, `recst`, `oah`, `olderr`,
`fresh`, `hook`) and four fields that stand for the C stack: `doing` (the call its
code waits for), `msgh`, `handler` and `live` (its activation still exists).  `jmp`
is the chain `L->errorJmp` of the thread without the entry of `lua_resume`; `mode`
is what the runtime is about to do: run the top function, raise an error
(`luaG_errormsg`), throw (`luaD_throw`), recover in `lua_resume` (`caught`) or
`unroll`.  The functions called are free: any function may call, return, raise,
yield or resume at any time the API allows.  Whether a yield is allowed is
computed from the counter, as in the code, and not from what would be right;
`JumpsLand` and `CanBeContinued` say that the two agree.
With `CompatResumes` some of the resumes are those of the layer's `lua_resume`,
which passes no resuming thread.

The refinement mapping to `Coroutines` forgets all this machinery and keeps what
each function is doing.

**To-be-closed variables.**  One thread, main or coroutine, with its stack (`stack`,
`top`), its `CallInfo`s and `tbclist` with the distances `delta`.  A Lua function
marks variables, ends blocks, returns, calls, raises errors; a C function marks
and returns; `pcall` is the protected call with a continuation.  A closing method
is a call that may do all this too.  What the code keeps in local variables is in
the frame only as long as the activation exists: `n`, the copy of `nres`, is
`Gone` after a yield or a caught error.  `live`, `delivered` and the fields `given`
are ghosts.  Dead slots are normalised so that equal states are found equal.

**Collector.**  `kind` says what each object is when it exists, and `s` is
`global_State` with the objects: colours, ages, the lists `allgc`, `finobj`,
`tobefnz` in order, the gray lists as sets, the pointers into the lists, and the
references (`slots`: pairs of a key and a value; open upvalues have an `owner`).
A `CollectorStep` is a single step of the incremental collector, or a whole young
or major collection in generational mode, at an allocation.  `Program` is any step
of the main thread or one it can resume: allocation, closures over variables,
reads, stores, upvalues and their joining and closing, metatables.  A finalizer
is called by the collector as part of a step, runs as steps of the program while
the collector is stopped (`stp`), and returns.  Bytes are not counted: where the
code decides by bytes, the model takes either way.  Metatables are never
collected.  The other places where the model is coarser than the code are in the
comments of the module.

The invariants are those that the repository states and tests in `lgc.h`
(16-28, 106-142), `ltests.c` (275-330, 565-690) and the manual (weak tables).

**Tables.**  The array part, the nodes with their relative links, the free pointer,
the hint, and whether keys are dead.  A program sets, gets, traverses and asks
for the length; the collector clears and marks keys dead between two operations.
`rehash` may run out of memory.  `hash` is a constant choice for each string.  Loops
are recursive functions of the number of the turn, so that they can be
reasoned about: `Probes` and `Search` have more turns than are needed, the last
ones change nothing, and `GoodSizes` are the sizes at which the loop of `computesizes`
sets `optimal`.  The refinement mapping to `LuaMap`
is the lookup of every key.

**Indices and libraries.**  A call is one step, composed of the operations of
`Lua55Stack` in the order of the source.  Index 0 is the slot at `L->top`; what it
holds is any value, since it was left there by an earlier call.  A value that is
not a table but used as one sets `bad`: the code has no test in a release build.
`ActsAsIn51` says of every call that it is the step of `Lua51Api`; the table of
globals is the registry's entry there and a variable of the thread here.  Keys are
strings and tables have no metatables.  `CompatLib` runs the loops of the library
functions over the same operations, with a callback that changes the table.

**Algorithms.**  Each is a set of operators, one per C function, over explicit states
where the C code has them (`MatchState`, `FuncState`, the array being sorted); the
expected result is defined in the same module in another way: matches by
splitting the subject, expressions by their truth values, programs by running
their blocks, sorting by the multiset and the order, arithmetic by the integers
without width and by halves for floats.

**Operators.**  `LuaOperators` compiles expressions with operands of every type as
`lcode.c` does, and runs the code with metamethods whose answers and yields are
chosen by an environment.  A metamethod leaves its result on the top; if it has
not yielded, the instruction goes on, otherwise `FinishOp` does the rest.  The
meaning of an expression is given by recursion on it, with the list of calls of
metamethods and their arguments; `OperatorsAreRight` compares value, calls,
stores and errors.  Floats are sixteenths with a sign of zero.

**require.**  A call is one step up to its loader and one after it.  `pending` has
the calls whose loaders run, each with its part of the C stack, so that
`lua_setfield` with a negative index finds the table that the code finds.  Whether a
file is found on `package.path` is a constant.

## 3. Runs

Runs that pass:

| Run | Properties | Instance, and why it is enough |
|---|---|---|
| `buffer` | `TypeOK`, `PiecesOnStack`, `BufferInStruct`, `BuildsStrings`, `AddLStringReturns` | arrays of 2, 2 nested buffers, 6 characters: strings shorter than, as long as and longer than the array and the room left, up to 3 pieces, values between the levels |
| `luau_buffer` | `PiecesShrink`, `BuildsStringsToo` | arrays of 3 and 7 characters, so that pieces of different sizes are joined two and three at a time; values given to `luaL_addvalue` fit (`LongValues = FALSE`) |
| `calls` | `TypeOK`, `JumpsLand`, `CanBeContinued`, `KeepsPromise`, `ErrorsAreDelivered` | two threads, three frames, handlers, hooks in the coroutine, limits 3 and 4: a protected call in a protected call with a yield between, errors in handlers, overflow, errors while it is handled |
| `resumes` | `CountsAreRight`, `CStackBounded`, `HookSwitch`, `HandlerInForce` | three threads of two frames that resume each other, one closed; `CompatResumes = FALSE` |
| `close` | `VariablesAreClosed`, `ErrorsInForce`, `ResultsAreDelivered` | up to 5 frames, 2 variables, 2 errors and 2 yields; distances above `MAXDELTA = 2` need dummy nodes, results of 0 and 2 values move over variables, an error in the closing method of an error |
| `gc` | `TypeOK`, `AccessibleAlive`, `NoForgottenReference`, `FinalizersInTime` | incremental; populations of two or more objects besides the main thread: tables, an ephemeron with its key, a weak table with a string, a weak table with a resurrected object, two closures that join their upvalues, a closure on a coroutine's variable; stacks of two values and open upvalues, one entry in a table; one object swept in a step, so that the program acts at every place of the sweep |
| `gc_gen` | `AccessibleAlive`, `GrayInLists`, `AgesInOrder` | generational: tables, a weak table with a string, an object with a finalizer, a closure on a coroutine's variable, with no objects as keys (`Keyed = {}`); the program may collect and the mode end in a major collection at any time |
| `gc_live` | `GarbageIsCollected` | incremental, under `FairSpec` |
| `table` | `TypeOK`, `EnoughSpace`, `KeyIsFound`, `IsAMap` | three integers and two strings that collide or not, arrays of up to 4, nodes up to 4, integers up to 7: keys move between the parts, chains of three, both searches for the length |
| `api` | `ActsAsIn51` | one thread, stacks of up to 3 values, the registry and the globals, one key, one upvalue, every index; the globals' index for the functions that test for it |
| `functions` | `MatchIsBest`, `ScansAreRight`, `CodeComputes`, `OperatorsCompute`, `ScopesClose`, `LibraryIsSafe`, `LibrariesAsIn51`, `NumbersAreExact` | each state is a call with one input; all inputs up to a size: patterns of 3 items (5 with a capture) on subjects of 3 characters, expressions with three operators, operands of ten kinds with two or three operators and metamethods that yield, programs of two nested blocks and 5 statements, assignments of 3 to 2, arrays of 5 (7 if the relation is an order) with any of the 512 relations on three elements, words of 4 bits, mantissas of 2 |

The words are small so that *all* of them are tried: the algorithms treat a word
of any width alike, and each has its extremes, its sign and its overflow at 4
bits.  The same holds of `MAXCCALLS`, `LUA_MAXCAPTURES`, `LIMLINEDIFF`,
`MAXIWTHABS`, `RANLIMIT` and `MAXDELTA`, which are made small so that they are
exceeded.

The run that shows a disagreement between the code and what the repository says
of it (`findings` quotes the text):

| Run | Property | What happens |
|---|---|---|
| `require` | `LoadedOnce` | the index of `package.loaded` is one off where `pkg_require` stores its result: a module found as a file, as a global or preloaded is answered, `package` gets the value, and `package.loaded` has nil still |

Other disagreements show when the configuration of a passing run is changed, and
are the reason for its bounds:

* `api` with `RawPseudo <- RegistryAndGlobals`: `ActsAsIn51` fails.  `lua_rawget`,
  `lua_rawset`, `lua_next` hand `xidx(LUA_GLOBALSINDEX) = 0` to Lua 5.5, although
  the comment says "For LUA51_GLOBALSINDEX the caller must handle the case
  specially" (`lua55_compat.cpp:40-41`).
* `api` with two threads: replacing the globals of a thread replaces those of all,
  which Lua 5.1 keeps apart ("The thread environment", `manual.html:2357`).
* `luau_buffer` with `LongValues = TRUE`: `BuildsStringsToo` and `PiecesShrink` fail.
  `luaL_addvalue` (`lua51_compat.cpp:645-650`) flushes a piece over the value and
  then pops the piece.
* `buffer` with arrays of 1, 22 characters and the invariant `StackInFrame`:
  `buf_flush` never joins pieces, and the twenty-first has no slot
  (`LUA_MINSTACK`).
* `resumes` with `CompatResumes = TRUE`, `Closable = {}` and `MaxFrames = 3`:
  `CStackBounded` fails, for `lua_resume` of the layer passes no resuming thread
  (`lua55_compat.cpp:469`) and each coroutine counts C calls from zero.
* `resumes` with one coroutine, `ErrCcalls = 5`, `Hooked = {}`, `Handlers = {FALSE}`,
  `MaxFrames = 3` and the invariant `OverflowIsHandled`: a resume with the count
  one below the limit leads past the test for equality (`ldo.c:979`,
  `lstate.c:126-131`).
* `functions` with `x - 0` among the operations: `OperatorsCompute` fails.
  `finishbinexpneg` (`lcode.c:1545-1562`) codes a subtraction of the literal 0 as
  an addition of 0, and -0.0 - 0 becomes 0 (`local x = -0.0; print(1/(x - 0))`
  gives `inf`, where a variable in place of the literal gives `-inf`).
* `gc` with the one population `With(<<"finalizable", "finalizable", "table">>)` and
  `Keyed = {}`: `AccessibleAlive` fails, after twenty states.  A state is closed while
  half of `tobefnz` is swept (`GCSswptobefnz`); `udata2finalize`
  (`lgc.c:947-958`) moves the object that `sweepgc` points into to `allgc`, so the
  sweep goes on in `allgc` and the rest of `tobefnz` stays black.  If the finalizer
  then meets an emergency collection, that one takes the rest for marked, does not
  traverse it, and frees what it refers to before its finalizer runs.  The
  populations of `gc` and `gc_gen` have one object with a finalizer
  each, so for more than one both runs say nothing of a state that closes.
* `functions` without the premise of `UnpacksAsIn51`: a count above `INT_MAX` is
  cut to a small or negative one before the stack is grown
  (`lua55_compat.cpp:1015`), and all the values are pushed.

Bounds (`MaxFed`, `MaxNest`, `MaxValues`, `MaxFrames`, `MaxTop`, `MaxPending`,
`MaxMade`, `MaxVars`, `MaxErrors`, `MaxYields`, `MaxSlots`, `MaxStack`,
`MaxEntries`, `Keyed`) are guards of actions of the application, never of the library,
except that a message handler gets a frame beyond `MaxFrames`.  All models are
symmetric in the values they do not distinguish, but no symmetry is declared,
since several runs check action or temporal properties; objects of one kind are
created in order instead.  Deadlock is checked except in `close`, where a thread
ends, and in `functions`, where a state is a finished call.

**Fairness.**  `CompatBuffer!FairSpec`: weak fairness of the loop of
`luaL_addlstring`, which is sequential code with no call that could block.
`LuaCalls!FairSpec`: weak fairness of `Delivery`, the steps from a `longjmp` to
the function that goes on; they too are C code that nothing can stop.  In both,
nothing is assumed of the program: it need not return, resume or raise anything.
`LuaGC!FairSpec`: the collector is called again and again, as it is by a program
that allocates, and finalizers return.  In addition memory may not run out for
ever while finalizers wait: an emergency collection starts by finishing the cycle
under way and calls no finalizer, so that an endless row of them starves the
finalizers, and the objects that wait for them are never freed.  The run shows
that this is the only way.

Each property of a passing run has a mutant, a definition changed as a plausible
bug would change it, under which TLC finds the property violated.  Mutants
are the definitions commented with "Mistake".

## 4. Theorems

### The buffers over Lua 5.5

For every value of the constants that `SizeAssumption` and `BoundAssumption` allow:

* `TypeCorrect`: `Spec => []TypeOK`;
* `PiecesStay`: `Spec => []PiecesOnStack`;
* `BufferStaysInStruct`: `Spec => []BufferInStruct`, if `AppBufferSize =
  BufferSize`.  The assumption is what the comment at `lua55_compat.cpp:76-78`
  claims; with a `BUFSIZ` that is not 8192 it is false, and TLC finds the overrun
  in a few steps;
* `BuffersBuildStrings`: `Spec => BuildsStrings`, that is, `CompatBuffer` implements
  `StringBuilder` under the mapping that run `buffer` checks.

The invariant behind them, `IndInv` in `Buffer_proofs`, joins type
correctness and the places of the pieces with two facts without which they are not
inductive.  `BufferInArray`: a buffer never holds more bytes than the library's
array, or the room that `luaL_addlstring` and `luaL_addvalue` compute would be
negative.  `CallOnTop`: while `luaL_addlstring` runs, there is an open buffer and
nothing lies above its pieces, or the pieces flushed by its loop would go on top of
a value of the application.  `Invariance` proves it with one step per action;
lemmas give what `buf_flush`, `lua_concat` and a change of the innermost buffer do
to each conjunct.  Lemma `ConcatAppend` (the concatenation of `ss` and one more string
`s` is the concatenation of `ss`, then `s`) goes through tables of the recursive function in
`Concat`: a table exists for every length, two of them agree where both are
defined, and so the function is the last entry of any; induction is over a set of
natural numbers, stated and proved in `LoopTheorems`.

**The refinement.**  The text of the innermost buffer is what its pieces, its array
and the rest of the argument of `luaL_addlstring` hold, in this order.  Three
lemmas about that text carry the proof: bytes copied to the array come at its end
(`TextAdd`), a string that becomes a piece too (`TextPiece`, from `ConcatAppend`),
and `buf_flush` changes nothing of it (`FlushText`).  So every call is the step of
`StringBuilder` that its name suggests, and the turns of the loop are stutters.
`MapTop` says that a change of the innermost buffer and of the stack above its base
leaves the texts and values of the buffers around it as they are, and this is what
`PiecesOnStack` is needed for.  For `luaL_pushresult` it is shown that the one
string `lua_concat` leaves lies where the buffer began, on top of the values of
the next buffer (`ResultIsValue`).

### The buffers over Luau

For every value of the constants, if `LongValues = FALSE`, that is, if
`luaL_addvalue` is given values for which there is room in the array (with a longer
one the code pops a piece, section 3):

* `PiecesKeepShrinking`: `LuauSpec => []PiecesShrink`;
* `LuauBuffersBuildStrings`: `LuauSpec => BuildsStringsToo`;
* `BuffersTakeFewSlots`: `LuauSpec => []FewPieces`, what the first is good for: a
  buffer with `lvl` pieces has a text of at least `lvl * (lvl - 1) / 2` characters.
  The other layer has no such bound (section 3, `StackInFrame`).

`LuauInv` joins the invariant of `CompatBuffer` and `PiecesShrink`; together they
are inductive.  Where this layer does what the other does, its actions are shown to
be those of `CompatBuffer`, and the same lemmas apply.  The
rest is what `adjuststack` does.  Concatenating in two groups gives what
one concatenation gives (`ConcatJoins`, by induction over the second group), so
that a join keeps the text (`JoinKeepsText`).  After a flush only the topmost piece
can be too long (`FlushShrinks`); the size of `n + 1` pieces exceeds that of `n` by
the next one's (`SizeOfNext`), so that the loop of `adjuststack`, where it stops,
leaves below the joined pieces one longer than all of them (`JoinShrinks`).

### Calls, errors and coroutines of Lua 5.5

For any set of coroutines and any limits that `ThreadAssumption` and
`LimitAssumption` allow, so for call stacks of any depth:

* `TypeCorrect`: `Spec => []TypeOK`;
* `LongjmpsLand`: `Spec => []JumpsLand`;
* `FunctionsCanBeContinued`: `Spec => []CanBeContinued`;
* `CountsAreExact`: `Spec => []CountsAreRight`;
* `HandlerIsInForce`: `Spec => []HandlerInForce`;
* `HooksAreSwitched`: `Spec => []HookSwitch`;
* `CStackIsBounded`: `Spec => []CStackBounded`, if `CompatResumes = FALSE`.  When
  functions resume through the layer, which passes no resuming thread
  (`lua55_compat.cpp:469`), each coroutine counts from zero and the statement is
  false: section 3 names the instance in which TLC finds it so;
* `CallsKeepPromise`: `Spec => KeepsPromise`, that is, `LuaCalls` implements
  `Coroutines` under the mapping that run `calls` checks.

**The invariant.**  None of the properties is inductive by itself.  `IInv` in `LuaCalls_steps` is the type, `ActiveOK` (the resumed
threads are distinct, and healthy) and, for every thread, `ThreadInv`: what its
`CallInfo`s and the fields of its `lua_State` have to do with each other, given
the thread's *role*.  The role is what the C code is doing with it: the running
thread runs, raises, throws, has been caught by `lua_resume` or is being unrolled;
the others wait for a coroutine, have yielded, are idle or dead.  TLC checked the
invariant on instances of up to 720 000 states before it was proved.  Its parts:

* `Shapes`, `TopOK`, `MainOK`: which `CallInfo`s there can be, which of them can
  lack an activation, and what the last one is.  A C function without its
  activation waits with a continuation: this gives `CanBeContinued`;
* `Buffers`: the buffers of `luaD_rawrunprotected` are, in order, those of the
  activations in `lua_pcallk` without continuation, and each saved the counts, the
  handler and the hook switch that hold below its `CallInfo`.  Without the second
  half a `longjmp` would land, but in a thread whose counts are wrong;
* `Counts`: C calls and non-yieldable calls are counted from the stack
  (`CCallsIn`, `HeldIn`).  The counts are exact if no error is being handled; then
  they may be too high, for `luaD_throw` may have left attempts at calling the
  handler behind, but never too low.  The lower bound is what shows that a thread
  which may yield has no buffer (`JumpsLand`), the other that the counts are right
  once the handler has ended;
* `Nested`: a `lua_pcallk` with continuation saved in its `CallInfo` the handler
  and the hook switch in force below it.  It is a yieldable call, so nothing below
  it handles an error, runs in a hook or holds yields back; this is why
  `finishpcallk` may restore only these two;
* `InForce`: `L->errfunc` and `L->allowhook` are those of the stack, except
  between `luaD_throw`'s jump to `lua_resume` and the end of `finishpcallk`;
* `Bounded`: the counts against the limits.

Each function of `ldo.c` is a lemma of `LuaCalls_steps`, about the values of one
thread and not about the state: from a role to another.  `LuaCalls_proofs` applies
them to the running thread, and for resumes, yields and the end of a coroutine to
two threads; the others keep all their values and their role.

**The C stack.**  Its bound is about all the resumed threads together, and needs
an invariant of its own (`StackInv`): the count of a
resumed thread starts one above the count of its resumer, so that the counts along
`active` add up to what lies on the C stack, by induction over the place in
`active`.

**The refinement.**  Every step of `LuaCalls` is a step of `Coroutines` or a
stutter, one lemma for each action.  What `Coroutines` sees of a stack (`View`) has
no buffers, counts, saved fields or activations; while `unroll` goes on, its last
function is seen as already back from its call, for `unroll` finishes at its own
pace what the return has decided.  The steps that have no counterpart
(`luaG_errormsg` without a handler, the jump to `lua_resume`, most of `unroll`)
leave the view as it is.  The heart is that the target of an error is the same on
both levels.  `luaD_throw` looks at the innermost buffer, and if there is none
`precover` searches the `CallInfo`s (`findpcall`); `Coroutines` knows one rule, the
innermost protected call.  They agree by `Buffers` and `Shapes`: a buffer belongs
to an innermost live `lua_pcallk`, no protected call with a continuation lies above
it, since calls inside of it are not yieldable, and `findpcall` runs only when no
live one is left.

### Indices and tables of globals

For any tables, keys and upvalues, any contents of the stacks, and stacks of any
size that Lua 5.1 has (`MaxTop <= 8000`, its `LUAI_MAXCSTACK`; with ten thousand
values a stack index would be a pseudo-index):

* `TypeCorrect`: `Spec => []TypeInv`: whatever a program calls with whatever
  pseudo-index, the registry's entry for the globals stays a table;
* `TablesAreFound`: `Spec => [](bad = FALSE)`: the layer never hands Lua 5.5 another
  value for a table, if the globals' index is not given to `lua_rawget`,
  `lua_rawset` and `lua_next`;
* `ThreadsActAsIn51`: every call but `lua_replace` of the globals is one step of
  `Lua51Api`, in any number of threads, under two conditions, each of which is a
  place where the code does something else (section 3): the environment's index is
  not used, for `xidx` makes the registry of it, and the globals' index is not given
  to the three functions named;
* `ImplementsLua51`: `Spec => ActsAsIn51`, with `lua_replace` of the globals, if there
  is one thread or the program does not use their index.  Run `api` has these
  conditions as its constants.

`TypeInv` is inductive.  The theorem about the calls is then a matter of what the
composed operations do.  `lua_rotate` is three reversals of a segment: `TurnedUp`
and `TurnedDown` say where they leave each value, and from them `InsertIs` and
`RemoveIs` what `lua_insert` and `lua_remove` make of the stack.  `GlobalsSink`: the
table of globals, pushed and put below the one or two values the call takes,
is at the index that the code then uses; so `GetGlobalIs` and `SetGlobalIs` leave what
Lua 5.1 leaves, and nothing of the layer's own.  `IndexMeans`: for every index with
a translation, `index2value` of `xidx(idx)` in Lua 5.5 is `index2adr` of `idx` in
Lua 5.1.  `NextEntryIs`: the entry `lua_next` takes is the least one that follows the
key.  Each call is one lemma on top of these.

### To-be-closed variables of Lua 5.5

For every value of the constants that `Bounds` allows (`FrameSize > 1`: the code
always gives a function two registers; `FrameSize + 2 <= MaxSlots`: the first
function fits the stack), so for any distances in the list, any number of calls,
variables, errors and yields:

* `VariablesGetClosed`: `Spec => []VariablesAreClosed`;
* `MethodsGetErrors`: `Spec => []ErrorsInForce`;
* `ResultsGetDelivered`: `Spec => []ResultsAreDelivered`.

`IInv` has four parts, and TLC checked it on the instance of run `close` before
it was proved.  `Variables`: the list of variables is `live`, in order, with its
dummy nodes; no slot of it is overwritten.  `Thread`: each `CallInfo` has the shape
of what it is doing (`Shape`), and fits the one above it (`Pair`).  A function that
closes variables has a closing method above it, with the error in force as its
argument; what it will return lies in its slots below the method; if it recovers
from an error, the error object lies just below the method.  A function that has
marked no variable has none, so that it may return at once.  `Statuses` says the same of the last
`CallInfo` while it runs, where the top takes the place of the method (`OnTop`), and what
a yield and an uncaught error leave.  None of the three properties is inductive
without it: that results arrive needs that they lie below every
method that runs in between, and this needs that every variable lies above its
function and below the first free slot.

`Pair` and `OnTop` have the values and the slots as parameters.  Nearly every step
changes them only above the last function, so one lemma (`PairKept`) does for all
the `CallInfo`s below.  The list is treated apart from the rest: `NodesAreSkipped`
shows that the nodes `luaF_newtbcupval` adds are those that `poptbclist` skips,
`ListGrows` and `ListLosesLast` that they keep `Variables`.  Then there is one
lemma for each action; the hard ones are the end of a return (`BackLands`,
`PosCallLands`), one round of `luaF_close` (`CloseNextKeepsInv`) and a caught error
(`RaiseErrorKeepsInv`), where the `CallInfo`s above the protected call are gone and
the variables they had marked become those of the call that closes them.

### Tables of Lua 5.5

For every value of the constants that `Sizes` allows (finitely many keys; sizes of
array parts up to a power of two below `LUA_MAXINTEGER`), so for any hash functions
and collisions, any seeds, and whichever hash parts keep a `lastfree`:

* `TypeCorrect`: `Spec => []TypeOK`;
* `SpaceSuffices`: `Spec => []EnoughSpace`, what `newcheckedkey` asserts;
* `KeysAreFound`: `Spec => []KeyIsFound`: `lua_next` never fails with "invalid key"
  in a program that assigns to no new fields;
* `ImplementsMap`: `Spec => IsAMap`, that is, `LuaTable` implements `LuaMap`.

`IInv` says of the table that it is `Sound`: its chains are right (`ChainsOK`), no key
is in both parts (`Apart`), the array part has entries of keys only, sizes and the hint
are within their bounds, and no entry was lost.  During a traversal (`InOrder`)
the key has a place, and of the keys that have values those returned are
the ones with places up to it.  The argument has five parts.

*Chains.*  They are treated on functions, the key and the link of each
node, without the rest of a table.  `Found1st` says that every node whose key is not
dead is the first of its key on the chain from its main position.  It is not
inductive alone.  `Ends`: every set of nodes has one whose link leads out of it, so
that every walk ends.  `LinksOK`: no two links lead to the same node and free nodes
are on no chain, so that the node before a colliding one is unique and
`insertkey` finds it (`NodeBefore`, `PreviousLinks`).  `MainTaken`: the main position of a
key on a chain holds a key with the same main position, so that a colliding
node that is out of its own main position can be moved.  `PutInMain`, `PutBehind` and
`PutMoving` show that the three cases of `insertkey` keep all this;
`InsertKey` carries it over to tables.  Keys that die only leave the set of
nodes to be found (`FewerLive`); the chains go through them as before.

*Loops.*  The prover cannot unfold a recursive function over any number of turns.
`LoopRuns` (in `LoopTheorems`) says that a function given by a first value and a step exists, and is
proved by induction over a set of natural numbers; each loop is an instance, with an
invariant of its own (`SliceMoves`, `HashMoves`, `SearchIs`, `ProbesStop`).  Walks along
chains have no number of turns: `FollowsExists` defines where a walk leads to by
the sets closed under links, and `SearchEnds` and `SearchFinds` go by `Ends`.

*Sizes.*  A new hash part is `Packed`: each of its keys has a value, so that as many
nodes are taken as it has entries, and an insertion cannot fail while there are fewer entries than nodes
(`InsertFits`).  `Fits` bounds the entries that a resize puts there by the keys
destined for it, and `SizesChosen` shows by counting that `rehash` makes room for them
and the new key, wherever `computesizes` draws the line.  `Resizing`: the
resized table has the entries of the old one, and no other.

*Traversal.*  `PlaceOfKey`, `IndexOfPlace` and `NextPlace`: keys with values have places,
`findindex` and `luaH_next` go from one to the next, and assignments to
existing fields and the collector move none (`OrderKept`).

*Length.*  `LengthIsBorder`: whatever the hint is, the steps around it, `binsearch`
(each turn keeps a present index below an absent one and halves the distance) or
`hash_search` (the probes double, so that they end at an absent index or at the
largest integer) return a border.

With `RehashSizesShort` in `rehash`, a new key that is not counted, the proof fails.

### Numbers of Lua 5.5

For words of any number `W` of bits, mantissas of any number `NBM` of bits up to
`W - 2`, and any `MAX_LMEM` above 31.  The run checks the five formulas of
`LuaNumbers` on words of four bits, as parts of `NumbersAreExact`; the theorems
state them for all arguments:

* `LoopsAreExact`: `LoopIsExact`, for any initial value, limit and step of a loop;
* `DivisionsAreFloors`: `DivisionIsFloor`, for any operands;
* `ComparisonsAreExact`: `ComparesExactly`, for integers of a word and any floats;
* `NumeralsAreExact`: `NumeralIsExact`, for any sequence of digits;
* `ParamsAreClose`: `ParamIsClose`, for any percentage and any number.

The assumption `Words` asks of the bases only that they are greater than one, and
that the decimal one does not divide the number of positive words.  Ten divides no
power of two; with a base that does, the test `d > MAXLASTD + neg` in `l_str2int`
would be wrong for the least integer, whose last digit is 0.

*Loops.*  `LimitIs` shows that the limit of `forlimit` admits the same integers as
the number it stands for, and that a loop is skipped exactly if its initial value
is beyond it.  `CountIs`: the unsigned counter of `forprep` is the number of steps that
stay within the limit, so that the additions of `OP_FORLOOP`, which may wrap around,
never do (`ValuesOfLoop`).

*Comparisons.*  An integer that `l_intfitsf` accepts is a float (`cast_num` is
exact).  Otherwise the float is rounded in the direction that keeps the order, and if it
has no integer on that side its sign decides.

*Numerals.*  What the loop computes is the number read so far, wrapped around
(`DigitsWrap`).  The test before a digit is taken finds the numbers that
are too large with it (`OverflowsAre`), if the number before it is not; the first
digit that is too much is therefore found, although later sums mean nothing.

*Parameters.*  A byte is a mantissa of five bits and an exponent (`ByteOf`); the
bits that `luaO_codeparam` drops are less than the last bit of the mantissa
(`ParamCode`, `ParamError`).  Of the three ways to apply it, none computes more than 31
times `MAX_LMEM / 31` (`SmallTimes`).

### What is only model-checked

Liveness (`ErrorsAreDelivered`, `AddLStringReturns`, `GarbageIsCollected`), which the
prover does not handle; `LuauBuffer` with long values; `LuauRequire`, whose run shows a
violation; and `LuaGC` and the algorithms of run `functions` other than those on
numbers, which are written with recursive operators, beyond the prover.  `NumbersAreExact`
itself is a formula of the module of that run, which extends theirs, and so no theorem
states it: the theorems are about its parts.

## 5. Not modelled, and why

The models stand for about a ninth of the implementation's lines.  What remains
is, for the most part, code whose correctness is not a matter of states and
orders: formats, files, the C library, the tables of Unicode of a test library,
macros and declarations, Lua 5.1's own source, which is here only as the
contract.  In detail:

* calls: tail calls, yields in hooks, memory errors, reallocation of the stack;
* to-be-closed variables: the test for a `__close` metamethod; `pcall` delivers
  only its results, without the boolean;
* collector: pacing by bytes, `LUA_GCSTOP`, userdata, prototypes, the string
  table and its caches; a state has at most four objects besides the main thread;
* tables: floats as keys, the limits on the size of a hash part ("table overflow");
* compiler: the grammar, calls, functions and
  their upvalues, numeric `for`, global declarations other than `const`;
* pattern matching: anchors, character class names, malformed patterns, plain
  `find`; packing: the checks of sizes against `MAX_SIZE`, floats other than their
  bytes;
* indices: metatables, integer keys, userdata, conversions of values: the layer
  passes them on unchanged but for the index, which `xidx` translates in the same
  way;
* debug interface of the layer: one `lua55_Debug` and one hook function serve all
  threads and states (`lua55_compat.cpp:91, 95`); a call pairs with another only if
  nothing comes between, and a hook that passes its own `lua_Debug` to
  `lua_getinfo` gets the level of an earlier `lua_getstack`.  There is no promise of
  Lua 5.1 left that several calls keep;
* `lua_resume` of the layer drops the number of results (468);
* lexer, binary chunks, string table, `io`, `os`, `debug`, `package` and the
  mathematical functions;
* files, the search of paths, wording of messages;
* Luau itself is not in the repository; what its API does for the Luau layer is
  taken from how the layer uses it.

## 6. Plan

In this order:

1. `LuaGC` without recursive operators: that marking keeps the tricolour
   invariant, and `AccessibleAlive` for one object with a finalizer (for two it fails
   when a state closes, section 3).
2. The string table with the collector.
