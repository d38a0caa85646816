# A verification development for Bhuna

Bhuna is a small programming language: a scanner and recursive-descent parser
with type inference build a syntax tree; intermediate code is generated from
it, optimized and turned into bytecode; a virtual machine runs the bytecode of
several cooperating processes; a mark-and-sweep collector reclaims activation
records and structured values. All paths below are relative to
`src/src/lib/` unless they start with `src/`.

## Inventory

| component | state | operations | hard behaviour | what makes it correct |
|---|---|---|---|---|
| processes and scheduler (`process.c`) | run list, wait list, mailboxes, `current_process`, the local `next` of `process_scheduler` | `process_new/free/spawn/send/recv/sleep/awaken/scheduler` | lists change while the scheduler holds a pointer into them; sleep is decided in `vm_run` and done in the scheduler | lists well formed, no lost wake-up, every process of a pass gets its slice, nobody starves, the scheduler stops only when it must |
| collector (`gc.c`) | admin flags of records and values, `a_head`, `sv_head` | `gc`, called by `vm_run` every 256 instructions at most | runs between any two instructions of any process | frees nothing in use, touches nothing freed |
| activation records (`activation.c`) | heap list, one stack per vm | new on heap or stack, free, get, set, initialize | stack discipline against returns, lifetime of captured records | popped in call order; records in use stay |
| values (`value.c`, `list.c`, `closure.c`) | structured values, lists, closures | constructors, store, free | one shared permanent value per closure expression | closures see the scope they were made in |
| virtual machine (`vm.c`) | pc, value, call and activation stacks, current record | one case per instruction | tail calls reuse records, no bounds on stacks | variables resolve lexically, stacks balance |
| builtins (`builtin.c`) | – | arithmetic, comparison, containers, processes | types are checked at run time | results and error values |
| intermediate code (`icode.c`, `gen.c`) | linked list of instructions, links back from branch targets | generation, five optimizations, encoding | passes rewire and free instructions others refer to | meaning preserved, links consistent |
| symbols and scopes (`symbol.c`, parts of `parse.c`, `ast.c`) | chain of symbol tables with index counters | define, look up, level differences | blocks share a counter, closures do not | live variables have distinct slots, levels match run-time scopes |
| types (`type.c`) | graph of types, bound variables | create, unify | cycles, aliasing of variables | unification makes both sides equal |
| dictionaries (`dict.c`) | 31 chains and a cursor | fetch, store, copy, iterate | iteration while storing | a map |
| buffers (`buffer.c`) | text, size, length, position | set, append, push, pop | growth, unsigned differences | contents and bounds; nothing in the program uses it |
| scanner (`scan.c`, `utf8.c`) | file, character put back, line and column, token | `scan`, called by the parser for each token | look-ahead across tokens, the end of the file inside a token | tokens are those of the text, places in reports are true, every call returns |
| atoms, reports, tracing, memory, pool, driver, modules | tables, files, counters | – | – | text handling, wrappers and start-up |

Interaction: `main` builds the program and the first process and calls
`process_scheduler`; the scheduler calls `vm_run` for one slice; instructions
call `process_spawn`, `process_send`, `process_recv` (through the builtins) and
`gc`; the value `vm_run` returns makes the scheduler call `process_sleep` or
`process_free`.

## Modules

### Scheduling and processes

`Scheduling` is the abstract specification: sets of runnable and waiting
processes, the set `due` of those that still get a slice in this pass, and
mailboxes as stacks. `Process` is `process.c` with its pointers: the fields of
`struct process` are functions of the address, `Spawn`, `Send`, `Receive` are
what a running process does in its slice, `Dispatch` is the head of the
scheduler's loop and `Expire`, `Wait` and `Finish` are the three ways in which
`vm_run` returns, each with the scheduler's continuation (`Advance`). Each
unlinking or linking sequence of the code is a pair of operators on `next` and
`prev`. An address may be freed and handed out again; a `Send` to a freed
process is the action `SendToFreed`, which either is lost or ends what is known
of the state (`undefined`). `ImplementsScheduling` is the refinement.

Left out: `procno`, which is printed only; the value stack and program of a
process, which `Gc` has.

### Memory

`Gc` has the records, values, closures and process states, and one action per
instruction that allocates, stores or drops a reference, plus `Collect`. It
runs `Collect` between any two instructions, which contains every moment that
`gc_trigger` and the count of 256 instructions could choose. `INSTR_GOTO` is three
actions: the current record is large enough and stays (`GotoSameRecord`), or it is
left and another one, from the heap or from the stack, takes its place
(`GotoOnHeap`, `GotoOnStack`). Records have their `size`, which decides between
these, and one slot that holds something (the argument, or one local that starts as
null); containers have one element. `Parent` says in which routine each routine is
written: one in whose body another is written contains closures and is called with
a record on the heap, the others with one on the activation stack of the default
build. `NoArStack` is the build with `NO_AR_STACK`. Records that a builtin gets for
the time of its call are left out: no collection happens before they go. Numbers,
booleans, atoms and handles are the value `Null`.

A record on an activation stack is known by its process and its depth (`Frame`),
not by its distance from the bottom, which `Vm` has. So a reference to a frame that
has been popped, which only a closure made in a frame can hold (`vm.c:514`), leads
to the frame that has this depth next, where in memory it may lead into the middle
of one.

`Reached` is the set that the recursive marking visits, defined as the least
closed set; records that already carry a mark stop it, as `activation_mark`
does.

`Folded` are the lists that constant folding has put into the program: they are
structured values under the collector, and `PushFolded` pushes them. `InUse`,
what a program can get at, does not contain them while only the program text
holds them, and the collector does free them (`ast.c:143`; the hazard has no
property).

### Calls and scopes at run time

`Vm` is one virtual machine with its three stacks and the records of
`activation.c`. Routines are nested as in a program text (`parent`), and any
instruction that the generator may write into a routine may come next in it:
values are pushed, builtins take their arguments, variables up to two scopes
out are read and written, closures are made (`PushClosure` is PUSH_VALUE with
SET_ACTIVATION), and `Call`, `GotoNewRecord`, `GotoSameRecord`, `Ret` and `Halt`
are the jumps between routines; `GotoSameRecord` is the case of `INSTR_GOTO` in
which the record of the caller is large enough and is taken as it is.
`ForeignSetActivation` is the evaluation of the same closure expression by
another process. An address on the activation stack is its distance from the
bottom, so popping by the size of a record and pushing on top of what is left
are arithmetic, as in the code; heap records are never freed here (`Gc` does
that).

The reference is a machine in which every call opens a new scope and a closure
keeps its scope: the history variables `frames` (the calls that have not
returned), `lex` (the scope around each scope), `holds` (whose variables are in
a record) and `sound`. `sound` becomes FALSE in three cases, each a way in which the
code loses a scope:

- a closure is called whose one `ar` field no longer names the scope it was made in;
- a tail call reuses a record that something else belongs to, or whose enclosing
  record is not that of the callee (`MayReuse`);
- a closure is made in a record on the activation stack. A call gives a routine with
  closures a record on the heap, but `INSTR_GOTO` compares sizes only (`vm.c:514`):
  after a tail call such a routine may run in the stack record of its caller.

`LexicalScope` says that there is no fourth one. The run `vm_tail_call` shows the
second; the first is the hazard at `vm.c:596`, the third the one at `vm.c:554`: an
outer routine without closures tail-calls one with closures, which returns a closure;
the frame is popped, the next call takes it, and the closure then reads the variables
of that call. A main program may end with a tail call too (`return F(...)` is
parsed at top level), and then the callee gets the record of the globals.

Left out: the program counter within a routine, which `Icode` has; what
builtins compute; DEEP_POP and COW_LOCAL.

### Dictionaries

`Dictionary` is the promise of `dict.h`: a map and a loop over its keys.
`Dict` is `dict.c`: chains and the cursor (`cursor`, `cur_bucket`), one action
per function that changes them. A chain is the sequence of its links from the
last to the first, since new links go in front: a cursor then keeps its number
when a link is added, as the pointer keeps its link. `hashpjw` is any function
from keys to buckets. `ImplementsDictionary` is the refinement; the history
variables `old` and `seen` say what the loop has come to. No program can make a
dictionary at present: `btype_dict` (`builtin.c:567`) has no type to give, and
the parser stops on it.

### Scanner

`Scanner` is `scan` with `scan_char`, `scan_putback` and `fgetu8`. A step reads
at most one character, which is decided when it is read, so that files with the
same beginning share their states; `state` is the loop of `real_scan`. `text`
and `tokens` are history variables. The reference is `TokensOf`, the tokens of a
text by longest match. `TokensAreTheText` leaves out the two cases in which the
scanner drops a character (`Fits`, `EndsInSlash`): the one after a string of 255
characters and a `/` that ends the file. White space has three classes, as
`scan_char` has three rules for it: the newline, the tab, which goes to the next
multiple of 8, and `space` for all others, which take one column like any other
character. `ColumnAfter`, the reference for columns, has a formula for these of its
own and does not use `NextColumn`.

Left out: the bytes of a character: a file that ends within one ends before it,
and a malformed one, with the byte that shows it, is `other`.

### Intermediate code

`Ast` has the syntax trees: constructors that build them as `ast.c` does, with
constant folding. `SyntaxTrees` has the functions that are recursive over a tree;
each tree has a height, larger than that of the trees right below it, and nothing
else is assumed of the set of trees than what the parser makes (`WellFormed`).
`Compiler` makes code of a tree (`Gen` is `ast_gen_r`, with one operator per kind of
node, and `Code` is `ast_gen_iprogram`) and says what the tree means. `Icode` starts
from a list of instructions, any that `Listing` allows: operands are known, jumps
and closures lead into the list, and HALT ends it. The five optimizations run in the
order of `main`, one action per instruction that a walk visits (`EliminateNop`,
`ReplaceJump`, `OptimizeTailCall`, `PushSmallInt`, `EliminateDead`; `KeepAlive` and
`PassBy` when the walk leaves it as it is), and `Encode` is `iprogram_gen`. The list
is a sequence of instruction numbers; branch targets and referrers are kept as the
code keeps them, including links that a pass forgets to remove, so that `LinksExact`
can be wrong. `BytecodeIsTheList` compares what the encoder has written with the
list, by the sizes that `vm_run` skips, from byte 0 on. `Encode` places instructions
by the sizes that the encoder writes.

What instructions do is in `Icode` as well. A flow says what follows each
instruction: `ListFlow` that of the list, `MemoryFlow` that of the bytes, by the
sizes that `vm_run` has. `Effects` is what one does that a reader of the program can
tell: jumps and NOPs do nothing, a tail call does what CALL and RET do. `Step` is
one instruction of a run, for given outcomes of its tests. The action property
`MeaningIsKept` says this of every step of every pass: what is left has the effects
it had and goes on where it did, past a freed NOP at most, and the program and its
closures begin there too.

`CompilerSpec` is `Spec` of `Icode` for the code of a tree. Its reference is a run
over the syntax tree itself. What is still to do is a tree and what follows it, an
effect, a test with what follows for either outcome, or the end; `Unfold` takes one
node apart (a loop is its test, then its body and the loop once more) and `TreeStep`
is one step. `MeaningPreserved` says that a run of the list or of the bytes, `Step`
after `Step`, ends as the run over the tree does, with the same effects in the same
order, and takes at most twice as many steps. Neither knows the other: the tree has
no jumps and the code no nesting.

Left out: numbers and types of nodes, levels of variables (`upcount`, which
goes the way of the index), which of the pure builtins it is: `Add` stands for
those of fixed arity, `List` for the others.

### Names and scopes

`Symbol` is what `parse.c` does to symbol tables, with `symbol.c` and
`ast_new_local` in it. The state is that of the recursive descent: the open
tables, the routines whose bodies are being parsed (the locals `my_arity` and
`my_cc` of each call of `parse_primitive`), the definitions whose initializers
are being parsed, and the closure just made. One action opens or closes a
table, reads an argument, begins or ends a definition, or mentions a name; any
order that the grammar allows is a behaviour. A reference is the pair (upcount,
index) that goes into the code. History variables number the declarations and
say which declaration each slot of a routine was given to, so that
`ReferencesReachTheirVariable` can compare where a reference leads at run time
with the variable it was made for. Errors are recorded and parsing goes on, as
it does in the code.

A constant is replaced by its value where it is mentioned. If the value is a
closure, it gets the record of the routine that mentions it as its scope: this
is `WithClosure` applied to the references of the constant, and
`ConstantRoutines` says whether programs have such constants. A constant that is
defined by the name of another one has its value, also if that is a closure
(`EndDefinition`). What the initializer of a constant mentions does not go into the
code.

`ClosuresAreCounted` says that `cc` has counted every closure made in a routine.
Whether such a routine always runs with a record on the heap is not a question of
the parser: `INSTR_GOTO` does not look at `cc` (`Vm`, the third case of `sound`). Nor does
`cc` count a constant routine that is only mentioned; programs with these are the
subject of `symbol_constants`.

Left out: types, the token stream, precedence, `return`. Builtins and the
predefined constants are one kind of symbol. A routine declared by `import`
hides a variable of the same name in the table, which the model replaces.

### Types

`Types` is `type.c` with the functions of `ast.c` and `parse.c` that make types
and ask for two of them to be equal. A `struct type` is a position in the
sequence `types`, with its class, its parts and its `unifier`; `names` are the
types of symbols. There is one action per constructor of a syntax tree
(`Apply`, `Assignment`, `WhileLoop`, `Conditional` with `Join`, `ArgList`,
`Routine`) and they can follow each other in any order, on any types that
expressions may have. The recursion of `type_unify` is the sequence `calls`,
one `UnifyStep` per call; a failing call drops the others, as `&&` does.

The history variable `meant` is the reference: the finest partition in which
everything asked for is equal and which is closed under decomposition of types
with parts. `TypesAreWhatTheyMean` and `ErrorsAreReal` compare the links and
the reports of the code with it. Cyclic types are among its classes, since the
code has no occurs check.

Types without parts exist once, because nothing in the code tells two of a
class apart; lists of integers, the only ones that a builtin makes, and opaque
types behave like them. Left out: the types of the builtins, which are closures
made anew at each use; that a variable number occurs twice in one of them (9 in
`btype_equality`, 5 in `btype_fetch`) means nothing, for each occurrence is a
variable of its own. Also left out: reports about commands and functions, which
change no type, and what the parser does with the range of a type that is not a
routine, which is an uninitialised read.

### Instances

`MCGc`, `MCIcode`, `MCSymbol`, `MCTypes`, `MCVm` and `MCLeaves` give the constants
their values for TLC; `Process` needs none. `MCLeaves` has the behaviours of `Dict`
and those of `Scanner`: neither part calls the other or anything else.

## Runs

| run | what it asks | bounds |
|---|---|---|
| `process` | safety, refinement and starvation freedom of the scheduler | 3 processes, 2 messages, 2 per mailbox |
| `gc_heap` | nothing in use is freed, records on the heap | 2 nested routines of different sizes; 2 processes, 3 records and 1 value on a stack, or 1 process, 2 records, 2 structured values, lists, 2 values on the stack |
| `gc_default` | what a collection keeps in the default build, frames in call order, types | 1 process, 1 heap record, 2 frames, 2 routines of different sizes, 1 value, 1 message, lists and dictionaries |
| `gc_stack_marks` | violated: marks on stack records are never cleared | 1 process, 1 frame |
| `gc_sleepers` | violated: sleepers are no roots, no message being unread | 2 processes, 3 records |
| `icode` | links and meaning after every step of every pass, against the tree and against the step before; the encoded program against the list and its meaning | 1569 programs, 2 outcomes of tests and 44 steps over the tree per run |
| `symbol` | references, sizes of records, closures counted | 2 names (one predefined), 4 tables, 2 slots and 1 closure per routine, 2 declarations |
| `symbol_constants` | violated: a constant routine gets the scope of its mention | the same, constants may be routines |
| `types` | unification against its reference, errors, termination of the loops over types | 6 types: 2 classes without parts, 2 names, 3 types with parts |
| `vm` | the chain of calls, the activation stack, scopes | a program with one variable, a routine in it that holds another, and a routine with an argument; 4 calls in all, 3 not returned, 3 values |
| `vm_tail_call` | violated: after a tail call `enclosing` is the scope of the caller | the same |
| `leaves` | dictionaries as maps with a loop; tokens and places of the scanner, termination | 4 keys in 2 of 3 buckets, 2 values (one of them null); files of 5 characters, tokens of 2 |

Three processes make lists with a first, a middle and a last member, and the one
that runs can be any of them; a mailbox of two messages shows the order of the
stack. The theorems hold for any number of them. In `gc_heap`, three records make a
scope, its call and a record whose address is reused. Two CONSTRAINTs of `MCGc` keep
the product of everything small: `LessOnTheHeap` lets a program have structured
values or else a second process, a third record and the nested routine in use;
`LessByDefault` lets the second routine be used while there are no structured values
and no messages. What a step out of these bounds leads to is checked, but not what
follows. `gc_default` explores only states in which nothing in use has been freed (a
CONSTRAINT): what follows is undefined. The property `CollectKeepsWhatIsInUse`
therefore names the conditions under which a single collection is safe, and these
are exactly the complements of the two findings about the collector, of the unmarked
contents of dictionaries (marked XXX in `gc.c`) and of the unmarked messages.
`CollectKeepsSleepers`, which `gc_sleepers` refutes, is about collections while a
process sleeps and no message is unread, so that the unmarked messages have no part
in it. Tail calls whose current record is in the heap and whose next one is on the
stack, and closures made in frames, are covered by the proofs: these routines would
need two nested ones and a third in one run.

The programs of `icode` are all that a small grammar gives: loops and conditionals
in each other two deep, early returns in every branch, tail calls before and behind
joins, in the main program, in a closure, in a closure that is mentioned twice and
in a closure of a closure; variables 0 and 255. Two outcomes let a loop run once and
end, or a test of the loop be followed by one in it; every jump is taken and not
taken. A run over one of these trees has ended after 44 steps (an `ASSUME` of
`MCIcode`), so none is left out by that bound, and a list or the bytes get as many
steps again for their jumps and NOPs. Left out are programs that crash the compiler
(empty loop bodies and first branches) and those with a closure among the constant
arguments of a builtin, for which it generates no code (`ast.c:121`); a property
stated for them would say that they fail.

Four tables hold the main program, a block, a routine in it and a block or
routine in that, so a slot can be given back by a block, or captured, before the
second declaration takes the next one; two names shadow each other and the
predefined one is hidden by a variable and brought back by `import`. States
after the first error are not explored: such a program is not run.

Six types are a name, what `type_ensure_routine` makes for it and the two classes
without parts, or two names and two types over them: enough for cyclic types, sets
in sets, and a unification that fails in its second part. States after the first
error are not explored here either.

In `vm`, one variable of the program and one argument make records of two sizes,
so that a tail call finds its record too small, just right or too large; the
nested routine has two scopes around it. `vm` goes on only from sound states (a
CONSTRAINT), beyond which `LexicalScope` says nothing; the other properties are
proved for the others as well. Two keys in one bucket, an empty bucket before
the last and a loop that stands in either chain are the cases of `dict_advance`.
Five characters hold a string that is too long with its quotes, or a comment, the
newline behind it and the token that follows.

The runs of `Process`, `Gc` and `Vm` do not check for deadlock: a Bhuna program
may end, and the scheduler or `vm_run` then returns.

Fairness (`FairSpec`): `Dispatch` is weakly fair because the scheduler is a
plain loop, and the end of a slice is because `vm_run` counts instructions and
gives up after `TIMESLICE`. No fairness is assumed of what a process does in
its slice: it need not ever send, receive or end. For the scanner, the steps of a
call that has begun are weakly fair (`Fairness`), since it is a function that
waits for nothing but the file; the parser need not call it.

## Proofs

Every theorem is about the specification that TLC checks, for every value of its
constants. The argument is always the same: an inductive invariant, checked with
TLC first, that holds initially and is kept by every action; the properties
follow from it.

`Induction` has what the others need and the library states only of operators:
every set of numbers has a least element, a set that has 0 and successors has all
numbers, and a function defined by recursion over a size exists
(`RecursiveFunction`, and `RecursiveTable` for a definition that uses the values
of several smaller arguments). They are stated of sets and functions, and follow
from `NatLessThanWellFounded` and `WFMin`. So a proof about a recursive function
of a module first shows that there is one.

`ProcessProofs` begins with facts about doubly linked lists: what linking in
front and unlinking do to the set of members, to the links and to another list
disjoint from the first, for any set of addresses. Membership is "in every set
that holds the head and is closed under `next`", so no recursion is needed.
`ListsWellFormed` is not inductive: one needs that both lists are minimal closed
sets (`IsList`), that their back links mirror the forward links (`BackLinked`),
that the scheduler's process is in the run list and that the pointer it saved is
still that process's successor (`SchedulerInv`; nothing that happens in a slice
puts a process behind the running one), and that sleepers have empty mailboxes.
From `ProcessInv` follow `ListsAlwaysWellFormed`, `NoWakeupIsLost`,
`SchedulerReturnsOnlyWhenIdle`, `SavedNextStaysValid`, the types, and
`ProcessImplementsScheduling`: the initial state maps to an initial state and
every step to a step of the abstract scheduler or a stutter, where `due` is what
can be reached from the saved pointer.

`GcProofs` has three layers. `CollectionIsSafe` is about one collection: what is
marked is closed under references (`Reached` is the least such set), so that
nothing a program can get at is freed, except through the four holes that
`CollectKeepsWhatIsInUse` names. `NothingInUseIsLost` is about programs whose
routines all have their record on the heap (`HeapProgram`), that make no
dictionary, send no message and have no list computed from constants: for these
the invariant `HeapInv` says that no reference leads to something freed
(`HeapOnly`: records are on the heap, so that no activation stack hides one from
the collector; `StringsHoldNothing`: what has no elements refers to nothing).
`TypesHold` and `FramesInOrder` hold of all programs, `FramesFit` (the frames of a
process are its records on the activation stack in the order of calls, `Below`
each other) being the invariant; their hypothesis `[]NothingInUseIsFreed` is
needed, for after one of the findings a reference leads to a record that is
somebody else's by now. `HeapProgram` is needed for the same reason: the run
`gc_stack_marks` shows what happens without it. A tail call is the harder half of
`FramesInOrder`: what it pops is the current record only if the chain of callers is
that of the frames, and the new record takes the place of the old one in both
(`GotoOnStackFrames`, `GotoOnHeapFrames`). The types are split into those
that hold of themselves and those of the stacks, which are lengths of sequences
that are popped without a test.

`SymbolProofs` proves the four invariants of the run `symbol` for any names and
any bounds, if no constant is a routine; the run `symbol_constants` shows that
this cannot be dropped. `ReferencesReachTheirVariable` is strengthened by
`Levels` (levels grow by one at a time along the open tables, and each has
exactly one table that slots are taken from), `GivenSlots` (the slots of a routine
that belong to a variable are those below that table's `next_index`: this is what
a block that gives slots back would break), `OwnSlots` (every variable in an open
table owns its slot, so that a mention makes a right reference) and, for
constants, `PlainConstants` and `PlainDefinitions`. `ClosureRecordFits` and
`ClosuresAreCounted` need `Records` (what a finished routine has counted is
what its tables have given) and `Counts` (the counter of closures of an open
routine has seen every closure in it).

`TypesProofs` is about unification. What is meant is the finest partition in
which the types asked to be equal are together, and with two types of a class
their parts; the proof that `Closure` computes it (`ClosureIsLeast`) is by the
number of pairs that are still apart. The invariant `Exact` relates what is meant
to what has been done and the calls still to be made: every partition that
satisfies these and keeps parts together is at least as coarse as what is meant
(`Justified`), and satisfying them makes the parts of all types of one class and
one representative equal (`PartsFollow`). This is what makes unification right
although a link is made before the parts are unified, without an occurs check and
in any order. From it follow `UnificationIsExact` (no calls are left: the classes
are what is meant, and a type without parts is alone of its class) and
`ReportsAreJustified` (no partition that satisfies what has been asked has only
types of one class together). `Honest` (a class of types that has a known one has
a known representative) gives `KnownTypesAreKept`; a depth that grows against the
links gives `LinksComeToAnEnd`; and for `SetsComeToAnEnd` each set has a depth,
one more than those of its members together, types of one class have the same
depth whenever the parser goes on, and only then are sets made (`Founded`).

`VmProofs` proves the five invariants of `vm` for any program text, any bounds
and also for states in which a scope has been lost. `CallChain`,
`EachCallHasItsRecord` and the types are inductive together with `Layout`: the
tops of the frames grow along the chain, so that two records on the stack cannot
overlap, and no record is larger than `MaxSlots`, from which
`StackIsBoundedByDepth` follows. `LexicalScope` needs as well that closures name
records on the heap only (`ScopesOnHeap`), which is kept because a state in which a
closure was made in a stack record is not `sound`, and that each record in use holds
a call (`RecordsHold`).

`LeafProofs` is about the two parts that call nothing else. For dictionaries it
proves `KeysAreUnique`, `LoopIsComplete`, `LoopDoesNotRepeat`,
`CursorStaysInItsChain` and `DictIsADictionary`, for any keys, values, number of
buckets and hash function, from the invariant that the keys before the cursor are
`seen` and those of `old` that are not are still to come.

For columns, `NextColumnIs` first shows that counting on to a multiple of 8
comes to the same as the formula of `ColumnAfter`. For the scanner, `LeafProofs`
proves the types, `PlacesAreTrue` and `TokensAreThose` for files of any length.
`AheadInv`: while a call runs nothing is put back and `x` is the last character
of the text; between calls what is put back is that character. `PlaceIsTrue` and
`TokensAreTheText` compare with functions that are recursive over the text, so
their proofs are by induction over its length: what is consumed is the longest
match so far (`Held`), and the text splits at every end of a token (`Boundary`,
`Rejoined`), which is where reading on from a character that was put back could
have gone wrong.

`IcodeProofs` begins with facts about lists without repetitions and what removing
an instruction does to places and neighbours. `LinksExact` alone is not inductive: a
NOP can be freed because it has a successor, and a dead instruction because one
before it never goes on, so the walk never frees the last instruction without
another such one becoming the last. `ListInv` adds this (`Walk`: the last
instruction is HALT, or never goes on once dead code is freed; `Behind`: what the
walk has left behind it has no NOP, and `dead` means that the instruction before
never goes on) and that instructions are numbered from 1 and closures below 0
(`Shape`). One lemma says what each kind of change does to the links
(`RewiringKeepsLinks`, `FreeingKeepsLinks`, `UnwiringKeepsLinks`,
`ReplacingKeepsLinks`) and two what it does to the walk (`WalkStays`,
`WalkFrees`); each action uses one of each. From `ListInv` follow `LinksAreExact`
and `CodeIsTyped`. `EncodingIsFaithful` shows first that the labels exist
(`RecursiveFunction`) and grow along the list (`LabelsDiffer`, by induction), so
that no two instructions are written to one place.

Its second part is about meaning. `EveryStepKeepsMeaning` is `MeaningIsKept` for
every list: one lemma for each action, from `ListInv` and what replacing, freeing
and rewiring do to a flow. `OptimizerAndEncoderKeepMeaning` goes from steps to
runs. A run that has come to an end after n instructions is matched by one of at
most n in the next flow (`StepCarries`: a NOP, or a jump to a RET, is where the
second run is shorter; induction over n is `SetInduction`). So whatever the main
program or a closure of the generated list comes to, for given outcomes of its
tests, it comes to in every list that the passes make of it
(`MeansWhatItDid`), and in the bytes, from byte 0 or from where the closure
begins (`PlacedMeans`). For the bytes this takes `Fits`: an index of a variable is
written in one byte. A run that never ends has its effects preserved as well:
what it has done when the outcomes of its tests are used up is one of the things
it comes to (`"cut"`). A loop without a test comes to nothing, and nothing is said
of it. A closure that is mentioned twice has two bodies, and the code keeps the entry
of one; the theorem says that it is one of these.

The third part is about the generator. `CodeIsAListing` is what the second one
assumes of its lists, for the code of every tree: jumps lead into the code and
pushed closures have theirs in it (`Sound`), operands are known, and the last
instruction is HALT. `ProgramMeansTheTree` is `MeaningPreserved` for every set of
trees. It has three layers. Where the pieces of a node's code lie is arithmetic
about concatenation (`Lies`, and one layout lemma for each kind of node). What the
code of a node does is again one lemma for each kind (`Correct`): wherever it lies,
if what is behind it does `rest` (`Follows`), it does the node and then `rest`.
Loops have no smaller tree to appeal to, for the loop occurs in what its body is
followed by; so `Follows` is about runs over the tree of at most a given number of
steps, and a loop is by induction over that number while nesting is by induction
over the height (`TreeInduction`). The number of steps that the code takes is
bounded along the way: jumps and NOPs are charged to the steps of the tree that they
belong to, which is where the factor of two comes from. The last layer is the
invariant `MeansTheSource`: the generated list does what the tree says, and the
present list does what the generated one did, in no more steps (`MeansWhatItDid`);
from this the bytes follow as in the second part.

The theorem assumes `IndicesFit`: a variable has an index of at most 255, since
`iprogram_gen` writes it in one byte. This is the hazard at `gen.c:371`: without it
the bytes do something else. The step from trees to lists does not need it.

What the proofs assume of the constants is what the modules state as `ASSUME`, and
TLC evaluates each of these in a run. `Process`: `Null` is not an address and the
mailbox bound is a number. `Gc`: records, values and closures have different
addresses (`AddressAssumption`), stack records belong to one place of one process
(`FrameAssumption`), calls have at most one argument, and the bounds. `Symbol`:
predefined names are names, and the bounds. `Types`: the classes without parts are
all different and differ from those with parts, and there is room for them. `Vm`:
every routine but `Main` is written in another one, and no routine has more
variables than `MaxSlots`. `Dict`: hash values are buckets and no key is the mark
for none. `Scanner`: tokens may have a character, and the bound. `Icode`: sizes are
numbers, and the lists are such as the generator makes (`Listing`).
`SyntaxTrees`: trees are finite and made as the parser makes them, and a closure
has one body. `Compiler`: the code of the programs is among the lists of `Icode`,
which `CodeIsAListing` shows to be no restriction, and the bounds. Other
hypotheses (no constant is a routine, `HeapProgram`, `[]NothingInUseIsFreed`) stand
in the theorems that need them.

Only model-checked: `EveryRunnableRuns` and `ScanReturns`, since liveness is out of
the prover's reach. Every invariant and every action property of the passing runs
is proved. Where a theorem has a hypothesis, the run that checks the same property
has it too: in its constants (`HeapProgram` in `gc_heap`, no constant routines in
`symbol`, `IndicesFit` in `icode`) or as a CONSTRAINT (`gc_default`).

## Not modelled

See `PROJECT.json`, "components". Reports, tracing, memory wrappers and the
extension modules are text handling and I/O; the value pool is not compiled; most
of `gen.c` is switched off by `#if 0`; nothing calls `buffer.c`; atoms are a list
of names. What is left of the modelled files is in the main arithmetic and
comparison of `builtin.c` and `vm.c`, printing and freeing, and the grammar of
`parse.c` (precedence and literals), none of which has state that another part
depends on.

The collector keeps no list that constant folding has made (`ast.c:143`), and it
marks through the stale record of a closure expression (`vm.c:596`): `Gc` has the
steps, and no run asks for it.

## Plan

What remains are two runs: that the collector frees lists made by constant folding
(`ast.c:143`), and that it marks through the stale record of a closure expression
(`vm.c:596`). Beyond that, the model has which builtins a program calls and not what
they compute; the value stack as `Effects` sees it could be joined with `Vm`, so that
the meaning of a program would be the values it computes instead of the operations it
does.
