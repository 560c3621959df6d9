# Verification of x-engine

x-engine is the engine of the x-lang language, in Rust: a flat heap of words
with a mark-and-sweep collector, an evaluator with first-class continuations, a
reader that the library extends with types of its own, and the bases in which
several programs run side by side. This directory holds TLA+ models of its core,
the TLC runs that check them and the proofs that TLAPS checks.

Read it with the sources open. Each module starts with what it models and what
it abstracts from; `PROJECT.json` maps every definition to the lines it models.

## The system

The engine is one thread and a signal handler. There is no lock and no message;
what makes it hard is *re-entry*: nearly every part can call back into x-lang,
and x-lang can do anything there, call the same part again included. Collector
hooks run the evaluator in the middle of a collection, the reader runs analysers
and readers written in the language, `include` runs a read-eval loop inside an
evaluation, an iterator calls its step function between reading and writing its
own state. Much is kept twice: on the Rust stack and in rows of the base; on a
chain and in a map; in marks of a buffer and in locals of a scan.

| Component | State | Operations | Talks to |
|---|---|---|---|
| Collector (`collect.rs`, `prims/heap.rs`) | MARK bits, `in_gc`, root stacks, hook lists | `collect`, `mark`, `sweep`, hooks, purges, `pin!` | calls the evaluator in hooks; frees what maps in `env.rs`, `engine.rs`, `callcc.rs` are keyed by |
| Object store (`objects.rs`, `heap.rs`) | the words, the chain, free lists by shape, `live`, the meta policy cell | `alloc`, `set_data`, `alloc_bytes`, `stamp_meta` | everything |
| Environments (`env.rs`) | holders, binding cells, `index`, the global tree of a base | `bind`, `lookup`, `set_existing`, `push`, `set_base` | the evaluator binds, the collector purges, the library walks the tree |
| Evaluator (`eval.rs`, `syntax/`, `prims/core.rs`) | the Rust stack, save and handler rows, parked tail, `control`, `active_evals` | the trampoline, application, `guard`, `def`, `eval` | everything |
| Continuations (`prims/callcc.rs`) | `cont_snapshots`, `escaping` | capture, invoke, escape, replay | rows of the evaluator |
| Interrupts (`foreign/src/lib.rs`, `prims/sys.rs`) | the atomic, the flag object, the OS disposition | signal, publish, poll, install, restore | evaluator's loop, `guard` rows |
| Bases and symbols (`engine.rs`, `symbols.rs`) | two active symbol tables, parked tables, `base_stack` | `make_base`, `in_base`, interning | collector roots, reader |
| Reader and source (`read.rs`, `form.rs`, `value/tok.rs`) | a region with retain, cursor and write marks and a line anchor; the end-of-input latch | refill, prefetch, skip, contest, list, atom, compaction | stdin, library macros |
| Tokenizer (`prims/tok.rs`) | a buffer, a score, the best claim | `read-str`, `analyse`, integer states and reader | library analysers and readers |
| Source loading (`session.rs`, `prims/io.rs`) | source rows, hidden saves | `eval_top`, `include`, `next_form` | reader, evaluator, continuations |
| Iterators (`prims/iter.rs`) | the iterator's words | `peek`, `next`, `step`, `empty?` | evaluator |
| Types and dispatch (`value/typed.rs`, `callable.rs`, `base.rs`) | type objects, handler slots, the base spine | handler lookup, push and pop | evaluator, reader |
| JIT door (`jit.rs`, `prims/ffi.rs`) | none of its own | `jit_eval_arg`, foreign calls | evaluator |
| Value primitives (`prims/str.rs`, `prims/ptr.rs`, `value/text.rs`, `prims/num.rs`) | none of their own: bytes of the arena | strings, blocks, pointers, word accessors, arithmetic | object store |
| CLI, tables | none | process start and exit; constant tables | - |

What is hard, and what would make each part correct:

* **Collector** - the program allocates, links, drops and collects between the
  phases of a collection. No reachable object is freed, no garbage is kept by
  the marking, the counters agree, and no map keyed by an address hands a dead
  object's entry to the object allocated there next.
* **Object store** - chunks are filed by data length *and* meta room, while the
  program may rewrite the cell that says how much meta room an allocation gets
  between any two steps. No word has two owners; a sweep that reverses the chain
  loses nothing.
* **Environments** - chain, index and tree are three views of a frame with
  several write paths each. They agree at every step.
* **Evaluator and continuations** - rows beside the Rust stack must be restored
  on each way out: value, condition, escape, and the replay of a dead extent. A
  capture that claims to be complete must have seen every frame.
* **Interrupts** - the signal may come between any two loads and stores. None is
  lost between arming and seeing it; a STOP is never uncatchable.
* **Iterators, and everything that waits** - a Rust frame that evaluates keeps
  objects in locals and roots them, by marks on two stacks, in the control
  records, or not at all. What a frame still uses is live whatever ran above
  it, and no way out leaves roots behind.
* **Types and dispatch** - the same handles are registered in every base with
  type objects of that base, some on demand, and values exist before either.
  Whose meaning a value has does not depend on who looks; a write in one base
  does not change another; which operand owns an operator does not depend on
  their order.
* **Value primitives** - strings and blocks lie next to each other with no
  lengths kept, and are reached by two kinds of pointer. A call that stays
  within what it was given, up to the last byte, touches nothing else.
* **Bases** - entering a base swaps four things. Each base keeps its own
  dictionary and what is interned stays alive.
* **Reader** - the text is read as its lexemes wherever a refill or a compaction
  of the region falls, and whoever reads them.
* **Tokenizer** - the contest goes to the longest positive claim (the last of
  equals) whatever the order, no character goes to two tokens, and a drive over
  any text ends, wherever readers leave the cursor.

`PROJECT.json` lists the hazards at their lines.

## Modules

| Module | Models | Abstract specification it implements |
|---|---|---|
| `Reachability` | the marking walk as a set operator | - |
| `Collector` | the phases of `Engine::collect`, hooks, nesting, root set, purges | `IdealHeap`: a heap that never frees |
| `ObjectHeap` | words, headers, meta words, links, free lists, sweep, allocation | `Store`: objects of fixed length that keep what is put into them |
| `Environments` | frames, index, tree of a base, every write path, collection | `Scopes`: one map per frame |
| `Evaluator` | trampoline, rows, `guard`, `call/cc`, replay, `include`, leaves that call back | `DynamicExtent`: a stack of extents and one signal |
| `Roots` | the evaluator's frames over the heap: objects held, root stacks, records and snapshots as roots, collection at any step; iterators, `include`, `guard`, `call/cc` and replay | - |
| `Types` | type objects, the alists of bases, stamping and backfill, handler routes, `op_try` | `Dispatch`: one meaning per base and handle |
| `Bytes` | words, bytes, strings, blocks, pointers by offset and by machine address | `Regions`: rows of bytes with nothing in common |
| `Interrupt` | the signal handler against the poll, `guard` and `in_base` | - |
| `Bases` | table swapping, parking, interning, collection of symbols | `Interning`: one private dictionary per base |
| `Tokenizer` | `read_str`, `analyse`, the integer analyser and its reader | - |
| `Reader` | the buffer of a source, the form reader over it, the outer loop | - |
| `CollectorProofs`, `InterruptProofs`, `EnvironmentsProofs`, `BasesProofs`, `EvaluatorProofs`, `RootsProofs`, `ObjectHeapProofs` | the theorems | - |
| `Lemmas` | what the proofs share: walks, ends of sequences, least numbers | - |
| `MC...` | the sets TLC is run with | - |

`Roots` composes the evaluator with the collector: programs of a dozen kinds of
forms run in frames that hold objects, and may collect wherever they run. The
other components are modelled apart, each with what it needs of its neighbours
as actions of its environment: the program of `Collector` is any mutator, the
forms of `Evaluator` are any program, `Bases` and `Environments` have a
`Collect` that does to their state what `Engine::collect` does.

State and actions follow the code's names. In brief:

* `Collector`: `CollectCall`, `HookReturns`, `MarkPhase`, `SweepPhase` are the
  four stretches of `Engine::collect` between which x-lang can run; `SweepPhase`
  is the sweep, all purges and the clearing of `in_gc`. The program's actions
  are enabled between collections and while a hook runs (`ProgramRuns`).
* `ObjectHeap`: `heap` is the vector of words; an object is the address of its
  link word, meta words lie below it. `Reuse`/`Grow` are the branches of
  `Objects::alloc`; `Sweep` walks the chain turn by turn: a survivor is threaded
  again (`Kept`), another is flagged and filed (`Dead`).
* `Environments`: `chain[h]`, `index[h]`, `tree[b]`; `NewCell` is the whole tail
  of `Envs::bind` after a miss: cell, chain, tree, index, threshold. A tree is a
  map from paths of sides to cells; the walk outward along parents, and the seat
  of a new name in a tree, are stated as the least closed set and as the one free
  place on the name's way.
* `Evaluator`: `stack` is the Rust stack of frames waiting for a nested
  evaluation; `saves`, `handlers`, `control`, `active`, `parked`, `escaping` are
  the rows. An action is a form beginning, a frame getting its value, a frame
  being unwound, or a step of a replay.
* `Interrupt`: `Publish` and `Test` are the two halves of the poll, `Arm` and
  `Clear` two stores of installing; `Signal` is enabled between any two steps.
* `Bases`: `EnterBase`/`LeaveBase` are the halves of `in_base`.
* `Roots`: `stack` is the Rust stack, each frame with its `root_mark`s, its form,
  environment and values; `Held(f)` is what the code of the frame reads again
  after what it waits for. `RootSet` is what `collect` marks from. Each
  `Engine` function between two evaluations is an action.
* `Types`: `types[t]` is a type object with its routes as stacks, `alist[b]` the
  base's row of them, `values[v].word` the raw type word. `EnterBase` and
  `LeaveBase` are the halves of `in_base`; the pushes and pops are the
  library's, through the routes the engine lays out.
* `Bytes`: `words` is the vector; `regions` is what the program was given.
  `call` is the last instruction with its operands and `answer` what it
  answered, so that the abstract `Regions` can say what both must be.
* `Tokenizer`: one action per character given to an analyser, per end of an
  attempt, and per outcome of the award and of a read handler. `tokens` is the
  set of what the tokens took of the text; in the code it is a vector in the
  order of the text, and `SpansAreDisjoint` makes the two the same.
* `Reader`: one action per byte fetched or passed over and per form, list or
  atom begun or ended; `CompactInput` is what `main` calls between forms.

## Runs

All counts are of distinct states. Every run is expected to pass.

| Run | Bounds | What it shows |
|---|---|---|
| `collector` | 3 addresses, 2 root slots, 1 hook per list, 2 nested collections, 1 key (1,080,000 or so) | `NothingReachableIsFree`, `Accounting`, `ExactCollection`, `NoInheritedEntry`; implements `IdealHeap` |
| `object_heap` | 15 words, lengths 1 and 2, policy 0 or 2 (336,704) | `ChunksAreDisjoint`, `FreedAndLiveAreApart` (a chunk is filed once and only if freed, the chain is whole); implements `Store` |
| `roots` | 5 objects, 3 nested evaluations, bodies of 2 forms, 1 continuation (239,461) | `HeldIsLive`, `SlotsStand`, `SourceHoldsOneRoot` |
| `evaluator` | 7 frames, bodies of 2 forms, 2 continuations, eight kinds of forms (213,007) | `RowsMatchStack`, `TailIsTaken`, `TopLevelIsClean`, `OperativesAreSeen`; implements `DynamicExtent` |
| `evaluator_loads` | the same, with `include`, handlers, drivers, hooks, machine code (892,377) | `RowsMatchStack` where loads hide saves and leaves call back |
| `interrupt` | 3 bases, 5 frames, 2 signals | `StopIsCaught`, `RowsCountGuards`, `InterruptIsKept`, and, with fairness, `Interruptible` |
| `bases` | 3 bases, 4 symbols, 3 spellings, 2 nested | `InternedSymbolsLive`, `OneContext`; implements `Interning` |
| `types` | 2 bases, values of three kinds made before, in and between them, 2 writes | `OwnerIsAgreed`, `WritesStayHome`; implements `Dispatch` |
| `environments` | 2 holders, 4 cells, 3 names, threshold 1 (23,514) | `ViewsAgree`, `TreeMirrorsRoot` (the tree has the root's cells, in order); implements `Scopes` |
| `bytes` | bytes of 4 values, words of 2 bytes, 3 regions, 1 write into them (1,620 states, 940,653 calls) | implements `Regions` |
| `tokenizer` | all texts of 3 characters of five kinds, six longer; three types, readers that leave the cursor anywhere (456,607) | `WinnerIsBest`, `IntegersAreRead` (the longest numeral, and its value), `SpansAreDisjoint`, and, with fairness, `DriveEnds` |
| `reader` | all files up to 4 bytes, inputs up to 5 through a region of 4 (74,848) | `UnreadIsNext`, `LexemesAreTheTexts`, `TruncationRaises`, `FileLinesAreTrue`, and, with fairness, `ReadingEnds` |

Why the bounds are enough to be of use:

* Three addresses make a chain of references, a cycle beside it and a recycled
  chunk; two root slots let the last reference move while a hook runs.
* 15 words hold two objects of unlike shape and a third that takes the place of
  either. Policy 1 is left to F15.
* Threshold 1 stands for `INDEX_AT` (16): a frame is below, at and above it with
  three names, and a second holder takes the address of a dead grown frame. The
  same configuration was also run with three holders and two bases (100,907
  states), which adds chains of frames with a base of their own.
* Seven Rust frames hold a `guard` inside a body inside a `guard`, with a
  `call/cc` at any level; two continuations replay inside each other.
* In `roots`, `MCRoots!FormsUnder` says which forms each frame evaluates: each
  kind of frame waits at least once under a collection, a raise, an escape and a
  replay. Five objects hold the base, a callable, its environment, what it makes
  and a continuation; freed identities are used again. `View` reads the roots
  above a frame's mark as a set, since they are only marked from or cut; the
  three properties, which count them, are part of it. One collection runs during
  a replay: a second one breaks `HeldIsLive` (F28).
* In `types` two bases are a host and a child, which may be made before or after
  a write; the value made in between is of a kind stamped at once, one typed on
  demand, or a spine cell.
* In `bytes` a word of two bytes makes strings that end before, at and after a
  word's end, and words across a word's end. Every call is tried in every state,
  with each operand in both currencies; the view leaves out `call` and `answer`,
  which a step only sets. Three regions put a neighbour on the far side of each
  new one, and one write is followed by every read and copy of it.
* Three bases and two signals let a guard wait in a base that is not running,
  and the second signal meet the handler of the first.
* In `tokenizer` the integer type stands between two library types that may
  decline, hand back, score early, or claim with either sign. Three characters
  suffice for each pair of neighbouring states; the longer texts add hexadecimal
  numerals and a second token. `FallsBack` is on, so unclaimed text is read too.
  A reader may read on to the end, stop where its claim ends, or go back to the
  start of the text: the floor at `tok.rs:484` is then all that keeps the drive
  from reading a character twice (without it `SpansAreDisjoint` fails), and
  without the break at `:487` as well it never ends (`DriveEnds` fails). With the
  floor in place the break is never taken, as a claim is of a character at least.
  The integer type is not the first, because of F18.
* In `reader` an input of 5 bytes does not fit the region of 4, so the region is
  refilled and compacted in the middle of it, though not under the scan of an
  atom (`Tidy`) nor under a line that fills the region (`Short`). The inputs
  these two leave out are those the
  disagreements below are about: a text that ends in an integer, an integer of more
  than a digit at the head of a line after the first, an atom there that the
  region does not hold, and a line longer than the region. Files have no
  exception.

`CHECK_DEADLOCK FALSE` is given where the system stops: the program has ended,
the text is read, or the heap's bound is reached.

### Fairness

* `Interrupt.FairSpec`: `WF(Evaluator)`. The evaluator is the process; as long
  as it has a step to take it takes one. Nothing is assumed of the signal.
* `Tokenizer.FairSpec`, `Reader.FairSpec`: `WF(Next)`. Each is one loop of the
  main thread. The read handlers and analysers it calls are assumed to return,
  and the stream to end; a handler that loops is a program that loops.

The other properties need none.

## Proofs

TLAPS checks, for every value of the constants that the assumption named admits:

| Component | Invariants and action properties | Refinement | Assumption |
|---|---|---|---|
| Collector | `Safety`, `AccountingCorrect`, `NothingInherited`, `CollectionIsExact` | `CollectorIsIdeal`: a heap that never frees | `Disciplined`: free hooks neither keep what they allocate nor collect (F1, F2) |
| Evaluator | `RowsAgree`, `TailTaken`, `OperativesSeen` | - | none |
| | `TopLevelClean`, `EscapesFly` | - | no hooks, no machine code (F10) |
| | `EscapesLand` | `ExtentsAreDynamic`: a stack of extents and one signal | moreover no loads (F7) |
| Interrupt | `StopsAreCaught`, `RowsAreExact`, `InterruptsAreKept` | - | none |
| Bases | `ContextIsOne` | - | none |
| | `SymbolsAreRoots` | - | nothing collects while a base waits (F14) |
| | - | `Interns`: one dictionary per base | moreover no base is entered while it waits (F14) |
| Environments | `MapsAndChainsAgree`, `LookupIsExact`, `TreesMirrorTheirRoots` | `FramesAreScopes`: one map per frame | none |
| Roots | `SlotsAlwaysStand`, `SourcesHoldOneRoot` | - | none |
| | `HeldStaysLive` | - | no replay sees two collections (F28) |
| Object store | `DisjointChunks`, `LiveAndFreedApart`, `StampIsHarmless` | `HeapIsStore`: objects that keep what is put into them | `StampSafe`: no object has a single meta word (F15) |

`TypeCorrect` is a theorem of each. Each assumption is the negation of a
behaviour that the code has and that the table of disagreements shows to break
the property: the theorem says that nothing else does. The arguments:

* **`CollectorProofs`** - the inductive invariant adds three parts: while a free
  hook runs, what is reachable was marked or was allocated by a hook, and once
  no hook is left it was marked (`ReachableIsMarked`) - which is what makes the
  sweep safe; a collection inside another is inside one of its *mark* hooks
  (`FreeHookOnTopOnly`), so an inner sweep clears no marks that an outer sweep
  still needs; and what is not a key has nothing filed under it. With
  `KeysAreAllocated` the refinement follows: an address handed out is outside
  what the program can get at and has no entry, so it is the ideal heap's blank
  object; a sweep takes nothing from what the program can get at, so it is not
  seen. What is reachable after a step is computed among fewer objects in the
  ideal heap than in the collector's; `WalkWithin` says that this is the same.
* **`EvaluatorProofs`** - the invariant (`Agrees`) says of every position of the
  Rust stack what the rows beside it hold for it: how many evaluations, guards,
  saves and records lie at or below it, and that the record at that depth
  describes that frame; `WaitsOn` says which frame may be on top of which, and
  `ModeFits` what is on top when a form begins, a callee is applied or a tail is
  parked. A replay rebuilds part of a stack from the records alone, and the
  invariant survives because the records described the frames they are rebuilt
  into. `OperativesSeen` counts: a capture passes for complete when every
  evaluation has a record, and with one record for each depth there is no room
  for a frame without one.
* **`InterruptProofs`** - the invariant adds that a guard runs in the base it was
  entered in (`GuardsRunInTheirBase`), so that popping the current base's row
  pops the right one; that a STOP unwinds with a guard ahead (`StopUnwinds`); and
  where an interrupt is kept in the middle of arming (`KeptWhileArming`).
* **`BasesProofs`** - without assumptions: types, `OneContext` and that what is
  in reach is allocated (`Context`). Then, with nothing collected below a waiting
  base, every symbol of every table, parked, in use or waiting, is alive
  (`KnownSymbolsLive`); and, with no re-entry, no base is twice on the stack and
  each has its table in exactly one place (`Apart`), which is what a dictionary
  per base needs.
* **`EnvironmentsProofs`** - `ViewsAgree` is inductive with the types of chains,
  cells and maps: names are unique on a chain because a cell is made only after a
  miss, a miss is true because the map of a grown frame mirrors its chain, and
  the map is complete when it is made because names are unique. The purge is
  what keeps `GrownFramesAreMapped` true when an address is used again. Parents
  do not come into that; the trees need them (`TreesAgree`): every closed set of
  frames that has a frame of a base has the root of that base
  (`BasesAreRooted`), so a collection that keeps a base keeps the frame its tree
  mirrors, and a base has one root. A tree is ordered because a new name's seat
  is the one place its own comparisons lead to; the backfill is followed cell by
  cell. In the refinement a step changes one frame's map at one name.
* **`RootsProofs`** - one formula, `Holds`, of the objects `A` that may be named
  and the objects `S` that snapshots name, is the invariant twice: `IInv` has
  every object for both, and gives the first two theorems; `JInv` has what is
  not free and what the snapshots name now, and gives the third. It says where
  each waiting frame finds what it uses (`Rooted`, `EnvRooted`): in its own slots
  above its mark, somewhere among the roots below the *floor* of the frame above
  it, or in its control record; and that the floors and the environment marks go
  up the stack in order (`Stacked`), so that no frame cuts what another counts
  on. Each action is proved to keep `Holds` for any `A` and `S` that cover the
  objects and snapshots after the step (`StepKeeps`), and so keeps both. A
  collection is the step that shrinks them: every frame's objects are among the
  roots (`FrameMarked`), the set the collector marks from is closed under
  reference (`ReachedFacts`), and so what is left names only what is left
  (`CollectKeepsLive`). There the assumption is needed: a replay finds what it
  is still to resume in its snapshot, which may be gone after one collection.
* **`ObjectHeapProofs`** - `Shape` says of the words, the first object, the free
  lists and the count that one sequence of objects is linked from the first
  (`Linked`), that each list holds different chunks (`Lists`), and that the
  chunks of both fit into the words and into each other's gaps, the flags telling
  which is which (`Sound`, `Laid`). The room of a live chunk is read off its
  header, that of a filed one off the key of its list; `OneOwner` and
  `HeaderIsOwn` say that a word written inside one chunk is in no other's header
  or data, which is why every write leaves the other objects' `ContentsOf`.
  Filing and taking move a chunk from one side to the other and leave the set
  (`SoundFree`, `SoundTake`), so the policy, whatever it is in between, does not
  enter; it does in `SoundGrow`, where a new chunk is laid behind all. The walk
  down the links finds the sequence `Shape` speaks of (`ChainIs`,
  `ChainOfShape`). In the middle of a sweep the objects kept so far are a chain
  and those ahead are not on it, but both are sound (`Turning`, `Midway`); each
  turn keeps that (`TurnKeepsMidway`), and after the last `Shape` is back
  (`SweepShape`). The assumption is about the library: with the policy cell at 1
  `StampTouchesNoData` is false (F15); without that value, meta words are none or
  at least the two that `stamp_meta` writes.

Model-checked only: everything of `Types`, `Bytes`, `Tokenizer` and `Reader`:
`OwnerIsAgreed`, `WritesStayHome`, `ImplementsDispatch`, `ImplementsRegions`,
`WinnerIsBest`, `IntegersAreRead`, `SpansAreDisjoint`, `UnreadIsNext`,
`LexemesAreTheTexts`, `TruncationRaises`, `FileLinesAreTrue`. Liveness under fairness, `ENABLED`, and what a
recursive function computes for every input (the lexemes of a text, the value of
a numeral) are out of the proof system's reach and stay with TLC.

## Where the code and its own words disagree

Properties that say what a doc or a comment says, and that TLC refutes. They are
not among the runs above. Each row names the property and how to ask for it: a
configuration of this directory (`tlc -config <cfg> <module>`), or the
configuration of the run with the constants named changed and the properties
replaced by the one named.

| | Property, configuration | What the code does | What is said of it |
|---|---|---|---|
| F1 | `NothingReachableIsFree`, `CollectorEscape.cfg` | an object that a free hook allocates and keeps has no mark and is swept (`collect.rs:420`) | `ARCHITECTURE-PORT.md:187`: the "free-hook allocate-and-escape hazard (its fix - hooks before marking - is already this engine's behaviour" |
| F2 | `NothingReachableIsFree`, `CollectorReentry.cfg`; `HooksDoNotRecurse`, `Collector` with `MaxHooks = 2` | `(heap collect)` from a hook sweeps, clears `in_gc` and all MARK bits and returns into the outer collection: its next hook may run hooks, and after a free hook its sweep frees every object (`collect.rs:422`, `:483`) | `collect.rs:297`: "x-lang can call `(heap collect)` from anywhere"; `engine.rs:72`: "a hook's own evaluation must not recurse on hooks" |
| F3 | read off the code | `pin!` answers its argument and records nothing: in the model it would be a step that changes nothing | `prims/heap.rs:77`: "o must survive collection" |
| F4 | `LostKeysArePurged`, `Collector` with `MaxNest = 1` | all snapshots are roots, and one that refers to its own continuation keeps it and itself for ever (`collect.rs:412`) | `collect.rs:424`: "its snapshot goes too" |
| F5 | `NothingForgotten`, `Evaluator` with `Forms = {"body", "call/cc", "driver"}` | a capture below an engine leaf that calls back passes for complete, and its replay drops the leaf's work (`callcc.rs:106`) | `callcc.rs:68`: "the capture is refused rather than resumed wrongly" |
| F6 | `NothingForgotten`, `Evaluator` with `Forms = {"args", "body", "call/cc"}` | so does one made during a replay, without the records still to be replayed | the same |
| F7 | `EscapeLands`, `EvaluatorInclude.cfg` | the form loop of a file takes up a live escape whose `call/cc` waits outside the file (`session.rs:228`) | `callcc.rs:39`: "a live invocation still unwinds to this frame" |
| F8 | `ResumedUnderItsGuards`, `EvaluatorGuardLost.cfg` | a replayed body runs without the guards it was written under | `eval.rs:31`: "conservative, never silently wrong" |
| F9 | `ResumedUnderItsSave`, `Evaluator` with `Forms = {"bind", "body", "call/cc"}`, `MaxFrames = 8` | and without its saves, so a `def` in it binds globally | `binding.rs:14`: "GLOBAL in tail position, local otherwise" |
| F10 | `EscapeInFlight`, `EvaluatorHook.cfg` | an escape that leaves a hook is dropped (`let _ =`, `collect.rs:502`) with `escaping` still set | `engine.rs:91`: "An escape in flight" |
| F11 | `RefusalIsCatchable`, `Evaluator` with `Forms = {"guard", "nested", "call/cc"}`, `MaxFrames = 8` | the refusal of a dead capture is raised after the guards around the invocation have been passed | `eval.rs:30`: "refused at invoke time, catchably" |
| F12 | `OneStopEach`, `InterruptRetrip.cfg` | only the flag object is cleared, the atomic is published again at the next form | `eval.rs:338`: "cleared first so a handler that returns does not re-trip" |
| F13 | `InterruptibleInChildren`, `Interrupt` with two bases, `MaxFrames = 2`, `MaxSignals = 1` | a guard of the host does not make a loop in a child base interruptible | `engine.rs:79`: "How many `guard` bodies are on the stack" |
| F14 | `OneSymbolPerSpelling`, `BasesReentry.cfg`; `InternedSymbolsLive`, `Bases` with `CollectInChildren = TRUE`; `OneSymbolAcrossBases`, `Bases` | the table of a waiting base is a Rust local: entering that base again starts from an empty one, and a collection in the child frees its symbols (`engine.rs:516`). What is no instruction name is not shared | `symbols.rs:5`: "at most one per spelling"; `:25`: "all of them are roots"; `:14`: "SHARED ACROSS BASES, deliberately" |
| F15 | `StampTouchesNoData`, `ObjectHeap` with `Policies = {0, 1, 2}`, `MaxWords = 14` | with the policy cell at 1 an object has one meta word, and `stamp_meta` writes two: the second is the last data word of the neighbour | `objects.rs:562`: "line in meta 0, file id in meta 1"; `:564`: "the library writes the cell directly" |
| F16 | `NewObjectHasNoLocation`, the same | a chunk used again keeps the line and file of its last owner, a fresh one has none (`objects.rs:475`) | - |
| F17 | `LongestFallbackWins`, `Tokenizer` | a claim `n` beats the best `b` if `n >= b`, or `b < 1` and `n <= b`: once the best is negative one side always holds, so the last negative claim wins, not the longest | `prims/tok.rs:186`: "a MORE negative score wins" |
| F18 | `AttemptsStartAtToken`, `Tokenizer` | after a reader that leaves the cursor before the end of its claim, the first attempt at the next token starts there: were the integer type the first, it would claim by characters before the token (`IntegersAreRead` fails with `Order == <<"int", "user">>`, `Handlers == <<1, 1>>`) | `prims/tok.rs:203`: "rewound to the token start between attempts" |
| F19 | `LineIsTrue`, `Reader` with `Sources <- Lines` | newlines that a compaction moves out of the region before they were counted are never counted | `value/tok.rs:53`: "The 1-based source line at the cursor" |
| F20 | `RaiseIsReported`, `Reader` with `Sources <- Files` | `next_form` takes a raise of the reader for the end of input: a list cut off ends the run silently | `main.rs:39`: "A raise ends the run and is reported on stderr" |
| F21 | `OperandsStay`, `Roots` with `"iter"` among the forms under `args` | the operands of `iter next` are rooted only until their list is read: a temporary iterator whose step collects is freed, and `next` then writes into it (`prims/iter.rs:50`, `eval.rs:762`) | `eval.rs:758`: "The VALUES are not [done with] ... they stay until the enclosing `eval_pending` truncates on exit" |
| F22 | read off the code | `next` reads the state, calls the step function and writes the state: what a step function did to the same iterator is lost (`prims/iter.rs:50`) | - |
| F23 | `ContestSeesTheLine`, `ReaderPrefetch.cfg` | the newline that ended the last line is still unread when the next form is prefetched, and passes for the end of the new line: after the first line of stdin `42` reads as `4` and `2` (`read.rs:141`) | `form.rs:68`: "the analyser contest's bounded view holds every byte a token on this line can claim" |
| F24 | `WordHoldsAType`, `Types` | an instance made in a child of a handle that only the host registered has the handle for its type word | `typed.rs:252`: "The word must hold the TYPE ... a handle there would fail that check" |
| F25 | `FalseIsUntyped`, `Types` | the backfill gives `#f` a type (`engine.rs:331`), and `#t` none | `objects.rs:122`: "NOT what #t/#f carry (nil-typed, label 0)" |
| F26 | `SameHandleIsRelated`, `Types` | operands of one handle made in two bases have different type objects, so an operator both define raises | `eval.rs:96-98`: "`=` answers #f — unrelated values are not equal" |
| F27 | `ImplementsRegions`, `Bytes` with `WordPlace(p)` reduced to `Fits(p, WordBytes)` | `ref-word` at a place that is no word's start reads the word around it by offset, and the bytes from it on by machine address (`prims/ptr.rs:97`) | `prims/ptr.rs:71`: "An accessor operand is either an ARENA OFFSET ... or a REAL ADDRESS ... the value discriminates itself"; `:145`: "the offset is in BYTES" |
| F28 | `HeldIsLive`, `RootsReplay.cfg` (module `MCRoots`) | `resume_escape` keeps a clone of the records in a Rust local (`callcc.rs:90`); once the program has let go of the continuation, a collection during the replay drops the snapshot, which until then was a root of what is still to be resumed, and a second one frees that | `collect.rs:423`: "A snapshot outlives its continuation OBJECT only as garbage"; `:384`: "The control records and continuation snapshots hold spines, names and values nothing else points at" |

Seen while modelling `Reader`, and excluded from its passing run: an atom that a
refill compacts under is cut out at its old offset (`buf_read_atom` keeps
`start` in a local); a line that fills the region loses the byte that was taken
for it (`read.rs:76-96`); and an integer that ends the input is matched against
the stale bytes beyond the write mark, after which the cursor is past the mark
and `compact_input` subtracts them the wrong way round.

Seen in the words alone: `engine.rs:316` has the INT type at the front of the
list of types, where the root base has another; `prims/ptr.rs:3` says a pointer
is "never a machine address", which `str ->ptr` and `mem alloc` answer.

## Not modelled

* Machine code, `dlopen` and floating point (`jit.rs`, `prims/ffi.rs`, `dbl.rs`):
  outside the process's Rust code; `jit_eval_arg` is a form of `Evaluator`.
* Integer arithmetic, pairs and conversions between values: no state.
* Command line, diagnostics, printing: sequential I/O.
* Registration tables: constants that the build checks.
* Of the reader: comments, strings, dotted tails, `DELIMIT` handlers, and the
  rows of the sources that wait while another is read.
* Of the collector: the iterative mark stack, `heap check` and the allocation
  ceiling. Of types: member access and how handlers print.
* How analysers change the list of types in the middle of a contest.
* A library analyser in front of the integer reader, which may award `0xFF` one
  byte and have 255 read all the same (`tok.rs:597`): in `Tokenizer` the engine's
  analyser and reader go together, and `IntegersAreRead` is about the two.
* In `Roots` the invocation of a continuation is one form. Its argument list
  leaves a record, as that of `(%cc-invoke k v)` does; with the continuation at
  the head of the combination (`cont_entry`) there is none, so there the model
  has a record more to mark from than the code.

## Plan

Done, in this order: `Collector` (what all else stands on), `Evaluator`,
`Interrupt`, `Bases`, `Environments`, `ObjectHeap`, `Tokenizer`, `Reader`, then
`Types`, `Roots` and `Bytes`; proofs of the first five, with their refinements,
of `Roots`, and of `ObjectHeap`.

1. Proofs: `OwnerIsAgreed` of `Types` (a lemma about `OpTry`) and
   `WritesStayHome` (no two bases share a type object); `WinnerIsBest` and
   `SpansAreDisjoint` of `Tokenizer`.
2. `Reader`: comments, strings, dotted tails, `DELIMIT` handlers; the source rows
   that `include` pushes, with reading and evaluating nested in each other.
