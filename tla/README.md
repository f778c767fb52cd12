# Verification of Library-Analyzer

TLA+ models of [Library-Analyzer](../src/docs/README.md), the TLC runs that check them, and
machine-checked proofs about them. Paths below are relative to `src/src/library_analyzer/`.

## What the program does

Library-Analyzer has four commands. `api` reads the source of a Python package and writes a
description of its API. `usages` counts how client code uses a package. `annotations` turns an
API description and usage counts into proposed annotations. `migrate` carries annotations over to
another version of the package. A fifth part, the purity analysis, decides for every function of a
package whether calling it has side effects.

The program is sequential, except that `usages` counts in a pool of processes. What is hard about it
is not concurrency but **state that several recursions share**: dictionaries that are changed while
copies of them are iterated, sets that are input and progress marker at once, results that are read
while they are being computed, objects that are shared by mistake. All of that depends on the order in
which functions appear and call each other, and tests only try a few orders.

## Inventory

| part | state | operations | hard because |
|---|---|---|---|
| module data (`processing/api/purity_analysis/_get_module_data.py`) | stack of open scopes, symbols collected so far | enter/leave of every AST node | one builder, many nested scopes; lists are reset on leaving |
| reference resolver (`_resolve_references.py`) | `raw_reasons`: what each function reads, writes, calls | lookup of names in scopes, classes, imports | symbols are merged by name, ids are shared |
| call graph construction (`_build_call_graph.py`) | forest, children, `reasons.calls`, `visited` | `_prepare_classes`, `_built_call_graph`, `_handle_unknown_call` | recursion through cycles; the work list is the finished marker |
| cycle contraction (`_build_call_graph.py`) | forest, children, `removed_nodes`, path | `_handle_cycles`, `_test_cgn_for_cycles`, `_contract_cycle`, `_update_pointers` | the forest changes under a loop over its copy |
| purity inference (`_infer_purity.py`) | `reasons.result`, `visited_nodes`, `separated_nodes` | `_analyze_purity`, `_process_node`, `separate` | results are read while they are computed |
| analysis across modules (`_infer_purity.py`) | `cached_module_results` | `_process_imported_node`, nested `infer_purity` | modules that import each other; one cache, many analyzers |
| usage counting (`processing/usages/`) | one counter store per batch, one total | count a call, merge a batch | files that fail half way; batches in a pool |
| annotation generation (`processing/annotations/`) | usage counts, annotation store | preprocess, five generators | order of the generators; counts change while they are read |
| API mapping (`processing/migration/model/`) | list of mappings, related mappings of a differ | `map_api`, merging of mappings, four differs in a row | overlapping mappings are merged in the list being searched |
| similarities (`processing/migration/model/_differ.py`) | similarities and formatted code that are remembered | `compute_*_similarity`, `_compute_id_similarity` | caches in the class, keyed by ids; means over what is there; a table of edits |
| annotation migration (`processing/migration/`) | two annotation stores | `migrate_*`, `_handle_duplicates` | duplicates across the stores |
| API extraction (`processing/api/`) | declaration stack, reexports, API | order of the files, enter/leave of the visitor | what is public depends on what was seen before; enter and leave are separate handlers |
| docstrings, boundary values, enums, dependencies | none to speak of | text matching | language, not state |
| command line, utilities | files | read and write | no |

`infer_purity` is the heart of the first six parts: `get_module_data` collects scopes, `resolve_references`
turns them into `raw_reasons`, `build_call_graph` builds a forest of call graph nodes from those and
contracts its cycles, and `PurityAnalyzer` walks the forest. Each phase works on the objects the phase before
left behind. Analyzers of imported modules run nested in the one that found the import, and share a cache with it.
`map_api` asks `SimpleDiffer` for similarities, which the three differs after it refine.
`usages` and `annotations` communicate through a file of counts, `api` and `migrate` through API
descriptions.

What makes each part correct, and the properties that say so, is under *Properties and runs*. `PROJECT.json` lists
what can go wrong where, with the properties that would notice.

## Modules

| module | models |
|---|---|
| `ModuleDataBuilder` | the walk over a module, the scope tree, the references of functions and lambdas |
| `ModuleSymbols` | what `get_module_data` has collected about the names of a module: vocabulary of the resolver |
| `ReferenceResolver` | `get_references`: calls, values and targets of every function, looked up by name |
| `CallGraph` | vocabulary: symbols, ids, nodes, the dictionary operations on children |
| `ResolvedReferences` | what construction begins with: functions, classes, constructors, `raw_reasons` |
| `CallGraphBuild` | `CallGraphBuilder` up to `_handle_cycles` |
| `CycleContraction` | `_handle_cycles` and everything below it |
| `Condensation` | what contraction promises: the abstract specification of `CycleContraction` |
| `PurityInference` | `_analyze_purity`, `_process_node`, `separate` for one module |
| `PurityAnalysis` | the three phases in a row, on one forest |
| `ImportedModules` | `_process_imported_node`, nested `infer_purity`, the shared cache |
| `APIExtraction` | `get_api`: the order of the files, the visitor and its declaration stack, what is public |
| `APIMapping` | `map_api`, merging of mappings, the chain of four differs |
| `SimpleDiffer` | the similarity of two elements, and what the differ remembers |
| `Migration` | `migrate_annotations`, every `migrate_*` function, `_handle_duplicates`, saving the store |
| `UsageCounts` | `find_usages`: batches, worker processes, the visitor, files that fail, merging |
| `GeneratedAnnotations` | what is done with the counts: preprocessing and the four generators; extends `UsageCounts` |
| `ModuleDataBuilderProofs`, `ReferenceResolverProofs`, `PurityAnalysisProofs`, `ImportedModulesProofs`, `APIExtractionProofs`, `APIMappingProofs`, `MigrationProofs` (also of `SimpleDiffer`), `UsageCountsProofs` | theorems |
| `MC*` | instances for TLC |

Operators marked *Mutant* are not part of a specification: each is one of its definitions as a plausible
mistake would have it, and is there to show that the properties notice.

### How state and actions correspond to the code

**`ModuleDataBuilder`.** The input is the syntax tree, which grows as it is walked (`ast`, with `path` for the recursion of
`ASTWalker`), so that every program is one. `Enter...` and `Leave...` are the handlers of these names,
with their early returns; handlers that do the same for different classes of nodes are one action (`EnterScope`). `DetectScope` and the
actions that use it are `_detect_scope` with `_analyze_function` and the three cases of `_analyze_lambda`. `found` is the three lists
of pending references; sets, because no property is about their order. Dictionaries by name lose nothing and are sets as well. Names are told
apart where the builder does: one name stands for the global variables (`global_variables` is asked for it in comprehensions), one for the parameter
of lambdas (`NamedAsParameter`: what has this name is not shared by a called lambda, even where it means a variable of the function around it), `name`
for all others. What the handlers pass over is in the tree as `Ignored` nodes, and `EnterIgnored` changes nothing: names in decorators, names and attributes
for which `is_annotated` holds (578-611, which is so of type hints and of whatever stands to the right of an annotated assignment), an argument with the name of
what is called (927-933), and calls whose callee is neither a name, an attribute nor a call, such as `f[0]()` (1102-1139). Which nodes
these are is decided by the tree, not computed; so `PlainFunctionsAreComplete` does not speak of them. Imports, `globals_used`, and the
variables of classes and instances are left out.

**`ModuleSymbols` and `ReferenceResolver`.** Here the program is a record: global names, classes with their bases and
variables, functions with an owner, parameters and a body of one statement to a line (assign, read, call, the same for a member of a name,
a global declaration), and imports. `ModuleSymbols` computes from it what the builder has collected: `SymbolOf` is
`get_symbol` with astroid's `locals` and `globals`, `GlobalsUsed` is `globals_used`, and so on. `NextFunction` takes the next function,
`ResolveCall`, `ResolveValue` and `ResolveTarget` are one iteration each of the three loops in `get_references`, with
`_find_call_references`, `_find_value_references` and `_find_target_references` as operators. A symbol has the fields that
somebody looks at: its class, its name, the scope it belongs to and what its node is. That imported symbols are renamed in place at every
use (`_resolve_references.py` 479, 566) is part of `Key` in `CallGraph`. What is called through an imported name is a function or class when astroid infers
one (`InfersCallable`); of `r.m()` that depends on `r`, even if `m` is imported as well. Of receivers that are not imported astroid gives bound or unbound methods, which are no
`FunctionDef`, or nothing; static methods are left out here as elsewhere.
The lookup is made after the whole module has been read, so nothing here is about the order in which the builder meets declarations;
the part of `globals_used` that depends on it, comprehensions and lambdas, is left to `ModuleDataBuilder` (comprehensions) or left out (lambdas). Statements are
not annotated. The resolver has no builtin base classes, no chains `a.b.c`, no
lambdas, no comprehensions and no star arguments in calls; functions are nested where the outer one has no parameters and defines
them first.

**Nodes and dictionaries.** A node of the call graph is the symbol it stands for; a combined node is the set of
functions and classes it combines, which is what `combines` holds after flattening. The forest and the
children of a node are Python dictionaries. They are sequences here, because the order of insertion decides
what is found first; `AddChild` keeps the place of an equal key and replaces its value, as a dictionary does.
Symbols are equal to themselves only, but nodes are kept under `symbol.id`: `Key` gives the ids of imported symbols and
builtins, which several symbols can share (`_resolve_references.py` 333, 562-567).

**Recursion.** `_built_call_graph`, `_test_cgn_for_cycles` and `_process_node` are recursive. Each has an explicit stack here, one
action per loop iteration or return, so that invariants can speak about the states in between.

**`ResolvedReferences` and `CallGraphBuild`.** The first has the constants and assumptions that construction and the
composition share, and `PreparedForest`, which is `_prepare_classes`. `calls` is `reasons.calls`, the work list that is also the finished marker. `BuildInit` allows
every set of calls for every function: whatever the resolver finds is one of these. `TakeCall` removes the call
before it is looked at, as line 164 does, and the actions `CallBuiltin`, `CallFinished`, `CallImport`,
`CallUnknown`, `CallOpen` and `CallRecurse` are the branches of the loop. A member call of an imported module
(`m.f()`) is also an unknown call until `CallImport` removes it (lines 213-219).

**`CycleContraction`.** Its input is any call graph that is `WellBuilt`: functions, classes and the imported functions that are called are in the
forest. `searchRoots` is what is left of the copied forest; `path` and `untried` are the depth-first
search. `Contract` is the whole of `_contract_cycle` and `_update_pointers`, which run without interruption.
The early return for a combined node that is in the forest already is kept.

**`PurityInference`.** `Pure` is the empty set of reasons, `update` is union. A node has a result when it is in
`inferred`. `KnownChild` is a call of `_process_node` that returns at once, `EnterChild` one that does not, `Return` the
end of an activation; the `separate()` of the caller is part of both ends. `Record` is the rest of the
loop body in `_analyze_purity`, and `Finish` the loop over `separated_nodes` with its `ValueError`. The input is any call graph that
is `WellContracted`, with any reasons of its nodes. Imported functions and builtins answer with themselves: what their purity is, is
decided elsewhere.

**`PurityAnalysis`.** Extends the three modules, which share the variables of `CallGraph`. `HandleCycles` and `AnalyzePurity` hand the forest on
from one phase to the next. `ImpurityReasons` is
`_get_impurity_result`: reads and writes of a function are one reason named after it, its unknown calls are
reasons unless nobody looks at their kind of symbol.

**`ImportedModules`.** The analyzers at work form a stack, and each has its own stack of activations of
`_process_node`. `EnterModule` marks the module in `cached_module_results` and starts an analyzer for it, `ModuleDone` ends it,
updates the cache and answers the call that led to it (lines 366-447). `Root` is never marked, so that it can be
analysed a second time, nested in its first analysis; `Known` then finds results in the cache. Within a module
the calls form no cycle here, because `PurityInference` is about those. Exceptions other than a module that cannot be
decoded end the program and are left out.

**`APIExtraction`.** As in `ModuleDataBuilder`, the packages grow as they are walked: `path` is the recursion of `ASTWalker`,
`Walk` its step into any kind of child. `Enter...` and `Leave...` are the handlers; async functions have none, so that
their actions change the path alone. `InitFilesFirst` is `__move_init_files_to_front` (`Selected` is what it puts into either list), a file whose name has a part `test` is
skipped. Re-exports are what an `__init__` file of a public package finds in its own package (`StartsWith`
compares texts as the code does). A declaration has what is said about it: id, name, whether it is public, and whether its
`reexported_by` is the list of the map, which still grows, or a new one, which does not. Attributes, parameters, results and
documentation are left out, and so is `get_public_api`. A name is declared once in its scope, the accessors of a property apart: of a function that is
defined twice the code keeps the later one and lists the id twice, and no property covers that.

**`APIMapping`.** The four differs of `_run_migrate.py` in a row, each with its own pass over the pairs of elements. A mapping
is a record of the elements it leads from, those it leads to and its similarity; the three classes of mappings
(one to one, one to many, ...) are told apart by the sizes of the sets. How similar two elements are
is a question of text and is an input; what the strict, the inheritance and the unchanged differ make of it is not.
Attributes and results are mapped by the loop that maps parameters and are left out.

**`SimpleDiffer`.** Each `compute_*_similarity` is an action that may be taken for any two elements at any time; `answer` is what it
returned. `previous_parameter_similarity`, `previous_function_similarity` and `formatted_code` are the dictionaries of the class. Names,
types, descriptions and code are sequences of letters, types, words and lines. `distance` stands for the Levenshtein library and is
defined by what it promises, the least number of edits; `EditTable` is the table that `distance_elements_with_cost_function`
fills row by row (`NextRow`), with the edits themselves in its cells. Similarities are multiples of 1/3600 (`One` stands for 1.0): all fractions of the bounds are
whole, and the rounding of floats is left out.

**`Migration`.** An annotation store is a function from kinds and targets to sequences of annotations. Every
annotation of the old store is migrated by one step, `Migrate`, or is skipped when no mapping knows its target (`SkipUnmapped`);
`HandleDuplicates` is one step, as nothing interrupts it. `Saved` is what `to_dict` keeps. Types are sequences of
names, limits of intervals are counted in halves, so that 1, 1.5 and 2 can be told apart. Comments and authors are
left out, except that an annotation says whether it has to be reviewed. The mappings are an input. They are disjoint and
of elements of one kind, which is what `ElementsMappedOnce` says of `APIMapping`; the branches for
elements of another kind are then never taken and have no counterpart.

**`UsageCounts`.** A file is a sequence of the calls that are counted, with the arguments bound already: how
a name is resolved to a function is the business of astroid. Every worker has the visitor, and thereby the counters, of the batch it is busy
with. `CountCall` is `enter_call` as a whole, `FailAtCall` is the exception in the middle of it: the
parameter has been counted when its value turns out to have no text (`_ast_visitor.py` 37-43). `FinishFile` goes on to
the next file, `MergeBatch` is one iteration of the loop over the results. The `remove_*` methods of the store are
not used by the program.

**`GeneratedAnnotations`.** One action for each of the steps of `_generate_annotations.py`, after the counts have
been read. The test for significance is written as an inequality of integers (8 uses against 1 are significant, 7
are not). When two values are used equally often, either is taken. Dependency annotations come from text and are left out.

**`Condensation`.** Groups of functions that call each other may be merged, one cycle at a time, and the calls
between groups follow. `CycleContraction` implements it: a contraction is a `Merge`, everything else stutters
(`ImplementsCondensation`).

## Properties and runs

| run | module | question | bounds |
|---|---|---|---|
| `module_data` | ModuleDataBuilder | Does everything a function refers to get to it, in whatever order scopes are opened and left? | all programs of 5 nodes, 6 or 7 nodes of some kinds |
| `resolver` | ReferenceResolver | Does the resolver find the reads, writes and calls that Python would make, and none of names that are a function's own? | five families of modules: a global variable that is shadowed, declared and used in bodies of 3 statements; classes with methods that assign and read members; functions with any kinds of parameters, called with any arguments; names with several meanings; imports |
| `analysis` | PurityAnalysis | Is a call lost, a function left half built? End to end: does every result name what the function can reach, and no function it cannot? Does the analysis end? | 3 functions, a class whose constructor is one of them, 2 imported symbols with one id, a parameter; up to 2 calls for each function; a builtin and a class variable with one call for each |
| `contraction` | CycleContraction | Does contraction search thoroughly, and does it implement `Condensation`? | all call graphs of 4 functions and an imported one with up to 5 calls, forest in source order and reversed |
| `inference` | PurityInference | Do results hide anything, are they exact without recursion, do they change? | 2 functions and a class, in all groupings and orders, an import, a builtin, up to 3 calls |
| `imports` | ImportedModules | Do results hide anything when modules import each other? What do import cycles cost? Does the cache lose anything? | 4 modules, one of them unreadable; 6 functions, one of them without a result; native code; up to 4 calls |
| `api` | APIExtraction | Does what is public depend on the order of the files? Is a declaration lost, does the stack get out of step? | 4 files in 2 orders, 3 of them parsed; up to 3 declarations nested in any way; up to 2 re-exports of an `__init__` file |
| `mapping` | APIMapping | Is any element mapped twice, are mappings connected, does an unchanged element stay mapped to itself? | 2 classes, 2 functions, a parameter in each version; similarities below, at and above the thresholds |
| `differ` | SimpleDiffer | Is every similarity in [0, 1] and that of the elements asked about? Are paths compared by a shortest edit? | elements that differ in 2 or 3 features of up to 3 values, paths of up to 4 segments; two functions and a class with any code, or two parameters of any types, in each version, asked about in any order |
| `migration` | Migration | Does an annotation reach every place it should and no other, is what needs review marked, does anything contradict what was there? | three families of inputs: all kinds of annotations on one mapping of every shape; two annotations of different stores that meet; types and values |
| `usages` | GeneratedAnnotations | Do the counters of elements, parameters and values fit each other, does the result depend on how the files are batched, are the annotations true of the code that was counted? | up to 3 files of 21, some failing; batches of 1 or 2 files, 1 or 2 processes; 7 or 8 repeated calls |
| `resolver_override` | ReferenceResolver | see below | as `resolver` |

Three functions are enough for a cycle, something that leads to it and something that it leads to, for two cycles with
a common node, and for a cycle inside a cycle; four functions add a cycle through two combined nodes. In `inference` the
grouping is an input, so that two functions and a class already make a combined node that calls and is called. In
`imports` four calls make a ring of three modules with a second way into it. Larger instances were tried while the models were
written and showed nothing else. `MCRawReasons` bounds the calls of one
function in `analysis`, `MaxCalls` those of the whole call graph in the other runs of the purity analysis. `CallGraphBuild` has no run of its own: its
properties are checked while the composition builds, and still hold of what later phases leave of its variables.

Five nodes make a function, something it refers to, and a function or lambda in it that refers to something; the larger
programs have two functions in a function, or three of them in each other. `size` is the bound on nodes; the
assignment of a global variable that is used may be one more.

The families of `resolver` are chosen so that each rule by which the resolver leaves something out is decided both ways: a class that has
the function, inherits it or has nothing to do with it; a receiver that is `self`, a class, a parameter; a first and a later
assignment. `MaxNodes`, `MaxExports` bound `api`: three declarations are a method in a class next to another accessor of it,
and a class or function in a function; two `__init__` files, one in the package of the other, both re-export the same name.
In `differ` features that are not compared in one sum are not varied together.

Two elements of one kind are the fewest that can be mapped to the same element and to each other's successors; with
2 classes and 2 functions every merge of mappings that the code distinguishes happens, on two levels. In `migration` one annotation of
each kind meets a mapping of every shape, and two annotations meet in one element. In `usages` three files and batches of two
make a batch that is not full, and two workers that end in either order; 7 and 8 are the
counts on either side of the threshold.

The runs of the call graph and of inference (`contraction`, `inference`, `analysis`) switch the deadlock check off, because a sequential program stops; `Termination` of the `analysis` run says that it
stops where it should. The other modules have a `Terminated` step instead, or none that ends them, and their runs check for deadlock: no
analyzer, visitor, differ or worker is ever stuck, and no order of batches and processes keeps `find_usages` from its end.

### Where the code does not do what it says

The run `resolver_override` checks `OverridingMethodsAreFound` and finds it violated. `_find_call_references` "finds all
referenced Symbols for a call reference" (`_resolve_references.py` 250). When a class has a superclass, however, what the superclass has
of the called name takes the place of all functions of that name (288-298): a subclass that overrides `run` and calls `self.run()`
is judged by the `run` of the superclass alone, and the method that runs is never looked at.

What the passing runs show in spite of what follows: no call is lost altogether unless lambdas are nested
(`NoCallForgotten`), and functions without functions in them are recorded as they are (`PlainFunctionsAreComplete`). A
function that first prints and then defines a lambda, however, can be judged pure.

Other things that were seen while modelling and have no run of their own.

*Module data and call graph:*

* What comes before a lambda or a nested function in a function goes to that one, or is dropped: a function does
  not get all that is collected inside it (`_get_module_data.py` 303-326).
* Of two calls of `open` in one function only the last is kept, so that the arguments of the other are not analyzed
  (`_resolve_references.py` 307, 340).
* Imported symbols share an id when they come from one module, or one class, so that `C()` and `C.make()` have one node and
  only the first is judged (`_resolve_references.py` 561-567).
* One pass over the forest with one cycle for each root leaves cycles behind: the second cycle through a node is not
  contracted (`_build_call_graph.py` 250-259). That costs precision, never soundness (`NothingHiddenInResults`), and a
  function that reaches one plain cycle only loses no precision either (`LoneCyclesAreResolved`).
* Of a lambda in a lambda, calls reach the outer lambda only; so do those in a comprehension in a lambda (`_get_module_data.py`
  443-460, 1123). Unless the outer one has a name, nobody looks at it again.
* A lambda that is an argument takes the pending targets of the function around it and does not share them (411-415): a global variable
  that is assigned before it is not a write of the function. In a try statement it takes the values, too (421).
* Whatever is read to the right of an annotated assignment (`x: int = y`) is taken for part of the type hint and is no value of the function, although
  `is_annotated` promises to say whether a name "is a type hint" (579, 592). So `x: int = counter` reads no global variable. An argument with
  the name of the function it is passed to is no value either (927-933). Calls of anything but names, attributes and results, such as `table[k]()`, are
  not recorded at all, not even as unknown (1102-1139).
* What a function reads before a called lambda goes to the lambda and from there to the function, but is lost to the function if it has the name of
  a parameter of the lambda (424).
* In a try statement, calls of results (`f()()`) and assignments to attributes are not recorded (1047, 1136). A comprehension
  that reads a global variable assigned further down does not read it (914-918); if it is assigned further up, it does (`PlainFunctionsAreComplete`).
* A try-finally statement takes the children of try-except statements next to it (246-247), so that they are in the scope tree twice.
* The second member call of an imported module stays among the unknown calls, because the first one made
  the node it meets (`_build_call_graph.py` 186-219, `_resolve_references.py` 567).
* The functions of a cycle that is left have different results, depending on where the walk began
  (tests such as `tests/library_analyzer/processing/api/purity_analysis/test_infer_purity.py` expect one result for a cycle).
* The module an analysis begins with is analysed a second time if it is imported by what it imports, although
  results are said to be cached after the first time (`_infer_purity.py` 307-308).
* Calls of class variables of a superclass end in no reason at all (`_infer_purity.py` 200-297).
* `is_class` is set for classes with a node of their own, not for those on a call cycle (`_infer_purity.py` 560).
* Unknown calls of a symbol of an unexpected class fall through both case distinctions (`_build_call_graph.py` 229).
* The first caller of a builtin writes itself into the shared entry of the table of builtins as the origin of its reasons
  (`_infer_purity.py` 508).

*Resolver:*

* A write that goes through a name of another class is lost when that class has a class variable of the name: `self.m = ...` in a function
  nested in a method, or in a method of a subclass; `A.m = ...` in a method of another class. The loop goes on to the next class and skips the instance
  variables of this one as well (`_resolve_references.py` 626-667).
* A read of `self.m` is lost when something called `m` is called in the same function (490-498).
* A global variable that is only ever assigned in functions is not known where it is first assigned, and that write is lost; writes of
  `nonlocal` variables are not recorded, and variables of a closure are taken for global ones.
* `compare_parameters` rejects calls that leave out keyword-only parameters with defaults, and calls of a method
  through its class with the object as argument (172-241): such calls are unknown, if nothing else has the name.
* In a package that is analyzed as a whole, of two classes of one name the last one wins, and variables of the other vanish
  (`_module_data.py` 80). The module data the resolver works on is an attribute of its class: after a module
  that cannot be parsed it is that of the module before (`_resolve_references.py` 66, 96).

*API:*

* `str.startswith` makes `pkg.subx` part of the package `pkg.sub`, so that an `__init__` file may re-export what belongs to a
  sibling that has been parsed already; so may one whose package has the name of a class of the package around it. The instance has no such names (`ExportsComeFirst`).
* A function that is nested in an async function looks to the visitor like one of the module ("Ignore nested functions for now",
  `_ast_visitor.py` 225) and replaces a function of the same id; methods of classes that are
  ignored, because they are nested, are in the API without them. `DeclarationsAreComplete` is about packages without async functions.
* A class whose name is private is not public, even if it is re-exported; its methods are public then
  (`_ast_visitor.py` 233-245).

*Migration:*

* `bool("True")` and `bool("False")` are equal, so that defaults True and False have similarity 1, which "means that the
  elements are equal" (`_differ.py`); two equal defaults that are no literals have similarity 0. The branch that gives .75 is
  never reached. `SimpleDiffer` gives class and function of one id one entry for their code (462).
* The similarities it remembers belong to the class: a second migration in one process would begin with those of the first (182).
  No property is about that: `AnswersAreFresh` speaks of one migration, with any number of questions, and the program runs one per process.
* `StrictDiffer` keeps the unchanged ones among the one to one mappings of the differ before it and drops the others
  (`_strict_differ.py` 52-56, 95-104): the annotations of an element that was renamed are not migrated.
* `InheritanceDiffer.compute_class_similarity` compares the id of a new class with the ids of old classes and ignores the old
  class it is given (`_inheritance_differ.py` 100-107). For every result, `_unchanged_differ.py` 51-52 appends the pair of parameters it looked at last once
  more. `SameIdGroups` leaves that out: the extraction of the API records no results, and the lookup would not change by a pair that is listed twice.
* `to_dict` keeps the last annotation of a kind for a target, and constant, optional, required and omitted are one kind:
  when parameters with a constant and an optional annotation are merged, one of the two is not saved (`_annotation_store.py` 165-191).
* `bool("False")` makes the values True and False equal (`_migrate_value_annotation.py` 151-155); line 82 says "interger". The description of
  a new class is compared with itself (`_migrate_description_annotation.py` 35-42), the name of a type with a parameter
  object (`_migrate_enum_annotation.py` 66).
* Complete, pure and dependency annotations are not migrated (`_migrate.py` 51-118).
* A continuous interval that becomes a discrete one gets limits of type 1, which the generator uses for exclusive ones
  (`_migrate_boundary_annotation.py`, `_generate_boundary_annotations.py` 53-58).

*Usages:*

* A file that is skipped because of an error keeps the counts it made before, and the parameters the cut-off call
  did not reach count as left at their default: an `omitted` annotation may then be false. `AnnotationsTellTheTruth` is
  about the calls that were counted as a whole.
* A method is counted for the class that defines it (`_ast_visitor.py` 25-30): a class that
  only inherits is annotated as removed though it is used.

### Fairness

The code is sequential and every step is one the interpreter takes next, so weak fairness of the
whole next-state relation is all that is assumed, and only for `Termination`. The refinement and all other
properties are about single steps.

## Proofs

TLC checks the instances above; TLAPS proves the following for every set of functions, every call
graph, every set of reasons and programs of any size.

* `ModuleDataBuilderProofs`: `PlainFunctionsHaveAll`, `TargetsAreReached` and `CallsAreKept`, for programs of any size and nesting. All three speak of the end of
  the walk. The inductive invariant (`InvariantHolds`, with `StaysSafe` for the step) has three parts. `WalkOK`: nodes are numbered as they are entered, and those that are
  open are the ones around the next node. `StacksOK`: `current_node_stack` and `current_function_def` are the open scopes of their kinds in ascending order, so
  that the top is the innermost one, although an overload is on neither. `Safe`: each reference is pending as long as its function is open, or
  recorded where the property will look for it (`CallSafe`, `TargetSafe`, `PlainSafe`). That global variables which have been met are known (`GlobalsKnown`) is an
  invariant beside it, which comprehensions need. Entering a node needs that the function it belongs to is the one the builder has on top
  (`CurrentIsOwner`); leaving one that what is pending for another function is not taken away, or is taken by a function or lambda where it may be
  (one lemma for each of the five ways to leave). The exceptions in the properties, lambdas in lambdas and targets before a lambda, are the cases in which this fails.
  Nothing is assumed of the constants.
* `ReferenceResolverProofs`: `ResolvedAsFound`, `EveryReadIsFound`, `EveryWriteIsFound`, `NobodyIsBlamedFalsely` and `EveryCallIsFound`, for any modules.
  All four properties of the run speak of the end. The inductive invariant (`IInv`) relates what waits to what has been found: the references that wait are
  those of the current function (`Pending`); what a call, a value or a target means is in `raw_reasons` already or the reference waits (`CallsFound`, `ReadsFound`,
  `WritesFound`); and what is there was put there by a reference (`ReadsDeserved`, `WritesDeserved`). So `ResolvedAsFound` leaves questions about the lookup:
    * that what Python makes of an assignment or a read is among what is looked up (`GlobalReadIsFound`, `MemberReadIsFound`, `MemberWriteIsFound`). The part
      that needs thought is that `OutOfReach` never excludes the class a method belongs to (`OwnClassIsReached`), for which the first class
      around a function, found by going up from owner to owner, has to be shown to exist (`AroundExists`);
    * that a symbol found by name in other classes or among globals is not one that a local name hides (`WhatIsWritten`, `SelfIsOwn`);
    * that arguments which can be bound to parameters pass `compare_parameters` (`FunctionIsKept`, `MethodIsKept`). It compares numbers only: the places filled by
      position are as many as there are positional arguments (`FirstOnes`, by induction on their number), those filled by keyword
      as many as there are keywords (`NamesAreCounted`), and together they are all places when there are no defaults (`BoundInNumber`);
      for a method, everything is moved by one place (`ShiftedPlaces`).

  Assumed: `FunctionsAreOrdered`, and `ProgramsAreWellFormed`, which is what Python requires (`WellFormed`) and what everybody sticks to (`Conventional`:
  `self` and `cls` are the receivers of methods and nothing else, `__init__` is a method). The proof showed the need for each of these: `compare_parameters` goes
  by the names `self` and `cls`, and `OutOfReach` by `self` and `__init__`.
* `PurityAnalysisProofs`, about the phases in a row. `NoCallIsLost` and `AllAreBuilt` speak of construction, `EveryoneHasAResult`,
  `ResultsHideNothing`, `BlameIsReachable` and `LoneCyclesLeaveNoUnknown` of the whole way from the resolved references to the recorded results; all are theorems of
  `Spec` of `PurityAnalysis`, for any functions, classes, calls and orders. The invariant (`AnalysisIInv`) has one part for each phase:
    * While the call graph is built (`BuildIInv`), that a call which has left the work list turns up again needs that an activation waits for the
      one above it on the stack, that nobody is on the stack twice (`FramesInOrder`) and that a function which has been visited and is not on the
      stack has no calls left; that all is built at the end needs that every function is in the forest, in progress, or still in the list of the loop
      (`Covered`). One lemma for each branch of `_built_call_graph`. `Links` says that children are calls, so that nothing is invented.
    * When construction ends, the children of a function are its resolved calls, of those with one id one (`Resolved`). While cycles are contracted
      (`Contracted`), the invariant of contraction (`ContractionIInv`) holds, the groups are those `Condensation` allows, and the reasons of
      a combined node are those of its members (`BlameAddsUp`).
    * While results are inferred (`Analyzed`), the invariant of inference (`InferenceIInv`) holds. What a phase needs from the one before is a lemma for
      each of the two transitions: `ContractionReady` gives the input of contraction, `ContractedIsGraph` and `InferenceReady` that of inference. So the
      assumptions under which contraction and inference are proved by themselves are facts here.

  In the end, `NothingHidden` speaks of nodes and `NothingHiddenInResults` of functions and their resolved calls. The members of all nodes below a node
  are closed under resolved calls, because contraction keeps calls (`CallsKept`), and so contain all that a member can lead to. The other
  direction, `NoFalseBlame`, needs that no call is invented (`CallsReal`), that members of a node lead to each other (`GroupsCallEachOther`), and that
  what a result names is a reason of a node below (`Blame`).

  That lone cycles are resolved has an invariant of its own (`RingsIInv`), about each set of functions that is a cycle in the resolved calls, without
  another one on it or below it (`Ring`). Until it is contracted, all its functions are nodes of their own and call each other as they do in the source; the
  only node it is ever merged into is the one of all its functions, which does not call itself; and none of its functions is removed, or done with as a root,
  before that (`Solitary`). The last part is what `_handle_cycles` could get wrong. A root is passed over if its children have been removed: the next function on
  the cycle has not. A search from a root of the cycle does not come back empty (`SearchIsPath` again, `RingIsThere`), and the cycle it
  finds is this one (`RingIsFound`), although it ends with the first it meets. A cycle that touches it is it, because a set of
  functions of it that each call the next in the set is all of it (`RingWalk`). In the end, then, a node on a cycle below
  the function would be the combined node, and would call itself. Assumed, in all: `ModuleIsWellFormed`, `SymbolKinds` and `InferenceInputs`.
* `PurityAnalysisProofs`, about contraction: `SearchIsThorough` is the most involved one. That a search which comes back without a cycle has overlooked none, although
  it prunes the path and leaves only, is inductive with this (`SearchIsPath`): each node on the path calls the next one, and every child of a node on the path is still to be tried, is
  the next node, or leads to no cycle. `Refinement` is the step simulation of
  `Condensation`: `Contract` takes nodes that call each other in a ring, so that their groups may be merged, and the calls between groups after it
  (`OuterChildren`, `Redirect`) are those that a merge leaves; the early return for a combined node that exists is a stutter.
  `ContractionTypeCorrect` gives the types of forest and search, `NothingLeftBehind` says that the combined node has the reasons of all members and
  their calls of imports and builtins. `OneGroupEach`, `CallsSurviveMerging` and `SharedBlameIsDeserved` are invariants of
  `Condensation`, which the code has because it implements it. That the members of a group reach each other is stated without paths: a set that is closed
  under calls contains a group as a whole or not at all. So no induction over paths is needed; a merge that split a closed set would
  need a call that leaves it. The recursive functions `Without` and `OuterChildren` are unfolded one index at a time
  (`StepByStep`), and what they return is an induction over a set of indices. Assumed: `SymbolKinds`, `BuiltGraphsAreWellBuilt`.
* `PurityAnalysisProofs`, about inference: `InferenceTypeCorrect`, `FramesStayInStep`, `NoReasonHidden`, `PureLeadsToPure`, `InferredIsFinal`, `UnknownMeansRecursion`,
  `ResultsAreExact` and `EveryNodeIsRecorded`. `NothingHidden` is not inductive: that a returned result covers
  all children is only true because the activation has collected what each child had to say
  (`FramesInStep`), no node is on the stack twice (`OneFrameEach`) and a root that is being
  processed is the one at the head of the list (`RootWaits`). The inductive invariant (`InferenceIInv`) is the conjunction of these with types and the shape of
  the call graph (`GraphOK`). The proof has one lemma for each action; the two that matter are that `Return` pushes a result on
  to the activation below, and that `separate()` never touches a node of the forest
  (`SeparateKeepsForest`), because members of a combined node have left it. That results are exact is the other direction and has an invariant of its own:
  what a result or an activation has collected comes from below its node (`Blame`), and an unknown comes from a node that was met
  on the stack, which is on a cycle. `Recording` says whose members have been recorded and who is left to be.
  Assumed: `SymbolKinds` (the kinds of symbols are disjoint) and `InferenceInputs` (the input is well formed, which the proof about the phases in a row shows of what
  contraction leaves).
* `ImportedModulesProofs`: `AnalysesDiffer`, `CachedResultsStay`, `NothingHidden` and `UnknownHasAnExcuse`, for any modules, imports and inputs. The first two follow
  from `TypeOK` with `NestedAnalysesDiffer` and the fact that a root being processed is the head of its
  queue (`RootWaits`). `CacheIsFinal` needs it because `cached_module_results.update` replaces a whole entry: it takes nothing
  back only because the entry of a module whose analysis ends is still the empty mark. The other two need `AllSound`: every result, in the cache, in an analyzer
  or in the hands of an activation, has the reasons of all that lies below its function across modules or says that something is unknown, has no others, and says so only
  if a module that is still being analysed, or cannot be, lies below. What lies below is stated with closed sets instead of paths. Assumed: `ModuleInputs`.
* `APIMappingProofs`: `MappedOnce`, `ComponentsOnly`, `UnchangedStay` and `ClassesKept`, for any elements, similarities and order of pairs.
  That no two mappings share an element: a merge takes all the mappings that overlap with a new one out of the list; that the result overlaps
  with none of the rest is only inductive together with what is pending in the loop (`PendingApart`), and across the
  differs because mappings that are taken over are unchanged ones (`UnchangedKept`). That mappings are connected needs no more than that what
  has been mapped are the elements with candidates, each mapping a component of its own (`Components`): a part of a merged mapping that no best match leaves would have
  to be made of whole mappings, and the new element has a match in each of them (`MergedIsComponent`). That an unchanged element stays mapped to itself: a pair waits
  in the list of `UnchangedDiffer`, is mapped to itself alone with similarity 1.0, since nothing else in its group is a candidate (`OneIsBest`), and is in
  `unchanged` and `previous` from then on (`PairsKept`). That `StrictDiffer` finds for classes what `SimpleDiffer` found: the mappings
  it looks at again are components already (`ClassesFound`); the best matches of an element are the same among the elements of its mapping as among all
  that were left, because how many elements are taken depends on the similarities in descending order alone, and those that are left out come last.
  Sorting is by any order of equals; that two sorted lists of one set have the same similarities at each rank is proved by counting (`Ranks`), and
  what merging stops at by induction over the ranks (`MeansFacts`, `MergedFacts`, `SameBest`). Assumed: `MappingInputs`; that
  `Creation` is at most 1.0 and `Between` is positive is true of the constants of `_run_migrate.py`, 0.61 and 0.23, which nothing overrides.
* `APIExtractionProofs`: `StackIsBalanced` and `PopsAreBalanced`, for any files, names and nesting. The stack of the visitor and the
  recursion of the walker are related by an increasing map from declarations to entered nodes (`ComesFrom`); entering
  appends to both or, for async functions, to the walk alone, leaving takes the last of both or the last of the walk. That they are
  typed sequences, and that a module is at the bottom, is the rest of the invariant (`Balanced`). Assumed: `PackageIsWellFormed`.
  `NothingIsMissing`: `DeclarationsAreComplete`, for packages of any size without functions in async functions. The invariant
  (`Complete`) says that stack and walk are the same but for an async function at the end (`Aligned`), that each name goes on where that
  of the declaration around it ends (`Nested`) and each id has the names on the stack (`Identified`), so that a declaration is told from all
  others by its id (`SameIds`, from `Apiece`: a name is declared once in its scope); that what is on the stack has been entered and is not in the API yet
  (`Open`, `NotYet`), that no file that is left is of a module that was described (`Left`), that what is listed is there (`Listed`), and that
  each class and function that was entered is still open, or kept and listed by its owner, which itself may be on the stack or in the API (`Accounted`).
  Assumed besides: `ModulesHaveOneFile`, without which one of two modules of one name replaces the other in `api.modules`.
  `PublicWhateverTheOrder`: `PublicAsReexported`, for any order of files, if `ExportsComeFirst`: no `__init__` file re-exports what that of a package listed
  before it declares. The invariant (`Published`) says that what is said of a declaration is true by the re-exports up to now and that no
  file that is left re-exports it or, if it is in a class, the class (`Fits`); that the module that is walked declares nothing that one that is left
  re-exports (`InModule`); and that this is true of the files to come as well (`InOrder`), which is what `InitFilesFirst` is for (`ExportsStayFirst`).
  The condition cannot be dropped: with a class that has the name of a sub-package TLC finds `PublicAsReexported` violated; the
  same is true of names whose text begins with that of the sub-package, see above.
* `MigrationProofs`, about `SimpleDiffer`: `AnswersAreOwn`, `AnswersStayFresh` and `PathsStayComparedWell`, for any versions, any questions and lists of any length.
  What is remembered under two ids, and the code kept under a
  version and an id, is that of the elements (`ParametersAreOwn`, `FunctionsAreOwn`, `CodeIsOwn`; with `AsksAboutElements` this is the inductive invariant `AskedIInv`).
  The rest is about the operators. That the table of edits finds a shortest way (`TableIsShortest`): each cell is a way
  between the beginnings of both lists that has as many edits as some alignment of them, and no alignment has fewer (`IsShortest`); an alignment lines up both last
  elements or leaves one of them alone (`LastLine`), and without one element it costs at most one edit more (`OneShorter`, `OneLower`), which is why taking
  the corner is right where both are equal. The code compares the shorter path with the longer one; turned round, alignments have as many edits
  (`Mirrored`). That similarities are in 0..One: lining up the elements one by one needs no more edits than the longer list has elements (`LongerIsNear`), a
  mean of what is present is no more than One (`MeanBounds`), and edits in every place together cost what the costs are divided
  by (`NextCost`). That only equal paths have similarity One: with an edit in it the fraction does not round to 0 (`CostShare`). The recursive functions are unfolded by
  showing that what they stand for exists (`Iterated`), by induction over sets of numbers (`UpTo`).
  Assumed: `IdsAreUnique`, which is
  what dictionaries by id give an API, and that one id does not stand for a class and a function with different code; `ElementsAreComparable`: what is compared
  are lists, and `One` is fine enough for the paths of the inputs, as the floats of the code are for all paths there are.
* `MigrationProofs`, about `Migration`: `NothingIsLost`, `ContradictionsAreMarked` and `OneIsLeft`, for any elements, mappings, annotations and thresholds. All three
  speak of the end, which `_handle_duplicates` reaches in one step, so that the inductive invariant (`IInv`) says what it finds: each annotation is what one of
  the old ones has become (`Possible`), all that have been migrated are there (`AllThere`), and the annotations of an element are in one of both stores only, because one mapping
  decides where they go and mappings are disjoint (`InTheirStore`). The code does not rely on it, but it needs it: duplicates are removed
  by equality, so that of two equal annotations in two stores the one that should stay would be removed from the other store. What is left of a list
  (`LeftOf`) is its annotation with the best review result: the list of duplicates names every position, one of them twice (`DuplicatesFacts`); the one that
  stays is marked before the others are compared with it (`SurvivorStays`); and removing is followed by the number of equal annotations that are
  left, by induction over the duplicates (`Occurrences`, `OthersRemoved`), which ends with one annotation or none of the class of each (`NoTwinsLeft`, `OneIsSaved`).
  `IntervalsAdmitNoMore` is arithmetic about cut limits, for all integers, and `NoNewIntegers` what follows for migrated annotations. Assumed: `MigrationInputs`.
* `UsageCountsProofs`: `StoresAddUp`, for any files, batches and numbers of processes. In every store of every worker, and in the total
  after each merge, a class is counted at least as often as each of its methods, a function as each of its parameters,
  a parameter as each of its values. The inductive invariant says it of every store there is (`GoodStore`); counting a call,
  whole or cut off, and merging two stores preserve it (one lemma each). Merging is one batch to a step, so that no
  induction over the batches is needed. `CallsCountOnce`: in the end the total is what was visited, each call once. The inductive invariant
  (`Tally`) says where every batch is: the first n are merged, the next ones are with the workers, in their order, and the rest waits; a worker
  stands at one call of one of the files of its batch (`IsAt`), and its store tells, of each class, function, parameter and value,
  in how many of the calls before that one it occurs (`Tells`); the total tells it of the first n batches. That the batches cover the files without
  overlap is arithmetic (`SplitFacts`), and that counting or merging adds up cardinalities of disjoint sets of positions (`OneMoreTold`,
  `MergedTold`). `AnnotationsAreTrue` builds on it: completed by implicit usages of the default, the count of a value is the number of calls in which the
  parameter has it, given or left out (`TimesCalls`), unless a call of the function was cut off; what each generator concludes from these
  numbers is then true of the calls (`ConstantTrue`, `FrequencyTrue`, `RemovedTrue`, `TypedTrue`). The invariant (`Progress`) records, for each step of
  `generate_annotations`, what has been made so far. The counts are an input of that part, which the code reads from a file: that they stay as they are (`CountsAreGiven`)
  holds by construction. Assumed:
  `UsageInputs`, and `ApiInputs`, of which the proof showed the need to say that no id is that of a class and a function; the proof also showed
  that the property must speak of the calls that give a parameter a value, since `self` never gets one.

Checked by TLC only: `Termination`, which is a liveness property, beyond the prover. Every other property of the passing runs is a theorem.

## Plan

1. *(done)* Call graph, contraction, inference, their composition, analysis across modules, and theorems about them.
2. *(done)* Migration: similarities, the API mapping, the chain of differs, the two annotation stores and their duplicates.
3. *(done)* Usage counting and annotation generation.
4. *(done for one module)* Module data and the resolver: the scope stack, the lists that are reset when a scope is left, the lookup of names.
5. *(done)* API visitor: the declaration stack, the public names, what ends up in the API.
6. *(done)* Theorems about all of these.
7. `combine_modules`, and a resolver that works on a package; parameters and attributes of the API.

## Not modelled

* Docstring parsing: text formats, handled by the griffe library; the only state is a cache of one element.
* Boundary values, enums, dependencies and call orders from documentation: pattern matching over English text with spaCy. What is right
  there is a question of language, not of states.
* The table of builtins (`_purity_builtins.py`): constants. A builtin is a reason of its own in the models.
* `purity_group_prototype`: an earlier program of its own that nothing here calls.
* Command line and file access: arguments are passed on, files are read and written once.
* JSON conversions of APIs, annotations and usages, except that `to_dict` of the annotation store keeps one annotation of a kind.
