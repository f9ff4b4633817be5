# TLA+ models of ktl's dependency-map generator and longform page generator

This directory models the Python code under `src/`:

- `src/tools/gen-deps-md.py` produces `docs/deps.md`. It decodes the output of
  `go list -deps -json ./...` and builds a per-package dependency graph for the
  module `MODULE`. It classifies each edge as internal, third-party or
  standard-library, and prints a sorted Markdown report.
- `src/scripts_generate_longform.py` writes a 100-page HTML overview. Each
  page combines entries of six content lists, chosen by fixed strides.
- `src/testdata/analyze/crash/app.py` is a crash fixture. It is not modelled.

## Parts, and how they interact

`gen-deps-md.py` runs in one thread, in three phases that share state.

| Part | Code | Module | State | Actions |
|---|---|---|---|---|
| decoder | `run_go_list`, lines 10-30 | `GoListStream` | `buf` (stdout), `i` (offset, 0-based as in Python), `packages` (decoded values), `pc` | `ListSucceeds`, `ListFails` (lines 13-16); `LoopEnter`/`LoopExit` (line 21); `SkipWs` (23-24); `BreakAtEnd` (25-26); `WsDone`; `DecodeValue` (27-29); `DecodeFails` (27 raises) |
| path tests | lines 42-55 | `ImportPaths` | none: operators | `StartsWith` (str.startswith), `FirstSegment` (split("/",1)[0]), `HasDot`, `Classify` (the branch of lines 46-55) |
| records | lines 41-45 | `PackageRecords` | none: constants and operators | `Record` (the two fields read), `DepsOf` (`pkg.get("Deps", []) or []`), `InCodeScope` (line 42), `Raises` (lines 41-42 raise) |
| builder | `main`, lines 36-55 | `DepGraph` | `k` (records done), `imp`, `deps`, `d` (deps done), the maps `internal`, `stdlib`, `third` | `CrashOnRecord` (41-42 raise), `SkipRecord` (43), `EnterRecord` (41-45), `AddDep` (46-55), `EndDeps`, `EndRecords` |
| renderer | `main`, lines 57-104 | `DepReport` | `pkgs` (line 57), `r`, `report` (sections appended) | `SortPkgs` (57), `RenderSection` (71-102), `PrintReport` (104) |
| builder, abstract | lines 40-55 as one step | `BuildGraph` | `packages`, the three maps, `pc` | `Build` (no record raises: the maps of the whole list), `Crash` (the maps of the records before the first that raises) |
| program | `main` | `GenDepsMd` | all of the above | one step of whichever phase `pc` is in |

Paths are sequences of one-character strings. That way `startswith`, `split`
and `sorted` (code-point order, `PathLess`) are modelled by what they do on
characters, not assumed. `sorted()` of a set of distinct paths (`Sorted`)
has, at position `m`, the path with exactly `m - 1` paths of the set below it.
On a strict total order this is the one ascending listing of the set, and
`DepReportProofs` proves that it is. `Ids` is finite (`IdsFiniteAssumption`):
these are the paths of one `go list` output. A decoded record keeps only the two fields the code
reads, `ImportPath` and `Deps`; each may be absent or null.

The output text is a sequence of characters of five kinds:

- JSON whitespace (`ws`);
- a character `str.isspace` accepts and JSON does not (`space`: form feed,
  vertical tab, NBSP);
- a scalar literal;
- an opening bracket, which carries the object the value decodes to;
- a closing bracket.

`raw_decode` is the end offset of the value at `i`, found by bracket matching
(`ValueEnd`), or an error. A `space` character inside a value makes
`raw_decode` fail; between values, line 23 skips both kinds (`IsSpace`). The report's Markdown wording is left out: a
section is the record of what it lists.

`Longform` models the page loop of lines 602-657:

- `PageContent(p)` gives the list indices page `p` shows;
- the list lengths 18, 18, 20, 15, 12 and 30 stand for the six lists (lines 3-600);
- `WriteFile` is the final write.

## Runs

| Run | Checks | Shows |
|---|---|---|
| `dep_graph` (pass) | `TypeOK`, `EdgePartition`, `BuildRefines` | When the loop ends, each package's edges are exactly the deduplicated dependencies of all its in-scope records minus itself, in exactly one class, the class its path shape gives. `BuildRefines`: the loop implements `BuildGraph` (below). This covers every list of up to two records built from absent, null, empty, repeated and self-referencing dependency lists, and absent, null and out-of-scope paths. |
| `go_list_stream` (pass) | `StreamTypeOK`, `DecodeExact` | For every output of up to 5 characters over two objects and a scalar, the decoder returns exactly the top-level values in order (`TopValues`, the reference reading). It raises exactly when the text is not a stream of complete values. |
| `gen_deps_md` (pass) | `MainTypeOK`, `SectionsOrdered`, `TruncationCorrect`, `Terminates` | End to end from up to 4 output characters over four records: the report has one section per graph package in ascending str order. Third-party lists are cut at the cap, with the marker exactly when the list exceeds it. The program always ends. |
| `longform` (pass) | `LfTypeOK`, `TagsDistinct`, `RotationCovers` | The 100 pages show three distinct chips each and visit every feature, metric, insight and tag. |
| `scope_boundary` (violation) | `ScopeAtBoundary` | The path `mb` is taken into module `m`, because the test is a raw prefix (lines 42 and 46). |
| `no_crash` (violation) | `NoCrash` | A non-object value or a null `ImportPath` ends the program (lines 41-42). |
| `every_package_reported` (violation) | `EveryPackageReported` | A module package without dependencies gets no section (line 57). |
| `longform_coverage` (violation) | `UseCasesAndCommandsShown` | Strides 3 and 5 (lines 608-609) show only 6 of 18 use cases and 4 of 20 command sets. |

The four violations are recorded as findings in `PROJECT.json`:

- three are places where the code differs from the repository's specification;
- one is a bug in the longform script.

`DecodeExact` counts a text with an `isspace`-only character between values
as well formed, as line 23 does. The specification says only that whitespace
between values is skipped, so no property asks for such characters to be
rejected.

Each property of a passing run has a mutant: a plausible bug in the code it
depends on, defined next to the original, which TLC finds. Examples:

- `or []` dropped;
- the self-edge test dropped;
- `len >= cap`;
- a missing `i += 1`;
- a chip stride of 15;
- the record loop stopping one record early (breaks `BuildRefines`).

### The refinement

`BuildGraph` states what lines 40-55 promise, as one atomic step. `DepGraph`
defines `Abs == INSTANCE BuildGraph WITH ...`. The mapping shows the maps as
empty and `pc` as `"pkgs"` while the loop runs. Once the loop is over (`pc` is
`"sort"` or `"crash"`), it shows the real maps. Then:

- `EndRecords` is `Abs!Build`;
- `CrashOnRecord` on record `k+1` is `Abs!Crash` with `n = k+1`;
- every other step is a stutter.

The property `BuildRefines == Abs!Spec` includes weak fairness, so TLC also
checks that the loop reaches its abstract step.

### Bounds

- `dep_graph`: up to 2 records, which is enough for a duplicated package and for a record after a skipped one. The six paths include:
  - the module `m`;
  - `m/a` (internal);
  - `mb` (prefix without boundary);
  - `s` (stdlib);
  - `s/.` (a dot outside the first segment);
  - `./m` (third-party).
- `go_list_stream`: 5 characters over both whitespace kinds, which is enough for nesting inside a value, values back to back, trailing whitespace, and unmatched brackets of either kind.
- `gen_deps_md`: `Cap = 1`, so that the cases "fewer than", "equal to" and "more than" the cap all occur with two third-party dependencies. The code's 80 only scales this.
- `longform`: the script's own constants. The state space is the 100-page loop.

### Fairness

The program is one sequential thread with no waiting, so each spec has weak
fairness on its next-state action. `Terminates` rests on that fairness alone.

## Proofs (TLAPS)

`DepGraphProofs` proves the following for every module path, alphabet, path
set and input list. The assumptions are `IdsAssumption`, `InputsAssumption`,
`ModuleAssumption` and `SentinelAssumption`.

- `TypeCorrect`: `Spec => []TypeOK`.
  - `TypeOK` is not inductive by itself: `EndDeps` needs `k < Len(packages)`
    inside the inner loop.
  - The inductive invariant is `TypeInv`, which adds that fact.
- `Partition`: `Spec => []EdgePartition`.
  - `EdgePartition` speaks only of the state at line 57.
  - The inductive invariant `IInv` adds two conjuncts.
  - `ClassesRespected`: every edge already added has the class that its path
    shape gives.
  - `LoopProgress`: after `k` records, and `d` dependencies of record `k+1`,
    each package's edge set equals the raw dependencies of the first `k`
    records, plus the done part of the current record, minus the package
    itself.
  - `RawDepsStep` and `ClassifyCases` are lemmas about the operators. One step
    per action shows that `IInv` is preserved.

- `Refinement`: `Spec => Abs!Init /\ [][Abs!Next]_Abs!vars`, the safety part
  of `BuildRefines`.
  - The invariant is `RInv`: `IInv` together with `NoRaiseBefore`, which says
    no record before `k` raises. `NoRaiseBefore` is what makes `EndRecords` a
    `Build` step, and a crash on record `k+1` the first one.
  - `MapsAreAbstract` shows that, by `LoopProgress` with `d = 0`, the maps after
    `k` records are `Abs!InternalOf(k)`, `Abs!ThirdOf(k)` and `Abs!StdlibOf(k)`.
  - Lemmas such as `AbsDepsUpTo` equate the instance's copies of the shared
    operators with the originals.

`LongformProofs` proves the longform properties for the script's constants.
The invariant `LInv` says the sections are exactly the pages `1..page-1`, each
with the content its strides choose, and that the file is written only after
page 100.

- `LfTypeCorrect`: `LfSpec => []LfTypeOK`.
- `ChipsNeverRepeat`: `LfSpec => []TagsDistinct`. The offsets 0, 13 and 26 are
  distinct modulo 30.
- `RotationComplete`: `LfSpec => []RotationCovers`.
  - Each field lies in its range, by `%`.
  - Each entry is reached by a page, whose index is given as a witness:
    - features and tags: `i + 1`;
    - metrics: `((13 * i) % 15) + 1`, since 13 inverts 7 modulo 15;
    - insights: `((11 * i) % 12) + 1`, since 11 inverts 11 modulo 12.

`GoListStreamProofs` proves the decoder correct for every set of outputs
(assumption `OutputsAssumption`).

- `StreamTypeCorrect`: `StreamSpec => []StreamTypeOK`. The inductive
  invariant `TInv` adds `i = 0` at `list` and `i < Len(buf)` at `value`.
- `DecodeCorrect`: `StreamSpec => []DecodeExact`.
  - `ValueEnd` is the least offset after `i` at which the bracket depth is
    back to its value at `i`. `CloseIsFirst` shows that this least offset
    exists, by `WFMin` on the naturals.
  - `DepthStep` moves the depth one character at a time.
  - `InsideValue` shows that the depth stays above 0 inside a value.
  - `ValueRead` shows that decoding a value at depth 0 adds exactly one
    top-level start.
  - `DecodeErrorIllFormed` shows that a `raw_decode` failure at depth 0 means
    the text is not well formed.
  - The inductive invariant `DInv` says that at each point of the loop the
    prefix `buf[1..i]` is itself a stream of complete values (`PrefixRead`).
    A witness `f` lists, in ascending order, the offsets where its top-level
    values start, and `packages[m]` is the value at `f[m]`.
  - `DecodeExact` mentions only the whole text, so the prefix form is needed
    to carry the claim through the loop.
  - `ListingExtend` and `PrefixDecode` extend the witness by one value.
    `ListingTopValues` shows by counting (`ListingCount`) that a full listing
    picks the same entries as `TopValues`' rank-based definition.

`DepReportProofs` proves what the renderer relies on:

- `PathLess` is the first-difference comparison (`PathLessLex`).
- `PathLess` is irreflexive, transitive and total on paths.
- `Rank(S, x)`, the number of paths of `S` below `x`, is injective on `S`.
  It maps `S` onto `0..|S|-1` by `FS_Injection`, since both sets have `|S|`
  elements.
- `SortedSpec`: for every finite set of paths, `Sorted(S)` lists the set, each
  path once, in strictly ascending order. This needs no induction.
- `SectionCorrect`: a section built from any three maps satisfies what
  `TruncationCorrect` asks of it.

`GenDepsMdProofs` proves the whole program for every module path, alphabet,
finite path set, cap and go output. It adds the assumption
`OutputTextAssumption`.

- `MainTypeCorrect`: `MainSpec => []MainTypeOK`.
- `ReportOrdered`: `MainSpec => []SectionsOrdered`.
- `ReportTruncated`: `MainSpec => []TruncationCorrect`.

All three rest on one inductive invariant, `GInv`.

- It holds the offsets each control state implies.
- The report is empty before the `render` state.
- From `render` on, `pkgs` is `Sorted` of the keys of the maps, and each of the
  first `r` sections is `SectionOf` the maps and `pkgs[n]`. `SectionOf` is
  `Section` with the maps as parameters.
- The maps no longer change once the renderer runs.
- Decoder steps cite `GoListStreamProofs` through an instance, and builder
  steps cite `TypeStep` of `DepGraphProofs`.

Only TLC checks the following:

- liveness (`Terminates`, and the fairness part of `BuildRefines`): TLAPS
  cannot reason about `ENABLED` and fairness here;
- the violation runs (`NoCrash`, `ScopeAtBoundary`,
  `EveryPackageReported`, `UseCasesAndCommandsShown`), which TLC shows
  false on the code.

## Not modelled

- The go subprocess and the file write are I/O. The go output is an input
  chosen from a set, and the write is one step.
- The HTML and CSS text, the hero card's literal page count (line 859) included.
- Line 629 of the longform script puts a backslash inside an f-string
  expression. Python versions before 3.12 reject this as a syntax error. The
  model assumes an interpreter that runs the script.

## Plan for further work

1. An action property of the builder: the maps only grow, from `GInv`.
2. Compose the abstract builder with the decoder and renderer in `GenDepsMd`,
   so that the end-to-end runs can use larger inputs, and prove the
   composition refines the program.
