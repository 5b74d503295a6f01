# Formal models of the sonatina IR core

This directory holds TLA+ models of the in-memory IR substrate in `src/`:

- the data-flow graph and its user sets;
- the concurrent function store and module builder;
- the function builder with its predecessor recording and block sealing.

Each model is model-checked with TLC on small instances. The central DFG invariant, the function-store invariants with a refinement to an atomic store, and the function builder's sealing invariant are also proved with TLAPS for every instance.

## The system and how its parts interact

| Part | Source | What it does |
|---|---|---|
| Data-flow graph | `src/crates/ir/src/dfg.rs` | Arena of instructions (`insns`) and, for every value, the set of instructions that use it (`users`). The mutators keep `users` in step with the operands. `change_to_alias` relies on `users` being exact: it rewrites only the instructions that `users(old)` lists. |
| Function store | `src/crates/ir/src/module.rs` | A `DashMap<FuncRef, Function>`. `insert` takes a mutex, reads `len()` as the new `FuncRef`, and inserts. |
| Module context | `src/crates/ir/src/module.rs` | Shared (through `Arc`) map from `FuncRef` to `Signature`, and the type and global stores behind RwLocks. |
| Module builder | `src/crates/ir/src/builder/module_builder.rs` | `Clone`. It shares the function store, the context and a name-to-`FuncRef` map, so several threads may call `declare_function` at once. |
| Function builder | `src/crates/codegen/src/ir/builder/func_builder.rs` | Single-threaded. It keeps a cursor location and emits instructions into blocks. Before it inserts `jump`/`br`/`br_table`, it records the current block as a predecessor of every destination in the SSA builder. `seal_block`/`seal_all` mark blocks sealed, and `build` returns the function. |
| SSA builder, layout, cursor | not in `src/` | Described by `spec.md` §4.3–4.5. They are modelled from the spec where the function builder needs them (the `spec_modelled` entries in `PROJECT.json`). |

## Modules

### `DFG.tla`

Models `DataFlowGraph` for the instructions and the user sets.

- **State.**
  - `insns`: instruction id → record of `kind` (Op, Phi, Jump, Branch, BrTable), `args` (the operand sequence, `InsnData::args`), `blocks` (phi incoming blocks or branch destinations) and `dflt` (the BrTable default).
  - `nextInsn`: the next free arena slot.
  - `users`: value → set of instruction ids.
- **Actions.**
  - `MakeInsn`, `ReplaceInsn`, `ReplaceInsnArg`, `ChangeToAlias`, `AppendPhiArg`, `RewriteBranchDest`, `RemovePhiArg` and `RemoveBranchDest`, one per mutator.
  - `RemoveBranchDest` has a Branch case and a BrTable case, the latter in three steps: partition, drop edges, collapse to a Jump.
  - Each action includes the `attach_user`/`remove_user` calls its Rust method makes.
- **Inputs.** The instructions a caller constructs are drawn from `InsnInputs`: ops of up to two operands, phis of up to two entries, jumps, branches, and br_tables of one or two cases with or without a default.
- **Next-state relations.** `RewriteNext` is the rewrite operations. `Next` adds the edge removals.
- **The kept table entries.** The Rust code partitions the zipped `(block, case value)` table and keeps the entries whose block is not the removed one, in order. `KeptEntries` says the same thing without recursion: its `j`-th entry is the kept position of rank `j`, where the rank `PosRank(K, k)` counts the kept positions `<= k`. A `SelectSeq` form would need recursion that the provers cannot unfold. TLC confirmed that the two forms agree on every table of up to four entries.

### `ModuleBuilder.tla`

Models `declare_function` as the sequence of atomic DashMap and mutex steps it performs.

- **Steps.**
  - `Check`: `declared_funcs.get`.
  - `LockAndReadLen`: `_guard.lock()` and `funcs.len()`.
  - `InsertFunc`: `funcs.insert` and dropping the guard.
  - `PublishName`: `declared_funcs.insert`.
  - `PublishSig`: `ctx.declared_funcs.insert`, then return.
- **Threads and names.** Each thread makes one call, for a name drawn from `Name`.
- **Deadlock.** `CHECK_DEADLOCK FALSE` is set because the run really ends: once every thread has returned (`pc = "done"`), no step is enabled. `AllReturn` is what rules out a real deadlock before that point.
- **Fairness.** Weak fairness per thread. A thread that can take its next step keeps being scheduled; the OS scheduler and `std::sync::Mutex` give no more and no less than this.

### `AtomicDeclare.tla`

This is the abstract specification of what `FuncStore::insert` promises `declare_function`: inserting a Function is one atomic step. It puts the Function at the first free FuncRef (`size`) and returns that FuncRef. There is no lock and no separate `len()` read.

`ModuleBuilder.tla` instantiates it as `AD` under a refinement mapping:

- `pcBar` and `refBar`: a thread that holds `_guard` is still at `"lock"` and has no FuncRef yet;
- `size`: `funcs.len()`;
- `storeBar`: the filled slots.

`AtomicDeclareSpec == AD!Spec` is checked by the `mb` run and proved by `DeclareRefinesAtomic`.

### `ModuleLifecycle.tla`

This module composes `ModuleBuilder` with what happens around the calls.

- **Clones.** Each thread holds a clone of the builder (`held`). After its call returns, it may reach the Function behind its FuncRef (`Update`, `View`, `Modify`), and then it drops its clone (`DropClone`).
- **The entry unwrap.** All three accesses unwrap the DashMap entry (`UnwrapEntry`). A missing entry is recorded as `used[t] = "panic"`.
- **Build.** The owner calls `Build`. `Arc::into_inner(funcs).unwrap()` yields `mstate = "panic"` while a clone is alive, and `"built"` otherwise.
- **Listing.** After a successful build, `ModuleFuncs` records what `Module::funcs()` returns.
- **Deadlock.** `CHECK_DEADLOCK FALSE` is set because the run really ends, after the listing or after the owner's panic.

### `FunctionBuilder.tla`

Models the function builder.

- **State.**
  - `layout`: the appended blocks.
  - `loc`: the cursor location. `NoBlock` is `NoWhere`. `At(insn)` and `BlockBottom(b)` both append at the end of the block, because `At` always names the last instruction the builder inserted.
  - `code`: the instructions of each block, as opcode class plus destination list.
  - `preds` and `sealed`: the SSA builder's predecessor lists and sealed set.
  - `status`: build, panic or done.
- **Phi.** `phi` reads its type from `args[0]`, so an empty entry list panics. Otherwise it is an ordinary `insert_insn`. Its incoming blocks are operands, not edges, and record no predecessor.
- **Panics.** A failing `unwrap` or `debug_assert!` moves the model to `status = "panic"`, because the program stops there.
- **Debug builds.** `Debug` is `cfg!(debug_assertions)`.
- **Two sealed-destination checks.** `jump`, `br` and `br_table` each `debug_assert!` that no destination is sealed. `SsaBuilder::append_pred` asserts the same thing again (spec §4.5), and the model keeps that check as `PredsAppendable`, which `EmitTerminator` tests. In a debug build, then, a sealed block's predecessor list is frozen whatever the builder's own asserts do. A property saying so would only restate that guard, and release builds leave the case unspecified (spec §7). So no run checks sealing; the hazards at `func_builder.rs:159` and `:280` say so.

## Runs

Each run is listed in `PROJECT.json`; the MC modules supply the model values.

| Run | Config | Expect | Shows |
|---|---|---|---|
| dfg_full | `DFGFull.cfg` | pass | `TypeOK` and `NoPhantomUser` under all mutators. Instructions keep their shape, a reduced br_table included, and every user-set entry names a live instruction that really uses the value. |
| dfg_rewrite | `DFGRewrite.cfg` | pass | `UsersConsistent` (spec §8 user-set consistency) under the rewrite operations. |
| dfg_remove_phi_arg | `DFG_RemovePhiArgKeepsUsers.cfg` | violation | `remove_phi_arg` loses a user edge when the value occurs twice. |
| dfg_remove_branch_dest | `DFG_RemoveBranchDestKeepsUsers.cfg` | violation | BrTable removal loses the edge of a value that is still the condition. |
| dfg_removed_dest_gone | `DFG_RemovedDestGone.cfg` | violation | Removing the default keeps table entries to the same block. |
| mb | `ModuleBuilder.cfg` | pass | `NoFuncLost`: no Function is overwritten. `AllReturn`: every call returns. `AtomicDeclareSpec`: the lock-split insert implements an atomic append. |
| ml | `ModuleLifecycle.cfg` | pass | `AccessNeverPanics`: view, modify and update on a returned FuncRef never unwrap a missing entry, even when the FuncRef came from a `declared_funcs` hit raced against the inserting thread. `ModuleComplete`: a Module that `build()` returned lists exactly the FuncRefs the calls returned, each with its Function and signature. |
| mb_idempotent | `MB_DeclareIdempotent.cfg` | violation | Concurrent same-name declarations yield two FuncRefs. |
| mb_sig_before_name | `MB_SigBeforeName.cfg` | violation | A name is visible before its signature. |
| fb | `FunctionBuilder.cfg` | pass | `PredsMatchEdges`: predecessor lists hold one entry per emitted edge, duplicates included. |
| fb_terminator_last | `FB_TerminatorLast.cfg` | violation | A second terminator can be emitted into a terminated block. |

The findings these violations show are recorded in `PROJECT.json` under `findings`, with the source lines.

Each module has one type invariant. The DFG's is checked by `dfg_full` and the ModuleBuilder's by `mb`. `dfg_rewrite` and `ml` check only the properties that are new to them. `FunctionBuilder`'s `TypeOK` is not a run property, because Rust's `Option<Block>` already enforces it. It is still proved (`BuilderTypeCorrect`), because `PredsExact` rests on it.

### Bounds

- **DFG.** Two values, two blocks (symmetric), two instruction slots, and phis of up to three entries.
  - Two slots are enough for an instruction to use another's operand values while a second is rewritten.
  - Every counterexample above needs only one instruction with a repeated operand.
  - Operand sequences reach length 3, which gives a BrTable with two cases and a repeated value.
- **ModuleBuilder.** Three threads and two names.
  - Two threads race on one name.
  - The third checks the function-store length after two inserts.
  - Every interleaving of the five steps is explored.
- **ModuleLifecycle.** The same three threads and two names.
  - This is enough for a hit on a name whose inserting thread is still running.
  - It is also enough for a `build()` that races a thread between `funcs.insert` and `ctx.declared_funcs.insert`.
  - Thread symmetry is used; every property is symmetric in the threads.
- **FunctionBuilder.** Two blocks (symmetric), three instructions in all, and br_tables of one entry plus a default.
  - Three instructions are enough for a block-to-block edge, a self loop, a jump into a sealed block, and a terminator after a terminator.
  - `CHECK_DEADLOCK FALSE` is set because the builder really stops after `build` or a panic.

## Proofs

### `DFGProofs.tla`

- `RewriteTypeCorrect`: `RewriteSpec => []TypeOK`.
- `RewriteUsersConsistent`: `RewriteSpec => []UsersConsistent`.

Both hold for every set of values and blocks and every arena size. The only assumption is `ConstAssumption`: the pools are non-empty, `NoBlock` is not a block, and the bounds are positive naturals.

**The argument.** `UsersConsistent` is not inductive on its own, because the step proof indexes into operand sequences and needs them typed. The inductive invariant is therefore `TypeOK /\ UsersConsistent`. The step is proved one operation at a time (`MakeInsnUC`, `ReplaceInsnUC`, `ReplaceInsnArgUC`, `ChangeToAliasUC`, `AppendPhiArgUC`, `RewriteBranchDestUC`), for one value `v` and one instruction `j`:

- An instruction other than the one rewritten keeps both its operands and its membership in every user set.
- For the rewritten instruction, the new user-set membership matches the new operand set. This rests on small lemmas about the element set of a sequence under `Append`, `EXCEPT` and substitution (`ElemsAppend`, `ElemsExcept`, `ElemsSubst`).
- `change_to_alias` uses the invariant itself: every instruction in `users(old)` does contain `old`.

**What is not proved here.** The edge removals break `UsersConsistent` (see the findings), so this module proves it for `RewriteSpec` only. `DFGEdgeProofs.tla` proves what does hold for the full `Spec`.

### `DFGEdgeProofs.tla`

- `TypeCorrect`: `Spec => []TypeOK`.
- `NoPhantomUsers`: `Spec => []NoPhantomUser`.

Both cover all eight mutators, `remove_phi_arg` and `remove_branch_dest` included. They hold for every instance under `ConstAssumption`. The inductive invariant is `TypeOK /\ NoPhantomUser`; the `dfg_full` run checks both conjuncts.

**The argument.**

- **`remove_phi_arg`.** `FirstPosExists` shows that the position the code drops (the first entry from the block) exists. It uses the least-element theorem `WFMin` on `<` over `Nat`. `DropAtProps` gives the length and element `q` of the list with one entry dropped. Both lists lose one entry, so the phi keeps its shape. A value the phi still lists in `users` is not the dropped one, so it sits at a surviving position (`DropAtKeeps`).
- **`remove_branch_dest`.**
  - The rank lemmas (`RankRange`, `RankMono`, `RankInjective`, `RankOnto`, `RankChoose`, `RankPick`) show that `KeptEntries` enumerates exactly the kept positions, once each.
  - From them, `TableKeepProps` shows that the reduced table is a well-shaped BrTable. Its operands are the condition plus the case values of the kept positions.
  - `MidUsersNP`: a value the table still lists, that is not among the dropped case values, is either the condition or the value of a kept entry.
  - When the table collapses to a Jump, every edge of the table is dropped. The one destination left is a block, because a table with no default and one destination has one entry.
- **The rewrites.** They repeat the `DFGProofs` argument with `NoPhantomUser` in place of `UsersConsistent`.

### `ModuleBuilderProofs.tla`

- `DeclareTypeCorrect`: `Spec => []TypeOK`.
- `FunctionsNeverLost`: `Spec => []NoFuncLost`.

Both hold for every finite, non-empty set of threads and every set of names, under `MBAssumption`. Besides the sizes, `MBAssumption` says that `NoRef` (the model's "absent") is neither a FuncRef nor a name.

**Why `TypeOK` needs a proof.** The type invariant is not trivial here. `LockAndReadLen` sets `ref[t]` to `funcs.len()`, and that value must be a valid FuncRef, below the number of threads.

**The inductive invariant `IInv`.** It was first checked with TLC as an invariant of the `mb` instance. Its conjuncts:

- the filled slots are a prefix `0 .. n-1`, so `len()` is the first free slot;
- `_guard` is held exactly when some thread is between the two halves of `insert`, and at most one thread is;
- that thread's FuncRef equals `len()`;
- every filled slot `r` belongs to a thread past its insert whose FuncRef is `r`.

- `DeclareRefinesAtomic`: `Spec => AtomicDeclareSpec`.

**The refinement.** It follows the standard shape: `Init => AD!Init`, and `IInv /\ [Next]_vars => [AD!Next]_AD!vars`.

- `LockAndReadLen` leaves every mapped variable unchanged, so it is a stuttering step.
- `InsertFunc` is `AD!Insert`. `InsertGrows` shows that it fills slot `len()` and that `len()` grows by one.
- The other steps map to the abstract step of the same name.

**The argument.**

- `RoomForNew`: when a thread takes the lock, the owners of the filled slots are distinct threads other than itself. Mapping each owner to its FuncRef is a surjection onto the filled slots (`FS_Surjection`), so `len() < |Thread|`.
- `InsertIInv`: the insert fills exactly slot `n`, so the prefix grows to `0 .. n`. No other thread's slot is `n`, so nothing is overwritten.

### `FunctionBuilderProofs.tla`

- `BuilderTypeCorrect`: `Spec => []TypeOK`, for every `Debug`, every set of blocks and every bound.

The module also proves the lemmas on `append_pred`'s lists that `FunctionBuilderEdgeProofs` uses:
- `AppendPredsOther`: a block that is not a destination gains nothing.
- `OccurrencesZero`: a block absent from a list occurs zero times in it.

### `FunctionBuilderEdgeProofs.tla`

- `PredsExact`: `Spec => []PredsMatchEdges`, for every `Debug`, every set of blocks and every bound.

**The inductive invariant.** It is `EInv == TypeOK /\ DestsBounded /\ PredsMatchEdges`, checked first with TLC on the `fb` instance. `DestsBounded` is needed because `EdgeCount` counts destination indexes in `1 .. MaxTable + 2`: no destination list may be longer (`TableDestsBounded`).

**The argument.** It counts.

- `Edges(c, d)` is the set of (instruction, index) pairs that name `d`.
- Appending an instruction adds one pair per occurrence of `d` in its destinations (`EdgesAppend`). The count of a disjoint union is the sum (`CardDisjointUnion`, `CardBij`).
- `append_pred` adds `Occurrences(dests, d)` copies of the current block to `d`'s list (`OccConcat`, `OccRepeat`).
- So every terminator (`EmitTerminatorMatches`) and every other instruction (`InsertInsnMatches`) keeps the two counts equal.

### `ModuleLifecycleProofs.tla`

- `LifecycleTypeCorrect`: `LSpec => []LTypeOK`. This is the type part of `LIInv`; no run checks it separately.
- `AccessSafe`: `LSpec => []AccessNeverPanics`.
- `BuiltModuleComplete`: `LSpec => []ModuleComplete`.

They hold for every finite, non-empty set of threads and every set of names, under `MBAssumption`.

**The inductive invariant `LIInv`.** It extends `IInv` of `ModuleBuilderProofs`. TLC checked it on the `ml` instance (79,064 states). It adds:

- A published name points to a filled slot.
- A thread that returned, returned a filled slot. If it inserted, it returned its own FuncRef after publishing its signature.
- Only threads that returned have dropped their clone.
- A successful `build()` means every clone was dropped.
- The listing is exactly the filled slots.

**The argument.** A FuncRef taken from a `declared_funcs` hit is filled, because `PublishName` follows `InsertFunc` in the same thread. So the unwrap finds its entry. `build()` succeeds only when `held = {}`. At that point every thread has returned, with its signature published (`AllDoneWhenListed`). The steps that do not touch the clones reuse the `IInv` step lemmas (`StepIInv`).

## What stays with TLC

Every invariant a passing run checks is proved. These stay with TLC:

- **Liveness.** `AllReturn` needs weak fairness and `ENABLED` reasoning, which TLAPS does not handle.
- **The `KeptEntries` rewrite.** TLC checked, on bounded tables, that the rank form equals the `SelectSeq` form of the partition. Proving it for every table would need induction over sequences, and the provers cannot instantiate the library's induction theorems.
- **The violation runs.** They show counterexamples, not theorems.

## Not modelled

- Value, block and immediate creation (interning).
- `attach_result`.
- The type and global-variable stores: plain data behind RwLocks.
- `FuncStore::par_for_each`: each worker gets a distinct entry, so nothing is shared between workers.
- The read-only conversions of the function store.
- The Function contents that `update` and `modify` change: the model keeps only which thread created each Function.
- `use_var`, `def_var`, `declare_var` and `append_phi_arg` of the function builder: they go to the SSA builder and the DFG phi operands.
- The SSA builder's `use_var`/`def_var`, phi placement and trivial-phi removal.
- The filecheck GVN harness: commented out.

## Plan for later work

1. **SSA builder (spec §4.5).** Compose it with `FunctionBuilder` and the DFG.
   - Model `read_variable` and `add_phi_operands` as recursive functions, and `try_remove_trivial_phi` through `ChangeToAlias`.
   - Check that no trivial phi remains after `seal_all` and that phi operand order matches predecessor order (scenarios 5 and 6 of §8).
2. **Further proofs.** Action properties of the edge removals that do hold, for example that `remove_phi_arg` changes only the entries of one phi.
3. **Refinement.** State an abstract DFG specification of the user-set operations (users as a derived function of operands) and show `DFG` implements it under the rewrite operations.
