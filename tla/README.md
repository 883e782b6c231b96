# TLA+ verification of the machine-emulator state-attestation code

This directory holds TLA+ models of the code under `src/`, the TLC configurations that
model-check them, and TLAPS proofs about them. `PROJECT.json` lists the components, runs,
mutants, source map, findings, hazards and theorems. This README explains them.

## 1. Inventory

### The source under `src/`

| File | What it is |
|------|------------|
| `src/src/back-merkle-tree.cpp` | `back_merkle_tree`, the append-only Merkle accumulator (spec component C). |
| `src/src/clua-machine.cpp` | The Lua binding of the machine class: the `verify_*` class methods, `get_default_config`, `get_csr_address`, and the `cartesi.machine()` constructor. |
| `src/src/emulator/i-state-access.h` | `i_state_access`, the CRTP interface (spec component E) through which the interpreter reads and writes every machine-state component. Each method forwards to the `do_` method of the implementation. |
| `src/src/jsonrpc-connection.h` | Only the declaration of `jsonrpc_connection` (remote machines). The method bodies are not in the repository. |

The hasher (A), the pristine-hash table (B), the Merkle proof (D), the state-access
implementations (F, G) and the step-log verifier (H) are named by the spec. Their code is
not under `src/`. Where the project needs them, it models them from spec.md and marks them
`spec_modelled` in the map.

### Components, state and operations

* **Hasher (A).** Stateless: `get_concat_hash(left, right)` and the leaf hash.
* **Pristine-hash table (B).** Immutable after construction. It holds one hash per height,
  `pristine[h+1] = H(pristine[h], pristine[h])`.
* **Back Merkle tree (C).** Its state is `m_leaf_count`, `m_max_leaves = 2^depth` and
  `m_context[0..depth]`. Its operations:
  * the constructor, which validates its sizes only after its member initializers have run;
  * `push_back`, a carry chain through the set bits of `leaf_count`;
  * `get_root_hash`, which folds a pristine leaf up through the same bits, or returns
    `context[depth]` once the tree is full;
  * `get_next_leaf_proof`, the same fold, recording the siblings. Debug builds re-verify it.
* **Merkle proof (D).** A value: target address and hash, root hash, and one sibling per
  level. `verify()` folds the target up through the siblings.
* **State-access interface (E).** About sixty methods: `read_X`/`write_X` for the integer
  registers, the 26 CSRs and the HTIF/CLINT registers, the iflags methods
  (`set_iflags_H`, `reset_iflags_I`, `read_iflags_*`, `write_iflags_PRV`), `read_pma`,
  `read_memory` and `write_memory`. Each body is `return derived().do_<name>(...)`.
  H, I and PRV are fields of one packed `iflags` word.
* **Direct (F) and logging (G) state access.** The interpreter body reads and writes
  machine state through either. The direct access touches the raw fields. The logging
  access also records each access, with the word's proof against the root before it.
* **Step-log verifier (H).** It replays the log from a pre-root to a post-root, checking
  each record's proof against the root the records before it left.
* **Lua binding.** Each `verify_*` method converts its Lua arguments, hands an access log to
  the C API verifier and reports the verdict. The log is a C object owned by a
  `clua_managed_cm_ptr` userdata:
  * `luaL_error` unwinds the C stack without running C++ destructors;
  * an abandoned log is therefore freed by the userdata's `__gc` finalizer, when the Lua
    collector gets to it;
  * on success the method deletes the log at once with `reset()`.

  `cartesi.machine()` creates a `cm_machine` the same way and returns its userdata to the
  script.
* **JSON-RPC connection.** It keeps a stack of at most two remote addresses
  (`static_vector<std::string, 2>`) and offers snapshot, commit and rollback. Only the
  declaration is present.

### How they interact

`back_merkle_tree` calls the hasher and the pristine table and builds proofs (D). The
interpreter calls the interface (E), which forwards to F or G. The logging
access produces logs that the verifier (H) checks. The Lua binding is a client of H: it owns
the logs it converts, passes them to H, and frees them. Everything is single-threaded
(spec section 5). Within one machine, the only interleavings come from the Lua collector:
* it finalizes unreachable userdata at arbitrary points between calls;
* the allocator hands out addresses that were freed before.

### What is hard

* **Carry chain.** The bit arithmetic of the carry chain and of the fold. Its errors show only
  after particular counts, such as a full tree or a long carry.
* **Constructor order.** The constructor computes and allocates from unchecked parameters
  before it validates them.
* **Object ownership in the binding.** Errors raised part-way through a call, reset versus
  finalization, reuse of freed addresses, and finalizer registration.
* **Integer conversion.** A reason that is a Lua integer is converted to `uint16_t`.
* **Forwarding.** Sixty hand-written forwarding bodies. A body that calls the wrong `do_`
  method compiles, and shows only on the path that uses that method.
* **Logging order.** A logged write must take its proof before the write. The verifier must
  thread the root from record to record.

### What makes each component correct

* **Back tree:**
  * the spine invariant;
  * root equivalence with the tree built bottom-up;
  * soundness of the next-leaf proof;
  * no lost leaf at the capacity boundary;
  * constructed trees have an exact capacity and addressable leaves.
* **Binding:**
  * unique ownership of every C object;
  * eventual deletion of abandoned logs;
  * verdicts reported faithfully for the arguments the script passed.
* **Interface:** each call changes only the location it names, and a read returns that
  location's value.
* **Logging access:** the log it produces verifies from the pre-step root to the current
  root, and it has the same effect on the state as the direct access.

## 2. Plan

Modules, in the order they were written, and what is left:

1. `MerkleProof`. The hasher as a constant operator, the pristine table and proof `verify`.
   Spec-modelled.
2. `BackMerkleTree` + `MCBackMerkleTree`. The accumulator, with a history variable of pushed
   leaves and reference definitions of the full tree.
3. `BackMerkleTreeCtor` + `MCBackMerkleTreeCtor`. The constructor with scaled-down integer
   widths.
4. `LuaMachineBinding` + `MCLuaMachineBinding`. The binding's ownership and verdict
   reporting, with an allocation failure in `clua_push_to` as a fault.
5. `BackMerkleTreeProofs`. Type correctness and no-lost-leaf.
6. `StateAccessInterface`, `StateAccess` + `MCStateAccess`. The interface and the direct
   access. `StateAccessProofs` proves type correctness and the forwarding contract.
7. `StepLogVerifier` and `LoggedStateAccess` + `MCLoggedStateAccess`. The logging access,
   composed with the verifier.
8. `LuaMachineBindingProofs`. The ownership invariants of the binding.
9. `StateAccessInterfaceProofs`. The interface lemmas, shared by both accesses' proofs.
10. `LoggedStateAccessProofs`. The word layout and the type invariant, for every instance.
11. `BackMerkleTreeCtorProofs`. The constructor's soundness for every int and address width.
12. `MerkleProofProofs`. Induction over an interval, the unfolding of the recursive
    functions, and quotient and bit arithmetic on powers of two.
13. `BackMerkleTreeProofs`, continued. The spine, the root and the next-leaf proof.
14. `LoggedStateAccessProofs`, continued. The path fold of a word's proof, and the
    verifier's acceptance of the step log.

Next:
* an abstract append-only accumulator refined by `BackMerkleTree`;
* `LuaMachineBinding` composed with `StepLogVerifier` in place of `Accepts`;
* `TamperedLogRejected` proved under a collision-free hasher.

## 3. Modules and how they correspond to the code

### `MerkleProof` (spec-modelled: A, B, D)

* `GetConcatHash` is a constant operator. Every property is an equality of computations with
  it, so it holds for every hash function. The MC modules substitute a tuple constructor,
  which behaves as a collision-free hasher.
* `PristineHash[h]` is the pristine table.
* `Bit(n, i)` is the code's `n & (1 << i)`.
* `NewProof`, `ProofRoot` and `Verify` are the proof object. Siblings are indexed by the log2
  size of the sibling, as `set_sibling_hash` does.

### `BackMerkleTree` (`back-merkle-tree.cpp` 25–120)

* **Variables.**
  * `leaf_count` and `context` are the members `m_leaf_count` and `m_context`.
  * `leaves` is a history variable holding the pushed leaf hashes. It is not in the code;
    the properties use it.
  * `result` holds the return value or exception of the last operation, in the style of a
    `ret` variable.
* **Actions.**
  * `PushBack(leaf)` has two disjuncts: the `out_of_range` throw and the accepted push.
    `Carry(leaf)[i]` is `right` on entering loop iteration `i`. `CarryStop` is the first
    clear bit, where the loop stores and breaks. When no clear bit exists, the code stores
    nothing, and so does the model.
  * `GetRootHash` and `GetNextLeafProof` share `RootFold` and `Sibling`, as the two loops do
    in the code.
  * The debug re-verification is an `IF` on the constant `NDEBUG`.
* **Reference definitions.** `LeafAt`, `RefNode` and `RefRoot` are the tree that spec
  section 8 describes: the pushed leaves padded with pristine leaves, hashed bottom-up.

### `BackMerkleTreeCtor` (`back-merkle-tree.cpp` 25–50)

* **Single action.** `Construct(r, l, w)`, over a small set of `int` values, evaluates the
  member initializers in the order of the init list: the shift, the `m_context` size, and
  the pristine table's size. It then evaluates the checks at lines 32–49 in order.
* **Widths.** `int` has `INT_BITS = 8` bits and `address_type` has `ADDRESS_BITS = 6`.
* **Allocation bound.** `MaxAllocEntries = 16` is the largest allocation that succeeds.
* **Undefined behaviour.** Signed overflow, and shifts by a negative count or a count of the
  width or more, are a choice between what an x86-64 build produces: a wrapped value, a
  count masked to the width, or a folded 0. The flag `ub` records that such a step happened.
* **Assumptions.**
  * The members are declared in the order of the init list. The header is not in `src/`.
  * The pristine table allocates one hash per height `w..r`, per spec 4.B.

### `LuaMachineBinding` (`clua-machine.cpp` 37–175)

* **Variables.**
  * `heap[o]` is the kind of C object living at address `o`, or `"free"`.
  * `garbage[o][k]` counts the unreachable userdata of type `k` pointing to `o`.
  * `held[o]` counts the machines the script holds.
  * `double_free` is set when a finalizer deletes dead memory.
  * `ret` is the last call's outcome.
* **Verify methods.** Each is one action. It is built from `Plan`, the order in which the
  method checks and converts its arguments, as read from lines 37–134. The action chooses
  the first argument check that raises, or none.
  * A raise before the log is converted allocates nothing.
  * A raise after the log is converted leaves the log's userdata as garbage.
  * A rejection by the verifier does the same.
  * On acceptance the log is deleted by `reset()`.
* **Other actions.**
  * `MachineCtor` is `machine_ctor`.
  * `DropMachine` is the script releasing a machine.
  * `Collect(o, k)` is the collector running the `__gc` of a type that `clua_machine_init`
    registered (`ManagedTypes`). It is spec-modelled: spec section 9 says wrappers release
    on scope exit. `ManagedTypes` is `RegisteredTypes`, the log type that lines 170–175
    register, joined with `HostManagedTypes`, the machine type. The machine type's finalizer
    is registered by code outside `src/`, so that half is an assumption of the model, and
    `UniqueOwnership` and `OwnershipCorrect` rest on it for machines.
* **Verifier.** `Accepts` is the C API verifier's verdict, spec-modelled after 4.H.
* **Assumptions.**
  * A conversion that fails allocates nothing.
  * `clua_push_to` either wraps the converted log or, under `LuaAllocFails`, raises with the
    log unowned (`WrapRaises`).
  * `cm_create` leaves the pointer null when it fails.

### `StateAccessInterface` (`i-state-access.h` 43–295)

* `MachineCsrs`, `SupervisorCsrs` and `HtifCsrs` list the CSR methods in header order.
  `Catalog` is the set of methods, each a pair `<<op, field>>`.
* `Forward(m)` is the `do_` method that `m`'s body calls. It is the identity except for
  `read_memory`, whose body calls `do_write_memory` (line 290).
* `IndicesOf` and `ArgsOf` are the argument types: a register index, a PMA index, a memory
  address, a `uint64` value, or a `uint8` privilege.
* `LocOf` maps the three iflags fields to the one packed `iflags` word.
* `FieldValue` and `Update` are what the implementations' `do_` methods do to a word. For the
  iflags word they read or write one field and keep the others. They are spec-modelled
  (4.E, 4.F).

### `StateAccess` (component F, spec-modelled `do_` methods)

* **Variables.** `st[loc]` is the machine state, `ret` the last call and its result, and
  `calls` the number of calls made in this step.
* **Action.** `Call(m, i, v)` is one interface call. It is bounded by `MaxCalls`, the state
  accesses of one step.
* **Initial state.** Every word is 0, and the iflags word is any record.

### `StepLogVerifier` (component H, spec-modelled)

* `RecordError` checks one record in the order of spec 4.H: the schema first, then the root,
  the proof and the value.
* `RootAfter` re-folds a write's new word through the record's siblings.
* `Replay` folds the log with a recursive function.
* `VerifyStepTransition` compares the root that `Replay` reaches with the claimed post-root.

### `LoggedStateAccess` (component G, spec-modelled)

* **State.** `words` is a dense array of 128 words (a root of 2^10 bytes, 8-byte words).
  `AddrOf` places the registers, CSRs, iflags and PMAs in the 64 shadow words, and memory at
  its physical address. `TreeHash` is the Merkle tree over the words.
* **Action.** `LoggedCall(m, i, v)` sends the same interface call through `Forward`. It reads
  the word and its proof, applies the write, and appends `AccessRecord` to the log.
  `root_before` is the root at the start of the step.
* **Tampering.** `TamperedLogRejected` is spec 8, scenario 5. The verifier must reject the
  produced log after any one change: a read word, a written word, an address, or one
  sibling of a proof. The kind of a record is not tampered. Relabelling a write of an
  unchanged value as a read leaves every root as it was, so a verifier written to 4.H
  accepts it.
* **Initial state.** `Direct == INSTANCE StateAccess WITH st <- StOf(words), calls <- Len(log)`
  reads the words location by location; `Init` fills each location's word from an initial
  state of the direct access. No refinement of the direct access is checked: the logging
  access reuses the interface's `Forward`, `Update` and `FieldValue`, so such a property
  would hold whatever `i-state-access.h` forwards, and would test only the layout `AddrOf`,
  which is the model's own (neither the spec nor `src/` gives a shadow layout).
* **Layout.** `LayoutAssumption` gives the sizes in words. `WordCount` is the number of
  leaves of the tree, the 64 shadow words fit in it, and every memory word is aligned, above
  the shadow and inside the tree. `AddrOf` is an `IF` chain: its arms are disjoint, because
  no CSR has the name of another component.

## 4. Runs

| Run | Config | Checks | Bounds |
|-----|--------|--------|--------|
| `tree` (pass) | `MCBackMerkleTree.cfg` | `TypeOK`, `Spine`, `RootEquivalence`, `NextLeafProofSound`, `PushStoresCarry` | 8 leaves (depth 3), 2 leaf values, leaf of 4 words, release build |
| `spine_as_specified` (violation) | `MCBackMerkleTreeSpineAsSpecified.cfg` | `SpineAsSpecified` | same |
| `ctor` (pass) | `MCBackMerkleTreeCtor.cfg` | `TypeOK`, `ConstructedTreeSound` | sizes {-1,0,1,2,5,6,7,20,127}, int 8 bits, address 6 bits |
| `ctor_rejects` (violation) | `MCBackMerkleTreeCtorRejects.cfg` | `RejectsWithOutOfRange` | same |
| `binding_ownership` (pass) | `MCLuaMachineBinding.cfg` | `TypeOK`, `UniqueOwnership` | 2 heap addresses (so freed addresses are reused), reasons {1, 65537} |
| `binding_liveness` (pass) | `MCLuaMachineBindingLiveness.cfg` | `LogsEventuallyFreed` | same, under `FairSpec` |
| `cmio_reason` (violation) | `MCLuaMachineBindingCmioReason.cfg` | `CmioReasonFaithful` | same |
| `binding_alloc_failure` (pass) | `MCLuaMachineBindingAllocFailure.cfg` | `NoDoubleDelete` | same, with `LuaAllocFails = TRUE` |
| `binding_alloc_leak` (violation) | `MCLuaMachineBindingAllocLeak.cfg` | `LogsEventuallyFreed` | same, under `FairSpec` |
| `state_access` (pass) | `MCStateAccess.cfg` | `TypeOK`, `CallTouchesOnlyItsField` | 2 calls per step, registers {1, 2}, one PMA entry, 2 memory words, values {0, 256}, privileges {0, 1, 3} |
| `state_access_reads` (violation) | `MCStateAccessReads.cfg` | `ReadsChangeNothing` | same |
| `logged_state_access` (pass) | `MCLoggedStateAccess.cfg` | `TypeOK`, `StepLogVerifies`, `TamperedLogRejected` | 2 calls per step, a 128-word tree, register {1}, memory words at 512 and 1016 |

**Why the bounds are enough.**
* `tree`: a depth of 3 gives carries of every length 0..3, a full tree and the throw after it,
  and pristine siblings at four heights. Two leaf values distinguish every leaf order. The
  word size below the leaf size makes the pristine leaf a hashed value, not the zero word.
* `ctor`: the parameter set holds, for each check, a value on each side of it. It includes
  the largest accepted root (5 = width − 1), the width itself (6), a root the allocator
  refuses (20), and `INT_MAX` (127), where `r - l + 1` overflows.
* `binding_*`: two addresses are the fewest that let a stale pointer meet a reused address
  while another object is live.
* `state_access`: two calls are enough for every pair of methods. A write followed by a read
  of another field shows a misrouted forward, and a read of memory shows the overwrite.
  Values {0, 256} tell a write from no write, and 256 is a `uint64_t` argument that is no
  `uint8_t` privilege. Privileges {0, 1, 3} are the valid levels, so a PRV write is told
  from a whole-word write and a `val` declared too wide is caught.
* `logged_state_access`: two calls give a write followed by an access whose proof must be
  against the root the write left. The 128-word tree is the smallest that holds the 64
  shadow words and memory above them. The memory words at 512 and 1016 are at the two ends
  of the memory half.

`state_access` and `logged_state_access` set `CHECK_DEADLOCK FALSE`: a step ends after its
`MaxCalls` accesses, and stopping there is what the code does.

**Fault model.** `LuaAllocFails` lets `lua_newuserdata` fail inside `clua_push_to`, after
`clua_check_cm_access_log` has allocated the log (`WrapRaises`). Lua built as C unwinds
with `longjmp`, which skips the destructor of the temporary `clua_managed_cm_ptr`, so the
log has no owner. `binding_ownership` and `binding_liveness` run without the fault.
`binding_alloc_failure` runs with it.

**Fairness.** `FairSpec` adds weak fairness on each `Collect(o, k)`. The code relies on this:
Lua's collector eventually finalizes every unreachable userdata, at the latest at
`lua_close`. No other fairness is assumed. The tree is a passive data structure, and nothing
in its code promises that an operation will be called.

Every property of a passing run has a mutant in `PROJECT.json`, a plausible bug in the code
that TLC finds. The mutants are:
* the capacity check `>` instead of `>=`;
* the carry hashed in the wrong order;
* the full-tree branch of `get_root_hash` dropped;
* the target address not shifted;
* the loop bound `i < depth`;
* `std::max(1, …)` dropped;
* the address-width check dropped;
* a finalizer run twice;
* `reset()` that keeps the pointer;
* the log type registered without a finalizer;
* the `iflags` privilege argument widened to a whole `uint64` word;
* a copy-pasted forwarding body;
* the record kind taken from the `do_` method name;
* the proof taken after the write;
* the supervisor CSRs placed one word too low;
* the verifier's value check left out.

## 5. Findings

1. **The spec's spine formula is off by one subtree** (`spine_as_specified`). The code keeps
   in `context[i]` the 2^i leaves starting at `leaf_count` with bits `0..i` cleared. That
   range ends at `(leaf_count & ~((1<<i)-1)) - 1`. Spec section 8 clears bits `0..i` instead
   (`~((1<<(i+1))-1)`), so its subtree ends 2^i leaves too early: at position −1 after the
   first push.
2. **The constructor can throw `bad_alloc` instead of `out_of_range`** (`ctor_rejects`).
   `m_context` is sized from unchecked parameters before the width check at line 47. In the
   same initializers, the shift at line 29 is undefined behaviour for the parameters the
   checks later reject.
3. **The cmio verify methods wrap the reason** (`cmio_reason`). `static_cast<uint16_t>` turns
   65537 into 1, and a log for reason 1 is accepted. Spec 4.H and 9 say the response must
   carry the given reason and that failures must not be dropped silently.

4. **`read_memory` writes memory** (`state_access_reads`). `i-state-access.h` line 290: the
   body of `read_memory` calls `do_write_memory(s, entry, paddr, val, size_log2)`. An
   interpreter reading memory through the interface overwrites the word with the value it
   passed. Spec 4.E says the contract is purely functional and reads change nothing.
5. **A failed `lua_newuserdata` leaks the converted log** (`binding_alloc_leak`). Each
   verify method converts the log before `clua_push_to` allocates the userdata that will own
   it. If that allocation raises and Lua unwinds with `longjmp`, the log is never freed, even
   under a fair collector. Spec section 9 says logs crossing the binding are owned by the
   wrapper and released on scope exit. `binding_alloc_failure` shows that this fault leaks
   and does nothing worse.

The spec's open question about line 44 does not apply to this code. The condition compares
`log2_word_size > log2_leaf_size` correctly. Only the exception's message says "greater than
log2_word_size".

## 6. What is proved

`BackMerkleTreeProofs` proves the following for every value of the constants allowed by the
assumptions `SizesAssumption` (0 ≤ word ≤ root), `LeafSizeAssumption` (word ≤ leaf ≤ root)
and `MaxLeavesAssumption`.

* **`TypeCorrect`: `Spec => []TypeOK`.** `TypeOK` is inductive on its own. The accepted push
  keeps `leaf_count + 1 ≤ max_leaves` by its guard, `EXCEPT` keeps the context's domain, and
  `Append` keeps the history's length equal to the count.
* **`PushStoresCarryCorrect`: `Spec => PushStoresCarry`.** The only step that increments
  `leaf_count` is the accepted push. Its guard `leaf_count < 2^depth` and the lemma
  `DivBelowDivisor` give `leaf_count \div 2^depth = 0`, so bit `depth` is clear and is a
  stop of the loop. The proof uses `TypeCorrect`.

* **`SpineCorrect`: `Spec => []Spine`.** The inductive invariant is `TypeOK /\ Spine`.
  `Spine` needs `TypeOK` because the carry chain indexes the context and the history by the
  count. The push step is `PushBackSpine`. Let `k` be the carry stop, the lowest clear bit
  of `leaf_count` (`CarryStopFacts`). Then:
  * `CarryNode`: the loop's carry at level `i ≤ k` is the reference node above the new
    leaf. This uses `NodeUp`, and `Spine` for the set bits below `k`.
  * `CarryBits`: adding one clears bits `0..k-1`, sets bit `k` and keeps the bits above.
  * `PrefixLocal`: appending a leaf leaves every complete node to its left as it was.
  So the context entry stored at `k` is right, and the entries above `k` still are.
* **`RootEquivalenceCorrect`: `Spec => []RootEquivalence`.** `RootFoldNode` shows, by
  induction on the level, that `get_root_hash`'s fold at level `i` is the reference node
  above `leaf_count`. Each set bit takes the context entry (`Spine`) and each clear bit the
  pristine hash of an empty right sibling (`NodePristine`). At the top the node is the
  root. A full tree takes the stored root.
* **`NextLeafProofSoundCorrect`: `Spec => []NextLeafProofSound`.** `ProofFoldIsRootFold`
  shows that folding the proof of the next slot retraces `get_root_hash`'s fold, shifted
  by the leaf size (`ShiftQuotient`). So the proof verifies against the root.

`MaxLeavesAssumption` says that `2^depth` is a positive natural. It is stated as an
assumption because the provers know `^` only on literals and the induction theorems cannot
be instantiated. TLC checks it on every instance.

`MerkleProofProofs` holds what the Merkle proofs share:
* `IntervalInduction`, induction over `a..b`. It is proved from the least counterexample
  (`LeastNat`, by well-founded minimality), so it needs no operator parameter;
* `PristineHashDef` and `ProofFoldDef`, the defining equations of the recursive functions.
  They are obtained from `FiniteNatInductiveDef` with a named step operator;
* `DivBounds`, `DivUnique`, `DivTwice`, `DivPowStep` and `ShiftQuotient`, the quotient and
  bit arithmetic of the addresses.

The provers do not rewrite `^` with a variable exponent. So each proof names a power
(`x == 2^i`), states its facts, hides it, and does the arithmetic on the name.

`StateAccessInterfaceProofs` holds the lemmas about the interface that both accesses'
proofs cite:
* `CsrsApart`: no CSR has the name of another component;
* `ForwardField`: forwarding keeps the field;
* `LocOfInLoc`: every method names a location of the state;
* `UpdateType`: a write keeps the iflags word a record of H, I and PRV, and every other
  word a value.

`StateAccessProofs` proves the following for every set of registers, PMA entries, memory
words, values and privileges allowed by `StateAccessAssumption`.

* **`TypeCorrect`: `Spec => []TypeOK`.** `TypeOK` is inductive. The interface lemmas
  carry it.
* **`CallTouchesOnlyItsFieldCorrect`: `Spec => CallTouchesOnlyItsField`.** Every call
  changes the state only at its own location, and a value-returning method returns that
  location's field. This is the forwarding contract for every method. `read_memory` is the
  one method that fails the stronger `ReadsChangeNothing`. The theorem still holds for it,
  because its write stays at its own location.

`LoggedStateAccessProofs` proves the following for every instance allowed by
`StateAccessAssumption` and `LayoutAssumption`.

* **The layout lemmas.** `LocAddrValues` gives each kind of location its word:
  * register r at word r;
  * CSR k of the header order at word 31 + k;
  * iflags at word 58;
  * PMA i at word 59 + i;
  * memory at paddr / 8.

  From these, `LocAddrInWords` shows that every location lies in the tree.
* **`TypeCorrect`: `Spec => []TypeOK`**, from `IInv`: `TypeOK`, plus the fact that the words
  are a function on the word addresses and the log is a sequence. `InitStep` and
  `LoggedCallStep` establish and preserve it. TLC checked `IInv` on the
  `logged_state_access` instance before it was proved.

* **`StepLogVerifiesCorrect`: `Spec => []StepLogVerifies`.** `StepLogVerifies` is not
  inductive: it says nothing of the words after the next write. The inductive invariant is
  `IInv /\ ReplayInv`. `ReplayInv` says that the verifier, replaying the log so far from
  `root_before`, accepts every record and reaches the root of the current words. It was
  checked by TLC on the `logged_state_access` instance (70,624 states) before it was
  proved. The argument has these steps:
  * `TreeHashDef`, `TreeUp` and `TreeLocal`: a node of the dense tree is the hash of its
    children, and depends only on the words it spans.
  * `PathFold`: the proof of word `a`, taken before the access and folded with a new word
    `v`, reaches at every level the node above `a` in the tree where `a` holds `v`. The
    siblings span no word `a`: a proof taken before a write is valid for the root after
    it (spec 4.G; the logging access is not under `src/`).
  * `RecordOk`: each record the access appends passes the verifier's checks against the
    current root, and leads it to the root after the access.
  * `ReplayAppend`: the replay of a log with one more record is the replay of the old
    log, followed by one check.

`BackMerkleTreeCtorProofs` proves the following for every width of int and address_type
allowed by `WidthAssumption`.

* **`ConstructedTreeSoundCorrect`: `Spec => []ConstructedTreeSound`.**
* **`TypeCorrect`: `Spec => []TypeOK`.**

Each construction replaces the whole tree, so the invariant needs no strengthening:
`ConstructStep` shows both properties for one construction. When all the body's checks pass
(`CheckErrorNone`), we have `0 ≤ w ≤ l ≤ r < ADDRESS_BITS ≤ INT_MAX`. Then:
* every int expression of the initializers fits, and keeps its value (`IntValueFits`);
* the shift is by `r - l` within the width;
* `LastLeafFits` bounds the last leaf's address, `(2^(r-l) − 1)·2^l = 2^r − 2^l < 2^r`.

The two theorems hold for 64-bit addresses and 32-bit ints, not only the 6 and 8 bits of
the `ctor` run. `PowerFacts` states the laws of powers of two the proof uses:
* positivity;
* `2^(a+1) = 2·2^a`;
* `2^a·2^b = 2^(a+b)` within the address width;
* `2^INT_BITS = 2·2^(INT_BITS−1)`.

They are true for every width, but the provers know `^` only on literals and cannot
instantiate the induction theorems that would derive them. TLC evaluates `PowerFacts` on
every run. `WidthAssumption` also says `ADDRESS_BITS < INT_MAX`. This holds because
`std::numeric_limits<address_type>::digits` is an int.

`LuaMachineBindingProofs` proves the following for every set of addresses and garbage bound
allowed by `BindingAssumption`.

* **`NoDoubleDeleteCorrect`: `Spec => []NoDoubleDelete`**, with or without allocation
  failures.
* **`OwnershipCorrect`: `~LuaAllocFails` ⇒ `Spec => []UniqueOwnership`.**
* **`TypeCorrect`: `Spec => []TypeOK`**, with or without allocation failures.

All three rest on one inductive invariant, `IInv`. For every address `o`, `IInv` says that
`Owners(o) ≤ Live(o)`, with equality when the allocator does not fail. Here `Owners(o)` is
the reachable and unreachable userdata pointing to `o`, and `Live(o)` is 1 when an object
lives there. `UniqueOwnership` is not inductive as it stands: the proof needs the owner
count, not only the pointer.

The argument is one lemma per action (`VerifyCallIInv`, `MachineCtorIInv`,
`DropMachineIInv`, `CollectIInv`), each built on `Balanced`:
* a step that changes owners and live objects of every address by the same amount keeps
  the invariant;
* a finalizer runs only on an unreachable userdata, which is an owner, so its object is live
  and the delete is not a double delete;
* `WrapRaises` creates a live object with no owner, which is allowed only when the
  allocator may fail.

**Model-checked only.**
* `TamperedLogRejected`. A tampered record is rejected only because the hasher is
  collision-free. The model leaves the hasher a constant operator, so the property holds for
  the tuple-constructor hasher of the run and is not a theorem for every hasher. Stating
  injectivity as an assumption would put an assumption that TLC cannot evaluate into a
  module that runs extend.
* The liveness property `LogsEventuallyFreed`. Liveness and `ENABLED` are outside TLAPS's
  reach here.
* The properties of the violation runs. They are findings, not theorems.
* What the recursive definitions compute for an arbitrary input, beyond the equations the
  proofs use. The reference tree (`RefNode`), `TreeHash`, `Replay` and the proof fold are
  related to the code by interval induction over levels or records. They are never related
  by induction over data.

## 7. Not modelled

* The RISC-V interpreter and devices. They are out of scope.
* `jsonrpc_connection`. Its bodies are absent.
* The interpreter's use of the state access, which is an arbitrary sequence of interface
  calls here. Its instruction semantics are out of scope.
* `clua_machine_init` and `clua_machine_export` are not actions. They register the types once,
  before a script can call anything, so the model starts after them. The types registered
  with a finalizer are `ManagedTypes` (the machine type's by code outside `src/`).
* `get_default_config` and `get_csr_address` change no state.
* Whether `cm_create` or `cm_load` can leave a half-built machine in the out-pointer when
  they fail. The C API is not under `src/` and the spec does not say, so the model assumes
  the pointer stays null.
* The text of error messages and JSON conversion.
