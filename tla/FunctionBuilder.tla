--------------------------- MODULE FunctionBuilder ---------------------------
(***************************************************************************)
(* The function builder of crates/codegen/src/ir/builder/func_builder.rs:  *)
(* its cursor location, the blocks it appends to the layout, the           *)
(* instructions it emits into them, and the predecessor lists and sealed   *)
(* set it keeps in the SSA builder (SsaBuilder::append_pred, seal_block,   *)
(* seal_all, whose source is not part of this tree and is modelled from    *)
(* the spec, section 4.5).  Operands, types and results are abstracted     *)
(* away: an instruction is its opcode class and its destination list.      *)
(* A failed assertion or unwrap ends the builder in status "panic".        *)
(***************************************************************************)
EXTENDS Naturals, Sequences, FiniteSets

CONSTANTS
    Block,      \* the block handles dfg.make_block can hand out
    NoBlock,    \* CursorLocation::NoWhere, and an absent br_table default
    Debug,      \* cfg!(debug_assertions): debug_assert! is checked
    MaxInsns,   \* bound on the instructions emitted into the function
    MaxTable    \* bound on the entries of a br_table

ASSUME FBAssumption ==
    /\ NoBlock \notin Block
    /\ Debug \in BOOLEAN
    /\ MaxInsns \in Nat \ {0}
    /\ MaxTable \in Nat

VARIABLES
    layout,       \* Layout: the appended blocks, in order
    loc,          \* the block of the cursor location; NoBlock is NoWhere
    code,         \* the instructions of each block, in layout order
    preds,        \* SsaBuilder preds: Block -> ordered list of Block
    sealed,       \* SsaBuilder sealed set
    status        \* "build", "panic" or "done" (build() returned)

vars == <<layout, loc, code, preds, sealed, status>>

\* An instruction: its opcode class and its destinations.
Insn(op, ds) == [op |-> op, dests |-> ds]
Ops == {"Op", "Phi", "Ret", "Jump", "Br", "BrTable"}
IsTerminator(i) == i.op \in {"Ret", "Jump", "Br", "BrTable"}

Appended == {layout[k] : k \in DOMAIN layout}

\* Sequences of length at most n over S.
SeqUpTo(S, n) == UNION {[1 .. m -> S] : m \in 0 .. n}

\* br_table's destinations: the table blocks, then the default if present.
TableDests(table, dflt) == IF dflt = NoBlock THEN table ELSE table \o <<dflt>>

Init ==
    /\ layout = <<>>
    /\ loc = NoBlock
    /\ code = [b \in Block |-> <<>>]
    /\ preds = [b \in Block |-> <<>>]
    /\ sealed = {}
    /\ status = "build"

Panic ==
    /\ status' = "panic"
    /\ UNCHANGED <<layout, loc, code, preds, sealed>>

\* Layout: inserting a non-terminator after a block's terminator is an error.
InsertAllowed(b, i) ==
    IsTerminator(i) \/ code[b] = <<>> \/ ~IsTerminator(code[b][Len(code[b])])

\* insert_insn: the cursor inserts at its location (NoWhere is an error),
\* after which the location is At(insn), the block's last instruction.
InsertInsn(i) ==
    IF loc = NoBlock \/ ~InsertAllowed(loc, i)
    THEN Panic
    ELSE /\ code' = [code EXCEPT ![loc] = Append(@, i)]
         /\ UNCHANGED <<layout, loc, preds, sealed, status>>

\* The number of times  x  occurs in  s.
Occurrences(s, x) == Cardinality({k \in DOMAIN s : s[k] = x})

\* SsaBuilder::append_pred(d, b) for each destination  d  of  ds, in order.
AppendPreds(ds, b) == [d \in Block |-> preds[d] \o [k \in 1 .. Occurrences(ds, d) |-> b]]

\* The instruction bound.
Room == Cardinality({p \in Block \X (1 .. MaxInsns) : p[2] \in DOMAIN code[p[1]]}) < MaxInsns

\* SsaBuilder::append_pred's own debug assertion: appending a predecessor
\* to a sealed block is forbidden (spec 4.5).
PredsAppendable(ds) == ~(Debug /\ \E k \in DOMAIN ds : ds[k] \in sealed)

\* A terminator's tail: append_pred for its destinations, then insert_insn.
EmitTerminator(i) ==
    IF ~PredsAppendable(i.dests)
    THEN Panic
    ELSE /\ preds' = AppendPreds(i.dests, loc)
         /\ code' = [code EXCEPT ![loc] = Append(@, i)]
         /\ UNCHANGED <<layout, loc, sealed, status>>

\* append_block: make a fresh block and append it to the layout.
AppendBlock ==
    /\ status = "build"
    /\ \E b \in Block \ Appended :
          layout' = Append(layout, b)
    /\ UNCHANGED <<loc, code, preds, sealed, status>>

\* switch_to_block: the location becomes BlockBottom(b).
SwitchToBlock(b) ==
    /\ status = "build"
    /\ loc' = b
    /\ UNCHANGED <<layout, code, preds, sealed, status>>

\* The value and store constructors (unary, binary, cast, load, store,
\* alloca): insert_insn with no predecessor recording.
EmitInsn ==
    /\ status = "build"
    /\ Room
    /\ InsertInsn(Insn("Op", <<>>))

\* phi: the type is read from args[0] (an empty entry list panics on the
\* index), then insert_insn.  The incoming blocks of a phi are operands,
\* not control-flow edges, so they record no predecessor.
Phi(n) ==
    /\ status = "build"
    /\ Room
    /\ IF n = 0 THEN Panic ELSE InsertInsn(Insn("Phi", <<>>))

\* ret: a terminator without destinations, no predecessor recording.
Ret ==
    /\ status = "build"
    /\ Room
    /\ InsertInsn(Insn("Ret", <<>>))

\* jump: debug_assert!(!is_sealed(dest)); pred = cursor.block().unwrap();
\* append_pred(dest, pred); insert_insn.
Jump(dest) ==
    /\ status = "build"
    /\ Room
    /\ IF Debug /\ dest \in sealed THEN Panic
       ELSE IF loc = NoBlock THEN Panic
       ELSE EmitTerminator(Insn("Jump", <<dest>>))

\* br: both destinations asserted unsealed, then the block, then
\* append_pred(then), append_pred(else), insert_insn.
Br(then, else) ==
    /\ status = "build"
    /\ Room
    /\ IF Debug /\ (then \in sealed \/ else \in sealed) THEN Panic
       ELSE IF loc = NoBlock THEN Panic
       ELSE EmitTerminator(Insn("Br", <<then, else>>))

\* Mutant: the default destination is not recorded as having this block as
\* a predecessor.
BrTableNoDefaultPred(table, dflt) ==
    /\ status = "build"
    /\ Room
    /\ IF Debug /\ (dflt \in sealed \/ \E k \in DOMAIN table : table[k] \in sealed)
       THEN Panic
       ELSE IF loc = NoBlock THEN Panic
       ELSE /\ preds' = AppendPreds(table, loc)
            /\ code' = [code EXCEPT ![loc] = Append(@, Insn("BrTable", TableDests(table, dflt)))]
            /\ UNCHANGED <<layout, loc, sealed, status>>

\* br_table: the default and every table destination asserted unsealed
\* (under cfg!(debug_assertions)), the block unwrapped, append_pred for the
\* default and for every table entry, insert_insn.
BrTable(table, dflt) ==
    /\ status = "build"
    /\ Room
    /\ IF Debug /\ (dflt \in sealed \/ \E k \in DOMAIN table : table[k] \in sealed)
       THEN Panic
       ELSE IF loc = NoBlock THEN Panic
       ELSE EmitTerminator(Insn("BrTable", TableDests(table, dflt)))

\* SsaBuilder::seal_block(b): complete the incomplete phis of  b  from its
\* current predecessors (not modelled) and mark it sealed.
Seal(S) == sealed' = sealed \cup S

\* seal_block: seal the cursor's block (cursor.block().unwrap()).
SealBlock ==
    /\ status = "build"
    /\ IF loc = NoBlock THEN Panic
       ELSE /\ Seal({loc})
            /\ UNCHANGED <<layout, loc, code, preds, status>>

\* seal_all: seal every appended block.
SealAll ==
    /\ status = "build"
    /\ Seal(Appended)
    /\ UNCHANGED <<layout, loc, code, preds, status>>

\* build: in debug builds every block of the layout must be sealed.
Build ==
    /\ status = "build"
    /\ IF Debug /\ ~(Appended \subseteq sealed) THEN Panic
       ELSE /\ status' = "done"
            /\ UNCHANGED <<layout, loc, code, preds, sealed>>

Next ==
    \/ AppendBlock
    \/ \E b \in Appended : SwitchToBlock(b)
    \/ EmitInsn
    \/ \E n \in 0 .. 1 : Phi(n)
    \/ Ret
    \/ \E d \in Appended : Jump(d)
    \/ \E t, e \in Appended : Br(t, e)
    \/ \E table \in SeqUpTo(Appended, MaxTable), dflt \in Appended \cup {NoBlock} :
          BrTable(table, dflt)
    \/ SealBlock
    \/ SealAll
    \/ Build

Spec == Init /\ [][Next]_vars

-----------------------------------------------------------------------------

\* Type invariant.
TypeOK ==
    /\ layout \in Seq(Block)
    /\ loc \in Block \cup {NoBlock}
    /\ code \in [Block -> Seq([op : Ops, dests : Seq(Block)])]
    /\ preds \in [Block -> Seq(Block)]
    /\ sealed \subseteq Block
    /\ status \in {"build", "panic", "done"}

\* The number of edges from  b  to  d  in the terminators emitted into  b.
EdgeCount(b, d) ==
    Cardinality({p \in (DOMAIN code[b]) \X (1 .. MaxTable + 2) :
                    p[2] \in DOMAIN code[b][p[1]].dests
                    /\ code[b][p[1]].dests[p[2]] = d})

\* Predecessor recording (spec 4.4 and the branch invariant of section 8):
\* d's predecessor list holds  b  once per edge from  b  to  d  of the
\* jump, br and br_table instructions emitted into  b.
PredsMatchEdges ==
    \A b, d \in Block : Occurrences(preds[d], b) = EdgeCount(b, d)

\* A block's terminator is its last instruction (spec 4.3): no jump, br,
\* br_table or ret is followed by another instruction of its block.
TerminatorLast ==
    \A b \in Block : \A k \in DOMAIN code[b] :
        IsTerminator(code[b][k]) => k = Len(code[b])
====
