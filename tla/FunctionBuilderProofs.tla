------------------------ MODULE FunctionBuilderProofs ------------------------
(***************************************************************************)
(* Proofs about the function builder of                                    *)
(* crates/codegen/src/ir/builder/func_builder.rs for every set of blocks   *)
(* and every bound: the builder's state stays well typed, in debug and    *)
(* in release builds; and lemmas on the predecessor lists append_pred      *)
(* builds, used by FunctionBuilderEdgeProofs.                              *)
(***************************************************************************)
EXTENDS FunctionBuilder, FiniteSetTheorems, SequenceTheorems, TLAPS

USE FBAssumption

\* The instruction records the builder emits.
InsnRec == [op : Ops, dests : Seq(Block)]

LEMMA BoundedSeqs ==
    ASSUME NEW S, NEW n \in Nat
    PROVE  SeqUpTo(S, n) \subseteq Seq(S)
<1>. SUFFICES ASSUME NEW s \in SeqUpTo(S, n) PROVE s \in Seq(S)
  OBVIOUS
<1>1. PICK m \in 0 .. n : s \in [1 .. m -> S]
  BY DEF SeqUpTo
<1>. QED
  BY <1>1, IsASeq

\* The blocks appended to the layout are blocks.
LEMMA AppendedBlocks ==
    ASSUME TypeOK PROVE Appended \subseteq Block
BY DEF TypeOK, Appended

\* A destination list of n copies of a block is a sequence of blocks.
LEMMA RepeatSeq ==
    ASSUME NEW S, NEW x \in S, NEW m \in Nat
    PROVE  [k \in 1 .. m |-> x] \in Seq(S)
BY IsASeq

\* The number of occurrences of an element in a sequence is a natural.
LEMMA OccurrencesNat ==
    ASSUME NEW S, NEW s \in Seq(S), NEW x
    PROVE  Occurrences(s, x) \in Nat
<1>1. IsFiniteSet(1 .. Len(s))
  BY FS_Interval, LenProperties
<1>2. {k \in DOMAIN s : s[k] = x} \subseteq 1 .. Len(s)
  BY LenProperties
<1>. QED
  BY <1>1, <1>2, FS_Subset, FS_CardinalityType DEF Occurrences

\* An element that does not occur in a sequence occurs zero times.
LEMMA OccurrencesZero ==
    ASSUME NEW s, NEW x, \A k \in DOMAIN s : s[k] # x
    PROVE  Occurrences(s, x) = 0
<1>1. {k \in DOMAIN s : s[k] = x} = {}
  OBVIOUS
<1>. QED
  BY <1>1, FS_EmptySet DEF Occurrences

\* append_pred for a destination list keeps the predecessor lists typed.
LEMMA AppendPredsTyped ==
    ASSUME TypeOK, NEW ds \in Seq(Block), NEW b \in Block
    PROVE  AppendPreds(ds, b) \in [Block -> Seq(Block)]
<1>. SUFFICES ASSUME NEW d \in Block
              PROVE  preds[d] \o [k \in 1 .. Occurrences(ds, d) |-> b] \in Seq(Block)
  BY DEF AppendPreds
<1>1. [k \in 1 .. Occurrences(ds, d) |-> b] \in Seq(Block)
  BY OccurrencesNat, RepeatSeq
<1>2. preds[d] \in Seq(Block)
  BY DEF TypeOK
<1>. QED
  BY <1>1, <1>2, ConcatProperties

\* append_pred leaves the list of a block that is no destination alone.
LEMMA AppendPredsOther ==
    ASSUME TypeOK, NEW ds, NEW b, NEW d \in Block,
           \A k \in DOMAIN ds : ds[k] # d
    PROVE  AppendPreds(ds, b)[d] = preds[d]
<1>1. Occurrences(ds, d) = 0
  BY OccurrencesZero
<1>2. [k \in 1 .. 0 |-> b] = << >>
  OBVIOUS
<1>3. preds[d] \in Seq(Block)
  BY DEF TypeOK
<1>. QED
  BY <1>1, <1>2, <1>3, ConcatEmptySeq DEF AppendPreds

LEMMA PanicTyped == TypeOK /\ Panic => TypeOK'
BY DEF TypeOK, Panic

\* insert_insn keeps the code typed, or panics.
LEMMA InsertInsnTyped ==
    ASSUME TypeOK, NEW i \in InsnRec, InsertInsn(i)
    PROVE  TypeOK'
<1>1. CASE loc = NoBlock \/ ~InsertAllowed(loc, i)
  BY <1>1, PanicTyped DEF InsertInsn
<1>2. CASE loc # NoBlock /\ InsertAllowed(loc, i)
  <2>1. loc \in Block /\ code[loc] \in Seq(InsnRec)
    BY <1>2 DEF TypeOK, InsnRec
  <2>2. code' = [code EXCEPT ![loc] = Append(code[loc], i)]
    BY <1>2 DEF InsertInsn
  <2>3. Append(code[loc], i) \in Seq(InsnRec)
    BY <2>1, AppendProperties
  <2>. QED
    BY <1>2, <2>1, <2>2, <2>3 DEF InsertInsn, TypeOK, InsnRec
<1>. QED
  BY <1>1, <1>2

\* A terminator's tail keeps the code and the predecessor lists typed.
LEMMA EmitTerminatorTyped ==
    ASSUME TypeOK, loc \in Block, NEW i \in InsnRec, EmitTerminator(i)
    PROVE  TypeOK'
<1>1. CASE ~PredsAppendable(i.dests)
  BY <1>1, PanicTyped DEF EmitTerminator
<1>2. CASE PredsAppendable(i.dests)
  <2>1. code[loc] \in Seq(InsnRec) /\ i.dests \in Seq(Block)
    BY DEF TypeOK, InsnRec
  <2>2. Append(code[loc], i) \in Seq(InsnRec)
    BY <2>1, AppendProperties
  <2>3. AppendPreds(i.dests, loc) \in [Block -> Seq(Block)]
    BY <2>1, AppendPredsTyped
  <2>. QED
    BY <1>2, <2>2, <2>3 DEF EmitTerminator, TypeOK, InsnRec
<1>. QED
  BY <1>1, <1>2

\* Sealing a set of blocks keeps the sealed set typed.
LEMMA SealTyped ==
    ASSUME TypeOK, NEW S \in SUBSET Block, Seal(S),
           UNCHANGED <<layout, loc, code, preds, status>>
    PROVE  TypeOK'
BY DEF Seal, TypeOK

LEMMA TypeStep == TypeOK /\ [Next]_vars => TypeOK'
<1>. SUFFICES ASSUME TypeOK, [Next]_vars PROVE TypeOK'
  OBVIOUS
<1>0. Appended \subseteq Block
  BY AppendedBlocks
<1>1. CASE AppendBlock
  <2>. PICK b \in Block \ Appended : layout' = Append(layout, b)
    BY <1>1 DEF AppendBlock
  <2>1. layout' \in Seq(Block)
    BY AppendProperties DEF TypeOK
  <2>. QED
    BY <1>1, <2>1 DEF AppendBlock, TypeOK
<1>2. CASE \E b \in Appended : SwitchToBlock(b)
  BY <1>0, <1>2 DEF SwitchToBlock, TypeOK
<1>3. CASE EmitInsn
  BY <1>3, InsertInsnTyped, EmptySeq DEF EmitInsn, Insn, InsnRec, Ops
<1>4. CASE \E n \in 0 .. 1 : Phi(n)
  BY <1>4, InsertInsnTyped, PanicTyped, EmptySeq DEF Phi, Insn, InsnRec, Ops
<1>5. CASE Ret
  BY <1>5, InsertInsnTyped, EmptySeq DEF Ret, Insn, InsnRec, Ops
<1>6. CASE \E d \in Appended : Jump(d)
  <2>. PICK d \in Appended : Jump(d)
    BY <1>6
  <2>1. Insn("Jump", <<d>>) \in InsnRec
    BY <1>0 DEF Insn, InsnRec, Ops
  <2>. QED
    BY <2>1, PanicTyped, EmitTerminatorTyped DEF Jump, TypeOK
<1>7. CASE \E t, e \in Appended : Br(t, e)
  <2>. PICK t, e \in Appended : Br(t, e)
    BY <1>7
  <2>1. Insn("Br", <<t, e>>) \in InsnRec
    BY <1>0 DEF Insn, InsnRec, Ops
  <2>. QED
    BY <2>1, PanicTyped, EmitTerminatorTyped DEF Br, TypeOK
<1>8. CASE \E table \in SeqUpTo(Appended, MaxTable), dflt \in Appended \cup {NoBlock} :
              BrTable(table, dflt)
  <2>. PICK table \in SeqUpTo(Appended, MaxTable), dflt \in Appended \cup {NoBlock} :
              BrTable(table, dflt)
    BY <1>8
  <2>1. table \in Seq(Block)
    <3>1. table \in Seq(Appended)
      BY BoundedSeqs
    <3>. QED
      BY <1>0, <3>1, SeqDef
  <2>2. TableDests(table, dflt) \in Seq(Block)
    <3>1. CASE dflt = NoBlock
      BY <2>1, <3>1 DEF TableDests
    <3>2. CASE dflt # NoBlock
      <4>1. <<dflt>> \in Seq(Block)
        BY <1>0, <3>2
      <4>. QED
        BY <2>1, <3>2, <4>1, ConcatProperties DEF TableDests
    <3>. QED
      BY <3>1, <3>2
  <2>3. Insn("BrTable", TableDests(table, dflt)) \in InsnRec
    BY <2>2 DEF Insn, InsnRec, Ops
  <2>. QED
    BY <2>3, PanicTyped, EmitTerminatorTyped DEF BrTable, TypeOK
<1>9. CASE SealBlock
  BY <1>9, PanicTyped, SealTyped DEF SealBlock, TypeOK
<1>10. CASE SealAll
  BY <1>0, <1>10, SealTyped DEF SealAll
<1>11. CASE Build
  BY <1>11, PanicTyped DEF Build, TypeOK
<1>12. CASE UNCHANGED vars
  BY <1>12 DEF vars, TypeOK
<1>. QED
  BY <1>1, <1>2, <1>3, <1>4, <1>5, <1>6, <1>7, <1>8, <1>9, <1>10, <1>11, <1>12
     DEF Next

\* Type correctness of the builder, in debug and in release builds.
THEOREM BuilderTypeCorrect == Spec => []TypeOK
<1>1. Init => TypeOK
  BY EmptySeq DEF Init, TypeOK
<1>. QED
  BY <1>1, TypeStep, PTL DEF Spec

=============================================================================
