---------------------- MODULE FunctionBuilderEdgeProofs ----------------------
(***************************************************************************)
(* Proof that the function builder of                                      *)
(* crates/codegen/src/ir/builder/func_builder.rs records predecessors      *)
(* exactly: for every pair of blocks, the predecessor list of  d  holds    *)
(* b  once per edge from  b  to  d  of the terminators emitted into  b,    *)
(* for every set of blocks and every bound, in debug and release builds.   *)
(* The argument counts: append_pred adds Occurrences(dests, d) copies of   *)
(* the current block to  d's list, and appending the terminator adds as    *)
(* many edges.                                                             *)
(***************************************************************************)
EXTENDS FunctionBuilderProofs

USE FBAssumption

\* The edges to  d  of a block whose instructions are  c, as (instruction,
\* destination index) pairs: EdgeCount(b, d) counts Edges(code[b], d).
Edges(c, d) ==
    {p \in (DOMAIN c) \X (1 .. MaxTable + 2) :
        p[2] \in DOMAIN c[p[1]].dests /\ c[p[1]].dests[p[2]] = d}

\* Every destination list fits the index range EdgeCount counts over:
\* jump has one, br two, br_table at most MaxTable and the default.
DestsBounded ==
    \A b \in Block : \A k \in DOMAIN code[b] : Len(code[b][k].dests) <= MaxTable + 2

\* The list append_pred adds for one destination: m copies of block b.
Rep(m, b) == [k \in 1 .. m |-> b]

\* The inductive invariant for predecessor recording.
EInv == TypeOK /\ DestsBounded /\ PredsMatchEdges

-----------------------------------------------------------------------------
(* Counting lemmas.                                                        *)

\* A bijection preserves finiteness and cardinality.
LEMMA CardBij ==
    ASSUME NEW S, NEW T, NEW f \in [S -> T], IsFiniteSet(S),
           \A y \in T : \E x \in S : f[x] = y,
           \A x, y \in S : f[x] = f[y] => x = y
    PROVE  IsFiniteSet(T) /\ Cardinality(T) = Cardinality(S)
<1>1. ExistsBijection(S, T)
  BY DEF ExistsBijection, Bijection, Injection, Surjection, IsInjective
<1>. QED
  BY <1>1, FS_Bijection

\* The cardinality of a disjoint union is the sum.
LEMMA CardDisjointUnion ==
    ASSUME NEW S, NEW T, IsFiniteSet(S), IsFiniteSet(T), S \cap T = {}
    PROVE  /\ IsFiniteSet(S \cup T)
           /\ Cardinality(S \cup T) = Cardinality(S) + Cardinality(T)
<1>1. Cardinality(S \cap T) = 0
  BY FS_EmptySet
<1>2. Cardinality(S) \in Nat /\ Cardinality(T) \in Nat
  BY FS_CardinalityType
<1>3. IsFiniteSet(S \cup T)
      /\ Cardinality(S \cup T) = Cardinality(S) + Cardinality(T) - Cardinality(S \cap T)
  BY FS_Union
<1>. QED
  BY <1>1, <1>2, <1>3

\* A set of positions of a sequence is finite.
LEMMA PositionsFinite ==
    ASSUME NEW n \in Nat, NEW P \in SUBSET (1 .. n)
    PROVE  IsFiniteSet(P)
<1>1. IsFiniteSet(1 .. n)
  BY FS_Interval
<1>. QED
  BY <1>1, FS_Subset

\* Occurrences of an element in a concatenation add up.
LEMMA OccConcat ==
    ASSUME NEW S, NEW s \in Seq(S), NEW t \in Seq(S), NEW x
    PROVE  Occurrences(s \o t, x) = Occurrences(s, x) + Occurrences(t, x)
<1>. DEFINE n == Len(s)
            m == Len(t)
            A == {k \in 1 .. n : s[k] = x}
            B == {k \in 1 .. m : t[k] = x}
            B2 == {k \in (n + 1) .. (n + m) : t[k - n] = x}
<1>1. n \in Nat /\ m \in Nat /\ DOMAIN s = 1 .. n /\ DOMAIN t = 1 .. m
  BY LenProperties
<1>2. DOMAIN (s \o t) = 1 .. (n + m)
      /\ \A k \in 1 .. (n + m) : (s \o t)[k] = IF k <= n THEN s[k] ELSE t[k - n]
  BY ConcatProperties, LenProperties
<1>3. {k \in DOMAIN (s \o t) : (s \o t)[k] = x} = A \cup B2
  BY <1>1, <1>2
<1>4. A \cap B2 = {}
  BY <1>1
<1>5. IsFiniteSet(A) /\ IsFiniteSet(B)
  BY <1>1, PositionsFinite
<1>6. IsFiniteSet(B2) /\ Cardinality(B2) = Cardinality(B)
  <2>. DEFINE f == [k \in B |-> k + n]
  <2>1. f \in [B -> B2]
    BY <1>1
  <2>2. \A y \in B2 : \E k \in B : f[k] = y
    <3>. SUFFICES ASSUME NEW y \in B2 PROVE \E k \in B : f[k] = y
      OBVIOUS
    <3>1. y - n \in B /\ f[y - n] = y
      BY <1>1
    <3>. QED
      BY <3>1
  <2>3. \A k1, k2 \in B : f[k1] = f[k2] => k1 = k2
    BY <1>1
  <2>. HIDE DEF B, B2
  <2>. QED
    BY <1>5, <2>1, <2>2, <2>3, CardBij
<1>7. Occurrences(s \o t, x) = Cardinality(A \cup B2)
  BY <1>3 DEF Occurrences
<1>8. Occurrences(s, x) = Cardinality(A) /\ Occurrences(t, x) = Cardinality(B)
  BY <1>1 DEF Occurrences
<1>. HIDE DEF A, B, B2
<1>9. Cardinality(A \cup B2) = Cardinality(A) + Cardinality(B2)
  BY <1>4, <1>5, <1>6, CardDisjointUnion
<1>. QED
  BY <1>6, <1>7, <1>8, <1>9

\* append_pred's list of  m  copies of  b  holds  b  m times, nothing else.
LEMMA OccRepeat ==
    ASSUME NEW m \in Nat, NEW b, NEW x
    PROVE  Occurrences(Rep(m, b), x) = IF x = b THEN m ELSE 0
<1>1. CASE x = b
  <2>1. {k \in DOMAIN Rep(m, b) : Rep(m, b)[k] = x} = 1 .. m
    BY <1>1 DEF Rep
  <2>2. Cardinality(1 .. m) = m
    BY FS_Interval
  <2>. QED
    BY <1>1, <2>1, <2>2 DEF Occurrences
<1>2. CASE x # b
  BY <1>2, OccurrencesZero DEF Rep
<1>. QED
  BY <1>1, <1>2

\* Appending an instruction to a block adds one edge to  d  per occurrence
\* of  d  among its destinations.
LEMMA EdgesAppend ==
    ASSUME NEW c \in Seq(InsnRec), NEW i \in InsnRec,
           Len(i.dests) <= MaxTable + 2, NEW d
    PROVE  /\ IsFiniteSet(Edges(c, d))
           /\ Cardinality(Edges(Append(c, i), d))
                = Cardinality(Edges(c, d)) + Occurrences(i.dests, d)
<1>. DEFINE n == Len(c)
            c2 == Append(c, i)
            M == 1 .. MaxTable + 2
            J == {j \in DOMAIN i.dests : i.dests[j] = d}
            N == {p \in {n + 1} \X M : p[2] \in DOMAIN i.dests /\ i.dests[p[2]] = d}
<1>1. /\ n \in Nat /\ DOMAIN c = 1 .. n
      /\ i.dests \in Seq(Block) /\ DOMAIN i.dests = 1 .. Len(i.dests)
      /\ Len(i.dests) \in Nat
  BY LenProperties DEF InsnRec
<1>2. /\ c2 \in Seq(InsnRec) /\ DOMAIN c2 = 1 .. (n + 1)
      /\ \A k \in 1 .. n : c2[k] = c[k]
      /\ c2[n + 1] = i
  BY AppendProperties, LenProperties
<1>3. Edges(c2, d) = Edges(c, d) \cup N
  BY <1>1, <1>2 DEF Edges
<1>4. Edges(c, d) \cap N = {}
  BY <1>1 DEF Edges
<1>5. IsFiniteSet(Edges(c, d))
  <2>1. IsFiniteSet(1 .. n) /\ IsFiniteSet(M)
    <3>1. IsFiniteSet(1 .. n)
      BY <1>1, FS_Interval
    <3>2. IsFiniteSet(M)
      BY FS_Interval
    <3>. QED
      BY <3>1, <3>2
  <2>2. IsFiniteSet((1 .. n) \X M)
    BY <2>1, FS_Product
  <2>3. Edges(c, d) \subseteq (1 .. n) \X M
    BY <1>1 DEF Edges
  <2>. QED
    BY <2>2, <2>3, FS_Subset
<1>6. IsFiniteSet(J) /\ Cardinality(J) = Occurrences(i.dests, d)
  BY <1>1, PositionsFinite DEF Occurrences
<1>7. IsFiniteSet(N) /\ Cardinality(N) = Cardinality(J)
  <2>. DEFINE f == [j \in J |-> <<n + 1, j>>]
  <2>1. f \in [J -> N]
    <3>1. \A j \in J : <<n + 1, j>> \in N
      BY <1>1
    <3>. QED
      BY <3>1
  <2>2. \A y \in N : \E j \in J : f[j] = y
    BY <1>1
  <2>3. \A j1, j2 \in J : f[j1] = f[j2] => j1 = j2
    OBVIOUS
  <2>. HIDE DEF J, N
  <2>. QED
    BY <1>6, <2>1, <2>2, <2>3, CardBij
<1>. HIDE DEF c2, N, J
<1>8. Cardinality(Edges(c2, d)) = Cardinality(Edges(c, d)) + Cardinality(N)
  BY <1>3, <1>4, <1>5, <1>7, CardDisjointUnion
<1>. QED
  BY <1>5, <1>6, <1>7, <1>8 DEF c2

-----------------------------------------------------------------------------
(* The builder's steps.                                                    *)

\* Appending an instruction to the cursor's block while append_pred adds
\* the block to the list of each of its destinations keeps the counts equal.
LEMMA AppendInsnMatches ==
    ASSUME TypeOK, DestsBounded, PredsMatchEdges, loc \in Block,
           NEW i \in InsnRec, Len(i.dests) <= MaxTable + 2,
           code' = [code EXCEPT ![loc] = Append(code[loc], i)],
           preds' = AppendPreds(i.dests, loc)
    PROVE  DestsBounded' /\ PredsMatchEdges'
<1>1. DestsBounded'
  <2>. SUFFICES ASSUME NEW b \in Block, NEW k \in DOMAIN code'[b]
                PROVE  Len(code'[b][k].dests) <= MaxTable + 2
    BY DEF DestsBounded
  <2>1. code[loc] \in Seq(InsnRec)
    BY DEF TypeOK, InsnRec
  <2>2. CASE b = loc
    <3>1. k \in 1 .. Len(code[loc]) + 1
      BY <2>1, <2>2, AppendProperties, LenProperties
    <3>2. CASE k = Len(code[loc]) + 1
      BY <2>1, <2>2, <3>2, AppendProperties
    <3>3. CASE k \in 1 .. Len(code[loc])
      BY <2>1, <2>2, <3>3, AppendProperties, LenProperties DEF DestsBounded
    <3>. QED
      BY <3>1, <3>2, <3>3
  <2>3. CASE b # loc
    BY <2>3 DEF DestsBounded
  <2>. QED
    BY <2>2, <2>3
<1>2. PredsMatchEdges'
  <2>. SUFFICES ASSUME NEW b \in Block, NEW d \in Block
                PROVE  Occurrences(preds'[d], b) = Cardinality(Edges(code'[b], d))
    BY DEF PredsMatchEdges, EdgeCount, Edges
  <2>. DEFINE o == Occurrences(i.dests, d)
              R == Rep(o, loc)
  <2>1. i.dests \in Seq(Block) /\ o \in Nat /\ R \in Seq(Block)
    BY OccurrencesNat, RepeatSeq DEF InsnRec, Rep
  <2>2. preds'[d] = preds[d] \o R /\ preds[d] \in Seq(Block)
    BY DEF AppendPreds, TypeOK, Rep
  <2>3. Occurrences(preds'[d], b) = Occurrences(preds[d], b) + Occurrences(R, b)
    BY <2>1, <2>2, OccConcat
  <2>4. Occurrences(R, b) = IF b = loc THEN o ELSE 0
    <3>. HIDE DEF o
    <3>. QED
      BY <2>1, OccRepeat
  <2>5. Occurrences(preds[d], b) = Cardinality(Edges(code[b], d))
    BY DEF PredsMatchEdges, EdgeCount, Edges
  <2>6. code[b] \in Seq(InsnRec)
    BY DEF TypeOK, InsnRec
  <2>7. IsFiniteSet(Edges(code[b], d)) /\ Cardinality(Edges(code[b], d)) \in Nat
    BY <2>6, EdgesAppend, FS_CardinalityType
  <2>8. Occurrences(preds[d], b) \in Nat
    BY <2>2, OccurrencesNat
  <2>9. CASE b = loc
    <3>1. Cardinality(Edges(code'[b], d)) = Cardinality(Edges(code[b], d)) + o
      BY <2>6, <2>9, EdgesAppend DEF TypeOK
    <3>. QED
      BY <2>3, <2>4, <2>5, <2>9, <3>1
  <2>10. CASE b # loc
    <3>1. code'[b] = code[b]
      BY <2>10
    <3>. QED
      BY <2>3, <2>4, <2>5, <2>8, <2>10, <3>1
  <2>. QED
    BY <2>9, <2>10
<1>. QED
  BY <1>1, <1>2

\* A step that changes neither the code nor the predecessor lists.
LEMMA FrozenMatches ==
    ASSUME DestsBounded, PredsMatchEdges, code' = code, preds' = preds
    PROVE  DestsBounded' /\ PredsMatchEdges'
BY DEF DestsBounded, PredsMatchEdges, EdgeCount, Occurrences

\* append_pred over no destination leaves every list as it is.
LEMMA AppendPredsNone ==
    ASSUME TypeOK, NEW b
    PROVE  AppendPreds(<< >>, b) = preds
<1>1. \A d \in Block : AppendPreds(<< >>, b)[d] = preds[d]
  BY AppendPredsOther
<1>. QED
  BY <1>1 DEF AppendPreds, TypeOK

\* insert_insn of an instruction without destinations.
LEMMA InsertInsnMatches ==
    ASSUME TypeOK, DestsBounded, PredsMatchEdges,
           NEW i \in InsnRec, i.dests = << >>, InsertInsn(i)
    PROVE  DestsBounded' /\ PredsMatchEdges'
<1>1. CASE loc = NoBlock \/ ~InsertAllowed(loc, i)
  BY <1>1, FrozenMatches DEF InsertInsn, Panic
<1>2. CASE loc # NoBlock /\ InsertAllowed(loc, i)
  <2>1. loc \in Block
    BY <1>2 DEF TypeOK
  <2>2. preds' = AppendPreds(i.dests, loc)
    BY <1>2, AppendPredsNone DEF InsertInsn
  <2>3. Len(i.dests) <= MaxTable + 2
    OBVIOUS
  <2>. QED
    BY <1>2, <2>1, <2>2, <2>3, AppendInsnMatches DEF InsertInsn
<1>. QED
  BY <1>1, <1>2

\* A terminator's tail: append_pred for its destinations, then insert_insn.
LEMMA EmitTerminatorMatches ==
    ASSUME TypeOK, DestsBounded, PredsMatchEdges, loc \in Block,
           NEW i \in InsnRec, Len(i.dests) <= MaxTable + 2, EmitTerminator(i)
    PROVE  DestsBounded' /\ PredsMatchEdges'
<1>1. CASE ~PredsAppendable(i.dests)
  BY <1>1, FrozenMatches DEF EmitTerminator, Panic
<1>2. CASE PredsAppendable(i.dests)
  BY <1>2, AppendInsnMatches DEF EmitTerminator
<1>. QED
  BY <1>1, <1>2

\* br_table's destinations are blocks, at most MaxTable and the default.
LEMMA TableDestsBounded ==
    ASSUME TypeOK, NEW table \in SeqUpTo(Appended, MaxTable),
           NEW dflt \in Appended \cup {NoBlock}
    PROVE  /\ Insn("BrTable", TableDests(table, dflt)) \in InsnRec
           /\ Len(TableDests(table, dflt)) <= MaxTable + 2
<1>1. PICK m \in 0 .. MaxTable : table \in [1 .. m -> Appended]
  BY DEF SeqUpTo
<1>2. table \in Seq(Block) /\ Len(table) = m
  <2>1. table \in Seq(Appended)
    BY <1>1, IsASeq
  <2>2. Seq(Appended) \subseteq Seq(Block)
    BY AppendedBlocks, SeqMonotonic
  <2>. QED
    BY <1>1, <2>1, <2>2, LenProperties
<1>3. CASE dflt = NoBlock
  BY <1>2, <1>3 DEF TableDests, Insn, InsnRec, Ops
<1>4. CASE dflt # NoBlock
  <2>1. <<dflt>> \in Seq(Block) /\ Len(<<dflt>>) = 1
    BY <1>4, AppendedBlocks
  <2>2. table \o <<dflt>> \in Seq(Block) /\ Len(table \o <<dflt>>) = m + 1
    BY <1>2, <2>1, ConcatProperties
  <2>. QED
    BY <1>4, <2>2 DEF TableDests, Insn, InsnRec, Ops
<1>. QED
  BY <1>3, <1>4

\* Every step of the builder keeps predecessor recording exact.
LEMMA EdgeStep == EInv /\ [Next]_vars => EInv'
<1>. SUFFICES ASSUME TypeOK, DestsBounded, PredsMatchEdges, [Next]_vars
              PROVE  DestsBounded' /\ PredsMatchEdges'
  BY TypeStep DEF EInv
<1>0. Appended \subseteq Block
  BY AppendedBlocks
<1>1. CASE AppendBlock
  BY <1>1, FrozenMatches DEF AppendBlock
<1>2. CASE \E b \in Appended : SwitchToBlock(b)
  BY <1>2, FrozenMatches DEF SwitchToBlock
<1>3. CASE EmitInsn
  BY <1>3, InsertInsnMatches, EmptySeq DEF EmitInsn, Insn, InsnRec, Ops
<1>4. CASE \E n \in 0 .. 1 : Phi(n)
  BY <1>4, InsertInsnMatches, FrozenMatches, EmptySeq DEF Phi, Panic, Insn, InsnRec, Ops
<1>5. CASE Ret
  BY <1>5, InsertInsnMatches, EmptySeq DEF Ret, Insn, InsnRec, Ops
<1>6. CASE \E d \in Appended : Jump(d)
  <2>. PICK d \in Appended : Jump(d)
    BY <1>6
  <2>1. Insn("Jump", <<d>>) \in InsnRec /\ Len(Insn("Jump", <<d>>).dests) <= MaxTable + 2
    BY <1>0 DEF Insn, InsnRec, Ops
  <2>. QED
    BY <2>1, FrozenMatches, EmitTerminatorMatches DEF Jump, Panic, TypeOK
<1>7. CASE \E t, e \in Appended : Br(t, e)
  <2>. PICK t, e \in Appended : Br(t, e)
    BY <1>7
  <2>1. Insn("Br", <<t, e>>) \in InsnRec /\ Len(Insn("Br", <<t, e>>).dests) <= MaxTable + 2
    BY <1>0 DEF Insn, InsnRec, Ops
  <2>. QED
    BY <2>1, FrozenMatches, EmitTerminatorMatches DEF Br, Panic, TypeOK
<1>8. CASE \E table \in SeqUpTo(Appended, MaxTable), dflt \in Appended \cup {NoBlock} :
              BrTable(table, dflt)
  <2>. PICK table \in SeqUpTo(Appended, MaxTable), dflt \in Appended \cup {NoBlock} :
              BrTable(table, dflt)
    BY <1>8
  <2>1. Insn("BrTable", TableDests(table, dflt)) \in InsnRec
        /\ Len(Insn("BrTable", TableDests(table, dflt)).dests) <= MaxTable + 2
    BY TableDestsBounded DEF Insn
  <2>. QED
    BY <2>1, FrozenMatches, EmitTerminatorMatches DEF BrTable, Panic, TypeOK
<1>9. CASE SealBlock
  BY <1>9, FrozenMatches DEF SealBlock, Panic
<1>10. CASE SealAll
  BY <1>10, FrozenMatches DEF SealAll
<1>11. CASE Build
  BY <1>11, FrozenMatches DEF Build, Panic
<1>12. CASE UNCHANGED vars
  BY <1>12, FrozenMatches DEF vars
<1>. QED
  BY <1>1, <1>2, <1>3, <1>4, <1>5, <1>6, <1>7, <1>8, <1>9, <1>10, <1>11, <1>12
     DEF Next

\* Predecessor recording is exact: in debug and in release builds, for any
\* blocks and bounds, the predecessor list of every block  d  holds each
\* block  b  exactly as often as the jump, br and br_table instructions
\* emitted into  b  name  d  (a br with both arms to  d  counts twice).
THEOREM PredsExact == Spec => []PredsMatchEdges
<1>1. Init => EInv
  <2>. SUFFICES ASSUME Init PROVE EInv
    OBVIOUS
  <2>1. TypeOK
    BY EmptySeq DEF Init, TypeOK
  <2>2. \A b, d \in Block : Edges(code[b], d) = {} /\ Occurrences(preds[d], b) = 0
    BY OccurrencesZero DEF Init, Edges
  <2>3. \A b, d \in Block : EdgeCount(b, d) = 0
    <3>. SUFFICES ASSUME NEW b \in Block, NEW d \in Block PROVE EdgeCount(b, d) = 0
      OBVIOUS
    <3>1. EdgeCount(b, d) = Cardinality(Edges(code[b], d))
      BY DEF EdgeCount, Edges
    <3>. QED
      BY <2>2, <3>1, FS_EmptySet
  <2>4. DestsBounded
    BY DEF Init, DestsBounded
  <2>. QED
    BY <2>1, <2>2, <2>3, <2>4 DEF EInv, PredsMatchEdges
<1>2. EInv => PredsMatchEdges
  BY DEF EInv
<1>. QED
  BY <1>1, <1>2, EdgeStep, PTL DEF Spec
=============================================================================
