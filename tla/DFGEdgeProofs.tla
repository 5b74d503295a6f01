---------------------------- MODULE DFGEdgeProofs ----------------------------
(***************************************************************************)
(* Proofs about every DFG mutator of crates/ir/src/dfg.rs, the CFG edits  *)
(* remove_phi_arg and remove_branch_dest included: they keep the type      *)
(* invariant, and no user set ever names an instruction that does not     *)
(* reference the value (NoPhantomUser), for every pool of values and       *)
(* blocks and every arena size.  The other half of user-set consistency    *)
(* does not hold for the CFG edits (see the runs dfg_remove_phi_arg and    *)
(* dfg_remove_branch_dest).                                                *)
(***************************************************************************)
EXTENDS DFGProofs, FiniteSetTheorems, WellFoundedInduction

USE ConstAssumption

-----------------------------------------------------------------------------
(* Ranks of positions: the j-th kept entry of a BrTable.                   *)

\* A set of positions is finite.
LEMMA PosFinite ==
    ASSUME NEW n \in Nat, NEW K \in SUBSET (1 .. n)
    PROVE  IsFiniteSet(K) /\ Cardinality(K) \in Nat
<1>1. IsFiniteSet(1 .. n)
  BY FS_Interval
<1>. QED
  BY <1>1, FS_Subset, FS_CardinalityType

\* The rank of a position is between 1 and the number of positions.
LEMMA RankRange ==
    ASSUME NEW n \in Nat, NEW K \in SUBSET (1 .. n), NEW k \in K
    PROVE  PosRank(K, k) \in 1 .. Cardinality(K)
<1>. DEFINE L == {m \in K : m <= k}
<1>1. IsFiniteSet(K) /\ Cardinality(K) \in Nat
  BY PosFinite
<1>2. IsFiniteSet(L) /\ Cardinality(L) <= Cardinality(K) /\ Cardinality(L) \in Nat
  BY <1>1, FS_Subset, FS_CardinalityType
<1>3. Cardinality(L) # 0
  <2>1. L # {}
    OBVIOUS
  <2>. QED
    BY <1>2, <2>1, FS_EmptySet
<1>. QED
  BY <1>1, <1>2, <1>3 DEF PosRank

\* Ranks grow with the position.
LEMMA RankMono ==
    ASSUME NEW n \in Nat, NEW K \in SUBSET (1 .. n),
           NEW k1 \in K, NEW k2 \in K, k1 < k2
    PROVE  PosRank(K, k1) < PosRank(K, k2)
<1>. DEFINE L1 == {m \in K : m <= k1}
            L2 == {m \in K : m <= k2}
<1>1. IsFiniteSet(K)
  BY PosFinite
<1>2. IsFiniteSet(L2) /\ Cardinality(L2) \in Nat
  BY <1>1, FS_Subset, FS_CardinalityType
<1>3. IsFiniteSet(L2 \ {k2}) /\ Cardinality(L2 \ {k2}) = Cardinality(L2) - 1
  <2>1. k2 \in L2
    OBVIOUS
  <2>. HIDE DEF L2
  <2>. QED
    BY <1>2, <2>1, FS_RemoveElement
<1>4. L1 \subseteq L2 \ {k2}
  <2>. SUFFICES ASSUME NEW m \in L1 PROVE m \in L2 /\ m # k2
    OBVIOUS
  <2>1. m \in 1 .. n /\ k1 \in 1 .. n /\ k2 \in 1 .. n
    OBVIOUS
  <2>. QED
    BY <2>1
<1>5. Cardinality(L1) <= Cardinality(L2 \ {k2}) /\ Cardinality(L1) \in Nat
  BY <1>3, <1>4, FS_Subset, FS_CardinalityType
<1>. QED
  BY <1>2, <1>3, <1>5 DEF PosRank

\* Distinct positions have distinct ranks.
LEMMA RankInjective ==
    ASSUME NEW n \in Nat, NEW K \in SUBSET (1 .. n),
           NEW k1 \in K, NEW k2 \in K, PosRank(K, k1) = PosRank(K, k2)
    PROVE  k1 = k2
<1>1. k1 < k2 => PosRank(K, k1) < PosRank(K, k2)
  BY RankMono
<1>2. k2 < k1 => PosRank(K, k2) < PosRank(K, k1)
  BY RankMono
<1>3. PosRank(K, k1) \in Nat /\ PosRank(K, k2) \in Nat
  BY RankRange
<1>. QED
  BY <1>1, <1>2, <1>3

\* Every rank 1 .. |K| is the rank of some position.
LEMMA RankOnto ==
    ASSUME NEW n \in Nat, NEW K \in SUBSET (1 .. n), NEW j \in 1 .. Cardinality(K)
    PROVE  \E k \in K : PosRank(K, k) = j
<1>. DEFINE c == Cardinality(K)
            f == [k \in K |-> PosRank(K, k)]
<1>1. IsFiniteSet(K) /\ c \in Nat
  BY PosFinite
<1>2. IsFiniteSet(1 .. c) /\ Cardinality(1 .. c) = c
  BY <1>1, FS_Interval
<1>3. f \in Injection(K, 1 .. c)
  BY RankRange, RankInjective DEF Injection, IsInjective
<1>4. f \in Surjection(K, 1 .. c)
  <2>1. Cardinality(K) = c
    OBVIOUS
  <2>. HIDE DEF c, f
  <2>. QED
    BY <1>1, <1>2, <1>3, <2>1, FS_Injection
<1>. QED
  BY <1>4 DEF Surjection

\* The position that KeptEntries picks for the rank of  k  is  k.
LEMMA RankChoose ==
    ASSUME NEW n \in Nat, NEW K \in SUBSET (1 .. n), NEW k \in K
    PROVE  (CHOOSE k2 \in K : PosRank(K, k2) = PosRank(K, k)) = k
<1>1. \E k2 \in K : PosRank(K, k2) = PosRank(K, k)
  OBVIOUS
<1>2. \A k2 \in K : PosRank(K, k2) = PosRank(K, k) => k2 = k
  BY RankInjective
<1>. QED
  BY <1>1, <1>2

\* The position KeptEntries picks for a rank is a kept position.
LEMMA RankPick ==
    ASSUME NEW n \in Nat, NEW K \in SUBSET (1 .. n), NEW j \in 1 .. Cardinality(K)
    PROVE  (CHOOSE k \in K : PosRank(K, k) = j) \in K
BY RankOnto

-----------------------------------------------------------------------------
(* Dropping one position of a sequence (InsnData::remove_phi_arg).         *)

LEMMA DropAtProps ==
    ASSUME NEW S, NEW s \in Seq(S), NEW k \in 1 .. Len(s)
    PROVE  /\ DropAt(s, k) \in Seq(S)
           /\ Len(DropAt(s, k)) = Len(s) - 1
           /\ \A q \in 1 .. Len(s) - 1 :
                 DropAt(s, k)[q] = IF q < k THEN s[q] ELSE s[q + 1]
<1>. DEFINE A == SubSeq(s, 1, k - 1)
            B == SubSeq(s, k + 1, Len(s))
<1>1. Len(s) \in Nat /\ \A i \in 1 .. Len(s) : s[i] \in S
  BY LenProperties
<1>2. A \in Seq(S) /\ Len(A) = k - 1 /\ \A i \in 1 .. k - 1 : A[i] = s[i]
  BY <1>1, SubSeqProperties
<1>3. B \in Seq(S) /\ Len(B) = Len(s) - k /\ \A i \in 1 .. Len(s) - k : B[i] = s[k + i]
  BY <1>1, SubSeqProperties
<1>4. /\ A \o B \in Seq(S)
      /\ Len(A \o B) = Len(A) + Len(B)
      /\ \A i \in 1 .. Len(A) + Len(B) : (A \o B)[i] = IF i <= Len(A) THEN A[i] ELSE B[i - Len(A)]
  BY <1>2, <1>3, ConcatProperties
<1>5. DropAt(s, k) = A \o B
  BY DEF DropAt
<1>. HIDE DEF A, B
<1>6. Len(A) + Len(B) = Len(s) - 1
  BY <1>1, <1>2, <1>3
<1>7. ASSUME NEW q \in 1 .. Len(s) - 1
      PROVE  (A \o B)[q] = IF q < k THEN s[q] ELSE s[q + 1]
  <2>1. CASE q < k
    BY <1>2, <1>4, <1>6, <2>1
  <2>2. CASE q >= k
    <3>1. q - Len(A) \in 1 .. Len(s) - k /\ k + (q - Len(A)) = q + 1
      BY <1>1, <1>2, <2>2
    <3>. QED
      BY <1>2, <1>3, <1>4, <1>6, <2>2, <3>1
  <2>3. q < k \/ q >= k
    BY <1>1
  <2>. QED
    BY <2>1, <2>2, <2>3
<1>. QED
  BY <1>4, <1>5, <1>6, <1>7

\* A position other than the dropped one keeps its element.
LEMMA DropAtKeeps ==
    ASSUME NEW S, NEW s \in Seq(S), NEW k \in 1 .. Len(s),
           NEW q \in 1 .. Len(s), q # k
    PROVE  s[q] \in Elems(DropAt(s, k))
<1>1. /\ Len(DropAt(s, k)) = Len(s) - 1
      /\ \A p \in 1 .. Len(s) - 1 :
            DropAt(s, k)[p] = IF p < k THEN s[p] ELSE s[p + 1]
      /\ DropAt(s, k) \in Seq(S)
  BY DropAtProps
<1>2. DOMAIN DropAt(s, k) = 1 .. Len(s) - 1
  BY <1>1
<1>3. CASE q < k
  BY <1>1, <1>2, <1>3 DEF Elems
<1>4. CASE q > k
  <2>1. q - 1 \in 1 .. Len(s) - 1 /\ ~(q - 1 < k) /\ (q - 1) + 1 = q
    BY <1>4
  <2>. QED
    BY <1>1, <1>2, <2>1 DEF Elems
<1>. QED
  BY <1>3, <1>4

-----------------------------------------------------------------------------
(* remove_phi_arg: the first entry flowing from the block.                 *)

\* The position remove_phi_arg drops: the first one whose block is  from.
FirstPos(s, x) == CHOOSE k \in DOMAIN s : /\ s[k] = x
                                          /\ \A j \in 1 .. (k - 1) : s[j] # x

\* An element of a sequence has a first position (least-number principle).
LEMMA FirstPosExists ==
    ASSUME NEW S, NEW s \in Seq(S), NEW x, x \in Elems(s)
    PROVE  /\ FirstPos(s, x) \in DOMAIN s
           /\ s[FirstPos(s, x)] = x
<1>. DEFINE T == {k \in DOMAIN s : s[k] = x}
<1>1. T \subseteq Nat /\ T # {}
  BY DEF Elems
<1>2. PICK m \in T : \A y \in T : ~(<<y, m>> \in OpToRel(<, Nat))
  BY <1>1, NatLessThanWellFounded, WFMin
<1>3. \A j \in 1 .. (m - 1) : s[j] # x
  <2> SUFFICES ASSUME NEW j \in 1 .. (m - 1), s[j] = x PROVE FALSE
    OBVIOUS
  <2>1. j \in T /\ m \in Nat
    BY <1>1
  <2>2. <<j, m>> \in OpToRel(<, Nat)
    BY <2>1 DEF OpToRel
  <2>. QED
    BY <1>2, <2>1, <2>2
<1>4. \E k \in DOMAIN s : s[k] = x /\ \A j \in 1 .. (k - 1) : s[j] # x
  BY <1>3
<1>. QED
  BY <1>4 DEF FirstPos

\* What remove_phi_arg does, written with FirstPos.
LEMMA RemovePhiArgFacts ==
    ASSUME TypeOK, NEW i \in InsnId, NEW from \in Block, RemovePhiArg(i, from)
    PROVE  LET d == insns[i]
               pos == FirstPos(d.blocks, from)
           IN  /\ i \in Allocated /\ d \in InsnType /\ d.kind = "Phi"
               /\ pos \in 1 .. Len(d.args)
               /\ insns' = [insns EXCEPT ![i] =
                              [d EXCEPT !.args = DropAt(d.args, pos),
                                        !.blocks = DropAt(d.blocks, pos)]]
               /\ users' = [users EXCEPT ![d.args[pos]] = @ \ {i}]
               /\ nextInsn' = nextInsn
<1>. DEFINE d == insns[i]
            pos == FirstPos(d.blocks, from)
<1>1. i \in Allocated /\ d \in InsnType /\ d.kind = "Phi" /\ from \in Elems(d.blocks)
  BY DEF RemovePhiArg, TypeOK
<1>2. d.blocks \in Seq(Block) /\ d.args \in Seq(Value) /\ Len(d.args) = Len(d.blocks)
  BY <1>1 DEF InsnType, WellFormed
<1>3. pos \in DOMAIN d.blocks
  BY <1>1, <1>2, FirstPosExists
<1>4. pos \in 1 .. Len(d.args)
  BY <1>2, <1>3
<1>5. insns' = [insns EXCEPT ![i] =
                  [d EXCEPT !.args = DropAt(d.args, pos),
                            !.blocks = DropAt(d.blocks, pos)]]
  <2>1. insns' = [insns EXCEPT ![i].args = DropAt(@, pos), ![i].blocks = DropAt(@, pos)]
    BY DEF RemovePhiArg, FirstPos
  <2>2. insns \in [InsnId -> InsnType]
    BY DEF TypeOK
  <2>. QED
    BY <2>1, <2>2, <1>1
<1>6. users' = [users EXCEPT ![d.args[pos]] = @ \ {i}] /\ nextInsn' = nextInsn
  BY DEF RemovePhiArg, FirstPos
<1>. QED
  BY <1>1, <1>4, <1>5, <1>6

\* remove_phi_arg keeps the type invariant: both lists lose one entry.
LEMMA RemovePhiArgTypeOK ==
    ASSUME TypeOK, NEW i \in InsnId, NEW from \in Block, RemovePhiArg(i, from)
    PROVE  TypeOK'
<1>. DEFINE d == insns[i]
            pos == FirstPos(d.blocks, from)
            e == [d EXCEPT !.args = DropAt(d.args, pos),
                           !.blocks = DropAt(d.blocks, pos)]
<1>1. /\ i \in Allocated /\ d \in InsnType /\ d.kind = "Phi"
      /\ pos \in 1 .. Len(d.args)
      /\ insns' = [insns EXCEPT ![i] = e]
      /\ users' = [users EXCEPT ![d.args[pos]] = @ \ {i}]
      /\ nextInsn' = nextInsn
  BY RemovePhiArgFacts
<1>2. d.blocks \in Seq(Block) /\ d.args \in Seq(Value) /\ Len(d.args) = Len(d.blocks)
      /\ d.dflt \in Block \cup {NoBlock}
  BY <1>1 DEF InsnType, WellFormed
<1>3. /\ DropAt(d.args, pos) \in Seq(Value)
      /\ Len(DropAt(d.args, pos)) = Len(d.args) - 1
  BY <1>1, <1>2, DropAtProps
<1>4. /\ DropAt(d.blocks, pos) \in Seq(Block)
      /\ Len(DropAt(d.blocks, pos)) = Len(d.blocks) - 1
  BY <1>1, <1>2, DropAtProps
<1>5. e \in InsnType
  BY <1>1, <1>2, <1>3, <1>4 DEF InsnType, WellFormed, Kinds
<1>6. users' \in [Value -> SUBSET InsnId]
  BY <1>1, <1>2 DEF TypeOK
<1>. QED
  BY <1>1, <1>5, <1>6, StoreTypeOK

-----------------------------------------------------------------------------
(* remove_branch_dest on a BrTable: the kept table.                        *)

\* The elements of a one-element prefix followed by a sequence.
LEMMA ElemsCons ==
    ASSUME NEW S, NEW x \in S, NEW s \in Seq(S)
    PROVE  /\ <<x>> \o s \in Seq(S)
           /\ Len(<<x>> \o s) = Len(s) + 1
           /\ Elems(<<x>> \o s) = {x} \cup Elems(s)
<1>1. /\ <<x>> \o s \in Seq(S)
      /\ Len(<<x>> \o s) = Len(s) + 1
      /\ (<<x>> \o s)[1] = x
      /\ \A q \in 2 .. Len(s) + 1 : (<<x>> \o s)[q] = s[q - 1]
  BY ConcatProperties
<1>2. Len(s) \in Nat /\ DOMAIN s = 1 .. Len(s)
  BY LenProperties
<1>3. Elems(<<x>> \o s) \subseteq {x} \cup Elems(s)
  <2> SUFFICES ASSUME NEW q \in 1 .. Len(s) + 1
               PROVE  (<<x>> \o s)[q] \in {x} \cup Elems(s)
    BY <1>1, <1>2 DEF Elems
  <2>1. q = 1 \/ q \in 2 .. Len(s) + 1
    BY <1>2
  <2>2. q \in 2 .. Len(s) + 1 => q - 1 \in DOMAIN s
    BY <1>2
  <2>. QED
    BY <1>1, <2>1, <2>2 DEF Elems
<1>4. {x} \cup Elems(s) \subseteq Elems(<<x>> \o s)
  <2>1. x \in Elems(<<x>> \o s)
    BY <1>1, <1>2 DEF Elems
  <2>2. ASSUME NEW q \in DOMAIN s PROVE s[q] \in Elems(<<x>> \o s)
    <3>1. q + 1 \in 2 .. Len(s) + 1 /\ (q + 1) - 1 = q
      BY <1>2
    <3>. QED
      BY <1>1, <1>2, <3>1 DEF Elems
  <2>. QED
    BY <2>1, <2>2 DEF Elems
<1>. QED
  BY <1>1, <1>3, <1>4

\* TableKeep: a well-shaped BrTable with the same default whose operands
\* are the condition and the case values of the kept positions.
LEMMA TableKeepProps ==
    ASSUME NEW d \in InsnType, d.kind = "BrTable", NEW dest
    PROVE  /\ TableKeep(d, dest) \in InsnType
           /\ TableKeep(d, dest).kind = "BrTable"
           /\ TableKeep(d, dest).dflt = d.dflt
           /\ Len(TableKeep(d, dest).blocks) = Cardinality(KeptPos(d, dest))
           /\ ArgSet(TableKeep(d, dest))
                 = {d.args[1]} \cup {d.args[k + 1] : k \in KeptPos(d, dest)}
<1>. DEFINE n == Len(d.blocks)
            K == KeptPos(d, dest)
            c == Cardinality(K)
            Pick(j) == CHOOSE k \in K : PosRank(K, k) = j
            vals == [j \in 1 .. c |-> d.args[Pick(j) + 1]]
            bl == [j \in 1 .. c |-> d.blocks[Pick(j)]]
<1>1. /\ d.args \in Seq(Value) /\ d.blocks \in Seq(Block)
      /\ d.dflt \in Block \cup {NoBlock}
      /\ Len(d.args) = n + 1 /\ n \in Nat
  BY DEF InsnType, WellFormed
<1>2. K \in SUBSET (1 .. n) /\ c \in Nat
  <2>1. DOMAIN d.blocks = 1 .. n
    BY <1>1, LenProperties
  <2>2. K \in SUBSET (1 .. n)
    BY <2>1 DEF KeptPos
  <2>. QED
    BY <1>1, <2>2, PosFinite
<1>3. \A j \in 1 .. c : Pick(j) \in K /\ Pick(j) \in 1 .. n
  BY <1>1, <1>2, RankPick
<1>3a. ASSUME NEW k \in K PROVE PosRank(K, k) \in 1 .. c /\ Pick(PosRank(K, k)) = k
  <2>1. PosRank(K, k) \in 1 .. c
    BY <1>1, <1>2, RankRange
  <2>2. Pick(PosRank(K, k)) = k
    BY <1>1, <1>2, RankChoose
  <2>. QED
    BY <2>1, <2>2
<1>3b. K = KeptPos(d, dest) /\ c = Cardinality(K)
  OBVIOUS
<1>4a. KeptEntries(d, dest) = [j \in 1 .. c |-> <<d.blocks[Pick(j)], d.args[Pick(j) + 1]>>]
  BY DEF KeptEntries
<1>. HIDE DEF Pick, K, c
<1>4b. /\ [j \in DOMAIN KeptEntries(d, dest) |-> KeptEntries(d, dest)[j][2]] = vals
       /\ [j \in DOMAIN KeptEntries(d, dest) |-> KeptEntries(d, dest)[j][1]] = bl
  BY <1>4a
<1>4. TableKeep(d, dest) = [d EXCEPT !.args = <<d.args[1]>> \o vals, !.blocks = bl]
  <2>1. TableKeep(d, dest) =
          [d EXCEPT !.args = <<d.args[1]>> \o
                       [j \in DOMAIN KeptEntries(d, dest) |-> KeptEntries(d, dest)[j][2]],
                    !.blocks = [j \in DOMAIN KeptEntries(d, dest) |-> KeptEntries(d, dest)[j][1]]]
    BY DEF TableKeep
  <2>. HIDE DEF KeptEntries
  <2>. QED
    BY <2>1, <1>4b
<1>5. vals \in Seq(Value) /\ Len(vals) = c
  <2>1. \A j \in 1 .. c : d.args[Pick(j) + 1] \in Value
    BY <1>1, <1>3
  <2>. QED
    BY <1>2, <2>1
<1>6. bl \in Seq(Block) /\ Len(bl) = c
  <2>1. \A j \in 1 .. c : d.blocks[Pick(j)] \in Block
    BY <1>1, <1>3
  <2>. QED
    BY <1>2, <2>1
<1>7. d.args[1] \in Value
  BY <1>1
<1>9. Elems(vals) = {d.args[k + 1] : k \in K}
  <2>1. ASSUME NEW k \in K PROVE d.args[k + 1] \in Elems(vals)
    BY <1>3a DEF Elems
  <2>2. ASSUME NEW j \in 1 .. c PROVE vals[j] \in {d.args[k + 1] : k \in K}
    BY <1>3
  <2>. QED
    BY <2>1, <2>2 DEF Elems
<1>. HIDE DEF vals, bl
<1>8. /\ <<d.args[1]>> \o vals \in Seq(Value)
      /\ Len(<<d.args[1]>> \o vals) = c + 1
      /\ Elems(<<d.args[1]>> \o vals) = {d.args[1]} \cup Elems(vals)
  BY <1>5, <1>7, ElemsCons
<1>10. TableKeep(d, dest) \in InsnType
  BY <1>1, <1>4, <1>6, <1>8 DEF InsnType, WellFormed
<1>11. d \in [kind : Kinds, args : Seq(Value), blocks : Seq(Block),
               dflt : Block \cup {NoBlock}]
  BY DEF InsnType
<1>12. /\ TableKeep(d, dest).kind = "BrTable"
       /\ TableKeep(d, dest).dflt = d.dflt
       /\ TableKeep(d, dest).blocks = bl
       /\ TableKeep(d, dest).args = <<d.args[1]>> \o vals
  BY <1>4, <1>11
<1>. QED
  BY <1>3b, <1>6, <1>8, <1>9, <1>10, <1>12 DEF ArgSet

\* The LET definitions of RemoveBranchDestBrTable, named for the proofs.
Mid(d, dest) == IF d.dflt = dest THEN [d EXCEPT !.dflt = NoBlock] ELSE TableKeep(d, dest)
DropVals(d, dest) == {d.args[k + 1] : k \in {j \in DOMAIN d.blocks : d.blocks[j] = dest}}
MidUsers(d, dest, i) == IF d.dflt = dest THEN users ELSE RemoveUsers(users, DropVals(d, dest), i)
DestsNum(m) == Len(m.blocks) + (IF m.dflt = NoBlock THEN 0 ELSE 1)
Only(m) == IF m.dflt = NoBlock THEN m.blocks[1] ELSE m.dflt

\* remove_branch_dest on a BrTable, written with the names above.
LEMMA BrTableFacts ==
    ASSUME NEW i, NEW dest, RemoveBranchDestBrTable(i, dest)
    PROVE  LET d == insns[i]
               mid == Mid(d, dest)
           IN  /\ d.kind = "BrTable"
               /\ DestsNum(mid) = 1 =>
                     /\ insns' = [insns EXCEPT ![i] = JumpData(Only(mid))]
                     /\ users' = RemoveUsers(MidUsers(d, dest, i), ArgSet(mid), i)
               /\ DestsNum(mid) # 1 =>
                     /\ insns' = [insns EXCEPT ![i] = mid]
                     /\ users' = MidUsers(d, dest, i)
BY DEF RemoveBranchDestBrTable, Mid, MidUsers, DropVals, DestsNum, Only

\* The BrTable left after the matching default or entries are dropped.
LEMMA MidProps ==
    ASSUME NEW d \in InsnType, d.kind = "BrTable", NEW dest
    PROVE  /\ Mid(d, dest) \in InsnType
           /\ Mid(d, dest).kind = "BrTable"
           /\ d.dflt = dest => ArgSet(Mid(d, dest)) = ArgSet(d)
                               /\ Mid(d, dest).dflt = NoBlock
           /\ d.dflt # dest =>
                 /\ ArgSet(Mid(d, dest))
                       = {d.args[1]} \cup {d.args[k + 1] : k \in KeptPos(d, dest)}
                 /\ Mid(d, dest).dflt = d.dflt
<1>1. d \in [kind : Kinds, args : Seq(Value), blocks : Seq(Block),
             dflt : Block \cup {NoBlock}] /\ WellFormed(d)
  BY DEF InsnType
<1>2. CASE d.dflt = dest
  <2>. DEFINE m == [d EXCEPT !.dflt = NoBlock]
  <2>1. m.kind = d.kind /\ m.args = d.args /\ m.blocks = d.blocks /\ m.dflt = NoBlock
    BY <1>1
  <2>2. m \in InsnType
    BY <1>1, <2>1 DEF InsnType, WellFormed
  <2>. QED
    BY <1>2, <2>1, <2>2 DEF Mid, ArgSet
<1>3. CASE d.dflt # dest
  BY <1>3, TableKeepProps DEF Mid
<1>. QED
  BY <1>2, <1>3

\* remove_branch_dest keeps the type invariant.
LEMMA RemoveBranchDestTypeOK ==
    ASSUME TypeOK, NEW i \in InsnId, NEW dest \in Block, RemoveBranchDest(i, dest)
    PROVE  TypeOK'
<1>. DEFINE d == insns[i]
<1>1. i \in Allocated /\ d \in InsnType /\ nextInsn' = nextInsn
      /\ users \in [Value -> SUBSET InsnId]
  BY DEF RemoveBranchDest, TypeOK
<1>2. d \in [kind : Kinds, args : Seq(Value), blocks : Seq(Block),
             dflt : Block \cup {NoBlock}] /\ WellFormed(d)
  BY <1>1 DEF InsnType
<1>3. \A b \in Block : JumpData(b) \in InsnType
  BY DEF JumpData, InsnRec, InsnType, WellFormed, Kinds
<1>4. CASE RemoveBranchDestBr(i, dest)
  <2>1. d.kind = "Branch"
    BY <1>4 DEF RemoveBranchDestBr
  <2>2. d.blocks[1] \in Block /\ d.blocks[2] \in Block /\ d.args[1] \in Value
    BY <1>2, <2>1 DEF WellFormed
  <2>3. \E b \in Block : insns' = [insns EXCEPT ![i] = JumpData(b)]
    BY <1>4, <2>2 DEF RemoveBranchDestBr
  <2>4. users' \in [Value -> SUBSET InsnId]
    BY <1>1, <1>4, <2>2 DEF RemoveBranchDestBr
  <2>. QED
    BY <1>1, <1>3, <2>3, <2>4, StoreTypeOK
<1>5. CASE RemoveBranchDestBrTable(i, dest)
  <2>. DEFINE mid == Mid(d, dest)
  <2>1. d.kind = "BrTable"
    BY <1>5, BrTableFacts
  <2>2. mid \in InsnType
    BY <1>1, <2>1, MidProps
  <2>3. MidUsers(d, dest, i) \in [Value -> SUBSET InsnId]
    BY <1>1, RemoveUsersType DEF MidUsers
  <2>4. CASE DestsNum(mid) = 1
    <3>1. mid \in [kind : Kinds, args : Seq(Value), blocks : Seq(Block),
                   dflt : Block \cup {NoBlock}]
      BY <2>2 DEF InsnType
    <3>2. mid.dflt = NoBlock => Len(mid.blocks) = 1
      BY <2>4, <3>1 DEF DestsNum
    <3>3. Only(mid) \in Block
      BY <3>1, <3>2 DEF Only
    <3>4. insns' = [insns EXCEPT ![i] = JumpData(Only(mid))]
          /\ users' = RemoveUsers(MidUsers(d, dest, i), ArgSet(mid), i)
      BY <1>5, <2>4, BrTableFacts
    <3>. QED
      BY <1>1, <1>3, <2>3, <3>3, <3>4, RemoveUsersType, StoreTypeOK
  <2>5. CASE DestsNum(mid) # 1
    <3>1. insns' = [insns EXCEPT ![i] = mid] /\ users' = MidUsers(d, dest, i)
      BY <1>5, <2>5, BrTableFacts
    <3>. QED
      BY <1>1, <2>2, <2>3, <3>1, StoreTypeOK
  <2>. QED
    BY <2>4, <2>5
<1>. QED
  BY <1>4, <1>5 DEF RemoveBranchDest

\* Every DFG mutator keeps the type invariant.
LEMMA NextTypeOK == TypeOK /\ [Next]_vars => TypeOK'
<1> SUFFICES ASSUME TypeOK, [Next]_vars PROVE TypeOK'
  OBVIOUS
<1>1. CASE [RewriteNext]_vars
  BY <1>1, RewriteTypeOK
<1>2. CASE \E i \in InsnId, b \in Block : RemovePhiArg(i, b)
  BY <1>2, RemovePhiArgTypeOK
<1>3. CASE \E i \in InsnId, b \in Block : RemoveBranchDest(i, b)
  BY <1>3, RemoveBranchDestTypeOK
<1>. QED
  BY <1>1, <1>2, <1>3 DEF Next, EdgeNext

-----------------------------------------------------------------------------
(* No phantom users.                                                       *)

\* The condition of NoPhantomUser for one value and one instruction.
NP(v, j) == j \in users[v] => j \in Allocated /\ v \in ArgSet(insns[j])

LEMMA MakeInsnNP ==
    ASSUME TypeOK, NoPhantomUser, NEW d \in InsnInputs, MakeInsn(d),
           NEW v \in Value, NEW j \in InsnId
    PROVE  NP(v, j)'
<1>1. Allocated' = Allocated \cup {nextInsn} /\ nextInsn \notin Allocated
  BY DEF MakeInsn, Allocated, TypeOK
<1>2. CASE j = nextInsn
  <2>1. j \notin users[v]
    BY <1>1, <1>2 DEF NoPhantomUser, TypeOK
  <2>2. insns'[j] = d
    BY <1>2 DEF MakeInsn, TypeOK, InsnId
  <2>. QED
    BY <1>1, <1>2, <2>1, <2>2 DEF MakeInsn, AttachUser, NP
<1>3. CASE j # nextInsn
  <2>1. insns'[j] = insns[j] /\ (j \in users'[v] <=> j \in users[v])
    BY <1>3 DEF MakeInsn, AttachUser, TypeOK
  <2>. QED
    BY <1>1, <2>1 DEF NoPhantomUser, NP
<1>. QED
  BY <1>2, <1>3

LEMMA ReplaceInsnNP ==
    ASSUME TypeOK, NoPhantomUser, NEW i \in InsnId, NEW d \in InsnInputs,
           ReplaceInsn(i, d), NEW v \in Value, NEW j \in InsnId
    PROVE  NP(v, j)'
<1>1. Allocated' = Allocated /\ i \in Allocated
  BY DEF ReplaceInsn, Allocated
<1>2. CASE j = i
  <2>1. insns'[j] = d
    BY <1>2 DEF ReplaceInsn, TypeOK
  <2>2. j \in users'[v] => v \in ArgSet(d)
    BY <1>2 DEF ReplaceInsn, AttachUser, RemoveUsers, NoPhantomUser
  <2>. QED
    BY <1>1, <1>2, <2>1, <2>2 DEF NP
<1>3. CASE j # i
  <2>1. insns'[j] = insns[j] /\ (j \in users'[v] <=> j \in users[v])
    BY <1>3 DEF ReplaceInsn, AttachUser, RemoveUsers, TypeOK
  <2>. QED
    BY <1>1, <2>1 DEF NoPhantomUser, NP
<1>. QED
  BY <1>2, <1>3

LEMMA ReplaceInsnArgNP ==
    ASSUME TypeOK, NoPhantomUser, NEW i \in InsnId, NEW a \in Value,
           NEW k \in 1 .. MaxArgs, ReplaceInsnArg(i, a, k),
           NEW v \in Value, NEW j \in InsnId
    PROVE  NP(v, j)'
<1>. DEFINE args == insns[i].args
            old == args[k]
            newArgs == [args EXCEPT ![k] = a]
<1>1. Allocated' = Allocated /\ i \in Allocated /\ k \in DOMAIN args
      /\ args \in Seq(Value)
  BY DEF ReplaceInsnArg, Allocated, TypeOK, InsnType
<1>2. CASE j = i
  <2>1. insns'[j].args = newArgs
    BY <1>2 DEF ReplaceInsnArg, TypeOK
  <2>2. v \in Elems(newArgs) <=> v = a \/ \E m \in DOMAIN args : m # k /\ args[m] = v
    BY <1>1, ElemsExcept
  <2>3. j \in users'[v] <=> IF v = a THEN TRUE
                            ELSE IF v = old /\ old \notin Elems(newArgs) THEN FALSE
                            ELSE j \in users[v]
    BY <1>2 DEF ReplaceInsnArg
  <2>4. j \in users[v] => v \in Elems(args)
    BY <1>1, <1>2 DEF NoPhantomUser, ArgSet
  <2>5. v # a /\ v # old /\ v \in Elems(args) => v \in Elems(newArgs)
    BY <1>1, <2>2 DEF Elems
  <2>. QED
    BY <1>1, <1>2, <2>1, <2>2, <2>3, <2>4, <2>5 DEF NP, ArgSet
<1>3. CASE j # i
  <2>1. insns'[j] = insns[j] /\ (j \in users'[v] => j \in users[v])
    BY <1>3 DEF ReplaceInsnArg, TypeOK
  <2>. QED
    BY <1>1, <2>1 DEF NoPhantomUser, NP
<1>. QED
  BY <1>2, <1>3

LEMMA AppendPhiArgNP ==
    ASSUME TypeOK, NoPhantomUser, NEW i \in InsnId, NEW a \in Value,
           NEW b \in Block, AppendPhiArg(i, a, b),
           NEW v \in Value, NEW j \in InsnId
    PROVE  NP(v, j)'
<1>. DEFINE d == [insns[i] EXCEPT !.args = Append(@, a), !.blocks = Append(@, b)]
<1>1. Allocated' = Allocated /\ i \in Allocated /\ insns[i].args \in Seq(Value)
  BY DEF AppendPhiArg, Allocated, TypeOK, InsnType
<1>2. CASE j = i
  <2>1. insns'[j] = d /\ users' = AttachUser(users, i, d)
    BY <1>2 DEF AppendPhiArg, TypeOK
  <2>2. v \in ArgSet(d) <=> v \in ArgSet(insns[i]) \/ v = a
    BY <1>1, ElemsAppend DEF ArgSet
  <2>. QED
    BY <1>1, <1>2, <2>1, <2>2 DEF AttachUser, NoPhantomUser, NP
<1>3. CASE j # i
  <2>1. insns'[j] = insns[j] /\ (j \in users'[v] <=> j \in users[v])
    BY <1>3 DEF AppendPhiArg, AttachUser, TypeOK
  <2>. QED
    BY <1>1, <2>1 DEF NoPhantomUser, NP
<1>. QED
  BY <1>2, <1>3

LEMMA RewriteBranchDestNP ==
    ASSUME TypeOK, NoPhantomUser, NEW i \in InsnId, NEW b \in Block,
           NEW c \in Block, RewriteBranchDest(i, b, c),
           NEW v \in Value, NEW j \in InsnId
    PROVE  NP(v, j)'
<1>1. insns'[j].args = insns[j].args
  BY DEF RewriteBranchDest, TypeOK
<1>. QED
  BY <1>1 DEF RewriteBranchDest, NoPhantomUser, NP, ArgSet, Allocated

LEMMA ChangeToAliasNP ==
    ASSUME TypeOK, NoPhantomUser, NEW x \in Value, NEW a \in Value,
           ChangeToAlias(x, a), NEW v \in Value, NEW j \in InsnId
    PROVE  NP(v, j)'
<1>1. Allocated' = Allocated /\ insns[j].args \in Seq(Value)
  BY DEF ChangeToAlias, Allocated, TypeOK, InsnType
<1>2. CASE j \in users[x]
  <2>1. j \in Allocated /\ x \in ArgSet(insns[j])
    BY <1>2 DEF NoPhantomUser
  <2>2. insns'[j].args = Subst(insns[j].args, x, a)
    BY <1>2 DEF ChangeToAlias, TypeOK
  <2>3. v \in ArgSet(insns'[j]) <=> \/ v = a
                                    \/ v # x /\ v \in ArgSet(insns[j])
    BY <1>1, <2>1, <2>2, ElemsSubst DEF ArgSet
  <2>4. j \in users'[v] => \/ v = a
                           \/ v # x /\ j \in users[v]
    BY <1>2 DEF ChangeToAlias
  <2>. QED
    BY <1>1, <2>1, <2>3, <2>4 DEF NoPhantomUser, NP
<1>3. CASE j \notin users[x]
  <2>1. insns'[j] = insns[j]
    BY <1>3 DEF ChangeToAlias, TypeOK
  <2>2. j \in users'[v] => j \in users[v]
    BY <1>3 DEF ChangeToAlias
  <2>. QED
    BY <1>1, <2>1, <2>2 DEF NoPhantomUser, NP
<1>. QED
  BY <1>2, <1>3

\* remove_phi_arg: the phi leaves only the users of the value it drops;
\* any other value it still carries sits at a position that survives.
LEMMA RemovePhiArgNP ==
    ASSUME TypeOK, NoPhantomUser, NEW i \in InsnId, NEW from \in Block,
           RemovePhiArg(i, from), NEW v \in Value, NEW j \in InsnId
    PROVE  NP(v, j)'
<1>. DEFINE d == insns[i]
            pos == FirstPos(d.blocks, from)
            e == [d EXCEPT !.args = DropAt(d.args, pos),
                           !.blocks = DropAt(d.blocks, pos)]
<1>1. /\ i \in Allocated /\ d \in InsnType /\ d.kind = "Phi"
      /\ pos \in 1 .. Len(d.args)
      /\ insns' = [insns EXCEPT ![i] = e]
      /\ users' = [users EXCEPT ![d.args[pos]] = @ \ {i}]
      /\ nextInsn' = nextInsn
  BY RemovePhiArgFacts
<1>2. Allocated' = Allocated /\ users \in [Value -> SUBSET InsnId]
  BY <1>1 DEF Allocated, TypeOK
<1>3. j \in users'[v] => j \in users[v] /\ (j = i => v # d.args[pos])
  BY <1>1, <1>2
<1>4. CASE j = i
  <2>. SUFFICES ASSUME j \in users'[v] PROVE v \in ArgSet(insns'[j])
    BY <1>1, <1>2, <1>4 DEF NP
  <2>1. v \in Elems(d.args) /\ v # d.args[pos]
    BY <1>3, <1>4 DEF NoPhantomUser, ArgSet
  <2>2. d.args \in Seq(Value) /\ DOMAIN d.args = 1 .. Len(d.args)
    BY <1>1 DEF InsnType
  <2>3. PICK q \in 1 .. Len(d.args) : d.args[q] = v
    BY <2>1, <2>2 DEF Elems
  <2>4. q # pos
    BY <2>1, <2>3
  <2>5. v \in Elems(DropAt(d.args, pos))
    BY <1>1, <2>2, <2>3, <2>4, DropAtKeeps
  <2>6. d \in [kind : Kinds, args : Seq(Value), blocks : Seq(Block),
               dflt : Block \cup {NoBlock}]
    BY <1>1 DEF InsnType
  <2>7. insns'[j].args = DropAt(d.args, pos)
    BY <1>1, <1>4, <2>6 DEF TypeOK
  <2>. QED
    BY <2>5, <2>7 DEF ArgSet
<1>5. CASE j # i
  <2>1. insns'[j] = insns[j]
    BY <1>1, <1>5 DEF TypeOK
  <2>. QED
    BY <1>2, <1>3, <2>1 DEF NoPhantomUser, NP
<1>. QED
  BY <1>4, <1>5

\* The users edges the BrTable keeps before it may become a Jump: every one
\* of them was there before, and the table still carries the value.
LEMMA MidUsersNP ==
    ASSUME TypeOK, NoPhantomUser, NEW i \in InsnId, insns[i].kind = "BrTable",
           NEW dest, NEW v \in Value, NEW j \in InsnId,
           j \in MidUsers(insns[i], dest, i)[v]
    PROVE  j \in users[v] /\ (j = i => v \in ArgSet(Mid(insns[i], dest)))
<1>. DEFINE d == insns[i]
<1>1. d \in InsnType /\ users \in [Value -> SUBSET InsnId]
  BY DEF TypeOK
<1>2. CASE d.dflt = dest
  BY <1>1, <1>2, MidProps DEF MidUsers, NoPhantomUser
<1>3. CASE d.dflt # dest
  <2>1. j \in users[v] /\ (j = i => v \notin DropVals(d, dest))
    BY <1>1, <1>3 DEF MidUsers, RemoveUsers
  <2>. SUFFICES ASSUME j = i
                PROVE  v \in {d.args[1]} \cup {d.args[k + 1] : k \in KeptPos(d, dest)}
    BY <1>1, <1>3, <2>1, MidProps
  <2>2. v \in Elems(d.args) /\ v \notin DropVals(d, dest)
    BY <2>1 DEF NoPhantomUser, ArgSet
  <2>3. /\ d.args \in Seq(Value) /\ d.blocks \in Seq(Block)
        /\ Len(d.args) = Len(d.blocks) + 1
        /\ DOMAIN d.args = 1 .. Len(d.blocks) + 1
        /\ DOMAIN d.blocks = 1 .. Len(d.blocks)
    BY <1>1 DEF InsnType, WellFormed
  <2>4. PICK q \in 1 .. Len(d.blocks) + 1 : d.args[q] = v
    BY <2>2, <2>3 DEF Elems
  <2>5. CASE q = 1
    BY <2>4, <2>5
  <2>6. CASE q # 1
    <3>1. q - 1 \in DOMAIN d.blocks /\ (q - 1) + 1 = q
      BY <2>3, <2>6
    <3>2. d.blocks[q - 1] # dest
      BY <2>2, <2>4, <3>1 DEF DropVals
    <3>. QED
      BY <2>4, <3>1, <3>2 DEF KeptPos
  <2>. QED
    BY <2>5, <2>6
<1>. QED
  BY <1>2, <1>3

\* remove_branch_dest: the edges it keeps still point at the instruction's
\* operands, and a Branch or BrTable turned into a Jump keeps none.
LEMMA RemoveBranchDestNP ==
    ASSUME TypeOK, NoPhantomUser, NEW i \in InsnId, NEW dest \in Block,
           RemoveBranchDest(i, dest), NEW v \in Value, NEW j \in InsnId
    PROVE  NP(v, j)'
<1>. DEFINE d == insns[i]
<1>1. i \in Allocated /\ d \in InsnType /\ Allocated' = Allocated
      /\ users \in [Value -> SUBSET InsnId]
  BY DEF RemoveBranchDest, TypeOK, Allocated
<1>2. ASSUME j # i, j \in users[v], insns'[j] = insns[j]
      PROVE  NP(v, j)'
  BY <1>1, <1>2 DEF NoPhantomUser, NP
<1>3. CASE RemoveBranchDestBr(i, dest)
  <2>1. d.kind = "Branch" /\ d.args \in Seq(Value) /\ Len(d.args) = 1
    BY <1>1, <1>3 DEF RemoveBranchDestBr, InsnType, WellFormed
  <2>2. ArgSet(d) = {d.args[1]}
    BY <2>1 DEF ArgSet, Elems
  <2>3. users' = [users EXCEPT ![d.args[1]] = @ \ {i}]
        /\ \E b : insns' = [insns EXCEPT ![i] = JumpData(b)]
    BY <1>3 DEF RemoveBranchDestBr
  <2>4. j \in users'[v] => j # i /\ j \in users[v]
    BY <1>1, <2>1, <2>2, <2>3 DEF NoPhantomUser
  <2>5. j # i => insns'[j] = insns[j]
    BY <2>3 DEF TypeOK
  <2>. QED
    BY <1>2, <2>4, <2>5 DEF NP
<1>4. CASE RemoveBranchDestBrTable(i, dest)
  <2>. DEFINE mid == Mid(d, dest)
  <2>1. d.kind = "BrTable"
    BY <1>4, BrTableFacts
  <2>2. j \in MidUsers(d, dest, i)[v] => j \in users[v] /\ (j = i => v \in ArgSet(mid))
    BY <2>1, MidUsersNP
  <2>3. CASE DestsNum(mid) = 1
    <3>1. insns' = [insns EXCEPT ![i] = JumpData(Only(mid))]
          /\ users' = RemoveUsers(MidUsers(d, dest, i), ArgSet(mid), i)
      BY <1>4, <2>3, BrTableFacts
    <3>2. j \in users'[v] => j # i /\ j \in users[v]
      BY <2>2, <3>1 DEF RemoveUsers
    <3>3. j # i => insns'[j] = insns[j]
      BY <3>1 DEF TypeOK
    <3>. QED
      BY <1>2, <3>2, <3>3 DEF NP
  <2>4. CASE DestsNum(mid) # 1
    <3>1. insns' = [insns EXCEPT ![i] = mid] /\ users' = MidUsers(d, dest, i)
      BY <1>4, <2>4, BrTableFacts
    <3>2. CASE j = i
      <4>1. insns'[j] = mid
        BY <3>1, <3>2 DEF TypeOK
      <4>. QED
        BY <1>1, <2>2, <3>1, <3>2, <4>1 DEF NP
    <3>3. CASE j # i
      <4>1. insns'[j] = insns[j]
        BY <3>1, <3>3 DEF TypeOK
      <4>. QED
        BY <1>2, <2>2, <3>1, <3>3, <4>1 DEF NP
    <3>. QED
      BY <3>2, <3>3
  <2>. QED
    BY <2>3, <2>4
<1>. QED
  BY <1>3, <1>4 DEF RemoveBranchDest

\* Every DFG mutator keeps NoPhantomUser.
LEMMA NextNP == TypeOK /\ NoPhantomUser /\ [Next]_vars => NoPhantomUser'
<1> SUFFICES ASSUME TypeOK, NoPhantomUser, [Next]_vars PROVE NoPhantomUser'
  OBVIOUS
<1>0. TypeOK'
  BY NextTypeOK
<1> SUFFICES ASSUME NEW v \in Value, NEW j \in InsnId PROVE NP(v, j)'
  BY <1>0 DEF NoPhantomUser, NP, TypeOK
<1>1. CASE \E d \in InsnInputs : MakeInsn(d)
  BY <1>1, MakeInsnNP
<1>2. CASE \E i \in InsnId, d \in InsnInputs : ReplaceInsn(i, d)
  BY <1>2, ReplaceInsnNP
<1>3. CASE \E i \in InsnId, a \in Value, k \in 1 .. MaxArgs : ReplaceInsnArg(i, a, k)
  BY <1>3, ReplaceInsnArgNP
<1>4. CASE \E x, a \in Value : ChangeToAlias(x, a)
  BY <1>4, ChangeToAliasNP
<1>5. CASE \E i \in InsnId, a \in Value, b \in Block : AppendPhiArg(i, a, b)
  BY <1>5, AppendPhiArgNP
<1>6. CASE \E i \in InsnId, b, c \in Block : RewriteBranchDest(i, b, c)
  BY <1>6, RewriteBranchDestNP
<1>7. CASE \E i \in InsnId, b \in Block : RemovePhiArg(i, b)
  BY <1>7, RemovePhiArgNP
<1>8. CASE \E i \in InsnId, b \in Block : RemoveBranchDest(i, b)
  BY <1>8, RemoveBranchDestNP
<1>9. CASE UNCHANGED vars
  BY <1>9 DEF vars, NoPhantomUser, NP, Allocated
<1>. QED
  BY <1>1, <1>2, <1>3, <1>4, <1>5, <1>6, <1>7, <1>8, <1>9
     DEF Next, RewriteNext, EdgeNext

\* Type correctness of every DFG mutator, the CFG edits remove_phi_arg and
\* remove_branch_dest included: operand and block lists keep the shapes
\* InsnData promises (a phi's lists of equal length, a br_table one case
\* value per table entry, a jump one destination).
THEOREM TypeCorrect == Spec => []TypeOK
BY InitTypeOK, NextTypeOK, PTL DEF Spec

\* No user set ever names an instruction that does not reference the value,
\* whatever interleaving of make_insn, replace_insn, replace_insn_arg,
\* change_to_alias, append_phi_arg, rewrite_branch_dest, remove_phi_arg and
\* remove_branch_dest the passes perform.  TypeOK is the strengthening: the
\* argument reads the operand lists by position.
THEOREM NoPhantomUsers == Spec => []NoPhantomUser
<1>1. Init => TypeOK /\ NoPhantomUser
  BY InitTypeOK DEF Init, NoPhantomUser
<1>2. TypeOK /\ NoPhantomUser /\ [Next]_vars => (TypeOK /\ NoPhantomUser)'
  BY NextTypeOK, NextNP
<1>. QED
  BY <1>1, <1>2, PTL DEF Spec
=============================================================================
