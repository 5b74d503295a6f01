----------------------------- MODULE DFGProofs -----------------------------
(***************************************************************************)
(* Proofs about the DFG rewrites (make_insn, replace_insn,                 *)
(* replace_insn_arg, change_to_alias, append_phi_arg,                      *)
(* rewrite_branch_dest): they keep the type invariant and the user-set     *)
(* consistency invariant, for every pool of values and blocks and every    *)
(* arena size.                                                             *)
(***************************************************************************)
EXTENDS DFG, SequenceTheorems, TLAPS

USE ConstAssumption

-----------------------------------------------------------------------------
(* Facts about the set of elements of a sequence.                          *)

LEMMA ElemsAppend ==
    ASSUME NEW S, NEW s \in Seq(S), NEW x \in S, NEW v
    PROVE  v \in Elems(Append(s, x)) <=> v \in Elems(s) \/ v = x
<1>1. /\ DOMAIN Append(s, x) = 1 .. Len(s) + 1
      /\ \A i \in 1 .. Len(s) : Append(s, x)[i] = s[i]
      /\ Append(s, x)[Len(s) + 1] = x
      /\ DOMAIN s = 1 .. Len(s)
      /\ Len(s) \in Nat
  BY AppendProperties, LenProperties
<1>2. v \in Elems(Append(s, x)) => v \in Elems(s) \/ v = x
  <2> SUFFICES ASSUME NEW k \in DOMAIN Append(s, x), Append(s, x)[k] = v
               PROVE  v \in Elems(s) \/ v = x
    BY DEF Elems
  <2>1. CASE k \in 1 .. Len(s)
    BY <1>1, <2>1 DEF Elems
  <2>2. CASE k = Len(s) + 1
    BY <1>1, <2>2
  <2>. QED
    BY <1>1, <2>1, <2>2
<1>3. v \in Elems(s) \/ v = x => v \in Elems(Append(s, x))
  BY <1>1 DEF Elems
<1>. QED
  BY <1>2, <1>3

LEMMA ElemsExcept ==
    ASSUME NEW S, NEW s \in Seq(S), NEW k \in DOMAIN s, NEW x, NEW v
    PROVE  v \in Elems([s EXCEPT ![k] = x])
               <=> v = x \/ \E j \in DOMAIN s : j # k /\ s[j] = v
<1>1. DOMAIN [s EXCEPT ![k] = x] = DOMAIN s
  OBVIOUS
<1>. QED
  BY <1>1 DEF Elems

LEMMA ElemsSubst ==
    ASSUME NEW S, NEW s \in Seq(S), NEW a, NEW b, NEW v
    PROVE  v \in Elems(Subst(s, a, b))
               <=> \/ v = b /\ (a \in Elems(s) \/ b \in Elems(s))
                   \/ v # a /\ v \in Elems(s)
<1>1. DOMAIN Subst(s, a, b) = DOMAIN s
  BY DEF Subst
<1>2. \A k \in DOMAIN s : Subst(s, a, b)[k] = IF s[k] = a THEN b ELSE s[k]
  BY DEF Subst
<1>. QED
  BY <1>1, <1>2 DEF Elems

LEMMA SubstSeq ==
    ASSUME NEW S, NEW s \in Seq(S), NEW a, NEW b \in S
    PROVE  Subst(s, a, b) \in Seq(S) /\ Len(Subst(s, a, b)) = Len(s)
BY DEF Subst

-----------------------------------------------------------------------------
(* Type correctness.                                                       *)

LEMMA SeqUpToSeq ==
    ASSUME NEW S, NEW n \in Nat
    PROVE  SeqUpTo(S, n) \subseteq Seq(S)
<1> SUFFICES ASSUME NEW s \in SeqUpTo(S, n) PROVE s \in Seq(S)
  OBVIOUS
<1>1. PICK m \in 0 .. n : s \in [1 .. m -> S]
  BY DEF SeqUpTo
<1>2. m \in Nat
  OBVIOUS
<1>. QED
  BY <1>1, <1>2, IsASeq

LEMMA InputsTyped == InsnInputs \subseteq InsnType
<1>1. SeqUpTo(Value, 3) \subseteq Seq(Value) /\ SeqUpTo(Block, 2) \subseteq Seq(Block)
  BY SeqUpToSeq
<1>. QED
  BY <1>1 DEF InsnInputs, InsnType

LEMMA InitTypeOK == Init => TypeOK
BY DEF Init, TypeOK, InsnType, NoInsn, InsnRec, WellFormed, Kinds, Allocated, InsnId

\* Replacing the operand list by one of the same length keeps the shape.
LEMMA ArgsUpdateTyped ==
    ASSUME NEW D \in InsnType, NEW as \in Seq(Value), Len(as) = Len(D.args)
    PROVE  [D EXCEPT !.args = as] \in InsnType
<1>. DEFINE R == [D EXCEPT !.args = as]
<1>0. D \in [kind : Kinds, args : Seq(Value), blocks : Seq(Block),
             dflt : Block \cup {NoBlock}]
  BY DEF InsnType
<1>1. R \in [kind : Kinds, args : Seq(Value), blocks : Seq(Block),
             dflt : Block \cup {NoBlock}]
  BY <1>0
<1>2. D.kind \in Kinds /\ D.blocks \in Seq(Block) /\ D.dflt \in Block \cup {NoBlock}
      /\ WellFormed(D)
  BY <1>0 DEF InsnType
<1>3. R.kind = D.kind /\ R.args = as /\ R.blocks = D.blocks
  BY <1>1
<1>5. D.kind = "Jump" => as = <<>>
  BY <1>2, EmptySeq DEF WellFormed
<1>4. WellFormed(R)
  BY <1>2, <1>3, <1>5 DEF WellFormed
<1>. QED
  BY <1>1, <1>2, <1>4 DEF InsnType

\* The none instruction has no operands to substitute.
LEMMA SubstNoInsn ==
    ASSUME NEW a, NEW b
    PROVE  [NoInsn EXCEPT !.args = Subst(@, a, b)] = NoInsn
<1>1. Subst(<<>>, a, b) = <<>>
  BY DEF Subst
<1>. QED
  BY <1>1 DEF NoInsn, InsnRec

\* Storing a well-shaped record at an allocated id keeps TypeOK.
LEMMA StoreTypeOK ==
    ASSUME TypeOK, NEW i \in Allocated, NEW d \in InsnType,
           insns' = [insns EXCEPT ![i] = d], nextInsn' = nextInsn,
           users' \in [Value -> SUBSET InsnId]
    PROVE  TypeOK'
BY DEF TypeOK, Allocated, InsnId

LEMMA AttachUserType ==
    ASSUME NEW u \in [Value -> SUBSET InsnId], NEW i \in InsnId, NEW d
    PROVE  AttachUser(u, i, d) \in [Value -> SUBSET InsnId]
BY DEF AttachUser

LEMMA RemoveUsersType ==
    ASSUME NEW u \in [Value -> SUBSET InsnId], NEW S, NEW i
    PROVE  RemoveUsers(u, S, i) \in [Value -> SUBSET InsnId]
BY DEF RemoveUsers

LEMMA RewriteTypeOK == TypeOK /\ [RewriteNext]_vars => TypeOK'
<1> SUFFICES ASSUME TypeOK, [RewriteNext]_vars PROVE TypeOK'
  OBVIOUS
<1>0. /\ insns \in [InsnId -> InsnType] /\ users \in [Value -> SUBSET InsnId]
      /\ nextInsn \in 1 .. MaxInsn + 1 /\ Allocated \subseteq InsnId
  BY DEF TypeOK, Allocated, InsnId
<1>1. CASE \E d \in InsnInputs : MakeInsn(d)
  <2>1. PICK d \in InsnInputs : MakeInsn(d)
    BY <1>1
  <2>2. d \in InsnType /\ nextInsn \in InsnId
    BY <2>1, InputsTyped DEF MakeInsn, TypeOK, InsnId
  <2>3. users' \in [Value -> SUBSET InsnId]
    BY <2>1, <2>2, <1>0, AttachUserType DEF MakeInsn
  <2>. QED
    BY <2>1, <2>2, <2>3 DEF TypeOK, MakeInsn, Allocated, InsnId
<1>2. CASE \E i \in InsnId, d \in InsnInputs : ReplaceInsn(i, d)
  <2>1. PICK i \in InsnId, d \in InsnInputs : ReplaceInsn(i, d)
    BY <1>2
  <2>2. d \in InsnType /\ i \in Allocated
    BY <2>1, InputsTyped DEF ReplaceInsn
  <2>3. users' \in [Value -> SUBSET InsnId]
    BY <2>1, <1>0, AttachUserType, RemoveUsersType DEF ReplaceInsn
  <2>. QED
    BY <2>1, <2>2, <2>3, StoreTypeOK DEF ReplaceInsn
<1>3. CASE \E i \in InsnId, v \in Value, k \in 1 .. MaxArgs : ReplaceInsnArg(i, v, k)
  <2>1. PICK i \in InsnId, v \in Value, k \in 1 .. MaxArgs : ReplaceInsnArg(i, v, k)
    BY <1>3
  <2>. DEFINE newArgs == [insns[i].args EXCEPT ![k] = v]
  <2>2. insns[i] \in InsnType /\ k \in 1 .. Len(insns[i].args) /\ i \in Allocated
    BY <2>1, <1>0, LenProperties DEF ReplaceInsnArg, InsnType
  <2>3. newArgs \in Seq(Value) /\ Len(newArgs) = Len(insns[i].args)
    BY <2>2, ExceptSeq DEF InsnType
  <2>4. [insns[i] EXCEPT !.args = newArgs] \in InsnType
    BY <2>2, <2>3, ArgsUpdateTyped
  <2>5. insns' = [insns EXCEPT ![i] = [insns[i] EXCEPT !.args = newArgs]]
    BY <2>1 DEF ReplaceInsnArg
  <2>6. users' \in [Value -> SUBSET InsnId]
    BY <2>1, <1>0 DEF ReplaceInsnArg
  <2>. QED
    BY <2>1, <2>2, <2>4, <2>5, <2>6, StoreTypeOK DEF ReplaceInsnArg
<1>4. CASE \E v, a \in Value : ChangeToAlias(v, a)
  <2>1. PICK v \in Value, a \in Value : ChangeToAlias(v, a)
    BY <1>4
  <2>2. \A i \in InsnId : i \in users[v] =>
            [insns[i] EXCEPT !.args = Subst(@, v, a)] \in InsnType
    <3> SUFFICES ASSUME NEW i \in InsnId
                 PROVE  [insns[i] EXCEPT !.args = Subst(@, v, a)] \in InsnType
      OBVIOUS
    <3>1. insns[i] \in InsnType /\ insns[i].args \in Seq(Value)
      BY <1>0 DEF InsnType
    <3>2. Subst(insns[i].args, v, a) \in Seq(Value)
          /\ Len(Subst(insns[i].args, v, a)) = Len(insns[i].args)
      BY <3>1, SubstSeq
    <3>. QED
      BY <3>1, <3>2, ArgsUpdateTyped
  <2>3. \A i \in InsnId \ Allocated : i \notin users[v] \/ insns[i] = NoInsn
    BY DEF TypeOK
  <2>4. \A i \in InsnId : insns[i] = NoInsn =>
            [insns[i] EXCEPT !.args = Subst(@, v, a)] = NoInsn
    BY SubstNoInsn
  <2>5. insns' \in [InsnId -> InsnType]
    BY <2>1, <2>2, <1>0 DEF ChangeToAlias
  <2>6. \A i \in InsnId \ Allocated' : insns'[i] = NoInsn
    BY <2>1, <2>3, <2>4 DEF TypeOK, ChangeToAlias, Allocated
  <2>7. users' \in [Value -> SUBSET InsnId] /\ nextInsn' = nextInsn
    BY <2>1, <1>0 DEF ChangeToAlias
  <2>. QED
    BY <2>5, <2>6, <2>7, <1>0 DEF TypeOK
<1>5. CASE \E i \in InsnId, v \in Value, b \in Block : AppendPhiArg(i, v, b)
  <2>1. PICK i \in InsnId, v \in Value, b \in Block : AppendPhiArg(i, v, b)
    BY <1>5
  <2>. DEFINE d == [insns[i] EXCEPT !.args = Append(@, v), !.blocks = Append(@, b)]
  <2>2. insns[i] \in InsnType /\ i \in Allocated /\ insns[i].kind = "Phi"
    BY <2>1, <1>0 DEF AppendPhiArg
  <2>3. /\ Append(insns[i].args, v) \in Seq(Value)
        /\ Append(insns[i].blocks, b) \in Seq(Block)
        /\ Len(Append(insns[i].args, v)) = Len(insns[i].args) + 1
        /\ Len(Append(insns[i].blocks, b)) = Len(insns[i].blocks) + 1
    BY <2>2, AppendProperties DEF InsnType
  <2>4. d \in InsnType
    BY <2>2, <2>3 DEF InsnType, WellFormed
  <2>5. users' \in [Value -> SUBSET InsnId]
    BY <2>1, <1>0, AttachUserType DEF AppendPhiArg
  <2>. QED
    BY <2>1, <2>2, <2>4, <2>5, StoreTypeOK DEF AppendPhiArg
<1>6. CASE \E i \in InsnId, b, c \in Block : RewriteBranchDest(i, b, c)
  <2>1. PICK i \in InsnId, b \in Block, c \in Block : RewriteBranchDest(i, b, c)
    BY <1>6
  <2>. DEFINE d == [insns[i] EXCEPT !.blocks = Subst(@, b, c),
                                    !.dflt = IF @ = b THEN c ELSE @]
  <2>2. insns[i] \in InsnType /\ i \in Allocated
    BY <2>1, <1>0 DEF RewriteBranchDest
  <2>3. Subst(insns[i].blocks, b, c) \in Seq(Block)
        /\ Len(Subst(insns[i].blocks, b, c)) = Len(insns[i].blocks)
    BY <2>2, SubstSeq DEF InsnType
  <2>4. d \in InsnType
    BY <2>2, <2>3 DEF InsnType, WellFormed
  <2>5. insns' = [insns EXCEPT ![i] = d]
    BY <2>1 DEF RewriteBranchDest
  <2>. QED
    BY <2>1, <2>2, <2>4, <2>5, <1>0, StoreTypeOK DEF RewriteBranchDest
<1>7. CASE UNCHANGED vars
  BY <1>7 DEF TypeOK, vars, Allocated
<1>. QED
  BY <1>1, <1>2, <1>3, <1>4, <1>5, <1>6, <1>7 DEF RewriteNext

-----------------------------------------------------------------------------
(* User-set consistency.                                                   *)

\* The condition of UsersConsistent for one value and one instruction.
UC(v, j) == j \in users[v] <=> (j \in Allocated /\ v \in ArgSet(insns[j]))

LEMMA MakeInsnUC ==
    ASSUME TypeOK, UsersConsistent, NEW d \in InsnInputs, MakeInsn(d),
           NEW v \in Value, NEW j \in InsnId
    PROVE  UC(v, j)'
<1>1. Allocated' = Allocated \cup {nextInsn} /\ nextInsn \notin Allocated
  BY DEF MakeInsn, Allocated, TypeOK
<1>2. CASE j = nextInsn
  <2>1. j \notin users[v]
    BY <1>1, <1>2 DEF UsersConsistent, TypeOK
  <2>2. insns'[j] = d
    BY <1>2 DEF MakeInsn, TypeOK, InsnId
  <2>. QED
    BY <1>1, <1>2, <2>1, <2>2 DEF MakeInsn, AttachUser, UC
<1>3. CASE j # nextInsn
  <2>1. insns'[j] = insns[j] /\ (j \in users'[v] <=> j \in users[v])
    BY <1>3 DEF MakeInsn, AttachUser, TypeOK
  <2>. QED
    BY <1>1, <1>3, <2>1 DEF UsersConsistent, UC
<1>. QED
  BY <1>2, <1>3

LEMMA ReplaceInsnUC ==
    ASSUME TypeOK, UsersConsistent, NEW i \in InsnId, NEW d \in InsnInputs,
           ReplaceInsn(i, d), NEW v \in Value, NEW j \in InsnId
    PROVE  UC(v, j)'
<1>1. Allocated' = Allocated /\ i \in Allocated
  BY DEF ReplaceInsn, Allocated
<1>2. CASE j = i
  <2>1. j \in users[v] <=> v \in ArgSet(insns[i])
    BY <1>1, <1>2 DEF UsersConsistent
  <2>2. insns'[j] = d
    BY <1>2 DEF ReplaceInsn, TypeOK
  <2>. QED
    BY <1>1, <1>2, <2>1, <2>2 DEF ReplaceInsn, AttachUser, RemoveUsers, UC
<1>3. CASE j # i
  <2>1. insns'[j] = insns[j] /\ (j \in users'[v] <=> j \in users[v])
    BY <1>3 DEF ReplaceInsn, AttachUser, RemoveUsers, TypeOK
  <2>. QED
    BY <1>1, <1>3, <2>1 DEF UsersConsistent, UC
<1>. QED
  BY <1>2, <1>3

LEMMA ReplaceInsnArgUC ==
    ASSUME TypeOK, UsersConsistent, NEW i \in InsnId, NEW a \in Value,
           NEW k \in 1 .. MaxArgs, ReplaceInsnArg(i, a, k),
           NEW v \in Value, NEW j \in InsnId
    PROVE  UC(v, j)'
<1>. DEFINE args == insns[i].args
            old == args[k]
            newArgs == [args EXCEPT ![k] = a]
<1>1. Allocated' = Allocated /\ i \in Allocated /\ k \in DOMAIN args
      /\ args \in Seq(Value)
  BY DEF ReplaceInsnArg, Allocated, TypeOK, InsnType
<1>2. CASE j = i
  <2>1. j \in users[v] <=> v \in Elems(args)
    BY <1>1, <1>2 DEF UsersConsistent, ArgSet
  <2>2. insns'[j].args = newArgs
    BY <1>2 DEF ReplaceInsnArg, TypeOK
  <2>3. v \in Elems(newArgs) <=> v = a \/ \E m \in DOMAIN args : m # k /\ args[m] = v
    BY <1>1, ElemsExcept
  <2>4. old \in Elems(args)
    BY <1>1 DEF Elems
  <2>5. j \in users'[v] <=> IF v = a THEN TRUE
                            ELSE IF v = old /\ old \notin Elems(newArgs) THEN FALSE
                            ELSE j \in users[v]
    BY <1>2 DEF ReplaceInsnArg
  <2>6. v # a /\ v # old => (v \in Elems(newArgs) <=> v \in Elems(args))
    BY <1>1, <2>3 DEF Elems
  <2>. QED
    BY <1>1, <1>2, <2>1, <2>2, <2>3, <2>4, <2>5, <2>6 DEF UC, ArgSet
<1>3. CASE j # i
  <2>1. insns'[j] = insns[j] /\ (j \in users'[v] <=> j \in users[v])
    BY <1>3 DEF ReplaceInsnArg, TypeOK
  <2>. QED
    BY <1>1, <1>3, <2>1 DEF UsersConsistent, UC
<1>. QED
  BY <1>2, <1>3

LEMMA AppendPhiArgUC ==
    ASSUME TypeOK, UsersConsistent, NEW i \in InsnId, NEW a \in Value,
           NEW b \in Block, AppendPhiArg(i, a, b),
           NEW v \in Value, NEW j \in InsnId
    PROVE  UC(v, j)'
<1>. DEFINE d == [insns[i] EXCEPT !.args = Append(@, a), !.blocks = Append(@, b)]
<1>1. Allocated' = Allocated /\ i \in Allocated /\ insns[i].args \in Seq(Value)
  BY DEF AppendPhiArg, Allocated, TypeOK, InsnType
<1>2. CASE j = i
  <2>1. j \in users[v] <=> v \in ArgSet(insns[i])
    BY <1>1, <1>2 DEF UsersConsistent
  <2>2. insns'[j] = d /\ users' = AttachUser(users, i, d)
    BY <1>2 DEF AppendPhiArg, TypeOK
  <2>3. v \in ArgSet(d) <=> v \in ArgSet(insns[i]) \/ v = a
    BY <1>1, ElemsAppend DEF ArgSet
  <2>. QED
    BY <1>1, <1>2, <2>1, <2>2, <2>3 DEF AttachUser, UC
<1>3. CASE j # i
  <2>1. insns'[j] = insns[j] /\ (j \in users'[v] <=> j \in users[v])
    BY <1>3 DEF AppendPhiArg, AttachUser, TypeOK
  <2>. QED
    BY <1>1, <1>3, <2>1 DEF UsersConsistent, UC
<1>. QED
  BY <1>2, <1>3

LEMMA RewriteBranchDestUC ==
    ASSUME TypeOK, UsersConsistent, NEW i \in InsnId, NEW b \in Block,
           NEW c \in Block, RewriteBranchDest(i, b, c),
           NEW v \in Value, NEW j \in InsnId
    PROVE  UC(v, j)'
<1>1. insns'[j].args = insns[j].args
  BY DEF RewriteBranchDest, TypeOK
<1>. QED
  BY <1>1 DEF RewriteBranchDest, UsersConsistent, UC, ArgSet, Allocated

LEMMA ChangeToAliasUC ==
    ASSUME TypeOK, UsersConsistent, NEW x \in Value, NEW a \in Value,
           ChangeToAlias(x, a), NEW v \in Value, NEW j \in InsnId
    PROVE  UC(v, j)'
<1>1. Allocated' = Allocated /\ insns[j].args \in Seq(Value)
  BY DEF ChangeToAlias, Allocated, TypeOK, InsnType
<1>2. CASE j \in users[x]
  <2>1. j \in Allocated /\ x \in ArgSet(insns[j])
    BY <1>2 DEF UsersConsistent
  <2>2. insns'[j].args = Subst(insns[j].args, x, a)
    BY <1>2 DEF ChangeToAlias, TypeOK
  <2>3. v \in ArgSet(insns'[j]) <=> \/ v = a
                                    \/ v # x /\ v \in ArgSet(insns[j])
    BY <1>1, <2>1, <2>2, ElemsSubst DEF ArgSet
  <2>4. j \in users'[v] <=> \/ v = a
                            \/ v # x /\ j \in users[v]
    BY <1>2 DEF ChangeToAlias
  <2>. QED
    BY <1>1, <2>1, <2>3, <2>4 DEF UsersConsistent, UC
<1>3. CASE j \notin users[x]
  <2>1. insns'[j] = insns[j]
    BY <1>3 DEF ChangeToAlias, TypeOK
  <2>2. j \in users'[v] <=> j \in users[v]
    BY <1>3 DEF ChangeToAlias
  <2>. QED
    BY <1>1, <2>1, <2>2 DEF UsersConsistent, UC
<1>. QED
  BY <1>2, <1>3

LEMMA RewriteUC ==
    TypeOK /\ UsersConsistent /\ [RewriteNext]_vars => UsersConsistent'
<1> SUFFICES ASSUME TypeOK, UsersConsistent, [RewriteNext]_vars,
                    NEW v \in Value, NEW j \in InsnId
             PROVE  UC(v, j)'
  BY DEF UsersConsistent, UC
<1>1. CASE \E d \in InsnInputs : MakeInsn(d)
  BY <1>1, MakeInsnUC
<1>2. CASE \E i \in InsnId, d \in InsnInputs : ReplaceInsn(i, d)
  BY <1>2, ReplaceInsnUC
<1>3. CASE \E i \in InsnId, a \in Value, k \in 1 .. MaxArgs : ReplaceInsnArg(i, a, k)
  BY <1>3, ReplaceInsnArgUC
<1>4. CASE \E x, a \in Value : ChangeToAlias(x, a)
  BY <1>4, ChangeToAliasUC
<1>5. CASE \E i \in InsnId, a \in Value, b \in Block : AppendPhiArg(i, a, b)
  BY <1>5, AppendPhiArgUC
<1>6. CASE \E i \in InsnId, b, c \in Block : RewriteBranchDest(i, b, c)
  BY <1>6, RewriteBranchDestUC
<1>7. CASE UNCHANGED vars
  BY <1>7 DEF vars, UsersConsistent, UC, Allocated
<1>. QED
  BY <1>1, <1>2, <1>3, <1>4, <1>5, <1>6, <1>7 DEF RewriteNext

\* Type correctness of the rewrite operations: every reachable state of
\* make_insn / replace_insn / replace_insn_arg / change_to_alias /
\* append_phi_arg / rewrite_branch_dest calls is well typed and well shaped.
THEOREM RewriteTypeCorrect == RewriteSpec => []TypeOK
BY InitTypeOK, RewriteTypeOK, PTL DEF RewriteSpec

\* The user-set consistency invariant (spec section 8) holds in every state
\* reached by make_insn, replace_insn, replace_insn_arg, change_to_alias,
\* append_phi_arg and rewrite_branch_dest: users(v) is exactly the set of
\* allocated instructions whose operands contain v.  TypeOK is needed as a
\* strengthening because the argument indexes into typed operand sequences.
THEOREM RewriteUsersConsistent == RewriteSpec => []UsersConsistent
<1>1. Init => TypeOK /\ UsersConsistent
  BY InitTypeOK DEF Init, UsersConsistent, Allocated
<1>2. TypeOK /\ UsersConsistent /\ [RewriteNext]_vars => (TypeOK /\ UsersConsistent)'
  BY RewriteTypeOK, RewriteUC
<1>. QED
  BY <1>1, <1>2, PTL DEF RewriteSpec
=============================================================================
