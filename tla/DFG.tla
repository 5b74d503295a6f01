-------------------------------- MODULE DFG --------------------------------
(***************************************************************************)
(* The data-flow graph of one function (crates/ir/src/dfg.rs): the arena   *)
(* of instructions and the user-set map  Value -> Set<Insn>  that every    *)
(* rewrite must keep equal to "the instructions that currently reference   *)
(* the value".                                                             *)
(*                                                                         *)
(* Values are abstracted to a fixed pool (function arguments, immediates,  *)
(* results): which value an operand is matters to the user sets, what the  *)
(* value is does not.  An instruction is a record                         *)
(*   [kind, args, blocks, dflt]                                            *)
(* where  args  is the operand list InsnData::args() returns (a Branch's   *)
(* condition, a BrTable's condition followed by its case values, a Phi's  *)
(* incoming values), blocks  the Phi's incoming blocks or the terminator's *)
(* destinations, and  dflt  the BrTable default.  All unary, binary, cast, *)
(* load, store and return forms have the same user-set behaviour and are  *)
(* one kind "Op".                                                          *)
(***************************************************************************)
EXTENDS Naturals, Sequences, FiniteSets

CONSTANTS
    Value,      \* the pool of SSA values that operands are drawn from
    Block,      \* the blocks that phis and terminators name
    NoBlock,    \* Option<Block>::None for the BrTable default
    MaxInsn,    \* capacity of the instruction arena explored
    MaxArgs     \* bound on the length of an operand list

ASSUME ConstAssumption ==
    /\ Value # {} /\ Block # {}
    /\ NoBlock \notin Block
    /\ MaxInsn \in Nat \ {0}
    /\ MaxArgs \in Nat \ {0}

VARIABLES
    insns,      \* PrimaryMap<Insn, InsnData>
    nextInsn,   \* the handle the next  insns.push  returns
    users       \* SecondaryMap<Value, BTreeSet<Insn>>

vars == <<insns, nextInsn, users>>

InsnId == 1 .. MaxInsn
Allocated == 1 .. (nextInsn - 1)
Kinds == {"Op", "Phi", "Jump", "Branch", "BrTable", "None"}

\* Constructors of the InsnData variants kept by the model.
InsnRec(k, as, bs, d) == [kind |-> k, args |-> as, blocks |-> bs, dflt |-> d]
NoInsn == InsnRec("None", <<>>, <<>>, NoBlock)
JumpData(dest) == InsnRec("Jump", <<>>, <<dest>>, NoBlock)

\* Set of the elements of a sequence.
Elems(s) == {s[k] : k \in DOMAIN s}

\* The values an instruction references: InsnData::args().
ArgSet(d) == Elems(d.args)

\* The destinations of a terminator: BranchInfo::iter_dests().
Dests(d) ==
    IF d.kind \in {"Jump", "Branch", "BrTable"}
    THEN Elems(d.blocks) \cup (IF d.dflt = NoBlock THEN {} ELSE {d.dflt})
    ELSE {}

\* Shape of an InsnData value: operand and block lists agree in length.
WellFormed(d) ==
    /\ d.kind = "Phi" => Len(d.args) = Len(d.blocks)
    /\ d.kind = "BrTable" => Len(d.args) = Len(d.blocks) + 1
    /\ d.kind = "Branch" => Len(d.args) = 1 /\ Len(d.blocks) = 2
    /\ d.kind = "Jump" => d.args = <<>> /\ Len(d.blocks) = 1

\* Sequences of length at most n over S.
SeqUpTo(S, n) == UNION {[1 .. m -> S] : m \in 0 .. n}

\* The shapes a caller may construct beyond WellFormed: ops of at most two
\* operands and no destinations, phis of at most two entries, br_tables of
\* one or two cases; only a br_table has a default.
InputShape(d) ==
    /\ d.kind # "None"
    /\ d.kind # "BrTable" => d.dflt = NoBlock
    /\ d.kind = "Op" => d.blocks = <<>> /\ Len(d.args) <= 2
    /\ d.kind = "Phi" => Len(d.args) <= 2
    /\ d.kind = "BrTable" => Len(d.blocks) >= 1

\* The instructions a caller may construct (operands drawn from the pool).
InsnInputs ==
    {d \in [kind : Kinds, args : SeqUpTo(Value, 3), blocks : SeqUpTo(Block, 2),
            dflt : Block \cup {NoBlock}] : WellFormed(d) /\ InputShape(d)}

\* attach_user: record  i  as a user of every operand of  d.
AttachUser(u, i, d) ==
    [v \in Value |-> IF v \in ArgSet(d) THEN u[v] \cup {i} ELSE u[v]]

\* remove_user for every value of  S.
RemoveUsers(u, S, i) ==
    [v \in Value |-> IF v \in S THEN u[v] \ {i} ELSE u[v]]

\* Every occurrence of  old  in  s  replaced by  new.
Subst(s, old, new) == [k \in DOMAIN s |-> IF s[k] = old THEN new ELSE s[k]]

\* s without its  k-th element.
DropAt(s, k) == SubSeq(s, 1, k - 1) \o SubSeq(s, k + 1, Len(s))

-----------------------------------------------------------------------------

Init ==
    /\ insns = [i \in InsnId |-> NoInsn]
    /\ nextInsn = 1
    /\ users = [v \in Value |-> {}]

\* make_insn: push the data, then attach_user.
MakeInsn(d) ==
    /\ nextInsn <= MaxInsn
    /\ insns' = [insns EXCEPT ![nextInsn] = d]
    /\ users' = AttachUser(users, nextInsn, d)
    /\ nextInsn' = nextInsn + 1

\* Mutant: replace_insn without the loop that drops the old operands' edges.
ReplaceInsnNoDetach(i, d) ==
    /\ i \in Allocated
    /\ insns' = [insns EXCEPT ![i] = d]
    /\ users' = AttachUser(users, i, d)
    /\ UNCHANGED nextInsn

\* replace_insn: drop the old operands' edges, store, attach_user.
ReplaceInsn(i, d) ==
    /\ i \in Allocated
    /\ insns' = [insns EXCEPT ![i] = d]
    /\ users' = AttachUser(RemoveUsers(users, ArgSet(insns[i]), i), i, d)
    /\ UNCHANGED nextInsn

\* Mutant: replace_insn_arg drops the old edge even when the old value
\* still occurs at another position.
ReplaceInsnArgAlwaysDrop(i, newArg, idx) ==
    /\ i \in Allocated
    /\ idx \in DOMAIN insns[i].args
    /\ LET old == insns[i].args[idx]
       IN  /\ insns' = [insns EXCEPT ![i].args[idx] = newArg]
           /\ users' = [v \in Value |->
                          IF v = newArg THEN users[v] \cup {i}
                          ELSE IF v = old THEN users[v] \ {i} ELSE users[v]]
    /\ UNCHANGED nextInsn

\* replace_insn_arg: add the new edge, swap, drop the old edge only when
\* the old value no longer occurs among the operands.
ReplaceInsnArg(i, newArg, idx) ==
    /\ i \in Allocated
    /\ idx \in DOMAIN insns[i].args
    /\ LET old == insns[i].args[idx]
           newArgs == [insns[i].args EXCEPT ![idx] = newArg]
       IN  /\ insns' = [insns EXCEPT ![i].args = newArgs]
           /\ users' = [v \in Value |->
                          IF v = newArg THEN users[v] \cup {i}
                          ELSE IF v = old /\ old \notin Elems(newArgs)
                               THEN users[v] \ {i}
                               ELSE users[v]]
    /\ UNCHANGED nextInsn

\* change_to_alias: take users[value], rewrite those instructions' operands
\* and append the taken set to users[alias].
ChangeToAlias(value, alias) ==
    LET taken == users[value]
    IN  /\ insns' = [i \in InsnId |->
                       IF i \in taken
                       THEN [insns[i] EXCEPT !.args = Subst(@, value, alias)]
                       ELSE insns[i]]
        /\ users' = [v \in Value |->
                       IF v = alias THEN users[alias] \cup taken
                       ELSE IF v = value THEN {} ELSE users[v]]
        /\ UNCHANGED nextInsn

\* append_phi_arg: push (value, block) and attach_user for all operands.
AppendPhiArg(i, v, b) ==
    /\ i \in Allocated
    /\ insns[i].kind = "Phi"
    /\ Len(insns[i].args) < MaxArgs
    /\ LET d == [insns[i] EXCEPT !.args = Append(@, v), !.blocks = Append(@, b)]
       IN  /\ insns' = [insns EXCEPT ![i] = d]
           /\ users' = AttachUser(users, i, d)
    /\ UNCHANGED nextInsn

\* rewrite_branch_dest: rename a destination, operands untouched.
RewriteBranchDest(i, from, to) ==
    /\ i \in Allocated
    /\ insns[i].kind \in {"Jump", "Branch", "BrTable"}
    /\ insns' = [insns EXCEPT ![i].blocks = Subst(@, from, to),
                              ![i].dflt = IF @ = from THEN to ELSE @]
    /\ UNCHANGED <<nextInsn, users>>

\* remove_phi_arg: drop the first entry that flows from  from  and remove
\* the phi from the users of the value that entry carried.
RemovePhiArg(i, from) ==
    /\ i \in Allocated
    /\ insns[i].kind = "Phi"
    /\ from \in Elems(insns[i].blocks)
    /\ LET d == insns[i]
           pos == CHOOSE k \in DOMAIN d.blocks :
                    /\ d.blocks[k] = from
                    /\ \A j \in 1 .. (k - 1) : d.blocks[j] # from
           removed == d.args[pos]
       IN  /\ insns' = [insns EXCEPT ![i].args = DropAt(@, pos),
                                     ![i].blocks = DropAt(@, pos)]
           /\ users' = [users EXCEPT ![removed] = @ \ {i}]
    /\ UNCHANGED nextInsn

\* remove_branch_dest on a Branch: keep the other destination, drop the
\* condition's edge, become a Jump.  (A dest that is not found panics.)
RemoveBranchDestBr(i, dest) ==
    LET d == insns[i]
        remain == IF d.blocks[1] = dest THEN d.blocks[2] ELSE d.blocks[1]
    IN  /\ d.kind = "Branch"
        /\ dest \in Elems(d.blocks)
        /\ insns' = [insns EXCEPT ![i] = JumpData(remain)]
        /\ users' = [users EXCEPT ![d.args[1]] = @ \ {i}]

\* The table positions of a BrTable whose block is not  dest.
KeptPos(d, dest) == {k \in DOMAIN d.blocks : d.blocks[k] # dest}

\* The rank of position  k  among the positions  S: how many are <= k.
PosRank(S, k) == Cardinality({m \in S : m <= k})

\* The (block, case value) entries of a BrTable whose block is not  dest,
\* in table order (the "keep" side of the partition): the j-th one is the
\* kept position of rank j.  This is SelectSeq over the zipped table,
\* written without recursion.
KeptEntries(d, dest) ==
    LET K == KeptPos(d, dest)
    IN  [j \in 1 .. Cardinality(K) |->
           LET k == CHOOSE k \in K : PosRank(K, k) = j
           IN  <<d.blocks[k], d.args[k + 1]>>]

\* Mutant: the condition  lhs  is not put back in front of the kept values.
TableKeepNoLhs(d, dest) ==
    LET keep == KeptEntries(d, dest)
    IN  [d EXCEPT !.args = [j \in DOMAIN keep |-> keep[j][2]],
                  !.blocks = [j \in DOMAIN keep |-> keep[j][1]]]

\* The BrTable without the entries to  dest: the table is partitioned, the
\* kept pairs unzipped and the condition re-inserted at the front.
TableKeep(d, dest) ==
    LET keep == KeptEntries(d, dest)
    IN  [d EXCEPT !.args = <<d.args[1]>> \o [j \in DOMAIN keep |-> keep[j][2]],
                  !.blocks = [j \in DOMAIN keep |-> keep[j][1]]]

\* remove_branch_dest on a BrTable: a matching default is cleared; else the
\* matching (block, case value) entries are dropped, with the users edge of
\* every dropped case value.  Then, if one destination is left, all operand
\* edges are dropped and the instruction becomes a Jump.
RemoveBranchDestBrTable(i, dest) ==
    LET d == insns[i]
        dropVals == {d.args[k + 1] : k \in {j \in DOMAIN d.blocks : d.blocks[j] = dest}}
        mid == IF d.dflt = dest THEN [d EXCEPT !.dflt = NoBlock] ELSE TableKeep(d, dest)
        midUsers == IF d.dflt = dest THEN users ELSE RemoveUsers(users, dropVals, i)
        destsNum == Len(mid.blocks) + (IF mid.dflt = NoBlock THEN 0 ELSE 1)
        only == IF mid.dflt = NoBlock THEN mid.blocks[1] ELSE mid.dflt
    IN  /\ d.kind = "BrTable"
        /\ IF destsNum = 1
           THEN /\ insns' = [insns EXCEPT ![i] = JumpData(only)]
                /\ users' = RemoveUsers(midUsers, ArgSet(mid), i)
           ELSE /\ insns' = [insns EXCEPT ![i] = mid]
                /\ users' = midUsers

RemoveBranchDest(i, dest) ==
    /\ i \in Allocated
    /\ RemoveBranchDestBr(i, dest) \/ RemoveBranchDestBrTable(i, dest)
    /\ UNCHANGED nextInsn

-----------------------------------------------------------------------------

\* The rewrites the SSA builder and the value-level passes use.
RewriteNext ==
    \/ \E d \in InsnInputs : MakeInsn(d)
    \/ \E i \in InsnId, d \in InsnInputs : ReplaceInsn(i, d)
    \/ \E i \in InsnId, v \in Value, k \in 1 .. MaxArgs : ReplaceInsnArg(i, v, k)
    \/ \E v, a \in Value : ChangeToAlias(v, a)
    \/ \E i \in InsnId, v \in Value, b \in Block : AppendPhiArg(i, v, b)
    \/ \E i \in InsnId, b, c \in Block : RewriteBranchDest(i, b, c)

\* The CFG edits that remove an edge.
EdgeNext ==
    \/ \E i \in InsnId, b \in Block : RemovePhiArg(i, b)
    \/ \E i \in InsnId, b \in Block : RemoveBranchDest(i, b)

Next == RewriteNext \/ EdgeNext

RewriteSpec == Init /\ [][RewriteNext]_vars
Spec == Init /\ [][Next]_vars

-----------------------------------------------------------------------------

\* The InsnData values of the model.
InsnType ==
    {d \in [kind : Kinds, args : Seq(Value), blocks : Seq(Block),
            dflt : Block \cup {NoBlock}] : WellFormed(d)}

\* Type invariant.
TypeOK ==
    /\ nextInsn \in 1 .. (MaxInsn + 1)
    /\ insns \in [InsnId -> InsnType]
    /\ \A i \in InsnId \ Allocated : insns[i] = NoInsn
    /\ users \in [Value -> SUBSET InsnId]

\* The central rewrite invariant (spec section 8, "user-set consistency"):
\* users(v) is exactly the set of live instructions that reference v.
\* change_to_alias relies on it: it only rewrites the instructions that
\* users(old) names.
UsersConsistent ==
    \A v \in Value, i \in InsnId :
        i \in users[v] <=> (i \in Allocated /\ v \in ArgSet(insns[i]))

\* The half of user-set consistency that every DFG mutator keeps: a value
\* never lists an instruction that no longer references it.
NoPhantomUser ==
    \A v \in Value : \A i \in users[v] : i \in Allocated /\ v \in ArgSet(insns[i])

\* remove_phi_arg keeps user sets consistent (spec 4.2: "mutate phi entries
\* and user-sets consistently").
RemovePhiArgKeepsUsers ==
    [][\A i \in InsnId, b \in Block :
         RemovePhiArg(i, b) /\ UsersConsistent => UsersConsistent']_vars

\* remove_branch_dest keeps user sets consistent.
RemoveBranchDestKeepsUsers ==
    [][\A i \in InsnId, b \in Block :
         RemoveBranchDest(i, b) /\ UsersConsistent => UsersConsistent']_vars

\* After remove_branch_dest(insn, b) on a BrTable, b is no longer one of its
\* destinations: the matching case entries are removed and a matching
\* default becomes absent (spec 4.2).
RemovedDestGone ==
    [][\A i \in InsnId, b \in Block :
         insns[i].kind = "BrTable" /\ RemoveBranchDest(i, b)
             => b \notin Dests(insns'[i])]_vars
=============================================================================
