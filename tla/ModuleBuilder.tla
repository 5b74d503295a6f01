---------------------------- MODULE ModuleBuilder ----------------------------
(***************************************************************************)
(* Concurrent  ModuleBuilder::declare_function                             *)
(* (crates/ir/src/builder/module_builder.rs) over the shared FuncStore    *)
(* (crates/ir/src/module.rs).  ModuleBuilder is Clone and shares its maps  *)
(* through Arc, so several threads may declare functions at once.  Each   *)
(* DashMap call is atomic; FuncStore::insert reads the length and inserts  *)
(* under its own mutex.  A thread makes one declare_function call for the *)
(* name  callName[t]; the Function it creates is identified by  t.         *)
(***************************************************************************)
EXTENDS Naturals, FiniteSets

CONSTANTS
    Thread,     \* threads holding a clone of the ModuleBuilder
    Name,       \* function names (Signature::name)
    NoRef,      \* "not present" in a map keyed by name or FuncRef
    NoThread    \* an empty FuncStore slot

ASSUME MBAssumption ==
    /\ IsFiniteSet(Thread) /\ Thread # {}
    /\ Name # {}
    /\ NoRef \notin Nat \cup Name
    /\ NoThread \notin Thread

VARIABLES
    pc,         \* where each thread is in declare_function
    callName,   \* the name each thread declares
    ref,        \* the FuncRef a thread obtained from FuncStore::insert
    ret,        \* the FuncRef declare_function returned
    funcs,      \* FuncStore.funcs: FuncRef -> Function (the creating thread)
    locked,     \* FuncStore._guard
    nameMap,    \* ModuleBuilder.declared_funcs: name -> FuncRef
    sigs        \* ModuleCtx.declared_funcs: FuncRef -> Signature (its name)

vars == <<pc, callName, ref, ret, funcs, locked, nameMap, sigs>>

FuncRefs == 0 .. (Cardinality(Thread) - 1)

\* self.funcs.len(): the number of entries in the DashMap.
FuncLen == Cardinality({r \in FuncRefs : funcs[r] # NoThread})

Init ==
    /\ pc = [t \in Thread |-> "check"]
    /\ callName \in [Thread -> Name]
    /\ ref = [t \in Thread |-> NoRef]
    /\ ret = [t \in Thread |-> NoRef]
    /\ funcs = [r \in FuncRefs |-> NoThread]
    /\ locked = FALSE
    /\ nameMap = [n \in Name |-> NoRef]
    /\ sigs = [r \in FuncRefs |-> NoRef]

\* declared_funcs.get(name): a hit returns the existing FuncRef.
Check(t) ==
    /\ pc[t] = "check"
    /\ IF nameMap[callName[t]] # NoRef
       THEN /\ ret' = [ret EXCEPT ![t] = nameMap[callName[t]]]
            /\ pc' = [pc EXCEPT ![t] = "done"]
       ELSE /\ pc' = [pc EXCEPT ![t] = "lock"]
            /\ UNCHANGED ret
    /\ UNCHANGED <<callName, ref, funcs, locked, nameMap, sigs>>

\* Mutant: FuncRef::from_u32(len + 1), an off-by-one in the handle.
LockAndReadLenOffByOne(t) ==
    /\ pc[t] = "lock"
    /\ ~locked
    /\ locked' = TRUE
    /\ ref' = [ref EXCEPT ![t] = FuncLen + 1]
    /\ pc' = [pc EXCEPT ![t] = "insert"]
    /\ UNCHANGED <<callName, ret, funcs, nameMap, sigs>>

\* Mutant: len read without taking _guard.
LockAndReadLenNoGuard(t) ==
    /\ pc[t] = "lock"
    /\ locked' = TRUE
    /\ ref' = [ref EXCEPT ![t] = FuncLen]
    /\ pc' = [pc EXCEPT ![t] = "insert"]
    /\ UNCHANGED <<callName, ret, funcs, nameMap, sigs>>

\* Mutant: declared_funcs.insert(name, func_ref) moved before
\* funcs.insert, so the name is visible while its slot is still empty.
LockAndReadLenPublishEarly(t) ==
    /\ pc[t] = "lock"
    /\ ~locked
    /\ locked' = TRUE
    /\ ref' = [ref EXCEPT ![t] = FuncLen]
    /\ nameMap' = [nameMap EXCEPT ![callName[t]] = FuncLen]
    /\ pc' = [pc EXCEPT ![t] = "insert"]
    /\ UNCHANGED <<callName, ret, funcs, sigs>>

\* FuncStore::insert, first half: take _guard, func_ref = funcs.len().
LockAndReadLen(t) ==
    /\ pc[t] = "lock"
    /\ ~locked
    /\ locked' = TRUE
    /\ ref' = [ref EXCEPT ![t] = FuncLen]
    /\ pc' = [pc EXCEPT ![t] = "insert"]
    /\ UNCHANGED <<callName, ret, funcs, nameMap, sigs>>

\* Mutant: the guard is never dropped.
InsertFuncKeepLock(t) ==
    /\ pc[t] = "insert"
    /\ funcs' = [funcs EXCEPT ![ref[t]] = t]
    /\ pc' = [pc EXCEPT ![t] = "name"]
    /\ UNCHANGED <<callName, ref, ret, nameMap, sigs, locked>>

\* Mutant: declared_funcs.insert(name, func_ref) left out.
InsertFuncSkipName(t) ==
    /\ pc[t] = "insert"
    /\ funcs' = [funcs EXCEPT ![ref[t]] = t]
    /\ locked' = FALSE
    /\ pc' = [pc EXCEPT ![t] = "sig"]
    /\ UNCHANGED <<callName, ref, ret, nameMap, sigs>>

\* FuncStore::insert, second half: funcs.insert(func_ref, func), drop _guard.
InsertFunc(t) ==
    /\ pc[t] = "insert"
    /\ funcs' = [funcs EXCEPT ![ref[t]] = t]
    /\ locked' = FALSE
    /\ pc' = [pc EXCEPT ![t] = "name"]
    /\ UNCHANGED <<callName, ref, ret, nameMap, sigs>>

\* declared_funcs.insert(name, func_ref).
PublishName(t) ==
    /\ pc[t] = "name"
    /\ nameMap' = [nameMap EXCEPT ![callName[t]] = ref[t]]
    /\ pc' = [pc EXCEPT ![t] = "sig"]
    /\ UNCHANGED <<callName, ref, ret, funcs, locked, sigs>>

\* ctx.declared_funcs.insert(func_ref, sig); return func_ref.
PublishSig(t) ==
    /\ pc[t] = "sig"
    /\ sigs' = [sigs EXCEPT ![ref[t]] = callName[t]]
    /\ ret' = [ret EXCEPT ![t] = ref[t]]
    /\ pc' = [pc EXCEPT ![t] = "done"]
    /\ UNCHANGED <<callName, ref, funcs, locked, nameMap>>

DeclareFunction(t) ==
    \/ Check(t) \/ LockAndReadLen(t) \/ InsertFunc(t)
    \/ PublishName(t) \/ PublishSig(t)

Next == \E t \in Thread : DeclareFunction(t)

\* Every thread is scheduled: each keeps taking steps while it can.
Spec == Init /\ [][Next]_vars /\ \A t \in Thread : WF_vars(DeclareFunction(t))

-----------------------------------------------------------------------------

\* Type invariant.
TypeOK ==
    /\ pc \in [Thread -> {"check", "lock", "insert", "name", "sig", "done"}]
    /\ callName \in [Thread -> Name]
    /\ ref \in [Thread -> FuncRefs \cup {NoRef}]
    /\ ret \in [Thread -> FuncRefs \cup {NoRef}]
    /\ funcs \in [FuncRefs -> Thread \cup {NoThread}]
    /\ locked \in BOOLEAN
    /\ nameMap \in [Name -> FuncRefs \cup {NoRef}]
    /\ sigs \in [FuncRefs -> Name \cup {NoRef}]

\* No Function is lost: the FuncRef a thread was handed by FuncStore::insert
\* still holds that thread's Function, whatever the other threads insert
\* meanwhile (the _guard mutex makes len-then-insert atomic).
NoFuncLost ==
    \A t \in Thread :
        pc[t] \in {"name", "sig", "done"} /\ ref[t] # NoRef => funcs[ref[t]] = t

\* Every declare_function call returns.
AllReturn == <>(\A t \in Thread : pc[t] = "done")

\* declare_function is idempotent by name (spec section 5): two calls with
\* the same name return the same FuncRef.
DeclareIdempotent ==
    \A t1, t2 \in Thread :
        /\ pc[t1] = "done" /\ pc[t2] = "done"
        /\ callName[t1] = callName[t2]
        => ret[t1] = ret[t2]

\* A name that lookup_func resolves has its signature in the module context,
\* so ctx.func_sig(lookup_func(name)) never unwraps a missing entry.
SigBeforeName ==
    \A n \in Name : nameMap[n] # NoRef => sigs[nameMap[n]] # NoRef

-----------------------------------------------------------------------------
(***************************************************************************)
(* Refinement: the two halves of FuncStore::insert and its mutex implement *)
(* the atomic insert of AtomicDeclare.  A thread holding _guard has not    *)
(* yet inserted anything in the abstract view; the store is the occupied   *)
(* slots 0 .. len()-1.                                                     *)
(***************************************************************************)
pcBar == [t \in Thread |-> IF pc[t] = "insert" THEN "lock" ELSE pc[t]]
refBar == [t \in Thread |-> IF pc[t] = "insert" THEN NoRef ELSE ref[t]]
storeBar == [r \in 0 .. (FuncLen - 1) |-> funcs[r]]

AD == INSTANCE AtomicDeclare
        WITH pc <- pcBar, ref <- refBar, size <- FuncLen, store <- storeBar,
             Ref <- FuncRefs

\* declare_function is linearizable: every interleaving of the lock, len,
\* insert and publish steps of the threads looks like a run in which each
\* FuncStore::insert appends its Function atomically and returns its index.
AtomicDeclareSpec == AD!Spec
=============================================================================
