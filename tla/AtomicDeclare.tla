---------------------------- MODULE AtomicDeclare ----------------------------
(***************************************************************************)
(* What FuncStore::insert promises to ModuleBuilder::declare_function      *)
(* (crates/ir/src/module.rs, crates/ir/src/builder/module_builder.rs):     *)
(* inserting a Function is one atomic step that appends it to the store   *)
(* and hands back its position as the FuncRef.  The store holds  size     *)
(* Functions at FuncRefs 0 .. size-1; there is no lock and no separate     *)
(* read of len().  ModuleBuilder is shown to implement this               *)
(* specification.                                                         *)
(***************************************************************************)
EXTENDS Naturals

CONSTANTS Thread, Name, NoRef, Ref   \* Ref: the FuncRefs the threads can obtain

VARIABLES
    pc,         \* "check", "lock", "name", "sig" or "done"
    callName,   \* the name each thread declares
    ref,        \* the FuncRef a thread's insert returned
    ret,        \* the FuncRef declare_function returned
    size,       \* the number of Functions in the store
    store,      \* FuncRef -> Function, over 0 .. size-1
    nameMap,    \* declared_funcs: name -> FuncRef
    sigs        \* ctx.declared_funcs: FuncRef -> name

vars == <<pc, callName, ref, ret, size, store, nameMap, sigs>>

Init ==
    /\ pc = [t \in Thread |-> "check"]
    /\ callName \in [Thread -> Name]
    /\ ref = [t \in Thread |-> NoRef]
    /\ ret = [t \in Thread |-> NoRef]
    /\ size = 0
    /\ store = [r \in {} |-> Thread]
    /\ nameMap = [n \in Name |-> NoRef]
    /\ sigs = [r \in Ref |-> NoRef]

\* declared_funcs.get(name): a hit returns the FuncRef stored for the name.
Check(t) ==
    /\ pc[t] = "check"
    /\ IF nameMap[callName[t]] # NoRef
       THEN /\ ret' = [ret EXCEPT ![t] = nameMap[callName[t]]]
            /\ pc' = [pc EXCEPT ![t] = "done"]
       ELSE /\ pc' = [pc EXCEPT ![t] = "lock"]
            /\ UNCHANGED ret
    /\ UNCHANGED <<callName, ref, size, store, nameMap, sigs>>

\* FuncStore::insert as one step: the Function goes to the first free
\* FuncRef, size, which is handed back.
Insert(t) ==
    /\ pc[t] = "lock"
    /\ size' = size + 1
    /\ store' = [r \in 0 .. size |-> IF r = size THEN t ELSE store[r]]
    /\ ref' = [ref EXCEPT ![t] = size]
    /\ pc' = [pc EXCEPT ![t] = "name"]
    /\ UNCHANGED <<callName, ret, nameMap, sigs>>

\* declared_funcs.insert(name, func_ref).
PublishName(t) ==
    /\ pc[t] = "name"
    /\ nameMap' = [nameMap EXCEPT ![callName[t]] = ref[t]]
    /\ pc' = [pc EXCEPT ![t] = "sig"]
    /\ UNCHANGED <<callName, ref, ret, size, store, sigs>>

\* ctx.declared_funcs.insert(func_ref, sig); return func_ref.
PublishSig(t) ==
    /\ pc[t] = "sig"
    /\ sigs' = [sigs EXCEPT ![ref[t]] = callName[t]]
    /\ ret' = [ret EXCEPT ![t] = ref[t]]
    /\ pc' = [pc EXCEPT ![t] = "done"]
    /\ UNCHANGED <<callName, ref, size, store, nameMap>>

Next ==
    \E t \in Thread :
        Check(t) \/ Insert(t) \/ PublishName(t) \/ PublishSig(t)

Spec == Init /\ [][Next]_vars
=============================================================================
