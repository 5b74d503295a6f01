--------------------------- MODULE ModuleLifecycle ---------------------------
(***************************************************************************)
(* The life of a shared ModuleBuilder (crates/ir/src/builder/              *)
(* module_builder.rs, crates/ir/src/module.rs) around the concurrent       *)
(* declare_function calls of module ModuleBuilder: each thread holds a     *)
(* clone of the builder (the Arc<FuncStore> it shares); once its call has  *)
(* returned it may reach the Function behind the FuncRef it got            *)
(* (FuncStore::view, modify or update, each unwrapping the DashMap entry)  *)
(* and then drops its clone.  The owner calls ModuleBuilder::build, which  *)
(* unwraps Arc::into_inner(funcs) and so panics while a clone is alive,    *)
(* and lists the Module's functions with Module::funcs.                    *)
(***************************************************************************)
EXTENDS ModuleBuilder

VARIABLES
    used,       \* per thread: "no", "ok", or "panic" (an unwrap failed)
    held,       \* the threads still holding a clone of the builder
    mstate,     \* the owner: "building", "built", or "panic"
    listed      \* what Module::funcs() returned; NoRef before the call

lvars == <<vars, used, held, mstate, listed>>

LInit ==
    /\ Init
    /\ used = [t \in Thread |-> "no"]
    /\ held = Thread
    /\ mstate = "building"
    /\ listed = NoRef

\* Through the thread's clone, after declare_function returned: a DashMap
\* entry access on the thread's FuncRef, unwrapped.
UnwrapEntry(t) ==
    /\ pc[t] = "done"
    /\ t \in held
    /\ used[t] = "no"
    /\ used' = [used EXCEPT ![t] = IF funcs[ret[t]] = NoThread THEN "panic" ELSE "ok"]
    /\ UNCHANGED <<vars, held, mstate, listed>>

\* FuncStore::update: funcs.insert(func_ref, func).unwrap() replaces the
\* entry and unwraps the Function it displaced.
Update(t) == UnwrapEntry(t)

\* ModuleBuilder::sig: FuncStore::view(func_ref, ..), unwrapped.
View(t) == UnwrapEntry(t)

\* FuncStore::modify: funcs.get_mut(&func_ref).unwrap().
Modify(t) == UnwrapEntry(t)

\* The thread's clone goes out of scope.
DropClone(t) ==
    /\ pc[t] = "done"
    /\ t \in held
    /\ held' = held \ {t}
    /\ UNCHANGED <<vars, used, mstate, listed>>

\* Mutant: build() takes the store without the Arc::into_inner check.
BuildNoUnwrap ==
    /\ mstate = "building"
    /\ mstate' = "built"
    /\ UNCHANGED <<vars, used, held, listed>>

\* ModuleBuilder::build: Arc::into_inner(self.funcs).unwrap() succeeds only
\* when no clone is left.
Build ==
    /\ mstate = "building"
    /\ mstate' = IF held = {} THEN "built" ELSE "panic"
    /\ UNCHANGED <<vars, used, held, listed>>

\* Module::funcs (FuncStore::funcs): under _guard, FuncRefs 0 .. len()-1.
ModuleFuncs ==
    /\ mstate = "built"
    /\ listed = NoRef
    /\ listed' = 0 .. (FuncLen - 1)
    /\ UNCHANGED <<vars, used, held, mstate>>

LNext ==
    \/ Next /\ UNCHANGED <<used, held, mstate, listed>>
    \/ \E t \in Thread : Update(t) \/ View(t) \/ Modify(t) \/ DropClone(t)
    \/ Build
    \/ ModuleFuncs

LSpec == LInit /\ [][LNext]_lvars

-----------------------------------------------------------------------------

\* Type invariant of the added state.
LTypeOK ==
    /\ TypeOK
    /\ used \in [Thread -> {"no", "ok", "panic"}]
    /\ held \subseteq Thread
    /\ mstate \in {"building", "built", "panic"}
    /\ listed \in (SUBSET FuncRefs) \cup {NoRef}

\* Every FuncRef declare_function returns, from a fresh insert or from a
\* declared_funcs hit raced against the inserting thread, names a present
\* DashMap entry: view, modify and update never unwrap a missing Function
\* (funcs.insert precedes declared_funcs.insert).
AccessNeverPanics == \A t \in Thread : used[t] # "panic"

\* A Module that build() returned is complete: Module::funcs lists exactly
\* the FuncRefs the declare_function calls returned, and each has its
\* Function and its signature in the module context.
ModuleComplete ==
    listed # NoRef =>
        /\ listed = {ret[t] : t \in Thread}
        /\ \A r \in listed : funcs[r] # NoThread /\ sigs[r] # NoRef
=============================================================================
