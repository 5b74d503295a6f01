------------------------ MODULE ModuleLifecycleProofs ------------------------
(***************************************************************************)
(* Proofs that a shared ModuleBuilder is used safely around its concurrent *)
(* declare_function calls: no FuncRef a call returns is ever missing from  *)
(* the FuncStore when it is viewed, modified or updated, and a Module that *)
(* build() returns lists exactly the declared functions, each with its     *)
(* signature, for any number of threads and names.                         *)
(***************************************************************************)
EXTENDS ModuleLifecycle, ModuleBuilderProofs, TLAPS

USE MBAssumption

\* The inductive invariant.  Beyond IInv of ModuleBuilder: a published name
\* and a returned FuncRef name occupied slots; a thread that inserted and
\* returned, returned its own FuncRef after publishing its signature; only
\* threads that returned have dropped their clone; build() succeeded only
\* when every clone was dropped; and the listing is the occupied slots.
LIInv ==
    /\ IInv
    /\ used \in [Thread -> {"no", "ok", "panic"}]
    /\ held \subseteq Thread
    /\ mstate \in {"building", "built", "panic"}
    /\ listed \in (SUBSET FuncRefs) \cup {NoRef}
    /\ \A n \in Name : nameMap[n] # NoRef => nameMap[n] \in Filled
    /\ \A t \in Thread : pc[t] = "done" => ret[t] \in Filled
    /\ \A t \in Thread : pc[t] = "done" /\ ref[t] # NoRef =>
                            ret[t] = ref[t] /\ sigs[ref[t]] # NoRef
    /\ AccessNeverPanics
    /\ \A t \in Thread \ held : pc[t] = "done"
    /\ mstate = "built" => held = {}
    /\ listed # NoRef => mstate = "built" /\ listed = Filled

\* Once Module::funcs has been called, every declare_function call has
\* returned: build() succeeded, so every clone was dropped after its call.
LEMMA AllDoneWhenListed ==
    ASSUME LIInv, listed # NoRef
    PROVE  \A t \in Thread : pc[t] = "done"
BY DEF LIInv

\* A thread that has not returned still holds its clone.
LEMMA NotDoneHeld ==
    ASSUME LIInv, NEW t \in Thread, pc[t] # "done"
    PROVE  t \in held
BY DEF LIInv

LEMMA LInitLIInv == LInit => LIInv
<1>. SUFFICES ASSUME LInit PROVE LIInv
  OBVIOUS
<1>1. IInv
  BY InitIInv DEF LInit
<1>2. \A n \in Name : nameMap[n] = NoRef
  BY DEF LInit, Init
<1>3. \A t \in Thread : pc[t] = "check"
  BY DEF LInit, Init
<1>. QED
  BY <1>1, <1>2, <1>3 DEF LInit, LIInv, AccessNeverPanics

\* The declare_function steps leave the clones, the owner and the accesses
\* alone; the occupied slots only grow, and the new facts are kept because
\* a name is published, and a FuncRef returned, only after its insert.
LEMMA CheckLIInv ==
    ASSUME LIInv, NEW t \in Thread, Check(t),
           UNCHANGED <<used, held, mstate, listed>>
    PROVE  LIInv'
<1>1. IInv'
  BY CheckIInv DEF LIInv
<1>2. Filled' = Filled /\ nameMap' = nameMap /\ ref' = ref /\ sigs' = sigs
  BY DEF Check, Filled
<1>3. pc[t] = "check" /\ ref[t] = NoRef /\ t \in held
  BY NotDoneHeld DEF Check, LIInv, IInv
<1>4. \A u \in Thread \ {t} : pc'[u] = pc[u] /\ ret'[u] = ret[u]
  BY DEF Check, LIInv, IInv, TypeOK
<1>5. pc'[t] = "done" => ret'[t] \in Filled
  BY DEF Check, LIInv, IInv, TypeOK
<1>6. listed = NoRef
  BY <1>3, AllDoneWhenListed
<1>. QED
  BY <1>1, <1>2, <1>3, <1>4, <1>5, <1>6 DEF LIInv, AccessNeverPanics

LEMMA LockLIInv ==
    ASSUME LIInv, NEW t \in Thread, LockAndReadLen(t),
           UNCHANGED <<used, held, mstate, listed>>
    PROVE  LIInv'
<1>1. IInv'
  BY LockIInv DEF LIInv
<1>2. Filled' = Filled /\ nameMap' = nameMap /\ ret' = ret /\ sigs' = sigs
  BY DEF LockAndReadLen, Filled
<1>3. pc[t] = "lock" /\ t \in held
  BY NotDoneHeld DEF LockAndReadLen
<1>4. (\A u \in Thread \ {t} : pc'[u] = pc[u] /\ ref'[u] = ref[u]) /\ pc'[t] = "insert"
  BY DEF LockAndReadLen, LIInv, IInv, TypeOK
<1>5. listed = NoRef
  BY <1>3, AllDoneWhenListed
<1>. QED
  BY <1>1, <1>2, <1>3, <1>4, <1>5 DEF LIInv, AccessNeverPanics

LEMMA InsertLIInv ==
    ASSUME LIInv, NEW t \in Thread, InsertFunc(t),
           UNCHANGED <<used, held, mstate, listed>>
    PROVE  LIInv'
<1>1. IInv'
  BY InsertIInv DEF LIInv
<1>2. Filled \subseteq Filled'
  BY DEF InsertFunc, LIInv, IInv, TypeOK, Filled, MBAssumption
<1>3. nameMap' = nameMap /\ ret' = ret /\ sigs' = sigs /\ ref' = ref
  BY DEF InsertFunc
<1>4. pc[t] = "insert" /\ t \in held
  BY NotDoneHeld DEF InsertFunc
<1>5. (\A u \in Thread \ {t} : pc'[u] = pc[u]) /\ pc'[t] = "name"
  BY DEF InsertFunc, LIInv, IInv, TypeOK
<1>6. listed = NoRef
  BY <1>4, AllDoneWhenListed
<1>7. \A n \in Name : nameMap'[n] # NoRef => nameMap'[n] \in Filled'
  BY <1>2, <1>3 DEF LIInv
<1>8. \A u \in Thread : pc'[u] = "done" => ret'[u] \in Filled'
  BY <1>2, <1>3, <1>4, <1>5 DEF LIInv
<1>. QED
  BY <1>1, <1>3, <1>4, <1>5, <1>6, <1>7, <1>8 DEF LIInv, AccessNeverPanics

\* PublishName publishes a FuncRef whose slot the thread itself filled.
LEMMA PublishNameLIInv ==
    ASSUME LIInv, NEW t \in Thread, PublishName(t),
           UNCHANGED <<used, held, mstate, listed>>
    PROVE  LIInv'
<1>1. IInv'
  BY PublishNameIInv DEF LIInv
<1>2. Filled' = Filled /\ ret' = ret /\ sigs' = sigs /\ ref' = ref
  BY DEF PublishName, Filled
<1>3. pc[t] = "name" /\ t \in held
  BY NotDoneHeld DEF PublishName
<1>4. ref[t] \in Filled
  BY <1>3 DEF LIInv, IInv, TypeOK, NoFuncLost, Filled, MBAssumption
<1>5. \A n \in Name : nameMap'[n] # NoRef => nameMap'[n] \in Filled'
  BY <1>2, <1>4 DEF PublishName, LIInv, IInv, TypeOK
<1>6. (\A u \in Thread \ {t} : pc'[u] = pc[u]) /\ pc'[t] = "sig"
  BY DEF PublishName, LIInv, IInv, TypeOK
<1>7. listed = NoRef
  BY <1>3, AllDoneWhenListed
<1>. QED
  BY <1>1, <1>2, <1>3, <1>5, <1>6, <1>7 DEF LIInv, AccessNeverPanics

\* PublishSig records the signature, then returns the thread's own FuncRef.
LEMMA PublishSigLIInv ==
    ASSUME LIInv, NEW t \in Thread, PublishSig(t),
           UNCHANGED <<used, held, mstate, listed>>
    PROVE  LIInv'
<1>1. IInv'
  BY PublishSigIInv DEF LIInv
<1>2. Filled' = Filled /\ nameMap' = nameMap /\ ref' = ref
  BY DEF PublishSig, Filled
<1>3. pc[t] = "sig" /\ t \in held
  BY NotDoneHeld DEF PublishSig
<1>4. ref[t] \in Filled /\ ref[t] \in FuncRefs
  BY <1>3 DEF LIInv, IInv, TypeOK, NoFuncLost, Filled, MBAssumption
<1>5. ret' = [ret EXCEPT ![t] = ref[t]] /\ sigs' = [sigs EXCEPT ![ref[t]] = callName[t]]
  BY DEF PublishSig
<1>6. sigs'[ref[t]] # NoRef /\ \A r \in FuncRefs : sigs[r] # NoRef => sigs'[r] # NoRef
  BY <1>4, <1>5 DEF LIInv, IInv, TypeOK, MBAssumption
<1>7. (\A u \in Thread \ {t} : pc'[u] = pc[u]) /\ pc'[t] = "done"
  BY DEF PublishSig, LIInv, IInv, TypeOK
<1>8. \A u \in Thread : pc'[u] = "done" => ret'[u] \in Filled'
  BY <1>2, <1>4, <1>5, <1>7 DEF LIInv, IInv, TypeOK
<1>9. \A u \in Thread : pc'[u] = "done" /\ ref'[u] # NoRef =>
                          ret'[u] = ref'[u] /\ sigs'[ref'[u]] # NoRef
  BY <1>2, <1>5, <1>6, <1>7 DEF LIInv, IInv, TypeOK
<1>10. listed = NoRef
  BY <1>3, AllDoneWhenListed
<1>. QED
  BY <1>1, <1>2, <1>3, <1>7, <1>8, <1>9, <1>10 DEF LIInv, AccessNeverPanics

\* An access through a returned FuncRef finds its entry: the slot is filled.
LEMMA UnwrapLIInv ==
    ASSUME LIInv, NEW t \in Thread, UnwrapEntry(t)
    PROVE  LIInv'
<1>1. ret[t] \in Filled
  BY DEF UnwrapEntry, LIInv
<1>2. used' = [used EXCEPT ![t] = "ok"]
  BY <1>1 DEF UnwrapEntry, Filled
<1>3. UNCHANGED <<vars, held, mstate, listed>>
  BY DEF UnwrapEntry
<1>4. IInv' /\ Filled' = Filled
  BY <1>3, StepIInv DEF LIInv, vars, Filled
<1>. QED
  BY <1>2, <1>3, <1>4 DEF vars, LIInv, AccessNeverPanics

\* A clone is dropped only after the thread's call returned.
LEMMA DropLIInv ==
    ASSUME LIInv, NEW t \in Thread, DropClone(t)
    PROVE  LIInv'
<1>1. UNCHANGED <<vars, used, mstate, listed>> /\ held' = held \ {t}
  BY DEF DropClone
<1>2. IInv' /\ Filled' = Filled
  BY <1>1, StepIInv DEF LIInv, vars, Filled
<1>3. pc[t] = "done" /\ t \in held
  BY DEF DropClone
<1>4. mstate # "built"
  BY <1>3 DEF LIInv
<1>. QED
  BY <1>1, <1>2, <1>3, <1>4 DEF vars, LIInv, AccessNeverPanics

\* build() returns a Module only when no clone is left.
LEMMA BuildLIInv ==
    ASSUME LIInv, Build
    PROVE  LIInv'
<1>1. UNCHANGED <<vars, used, held, listed>>
  BY DEF Build
<1>2. IInv' /\ Filled' = Filled
  BY <1>1, StepIInv DEF LIInv, vars, Filled
<1>3. mstate' = "built" => held = {}
  BY DEF Build
<1>4. listed = NoRef
  BY DEF Build, LIInv
<1>. QED
  BY <1>1, <1>2, <1>3, <1>4 DEF Build, vars, LIInv, AccessNeverPanics

\* Module::funcs lists FuncRefs 0 .. len()-1, which are the filled slots.
LEMMA ModuleFuncsLIInv ==
    ASSUME LIInv, ModuleFuncs
    PROVE  LIInv'
<1>1. UNCHANGED <<vars, used, held, mstate>>
  BY DEF ModuleFuncs
<1>2. IInv' /\ Filled' = Filled
  BY <1>1, StepIInv DEF LIInv, vars, Filled
<1>3. PICK n \in 0 .. Cardinality(Thread) : Filled = 0 .. (n - 1)
  BY DEF LIInv, IInv
<1>4. FuncLen = n
  BY <1>3, LenOfPrefix, ThreadCard
<1>5. listed' = Filled
  BY <1>3, <1>4 DEF ModuleFuncs
<1>6. Filled \subseteq FuncRefs
  BY DEF Filled
<1>. QED
  BY <1>1, <1>2, <1>5, <1>6 DEF ModuleFuncs, vars, LIInv, AccessNeverPanics

LEMMA LStepLIInv == LIInv /\ [LNext]_lvars => LIInv'
<1>. SUFFICES ASSUME LIInv, [LNext]_lvars PROVE LIInv'
  OBVIOUS
<1>1. CASE Next /\ UNCHANGED <<used, held, mstate, listed>>
  <2>. PICK t \in Thread : DeclareFunction(t)
    BY <1>1 DEF Next
  <2>. QED
    BY <1>1, CheckLIInv, LockLIInv, InsertLIInv, PublishNameLIInv,
       PublishSigLIInv DEF DeclareFunction
<1>2. CASE \E t \in Thread : Update(t) \/ View(t) \/ Modify(t) \/ DropClone(t)
  BY <1>2, UnwrapLIInv, DropLIInv DEF Update, View, Modify
<1>3. CASE Build
  BY <1>3, BuildLIInv
<1>4. CASE ModuleFuncs
  BY <1>4, ModuleFuncsLIInv
<1>5. CASE UNCHANGED lvars
  BY <1>5 DEF lvars, vars, LIInv, IInv, TypeOK, NoFuncLost, Filled, FuncLen,
     AccessNeverPanics
<1>. QED
  BY <1>1, <1>2, <1>3, <1>4, <1>5 DEF LNext

\* A listed Module is complete: with every call returned, the filled slots
\* are exactly the returned FuncRefs (each slot's owner returned its own
\* FuncRef), and each owner published its signature before returning.
LEMMA LIInvComplete == LIInv => ModuleComplete
<1>. SUFFICES ASSUME LIInv, listed # NoRef
              PROVE  /\ listed = {ret[t] : t \in Thread}
                     /\ \A r \in listed : funcs[r] # NoThread /\ sigs[r] # NoRef
  BY DEF ModuleComplete
<1>1. \A t \in Thread : pc[t] = "done"
  BY AllDoneWhenListed
<1>2. listed = Filled
  BY DEF LIInv
<1>3. \A t \in Thread : ret[t] \in Filled
  BY <1>1 DEF LIInv
<1>4. ASSUME NEW r \in Filled
      PROVE  ret[funcs[r]] = r /\ sigs[r] # NoRef /\ funcs[r] \in Thread
  <2>1. funcs[r] \in Thread /\ ref[funcs[r]] = r /\ r \in Nat
    BY DEF LIInv, IInv, TypeOK, Filled, FuncRefs
  <2>2. ref[funcs[r]] # NoRef
    BY <2>1 DEF MBAssumption
  <2>. QED
    BY <1>1, <2>1, <2>2 DEF LIInv
<1>5. Filled = {ret[t] : t \in Thread}
  BY <1>3, <1>4
<1>. QED
  BY <1>2, <1>4, <1>5 DEF Filled

\* The owner's Module is complete: however the threads' declare_function
\* calls, their accesses and their drops interleave with build(), a Module
\* that build() returned lists exactly the FuncRefs the calls returned,
\* each with its Function and its signature.
THEOREM BuiltModuleComplete == LSpec => []ModuleComplete
<1>. QED
  BY LInitLIInv, LStepLIInv, LIInvComplete, PTL DEF LSpec

\* view, modify and update never unwrap a missing Function: every FuncRef a
\* declare_function call returns, fresh or from a declared_funcs hit raced
\* against the inserting thread, names a filled FuncStore slot.
THEOREM AccessSafe == LSpec => []AccessNeverPanics
<1>1. LIInv => AccessNeverPanics
  BY DEF LIInv
<1>. QED
  BY LInitLIInv, LStepLIInv, <1>1, PTL DEF LSpec

\* Type correctness of the builder's life cycle.
THEOREM LifecycleTypeCorrect == LSpec => []LTypeOK
<1>1. LIInv => LTypeOK
  BY DEF LIInv, IInv, LTypeOK
<1>. QED
  BY LInitLIInv, LStepLIInv, <1>1, PTL DEF LSpec
=============================================================================
