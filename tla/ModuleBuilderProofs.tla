------------------------- MODULE ModuleBuilderProofs -------------------------
(***************************************************************************)
(* Proofs that concurrent declare_function calls keep the FuncStore well   *)
(* formed: every FuncRef handed out by FuncStore::insert is in range and   *)
(* still holds the Function of the thread that inserted it, for any        *)
(* number of threads and names.                                            *)
(***************************************************************************)
EXTENDS ModuleBuilder, FiniteSetTheorems, TLAPS

USE MBAssumption

\* The occupied FuncStore slots.
Filled == {r \in FuncRefs : funcs[r] # NoThread}

\* The steps after FuncStore::insert.
Past == {"name", "sig", "done"}

\* The inductive invariant.  The occupied slots are a prefix 0 .. n-1 of
\* the FuncRefs (so that len() is the first free slot); _guard is held
\* exactly by the one thread between its two FuncStore::insert steps, and
\* that thread's FuncRef is len(); every occupied slot belongs to a thread
\* past its insert that holds that FuncRef.
IInv ==
    /\ TypeOK
    /\ \E n \in 0 .. Cardinality(Thread) : Filled = 0 .. (n - 1)
    /\ locked <=> \E t \in Thread : pc[t] = "insert"
    /\ \A u1, u2 \in Thread : pc[u1] = "insert" /\ pc[u2] = "insert" => u1 = u2
    /\ \A t \in Thread : pc[t] \in {"check", "lock"} => ref[t] = NoRef
    /\ \A t \in Thread : pc[t] = "insert" => ref[t] = FuncLen
    /\ \A t \in Thread : pc[t] \in {"name", "sig"} => ref[t] # NoRef
    /\ NoFuncLost
    /\ \A r \in Filled : pc[funcs[r]] \in Past /\ ref[funcs[r]] = r

LEMMA ThreadCard == Cardinality(Thread) \in Nat /\ FuncRefs \subseteq Nat
BY FS_CardinalityType DEF FuncRefs

\* len() of a prefix-filled store is the length of the prefix.
LEMMA LenOfPrefix ==
    ASSUME NEW n \in Nat, Filled = 0 .. (n - 1)
    PROVE  FuncLen = n
<1>1. Cardinality(0 .. (n - 1)) = n
  BY FS_Interval
<1>. QED
  BY <1>1 DEF FuncLen, Filled

\* A thread about to read len() finds a free FuncRef: the occupied slots
\* belong to distinct other threads.
LEMMA RoomForNew ==
    ASSUME IInv, NEW t \in Thread, pc[t] = "lock"
    PROVE  FuncLen \in FuncRefs
<1>1. PICK n \in 0 .. Cardinality(Thread) : Filled = 0 .. (n - 1)
  BY DEF IInv
<1>2. FuncLen = n
  BY <1>1, LenOfPrefix, ThreadCard
<1>. DEFINE Owners == {funcs[r] : r \in Filled}
            f == [u \in Owners |-> ref[u]]
<1>3. Owners \subseteq Thread \ {t}
  BY DEF IInv, TypeOK, Filled
<1>4. f \in Surjection(Owners, Filled)
  <2>1. f \in [Owners -> Filled]
    BY DEF IInv
  <2>2. \A r \in Filled : \E u \in Owners : f[u] = r
    BY DEF IInv
  <2>. QED
    BY <2>1, <2>2 DEF Surjection
<1>5. IsFiniteSet(Thread \ {t}) /\ Cardinality(Thread \ {t}) = Cardinality(Thread) - 1
  BY FS_RemoveElement
<1>6. IsFiniteSet(Owners) /\ Cardinality(Owners) <= Cardinality(Thread) - 1
  BY <1>3, <1>5, FS_Subset
<1>7. Cardinality(Filled) <= Cardinality(Owners)
  BY <1>4, <1>6, FS_Surjection
<1>8. Cardinality(Filled) = n
  BY <1>1, FS_Interval
<1>9. n <= Cardinality(Thread) - 1
  BY <1>6, <1>7, <1>8, ThreadCard, FS_CardinalityType
<1>. QED
  BY <1>2, <1>9, ThreadCard DEF FuncRefs

LEMMA InitIInv == Init => IInv
<1>. SUFFICES ASSUME Init PROVE IInv
  OBVIOUS
<1>1. Filled = 0 .. (0 - 1)
  BY DEF Init, Filled
<1>2. 0 \in 0 .. Cardinality(Thread)
  BY ThreadCard
<1>3. TypeOK
  BY DEF Init, TypeOK
<1>. QED
  BY <1>1, <1>2, <1>3 DEF Init, IInv, NoFuncLost

\* Check: declared_funcs.get moves a thread on to "done" (with ref still
\* NoRef) or to "lock"; the store is untouched.
LEMMA CheckIInv ==
    ASSUME IInv, NEW t \in Thread, Check(t)
    PROVE  IInv'
<1>1. Filled' = Filled /\ FuncLen' = FuncLen
  BY DEF Check, Filled, FuncLen
<1>2. TypeOK'
  BY DEF IInv, TypeOK, Check
<1>3. ref' = ref /\ funcs' = funcs /\ locked' = locked
  BY DEF Check
<1>4. pc' = [pc EXCEPT ![t] = "done"] \/ pc' = [pc EXCEPT ![t] = "lock"]
  BY DEF Check
<1>5. pc[t] = "check" /\ ref[t] = NoRef
  BY DEF Check, IInv
<1>6. \A u \in Thread : pc'[u] = "insert" <=> pc[u] = "insert"
  BY <1>4, <1>5 DEF IInv, TypeOK
<1>7. NoFuncLost'
  BY <1>3, <1>4, <1>5 DEF IInv, TypeOK, NoFuncLost
<1>8. \A r \in Filled : pc'[funcs[r]] \in Past /\ ref[funcs[r]] = r
  BY <1>4, <1>5 DEF IInv, TypeOK, Filled, Past
<1>9. (\A u \in Thread \ {t} : pc'[u] = pc[u]) /\ pc'[t] \in {"done", "lock"}
  BY <1>4 DEF IInv, TypeOK
<1>. QED
  BY <1>1, <1>2, <1>3, <1>5, <1>6, <1>7, <1>8, <1>9 DEF IInv

\* LockAndReadLen: the lock was free, so no thread is inserting; the new
\* FuncRef len() is in range by RoomForNew.
LEMMA LockIInv ==
    ASSUME IInv, NEW t \in Thread, LockAndReadLen(t)
    PROVE  IInv'
<1>1. Filled' = Filled /\ FuncLen' = FuncLen
  BY DEF LockAndReadLen, Filled, FuncLen
<1>2. FuncLen \in FuncRefs
  BY RoomForNew DEF LockAndReadLen
<1>3. TypeOK'
  BY <1>2 DEF IInv, TypeOK, LockAndReadLen
<1>4. \A u \in Thread : pc[u] # "insert"
  BY DEF IInv, LockAndReadLen
<1>. QED
  BY <1>1, <1>3, <1>4 DEF IInv, TypeOK, LockAndReadLen, NoFuncLost, Past

\* InsertFunc: the inserting thread fills slot len(), the first free one,
\* so the prefix grows by one and no other thread's slot is touched.
LEMMA InsertIInv ==
    ASSUME IInv, NEW t \in Thread, InsertFunc(t)
    PROVE  IInv'
<1>1. PICK n \in 0 .. Cardinality(Thread) : Filled = 0 .. (n - 1)
  BY DEF IInv
<1>2. ref[t] = n /\ n \in FuncRefs
  BY <1>1, LenOfPrefix, ThreadCard DEF IInv, InsertFunc, TypeOK
<1>3. Filled' = 0 .. n
  BY <1>1, <1>2, ThreadCard DEF IInv, TypeOK, InsertFunc, Filled
<1>4. TypeOK'
  BY <1>2 DEF IInv, TypeOK, InsertFunc
<1>5. (\E m \in 0 .. Cardinality(Thread) : Filled' = 0 .. (m - 1))
  BY <1>2, <1>3, ThreadCard DEF FuncRefs
<1>6. \A u \in Thread : u # t => pc[u] # "insert"
  BY DEF IInv, InsertFunc
<1>7. NoFuncLost'
  BY <1>1, <1>2 DEF IInv, TypeOK, InsertFunc, NoFuncLost, Filled
<1>8. \A r \in Filled' : pc'[funcs'[r]] \in Past /\ ref'[funcs'[r]] = r
  BY <1>2, <1>3, <1>1, ThreadCard DEF IInv, TypeOK, InsertFunc, Past, FuncRefs
<1>9. pc' = [pc EXCEPT ![t] = "name"] /\ ~locked' /\ ref' = ref
  BY DEF InsertFunc
<1>10. \A u \in Thread : pc'[u] # "insert"
  BY <1>6, <1>9 DEF IInv, TypeOK
<1>11. \A u \in Thread : pc'[u] \in {"check", "lock", "sig"} => pc'[u] = pc[u]
  BY <1>9 DEF IInv, TypeOK
<1>12. ref'[t] # NoRef
  BY <1>2, <1>9, ThreadCard DEF FuncRefs, MBAssumption
<1>. QED
  BY <1>4, <1>5, <1>7, <1>8, <1>9, <1>10, <1>11, <1>12 DEF IInv

\* PublishName and PublishSig move a thread between the steps after its
\* insert and write maps keyed by name and FuncRef; the store is untouched.
LEMMA PublishNameIInv ==
    ASSUME IInv, NEW t \in Thread, PublishName(t)
    PROVE  IInv'
<1>1. Filled' = Filled /\ FuncLen' = FuncLen
  BY DEF PublishName, Filled, FuncLen
<1>2. ref[t] \in FuncRefs
  BY DEF IInv, TypeOK, PublishName
<1>3. TypeOK'
  BY <1>2 DEF IInv, TypeOK, PublishName
<1>4. (\A u \in Thread \ {t} : pc'[u] = pc[u]) /\ pc'[t] = "sig" /\ pc[t] = "name"
  BY DEF IInv, TypeOK, PublishName
<1>. QED
  BY <1>1, <1>3, <1>4 DEF IInv, PublishName, NoFuncLost, Past

LEMMA PublishSigIInv ==
    ASSUME IInv, NEW t \in Thread, PublishSig(t)
    PROVE  IInv'
<1>1. Filled' = Filled /\ FuncLen' = FuncLen
  BY DEF PublishSig, Filled, FuncLen
<1>2. ref[t] \in FuncRefs
  BY DEF IInv, TypeOK, PublishSig
<1>3. TypeOK'
  BY <1>2 DEF IInv, TypeOK, PublishSig
<1>4. (\A u \in Thread \ {t} : pc'[u] = pc[u]) /\ pc'[t] = "done" /\ pc[t] = "sig"
  BY DEF IInv, TypeOK, PublishSig
<1>. QED
  BY <1>1, <1>3, <1>4 DEF IInv, PublishSig, NoFuncLost, Past

\* Every step of some thread, and every stuttering step, keeps IInv.
LEMMA StepIInv == IInv /\ [Next]_vars => IInv'
<1>. SUFFICES ASSUME IInv, [Next]_vars PROVE IInv'
  OBVIOUS
<1>1. CASE UNCHANGED vars
  BY <1>1 DEF vars, IInv, TypeOK, NoFuncLost, Filled, FuncLen
<1>2. CASE Next
  <2>. PICK t \in Thread : DeclareFunction(t)
    BY <1>2 DEF Next
  <2>. QED
    BY CheckIInv, LockIInv, InsertIInv, PublishNameIInv, PublishSigIInv
       DEF DeclareFunction
<1>. QED
  BY <1>1, <1>2

\* Type correctness of concurrent declare_function calls: every FuncRef
\* FuncStore::insert hands out (funcs.len() under _guard) is in range.
THEOREM DeclareTypeCorrect == Spec => []TypeOK
<1>1. IInv => TypeOK
  BY DEF IInv
<1>. QED
  BY InitIInv, StepIInv, <1>1, PTL DEF Spec

\* No Function is lost: however the threads' declare_function calls
\* interleave, the FuncRef each thread received still holds its Function.
THEOREM FunctionsNeverLost == Spec => []NoFuncLost
<1>1. IInv => NoFuncLost
  BY DEF IInv
<1>. QED
  BY InitIInv, StepIInv, <1>1, PTL DEF Spec

-----------------------------------------------------------------------------
(***************************************************************************)
(* Refinement of AtomicDeclare.  LockAndReadLen is a stuttering step of    *)
(* the abstract specification (the abstract thread is still at "lock");    *)
(* InsertFunc is the abstract atomic Insert, because it fills slot len().  *)
(***************************************************************************)

\* InsertFunc makes len() grow by one from the inserting thread's FuncRef.
LEMMA InsertGrows ==
    ASSUME IInv, NEW t \in Thread, InsertFunc(t)
    PROVE  \E n \in Nat : FuncLen = n /\ FuncLen' = n + 1 /\ ref[t] = n
<1>1. PICK n \in 0 .. Cardinality(Thread) : Filled = 0 .. (n - 1)
  BY DEF IInv
<1>2. FuncLen = n /\ ref[t] = n /\ n \in FuncRefs
  BY <1>1, LenOfPrefix, ThreadCard DEF IInv, InsertFunc, TypeOK
<1>3. Filled' = 0 .. n
  BY <1>1, <1>2, ThreadCard DEF IInv, TypeOK, InsertFunc, Filled
<1>4. FuncLen' = n + 1
  <2>1. Cardinality(0 .. n) = n + 1
    BY <1>2, ThreadCard, FS_Interval
  <2>. QED
    BY <1>3, <2>1 DEF FuncLen, Filled
<1>. QED
  BY <1>2, <1>4, ThreadCard

LEMMA InitRefines == Init => AD!Init
<1>. SUFFICES ASSUME Init PROVE AD!Init
  OBVIOUS
<1>1. Filled = {}
  BY DEF Init, Filled
<1>2. FuncLen = 0
  BY <1>1, FS_EmptySet DEF FuncLen, Filled
<1>3. storeBar = [r \in {} |-> Thread]
  BY <1>2 DEF storeBar
<1>4. pcBar = [t \in Thread |-> "check"] /\ refBar = [t \in Thread |-> NoRef]
  BY DEF Init, pcBar, refBar
<1>. QED
  BY <1>2, <1>3, <1>4 DEF Init, AD!Init, FuncRefs

LEMMA CheckRefines ==
    ASSUME IInv, NEW t \in Thread, Check(t)
    PROVE  AD!Check(t)
<1>1. storeBar' = storeBar /\ FuncLen' = FuncLen
  BY DEF Check, storeBar, FuncLen
<1>2. pc[t] = "check" /\ pcBar[t] = "check"
  BY DEF Check, pcBar
<1>3. refBar' = refBar
  BY DEF IInv, TypeOK, Check, refBar
<1>4. CASE nameMap[callName[t]] # NoRef
  <2>1. pcBar' = [pcBar EXCEPT ![t] = "done"]
    BY <1>4 DEF IInv, TypeOK, Check, pcBar
  <2>. QED
    BY <1>1, <1>2, <1>3, <1>4, <2>1 DEF Check, AD!Check
<1>5. CASE nameMap[callName[t]] = NoRef
  <2>1. pcBar' = [pcBar EXCEPT ![t] = "lock"]
    BY <1>5 DEF IInv, TypeOK, Check, pcBar
  <2>. QED
    BY <1>1, <1>2, <1>3, <1>5, <2>1 DEF Check, AD!Check
<1>. QED
  BY <1>4, <1>5

LEMMA LockRefines ==
    ASSUME IInv, NEW t \in Thread, LockAndReadLen(t)
    PROVE  UNCHANGED AD!vars
<1>1. storeBar' = storeBar /\ FuncLen' = FuncLen
  BY DEF LockAndReadLen, storeBar, FuncLen
<1>2. pcBar' = pcBar
  BY DEF IInv, TypeOK, LockAndReadLen, pcBar
<1>3. refBar' = refBar
  BY DEF IInv, TypeOK, LockAndReadLen, refBar
<1>. QED
  BY <1>1, <1>2, <1>3 DEF LockAndReadLen, AD!vars

LEMMA InsertRefines ==
    ASSUME IInv, NEW t \in Thread, InsertFunc(t)
    PROVE  AD!Insert(t)
<1>1. PICK n \in Nat : FuncLen = n /\ FuncLen' = n + 1 /\ ref[t] = n
  BY InsertGrows
<1>2. n \in FuncRefs /\ 0 .. n \subseteq FuncRefs
  BY <1>1, ThreadCard DEF IInv, TypeOK, InsertFunc, FuncRefs
<1>3. storeBar' = [r \in 0 .. FuncLen |-> IF r = FuncLen THEN t ELSE storeBar[r]]
  BY <1>1, <1>2 DEF IInv, TypeOK, InsertFunc, storeBar
<1>4. refBar' = [refBar EXCEPT ![t] = FuncLen]
  BY <1>1 DEF IInv, TypeOK, InsertFunc, refBar
<1>5. pcBar[t] = "lock" /\ pcBar' = [pcBar EXCEPT ![t] = "name"]
  BY DEF IInv, TypeOK, InsertFunc, pcBar
<1>. QED
  BY <1>1, <1>3, <1>4, <1>5 DEF InsertFunc, AD!Insert

LEMMA PublishNameRefines ==
    ASSUME IInv, NEW t \in Thread, PublishName(t)
    PROVE  AD!PublishName(t)
<1>1. storeBar' = storeBar /\ FuncLen' = FuncLen /\ refBar' = refBar
  BY DEF IInv, TypeOK, PublishName, storeBar, FuncLen, refBar
<1>2. pcBar[t] = "name" /\ pcBar' = [pcBar EXCEPT ![t] = "sig"] /\ refBar[t] = ref[t]
  BY DEF IInv, TypeOK, PublishName, pcBar, refBar
<1>. QED
  BY <1>1, <1>2 DEF PublishName, AD!PublishName

LEMMA PublishSigRefines ==
    ASSUME IInv, NEW t \in Thread, PublishSig(t)
    PROVE  AD!PublishSig(t)
<1>1. storeBar' = storeBar /\ FuncLen' = FuncLen /\ refBar' = refBar
  BY DEF IInv, TypeOK, PublishSig, storeBar, FuncLen, refBar
<1>2. pcBar[t] = "sig" /\ pcBar' = [pcBar EXCEPT ![t] = "done"] /\ refBar[t] = ref[t]
  BY DEF IInv, TypeOK, PublishSig, pcBar, refBar
<1>. QED
  BY <1>1, <1>2 DEF PublishSig, AD!PublishSig

\* Every step of ModuleBuilder is a step of AtomicDeclare or leaves the
\* abstract state unchanged.
LEMMA StepRefines == IInv /\ [Next]_vars => [AD!Next]_AD!vars
<1>. SUFFICES ASSUME IInv, [Next]_vars PROVE [AD!Next]_AD!vars
  OBVIOUS
<1>1. CASE UNCHANGED vars
  BY <1>1 DEF vars, AD!vars, pcBar, refBar, storeBar, FuncLen
<1>2. CASE Next
  <2>. PICK t \in Thread : DeclareFunction(t)
    BY <1>2 DEF Next
  <2>. QED
    BY CheckRefines, LockRefines, InsertRefines, PublishNameRefines,
       PublishSigRefines DEF DeclareFunction, AD!Next
<1>. QED
  BY <1>1, <1>2

\* declare_function is linearizable: the lock-protected len-then-insert of
\* FuncStore::insert implements an atomic append that returns the new
\* Function's position, for any number of threads and names.
THEOREM DeclareRefinesAtomic == Spec => AtomicDeclareSpec
<1>. QED
  BY InitIInv, StepIInv, InitRefines, StepRefines, PTL
     DEF Spec, AtomicDeclareSpec, AD!Spec
=============================================================================
