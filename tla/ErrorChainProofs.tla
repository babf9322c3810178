-------------------------- MODULE ErrorChainProofs --------------------------
(***************************************************************************)
(* Proofs about ErrorChain, for any threads, variables and heap addresses. *)
(***************************************************************************)
EXTENDS ErrorChain, FiniteSetTheorems, TLAPS

-----------------------------------------------------------------------------
(* The inductive invariant.                                                *)

(* The local state of a thread fits the place it is at, and no two calls   *)
(* assign to one variable.                                                 *)
AtPlace ==
  \A t \in Thread :
    /\ pc[t] \in {"sub", "dispose", "free"} => cur[t] # Null
    /\ next[t] = IF pc[t] = "free" THEN cause[cur[t]] ELSE Null
    /\ pc[t] \in {"idle", "return"} => cur[t] = Null
    /\ Idle(t) <=> dest[t] = NoVar
    /\ \A u \in Thread : dest[u] = dest[t] => u = t \/ dest[t] = NoVar

(* The counter of p is exact, and it is above zero until some thread, and  *)
(* no other, has been told to dispose of p.                                *)
Exact(p) ==
  \/ Disposing(p) = {} /\ count[p] = Refs(p) /\ count[p] >= 1
  \/ Refs(p) = 0 /\ \E t \in Thread : Disposing(p) = {t}

Counted == \A p \in live \cup {Fallback} : Exact(p)

(* The causes form no cycle: in every set of payloads there is one that is *)
(* not the cause of another one of the set.                                *)
Acyclic ==
  \A S \in SUBSET live :
    S # {} => \E p \in S : \A q \in S : cause[q] # p

ChainInv ==
  /\ TypeOK
  /\ AtPlace
  /\ NoDangling
  /\ Acyclic
  /\ Counted

-----------------------------------------------------------------------------
(* Counting references.                                                    *)

(* References are finitely many.                                           *)
LEMMA RefsType ==
  ASSUME TypeOK, NEW p
  PROVE  /\ IsFiniteSet(VarsTo(p)) /\ Cardinality(VarsTo(p)) \in Nat
         /\ IsFiniteSet(CausesTo(p)) /\ Cardinality(CausesTo(p)) \in Nat
         /\ IsFiniteSet(LoopsAt(p)) /\ Cardinality(LoopsAt(p)) \in Nat
         /\ Refs(p) \in Nat
<1>1. IsFiniteSet(Var) /\ VarsTo(p) \in SUBSET Var
  BY FiniteAssumption DEF VarsTo
<1>2. IsFiniteSet(live) /\ CausesTo(p) \in SUBSET live
  BY FiniteAssumption, FS_Subset DEF TypeOK, CausesTo
<1>3. IsFiniteSet(Thread) /\ LoopsAt(p) \in SUBSET Thread
  BY FiniteAssumption DEF LoopsAt
<1>4. IsFiniteSet(VarsTo(p)) /\ IsFiniteSet(CausesTo(p)) /\ IsFiniteSet(LoopsAt(p))
  BY <1>1, <1>2, <1>3, FS_Subset
<1> QED
  BY <1>4, FS_CardinalityType DEF Refs

(* Without references there is nothing that refers.                        *)
LEMMA NoRefs ==
  ASSUME TypeOK, NEW p, Refs(p) = 0
  PROVE  VarsTo(p) = {} /\ CausesTo(p) = {} /\ LoopsAt(p) = {} /\ p # Fallback
<1>1. /\ Cardinality(VarsTo(p)) = 0 /\ Cardinality(CausesTo(p)) = 0
      /\ Cardinality(LoopsAt(p)) = 0 /\ p # Fallback
  BY RefsType DEF Refs
<1> QED
  BY <1>1, RefsType, FS_EmptySet

(* What is referred to is not being disposed of.                           *)
LEMMA Referred ==
  ASSUME TypeOK, NEW p, Exact(p),
         VarsTo(p) # {} \/ CausesTo(p) # {} \/ LoopsAt(p) # {} \/ p = Fallback
  PROVE  Disposing(p) = {} /\ count[p] = Refs(p) /\ count[p] >= 1
BY NoRefs DEF Exact

(* A set gains or loses one member.                                        *)
LEMMA Plus ==
  ASSUME NEW S, IsFiniteSet(S), NEW x, x \notin S
  PROVE  Cardinality(S \cup {x}) = Cardinality(S) + 1
BY FS_AddElement

LEMMA Minus ==
  ASSUME NEW S, IsFiniteSet(S), NEW x \in S
  PROVE  Cardinality(S \ {x}) = Cardinality(S) - 1
BY FS_RemoveElement

(* A step that neither counts nor moves a reference to p.                  *)
LEMMA Unmoved ==
  ASSUME NEW p, Exact(p), VarsTo(p)' = VarsTo(p), CausesTo(p)' = CausesTo(p),
         LoopsAt(p)' = LoopsAt(p), Disposing(p)' = Disposing(p),
         count'[p] = count[p]
  PROVE  Exact(p)'
BY DEF Exact, Refs

(* A step that moves a reference to p, or counts one.                      *)
LEMMA Moved ==
  ASSUME NEW p, Exact(p), Disposing(p) = {}, Disposing(p)' = {},
         Refs(p)' = Refs(p), count'[p] = count[p]
  PROVE  Exact(p)'
BY DEF Exact

(* A step that adds a reference to p and counts it.                        *)
LEMMA CountedOne ==
  ASSUME TypeOK, NEW p, Exact(p), Disposing(p) = {}, Disposing(p)' = {},
         Refs(p)' = Refs(p) + 1, count'[p] = count[p] + 1
  PROVE  Exact(p)'
BY RefsType DEF Exact

-----------------------------------------------------------------------------
(* At the start nothing is allocated; the fallback has its own reference.  *)
LEMMA InitChainInv == Init => ChainInv
<1> SUFFICES ASSUME Init PROVE ChainInv
  OBVIOUS
<1> USE DEF Init
<1>1. TypeOK
  BY DEF TypeOK, Object
<1>2. AtPlace /\ NoDangling /\ Acyclic
  BY DEF AtPlace, Idle, NoDangling, Acyclic, Object
<1>3. Exact(Fallback)
  <2>1. VarsTo(Fallback) = {} /\ CausesTo(Fallback) = {}
        /\ LoopsAt(Fallback) = {} /\ Disposing(Fallback) = {}
    BY PayloadAssumption DEF VarsTo, CausesTo, LoopsAt, Disposing
  <2>2. Refs(Fallback) = 1
    BY <2>1, FS_EmptySet DEF Refs
  <2> QED
    BY <2>1, <2>2 DEF Exact, Object
<1> QED
  BY <1>1, <1>2, <1>3 DEF ChainInv, Counted

(* What a variable owns is valid and referred to.                          *)
LEMMA HeldIsReferred ==
  ASSUME ChainInv, NEW v \in Var, ~Overwritten(v), held[v] # Null
  PROVE  /\ held[v] \in live \cup {Fallback}
         /\ v \in VarsTo(held[v])
         /\ Exact(held[v])
         /\ Disposing(held[v]) = {}
<1>1. held[v] \in live \cup {Fallback} /\ v \in VarsTo(held[v])
  BY DEF ChainInv, NoDangling, VarsTo
<1>2. Exact(held[v])
  BY <1>1 DEF ChainInv, Counted
<1> QED
  BY <1>1, <1>2, Referred DEF ChainInv

(* A copy is one more variable that refers to the payload.                 *)
LEMMA AcquireStep ==
  ASSUME ChainInv, NEW t \in Thread, NEW v \in Var, NEW w \in Var, Acquire(t, v, w)
  PROVE  ChainInv'
<1> USE DEF Acquire, loop
<1> DEFINE q == held[v]
<1>1. TypeOK'
  BY DEF ChainInv, TypeOK, Retain, Object
<1>2. AtPlace' /\ Acyclic'
  BY DEF ChainInv, AtPlace, Idle, Acyclic
<1>3. NoDangling'
  BY DEF ChainInv, TypeOK, NoDangling, Overwritten
<1>4. ASSUME NEW p \in live \cup {Fallback} PROVE Exact(p)'
  <2>0. Exact(p) /\ p # Null /\ p \in Object
    BY PayloadAssumption DEF ChainInv, Counted, TypeOK, Object
  <2>1. /\ CausesTo(p)' = CausesTo(p) /\ LoopsAt(p)' = LoopsAt(p)
        /\ Disposing(p)' = Disposing(p)
    BY DEF CausesTo, LoopsAt, Disposing
  <2>2. CASE p = q
    <3>1. Disposing(p) = {}
      BY <2>0, <2>2, HeldIsReferred
    <3>2. w \notin VarsTo(p) /\ VarsTo(p)' = VarsTo(p) \cup {w}
      BY <2>0, <2>2 DEF VarsTo, Overwritten, ChainInv, TypeOK
    <3>3. Cardinality(VarsTo(p)') = Cardinality(VarsTo(p)) + 1
      BY <3>2, RefsType, Plus DEF ChainInv
    <3>4. Refs(p)' = Refs(p) + 1
      BY <2>1, <3>3, RefsType DEF Refs, ChainInv
    <3>5. count'[p] = count[p] + 1
      BY <2>0, <2>2 DEF Retain, ChainInv, TypeOK
    <3> QED
      BY <2>0, <2>1, <3>1, <3>4, <3>5, CountedOne DEF ChainInv
  <2>3. CASE p # q
    <3>1. VarsTo(p)' = VarsTo(p)
      BY <2>0, <2>3 DEF VarsTo, Overwritten, ChainInv, TypeOK
    <3>2. count'[p] = count[p]
      BY <2>0, <2>3 DEF Retain, ChainInv, TypeOK
    <3> QED
      BY <2>0, <2>1, <3>1, <3>2, Unmoved
  <2> QED
    BY <2>2, <2>3
<1> QED
  BY <1>1, <1>2, <1>3, <1>4 DEF ChainInv, Counted

(* A move replaces one variable that refers to the payload by another.     *)
LEMMA MoveStep ==
  ASSUME ChainInv, NEW t \in Thread, NEW v \in Var, NEW w \in Var, Move(t, v, w)
  PROVE  ChainInv'
<1> USE DEF Move, loop, heap
<1> DEFINE q == held[v]
<1>1. TypeOK'
  BY DEF ChainInv, TypeOK
<1>2. AtPlace' /\ Acyclic'
  BY DEF ChainInv, AtPlace, Idle, Acyclic
<1>3. NoDangling'
  BY DEF ChainInv, TypeOK, NoDangling, Overwritten
<1>4. ASSUME NEW p \in live \cup {Fallback} PROVE Exact(p)'
  <2>0. Exact(p) /\ p # Null
    BY PayloadAssumption DEF ChainInv, Counted, TypeOK
  <2>1. /\ CausesTo(p)' = CausesTo(p) /\ LoopsAt(p)' = LoopsAt(p)
        /\ Disposing(p)' = Disposing(p) /\ count'[p] = count[p]
    BY DEF CausesTo, LoopsAt, Disposing
  <2>2. CASE p = q
    <3>1. Disposing(p) = {}
      BY <2>0, <2>2, HeldIsReferred
    <3>2. /\ v \in VarsTo(p) /\ w \notin VarsTo(p)
          /\ VarsTo(p)' = (VarsTo(p) \ {v}) \cup {w}
      BY <2>0, <2>2 DEF VarsTo, Overwritten, ChainInv, TypeOK
    <3>3. /\ IsFiniteSet(VarsTo(p) \ {v})
          /\ Cardinality(VarsTo(p) \ {v}) = Cardinality(VarsTo(p)) - 1
      BY <3>2, RefsType, Minus, FS_Subset DEF ChainInv
    <3>4. Cardinality(VarsTo(p)') = Cardinality(VarsTo(p) \ {v}) + 1
      BY <3>2, <3>3, Plus
    <3>5. Refs(p)' = Refs(p)
      BY <2>1, <3>3, <3>4, RefsType DEF Refs, ChainInv
    <3> QED
      BY <2>0, <2>1, <3>1, <3>5, Moved
  <2>3. CASE p # q
    <3>1. VarsTo(p)' = VarsTo(p)
      BY <2>0, <2>3 DEF VarsTo, Overwritten, ChainInv, TypeOK
    <3> QED
      BY <2>0, <2>1, <3>1, Unmoved
  <2> QED
    BY <2>2, <2>3
<1> QED
  BY <1>1, <1>2, <1>3, <1>4 DEF ChainInv, Counted

(* The reference of a variable becomes one of a release loop.              *)
LEMMA ReleaseStep ==
  ASSUME ChainInv, NEW t \in Thread, NEW v \in Var, NEW r \in {Null, Fallback},
         Release(t, v, r)
  PROVE  ChainInv'
<1> USE DEF Release, heap, Idle
<1> DEFINE q == held[v]
<1>1. TypeOK'
  BY DEF ChainInv, TypeOK
<1>2. AtPlace' /\ Acyclic'
  BY VarAssumption DEF ChainInv, TypeOK, AtPlace, Acyclic, Overwritten
<1>3. \A x \in Var : Overwritten(x)' <=> Overwritten(x) \/ x = v
  BY VarAssumption DEF ChainInv, TypeOK, AtPlace, Overwritten
<1>4. NoDangling'
  BY <1>3 DEF ChainInv, TypeOK, NoDangling
<1>5. ASSUME NEW p \in live \cup {Fallback} PROVE Exact(p)'
  <2>0. Exact(p) /\ p # Null
    BY PayloadAssumption DEF ChainInv, Counted, TypeOK
  <2>1. /\ CausesTo(p)' = CausesTo(p) /\ Disposing(p)' = Disposing(p)
        /\ count'[p] = count[p]
    BY DEF CausesTo, Disposing, ChainInv, TypeOK
  <2>2. CASE p = q
    <3>1. Disposing(p) = {}
      BY <2>0, <2>2, HeldIsReferred
    <3>2. v \in VarsTo(p) /\ VarsTo(p)' = VarsTo(p) \ {v}
      BY <1>3, <2>2 DEF VarsTo
    <3>3. t \notin LoopsAt(p) /\ LoopsAt(p)' = LoopsAt(p) \cup {t}
      BY <2>2 DEF LoopsAt, ChainInv, TypeOK
    <3>4. /\ Cardinality(VarsTo(p)') = Cardinality(VarsTo(p)) - 1
          /\ Cardinality(LoopsAt(p)') = Cardinality(LoopsAt(p)) + 1
      BY <3>2, <3>3, RefsType, Plus, Minus DEF ChainInv
    <3>5. Refs(p)' = Refs(p)
      BY <2>1, <3>4, RefsType DEF Refs, ChainInv
    <3> QED
      BY <2>0, <2>1, <3>1, <3>5, Moved
  <2>3. CASE p # q
    <3>1. VarsTo(p)' = VarsTo(p) /\ LoopsAt(p)' = LoopsAt(p)
      BY <1>3, <2>3 DEF VarsTo, LoopsAt, ChainInv, TypeOK
    <3> QED
      BY <2>0, <2>1, <3>1, Unmoved
  <2> QED
    BY <2>2, <2>3
<1> QED
  BY <1>1, <1>2, <1>4, <1>5 DEF ChainInv, Counted

(* The reference of a variable becomes one of a cause.                     *)
LEMMA ErrorfStep ==
  ASSUME ChainInv, NEW t \in Thread, NEW v \in Var, NEW n \in Payload,
         Errorf(t, v, n)
  PROVE  ChainInv'
<1> USE DEF Errorf, loop
<1> DEFINE q == held[v]
<1>0. n # Fallback /\ n # Null /\ n \in Object /\ n \notin live
  BY PayloadAssumption DEF Object
<1>1. TypeOK'
  BY <1>0 DEF ChainInv, TypeOK, Object
<1>2. AtPlace'
  <2>1. \A u \in Thread : cur[u] # n /\ cause'[cur[u]] = cause[cur[u]]
    BY <1>0 DEF ChainInv, TypeOK, NoDangling
  <2> QED
    BY <2>1 DEF ChainInv, AtPlace, Idle
<1>3. q \in live \cup {Fallback, Null}
  BY DEF ChainInv, NoDangling
<1>4. NoDangling'
  BY <1>0, <1>3 DEF ChainInv, TypeOK, NoDangling, Overwritten
<1>5. /\ cause'[n] = q
      /\ \A p \in live : cause'[p] = cause[p] /\ cause[p] # n
  BY <1>0 DEF ChainInv, TypeOK, NoDangling
<1>6. Acyclic'
  <2> SUFFICES ASSUME NEW S \in SUBSET (live \cup {n}), S # {}
               PROVE  \E p \in S : \A x \in S : cause'[x] # p
    BY DEF Acyclic
  <2>1. CASE n \in S
    BY <2>1, <1>0, <1>3, <1>5
  <2>2. CASE n \notin S
    <3>1. S \in SUBSET live
      BY <2>2
    <3> QED
      BY <3>1, <1>5 DEF ChainInv, Acyclic
  <2> QED
    BY <2>1, <2>2
<1>7. Exact(n)'
  <2>1. VarsTo(n)' = {v}
    BY <1>0 DEF VarsTo, Overwritten, ChainInv, TypeOK, NoDangling
  <2>2. CausesTo(n)' = {}
    BY <1>0, <1>3, <1>5 DEF CausesTo
  <2>3. LoopsAt(n)' = {} /\ Disposing(n)' = {}
    <3>1. \A u \in Thread : cur[u] # n
      BY <1>0 DEF ChainInv, NoDangling
    <3> QED
      BY <3>1 DEF LoopsAt, Disposing
  <2>4. Refs(n)' = 1
    <3>1. Cardinality(VarsTo(n)') = 1 /\ Cardinality(CausesTo(n)') = 0
          /\ Cardinality(LoopsAt(n)') = 0
      BY <2>1, <2>2, <2>3, FS_EmptySet, FS_Singleton
    <3> QED
      BY <1>0, <3>1 DEF Refs
  <2>5. count'[n] = 1
    BY <1>0 DEF ChainInv, TypeOK
  <2> QED
    BY <2>3, <2>4, <2>5 DEF Exact
<1>8. ASSUME NEW p \in live \cup {Fallback} PROVE Exact(p)'
  <2>0. Exact(p) /\ p # Null /\ p # n
    BY <1>0, PayloadAssumption DEF ChainInv, Counted, TypeOK
  <2>1. /\ LoopsAt(p)' = LoopsAt(p) /\ Disposing(p)' = Disposing(p)
        /\ count'[p] = count[p]
    BY <2>0 DEF LoopsAt, Disposing, ChainInv, TypeOK
  <2>2. CASE p = q
    <3>1. Disposing(p) = {}
      BY <2>0, <2>2, HeldIsReferred
    <3>2. v \in VarsTo(p) /\ VarsTo(p)' = VarsTo(p) \ {v}
      BY <2>0, <2>2 DEF VarsTo, Overwritten, ChainInv, TypeOK
    <3>3. n \notin CausesTo(p) /\ CausesTo(p)' = CausesTo(p) \cup {n}
      BY <1>0, <1>5, <2>2 DEF CausesTo
    <3>4. /\ Cardinality(VarsTo(p)') = Cardinality(VarsTo(p)) - 1
          /\ Cardinality(CausesTo(p)') = Cardinality(CausesTo(p)) + 1
      BY <3>2, <3>3, RefsType, Plus, Minus DEF ChainInv
    <3>5. Refs(p)' = Refs(p)
      BY <2>1, <3>4, RefsType DEF Refs, ChainInv
    <3> QED
      BY <2>0, <2>1, <3>1, <3>5, Moved
  <2>3. CASE p # q
    <3>1. VarsTo(p)' = VarsTo(p) /\ CausesTo(p)' = CausesTo(p)
      BY <1>0, <1>5, <2>0, <2>3 DEF VarsTo, CausesTo, Overwritten, ChainInv, TypeOK
    <3> QED
      BY <2>0, <2>1, <3>1, Unmoved
  <2> QED
    BY <2>2, <2>3
<1> QED
  BY <1>1, <1>2, <1>4, <1>6, <1>7, <1>8 DEF ChainInv, Counted

(* The payload a release loop is at is valid and referred to.              *)
LEMMA LoopIsReferred ==
  ASSUME ChainInv, NEW t \in Thread, pc[t] \in {"load", "sub"}, cur[t] # Null
  PROVE  /\ cur[t] \in live \cup {Fallback}
         /\ t \in LoopsAt(cur[t])
         /\ Exact(cur[t])
         /\ Disposing(cur[t]) = {}
         /\ count[cur[t]] = Refs(cur[t]) /\ count[cur[t]] >= 1
<1>1. cur[t] \in live \cup {Fallback} /\ t \in LoopsAt(cur[t])
  BY DEF ChainInv, NoDangling, LoopsAt
<1>2. Exact(cur[t])
  BY <1>1 DEF ChainInv, Counted
<1> QED
  BY <1>1, <1>2, Referred DEF ChainInv

(* Who is shown 1 has the only reference, and gives it up.                 *)
LEMMA LoadStep ==
  ASSUME ChainInv, NEW t \in Thread, Load(t)
  PROVE  ChainInv'
<1> USE DEF Load, heap
<1> DEFINE q == cur[t]
<1>1. TypeOK'
  BY DEF ChainInv, TypeOK
<1>2. AtPlace' /\ Acyclic'
  BY DEF ChainInv, TypeOK, AtPlace, Idle, Acyclic
<1>3. NoDangling'
  BY DEF ChainInv, NoDangling, Overwritten
<1>4. ASSUME NEW p \in live \cup {Fallback} PROVE Exact(p)'
  <2>0. Exact(p) /\ p # Null
    BY PayloadAssumption DEF ChainInv, Counted, TypeOK
  <2>1. /\ VarsTo(p)' = VarsTo(p) /\ CausesTo(p)' = CausesTo(p)
        /\ count'[p] = count[p]
    BY DEF VarsTo, CausesTo, Overwritten
  <2>2. CASE p = q /\ pc'[t] = "dispose"
    <3>1. /\ t \in LoopsAt(p) /\ Disposing(p) = {}
          /\ count[p] = Refs(p) /\ count[p] = 1
      BY <2>0, <2>2, LoopIsReferred DEF ChainInv, TypeOK
    <3>2. LoopsAt(p)' = LoopsAt(p) \ {t} /\ Disposing(p)' = Disposing(p) \cup {t}
      BY <2>2 DEF LoopsAt, Disposing, ChainInv, TypeOK
    <3>3. Cardinality(LoopsAt(p)') = Cardinality(LoopsAt(p)) - 1
      BY <3>1, <3>2, RefsType, Minus DEF ChainInv
    <3>4. Refs(p)' = 0
      BY <2>1, <3>1, <3>3, RefsType DEF Refs, ChainInv
    <3> QED
      BY <3>1, <3>2, <3>4 DEF Exact
  <2>3. CASE p # q \/ pc'[t] # "dispose"
    <3>1. LoopsAt(p)' = LoopsAt(p) /\ Disposing(p)' = Disposing(p)
      BY <2>0, <2>3 DEF LoopsAt, Disposing, ChainInv, TypeOK
    <3> QED
      BY <2>0, <2>1, <3>1, Unmoved
  <2> QED
    BY <2>2, <2>3
<1> QED
  BY <1>1, <1>2, <1>3, <1>4 DEF ChainInv, Counted

(* A reference is given up and counted; the last one elects a disposer.    *)
LEMMA SubStep ==
  ASSUME ChainInv, NEW t \in Thread, Sub(t)
  PROVE  ChainInv'
<1> USE DEF Sub
<1> DEFINE q == cur[t]
<1>0. /\ q # Null /\ q \in live \cup {Fallback} /\ q \in Object
      /\ t \in LoopsAt(q) /\ Disposing(q) = {}
      /\ count[q] = Refs(q) /\ count[q] >= 1
  BY LoopIsReferred DEF ChainInv, AtPlace, TypeOK, Object
<1>1. TypeOK'
  BY <1>0 DEF ChainInv, TypeOK
<1>2. AtPlace' /\ Acyclic'
  BY DEF ChainInv, TypeOK, AtPlace, Idle, Acyclic
<1>3. NoDangling'
  BY DEF ChainInv, TypeOK, NoDangling, Overwritten
<1>4. ASSUME NEW p \in live \cup {Fallback} PROVE Exact(p)'
  <2>0. Exact(p) /\ p # Null /\ p \in Object
    BY PayloadAssumption DEF ChainInv, Counted, TypeOK, Object
  <2>1. VarsTo(p)' = VarsTo(p) /\ CausesTo(p)' = CausesTo(p)
    BY DEF VarsTo, CausesTo, Overwritten
  <2>2. CASE p = q
    <3>1. LoopsAt(p)' = LoopsAt(p) \ {t}
      BY <2>0, <2>2 DEF LoopsAt, ChainInv, TypeOK
    <3>2. Cardinality(LoopsAt(p)') = Cardinality(LoopsAt(p)) - 1
      BY <1>0, <2>2, <3>1, RefsType, Minus DEF ChainInv
    <3>3. Refs(p)' = Refs(p) - 1 /\ count'[p] = count[p] - 1
      BY <1>0, <2>1, <2>2, <3>2, RefsType DEF Refs, ChainInv, TypeOK
    <3>4. CASE count[p] = 1
      <4>1. Disposing(p)' = Disposing(p) \cup {t}
        BY <2>2, <3>4 DEF Disposing, ChainInv, TypeOK
      <4> QED
        BY <1>0, <2>2, <3>3, <3>4, <4>1 DEF Exact
    <3>5. CASE count[p] # 1
      <4>1. Disposing(p)' = {}
        BY <1>0, <2>2, <3>5 DEF Disposing, ChainInv, TypeOK
      <4>2. count'[p] = Refs(p)' /\ count'[p] >= 1
        BY <1>0, <2>0, <2>2, <3>3, <3>5 DEF ChainInv, TypeOK
      <4> QED
        BY <4>1, <4>2 DEF Exact
    <3> QED
      BY <3>4, <3>5
  <2>3. CASE p # q
    <3>1. /\ LoopsAt(p)' = LoopsAt(p) /\ Disposing(p)' = Disposing(p)
          /\ count'[p] = count[p]
      BY <2>0, <2>3 DEF LoopsAt, Disposing, ChainInv, TypeOK
    <3> QED
      BY <2>0, <2>1, <3>1, Unmoved
  <2> QED
    BY <2>2, <2>3
<1> QED
  BY <1>1, <1>2, <1>3, <1>4 DEF ChainInv, Counted

(* The payload that is disposed of is not the fallback, and nothing refers *)
(* to it.                                                                  *)
LEMMA DisposedIsUnreferred ==
  ASSUME ChainInv, NEW t \in Thread, pc[t] \in {"dispose", "free"}
  PROVE  /\ cur[t] \in live /\ cur[t] # Fallback
         /\ VarsTo(cur[t]) = {} /\ CausesTo(cur[t]) = {} /\ LoopsAt(cur[t]) = {}
         /\ Disposing(cur[t]) = {t}
<1>1. cur[t] \in live \cup {Fallback} /\ t \in Disposing(cur[t])
  BY DEF ChainInv, AtPlace, NoDangling, Disposing
<1>2. Refs(cur[t]) = 0 /\ Disposing(cur[t]) = {t}
  BY <1>1 DEF ChainInv, Counted, Exact
<1> QED
  BY <1>1, <1>2, NoRefs DEF ChainInv

(* Reading the cause of a payload that is still there moves nothing.       *)
LEMMA ReadCauseStep ==
  ASSUME ChainInv, NEW t \in Thread, ReadCause(t)
  PROVE  ChainInv'
<1> USE DEF ReadCause, heap
<1>0. cur[t] \in live /\ cause[cur[t]] \in live \cup {Fallback, Null}
  BY DisposedIsUnreferred DEF ChainInv, NoDangling
<1>1. TypeOK'
  BY <1>0 DEF ChainInv, TypeOK, Object
<1>2. AtPlace' /\ Acyclic'
  BY DEF ChainInv, TypeOK, AtPlace, Idle, Acyclic
<1>3. NoDangling'
  BY <1>0 DEF ChainInv, TypeOK, NoDangling, Overwritten
<1>4. ASSUME NEW p \in live \cup {Fallback} PROVE Exact(p)'
  <2>1. /\ VarsTo(p)' = VarsTo(p) /\ CausesTo(p)' = CausesTo(p)
        /\ LoopsAt(p)' = LoopsAt(p) /\ Disposing(p)' = Disposing(p)
    BY DEF VarsTo, CausesTo, LoopsAt, Disposing, Overwritten, ChainInv, TypeOK
  <2> QED
    BY <2>1, Unmoved DEF ChainInv, Counted
<1> QED
  BY <1>1, <1>2, <1>3, <1>4 DEF ChainInv, Counted

(* The reference of a cause becomes one of the release loop.               *)
LEMMA DisposeStep ==
  ASSUME ChainInv, NEW t \in Thread, Dispose(t)
  PROVE  ChainInv'
<1> USE DEF Dispose, Onward
<1> DEFINE q == cur[t]
           c == cause[q]
<1>0. /\ q \in live /\ q # Fallback /\ q \in Object
      /\ VarsTo(q) = {} /\ CausesTo(q) = {} /\ LoopsAt(q) = {}
      /\ Disposing(q) = {t} /\ next[t] = c
  BY DisposedIsUnreferred DEF ChainInv, TypeOK, AtPlace, Object
<1>1. TypeOK'
  BY <1>0 DEF ChainInv, TypeOK
<1>2. \A p \in live' : cause'[p] = cause[p] /\ cause[p] # q /\ p # q
  BY <1>0 DEF CausesTo, ChainInv, TypeOK
<1>3. AtPlace' /\ Acyclic'
  <2>1. AtPlace'
    <3>1. \A u \in Thread \ {t} : pc[u] = "free" => cur[u] # q
      BY <1>0 DEF Disposing
    <3> QED
      BY <1>0, <3>1 DEF ChainInv, TypeOK, AtPlace, Idle
  <2>2. Acyclic'
    BY <1>2 DEF ChainInv, Acyclic
  <2> QED
    BY <2>1, <2>2
<1>4. c \in (live \ {q}) \cup {Fallback, Null} /\ c # q
  BY <1>0 DEF CausesTo, ChainInv, NoDangling
<1>5. NoDangling'
  <2>1. \A v \in Var : Overwritten(v) \/ held[v] # q
    BY <1>0 DEF VarsTo
  <2>2. \A u \in Thread \ {t} : cur[u] # q
    BY <1>0, PayloadAssumption
    DEF LoopsAt, Disposing, ChainInv, TypeOK, AtPlace
  <2>4. \A u \in Thread \ {t} : next[u] # q
    <3>1. ASSUME NEW u \in Thread \ {t}, pc[u] = "free" PROVE cause[cur[u]] # q
      BY <1>0, <3>1, DisposedIsUnreferred DEF CausesTo
    <3> QED
      BY <1>0, <3>1, PayloadAssumption DEF ChainInv, TypeOK, AtPlace
  <2>3. \A u \in Thread : /\ cur'[u] \in live' \cup {Fallback, Null}
                          /\ next'[u] \in live' \cup {Fallback, Null}
    BY <1>0, <1>4, <2>2, <2>4 DEF ChainInv, TypeOK, NoDangling
  <2> QED
    BY <1>2, <2>1, <2>3 DEF ChainInv, TypeOK, NoDangling, Overwritten
<1>6. ASSUME NEW p \in live' \cup {Fallback} PROVE Exact(p)'
  <2>0. Exact(p) /\ p # Null /\ p # q /\ p \in Object
    BY <1>0, PayloadAssumption DEF ChainInv, Counted, TypeOK, Object
  <2>1. /\ VarsTo(p)' = VarsTo(p) /\ Disposing(p)' = Disposing(p)
        /\ count'[p] = count[p]
    BY <2>0 DEF VarsTo, Disposing, Overwritten, ChainInv, TypeOK
  <2>2. CASE p = c
    <3>1. q \in CausesTo(p) /\ CausesTo(p)' = CausesTo(p) \ {q}
      BY <1>0, <1>2, <2>2 DEF CausesTo
    <3>2. t \notin LoopsAt(p) /\ LoopsAt(p)' = LoopsAt(p) \cup {t}
      BY <1>0, <2>2 DEF LoopsAt, ChainInv, TypeOK
    <3>3. /\ Cardinality(CausesTo(p)') = Cardinality(CausesTo(p)) - 1
          /\ Cardinality(LoopsAt(p)') = Cardinality(LoopsAt(p)) + 1
      BY <3>1, <3>2, RefsType, Plus, Minus DEF ChainInv
    <3>4. Refs(p)' = Refs(p)
      BY <2>1, <3>3, RefsType DEF Refs, ChainInv
    <3>5. Disposing(p) = {}
      BY <2>0, <3>1, Referred DEF ChainInv
    <3> QED
      BY <2>0, <2>1, <3>4, <3>5, Moved
  <2>3. CASE p # c
    <3>1. CausesTo(p)' = CausesTo(p)
      BY <1>0, <1>2, <2>3 DEF CausesTo
    <3>2. LoopsAt(p)' = LoopsAt(p)
      BY <1>0, <2>0, <2>3 DEF LoopsAt, ChainInv, TypeOK
    <3> QED
      BY <2>0, <2>1, <3>1, <3>2, Unmoved
  <2> QED
    BY <2>2, <2>3
<1> QED
  BY <1>1, <1>3, <1>5, <1>6 DEF ChainInv, Counted

(* A failed call ends with a counted reference to the fallback.            *)
LEMMA ReturnStep ==
  ASSUME ChainInv, NEW t \in Thread, Return(t)
  PROVE  ChainInv'
<1> USE DEF Return
<1> DEFINE r == result[t]
           w == dest[t]
<1>0. /\ w \in Var /\ r \in {Null, Fallback} /\ held \in [Var -> Object \cup {Null}]
      /\ cur[t] = Null
  BY DEF ChainInv, TypeOK, AtPlace, Idle
<1>1. TypeOK'
  <2>1. count' \in [Object -> Nat]
    BY DEF ChainInv, TypeOK, Retain
  <2>2. held' \in [Var -> Object \cup {Null}]
    BY <1>0 DEF Object
  <2> QED
    BY <2>1, <2>2 DEF ChainInv, TypeOK
<1>2. AtPlace' /\ Acyclic'
  BY <1>0 DEF ChainInv, TypeOK, AtPlace, Idle, Acyclic
<1>3. \A x \in Var : Overwritten(x)' <=> Overwritten(x) /\ x # w
  BY <1>0, VarAssumption DEF ChainInv, TypeOK, AtPlace, Idle, Overwritten
<1>4. NoDangling'
  BY <1>0, <1>3 DEF ChainInv, NoDangling
<1>5. Overwritten(w)
  BY DEF Overwritten
<1>6. ASSUME NEW p \in live \cup {Fallback} PROVE Exact(p)'
  <2>0. Exact(p) /\ p # Null /\ p \in Object
    BY PayloadAssumption DEF ChainInv, Counted, TypeOK, Object
  <2>1. /\ CausesTo(p)' = CausesTo(p) /\ LoopsAt(p)' = LoopsAt(p)
        /\ Disposing(p)' = Disposing(p)
    BY <1>0, <2>0 DEF CausesTo, LoopsAt, Disposing, ChainInv, TypeOK
  <2>2. CASE p = r
    <3>1. w \notin VarsTo(p) /\ VarsTo(p)' = VarsTo(p) \cup {w}
      BY <1>0, <1>3, <1>5, <2>2 DEF VarsTo
    <3>2. Cardinality(VarsTo(p)') = Cardinality(VarsTo(p)) + 1
      BY <3>1, RefsType, Plus DEF ChainInv
    <3>3. Refs(p)' = Refs(p) + 1
      BY <2>1, <3>2, RefsType DEF Refs, ChainInv
    <3>4. count'[p] = count[p] + 1
      BY <2>0, <2>2 DEF Retain, ChainInv, TypeOK
    <3>5. Disposing(p) = {}
      BY <1>0, <2>0, <2>2, Referred DEF ChainInv
    <3> QED
      BY <2>0, <2>1, <3>3, <3>4, <3>5, CountedOne DEF ChainInv
  <2>3. CASE p # r
    <3>1. VarsTo(p)' = VarsTo(p)
      BY <1>0, <1>3, <1>5, <2>3 DEF VarsTo
    <3>2. count'[p] = count[p]
      BY <2>0, <2>3 DEF Retain, ChainInv, TypeOK
    <3> QED
      BY <2>0, <2>1, <3>1, <3>2, Unmoved
  <2> QED
    BY <2>2, <2>3
<1> QED
  BY <1>1, <1>2, <1>4, <1>6 DEF ChainInv, Counted

(* Every step preserves the invariant.                                     *)
LEMMA NextChainInv == ChainInv /\ [Next]_vars => ChainInv'
<1> SUFFICES ASSUME ChainInv, [Next]_vars PROVE ChainInv'
  OBVIOUS
<1>1. ASSUME NEW t \in Thread, Call(t) PROVE ChainInv'
  BY <1>1, AcquireStep, MoveStep, ReleaseStep, ErrorfStep
  DEF Call, Clear, ErrorfZero, ErrorfFail
<1>2. ASSUME NEW t \in Thread, Loop(t) PROVE ChainInv'
  BY <1>2, LoadStep, SubStep, ReadCauseStep, DisposeStep, ReturnStep DEF Loop
<1>3. CASE UNCHANGED vars
  <2> USE <1>3 DEF vars, heap, loop
  <2>1. TypeOK' /\ AtPlace' /\ NoDangling' /\ Acyclic'
    BY DEF ChainInv, TypeOK, AtPlace, Idle, NoDangling, Overwritten, Acyclic
  <2>2. ASSUME NEW p \in live \cup {Fallback} PROVE Exact(p)'
    <3>1. /\ VarsTo(p)' = VarsTo(p) /\ CausesTo(p)' = CausesTo(p)
          /\ LoopsAt(p)' = LoopsAt(p) /\ Disposing(p)' = Disposing(p)
      BY DEF VarsTo, CausesTo, LoopsAt, Disposing, Overwritten
    <3> QED
      BY <3>1, Unmoved DEF ChainInv, Counted
  <2> QED
    BY <2>1, <2>2 DEF ChainInv, Counted
<1> QED
  BY <1>1, <1>2, <1>3 DEF Next

(* The invariant holds in every behaviour.                                 *)
LEMMA ChainInvHolds == Spec => []ChainInv
BY InitChainInv, NextChainInv, PTL DEF Spec

-----------------------------------------------------------------------------
(* Every variable of the model has its type.                               *)
THEOREM TypeCorrect == Spec => []TypeOK
<1>1. ChainInv => TypeOK
  BY DEF ChainInv
<1> QED
  BY <1>1, ChainInvHolds, PTL

(* The counter of a payload that u7_error_acquire, u7_error_release and    *)
(* u7_errno_category_make_payload_fn keep is the number of references.     *)
THEOREM CountsAreExact == Spec => []CountsReferences
<1>1. ChainInv => CountsReferences
  <2> SUFFICES ASSUME ChainInv, NEW p \in live \cup {Fallback}
               PROVE  IF Disposing(p) = {} THEN count[p] = Refs(p)
                      ELSE Refs(p) = 0 /\ Cardinality(Disposing(p)) = 1
    BY DEF CountsReferences
  <2>1. Exact(p)
    BY DEF ChainInv, Counted
  <2> QED
    BY <2>1, FS_Singleton DEF Exact
<1> QED
  BY <1>1, ChainInvHolds, PTL

(* No variable, cause or release loop holds a payload that is freed.       *)
THEOREM NothingDangles == Spec => []NoDangling
<1>1. ChainInv => NoDangling
  BY DEF ChainInv
<1> QED
  BY <1>1, ChainInvHolds, PTL

(* Every allocated payload is led to by a variable or by a release loop,   *)
(* which holds because the causes form no cycle.                           *)
THEOREM NothingLeaks == Spec => []NoLeak
<1>1. ChainInv => NoLeak
  <2> SUFFICES ASSUME ChainInv, NEW S \in SUBSET live, S # {},
                      \A v \in Var : held[v] \in S => Overwritten(v),
                      \A t \in Thread : cur[t] \notin S,
                      \A q \in live \ S : cause[q] \notin S
               PROVE  FALSE
    BY DEF NoLeak
  <2>1. PICK p \in S : \A q \in S : cause[q] # p
    BY DEF ChainInv, Acyclic
  <2>2. VarsTo(p) = {} /\ CausesTo(p) = {} /\ LoopsAt(p) = {} /\ Disposing(p) = {}
    BY <2>1 DEF VarsTo, CausesTo, LoopsAt, Disposing
  <2>3. p # Fallback
    BY PayloadAssumption DEF ChainInv, TypeOK
  <2>4. Refs(p) = 0
    BY <2>2, <2>3, FS_EmptySet DEF Refs
  <2>5. Exact(p)
    BY DEF ChainInv, Counted
  <2> QED
    BY <2>2, <2>4, <2>5 DEF Exact
<1> QED
  BY <1>1, ChainInvHolds, PTL

-----------------------------------------------------------------------------
(* The refinement.                                                         *)

(* What the variables of ErrorHeap are mapped to.                          *)
HeapHeld == [v \in Var |-> IF Overwritten(v) THEN Null ELSE held[v]]
HeapCause == [p \in Payload |-> cause[p]]

HeapStutter ==
  HeapHeld' = HeapHeld /\ live' = live /\ HeapCause' = HeapCause

(* The initial states correspond.                                          *)
LEMMA InitRefines == Init => Heap!Init
BY VarAssumption DEF Init, Heap!Init, Overwritten, Object

(* u7_error_acquire.                                                       *)
LEMMA CopyRefines ==
  ASSUME ChainInv, NEW t \in Thread, NEW v \in Var, NEW w \in Var, Acquire(t, v, w)
  PROVE  Heap!Copy(v, w)
<1>1. /\ HeapHeld[w] = Null /\ HeapHeld[v] = held[v]
      /\ HeapHeld' = [HeapHeld EXCEPT ![w] = HeapHeld[v]]
  BY DEF Acquire, loop, HeapHeld, Overwritten, ChainInv, TypeOK
<1>2. UNCHANGED <<live, HeapCause>>
  BY DEF Acquire, HeapCause
<1> QED
  BY <1>1, <1>2 DEF Heap!Copy, HeapHeld, HeapCause

(* u7_error_move.                                                          *)
LEMMA MoveRefines ==
  ASSUME ChainInv, NEW t \in Thread, NEW v \in Var, NEW w \in Var, Move(t, v, w)
  PROVE  Heap!Move(v, w)
<1>1. /\ HeapHeld[w] = Null /\ HeapHeld[v] = held[v]
      /\ HeapHeld' = [HeapHeld EXCEPT ![w] = HeapHeld[v], ![v] = Null]
  BY DEF Move, loop, heap, HeapHeld, Overwritten, ChainInv, TypeOK
<1>2. UNCHANGED <<live, HeapCause>>
  BY DEF Move, heap, HeapCause
<1> QED
  BY <1>1, <1>2 DEF Heap!Move, HeapHeld, HeapCause

(* A call that will assign to a variable clears it first.                  *)
LEMMA ReleaseRefines ==
  ASSUME ChainInv, NEW t \in Thread, NEW v \in Var, NEW r \in {Null, Fallback},
         Release(t, v, r)
  PROVE  Heap!Clear(v)
<1>1. \A x \in Var : Overwritten(x)' <=> Overwritten(x) \/ x = v
  BY VarAssumption DEF Release, Idle, ChainInv, TypeOK, AtPlace, Overwritten
<1>2. HeapHeld' = [HeapHeld EXCEPT ![v] = Null]
  BY <1>1 DEF Release, HeapHeld
<1>3. UNCHANGED <<live, HeapCause>>
  BY DEF Release, heap, HeapCause
<1> QED
  BY <1>2, <1>3 DEF Heap!Clear, HeapHeld, HeapCause

(* u7_errorf_with_cause.                                                   *)
LEMMA ErrorfRefines ==
  ASSUME ChainInv, NEW t \in Thread, NEW v \in Var, NEW n \in Payload,
         Errorf(t, v, n)
  PROVE  Heap!New(v, n)
<1>1. /\ HeapHeld[v] = held[v]
      /\ HeapHeld' = [HeapHeld EXCEPT ![v] = n]
  BY DEF Errorf, loop, HeapHeld, Overwritten, ChainInv, TypeOK
<1>2. HeapCause' = [HeapCause EXCEPT ![n] = held[v]]
  BY DEF Errorf, HeapCause, ChainInv, TypeOK, Object
<1>3. n \notin live /\ live' = live \cup {n}
  BY DEF Errorf
<1> QED
  BY <1>1, <1>2, <1>3 DEF Heap!New, HeapHeld, HeapCause

(* What is disposed of is garbage.                                         *)
LEMMA DisposeRefines ==
  ASSUME ChainInv, NEW t \in Thread, NEW q \in Payload, q = cur[t], Dispose(t)
  PROVE  Heap!Free(q)
<1>1. /\ q \in live /\ q # Fallback /\ q # Null
      /\ VarsTo(q) = {} /\ CausesTo(q) = {}
  BY DisposedIsUnreferred, PayloadAssumption DEF Dispose, ChainInv, TypeOK
<1>2. HeapCause' = [HeapCause EXCEPT ![q] = Null]
  BY <1>1 DEF Dispose, HeapCause, ChainInv, TypeOK, Object
<1>3. HeapHeld' = HeapHeld
  BY DEF Dispose, HeapHeld, Overwritten
<1>4. Heap!Garbage(q)
  <2>1. {q} \in SUBSET live /\ \A v \in Var : HeapHeld[v] \notin {q}
    BY <1>1 DEF HeapHeld, VarsTo
  <2>2. \A p \in live \ {q} : HeapCause[p] \notin {q}
    BY <1>1 DEF HeapCause, CausesTo, ChainInv, TypeOK
  <2> QED
    BY <2>1, <2>2 DEF Heap!Garbage, HeapHeld, HeapCause
<1> QED
  BY <1>1, <1>2, <1>3, <1>4 DEF Dispose, Heap!Free, HeapHeld, HeapCause

(* A call that could not make its error assigns the fallback.              *)
LEMMA ReturnRefines ==
  ASSUME ChainInv, NEW t \in Thread, NEW w \in Var, w = dest[t], Return(t)
  PROVE  Heap!Fail(w) \/ HeapStutter
<1>1. result[t] \in {Null, Fallback}
  BY DEF Return, ChainInv, TypeOK, AtPlace, Idle
<1>2. /\ Overwritten(w)
      /\ \A x \in Var : Overwritten(x)' <=> Overwritten(x) /\ x # w
  BY <1>1, VarAssumption DEF Return, ChainInv, TypeOK, AtPlace, Idle, Overwritten
<1>3. HeapHeld[w] = Null /\ HeapHeld' = [HeapHeld EXCEPT ![w] = result[t]]
  BY <1>1, <1>2 DEF Return, HeapHeld, ChainInv, TypeOK
<1>4. live' = live /\ HeapCause' = HeapCause
  BY DEF Return, HeapCause
<1>5. CASE result[t] = Null
  <2>1. HeapHeld' = HeapHeld
    BY <1>1, <1>3, <1>5 DEF HeapHeld
  <2> QED
    BY <2>1, <1>4 DEF HeapStutter
<1>6. CASE result[t] = Fallback
  BY <1>3, <1>4, <1>6 DEF Heap!Fail, HeapHeld, HeapCause
<1> QED
  BY <1>1, <1>5, <1>6

(* Every step is one of ErrorHeap, or changes nothing there.               *)
LEMMA StepRefines == ChainInv /\ [Next]_vars => [Heap!Next]_(Heap!vars)
<1> SUFFICES ASSUME ChainInv, [Next]_vars PROVE Heap!Next \/ HeapStutter
  BY DEF Heap!vars, HeapStutter, HeapHeld, HeapCause
<1>1. ASSUME NEW t \in Thread, Call(t) PROVE Heap!Next
  BY <1>1, CopyRefines, MoveRefines, ReleaseRefines, ErrorfRefines
  DEF Call, Clear, ErrorfZero, ErrorfFail, Heap!Next
<1>2. ASSUME NEW t \in Thread, Load(t) \/ Sub(t) \/ ReadCause(t) PROVE HeapStutter
  BY <1>2 DEF Load, Sub, ReadCause, heap, HeapStutter, HeapHeld, HeapCause, Overwritten
<1>3. ASSUME NEW t \in Thread, Dispose(t) PROVE Heap!Next
  <2>1. PICK q \in Payload : q = cur[t]
    BY <1>3, DisposedIsUnreferred DEF Dispose, ChainInv, TypeOK
  <2> QED
    BY <1>3, <2>1, DisposeRefines DEF Heap!Next
<1>4. ASSUME NEW t \in Thread, Return(t) PROVE Heap!Next \/ HeapStutter
  <2>1. PICK w \in Var : w = dest[t]
    BY <1>4 DEF Return, ChainInv, TypeOK, AtPlace, Idle
  <2> QED
    BY <1>4, <2>1, ReturnRefines DEF Heap!Next
<1>5. CASE UNCHANGED vars
  BY <1>5 DEF vars, heap, loop, HeapStutter, HeapHeld, HeapCause, Overwritten
<1> QED
  BY <1>1, <1>2, <1>3, <1>4, <1>5 DEF Next, Loop

(* The safety part of ImplementsHeap: every call and every step of a       *)
(* release loop is one of ErrorHeap, or no step of it; in particular a     *)
(* payload is freed only when no variable leads to it.                     *)
THEOREM RefinesHeap == Spec => Heap!Init /\ [][Heap!Next]_(Heap!vars)
BY InitRefines, StepRefines, ChainInvHolds, PTL DEF Spec
=============================================================================
