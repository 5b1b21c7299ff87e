---------------------------- MODULE AccountProofs ----------------------------
(* The cache's running total never falls short of the directory:             *)
(* NeverUndercounts, and with it the types of every variable of the gateway, *)
(* for any finite sets of contents and of concurrent requests.  The total is *)
(* compared with a sum over the files and a sum over the handlers, so the    *)
(* first part is about sums.  The library's induction theorems are not       *)
(* needed for it: that the strict subsets of a finite set are well founded,  *)
(* and that a well-founded order has minimal elements (WFMin), are enough.   *)
EXTENDS GatewayProofs, FiniteSetTheorems

-----------------------------------------------------------------------------
(* Sums *)

(* Induction on finite sets: a collection that has the empty set, and with a *)
(* set also the sets one element larger, has every finite set.               *)
LEMMA FiniteSetGrows ==
  ASSUME NEW S, IsFiniteSet(S), NEW C,
         {} \in C, \A T \in SUBSET S : \A x \in S : T \in C => T \cup {x} \in C
  PROVE  S \in C
<1> SUFFICES ASSUME S \notin C PROVE FALSE
  OBVIOUS
<1> DEFINE B == {T \in SUBSET S : T \notin C}
<1>1. IsWellFoundedOn(StrictSubsetOrdering(S), FiniteSubsetsOf(S))
  BY FS_StrictSubsetOrderingWellFounded
<1>2. B \subseteq FiniteSubsetsOf(S) /\ B # {}
  BY FS_FiniteSubsetsOfFinite
<1>3. PICK M \in B : \A T \in B : ~ (<<T, M>> \in StrictSubsetOrdering(S))
  <2> HIDE DEF B
  <2> QED BY <1>1, <1>2, WFMin
<1>4. PICK x \in M : TRUE
  OBVIOUS
<1>5. <<M \ {x}, M>> \in StrictSubsetOrdering(S)
  BY <1>4 DEF StrictSubsetOrdering
<1>6. M \ {x} \in C
  BY <1>3, <1>5
<1>7. (M \ {x}) \cup {x} = M
  BY <1>4
<1> QED  BY <1>4, <1>6, <1>7

(* g gives every subset of S the sum of f over it: one more element adds its *)
(* value.                                                                    *)
Additive(f, S, g) ==
  /\ g \in [SUBSET S -> Int]
  /\ g[{}] = 0
  /\ \A T \in SUBSET S : \A x \in S \ T : g[T \cup {x}] = g[T] + f[x]

(* There is such a g. *)
LEMMA AdditiveExists ==
  ASSUME NEW S, IsFiniteSet(S), NEW f \in [S -> Int]
  PROVE  \E g : Additive(f, S, g)
<1> DEFINE C == {T \in SUBSET S : \E g : Additive(f, T, g)}
<1>1. {} \in C
  <2>1. Additive(f, {}, [T \in SUBSET {} |-> 0])
    BY DEF Additive
  <2> QED  BY <2>1
<1>2. ASSUME NEW T \in SUBSET S, NEW x \in S, T \in C PROVE T \cup {x} \in C
  <2>1. CASE x \in T
    <3>1. T \cup {x} = T
      BY <2>1
    <3> QED  BY <1>2, <3>1
  <2>2. CASE x \notin T
    <3>1. PICK g : Additive(f, T, g)
      BY <1>2
    <3> DEFINE h == [U \in SUBSET (T \cup {x}) |-> g[U \ {x}] + (IF x \in U THEN f[x] ELSE 0)]
    <3>2. \A U \in SUBSET (T \cup {x}) : U \ {x} \in SUBSET T
      OBVIOUS
    <3>3. h \in [SUBSET (T \cup {x}) -> Int]
      BY <3>1, <3>2 DEF Additive
    <3>4. h[{}] = 0
      <4>1. {} \ {x} = {}
        OBVIOUS
      <4> QED BY <3>1, <4>1 DEF Additive
    <3>5. ASSUME NEW U \in SUBSET (T \cup {x}), NEW y \in (T \cup {x}) \ U
          PROVE  h[U \cup {y}] = h[U] + f[y]
      <4>0. U \cup {y} \in SUBSET (T \cup {x}) /\ g[U \ {x}] \in Int
        BY <3>1, <3>2 DEF Additive
      <4>1. CASE y = x
        <5>1. (U \cup {y}) \ {x} = U \ {x} /\ x \in U \cup {y} /\ x \notin U
          BY <4>1
        <5>2. h[U \cup {y}] = g[U \ {x}] + f[x] /\ h[U] = g[U \ {x}] + 0
          BY <4>0, <5>1
        <5> QED  BY <4>0, <4>1, <5>2
      <4>2. CASE y # x
        <5>1. (U \cup {y}) \ {x} = (U \ {x}) \cup {y}
          BY <4>2
        <5>2. U \ {x} \in SUBSET T /\ y \in T \ (U \ {x})
          BY <4>2
        <5>3. g[(U \ {x}) \cup {y}] = g[U \ {x}] + f[y]
          BY <3>1, <5>2 DEF Additive
        <5>4. x \in U \cup {y} <=> x \in U
          BY <4>2
        <5>5. h[U \cup {y}] = g[(U \ {x}) \cup {y}] + (IF x \in U THEN f[x] ELSE 0)
          BY <4>0, <5>1, <5>4
        <5>6. f[y] \in Int /\ f[x] \in Int
          BY <5>2
        <5> QED  BY <4>0, <5>3, <5>5, <5>6
      <4> QED  BY <4>1, <4>2
    <3>6. Additive(f, T \cup {x}, h)
      BY <3>3, <3>4, <3>5 DEF Additive
    <3> QED  BY <3>6
  <2> QED  BY <2>1, <2>2
<1>3. S \in C
  <2> HIDE DEF C
  <2> QED BY <1>1, <1>2, FiniteSetGrows
<1> QED  BY <1>3

(* The element a fold takes next, and the equation the fold solves. *)
Picked(T) == CHOOSE x \in T : TRUE

Summing(f, S, g) ==
  g = [T \in SUBSET S |-> IF T = {} THEN 0
                          ELSE f[Picked(T)] + g[T \ {Picked(T)}]]

(* SumFunctionOnSet is the value at S of a solution of that equation. *)
LEMMA SumDef ==
  ASSUME NEW f, NEW S
  PROVE  SumFunctionOnSet(f, S) = (CHOOSE g : Summing(f, S, g))[S]
  BY DEF SumFunctionOnSet, FoldFunctionOnSet, MapThenFoldSet, Summing, Picked

(* An element taken out takes its value with it, whichever it is. *)
LEMMA AdditiveStep ==
  ASSUME NEW S, NEW f, NEW g, Additive(f, S, g), NEW T \in SUBSET S, NEW x \in T
  PROVE  g[T] = g[T \ {x}] + f[x]
<1>1. T \ {x} \in SUBSET S /\ x \in S \ (T \ {x}) /\ (T \ {x}) \cup {x} = T
  OBVIOUS
<1> QED  BY <1>1 DEF Additive

(* An additive g is the equation's one solution: the order in which the fold *)
(* takes the elements does not matter.                                       *)
LEMMA SummingUnique ==
  ASSUME NEW S, IsFiniteSet(S), NEW f \in [S -> Int], NEW g, Additive(f, S, g)
  PROVE  /\ Summing(f, S, g)
         /\ \A h : Summing(f, S, h) => h = g
<1>1. ASSUME NEW T \in SUBSET S, T # {}
      PROVE  /\ Picked(T) \in T /\ g[T \ {Picked(T)}] \in Int /\ f[Picked(T)] \in Int
             /\ g[T] = f[Picked(T)] + g[T \ {Picked(T)}]
  <2>1. Picked(T) \in T
    BY <1>1 DEF Picked
  <2>2. g[T] = g[T \ {Picked(T)}] + f[Picked(T)]
    BY <2>1, AdditiveStep
  <2>3. g[T \ {Picked(T)}] \in Int /\ f[Picked(T)] \in Int
    BY <2>1 DEF Additive
  <2> QED  BY <2>1, <2>2, <2>3
<1>2. Summing(f, S, g)
  <2>1. g = [T \in SUBSET S |-> g[T]]
    BY DEF Additive
  <2>2. \A T \in SUBSET S : g[T] = IF T = {} THEN 0 ELSE f[Picked(T)] + g[T \ {Picked(T)}]
    BY <1>1 DEF Additive
  <2> QED  BY <2>1, <2>2 DEF Summing
<1>3. ASSUME NEW h, Summing(f, S, h) PROVE h = g
  <2>1. \A T \in SUBSET S : h[T] = IF T = {} THEN 0 ELSE f[Picked(T)] + h[T \ {Picked(T)}]
    BY <1>3 DEF Summing
  <2> DEFINE B == {T \in SUBSET S : h[T] # g[T]}
  <2>3. B = {}
    <3> SUFFICES ASSUME B # {} PROVE FALSE
      OBVIOUS
    <3>1. IsWellFoundedOn(StrictSubsetOrdering(S), FiniteSubsetsOf(S))
      BY FS_StrictSubsetOrderingWellFounded
    <3>2. B \subseteq FiniteSubsetsOf(S)
      BY FS_FiniteSubsetsOfFinite
    <3>3. PICK M \in B : \A T \in B : ~ (<<T, M>> \in StrictSubsetOrdering(S))
      <4> HIDE DEF B
      <4> QED  BY <3>1, <3>2, WFMin
    <3>4. M # {}
      BY <2>1 DEF Additive
    <3>5. <<M \ {Picked(M)}, M>> \in StrictSubsetOrdering(S)
      BY <1>1, <3>4 DEF StrictSubsetOrdering
    <3>6. h[M \ {Picked(M)}] = g[M \ {Picked(M)}]
      BY <3>3, <3>5
    <3> QED  BY <1>1, <2>1, <3>4, <3>6
  <2> QED  BY <1>3, <1>2, <2>3 DEF Summing
<1> QED  BY <1>2, <1>3

(* So SumFunction is what any additive g says. *)
LEMMA SumAdditive ==
  ASSUME NEW S, IsFiniteSet(S), NEW f \in [S -> Int], NEW g, Additive(f, S, g)
  PROVE  SumFunction(f) = g[S]
<1>1. (CHOOSE h : Summing(f, S, h)) = g
  BY SummingUnique
<1>2. SumFunctionOnSet(f, S) = g[S]
  BY <1>1, SumDef
<1> QED  BY <1>2 DEF SumFunction

(* A sum of integers is one. *)
LEMMA SumType ==
  ASSUME NEW S, IsFiniteSet(S), NEW f \in [S -> Int]
  PROVE  SumFunction(f) \in Int
<1>1. PICK g : Additive(f, S, g)
  BY AdditiveExists
<1>2. SumFunction(f) = g[S]
  BY <1>1, SumAdditive
<1> QED  BY <1>1, <1>2 DEF Additive

(* One value replaced changes the sum by the difference. *)
LEMMA SumExcept ==
  ASSUME NEW S, IsFiniteSet(S), NEW f \in [S -> Int], NEW x \in S, NEW v \in Int
  PROVE  SumFunction([f EXCEPT ![x] = v]) = SumFunction(f) - f[x] + v
<1>1. PICK g : Additive(f, S, g)
  BY AdditiveExists
<1> DEFINE e == [f EXCEPT ![x] = v]
           h == [T \in SUBSET S |-> g[T] + (IF x \in T THEN v - f[x] ELSE 0)]
<1>2. e \in [S -> Int]
  OBVIOUS
<1>3. Additive(e, S, h)
  <2>1. h \in [SUBSET S -> Int] /\ h[{}] = 0
    BY <1>1 DEF Additive
  <2>2. ASSUME NEW T \in SUBSET S, NEW y \in S \ T
        PROVE  h[T \cup {y}] = h[T] + e[y]
    <3>1. g[T \cup {y}] = g[T] + f[y] /\ T \cup {y} \in SUBSET S
      BY <1>1 DEF Additive
    <3>2. g[T] \in Int /\ f[y] \in Int /\ f[x] \in Int
      BY <1>1 DEF Additive
    <3>3. CASE y = x
      BY <3>1, <3>2, <3>3
    <3>4. CASE y # x
      <4>1. x \in T \cup {y} <=> x \in T
        BY <3>4
      <4>2. e[y] = f[y]
        BY <3>4
      <4> QED  BY <3>1, <3>2, <4>1, <4>2
    <3> QED  BY <3>3, <3>4
  <2> QED  BY <2>1, <2>2 DEF Additive
<1>4. SumFunction(f) = g[S] /\ g[S] \in Int
  BY <1>1, SumAdditive DEF Additive
<1>5. SumFunction(e) = h[S]
  <2> HIDE DEF e, h
  <2> QED  BY <1>2, <1>3, SumAdditive
<1>6. h[S] = g[S] + (v - f[x]) /\ f[x] \in Int
  OBVIOUS
<1> QED  BY <1>4, <1>5, <1>6

(* A sum of zeros is zero. *)
LEMMA SumZero ==
  ASSUME NEW S, IsFiniteSet(S)
  PROVE  SumFunction([x \in S |-> 0]) = 0
<1>1. Additive([x \in S |-> 0], S, [T \in SUBSET S |-> 0])
  BY DEF Additive
<1> QED  BY <1>1, SumAdditive
-----------------------------------------------------------------------------
(* The accounting *)

(* Bytes wait to be subtracted only while the sweep is about to do so. *)
DebitInHand == debit # 0 => \E p \in Procs : cpc[p] = "debit"

AccountInv == AccountTypeOK /\ DebitInHand /\ NeverUndercounts

FileSizes == [r \in Roots |-> FileSize(r)]

(* Finitely many handlers. *)
LEMMA ProcsFinite == IsFiniteSet(Procs)
  BY ClientsAssumption, FS_AddElement DEF Procs

(* A file is no larger than its content. *)
LEMMA FileSizeNat ==
  ASSUME CacheTypeOK, NEW r \in Roots
  PROVE  FileSize(r) \in Nat /\ FileSize(r) <= Size[r] /\ Size[r] \in Nat
  BY SizeAssumption DEF CacheTypeOK, CacheStates, FileSize

(* The directory's size is a number. *)
LEMMA DirSizeType == CacheTypeOK => dirSize \in Int
<1> SUFFICES ASSUME CacheTypeOK PROVE dirSize \in Int
  OBVIOUS
<1>1. FileSizes \in [Roots -> Int]
  BY FileSizeNat DEF FileSizes
<1> QED  BY <1>1, RootsAssumption, SumType DEF dirSize, FileSizes

(* One file replaced changes the directory by the difference. *)
LEMMA DirSizeStep ==
  ASSUME CacheTypeOK, NEW r \in Roots, NEW s \in CacheStates,
         cache' = [cache EXCEPT ![r] = s]
  PROVE  dirSize' = dirSize - FileSize(r) + FileSize(r)'
<1>1. CacheTypeOK => FileSizes \in [Roots -> Int]
  BY FileSizeNat DEF FileSizes
<1>2. FileSize(r)' \in Int
  <2>1. cache'[r] = s
    BY DEF CacheTypeOK
  <2>2. Size[r] \in Nat
    BY SizeAssumption
  <2> QED  BY <2>1, <2>2 DEF FileSize, CacheStates
<1>3. FileSizes' = [FileSizes EXCEPT ![r] = FileSize(r)']
  BY DEF FileSizes, FileSize, CacheTypeOK
<1>4. SumFunction(FileSizes') = SumFunction(FileSizes) - FileSizes[r] + FileSize(r)'
  BY <1>1, <1>2, <1>3, RootsAssumption, SumExcept
<1>5. FileSizes[r] = FileSize(r)
  BY DEF FileSizes
<1> QED  BY <1>4, <1>5 DEF dirSize, FileSizes

(* Every handler's share of the renamed bytes is a number, and so is their   *)
(* sum.                                                                      *)
LEMMA UnnotedType ==
  ASSUME HandlerInv
  PROVE  /\ RenamedUnnoted \in [Procs -> Int]
         /\ SumFunction(RenamedUnnoted) \in Int
<1>1. RenamedUnnoted \in [Procs -> Int]
  BY SizeAssumption DEF RenamedUnnoted, HandlerInv
<1> QED  BY <1>1, ProcsFinite, SumType

(* A handler's step moves its own share of the renamed bytes. *)
LEMMA UnnotedStep ==
  ASSUME HandlerInv, HandlerInv', NEW p \in Procs,
         \A q \in Procs : q # p => cpc'[q] = cpc[q] /\ croot'[q] = croot[q]
  PROVE  SumFunction(RenamedUnnoted)' =
           SumFunction(RenamedUnnoted) - RenamedUnnoted[p] + RenamedUnnoted'[p]
<1>1. RenamedUnnoted \in [Procs -> Int] /\ RenamedUnnoted'[p] \in Int
  BY UnnotedType, SizeAssumption DEF RenamedUnnoted, HandlerInv
<1>2. RenamedUnnoted' = [RenamedUnnoted EXCEPT ![p] = RenamedUnnoted'[p]]
  BY DEF RenamedUnnoted
<1> QED  BY <1>1, <1>2, ProcsFinite, SumExcept

(* The bytes each account holds are numbers. *)
LEMMA AccountsAreInts ==
  ASSUME TypeInv, AccountInv
  PROVE  /\ dirSize \in Int /\ SumFunction(RenamedUnnoted) \in Int
         /\ cacheBytes \in Int /\ debit \in Nat /\ leaked \in Nat
  BY DirSizeType, UnnotedType DEF TypeInv, AccountInv, AccountTypeOK

(* The directory is as large as before where no file changed. *)
LEMMA DirSizeKept ==
  ASSUME UNCHANGED cache
  PROVE  dirSize' = dirSize
  BY DEF dirSize, FileSize

(* A step that renames, notes and removes nothing keeps the account. *)
LEMMA QuietStep ==
  ASSUME TypeInv, TypeInv', AccountInv, NEW p \in Procs, NEW to,
         cpc' = [cpc EXCEPT ![p] = to],
         \A q \in Procs : q # p => croot'[q] = croot[q],
         cpc[p] \notin {"note", "reopen", "debit"}, to \notin {"note", "reopen", "debit"},
         UNCHANGED <<cache, cacheBytes, debit, leaked>>
  PROVE  AccountInv'
<1>1. cpc \in [Procs -> HandlerPC]
  BY DEF TypeInv, HandlerInv, ServiceTypeOK
<1>2. RenamedUnnoted[p] = 0 /\ RenamedUnnoted'[p] = 0
  BY <1>1 DEF RenamedUnnoted
<1>3. SumFunction(RenamedUnnoted)' = SumFunction(RenamedUnnoted)
  BY <1>1, <1>2, UnnotedStep, AccountsAreInts DEF TypeInv
<1>4. DebitInHand'
  BY <1>1 DEF AccountInv, DebitInHand
<1> QED  BY <1>3, <1>4, DirSizeKept DEF AccountInv, AccountTypeOK, NeverUndercounts

(* The bytes of a file renamed into the cache are charged to its handler. *)
LEMMA RenameStep ==
  ASSUME TypeInv, TypeInv', AccountInv, NEW p \in Procs, NEW to \in {"note", "reopen"},
         croot[p] \in Roots, RenameInto(croot[p]),
         cpc[p] \notin {"note", "reopen", "debit"},
         cpc' = [cpc EXCEPT ![p] = to],
         UNCHANGED <<croot, cacheBytes, debit, leaked>>
  PROVE  AccountInv'
<1>1. cpc \in [Procs -> HandlerPC]
  BY DEF TypeInv, HandlerInv, ServiceTypeOK
<1>2. RenamedUnnoted[p] = 0 /\ RenamedUnnoted'[p] = Size[croot[p]]
  BY <1>1 DEF RenamedUnnoted
<1>3. SumFunction(RenamedUnnoted)' = SumFunction(RenamedUnnoted) - 0 + Size[croot[p]]
  BY <1>1, <1>2, UnnotedStep DEF TypeInv
<1>4. dirSize' = dirSize - FileSize(croot[p]) + FileSize(croot[p])'
  <2>1. cache' = [cache EXCEPT ![croot[p]] = "intact"] /\ "intact" \in CacheStates
    BY DEF RenameInto, CacheStates
  <2> QED  BY <2>1, DirSizeStep DEF TypeInv
<1>5. FileSize(croot[p]) \in Nat /\ Size[croot[p]] \in Nat
  BY FileSizeNat DEF TypeInv
<1>6. FileSize(croot[p])' = Size[croot[p]]
  BY DEF FileSize, RenameInto, TypeInv, CacheTypeOK
<1>7. DebitInHand'
  BY <1>1 DEF AccountInv, DebitInHand
<1> QED  BY <1>3, <1>4, <1>5, <1>6, <1>7, AccountsAreInts
         DEF AccountInv, AccountTypeOK, NeverUndercounts

(* noteAdded takes the bytes over from its handler's share. *)
LEMMA NoteAccounts ==
  ASSUME TypeInv, TypeInv', AccountInv, NEW p \in Procs, noteAdded(p)
  PROVE  AccountInv'
<1>1. cpc \in [Procs -> HandlerPC] /\ croot[p] \in Roots
  BY DEF TypeInv, HandlerInv, ServiceTypeOK, noteAdded
<1>2. RenamedUnnoted[p] = Size[croot[p]] /\ RenamedUnnoted'[p] = 0
  BY <1>1 DEF RenamedUnnoted, noteAdded, Goto
<1>3. SumFunction(RenamedUnnoted)' = SumFunction(RenamedUnnoted) - Size[croot[p]] + 0
  BY <1>1, <1>2, UnnotedStep DEF TypeInv, noteAdded, Goto
<1>4. Size[croot[p]] \in Nat
  BY <1>1, SizeAssumption
<1>5. DebitInHand'
  BY <1>1 DEF AccountInv, DebitInHand, noteAdded, Goto
<1>6. cacheBytes' = cacheBytes + Size[croot[p]] /\ UNCHANGED <<debit, leaked, cache>>
  BY DEF noteAdded, cacheVars
<1> QED  BY <1>3, <1>4, <1>5, <1>6, AccountsAreInts, DirSizeKept
         DEF AccountInv, AccountTypeOK, NeverUndercounts

(* The sweep's Add subtracts the bytes it took down for it. *)
LEMMA DebitAccounts ==
  ASSUME TypeInv, TypeInv', SingleSweep, AccountInv, NEW p \in Procs, Debit(p)
  PROVE  AccountInv'
<1>1. cpc \in [Procs -> HandlerPC]
  BY DEF TypeInv, HandlerInv, ServiceTypeOK
<1>2. RenamedUnnoted' = RenamedUnnoted
  BY <1>1 DEF RenamedUnnoted, Debit, Goto
<1>3. cacheBytes' = cacheBytes - debit /\ debit' = 0 /\ UNCHANGED <<leaked, cache>>
  BY DEF Debit, cacheVars
<1>4. DebitInHand'
  BY <1>3 DEF DebitInHand
<1> QED  BY <1>2, <1>3, <1>4, AccountsAreInts, DirSizeKept
         DEF AccountInv, AccountTypeOK, NeverUndercounts

(* A file removed is bytes to subtract.  None were waiting: the sweep is     *)
(* single-flight and subtracts before it removes again.                      *)
LEMMA EvictAccounts ==
  ASSUME TypeInv, TypeInv', SingleSweep, AccountInv, NEW p \in Procs,
         NEW r \in Roots, EvictOne(p, r)
  PROVE  AccountInv'
<1>1. cpc \in [Procs -> HandlerPC]
  BY DEF TypeInv, HandlerInv, ServiceTypeOK
<1>2. CASE ~fileExists(r)
  BY <1>2, DirSizeKept DEF EvictOne, AccountInv, AccountTypeOK, NeverUndercounts,
     DebitInHand, RenamedUnnoted, cacheVars
<1>3. CASE fileExists(r)
  <2>1. /\ cpc[p] = "sweep" /\ cpc' = [cpc EXCEPT ![p] = "debit"]
        /\ debit' = FileSize(r) /\ cache' = [cache EXCEPT ![r] = "missing"]
        /\ UNCHANGED <<croot, cacheBytes, leaked>>
    BY <1>3 DEF EvictOne, Remove, Goto
  <2>2. debit = 0
    BY <1>1, <2>1 DEF AccountInv, DebitInHand, SingleSweep, Sweeping
  <2>3. RenamedUnnoted' = RenamedUnnoted
    BY <1>1, <2>1 DEF RenamedUnnoted
  <2>4. dirSize' = dirSize - FileSize(r) + 0
    <3>1. FileSize(r)' = 0
      BY <2>1 DEF FileSize, TypeInv, CacheTypeOK
    <3>2. "missing" \in CacheStates
      BY DEF CacheStates
    <3> QED  BY <2>1, <3>1, <3>2, DirSizeStep DEF TypeInv
  <2>5. FileSize(r) \in Nat
    BY FileSizeNat DEF TypeInv
  <2>6. DebitInHand'
    BY <1>1, <2>1 DEF DebitInHand
  <2> QED  BY <2>1, <2>2, <2>3, <2>4, <2>5, <2>6, AccountsAreInts
           DEF AccountInv, AccountTypeOK, NeverUndercounts
<1> QED  BY <1>2, <1>3

(* A restored file that opens is about to be noted; the bytes of one that    *)
(* does not are leaked.                                                      *)
LEMMA ReopenAccounts ==
  ASSUME TypeInv, TypeInv', AccountInv, NEW p \in Procs, Reopen(p) \/ ReopenFails(p)
  PROVE  AccountInv'
<1>1. /\ cpc \in [Procs -> HandlerPC] /\ croot[p] \in Roots
      /\ cpc[p] = "reopen"
  BY DEF TypeInv, HandlerInv, ServiceTypeOK, Reopen, ReopenFails
<1>2. RenamedUnnoted[p] = Size[croot[p]] /\ Size[croot[p]] \in Nat
  BY <1>1, SizeAssumption DEF RenamedUnnoted
<1>3. UNCHANGED <<cache, cacheBytes, debit>>
  BY DEF Reopen, ReopenFails, evictVars, cacheVars
<1>4. DebitInHand'
  BY <1>1, <1>3 DEF AccountInv, DebitInHand, Reopen, ReopenFails, Return, Goto
<1>5. leaked' \in Nat
  BY <1>2, AccountsAreInts DEF Reopen, ReopenFails, evictVars
<1>6. CASE ~Bounded
  BY <1>3, <1>4, <1>5, <1>6 DEF AccountInv, AccountTypeOK, NeverUndercounts, Bounded
<1>7. CASE Bounded /\ Reopen(p)
  <2>1. RenamedUnnoted' = RenamedUnnoted
    BY <1>1, <1>7 DEF RenamedUnnoted, Reopen, Goto
  <2>2. leaked' = leaked
    BY <1>7 DEF Reopen, evictVars
  <2> QED  BY <1>3, <1>4, <2>1, <2>2, DirSizeKept
           DEF AccountInv, AccountTypeOK, NeverUndercounts
<1>8. CASE Bounded /\ ReopenFails(p)
  <2>1. RenamedUnnoted'[p] = 0
    BY <1>1, <1>8 DEF RenamedUnnoted, ReopenFails, Return, Goto
  <2>2. SumFunction(RenamedUnnoted)' = SumFunction(RenamedUnnoted) - Size[croot[p]] + 0
    BY <1>1, <1>2, <1>8, <2>1, UnnotedStep DEF TypeInv, ReopenFails, Return, Goto
  <2>3. leaked' = leaked + Size[croot[p]]
    BY <1>8 DEF ReopenFails
  <2> QED  BY <1>2, <1>3, <1>4, <2>2, <2>3, DirSizeKept, AccountsAreInts
           DEF AccountInv, AccountTypeOK, NeverUndercounts
<1> QED  BY <1>6, <1>7, <1>8

(* Each step of a request keeps the account. *)
LEMMA HandlerAccounts ==
  ASSUME TypeInv, TypeInv', SingleSweep, AccountInv, NEW p \in Procs,
         Begin(p) \/ Handle(p)
  PROVE  AccountInv'
<1>0. /\ cpc \in [Procs -> HandlerPC] /\ croot \in [Procs -> Roots \cup {NoContent}]
      /\ cret \in [Procs -> {"idle", "admit", "rearm", "create"}]
  BY DEF TypeInv, HandlerInv, ServiceTypeOK
<1>1. LeaveEvict(p) =>
        /\ \E to \in {"idle", "admit", "rearm", "create"} : cpc' = [cpc EXCEPT ![p] = to]
        /\ \A q \in Procs : q # p => croot'[q] = croot[q]
  BY <1>0 DEF LeaveEvict, Return, Goto
<1>2. CASE noteAdded(p)
  BY <1>2, NoteAccounts
<1>3. CASE Debit(p)
  BY <1>3, DebitAccounts
<1>4. ASSUME NEW r \in Roots, EvictOne(p, r) PROVE AccountInv'
  BY <1>4, EvictAccounts
<1>5. CASE Reopen(p) \/ ReopenFails(p)
  BY <1>5, ReopenAccounts
<1>6. CASE Salvage(p) \/ RenameFresh(p)
  <2>1. /\ croot[p] \in Roots /\ RenameInto(croot[p])
        /\ UNCHANGED <<croot, cacheBytes, debit, leaked>>
        /\ cpc[p] \in {"salvage", "rename"}
    BY <1>6 DEF Salvage, RenameFresh, By, evictVars, TypeInv, HandlerInv
  <2>2. CASE Bounded
    <3>1. cpc' = [cpc EXCEPT ![p] = "note"]
      BY <1>6, <2>2 DEF Salvage, RenameFresh, By, Goto
    <3> QED  BY <2>1, <3>1, RenameStep
  <2>3. CASE ~Bounded
    <3>1. DebitInHand'
      BY <1>0, <1>6, <2>1 DEF AccountInv, DebitInHand, Salvage, RenameFresh, By, Goto
    <3> QED  BY <2>1, <2>3, <3>1 DEF AccountInv, AccountTypeOK, NeverUndercounts, Bounded
  <2> QED  BY <2>2, <2>3
<1>7. CASE Restore(p)
  <2>1. /\ croot[p] \in Roots /\ RenameInto(croot[p])
        /\ UNCHANGED <<croot, cacheBytes, debit, leaked>>
        /\ cpc[p] = "restore" /\ cpc' = [cpc EXCEPT ![p] = "reopen"]
    BY <1>7 DEF Restore, Goto, evictVars, TypeInv, HandlerInv
  <2> QED  BY <2>1, RenameStep
<1>8. CASE OverLimit(p) \/ AcquireEvicting(p) \/ ReleaseEvicting(p)
  <2>1. UNCHANGED <<cache, cacheBytes, debit, leaked>>
    BY <1>8 DEF OverLimit, AcquireEvicting, ReleaseEvicting, evictVars, cacheVars
  <2>2. cpc[p] \in {"evict", "cas", "list", "sweep"}
    BY <1>8 DEF OverLimit, AcquireEvicting, ReleaseEvicting
  <2>3. \/ LeaveEvict(p)
        \/ \E to \in {"cas", "list"} : cpc' = [cpc EXCEPT ![p] = to] /\ UNCHANGED croot
    BY <1>8 DEF OverLimit, AcquireEvicting, ReleaseEvicting, Goto
  <2>4. PICK to \in {"idle", "admit", "rearm", "create", "cas", "list"} :
          /\ cpc' = [cpc EXCEPT ![p] = to]
          /\ \A q \in Procs : q # p => croot'[q] = croot[q]
    BY <1>1, <2>3
  <2> QED  BY <2>1, <2>2, <2>4, QuietStep
<1>9. ASSUME NEW r \in Roots, EvictRefused(p, r) PROVE AccountInv'
  BY <1>9, DirSizeKept DEF EvictRefused, AccountInv, AccountTypeOK, NeverUndercounts,
     DebitInHand, RenamedUnnoted, cacheVars, reqVars
<1>10. CASE ListCandidates(p) \/ ShouldRejectWrite(p) \/ Lookup(p) \/ Decide(p)
            \/ Rearm(p) \/ Create(p) \/ OpenCached(p) \/ Download(p)
            \/ RequestFails(p) \/ Begin(p)
  <2>1. UNCHANGED <<cache, cacheBytes, debit, leaked>>
    BY <1>10 DEF ListCandidates, ShouldRejectWrite, Lookup, Decide, Rearm, Create,
       OpenCached, Download, RequestFails, Begin, BeginPut, BeginOpen, evictVars, cacheVars
  <2>2. cpc[p] \notin {"note", "reopen", "debit"}
    BY <1>10 DEF ListCandidates, ShouldRejectWrite, Lookup, Decide, Rearm, Create,
       OpenCached, Download, RequestFails, Begin, BeginPut, BeginOpen
  <2>3. \E to \in {"sweep", "idle", "lookup", "rename", "decide", "salvage", "rearm",
                   "download", "restore", "evict", "open"} : cpc' = [cpc EXCEPT ![p] = to]
    BY <1>10 DEF ListCandidates, ShouldRejectWrite, Lookup, Decide, Rearm, Create,
       OpenCached, Download, RequestFails, Begin, BeginPut, BeginOpen, Return, Goto
  <2>4. \A q \in Procs : q # p => croot'[q] = croot[q]
    BY <1>0, <1>10 DEF ListCandidates, ShouldRejectWrite, Lookup, Decide, Rearm, Create,
       OpenCached, Download, RequestFails, Begin, BeginPut, BeginOpen, Return
  <2> QED  BY <2>1, <2>2, <2>3, <2>4, QuietStep
<1> QED  BY <1>2, <1>3, <1>4, <1>5, <1>6, <1>7, <1>8, <1>9, <1>10
         DEF Handle, HandlerStep

(* A file lost or truncated leaves the total too large, never too small. *)
LEMMA FaultAccounts ==
  ASSUME TypeInv, AccountInv, NEW r \in Roots, LoseFile(r) \/ DamageFile(r),
         UNCHANGED serviceVars
  PROVE  AccountInv'
<1>1. PICK s \in CacheStates : cache' = [cache EXCEPT ![r] = s]
  BY DEF LoseFile, DamageFile, CacheStates
<1>2. dirSize' = dirSize - FileSize(r) + FileSize(r)'
  BY <1>1, DirSizeStep DEF TypeInv
<1>3. FileSize(r)' \in Nat /\ FileSize(r) \in Nat /\ FileSize(r)' <= FileSize(r)
  BY SizeAssumption DEF LoseFile, DamageFile, FileSize, fileExists, TypeInv,
     CacheTypeOK, CacheStates
<1>4. RenamedUnnoted' = RenamedUnnoted
  BY DEF RenamedUnnoted, serviceVars, reqVars
<1> QED  BY <1>2, <1>3, <1>4, AccountsAreInts DEF AccountInv, AccountTypeOK,
         DebitInHand, NeverUndercounts, serviceVars, reqVars, evictVars

(* New measures the directory, so nothing is owed after a restart. *)
LEMMA CrashAccounts ==
  ASSUME TypeInv, Crash
  PROVE  AccountInv'
<1>1. RenamedUnnoted' = [p \in Procs |-> 0]
  BY DEF RenamedUnnoted, Crash, New
<1>2. SumFunction(RenamedUnnoted)' = 0
  BY <1>1, ProcsFinite, SumZero
<1>3. dirSize' = dirSize /\ dirSize \in Int
  BY DirSizeKept, DirSizeType DEF Crash, cacheVars, TypeInv
<1> QED  BY <1>2, <1>3 DEF Crash, New, AccountInv, AccountTypeOK, DebitInHand,
         NeverUndercounts

(* The account of an empty cache. *)
LEMMA AccountInit == Init => AccountInv
<1> SUFFICES ASSUME Init PROVE AccountInv
  OBVIOUS
<1>1. RenamedUnnoted = [p \in Procs |-> 0]
  BY DEF RenamedUnnoted, Init, ServiceInit
<1>2. dirSize = SumFunction([r \in Roots |-> 0])
  BY DEF dirSize, FileSize, Init, CacheInit
<1>3. dirSize = 0 /\ SumFunction(RenamedUnnoted) = 0
  BY <1>1, <1>2, ProcsFinite, RootsAssumption, SumZero
<1> QED  BY <1>3 DEF Init, ServiceInit, AccountInv, AccountTypeOK, DebitInHand,
         NeverUndercounts

(* The account is kept by every step of the gateway. *)
LEMMA AccountInvariant == Spec => []AccountInv
<1>1. TypeInv /\ TypeInv' /\ SingleSweep /\ AccountInv /\ [Next]_vars => AccountInv'
  <2> SUFFICES ASSUME TypeInv, TypeInv', SingleSweep, AccountInv, [Next]_vars
               PROVE  AccountInv'
    OBVIOUS
  <2>1. CASE UNCHANGED <<serviceVars, cache>>
    BY <2>1, DirSizeKept DEF AccountInv, AccountTypeOK, DebitInHand,
       NeverUndercounts, RenamedUnnoted, serviceVars, reqVars, evictVars
  <2>2. ASSUME NEW p \in Procs, Begin(p) \/ Handle(p) PROVE AccountInv'
    BY <2>2, HandlerAccounts
  <2>3. CASE Crash
    BY <2>3, CrashAccounts
  <2>4. CASE Fault
    BY <2>1, <2>4, FaultAccounts DEF Fault, StoreError, cacheVars
  <2>5. CASE Worker
    <3>1. UNCHANGED cache
      BY <2>5 DEF Worker, Flush, NextBatch, ExamineFresh, ExamineRetried,
         QueryStatus, ApplyStatus, NothingToSubmit, BeginSubmit, MarkSubmitted,
         MarkOnchain, OpenFiles, SubmitTx, SubmitRefused, SubmitNothing,
         UploadSegments, UploadFails, BatchDone, ReconcileQuery, PollQuery,
         ReconcileApply, CountRetry, GiveUpOrRetry, BeginPoll, PollApply,
         PollDone, cacheVars
    <3> QED  BY <2>1, <2>5, <3>1 DEF Worker
  <2>6. CASE Network
    BY <2>1, <2>6 DEF Network, cacheVars
  <2>7. CASE UNCHANGED vars
    BY <2>1, <2>7 DEF vars, cacheVars
  <2> QED  BY <2>2, <2>3, <2>4, <2>5, <2>6, <2>7 DEF Next
<1> QED  BY <1>1, AccountInit, TypesAndQueues, SweepsOneAtATime, PTL DEF Spec

(* cacheBytes, with what is accounted for elsewhere, covers the cache        *)
(* directory in every state, for any contents, sizes and limit and any       *)
(* number of concurrent requests, sweeps, restores, faults and crashes.      *)
THEOREM CacheIsAccounted == Spec => []NeverUndercounts
<1>1. AccountInv => NeverUndercounts
  BY DEF AccountInv
<1> QED  BY <1>1, AccountInvariant, PTL

(* Every variable of the gateway keeps its type; the counters of bytes need  *)
(* the sums above for it.                                                    *)
THEOREM GatewayTypeCorrect == Spec => []TypeOK
<1> DEFINE EnvOK == crashes \in 0 .. MaxCrashes /\ faults \in 0 .. MaxFaults
<1>1. Init => EnvOK
  BY GatewayAssumption DEF Init
<1>2. EnvOK /\ [Next]_vars => EnvOK'
  BY GatewayAssumption DEF Next, Worker, Begin, Handle, Network, Fault, Crash,
     vars, envVars
<1>3. TypeInv /\ AccountInv /\ EnvOK => TypeOK
  BY DEF TypeInv, StoreInv, WorkerInv, HandlerInv, AccountInv, TypeOK
<1> QED  BY <1>1, <1>2, <1>3, AccountInvariant, TypesAndQueues, PTL DEF Spec
=============================================================================
