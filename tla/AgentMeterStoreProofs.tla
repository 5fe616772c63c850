------------------------ MODULE AgentMeterStoreProofs ------------------------
(***************************************************************************)
(* The ledger's types, the agreement of purchases with credit operations,  *)
(* the conservation of credits and the finality of ledger rows, proved for *)
(* any accounts, keys, prices, packs and grants.                           *)
(***************************************************************************)
EXTENDS AgentMeterStore, FiniteSetTheorems, WellFoundedInduction, TLAPS

MeterInv == TypeOK /\ PurchaseMatchesOperation

-------------------------------------------------------------------------------
(* Operators *)

\* Adding credits to a row keeps its status.
LEMMA CreditedRow ==
  ASSUME NEW row \in [status : {"absent", "active", "revoked"}, provisioned : Nat, remaining : Nat],
         NEW n \in Nat
  PROVE  /\ Credited(row, n) \in [status : {"absent", "active", "revoked"}, provisioned : Nat, remaining : Nat]
         /\ Credited(row, n).status = row.status
         /\ Credited(row, n).provisioned = row.provisioned + n
         /\ Credited(row, n).remaining = row.remaining + n
BY DEF Credited

\* A top-up is the missing difference and never negative.
LEMMA TopUpAmount ==
  ASSUME NEW n \in Nat, NEW m \in Nat
  PROVE  TopUp(n, m) \in Nat /\ (n > m => m + TopUp(n, m) = n) /\ (n <= m => TopUp(n, m) = 0)
BY DEF TopUp

\* A purchase's operation is a well-formed row and differs from the absent one.
LEMMA PackRow ==
  ASSUME NEW p \in Purchases
  PROVE  /\ PurchaseAccount[p] \in Accounts /\ p \in OperationKeys
         /\ PackCredits[p] \in Nat \ {0}
         /\ PackOperation(p) \in OperationRows
         /\ PackOperation(p) # NoOperation
BY PackAssumption DEF PackOperation, OperationRows, NoOperation, OperationKeys

-------------------------------------------------------------------------------
(* Types *)

\* The opening accounts are well formed.
LEMMA TypesInit == Init => TypeOK
<1> SUFFICES ASSUME Init PROVE TypeOK
  OBVIOUS
<1>1. \A a \in Accounts : OpeningCredits(a) \in Nat
  BY OpeningAssumption DEF OpeningCredits
<1>2. \A a \in Accounts :
        OpeningAccount(a) \in [status : {"absent", "active", "revoked"}, provisioned : Nat, remaining : Nat]
  BY OpeningAssumption DEF OpeningAccount, NewAccount, NoAccount
<1> QED
  BY <1>1, <1>2 DEF Init, TypeOK

\* Provisioning adds a non-negative amount or inserts a new row.
LEMMA ProvisionTypes ==
  ASSUME TypeOK, NEW a \in Accounts, NEW n \in Nat, NEW s \in {"active", "revoked"}, Provision(a, n, s)
  PROVE  TypeOK'
<1> DEFINE added == IF Exists(a) THEN TopUp(n, account[a].provisioned) ELSE n
           row == IF Exists(a) THEN Credited(account[a], added) ELSE NewAccount(n, s)
<1>1. account' = [account EXCEPT ![a] = row] /\ seeded' = [seeded EXCEPT ![a] = @ + added]
  BY DEF Provision
<1>2. added \in Nat
  BY TopUpAmount DEF TypeOK
<1>3. row \in [status : {"absent", "active", "revoked"}, provisioned : Nat, remaining : Nat]
  <2> HIDE DEF added
  <2> QED
    BY <1>2, CreditedRow DEF NewAccount, TypeOK
<1> HIDE DEF added, row
<1> QED
  BY <1>1, <1>2, <1>3 DEF TypeOK, Provision

\* An issue inserts a new row.
LEMMA CreateTypes ==
  ASSUME TypeOK, NEW a \in Accounts, NEW n \in Nat, Create(a, n)
  PROVE  TypeOK'
BY DEF TypeOK, Create, NewAccount

\* A revocation changes a status only.
LEMMA RevokeTypes ==
  ASSUME TypeOK, NEW a \in Accounts, Revoke(a)
  PROVE  TypeOK'
BY DEF TypeOK, Revoke

\* A credit writes a well-formed operation.
LEMMA CreditTypes ==
  ASSUME TypeOK, NEW a \in Accounts, NEW k \in RequestKeys, NEW n \in Nat \ {0},
         NEW reference \in References, Credit(a, k, n, reference)
  PROVE  TypeOK'
<1> DEFINE row == [credits |-> n, reference |-> reference]
<1>1. /\ account' = [account EXCEPT ![a] = Credited(account[a], n)]
      /\ operation' = [operation EXCEPT ![a][k] = row]
      /\ usage' = usage /\ purchase' = purchase /\ seeded' = seeded
  BY DEF Credit
<1>2. row \in OperationRows
  BY DEF OperationRows
<1>3. Credited(account[a], n) \in [status : {"absent", "active", "revoked"}, provisioned : Nat, remaining : Nat]
  BY CreditedRow DEF TypeOK
<1> HIDE DEF row
<1> QED
  BY <1>1, <1>2, <1>3 DEF TypeOK

\* A reservation takes no more than what remains.
LEMMA ReserveTypes ==
  ASSUME TypeOK, NEW a \in Accounts, NEW k \in RequestKeys, NEW route \in Routes, Reserve(a, k, route)
  PROVE  TypeOK'
<1>1. Price[route] \in Nat /\ account[a].remaining - Price[route] \in Nat
  BY PriceAssumption DEF TypeOK, Reserve, Affordable
<1>2. [state |-> "RESERVED", route |-> route] \in UsageRows
  BY DEF UsageRows
<1> QED
  BY <1>1, <1>2 DEF TypeOK, Reserve

\* A settlement returns the price of a held row at most.
LEMMA SettleUsageTypes ==
  ASSUME TypeOK, NEW a \in Accounts, NEW k \in RequestKeys,
         NEW outcome \in {"CONSUMED", "RELEASED"}, SettleUsage(a, k, outcome)
  PROVE  TypeOK'
<1>1. usage[a][k] \in UsageRows
  BY DEF TypeOK, SettleUsage, Unsettled, NoUsage
<1>2. Price[usage[a][k].route] \in Nat /\ [usage[a][k] EXCEPT !.state = outcome] \in UsageRows
  BY <1>1, PriceAssumption DEF UsageRows
<1>3. usage' = [usage EXCEPT ![a] = [usage[a] EXCEPT ![k] = [usage[a][k] EXCEPT !.state = outcome]]]
  BY DEF SettleUsage
<1>4. usage' \in [Accounts -> [RequestKeys -> UsageRows \cup {NoUsage}]]
  BY <1>2, <1>3 DEF TypeOK
<1>5. account' \in [Accounts -> [status : {"absent", "active", "revoked"}, provisioned : Nat, remaining : Nat]]
  <2> DEFINE returned == account[a].remaining + Price[usage[a][k].route]
  <2>1. returned \in Nat
    BY <1>2 DEF TypeOK
  <2>2. account' = account \/ account' = [account EXCEPT ![a] = [account[a] EXCEPT !.remaining = returned]]
    BY DEF SettleUsage
  <2> DEFINE Rows == [status : {"absent", "active", "revoked"}, provisioned : Nat, remaining : Nat]
  <2> HIDE DEF returned
  <2>3. account \in [Accounts -> Rows]
    BY DEF TypeOK
  <2>4. [account[a] EXCEPT !.remaining = returned] \in Rows
    BY <2>1, <2>3
  <2> HIDE DEF Rows
  <2>5. account' \in [Accounts -> Rows]
    BY <2>2, <2>3, <2>4
  <2> QED
    BY <2>5 DEF Rows
<1> QED
  BY <1>4, <1>5 DEF TypeOK, SettleUsage

\* Authorising and settling a purchase keep the rows well formed.
LEMMA PurchaseTypes ==
  ASSUME TypeOK, NEW p \in Purchases, AuthorizePurchase(p) \/ SettlePurchase(p)
  PROVE  TypeOK'
<1>1. CASE AuthorizePurchase(p)
  BY <1>1 DEF TypeOK, AuthorizePurchase
<1>2. CASE SettlePurchase(p)
  <2> DEFINE a == PurchaseAccount[p]
  <2>1. /\ account' = [account EXCEPT ![a] = Credited(account[a], PackCredits[p])]
        /\ operation' = [operation EXCEPT ![a][p] = PackOperation(p)]
        /\ purchase' = [purchase EXCEPT ![p] = "CREDITED"]
        /\ usage' = usage /\ seeded' = seeded
    BY <1>2 DEF SettlePurchase
  <2>2. Credited(account[a], PackCredits[p]) \in
          [status : {"absent", "active", "revoked"}, provisioned : Nat, remaining : Nat]
    BY CreditedRow, PackRow DEF TypeOK
  <2> QED
    BY <2>1, <2>2, PackRow DEF TypeOK
<1> QED
  BY <1>1, <1>2

\* Every method keeps the rows well formed.
LEMMA TypesStep == TypeOK /\ [Next]_storeVars => TypeOK'
<1> SUFFICES ASSUME TypeOK, [Next]_storeVars PROVE TypeOK'
  OBVIOUS
<1>1. CASE UNCHANGED storeVars
  BY <1>1 DEF storeVars, TypeOK
<1>2. ASSUME NEW a \in Accounts, NEW n \in Seeds, NEW s \in {"active", "revoked"}, Provision(a, n, s)
      PROVE  TypeOK'
  BY <1>2, ProvisionTypes, AmountsAssumption
<1>3. ASSUME NEW a \in Accounts, NEW n \in Seeds \cup {0}, Create(a, n) PROVE TypeOK'
  BY <1>3, CreateTypes, AmountsAssumption
<1>4. ASSUME NEW a \in Accounts, NEW k \in RequestKeys, NEW n \in Grants, NEW reference \in References,
             Credit(a, k, n, reference)
      PROVE  TypeOK'
  BY <1>4, CreditTypes, AmountsAssumption
<1> QED
  BY <1>1, <1>2, <1>3, <1>4, RevokeTypes, ReserveTypes, SettleUsageTypes, PurchaseTypes DEF Next

\* The tables of the store are well formed in every behaviour.
THEOREM TypeCorrect == Spec => []TypeOK
BY TypesInit, TypesStep, PTL DEF Spec

-------------------------------------------------------------------------------
(* Purchases and their operations *)

\* The opening accounts are well formed and nothing is purchased.
LEMMA MeterInit == Init => MeterInv
<1> SUFFICES ASSUME Init PROVE MeterInv
  OBVIOUS
<1>1. ASSUME NEW p \in Purchases
      PROVE  purchase[p] # "CREDITED" /\ operation[PurchaseAccount[p]][p] # PackOperation(p)
  BY PackRow DEF Init
<1> QED
  BY <1>1, TypesInit DEF MeterInv, PurchaseMatchesOperation

\* A purchase is marked together with its operation, and a credit of another
\* reference writes no purchase's operation.
LEMMA MeterStep == MeterInv /\ [Next]_storeVars => MeterInv'
<1> SUFFICES ASSUME MeterInv, [Next]_storeVars PROVE MeterInv'
  OBVIOUS
<1>1. CASE UNCHANGED <<operation, purchase>>
  BY <1>1, TypesStep DEF MeterInv, PurchaseMatchesOperation, PackOperation
<1>2. ASSUME NEW p \in Purchases
      PROVE  /\ PurchaseAccount[p] \in Accounts /\ p \in OperationKeys
             /\ (purchase[p] = "CREDITED") <=> (operation[PurchaseAccount[p]][p] = PackOperation(p))
  BY PackRow DEF MeterInv, PurchaseMatchesOperation
<1>3. ASSUME NEW a \in Accounts, NEW k \in RequestKeys, NEW n, NEW reference \in References,
             Credit(a, k, n, reference), NEW p \in Purchases
      PROVE  (purchase'[p] = "CREDITED") <=> (operation'[PurchaseAccount[p]][p] = PackOperation(p))
  <2> DEFINE row == [credits |-> n, reference |-> reference]
  <2>1. /\ operation' = [operation EXCEPT ![a][k] = row] /\ purchase' = purchase
        /\ operation[a][k] = NoOperation /\ k \in OperationKeys
    BY <1>3 DEF Credit, Unused, OperationKeys
  <2>2. PackOperation(p) # row
    BY <1>3 DEF PackOperation, References
  <2> HIDE DEF row
  <2>3. CASE PurchaseAccount[p] = a /\ p = k
    BY <1>2, <1>3, <2>1, <2>2, <2>3, PackRow DEF MeterInv, TypeOK
  <2>4. CASE ~(PurchaseAccount[p] = a /\ p = k)
    BY <1>2, <1>3, <2>1, <2>4 DEF MeterInv, TypeOK
  <2> QED
    BY <2>3, <2>4
<1>4. ASSUME NEW q \in Purchases, AuthorizePurchase(q), NEW p \in Purchases
      PROVE  (purchase'[p] = "CREDITED") <=> (operation'[PurchaseAccount[p]][p] = PackOperation(p))
  BY <1>2, <1>4 DEF MeterInv, TypeOK, AuthorizePurchase, Unauthorized
<1>5. ASSUME NEW q \in Purchases, SettlePurchase(q), NEW p \in Purchases
      PROVE  (purchase'[p] = "CREDITED") <=> (operation'[PurchaseAccount[p]][p] = PackOperation(p))
  <2>1. /\ operation' = [operation EXCEPT ![PurchaseAccount[q]][q] = PackOperation(q)]
        /\ purchase' = [purchase EXCEPT ![q] = "CREDITED"]
    BY <1>5 DEF SettlePurchase
  <2>2. CASE p = q
    BY <1>2, <2>1, <2>2 DEF MeterInv, TypeOK
  <2>3. CASE p # q
    BY <1>2, <1>5, <2>1, <2>3 DEF MeterInv, TypeOK
  <2> QED
    BY <2>2, <2>3
<1>6. ASSUME \A p \in Purchases :
               (purchase'[p] = "CREDITED") <=> (operation'[PurchaseAccount[p]][p] = PackOperation(p))
      PROVE  MeterInv'
  BY <1>6, TypesStep DEF MeterInv, PurchaseMatchesOperation, PackOperation
<1>7. CASE Next /\ ~UNCHANGED <<operation, purchase>>
  <2>1. \/ \E a \in Accounts, k \in RequestKeys, n \in Grants, reference \in References : Credit(a, k, n, reference)
        \/ \E p \in Purchases : AuthorizePurchase(p) \/ SettlePurchase(p)
    BY <1>7 DEF Next, Provision, Create, Revoke, Reserve, SettleUsage
  <2> QED
    BY <2>1, <1>3, <1>4, <1>5, <1>6
<1> QED
  BY <1>1, <1>7 DEF storeVars

\* The invariant holds of every behaviour of the store.
THEOREM MeterInvHolds == Spec => []MeterInv
BY MeterInit, MeterStep, PTL DEF Spec

\* A purchase is CREDITED exactly when its credit operation exists.
THEOREM PurchasesMatch == Spec => []PurchaseMatchesOperation
<1>1. MeterInv => PurchaseMatchesOperation
  BY DEF MeterInv
<1> QED
  BY <1>1, MeterInvHolds, PTL

-------------------------------------------------------------------------------
(* Sums.  What a fold computes is shown by minimal counterexamples: of the sets  *)
(* or numbers for which a claim fails there would be a smallest.                 *)

\* The element by which a fold over a set goes on, and the totals a fold computes on the way.
Chosen(T) == CHOOSE x \in T : TRUE
IsTotal(f, S, g) ==
  g = [T \in SUBSET S |-> IF T = {} THEN 0 ELSE f[Chosen(T)] + g[T \ {Chosen(T)}]]

\* f has a natural number for every element of the finite set S.
Summable(f, S) == IsFiniteSet(S) /\ \A x \in S : f[x] \in Nat

\* The sum of a function over a set is the last of these totals.
LEMMA SumMeaning ==
  ASSUME NEW f, NEW S
  PROVE  SumFunctionOnSet(f, S) = (CHOOSE g : IsTotal(f, S, g))[S]
BY DEF SumFunctionOnSet, FoldFunctionOnSet, MapThenFoldSet, IsTotal, Chosen

\* Of the sets of a non-empty family of subsets of a finite set, one is smallest.
LEMMA SmallestOf ==
  ASSUME NEW S, IsFiniteSet(S), NEW F \in SUBSET SUBSET S, F # {}
  PROVE  \E T \in F : IsFiniteSet(T) /\ \A U \in F : Cardinality(T) <= Cardinality(U)
<1> DEFINE sizes == {Cardinality(T) : T \in F}
<1>1. \A T \in F : IsFiniteSet(T) /\ Cardinality(T) \in Nat
  BY FS_Subset, FS_CardinalityType
<1>2. sizes \subseteq Nat /\ sizes # {}
  BY <1>1
<1> HIDE DEF sizes
<1>3. PICK n \in sizes : \A m \in sizes : ~(<<m, n>> \in OpToRel(<, Nat))
  BY <1>2, NatLessThanWellFounded, WFMin
<1>4. \A m \in sizes : n <= m
  <2>1. n \in Nat /\ \A m \in sizes : m \in Nat
    BY <1>2
  <2>2. \A m \in sizes : ~(m < n)
    BY <1>3, <2>1 DEF OpToRel
  <2> QED
    BY <2>1, <2>2
<1> USE DEF sizes
<1>5. PICK T \in F : n = Cardinality(T)
  OBVIOUS
<1> QED
  BY <1>1, <1>4, <1>5

\* Folding takes elements away one at a time.
LEMMA ChosenIn ==
  ASSUME NEW S, NEW T \in SUBSET S, T # {}, IsFiniteSet(S)
  PROVE  /\ Chosen(T) \in T /\ T \ {Chosen(T)} \in SUBSET S
         /\ IsFiniteSet(T) /\ Cardinality(T) \in Nat \ {0}
         /\ \A x \in T : Cardinality(T \ {x}) = Cardinality(T) - 1
<1>1. Chosen(T) \in T
  BY DEF Chosen
<1>2. IsFiniteSet(T) /\ Cardinality(T) \in Nat
  BY FS_Subset, FS_CardinalityType
<1>3. Cardinality(T) # 0
  BY <1>2, FS_EmptySet
<1>4. \A x \in T : Cardinality(T \ {x}) = Cardinality(T) - 1
  BY <1>2, FS_RemoveElement
<1> QED
  BY <1>1, <1>2, <1>3, <1>4

\* The totals of a set depend on the function's values on that set only.
LEMMA TotalsAgree ==
  ASSUME NEW S1, NEW S2, IsFiniteSet(S1), NEW f1, NEW f2, NEW g1, NEW g2,
         IsTotal(f1, S1, g1), IsTotal(f2, S2, g2),
         NEW R \in SUBSET S1, R \subseteq S2, \A x \in R : f1[x] = f2[x]
  PROVE  g1[R] = g2[R]
<1> DEFINE F == {T \in SUBSET R : g1[T] # g2[T]}
<1>1. IsFiniteSet(R)
  BY FS_Subset
<1>2. SUFFICES ASSUME F # {} PROVE FALSE
  OBVIOUS
<1>3. PICK T \in F : \A U \in F : Cardinality(T) <= Cardinality(U)
  BY <1>1, <1>2, SmallestOf
<1>4. T \in SUBSET S1 /\ T \in SUBSET S2 /\ T \in SUBSET R
  OBVIOUS
<1>5. T # {}
  BY <1>4 DEF IsTotal
<1>6. g1[T] = f1[Chosen(T)] + g1[T \ {Chosen(T)}] /\ g2[T] = f2[Chosen(T)] + g2[T \ {Chosen(T)}]
  BY <1>4, <1>5 DEF IsTotal
<1>7. g1[T \ {Chosen(T)}] = g2[T \ {Chosen(T)}]
  <2>1. /\ Chosen(T) \in T /\ T \ {Chosen(T)} \in SUBSET R /\ Cardinality(T) \in Nat
        /\ Cardinality(T \ {Chosen(T)}) = Cardinality(T) - 1
    BY <1>1, <1>4, <1>5, ChosenIn
  <2>2. T \ {Chosen(T)} \notin F
    BY <1>3, <2>1
  <2> QED
    BY <2>1, <2>2
<1>8. Chosen(T) \in R
  BY <1>1, <1>4, <1>5, ChosenIn
<1> QED
  BY <1>6, <1>7, <1>8

\* A finite set has totals.
LEMMA TotalExists ==
  ASSUME NEW S, NEW f, Summable(f, S)
  PROVE  \E g \in [SUBSET S -> Nat] : IsTotal(f, S, g)
<1> USE DEF Summable
<1> DEFINE Filled(g, T) == IF T = {} THEN 0 ELSE f[Chosen(T)] + g[T \ {Chosen(T)}]
           UpTo(n) == \E g \in [SUBSET S -> Nat] :
                        \A T \in SUBSET S : Cardinality(T) <= n => g[T] = Filled(g, T)
           short == {n \in Nat : ~UpTo(n)}
<1>1. \A T \in SUBSET S : Cardinality(T) \in Nat /\ Cardinality(T) <= Cardinality(S)
  BY FS_Subset, FS_CardinalityType
<1>2. short = {}
  <2>1. SUFFICES ASSUME short # {} PROVE FALSE
    OBVIOUS
  <2> HIDE DEF UpTo
  <2>2. PICK n \in short : \A m \in short : ~(<<m, n>> \in OpToRel(<, Nat))
    BY <2>1, NatLessThanWellFounded, WFMin
  <2>3. n \in Nat /\ ~UpTo(n)
    OBVIOUS
  <2>4. n = 0 \/ (n - 1 \in Nat /\ UpTo(n - 1))
    <3>1. CASE n # 0
      <4>1. n - 1 \in Nat /\ n - 1 < n
        BY <2>3, <3>1
      <4>2. n - 1 \notin short
        BY <2>2, <2>3, <4>1 DEF OpToRel
      <4> QED
        BY <4>1, <4>2
    <3> QED
      BY <3>1
  <2>5. CASE n = 0
    <3>1. \A T \in SUBSET S : Cardinality(T) <= 0 => T = {}
      BY <1>1, FS_EmptySet, FS_Subset
    <3>2. \A T \in SUBSET S : Cardinality(T) <= 0 => [U \in SUBSET S |-> 0][T] = Filled([U \in SUBSET S |-> 0], T)
      BY <3>1
    <3>3. [U \in SUBSET S |-> 0] \in [SUBSET S -> Nat]
      OBVIOUS
    <3> QED
      BY <2>3, <2>5, <3>2, <3>3 DEF UpTo
  <2>6. CASE n - 1 \in Nat /\ UpTo(n - 1)
    <3>1. PICK g \in [SUBSET S -> Nat] : \A T \in SUBSET S : Cardinality(T) <= n - 1 => g[T] = Filled(g, T)
      BY <2>6 DEF UpTo
    <3> DEFINE h == [T \in SUBSET S |-> Filled(g, T)]
    <3>2. ASSUME NEW T \in SUBSET S PROVE Filled(g, T) \in Nat
      <4>1. CASE T # {}
        <5>1. Chosen(T) \in S /\ T \ {Chosen(T)} \in SUBSET S
          BY <4>1, ChosenIn
        <5> QED
          BY <4>1, <5>1
      <4> QED
        BY <4>1
    <3>3. h \in [SUBSET S -> Nat]
      BY <3>2
    <3>4. ASSUME NEW T \in SUBSET S, Cardinality(T) <= n PROVE h[T] = Filled(h, T)
      <4>1. CASE T # {}
        <5>1. T \ {Chosen(T)} \in SUBSET S /\ Cardinality(T \ {Chosen(T)}) <= n - 1
          BY <1>1, <2>3, <3>4, <4>1, ChosenIn
        <5>2. h[T \ {Chosen(T)}] = g[T \ {Chosen(T)}]
          BY <3>1, <5>1
        <5> QED
          BY <4>1, <5>2
      <4> QED
        BY <4>1
    <3> HIDE DEF h, Filled
    <3> QED
      BY <2>3, <3>3, <3>4 DEF UpTo
  <2> QED
    BY <2>4, <2>5, <2>6
<1>3. UpTo(Cardinality(S))
  BY <1>2, FS_CardinalityType
<1>4. PICK g \in [SUBSET S -> Nat] : \A T \in SUBSET S : g[T] = Filled(g, T)
  BY <1>1, <1>3
<1> QED
  BY <1>4 DEF IsTotal

\* Every total is that of the set without any one element, and that element's value.
AddsUp(f, S, g) == \A R \in SUBSET S : \A k \in R : g[R] = f[k] + g[R \ {k}]

\* Any element of a set may be added last.
LEMMA TotalAdds ==
  ASSUME NEW S, NEW f, NEW g, Summable(f, S), g \in [SUBSET S -> Nat], IsTotal(f, S, g)
  PROVE  AddsUp(f, S, g)
<1> USE DEF Summable, AddsUp
<1> DEFINE F == {T \in SUBSET S : \E x \in T : g[T] # f[x] + g[T \ {x}]}
<1>1. SUFFICES ASSUME F # {} PROVE FALSE
  OBVIOUS
<1>2. PICK T \in F : \A U \in F : Cardinality(T) <= Cardinality(U)
  <2> F \in SUBSET SUBSET S
    OBVIOUS
  <2> HIDE DEF F
  <2> QED
    BY <1>1, SmallestOf
<1>3. PICK x \in T : g[T] # f[x] + g[T \ {x}]
  OBVIOUS
<1> DEFINE y == Chosen(T)
<1>4. /\ T \in SUBSET S /\ T # {} /\ y \in T /\ Cardinality(T) \in Nat
      /\ \A z \in T : Cardinality(T \ {z}) = Cardinality(T) - 1
  BY ChosenIn
<1>5. g[T] = f[y] + g[T \ {y}]
  BY <1>4 DEF IsTotal
<1> HIDE DEF y
<1>6. x # y
  BY <1>3, <1>5
<1>7. T \ {y} \notin F /\ T \ {x} \notin F
  <2>1. \A z \in T : ~(Cardinality(T) <= Cardinality(T \ {z}))
    BY <1>4
  <2> QED
    BY <1>2, <1>4, <2>1
<1>8. g[T \ {y}] = f[x] + g[(T \ {y}) \ {x}] /\ g[T \ {x}] = f[y] + g[(T \ {x}) \ {y}]
  BY <1>4, <1>6, <1>7
<1>9. (T \ {y}) \ {x} = (T \ {x}) \ {y} /\ (T \ {x}) \ {y} \in SUBSET S
  BY <1>4
<1>10. f[x] \in Nat /\ f[y] \in Nat /\ g[(T \ {x}) \ {y}] \in Nat
  BY <1>4, <1>9
<1> DEFINE rest == g[(T \ {x}) \ {y}]
<1>11. g[T] = f[y] + (f[x] + rest) /\ g[T \ {x}] = f[y] + rest
  BY <1>5, <1>8, <1>9
<1> HIDE DEF rest
<1>12. f[y] + (f[x] + rest) = f[x] + (f[y] + rest)
  BY <1>10 DEF rest
<1> QED
  BY <1>3, <1>11, <1>12

\* g holds the sums of f over the subsets of S.
IsSums(f, S, g) ==
  /\ g \in [SUBSET S -> Nat]
  /\ IsTotal(f, S, g)
  /\ \A R \in SUBSET S : SumFunctionOnSet(f, R) = g[R]

\* The sum of a function over a finite set is its total there.
LEMMA SumIsTotal ==
  ASSUME NEW S, NEW f, Summable(f, S)
  PROVE  \E g : IsSums(f, S, g)
<1>1. PICK g \in [SUBSET S -> Nat] : IsTotal(f, S, g)
  BY TotalExists
<1>2. ASSUME NEW R \in SUBSET S PROVE SumFunctionOnSet(f, R) = g[R]
  <2>1. Summable(f, R)
    BY FS_Subset DEF Summable
  <2>2. PICK h : IsTotal(f, R, h)
    BY <2>1, TotalExists
  <2> DEFINE c == CHOOSE e : IsTotal(f, R, e)
  <2>3. IsTotal(f, R, c) /\ SumFunctionOnSet(f, R) = c[R]
    BY <2>2, SumMeaning
  <2> HIDE DEF c
  <2> QED
    BY <1>1, <2>1, <2>3, TotalsAgree DEF Summable
<1> QED
  BY <1>1, <1>2 DEF IsSums

\* A sum over nothing is zero.
LEMMA SumOfNothing ==
  ASSUME NEW f
  PROVE  SumFunctionOnSet(f, {}) = 0
<1>1. Summable(f, {})
  BY FS_EmptySet DEF Summable
<1>2. PICK g : IsSums(f, {}, g)
  BY <1>1, SumIsTotal
<1> QED
  BY <1>2 DEF IsSums, IsTotal

\* A sum with one of its elements set apart.
LEMMA SumApart ==
  ASSUME NEW S, NEW f, Summable(f, S), NEW k \in S
  PROVE  /\ SumFunctionOnSet(f, S) \in Nat /\ SumFunctionOnSet(f, S \ {k}) \in Nat /\ f[k] \in Nat
         /\ SumFunctionOnSet(f, S) = f[k] + SumFunctionOnSet(f, S \ {k})
<1>1. PICK g : IsSums(f, S, g)
  BY SumIsTotal
<1>2. g \in [SUBSET S -> Nat] /\ IsTotal(f, S, g)
  BY <1>1 DEF IsSums
<1>3. AddsUp(f, S, g)
  BY <1>2, TotalAdds
<1>4. S \in SUBSET S /\ S \ {k} \in SUBSET S
  OBVIOUS
<1> QED
  BY <1>1, <1>2, <1>3, <1>4 DEF IsSums, Summable, AddsUp

\* A sum of zeros is zero.
LEMMA SumOfZeros ==
  ASSUME NEW S, IsFiniteSet(S)
  PROVE  SumFunction([x \in S |-> 0]) = 0
<1> DEFINE f == [x \in S |-> 0]
           g == [T \in SUBSET S |-> 0]
<1>1. Summable(f, S)
  BY DEF Summable
<1>2. IsTotal(f, S, g)
  BY FS_Subset, ChosenIn DEF IsTotal
<1>3. PICK h : IsSums(f, S, h)
  BY <1>1, SumIsTotal
<1>4. h[S] = g[S]
  BY <1>1, <1>2, <1>3, TotalsAgree DEF IsSums
<1> QED
  BY <1>3, <1>4 DEF IsSums, SumFunction

\* Equal values have equal sums.
LEMMA SumSame ==
  ASSUME NEW S, NEW f, Summable(f, S), NEW h, \A x \in S : h[x] = f[x]
  PROVE  SumFunctionOnSet(h, S) = SumFunctionOnSet(f, S) /\ SumFunctionOnSet(f, S) \in Nat
<1>1. PICK g : IsSums(f, S, g)
  BY SumIsTotal
<1>2. Summable(h, S)
  BY DEF Summable
<1>3. PICK e : IsSums(h, S, e)
  BY <1>2, SumIsTotal
<1>4. g[S] = e[S]
  BY <1>1, <1>3, TotalsAgree DEF IsSums, Summable
<1> QED
  BY <1>1, <1>3, <1>4 DEF IsSums

\* The sum of a function with one element of its domain set apart.
LEMMA SumWithout ==
  ASSUME NEW f, NEW h, Summable(f, DOMAIN f), NEW k \in DOMAIN f,
         DOMAIN h = DOMAIN f \ {k}, \A x \in DOMAIN h : h[x] = f[x]
  PROVE  SumFunction(h) \in Nat /\ f[k] \in Nat /\ SumFunction(f) = f[k] + SumFunction(h)
<1>1. Summable(f, DOMAIN h)
  BY FS_Subset DEF Summable
<1>2. SumFunctionOnSet(h, DOMAIN h) = SumFunctionOnSet(f, DOMAIN h)
  BY <1>1, SumSame
<1> QED
  BY <1>2, SumApart DEF SumFunction

\* The sums of two functions that differ in one value.
LEMMA SumChanged ==
  ASSUME NEW f, NEW h, Summable(f, DOMAIN f), Summable(h, DOMAIN h), NEW k \in DOMAIN f,
         DOMAIN h = DOMAIN f, \A x \in DOMAIN f \ {k} : h[x] = f[x]
  PROVE  SumFunction(f) \in Nat /\ SumFunction(h) + f[k] = SumFunction(f) + h[k]
<1> DEFINE rest == DOMAIN f \ {k}
<1>1. Summable(f, rest)
  BY FS_Subset DEF Summable
<1>2. SumFunctionOnSet(h, rest) = SumFunctionOnSet(f, rest)
  BY <1>1, SumSame
<1>3. /\ f[k] \in Nat /\ SumFunctionOnSet(f, rest) \in Nat /\ SumFunction(f) \in Nat
      /\ SumFunction(f) = f[k] + SumFunctionOnSet(f, rest)
  BY SumApart DEF SumFunction
<1>4. h[k] \in Nat /\ SumFunction(h) = h[k] + SumFunctionOnSet(h, rest)
  BY SumApart DEF SumFunction
<1> HIDE DEF rest
<1> QED
  BY <1>2, <1>3, <1>4

-------------------------------------------------------------------------------
(* Conservation *)

\* The credits of an account are available or charged, and are those it was granted.
Balanced(a) == account[a].provisioned = account[a].remaining + ChargedTotal(a)
Recorded(a) == account[a].provisioned = seeded[a] + OperationTotal(a)
\* An account that is not there has been given nothing.
AbsentIsEmpty(a) == account[a].status = "absent" => account[a].provisioned = 0
Sound(a) == Balanced(a) /\ AbsentIsEmpty(a)

LedgerOK == TypeOK /\ \A a \in Accounts : Sound(a)
LedgerInv == LedgerOK /\ \A a \in Accounts : Recorded(a)

\* A step provisions what it grants.
GrantedIsProvisioned(a) ==
  account'[a].provisioned + (seeded[a] + OperationTotal(a))
    = account[a].provisioned + (seeded'[a] + OperationTotal(a)')
\* What every method does to the ledger.
LedgerKept == LedgerOK' /\ \A a \in Accounts : GrantedIsProvisioned(a)

\* The usage rows of an account that are charged, and the charges and grants its rows make.
Held(rows) == {k \in RequestKeys : rows[k].state \in {"RESERVED", "CONSUMED"}}
Charges(rows) == [k \in Held(rows) |-> Price[rows[k].route]]
Grantings(rows) == [k \in OperationKeys |-> rows[k].credits]

\* The charges and the grants of an account can be summed.
LEMMA RowsSummable ==
  /\ \A rows \in [RequestKeys -> UsageRows \cup {NoUsage}] : Summable(Charges(rows), DOMAIN Charges(rows))
  /\ \A rows \in [OperationKeys -> OperationRows \cup {NoOperation}] :
       Summable(Grantings(rows), DOMAIN Grantings(rows))
<1>1. ASSUME NEW rows \in [RequestKeys -> UsageRows \cup {NoUsage}]
      PROVE  Summable(Charges(rows), DOMAIN Charges(rows))
  <2>1. \A k \in Held(rows) : rows[k] \in UsageRows
    BY DEF Held, NoUsage
  <2> QED
    BY <2>1, KeysAssumption, PriceAssumption, FS_Subset DEF Summable, Charges, Held, UsageRows
<1>2. ASSUME NEW rows \in [OperationKeys -> OperationRows \cup {NoOperation}]
      PROVE  Summable(Grantings(rows), DOMAIN Grantings(rows))
  <2>1. IsFiniteSet(OperationKeys)
    BY KeysAssumption, FS_Union DEF OperationKeys
  <2> QED
    BY <2>1 DEF Summable, Grantings, OperationRows, NoOperation
<1> QED
  BY <1>1, <1>2

\* The totals of an account are the sums of these, and numbers.
LEMMA TotalsTyped ==
  ASSUME TypeOK, NEW a \in Accounts
  PROVE  /\ ChargedTotal(a) = SumFunction(Charges(usage[a])) /\ ChargedTotal(a) \in Nat
         /\ OperationTotal(a) = SumFunction(Grantings(operation[a])) /\ OperationTotal(a) \in Nat
<1>1. /\ ChargedTotal(a) = SumFunction(Charges(usage[a]))
      /\ OperationTotal(a) = SumFunction(Grantings(operation[a]))
  BY DEF ChargedTotal, Charged, Charges, Held, OperationTotal, Grantings
<1>2. /\ Summable(Charges(usage[a]), DOMAIN Charges(usage[a]))
      /\ Summable(Grantings(operation[a]), DOMAIN Grantings(operation[a]))
  BY RowsSummable DEF TypeOK
<1> QED
  BY <1>1, <1>2, SumSame DEF SumFunction

\* What is granted after a step is a number too.
LEMMA GrantsTyped ==
  ASSUME TypeOK', NEW a \in Accounts
  PROVE  OperationTotal(a)' \in Nat
<1>1. OperationTotal(a)' = SumFunction(Grantings(operation'[a]))
  BY DEF OperationTotal, Grantings, OperationKeys
<1>2. Summable(Grantings(operation'[a]), DOMAIN Grantings(operation'[a]))
  BY RowsSummable DEF TypeOK
<1> QED
  BY <1>1, <1>2, SumSame DEF SumFunction

\* The sums of an account whose rows stay are the same.
LEMMA TotalsKept ==
  ASSUME NEW a
  PROVE  /\ usage'[a] = usage[a] => ChargedTotal(a)' = ChargedTotal(a)
         /\ operation'[a] = operation[a] => OperationTotal(a)' = OperationTotal(a)
BY DEF ChargedTotal, Charged, OperationTotal, OperationKeys

\* A row that is reserved adds its price to what is charged.
LEMMA ChargeAdded ==
  ASSUME TypeOK, TypeOK', NEW a \in Accounts, NEW k \in RequestKeys, NEW row \in UsageRows,
         row.state = "RESERVED", usage[a][k] = NoUsage, usage' = [usage EXCEPT ![a][k] = row]
  PROVE  ChargedTotal(a)' = ChargedTotal(a) + Price[row.route] /\ Price[row.route] \in Nat
<1> DEFINE f == Charges(usage'[a])
           h == Charges(usage[a])
<1>1. /\ usage'[a][k] = row /\ \A j \in RequestKeys \ {k} : usage'[a][j] = usage[a][j]
  BY DEF TypeOK
<1>2. Charged(a)' = Charged(a) \cup {k} /\ k \notin Charged(a)
  BY <1>1 DEF Charged, NoUsage
<1>3. DOMAIN f = Charged(a)' /\ DOMAIN h = Charged(a) /\ f[k] = Price[row.route]
      /\ \A x \in DOMAIN h : h[x] = f[x]
  BY <1>1, <1>2 DEF Charges, Held, Charged
<1>4. Summable(f, DOMAIN f)
  BY RowsSummable DEF TypeOK
<1> HIDE DEF f, h
<1>5. SumFunction(h) \in Nat /\ f[k] \in Nat /\ SumFunction(f) = f[k] + SumFunction(h)
  BY <1>2, <1>3, <1>4, SumWithout
<1>6. ChargedTotal(a)' = SumFunction(f) /\ ChargedTotal(a) = SumFunction(h)
  BY DEF f, h, ChargedTotal, Charged, Charges, Held
<1> QED
  BY <1>3, <1>5, <1>6

\* A reservation that is settled stays charged or takes its price with it.
LEMMA ChargeSettled ==
  ASSUME TypeOK, NEW a \in Accounts, NEW k \in RequestKeys, NEW state \in {"CONSUMED", "RELEASED"},
         usage[a][k].state = "RESERVED", usage' = [usage EXCEPT ![a][k].state = state]
  PROVE  /\ Price[usage[a][k].route] \in Nat
         /\ state = "CONSUMED" => ChargedTotal(a)' = ChargedTotal(a)
         /\ state = "RELEASED" => ChargedTotal(a) = ChargedTotal(a)' + Price[usage[a][k].route]
                                  /\ ChargedTotal(a)' \in Nat
<1> DEFINE f == Charges(usage[a])
           h == Charges(usage'[a])
<1>1. /\ usage[a][k] \in UsageRows /\ usage'[a][k] = [usage[a][k] EXCEPT !.state = state]
      /\ \A j \in RequestKeys \ {k} : usage'[a][j] = usage[a][j]
  <2> DEFINE row == [usage[a][k] EXCEPT !.state = state]
  <2>1. usage' = [usage EXCEPT ![a] = [usage[a] EXCEPT ![k] = row]]
    OBVIOUS
  <2>2. usage[a][k] \in UsageRows
    BY DEF TypeOK, NoUsage
  <2> HIDE DEF row
  <2>3. usage'[a][k] = row /\ \A j \in RequestKeys \ {k} : usage'[a][j] = usage[a][j]
    BY <2>1 DEF TypeOK
  <2> QED
    BY <2>2, <2>3 DEF row
<1>2. usage'[a][k].state = state /\ usage'[a][k].route = usage[a][k].route
  BY <1>1 DEF UsageRows
<1>3. k \in Charged(a) /\ f[k] = Price[usage[a][k].route] /\ DOMAIN f = Charged(a) /\ DOMAIN h = Charged(a)'
  BY DEF Charged, Charges, Held
<1>4. Summable(f, DOMAIN f)
  BY RowsSummable DEF TypeOK
<1>5. ChargedTotal(a) = SumFunction(f) /\ ChargedTotal(a)' = SumFunction(h)
  BY DEF ChargedTotal, Charged, Charges, Held
<1>6. CASE state = "CONSUMED"
  <2>1. Charged(a)' = Charged(a)
    BY <1>1, <1>2, <1>6 DEF Charged
  <2>2. h = f
    BY <1>1, <1>2, <2>1 DEF Charges, Held, Charged
  <2> QED
    BY <1>3, <1>4, <1>5, <1>6, <2>2 DEF Summable
<1>7. CASE state = "RELEASED"
  <2>1. Charged(a)' = Charged(a) \ {k}
    BY <1>1, <1>2, <1>7 DEF Charged
  <2>2. \A x \in DOMAIN h : h[x] = f[x]
    BY <1>1, <2>1 DEF Charges, Held, Charged
  <2> HIDE DEF f, h
  <2>3. SumFunction(h) \in Nat /\ f[k] \in Nat /\ SumFunction(f) = f[k] + SumFunction(h)
    BY <1>3, <1>4, <2>1, <2>2, SumWithout
  <2> QED
    BY <1>3, <1>5, <1>7, <2>3
<1> QED
  BY <1>6, <1>7

\* A credit operation that is recorded adds its credits to what is granted.
LEMMA GrantAdded ==
  ASSUME TypeOK, TypeOK', NEW a \in Accounts, NEW k \in OperationKeys, NEW row \in OperationRows,
         operation[a][k] = NoOperation, operation' = [operation EXCEPT ![a][k] = row]
  PROVE  OperationTotal(a)' = OperationTotal(a) + row.credits /\ row.credits \in Nat
<1> DEFINE f == Grantings(operation[a])
           h == Grantings(operation'[a])
<1>1. /\ operation'[a][k] = row /\ \A j \in OperationKeys \ {k} : operation'[a][j] = operation[a][j]
  BY DEF TypeOK
<1>2. /\ DOMAIN f = OperationKeys /\ DOMAIN h = OperationKeys /\ f[k] = 0 /\ h[k] = row.credits
      /\ \A x \in OperationKeys \ {k} : h[x] = f[x]
  BY <1>1 DEF Grantings, NoOperation, OperationKeys
<1>3. Summable(f, DOMAIN f)
  BY RowsSummable DEF TypeOK
<1>4. Summable(h, DOMAIN h)
  BY RowsSummable DEF TypeOK
<1>5. OperationTotal(a) = SumFunction(f) /\ OperationTotal(a)' = SumFunction(h)
  BY DEF OperationTotal, Grantings, OperationKeys
<1>6. row.credits \in Nat
  BY DEF OperationRows
<1> HIDE DEF f, h
<1>7. SumFunction(f) \in Nat /\ SumFunction(h) + f[k] = SumFunction(f) + h[k]
  BY <1>2, <1>3, <1>4, SumChanged
<1>8. SumFunction(h) \in Nat
  BY <1>2, <1>4, SumSame DEF SumFunction
<1> QED
  BY <1>2, <1>5, <1>6, <1>7, <1>8

\* A method that leaves every account but one alone has that one to account for.
LEMMA OneAccount ==
  ASSUME LedgerOK, TypeOK', NEW a \in Accounts, Sound(a)' /\ GrantedIsProvisioned(a),
         \A b \in Accounts \ {a} : /\ account'[b] = account[b] /\ usage'[b] = usage[b]
                                  /\ operation'[b] = operation[b] /\ seeded'[b] = seeded[b]
  PROVE  LedgerKept
<1>1. ASSUME NEW b \in Accounts, b # a PROVE Sound(b)' /\ GrantedIsProvisioned(b)
  <2>1. ChargedTotal(b)' = ChargedTotal(b) /\ OperationTotal(b)' = OperationTotal(b)
    BY <1>1, TotalsKept
  <2>2. Sound(b)'
    BY <1>1, <2>1 DEF LedgerOK, Sound, Balanced, AbsentIsEmpty
  <2>3. GrantedIsProvisioned(b)
    BY <1>1, <2>1 DEF GrantedIsProvisioned
  <2> QED
    BY <2>2, <2>3
<1> QED
  BY <1>1 DEF LedgerKept, LedgerOK

\* Credits added to an account that is there are recorded where they come from.
LEMMA CreditsAdded ==
  ASSUME LedgerOK, NEW a \in Accounts, NEW n \in Nat, Exists(a), account'[a] = Credited(account[a], n),
         usage'[a] = usage[a], seeded'[a] \in Nat, OperationTotal(a)' \in Nat,
         seeded'[a] + OperationTotal(a)' = seeded[a] + OperationTotal(a) + n
  PROVE  Sound(a)' /\ GrantedIsProvisioned(a)
<1>1. account[a] \in [status : {"absent", "active", "revoked"}, provisioned : Nat, remaining : Nat]
  BY DEF LedgerOK, TypeOK
<1>2. ChargedTotal(a)' = ChargedTotal(a) /\ ChargedTotal(a) \in Nat
  BY TotalsKept, TotalsTyped DEF LedgerOK
<1>3. /\ Credited(account[a], n).status = account[a].status
      /\ Credited(account[a], n).provisioned = account[a].provisioned + n
      /\ Credited(account[a], n).remaining = account[a].remaining + n
  BY DEF Credited
<1>4. /\ account'[a].status # "absent"
      /\ account'[a].provisioned = account[a].provisioned + n
      /\ account'[a].remaining = account[a].remaining + n
  BY <1>3 DEF Exists
<1>5. /\ account[a].provisioned \in Nat /\ account[a].remaining \in Nat
      /\ account[a].provisioned = account[a].remaining + ChargedTotal(a)
      /\ seeded[a] \in Nat /\ OperationTotal(a) \in Nat
  BY <1>1, TotalsTyped DEF LedgerOK, TypeOK, Sound, Balanced
<1>6. account[a].provisioned + n + (seeded[a] + OperationTotal(a))
        = account[a].provisioned + (seeded[a] + OperationTotal(a) + n)
  BY <1>5
<1> QED
  BY <1>2, <1>4, <1>5, <1>6 DEF Sound, Balanced, AbsentIsEmpty, GrantedIsProvisioned

\* An account that is inserted has the credits it is seeded with and nothing else.
LEMMA AccountInserted ==
  ASSUME LedgerOK, NEW a \in Accounts, NEW n \in Nat, ~Exists(a), NEW s \in {"active", "revoked"},
         account'[a] = NewAccount(n, s), usage'[a] = usage[a], operation'[a] = operation[a],
         seeded'[a] = seeded[a] + n
  PROVE  Sound(a)' /\ GrantedIsProvisioned(a)
<1>1. account[a].remaining \in Nat /\ seeded[a] \in Nat /\ account[a].provisioned = 0
  BY DEF LedgerOK, TypeOK, Sound, AbsentIsEmpty, Exists
<1>2. ChargedTotal(a) \in Nat /\ OperationTotal(a) \in Nat /\ 0 = account[a].remaining + ChargedTotal(a)
  BY <1>1, TotalsTyped DEF LedgerOK, Sound, Balanced
<1>3. ChargedTotal(a)' = 0 /\ OperationTotal(a)' = OperationTotal(a)
  BY <1>1, <1>2, TotalsKept
<1>4. account'[a].provisioned = n /\ account'[a].remaining = n /\ account'[a].status # "absent"
  BY DEF NewAccount
<1>5. n + (seeded[a] + OperationTotal(a)) = 0 + (seeded[a] + n + OperationTotal(a))
  BY <1>1, <1>2
<1> QED
  BY <1>1, <1>3, <1>4, <1>5 DEF Sound, Balanced, AbsentIsEmpty, GrantedIsProvisioned

\* Opening accounts are seeded with what they have.
LEMMA LedgerInit == Init => LedgerInv
<1> SUFFICES ASSUME Init PROVE LedgerInv
  OBVIOUS
<1>1. TypeOK
  BY TypesInit
<1>2. ASSUME NEW a \in Accounts
      PROVE  Sound(a) /\ Recorded(a)
  <2>1. /\ account[a].provisioned = OpeningCredits(a) /\ account[a].remaining = OpeningCredits(a)
        /\ account[a].status = "absent" => account[a].provisioned = 0
        /\ seeded[a] = OpeningCredits(a) /\ OpeningCredits(a) \in Nat
    BY OpeningAssumption DEF Init, OpeningAccount, OpeningCredits, NewAccount, NoAccount
  <2>2. ChargedTotal(a) = 0
    <3>1. DOMAIN Charges(usage[a]) = {}
      BY DEF Init, NoUsage, Charges, Held
    <3> QED
      BY <1>1, <3>1, TotalsTyped, SumOfNothing DEF SumFunction
  <2>3. OperationTotal(a) = 0
    <3>1. Grantings(operation[a]) = [k \in OperationKeys |-> 0]
      BY DEF Init, NoOperation, Grantings
    <3>2. IsFiniteSet(OperationKeys)
      BY KeysAssumption, FS_Union DEF OperationKeys
    <3> QED
      BY <1>1, <3>1, <3>2, TotalsTyped, SumOfZeros
  <2> QED
    BY <2>1, <2>2, <2>3 DEF Sound, Balanced, Recorded, AbsentIsEmpty
<1> QED
  BY <1>1, <1>2 DEF LedgerInv, LedgerOK

\* A configured allocation is seeded, whether it opens the account or raises it.
LEMMA ProvisionLedger ==
  ASSUME LedgerOK, NEW a \in Accounts, NEW n \in Nat, NEW s \in {"active", "revoked"}, Provision(a, n, s)
  PROVE  LedgerKept
<1> DEFINE added == IF Exists(a) THEN TopUp(n, account[a].provisioned) ELSE n
           row == IF Exists(a) THEN Credited(account[a], added) ELSE NewAccount(n, s)
<1>1. /\ account' = [account EXCEPT ![a] = row] /\ seeded' = [seeded EXCEPT ![a] = @ + added]
      /\ usage' = usage /\ operation' = operation
  BY DEF Provision
<1>2. added \in Nat
  BY TopUpAmount DEF LedgerOK, TypeOK
<1> HIDE DEF added, row
<1>3. account'[a] = row /\ seeded'[a] = seeded[a] + added /\ seeded[a] \in Nat
  BY <1>1 DEF LedgerOK, TypeOK
<1>4. TypeOK'
  BY ProvisionTypes DEF LedgerOK
<1>5. \A b \in Accounts \ {a} : account'[b] = account[b] /\ seeded'[b] = seeded[b]
  BY <1>1 DEF LedgerOK, TypeOK
<1>6. CASE Exists(a)
  <2>1. row = Credited(account[a], added)
    BY <1>6 DEF row
  <2>2. OperationTotal(a)' = OperationTotal(a) /\ OperationTotal(a) \in Nat
    BY <1>1, TotalsKept, TotalsTyped DEF LedgerOK
  <2>3. /\ seeded'[a] \in Nat /\ OperationTotal(a)' \in Nat
        /\ seeded'[a] + OperationTotal(a)' = seeded[a] + OperationTotal(a) + added
    BY <1>2, <1>3, <2>2
  <2>4. account'[a] = Credited(account[a], added) /\ usage'[a] = usage[a]
    BY <1>1, <1>3, <2>1
  <2>5. Sound(a)' /\ GrantedIsProvisioned(a)
    BY <1>2, <1>6, <2>3, <2>4, CreditsAdded
  <2> QED
    BY <1>1, <1>4, <1>5, <2>5, OneAccount
<1>7. CASE ~Exists(a)
  <2>1. row = NewAccount(n, s) /\ added = n
    BY <1>7 DEF row, added
  <2>2. /\ account'[a] = NewAccount(n, s) /\ usage'[a] = usage[a] /\ operation'[a] = operation[a]
        /\ seeded'[a] = seeded[a] + n
    BY <1>1, <1>3, <2>1
  <2>3. Sound(a)' /\ GrantedIsProvisioned(a)
    BY <1>7, <2>2, AccountInserted
  <2> QED
    BY <1>1, <1>4, <1>5, <2>3, OneAccount
<1> QED
  BY <1>6, <1>7

\* An issued account is seeded with what it is issued.
LEMMA CreateLedger ==
  ASSUME LedgerOK, NEW a \in Accounts, NEW n \in Nat, Create(a, n)
  PROVE  LedgerKept
<1>1. /\ account'[a] = NewAccount(n, "active") /\ usage' = usage /\ operation' = operation
      /\ seeded'[a] = seeded[a] + n
      /\ \A b \in Accounts \ {a} : account'[b] = account[b] /\ seeded'[b] = seeded[b]
  BY DEF Create, LedgerOK, TypeOK
<1>2. Sound(a)' /\ GrantedIsProvisioned(a)
  BY <1>1, AccountInserted DEF Create
<1>3. TypeOK'
  BY CreateTypes DEF LedgerOK
<1> QED
  BY <1>1, <1>2, <1>3, OneAccount

\* A revocation moves no credit.
LEMMA RevokeLedger ==
  ASSUME LedgerOK, NEW a \in Accounts, Revoke(a)
  PROVE  LedgerKept
<1>1. account[a] \in [status : {"absent", "active", "revoked"}, provisioned : Nat, remaining : Nat]
  BY DEF LedgerOK, TypeOK
<1>2. /\ account'[a].status = "revoked" /\ account'[a].provisioned = account[a].provisioned
      /\ account'[a].remaining = account[a].remaining
      /\ \A b \in Accounts \ {a} : account'[b] = account[b]
      /\ usage' = usage /\ operation' = operation /\ seeded' = seeded
  BY <1>1 DEF Revoke, LedgerOK, TypeOK
<1>3. ChargedTotal(a)' = ChargedTotal(a) /\ OperationTotal(a)' = OperationTotal(a)
  BY <1>2, TotalsKept
<1>4. Sound(a)' /\ GrantedIsProvisioned(a)
  BY <1>2, <1>3 DEF LedgerOK, Sound, Balanced, AbsentIsEmpty, GrantedIsProvisioned
<1>5. TypeOK'
  BY RevokeTypes DEF LedgerOK
<1> QED
  BY <1>2, <1>4, <1>5, OneAccount

\* A credit is recorded as the operation that granted it.
LEMMA CreditLedger ==
  ASSUME LedgerOK, NEW a \in Accounts, NEW k \in RequestKeys, NEW n \in Nat \ {0},
         NEW reference \in References, Credit(a, k, n, reference)
  PROVE  LedgerKept
<1> DEFINE row == [credits |-> n, reference |-> reference]
<1>1. /\ account' = [account EXCEPT ![a] = Credited(account[a], n)] /\ usage' = usage /\ seeded' = seeded
      /\ operation' = [operation EXCEPT ![a][k] = row] /\ operation[a][k] = NoOperation
      /\ k \in OperationKeys /\ Exists(a)
  BY DEF Credit, Unused, OperationKeys
<1>2. row \in OperationRows /\ row.credits = n
  BY DEF OperationRows
<1> HIDE DEF row
<1>3. TypeOK'
  BY CreditTypes DEF LedgerOK
<1>4. OperationTotal(a)' = OperationTotal(a) + n
  BY <1>1, <1>2, <1>3, GrantAdded DEF LedgerOK
<1>5. OperationTotal(a) \in Nat /\ seeded[a] \in Nat
  BY TotalsTyped DEF LedgerOK, TypeOK
<1>6. /\ account'[a] = Credited(account[a], n) /\ seeded'[a] = seeded[a] /\ usage'[a] = usage[a]
      /\ \A b \in Accounts \ {a} : account'[b] = account[b] /\ operation'[b] = operation[b]
  BY <1>1 DEF LedgerOK, TypeOK
<1>7. /\ seeded'[a] \in Nat /\ OperationTotal(a)' \in Nat
      /\ seeded'[a] + OperationTotal(a)' = seeded[a] + OperationTotal(a) + n
  BY <1>4, <1>5, <1>6
<1>8. Sound(a)' /\ GrantedIsProvisioned(a)
  BY <1>1, <1>6, <1>7, CreditsAdded
<1> QED
  BY <1>1, <1>3, <1>6, <1>8, OneAccount

\* What a reservation takes from the account it charges.
LEMMA ReserveLedger ==
  ASSUME LedgerOK, NEW a \in Accounts, NEW k \in RequestKeys, NEW route \in Routes, Reserve(a, k, route)
  PROVE  LedgerKept
<1> DEFINE row == [state |-> "RESERVED", route |-> route]
<1>1. /\ account' = [account EXCEPT ![a].remaining = @ - Price[route]]
      /\ usage' = [usage EXCEPT ![a][k] = row] /\ usage[a][k] = NoUsage
      /\ operation' = operation /\ seeded' = seeded
  BY DEF Reserve
<1>2. row \in UsageRows /\ row.state = "RESERVED" /\ row.route = route
  BY DEF UsageRows
<1> HIDE DEF row
<1>3. TypeOK'
  BY ReserveTypes DEF LedgerOK
<1>4. ChargedTotal(a)' = ChargedTotal(a) + Price[route] /\ Price[route] \in Nat
  BY <1>1, <1>2, <1>3, ChargeAdded DEF LedgerOK
<1>5. ChargedTotal(a) \in Nat /\ OperationTotal(a)' = OperationTotal(a)
  BY <1>1, TotalsTyped, TotalsKept DEF LedgerOK
<1>6. account[a] \in [status : {"absent", "active", "revoked"}, provisioned : Nat, remaining : Nat]
  BY DEF LedgerOK, TypeOK
<1>7. /\ account'[a].status = account[a].status /\ account'[a].provisioned = account[a].provisioned
      /\ account'[a].remaining = account[a].remaining - Price[route]
      /\ \A b \in Accounts \ {a} : account'[b] = account[b] /\ usage'[b] = usage[b]
  BY <1>1, <1>6 DEF LedgerOK, TypeOK
<1>8. /\ account[a].provisioned = account[a].remaining + ChargedTotal(a)
      /\ account[a].remaining \in Nat /\ account[a].provisioned \in Nat
  BY <1>6 DEF LedgerOK, Sound, Balanced
<1>9. account[a].provisioned = (account[a].remaining - Price[route]) + (ChargedTotal(a) + Price[route])
  BY <1>4, <1>5, <1>8
<1>10. Balanced(a)'
  BY <1>4, <1>7, <1>9 DEF Balanced
<1>11. Sound(a)' /\ GrantedIsProvisioned(a)
  BY <1>1, <1>5, <1>7, <1>10 DEF LedgerOK, Sound, AbsentIsEmpty, GrantedIsProvisioned
<1> QED
  BY <1>1, <1>3, <1>7, <1>11, OneAccount

\* What a settlement returns to the account it releases.
LEMMA SettleUsageLedger ==
  ASSUME LedgerOK, NEW a \in Accounts, NEW k \in RequestKeys,
         NEW outcome \in {"CONSUMED", "RELEASED"}, SettleUsage(a, k, outcome)
  PROVE  LedgerKept
<1> DEFINE price == Price[usage[a][k].route]
<1>1. /\ usage' = [usage EXCEPT ![a][k].state = outcome] /\ usage[a][k].state = "RESERVED"
      /\ outcome = "RELEASED" => account' = [account EXCEPT ![a].remaining = @ + price]
      /\ outcome = "CONSUMED" => account' = account
      /\ operation' = operation /\ seeded' = seeded
  BY DEF SettleUsage, Unsettled
<1>2. /\ price \in Nat
      /\ outcome = "CONSUMED" => ChargedTotal(a)' = ChargedTotal(a)
      /\ outcome = "RELEASED" => ChargedTotal(a) = ChargedTotal(a)' + price /\ ChargedTotal(a)' \in Nat
  BY <1>1, ChargeSettled DEF LedgerOK
<1> HIDE DEF price
<1>3. TypeOK'
  BY SettleUsageTypes DEF LedgerOK
<1>4. OperationTotal(a)' = OperationTotal(a)
  BY <1>1, TotalsKept
<1>5. account[a] \in [status : {"absent", "active", "revoked"}, provisioned : Nat, remaining : Nat]
  BY DEF LedgerOK, TypeOK
<1>6. /\ account'[a].status = account[a].status /\ account'[a].provisioned = account[a].provisioned
      /\ outcome = "RELEASED" => account'[a].remaining = account[a].remaining + price
      /\ outcome = "CONSUMED" => account'[a].remaining = account[a].remaining
      /\ \A b \in Accounts \ {a} : account'[b] = account[b]
  BY <1>1, <1>5 DEF LedgerOK, TypeOK
<1>7. \A b \in Accounts \ {a} : usage'[b] = usage[b]
  BY <1>1 DEF LedgerOK, TypeOK
<1>8. /\ account[a].provisioned = account[a].remaining + ChargedTotal(a)
      /\ account[a].remaining \in Nat
  BY <1>5 DEF LedgerOK, Sound, Balanced
<1>9. Balanced(a)'
  BY <1>2, <1>6, <1>8 DEF Balanced
<1>10. Sound(a)' /\ GrantedIsProvisioned(a)
  BY <1>1, <1>4, <1>6, <1>9 DEF LedgerOK, Sound, AbsentIsEmpty, GrantedIsProvisioned
<1> QED
  BY <1>1, <1>3, <1>6, <1>7, <1>10, OneAccount

\* Authorising a purchase moves no credit.
LEMMA AuthorizePurchaseLedger ==
  ASSUME LedgerOK, NEW p \in Purchases, AuthorizePurchase(p)
  PROVE  LedgerKept
<1>1. account' = account /\ usage' = usage /\ operation' = operation /\ seeded' = seeded
  BY DEF AuthorizePurchase
<1>2. Sound(PurchaseAccount[p])' /\ GrantedIsProvisioned(PurchaseAccount[p])
  BY <1>1, PackRow, TotalsKept DEF LedgerOK, Sound, Balanced, AbsentIsEmpty, GrantedIsProvisioned
<1>3. TypeOK'
  BY PurchaseTypes DEF LedgerOK
<1> QED
  BY <1>1, <1>2, <1>3, PackRow, OneAccount

\* A purchase that is settled is recorded as the operation that granted its credits.
LEMMA SettlePurchaseLedger ==
  ASSUME LedgerOK, NEW p \in Purchases, SettlePurchase(p)
  PROVE  LedgerKept
<1> DEFINE a == PurchaseAccount[p]
           n == PackCredits[p]
<1>1. /\ account' = [account EXCEPT ![a] = Credited(account[a], n)] /\ usage' = usage /\ seeded' = seeded
      /\ operation' = [operation EXCEPT ![a][p] = PackOperation(p)] /\ operation[a][p] = NoOperation
      /\ Exists(a)
  BY DEF SettlePurchase, Unused, Active, Exists
<1>2. a \in Accounts /\ p \in OperationKeys /\ n \in Nat /\ PackOperation(p) \in OperationRows
      /\ PackOperation(p).credits = n
  BY PackRow DEF PackOperation
<1> HIDE DEF a, n
<1>3. TypeOK'
  BY PurchaseTypes DEF LedgerOK
<1>4. OperationTotal(a)' = OperationTotal(a) + n
  BY <1>1, <1>2, <1>3, GrantAdded DEF LedgerOK
<1>5. OperationTotal(a) \in Nat /\ seeded[a] \in Nat
  BY <1>2, TotalsTyped DEF LedgerOK, TypeOK
<1>6. /\ account'[a] = Credited(account[a], n) /\ seeded'[a] = seeded[a] /\ usage'[a] = usage[a]
      /\ \A b \in Accounts \ {a} : account'[b] = account[b] /\ operation'[b] = operation[b]
  BY <1>1, <1>2 DEF LedgerOK, TypeOK
<1>7. /\ seeded'[a] \in Nat /\ OperationTotal(a)' \in Nat
      /\ seeded'[a] + OperationTotal(a)' = seeded[a] + OperationTotal(a) + n
  BY <1>2, <1>4, <1>5, <1>6
<1>8. Sound(a)' /\ GrantedIsProvisioned(a)
  BY <1>1, <1>2, <1>6, <1>7, CreditsAdded
<1> QED
  BY <1>1, <1>2, <1>3, <1>6, <1>8, OneAccount

\* Every method keeps the accounts sound and provisions what it grants.
LEMMA MethodLedger == LedgerOK /\ [Next]_storeVars => LedgerKept
<1> SUFFICES ASSUME LedgerOK, [Next]_storeVars PROVE LedgerKept
  OBVIOUS
<1>1. CASE UNCHANGED storeVars
  <2>1. TypeOK'
    BY <1>1, TypesStep DEF LedgerOK
  <2>2. \A a \in Accounts : Sound(a)' /\ GrantedIsProvisioned(a)
    BY <1>1, TotalsKept DEF storeVars, LedgerOK, Sound, Balanced, AbsentIsEmpty, GrantedIsProvisioned
  <2> QED
    BY <2>1, <2>2 DEF LedgerKept, LedgerOK
<1>2. ASSUME NEW a \in Accounts, NEW n \in Seeds, NEW s \in {"active", "revoked"}, Provision(a, n, s)
      PROVE  LedgerKept
  BY <1>2, ProvisionLedger, AmountsAssumption
<1>3. ASSUME NEW a \in Accounts, NEW n \in Seeds \cup {0}, Create(a, n) PROVE LedgerKept
  BY <1>3, CreateLedger, AmountsAssumption
<1>4. ASSUME NEW a \in Accounts, NEW k \in RequestKeys, NEW n \in Grants, NEW reference \in References,
             Credit(a, k, n, reference)
      PROVE  LedgerKept
  BY <1>4, CreditLedger, AmountsAssumption
<1> QED
  BY <1>1, <1>2, <1>3, <1>4, RevokeLedger, ReserveLedger, SettleUsageLedger, AuthorizePurchaseLedger,
     SettlePurchaseLedger DEF Next

\* What was recorded stays recorded.
LEMMA LedgerStep == LedgerInv /\ [Next]_storeVars => LedgerInv'
<1> SUFFICES ASSUME LedgerInv, [Next]_storeVars PROVE LedgerInv'
  OBVIOUS
<1>1. LedgerKept
  BY MethodLedger DEF LedgerInv
<1>2. ASSUME NEW a \in Accounts PROVE Recorded(a)'
  <2>1. /\ account[a].provisioned \in Nat /\ account'[a].provisioned \in Nat
        /\ seeded'[a] + OperationTotal(a)' \in Nat
    BY <1>1, GrantsTyped DEF LedgerInv, LedgerKept, LedgerOK, TypeOK
  <2>2. /\ account[a].provisioned = seeded[a] + OperationTotal(a)
        /\ account'[a].provisioned + (seeded[a] + OperationTotal(a))
             = account[a].provisioned + (seeded'[a] + OperationTotal(a)')
    BY <1>1 DEF LedgerInv, Recorded, LedgerKept, GrantedIsProvisioned
  <2>3. account'[a].provisioned = seeded'[a] + OperationTotal(a)'
    BY <2>1, <2>2
  <2> QED
    BY <2>3 DEF Recorded
<1> QED
  BY <1>1, <1>2 DEF LedgerInv, LedgerKept

\* A sound ledger that records its grants conserves its credits.
LEMMA LedgerConserves == LedgerInv => CreditsConserved
BY DEF LedgerInv, LedgerOK, Sound, Balanced, Recorded, CreditsConserved

\* Every provisioned credit is available or pinned by one reservation, and was
\* seeded or is recorded by one credit operation.
THEOREM Conserved == Spec => []CreditsConserved
BY LedgerInit, LedgerStep, LedgerConserves, PTL DEF Spec

-------------------------------------------------------------------------------
(* Finality *)

RowsKept ==
  /\ \A a \in Accounts, k \in RequestKeys :
       usage[a][k].state \in {"CONSUMED", "RELEASED"} => usage'[a][k] = usage[a][k]
  /\ \A a \in Accounts, k \in OperationKeys :
       operation[a][k] # NoOperation => operation'[a][k] = operation[a][k]
  /\ \A p \in Purchases : purchase[p] = "CREDITED" => purchase'[p] = "CREDITED"
  /\ \A a \in Accounts : account[a].status = "revoked" => account'[a].status = "revoked"

\* No method changes a final row.
LEMMA StepKeepsRows ==
  ASSUME TypeOK, Next
  PROVE  RowsKept
<1>1. ASSUME NEW a \in Accounts, NEW n \in Nat, NEW s \in {"active", "revoked"}, Provision(a, n, s)
      PROVE  RowsKept
  <2>1. account[a].status = "revoked" => account'[a].status = "revoked"
    BY <1>1 DEF Provision, Exists, Credited, TypeOK
  <2> QED
    BY <1>1, <2>1 DEF RowsKept, Provision, TypeOK
<1>2. ASSUME NEW a \in Accounts, NEW n \in Nat, Create(a, n) PROVE RowsKept
  BY <1>2 DEF RowsKept, Create, Exists, TypeOK
<1>3. ASSUME NEW a \in Accounts, Revoke(a) PROVE RowsKept
  BY <1>3 DEF RowsKept, Revoke, TypeOK
<1>4. ASSUME NEW a \in Accounts, NEW k \in RequestKeys, NEW n \in Nat, NEW reference \in References,
             Credit(a, k, n, reference)
      PROVE  RowsKept
  BY <1>4 DEF RowsKept, Credit, Credited, Unused, TypeOK
<1>5. ASSUME NEW a \in Accounts, NEW k \in RequestKeys, NEW route \in Routes, Reserve(a, k, route)
      PROVE  RowsKept
  BY <1>5 DEF RowsKept, Reserve, NoUsage, TypeOK
<1>6. ASSUME NEW a \in Accounts, NEW k \in RequestKeys, NEW outcome \in {"CONSUMED", "RELEASED"},
             SettleUsage(a, k, outcome)
      PROVE  RowsKept
  BY <1>6 DEF RowsKept, SettleUsage, Unsettled, TypeOK
<1>7. ASSUME NEW p \in Purchases, AuthorizePurchase(p) PROVE RowsKept
  BY <1>7 DEF RowsKept, AuthorizePurchase, Unauthorized, TypeOK
<1>8. ASSUME NEW p \in Purchases, SettlePurchase(p) PROVE RowsKept
  BY <1>8, PackRow DEF RowsKept, SettlePurchase, Active, Credited, Unused, TypeOK
<1> QED
  BY <1>1, <1>2, <1>3, <1>4, <1>5, <1>6, <1>7, <1>8, AmountsAssumption DEF Next

\* A settled usage row, a credit operation, a credited purchase and a revocation are final.
THEOREM LedgerFinal == Spec => LedgerIsFinal
<1>1. TypeOK /\ [Next]_storeVars => [RowsKept]_storeVars
  BY StepKeepsRows
<1> QED
  BY <1>1, TypeCorrect, PTL DEF Spec, LedgerIsFinal, RowsKept

===============================================================================
