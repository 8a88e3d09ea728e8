------------------------------ MODULE LedgerProofs ------------------------------
(***************************************************************************)
(* Proofs about the two ledgers, for any requests, quantities, entries and *)
(* bounds: HoldingsLedger, where the amounts of many transactions must add *)
(* up to a holding, and PaperLedger, where events must add up to balanced  *)
(* books.  They share the lemmas about sums of the first part.             *)
(***************************************************************************)
EXTENDS HoldingsLedgerInvariant, PaperLedger, FiniteSetTheorems, TLAPS

-------------------------------------------------------------------------------
(* Sums over finite sets *)

\* The element with which the recursion of the community modules goes on.
Chosen(s) == CHOOSE x \in s : TRUE

\* A function that tells the sum of f over every subset of S.
IsFold(g, f, S) ==
  g = [s \in SUBSET S |-> IF s = {} THEN 0 ELSE f[Chosen(s)] + g[s \ {Chosen(s)}]]

\* What SumFunctionOnSet unfolds to.
LEMMA SumUnfolds ==
  ASSUME NEW f, NEW S
  PROVE  SumFunctionOnSet(f, S) = (CHOOSE g : IsFold(g, f, S))[S]
BY Zenon DEF SumFunctionOnSet, FoldFunctionOnSet, MapThenFoldSet, IsFold, Chosen

\* Among the subsets of a finite set there are smallest ones.
LEMMA SmallestSubset ==
  ASSUME NEW A, IsFiniteSet(A), NEW T, T \subseteq SUBSET A, T # {}
  PROVE  \E I \in T : \A J \in T : J \subseteq I => J = I
<1>1. T \subseteq FiniteSubsetsOf(A) BY FS_Subset DEF FiniteSubsetsOf
<1>3. PICK I \in T : \A J \in T : <<J, I>> \notin StrictSubsetOrdering(A)
  BY <1>1, FS_StrictSubsetOrderingWellFounded, WFMin
<1> QED BY <1>3 DEF StrictSubsetOrdering

\* Such functions agree wherever both are defined.
LEMMA FoldsAgree ==
  ASSUME NEW f, NEW A, IsFiniteSet(A), NEW S \in SUBSET A, NEW T \in SUBSET A,
         NEW g, NEW h, IsFold(g, f, S), IsFold(h, f, T), NEW U \in SUBSET S, U \in SUBSET T
  PROVE  g[U] = h[U]
<1> DEFINE W == {V \in SUBSET A : V \subseteq S /\ V \subseteq T /\ g[V] # h[V]}
<1> SUFFICES ASSUME W # {} PROVE FALSE OBVIOUS
<1>0. W \subseteq SUBSET A OBVIOUS
<1>1. PICK I \in W : \A J \in W : J \subseteq I => J = I
  <2> HIDE DEF W
  <2> QED BY <1>0, SmallestSubset
<1> HIDE DEF W
<1>a. ASSUME NEW k, NEW B, IsFold(k, f, B), NEW V \in SUBSET B
      PROVE k[V] = IF V = {} THEN 0 ELSE f[Chosen(V)] + k[V \ {Chosen(V)}]
  BY <1>a DEF IsFold
<1>b. I \in SUBSET S /\ I \in SUBSET T /\ g[I] # h[I] BY <1>1 DEF W
<1>2. CASE I = {} BY <1>2, <1>a, <1>b
<1>3. CASE I # {}
  <2>1. Chosen(I) \in I BY <1>3 DEF Chosen
  <2>2. I \ {Chosen(I)} \notin W BY <1>1, <2>1
  <2>3. g[I \ {Chosen(I)}] = h[I \ {Chosen(I)}] BY <1>b, <2>2 DEF W
  <2>4. g[I] = f[Chosen(I)] + g[I \ {Chosen(I)}] /\ h[I] = f[Chosen(I)] + h[I \ {Chosen(I)}]
    BY <1>3, <1>a, <1>b
  <2> QED BY <2>3, <2>4, <1>b
<1> QED BY <1>2, <1>3

\* There is one for every finite set: the ones for its subsets, put together.
LEMMA FoldExists ==
  ASSUME NEW f, NEW A, IsFiniteSet(A)
  PROVE  \E g : IsFold(g, f, A)
<1> DEFINE W == {V \in SUBSET A : ~\E g : IsFold(g, f, V)}
<1> SUFFICES ASSUME W # {} PROVE FALSE OBVIOUS
<1>0. W \subseteq SUBSET A OBVIOUS
<1>1. PICK I \in W : \A J \in W : J \subseteq I => J = I
  <2> HIDE DEF W
  <2> QED BY <1>0, SmallestSubset
<1> DEFINE Of(V) == (CHOOSE g : IsFold(g, f, V))
           Val(s) == IF s = {} THEN 0 ELSE f[Chosen(s)] + Of(s \ {Chosen(s)})[s \ {Chosen(s)}]
           G == [s \in SUBSET I |-> Val(s)]
<1>2. ASSUME NEW V \in SUBSET I, V # I PROVE IsFold(Of(V), f, V)
  <2>1. \E g : IsFold(g, f, V) BY <1>1, <1>2
  <2> QED BY <2>1
<1>3. ASSUME NEW V \in SUBSET I, V # I PROVE Of(V)[V] = G[V]
  <2>1. Of(V) = [s \in SUBSET V |-> IF s = {} THEN 0 ELSE f[Chosen(s)] + Of(V)[s \ {Chosen(s)}]]
    <3> HIDE DEF Of
    <3> QED BY <1>2, <1>3 DEF IsFold
  <2>2. CASE V = {}
    <3> HIDE DEF Of
    <3> QED BY <2>1, <2>2
  <2>3. CASE V # {}
    <3> DEFINE w == V \ {Chosen(V)}
    <3>1. Chosen(V) \in V BY <2>3 DEF Chosen
    <3>2. w \in SUBSET V /\ w \in SUBSET I /\ w # I BY <3>1
    <3>3. IsFold(Of(w), f, w) /\ IsFold(Of(V), f, V) BY <1>2, <1>3, <3>2
    <3>4. Of(V)[w] = Of(w)[w]
      <4> HIDE DEF Of, w
      <4>1. w \in SUBSET A /\ V \in SUBSET A /\ w \in SUBSET w BY <3>2, <1>0, <1>1
      <4> QED BY <3>2, <3>3, <4>1, FoldsAgree
    <3>5. Of(V)[V] = f[Chosen(V)] + Of(V)[w] BY <2>1, <2>3
    <3> HIDE DEF Of
    <3> QED BY <2>3, <3>4, <3>5
  <2> QED BY <2>2, <2>3
<1>4. ASSUME NEW s \in SUBSET I
      PROVE  Val(s) = IF s = {} THEN 0 ELSE f[Chosen(s)] + G[s \ {Chosen(s)}]
  <2>1. CASE s # {}
    <3>1. s \ {Chosen(s)} \in SUBSET I /\ s \ {Chosen(s)} # I BY <2>1 DEF Chosen
    <3>2. Of(s \ {Chosen(s)})[s \ {Chosen(s)}] = G[s \ {Chosen(s)}] BY <1>3, <3>1
    <3> HIDE DEF G, Of
    <3> QED BY <3>2
  <2> QED BY <2>1
<1>5. IsFold(G, f, I)
  <2> HIDE DEF Val
  <2>1. G = [s \in SUBSET I |-> IF s = {} THEN 0 ELSE f[Chosen(s)] + G[s \ {Chosen(s)}]]
    <3>1. \A s \in SUBSET I : G[s] = IF s = {} THEN 0 ELSE f[Chosen(s)] + G[s \ {Chosen(s)}]
      BY <1>4
    <3> QED BY <3>1
  <2> QED BY <2>1 DEF IsFold
<1> QED BY <1>1, <1>5

\* Hence the recursion defines the sum.
LEMMA SumIsFold ==
  ASSUME NEW f, NEW A, IsFiniteSet(A)
  PROVE  \E g : IsFold(g, f, A) /\ SumFunctionOnSet(f, A) = g[A]
<1>1. PICK g : IsFold(g, f, A) BY FoldExists
<1>2. IsFold(CHOOSE h : IsFold(h, f, A), f, A) BY <1>1
<1> QED BY <1>2, SumUnfolds

LEMMA FoldStep ==
  ASSUME NEW f, NEW A, NEW g, IsFold(g, f, A), NEW V \in SUBSET A
  PROVE  g[V] = IF V = {} THEN 0 ELSE f[Chosen(V)] + g[V \ {Chosen(V)}]
BY DEF IsFold

LEMMA SumEmpty == ASSUME NEW f PROVE SumFunctionOnSet(f, {}) = 0
BY SumIsFold, FS_EmptySet, FoldStep

LEMMA SumChosen ==
  ASSUME NEW f, NEW A, IsFiniteSet(A), A # {}
  PROVE  SumFunctionOnSet(f, A) = f[Chosen(A)] + SumFunctionOnSet(f, A \ {Chosen(A)})
<1> DEFINE B == A \ {Chosen(A)}
<1>0. B \in SUBSET A /\ A \in SUBSET A /\ B \in SUBSET B /\ IsFiniteSet(B) BY FS_Subset
<1> HIDE DEF B
<1>1. PICK g : IsFold(g, f, A) /\ SumFunctionOnSet(f, A) = g[A] BY SumIsFold
<1>2. PICK h : IsFold(h, f, B) /\ SumFunctionOnSet(f, B) = h[B] BY <1>0, SumIsFold
<1>3. g[B] = h[B] BY <1>0, <1>1, <1>2, FoldsAgree
<1>4. g[A] = f[Chosen(A)] + g[B] BY <1>0, <1>1, FoldStep DEF B
<1> QED BY <1>1, <1>2, <1>3, <1>4 DEF B

\* Induction over the subsets of a finite set.
LEMMA FiniteInduction ==
  ASSUME NEW A, IsFiniteSet(A), NEW S,
         \A B \in SUBSET A : (\A C \in SUBSET B : C # B => C \in S) => B \in S
  PROVE  A \in S
<1> DEFINE W == (SUBSET A) \ S
<1> SUFFICES ASSUME W # {} PROVE FALSE OBVIOUS
<1>1. PICK I \in W : \A J \in W : J \subseteq I => J = I
  <2>1. W \subseteq SUBSET A OBVIOUS
  <2> HIDE DEF W
  <2> QED BY <2>1, SmallestSubset
<1>2. I \in SUBSET A /\ I \notin S OBVIOUS
<1>3. \A C \in SUBSET I : C # I => C \in S
  <2> SUFFICES ASSUME NEW C \in SUBSET I, C # I, C \notin S PROVE FALSE OBVIOUS
  <2>1. C \in W BY <1>2
  <2> QED BY <1>1, <2>1
<1> QED BY <1>2, <1>3

\* Any element may be taken out first.
LEMMA SumRemove ==
  ASSUME NEW A, IsFiniteSet(A), NEW f, \A x \in A : f[x] \in Int, NEW y \in A
  PROVE  /\ SumFunctionOnSet(f, A) \in Int
         /\ SumFunctionOnSet(f, A) = f[y] + SumFunctionOnSet(f, A \ {y})
<1> DEFINE Su(B) == SumFunctionOnSet(f, B)
           S == {B \in SUBSET A : Su(B) \in Int /\ \A z \in B : Su(B) = f[z] + Su(B \ {z})}
<1>0. Su({}) = 0 BY SumEmpty
<1> HIDE DEF Su
<1>1. ASSUME NEW B \in SUBSET A, \A C \in SUBSET B : C # B => C \in S
      PROVE  B \in S
  <2> DEFINE c == Chosen(B)
  <2>1. CASE B = {} BY <1>0, <2>1
  <2>2. CASE B # {}
    <3>1. c \in B BY <2>2 DEF Chosen
    <3>2. Su(B) = f[c] + Su(B \ {c}) BY <2>2, SumChosen, FS_Subset DEF Su
    <3> HIDE DEF c
    <3>3. f[c] \in Int /\ B \ {c} \in S BY <1>1, <3>1
    <3>4. Su(B) \in Int BY <3>2, <3>3
    <3>5. ASSUME NEW z \in B, z # c PROVE Su(B) = f[z] + Su(B \ {z})
      <4>1. B \ {z} \in S /\ f[z] \in Int BY <1>1
      <4>2. Su(B \ {c}) = f[z] + Su((B \ {c}) \ {z}) BY <3>3, <3>5
      <4>3. Su(B \ {z}) = f[c] + Su((B \ {z}) \ {c}) BY <4>1, <3>1, <3>5
      <4>4. (B \ {z}) \ {c} = (B \ {c}) \ {z} OBVIOUS
      <4>5. (B \ {z}) \ {c} \in S BY <1>1, <3>1
      <4>6. Su((B \ {z}) \ {c}) \in Int BY <4>5
      <4>7. Su(B \ {c}) = f[z] + Su((B \ {z}) \ {c}) BY <4>2, <4>4
      <4>8. f[c] \in Int /\ f[z] \in Int BY <3>3, <4>1
      <4>9. ASSUME NEW a \in Int, NEW b \in Int, NEW d \in Int PROVE a + (b + d) = b + (a + d) OBVIOUS
      <4>10. f[c] + (f[z] + Su((B \ {z}) \ {c})) = f[z] + (f[c] + Su((B \ {z}) \ {c})) BY <4>6, <4>8, <4>9
      <4> QED BY <3>2, <4>3, <4>7, <4>10, Zenon
    <3> QED BY <3>2, <3>4, <3>5
  <2> QED BY <2>1, <2>2
<1>2. A \in S
  <2>1. \A B \in SUBSET A : (\A C \in SUBSET B : C # B => C \in S) => B \in S
    BY <1>1
  <2> HIDE DEF S
  <2> QED BY <2>1, FiniteInduction
<1> QED BY <1>2 DEF Su

LEMMA SumPlus ==
  ASSUME NEW A, IsFiniteSet(A), NEW f, NEW g, NEW h,
         \A x \in A : f[x] \in Int /\ g[x] \in Int /\ h[x] = f[x] + g[x]
  PROVE  /\ SumFunctionOnSet(f, A) \in Int /\ SumFunctionOnSet(g, A) \in Int
         /\ SumFunctionOnSet(h, A) = SumFunctionOnSet(f, A) + SumFunctionOnSet(g, A)
<1> DEFINE F(B) == SumFunctionOnSet(f, B)
           G(B) == SumFunctionOnSet(g, B)
           H(B) == SumFunctionOnSet(h, B)
           S == {B \in SUBSET A : F(B) \in Int /\ G(B) \in Int /\ H(B) = F(B) + G(B)}
<1>0. F({}) = 0 /\ G({}) = 0 /\ H({}) = 0 BY SumEmpty
<1>1. ASSUME NEW B \in SUBSET A, \A C \in SUBSET B : C # B => C \in S
      PROVE  B \in S
  <2>1. CASE B = {} BY <1>0, <2>1
  <2>2. CASE B # {}
    <3>1. PICK y \in B : TRUE BY <2>2
    <3>2. B \ {y} \in S /\ IsFiniteSet(B) BY <1>1, <3>1, FS_Subset
    <3>3. \A x \in B : f[x] \in Int /\ g[x] \in Int /\ h[x] \in Int OBVIOUS
    <3>4. F(B) \in Int /\ F(B) = f[y] + F(B \ {y}) BY <3>2, <3>3, SumRemove
    <3>5. G(B) \in Int /\ G(B) = g[y] + G(B \ {y}) BY <3>2, <3>3, SumRemove
    <3>6. H(B) = h[y] + H(B \ {y}) BY <3>2, <3>3, SumRemove
    <3>7. h[y] = f[y] + g[y] /\ f[y] \in Int /\ g[y] \in Int BY <3>1
    <3> HIDE DEF F, G, H
    <3>8. F(B \ {y}) \in Int /\ G(B \ {y}) \in Int /\ H(B \ {y}) = F(B \ {y}) + G(B \ {y}) BY <3>2
    <3>9. H(B) = F(B) + G(B) BY <3>4, <3>5, <3>6, <3>7, <3>8
    <3> QED BY <3>4, <3>5, <3>9
  <2> QED BY <2>1, <2>2
<1>2. A \in S
  <2>1. \A B \in SUBSET A : (\A C \in SUBSET B : C # B => C \in S) => B \in S
    BY <1>1
  <2> HIDE DEF S
  <2> QED BY <2>1, FiniteInduction
<1> QED BY <1>2

LEMMA SumZero ==
  ASSUME NEW A, IsFiniteSet(A), NEW f, \A x \in A : f[x] = 0
  PROVE  SumFunctionOnSet(f, A) = 0
<1>1. SumFunctionOnSet(f, A) = SumFunctionOnSet(f, A) + SumFunctionOnSet(f, A)
      /\ SumFunctionOnSet(f, A) \in Int
  BY SumPlus
<1>2. ASSUME NEW k \in Int, k = k + k PROVE k = 0 BY <1>2
<1> QED BY <1>1, <1>2

LEMMA SumAgrees ==
  ASSUME NEW A, IsFiniteSet(A), NEW f, NEW g, \A x \in A : f[x] \in Int /\ g[x] = f[x]
  PROVE  SumFunctionOnSet(g, A) = SumFunctionOnSet(f, A)
<1> DEFINE z == [x \in A |-> 0]
<1>1. \A x \in A : z[x] \in Int /\ z[x] = 0 /\ g[x] = f[x] + z[x] OBVIOUS
<1> HIDE DEF z
<1>2. SumFunctionOnSet(z, A) = 0 BY <1>1, SumZero
<1>3. /\ SumFunctionOnSet(g, A) = SumFunctionOnSet(f, A) + SumFunctionOnSet(z, A)
      /\ SumFunctionOnSet(f, A) \in Int
  <2>1. \A x \in A : f[x] \in Int /\ z[x] \in Int /\ g[x] = f[x] + z[x] BY <1>1
  <2> QED BY <2>1, SumPlus
<1> QED BY <1>2, <1>3

\* A sum of which one element changes.
LEMMA SumChanges ==
  ASSUME NEW A, IsFiniteSet(A), NEW f, NEW g, NEW y \in A,
         \A x \in A : f[x] \in Int /\ g[x] \in Int /\ (x # y => g[x] = f[x])
  PROVE  /\ SumFunctionOnSet(f, A) \in Int /\ SumFunctionOnSet(g, A) \in Int
         /\ SumFunctionOnSet(g, A) = SumFunctionOnSet(f, A) - f[y] + g[y]
<1> DEFINE B == A \ {y}
<1>1. IsFiniteSet(B) /\ \A x \in B : f[x] \in Int /\ g[x] = f[x] BY FS_RemoveElement
<1>2. SumFunctionOnSet(g, B) = SumFunctionOnSet(f, B)
  <2> HIDE DEF B
  <2> QED BY <1>1, SumAgrees
<1>3. /\ SumFunctionOnSet(f, A) \in Int /\ SumFunctionOnSet(f, A) = f[y] + SumFunctionOnSet(f, B)
      /\ SumFunctionOnSet(g, A) \in Int /\ SumFunctionOnSet(g, A) = g[y] + SumFunctionOnSet(g, B)
  BY SumRemove
<1>4. SumFunctionOnSet(f, B) \in Int
  <2> HIDE DEF B
  <2>1. \A x \in B : f[x] \in Int BY <1>1
  <2>2. CASE B = {} BY <2>2, SumEmpty
  <2>3. CASE B # {} BY <1>1, <2>1, <2>3, SumRemove
  <2> QED BY <2>2, <2>3
<1>5. f[y] \in Int /\ g[y] \in Int OBVIOUS
<1> HIDE DEF B
<1> QED BY <1>2, <1>3, <1>4, <1>5

-------------------------------------------------------------------------------
(* The holdings ledger: what is recorded *)

\* A recorded transaction contributes shares, an empty place none.
LEMMA SignedType ==
  ASSUME NEW x \in Txs \cup {NoTx}
  PROVE  /\ Signed(x) \in Int /\ Signed(NoTx) = 0
         /\ x \in Txs => Signed(x) # 0
<1>1. NoTx.qty = 0 /\ NoTx.side # "buy" BY DEF NoTx
<1>2. Signed(NoTx) = 0
  <2>1. ASSUME NEW k \in Int, k <= 0, k >= 0 PROVE -k = 0 BY <2>1
  <2>2. NoTx.qty \in Int /\ NoTx.qty <= 0 /\ NoTx.qty >= 0 BY <1>1
  <2>3. -NoTx.qty = 0 BY <2>1, <2>2
  <2>4. (IF NoTx.side = "buy" THEN NoTx.qty ELSE -NoTx.qty) = -NoTx.qty BY <1>1, Zenon
  <2> QED BY <2>3, <2>4 DEF Signed
<1>3. CASE x \in Txs
  <2>1. x.qty \in Nat \ {0} BY <1>3 DEF Txs
  <2> QED BY <1>2, <2>1 DEF Signed
<1>4. CASE x = NoTx
  <2>1. x \notin Txs BY <1>1, <1>4 DEF Txs
  <2> QED BY <1>2, <1>4, <2>1
<1> QED BY <1>3, <1>4

\* The sum over all requests, for the lemmas about sums.
LEMMA RecordedIs == Recorded = SumFunctionOnSet([t \in Requests |-> Signed(txs[t])], Requests)
  BY DEF Recorded, SumFunction

LEMMA RecordedType ==
  ASSUME txs \in [Requests -> Txs \cup {NoTx}]
  PROVE  Recorded \in Int
<1> DEFINE f == [t \in Requests |-> Signed(txs[t])]
<1>1. \A t \in Requests : f[t] \in Int BY SignedType
<1>2. CASE Requests = {}
  BY <1>2, RecordedIs, SumEmpty
<1>3. CASE Requests # {}
  <2> HIDE DEF f
  <2>1. SumFunctionOnSet(f, Requests) \in Int BY <1>1, <1>3, RequestsAssumption, SumRemove
  <2> QED BY <2>1, RecordedIs DEF f
<1> QED BY <1>2, <1>3

\* What the change of one transaction does to it.
LEMMA RecordedChanges ==
  ASSUME txs \in [Requests -> Txs \cup {NoTx}], NEW t \in Requests, NEW x \in Txs \cup {NoTx},
         txs' = [txs EXCEPT ![t] = x]
  PROVE  Recorded' = Recorded - Signed(txs[t]) + Signed(x)
<1> DEFINE f == [s \in Requests |-> Signed(txs[s])]
           g == [s \in Requests |-> Signed(txs'[s])]
<1>1. \A s \in Requests : f[s] \in Int /\ g[s] \in Int /\ (s # t => g[s] = f[s]) BY SignedType
<1>2. f[t] = Signed(txs[t]) /\ g[t] = Signed(x) OBVIOUS
<1>3. Recorded = SumFunctionOnSet(f, Requests) BY RecordedIs
<1>4. Recorded' = SumFunctionOnSet(g, Requests) BY DEF Recorded, SumFunction
<1> HIDE DEF f, g
<1>5. SumFunctionOnSet(g, Requests) = SumFunctionOnSet(f, Requests) - f[t] + g[t]
  BY <1>1, RequestsAssumption, SumChanges
<1> QED BY <1>2, <1>3, <1>4, <1>5

LEMMA NothingRecorded ==
  ASSUME \A t \in Requests : txs[t] = NoTx
  PROVE  Recorded = 0
<1> DEFINE f == [t \in Requests |-> Signed(txs[t])]
<1>1. \A t \in Requests : f[t] = 0 BY SignedType
<1> HIDE DEF f
<1>2. SumFunctionOnSet(f, Requests) = 0 BY <1>1, RequestsAssumption, SumZero
<1> QED BY <1>2, RecordedIs DEF f

LEMMA RecordedStays == ASSUME txs' = txs PROVE Recorded' = Recorded BY DEF Recorded

-------------------------------------------------------------------------------
(* Shapes *)

LEMMA TypeFacts ==
  ASSUME TypeOK
  PROVE  /\ txs \in [Requests -> Txs \cup {NoTx}] /\ holding \in Holdings
         /\ holding.qty \in Nat /\ (holding # NoHolding => holding.id \in Rows /\ holding.qty > 0)
         /\ Recorded \in Int /\ base \in Int
BY RecordedType DEF TypeOK, Txs, Holdings, NoHolding

LEMMA WriteLabels ==
  /\ WriteOf("create") = "create_write" /\ WriteOf("reverse") = "reverse_write"
  /\ WriteOf("reapply") = "reapply_write" /\ WriteOf("forward") = "forward_write"
  /\ WriteOf("unforward") = "unforward_write" /\ WriteOf("redo") = "redo_write"
  /\ WriteOf("undo") = "undo_write"
  /\ Writing = {"create_write", "reverse_write", "reapply_write", "forward_write",
                "unforward_write", "redo_write", "undo_write", "post_write", "cascade",
                "delete_row"}
  /\ \A s, t \in Applications : WriteOf(s) = WriteOf(t) => s = t
<1>1. /\ WriteOf("create") = "create_write" /\ WriteOf("reverse") = "reverse_write"
      /\ WriteOf("reapply") = "reapply_write" /\ WriteOf("forward") = "forward_write"
      /\ WriteOf("unforward") = "unforward_write" /\ WriteOf("redo") = "redo_write"
      /\ WriteOf("undo") = "undo_write"
  BY DEF WriteOf
<1> QED BY <1>1 DEF Writing, Applications

\* What an application adds to the holding.
LEMMA DeltaFacts ==
  ASSUME TypeOK, old \in [Requests -> Txs \cup {NoTx}], NEW r \in Requests, NEW stage,
         old[r] \in Txs, quantity[r] > 0
  PROVE  /\ Version(r, stage) \in Txs
         /\ Signed(Version(r, stage)) \in Int /\ Delta(r, stage) \in Int
         /\ stage \in {"forward", "unforward"} => Version(r, stage) = Version(r, "forward")
         /\ stage \notin {"forward", "unforward"} => Version(r, stage) = old[r]
         /\ Delta(r, stage) = IF stage \in {"reverse", "unforward", "undo"}
                              THEN -Signed(Version(r, stage)) ELSE Signed(Version(r, stage))
<1>1. quantity[r] \in Nat BY QuantityAssumption DEF TypeOK
<1>2. Version(r, stage) \in Txs BY <1>1 DEF Version, Txs
<1>3. Signed(Version(r, stage)) \in Int BY <1>2, SignedType
<1> QED BY <1>2, <1>3 DEF Delta, Direction, Version

\* Whoever does not take the step keeps what holds of it.
LEMMA LocalStays ==
  ASSUME IInv, NEW s \in Requests, pc'[s] = pc[s], op'[s] = op[s], target'[s] = target[s],
         quantity'[s] = quantity[s], old'[s] = old[s], seen'[s] = seen[s],
         s \in tickets => s \in tickets', excuses \subseteq excuses', txs[s] = NoTx => txs'[s] = NoTx
  PROVE  Local(s)'
BY DEF IInv, Local, OpAt, Covered, Active, Delta, Version, Sellable

\* A step of an active request r: what is to be shown of it, for the rest is a
\* matter of who else is active.
LEMMA Assemble ==
  ASSUME IInv, NEW r \in Requests, Active(r),
         \A s \in Requests \ {r} : pc'[s] = pc[s],
         excuses \subseteq excuses', tickets \ {r} \subseteq tickets', uncertain => uncertain',
         TypeOK',
         (old \in [Requests -> Txs \cup {NoTx}])', (seen \in [Requests -> Holdings])',
         DOMAIN before' = Requests,
         \A s \in Requests : Local(s)',
         Active(r)' /\ ~Overlapped' /\ Alone(r) => Alone(r)',
         excuses' = {} /\ Alone(r) /\ (Aligned(r) \/ pc[r] = "restore") /\ Kept(r) =>
           IF Active(r)' THEN (Aligned(r)' \/ pc'[r] = "restore") /\ Kept(r)' ELSE InStep',
         Undeclared' /\ Alone(r) /\ (Aligned(r) \/ Doomed(r)) =>
           IF Active(r)' THEN Aligned(r)' \/ Doomed(r)' ELSE InStep'
  PROVE  IInv'
<1>1. ~Overlapped' => ~Overlapped BY DEF Overlapped
<1>2. ~Overlapped => Alone(r) BY DEF IInv
<1>3. \A s \in Requests : ~Overlapped /\ Active(s)' => s = r
  BY <1>2 DEF Alone, Active
<1>4. ~Overlapped' => \A s \in Requests : Active(s)' => Alone(s)'
  BY <1>1, <1>2, <1>3
<1>5. WithoutTrouble'
  <2> SUFFICES ASSUME excuses' = {}
               PROVE  /\ Quiet' => InStep'
                      /\ \A s \in Requests : Active(s)' =>
                           (Aligned(s)' \/ pc'[s] = "restore") /\ Kept(s)'
    BY DEF WithoutTrouble
  <2>1. excuses = {} /\ ~Overlapped BY DEF Overlapped
  <2>2. Alone(r) /\ (Aligned(r) \/ pc[r] = "restore") /\ Kept(r)
    BY <1>2, <2>1 DEF IInv, WithoutTrouble
  <2>3. Quiet' => ~Active(r)' BY DEF Quiet, Active
  <2> QED BY <1>3, <2>1, <2>2, <2>3
<1>6. WithoutDeclaration'
  <2> SUFFICES ASSUME Undeclared'
               PROVE  /\ Quiet' => InStep'
                      /\ \A s \in Requests : Active(s)' => Aligned(s)' \/ Doomed(s)'
    BY DEF WithoutDeclaration
  <2>1. Undeclared /\ ~Overlapped
    <3>1. \A t \in tickets : t # r => pc[t] # "crashed"
      BY DEF Undeclared, IInv, TypeOK
    <3>2. pc[r] # "crashed" BY DEF Active, Ended
    <3> QED BY <3>1, <3>2 DEF Undeclared, Overlapped
  <2>2. Alone(r) /\ (Aligned(r) \/ Doomed(r))
    BY <1>2, <2>1 DEF IInv, WithoutDeclaration
  <2>3. Quiet' => ~Active(r)' BY DEF Quiet, Active
  <2> QED BY <1>3, <2>1, <2>2, <2>3
<1> QED BY <1>4, <1>5, <1>6 DEF IInv

-------------------------------------------------------------------------------
(* apply_transaction *)

LEMMA Reads ==
  ASSUME IInv, NEW r \in Requests, NEW stage \in Applications, ReadHolding(r, stage)
  PROVE  IInv'
<1> DEFINE label == IF Sellable(holding, Delta(r, stage)) THEN WriteOf(stage) ELSE Otherwise(stage)
<1>1. TypeOK /\ Local(r) /\ pc[r] = stage /\ stage \in Applications /\ Active(r)
  BY DEF IInv, ReadHolding, Active, Ended, Applications
<1>2. /\ pc' = [pc EXCEPT ![r] = label] /\ seen' = [seen EXCEPT ![r] = holding]
      /\ UNCHANGED <<txs, holding, tickets, uncertain, op, target, quantity, before, old, base, excuses>>
  BY DEF ReadHolding, Goto, database, control, request
<1>3. label \in Labels /\ label \notin Ended
  BY <1>1, WriteLabels DEF Labels, Otherwise, Applications, Ended
<1>4. pc'[r] = label /\ seen'[r] = holding /\ \A s \in Requests \ {r} : pc'[s] = pc[s] /\ seen'[s] = seen[s]
  BY <1>1, <1>2 DEF IInv, TypeOK
<1>5. TypeOK' /\ (old \in [Requests -> Txs \cup {NoTx}])' /\ (seen \in [Requests -> Holdings])'
      /\ DOMAIN before' = Requests
  BY <1>1, <1>2, <1>3, TypeFacts DEF IInv, TypeOK
<1>6. old[r] \in Txs /\ quantity[r] > 0
  BY <1>1 DEF Local, Creating, WithOld, WithNew, Restoring, Applications
<1>7. \A s \in Applications : Delta(r, s)' = Delta(r, s)
  BY <1>2 DEF Delta, Version
<1>8. Local(r)'
  <2>1. OpAt(r)'
    BY <1>1, <1>2, <1>4, WriteLabels DEF Local, OpAt, Otherwise, Applications, Creating, WithNew, Restoring
  <2>2. Covered(r)'
    <3> SUFFICES ASSUME NEW s \in Applications, label = WriteOf(s)
                 PROVE  Sellable(holding, Delta(r, s))
      BY <1>4, <1>7 DEF Covered
    <3>1. label = WriteOf(stage) => s = stage BY <1>1, WriteLabels
    <3>2. Otherwise(stage) # WriteOf(s) BY <1>1, WriteLabels DEF Otherwise, Applications
    <3> QED BY <3>1, <3>2
  <2>3. label \in {"unforward", "unforward_write"} => Delta(r, "unforward") > 0
    <3>1. CASE stage = "unforward"
      BY <1>1, <3>1 DEF Local
    <3>2. CASE stage = "forward"
      <4>1. Delta(r, "forward") \in Int /\ Delta(r, "unforward") = -Delta(r, "forward")
        BY <1>1, <1>6, DeltaFacts DEF IInv
      <4>2. ~Sellable(holding, Delta(r, "forward")) => Delta(r, "forward") < 0
        <5>1. CASE holding = NoHolding
          <6>1. Delta(r, "forward") # 0
            BY <1>1, <1>6, DeltaFacts, SignedType DEF IInv
          <6> QED BY <4>1, <5>1, <6>1 DEF Sellable
        <5>2. CASE holding # NoHolding
          BY <1>1, <4>1, <5>2, TypeFacts DEF Sellable
        <5> QED BY <5>1, <5>2
      <4> QED BY <1>1, <3>2, <4>1, <4>2, WriteLabels
    <3>3. CASE stage \notin {"forward", "unforward"}
      BY <1>1, <3>3, WriteLabels DEF Otherwise, Applications
    <3> QED BY <3>1, <3>2, <3>3
  <2>4. label \notin {"new", "insert"}
    BY <1>1, WriteLabels DEF Otherwise, Applications
  <2>5. Active(r)' => quantity'[r] > 0 /\ (op'[r] \in Ticketed => r \in tickets')
    BY <1>1, <1>2 DEF Local
  <2>6. old'[r] \in Txs BY <1>2, <1>6
  <2>7. Delta(r, "unforward")' = Delta(r, "unforward") BY <1>2 DEF Delta, Version
  <2>8. label \in {"redo", "redo_write"} => "restore" \in excuses'
    BY <1>1, <1>2, WriteLabels DEF Local, Otherwise, Applications
  <2> QED BY <1>4, <2>1, <2>2, <2>3, <2>4, <2>5, <2>6, <2>7, <2>8 DEF Local
<1>9. \A s \in Requests : Local(s)'
  BY <1>2, <1>4, <1>8, LocalStays
<1>10. ASSUME Alone(r) PROVE Alone(r)'
  <2>1. label \notin {"reapply_write", "reapply", "delete_row"}
    BY <1>1, <1>10, WriteLabels DEF Alone, Otherwise, Applications
  <2>2. label \in Creating \cup WithOld => stage \in Creating \cup WithOld
    BY <1>1, WriteLabels DEF Otherwise, Applications, Creating, WithOld
  <2>3. label \in WithNew => stage \in WithNew
    BY <1>1, WriteLabels DEF Otherwise, Applications, WithNew
  <2>4. Version(r, "forward")' = Version(r, "forward")
    BY <1>2 DEF Version
  <2>5. \A s \in Requests : Active(s)' => s = r
    BY <1>4, <1>10 DEF Alone, Active
  <2> QED BY <1>1, <1>2, <1>4, <1>10, <2>1, <2>2, <2>3, <2>4, <2>5 DEF Alone
<1>11. label \in Labels \ Ended /\ Active(r)'
  BY <1>3, <1>4 DEF Active
<1>12. Missing(r)' = Missing(r) /\ Recorded' = Recorded /\ holding' = holding /\ base' = base
  <2>1. stage \in Creating \cup {"update", "delete_tx"} <=> label \in Creating \cup {"update", "delete_tx"}
    BY <1>1, WriteLabels DEF Otherwise, Applications, Creating
  <2>2. stage \in WithNew <=> label \in WithNew
    <3>1. stage = "unforward" => Sellable(holding, Delta(r, stage))
      <4>1. holding # NoHolding => holding.qty \in Nat BY <1>1, TypeFacts
      <4>2. Delta(r, stage) \in Int BY <1>1, <1>6, DeltaFacts DEF IInv
      <4> QED BY <1>1, <4>1, <4>2 DEF Local, Sellable
    <3> QED BY <1>1, <3>1, WriteLabels DEF Otherwise, Applications, WithNew
  <2>3. Version(r, "forward")' = Version(r, "forward")
    BY <1>2 DEF Version
  <2> QED BY <1>1, <1>2, <1>4, <2>1, <2>2, <2>3, RecordedStays DEF Missing
<1>13. stage # "delete_row" /\ label # "delete_row" /\ stage \notin {"restore", "rollback", "reject"}
  BY <1>1, WriteLabels DEF Otherwise, Applications
<1>14. Aligned(r) => Aligned(r)'
  BY <1>1, <1>12, <1>13 DEF Aligned
<1>15. Alone(r) /\ Doomed(r) => Doomed(r)'
  BY <1>1, <1>2, <1>4, WriteLabels DEF Doomed, Otherwise, Applications
<1>16. Kept(r) => Kept(r)'
  <2>1. stage \in Creating <=> label \in Creating
    BY <1>1, WriteLabels DEF Otherwise, Applications, Creating
  <2>2. label \notin {"close", "delete_tx"} /\ stage \notin {"close", "delete_tx"}
    BY <1>1, WriteLabels DEF Otherwise, Applications
  <2> QED BY <1>1, <1>2, <1>4, <1>13, <2>1, <2>2 DEF Kept
<1>17. Aligned(r) \/ pc[r] = "restore" => Aligned(r)
  BY <1>1, <1>13
<1> HIDE DEF label
<1> QED BY <1>1, <1>2, <1>4, <1>5, <1>9, <1>10, <1>11, <1>14, <1>15, <1>16, <1>17, Assemble

-------------------------------------------------------------------------------
(* A failed call *)

LEMMA FaultFacts ==
  ASSUME NEW S, Fault(S)
  PROVE  /\ "fault" \in excuses' /\ excuses \subseteq excuses'
         /\ excuses \subseteq {"restore", "fault", "unannounced", "overlap"} =>
              excuses' \subseteq {"restore", "fault", "unannounced", "overlap"}
         /\ (\E s \in S : op[s] \notin Ticketed) => "unannounced" \in excuses'
BY DEF Fault

LEMMA Writes ==
  ASSUME IInv, NEW r \in Requests, NEW stage \in Applications, WriteHolding(r, stage)
  PROVE  IInv'
<1> DEFINE delta == Delta(r, stage)
           total == seen[r].qty + delta
           label == pc'[r]
<1>1. TypeOK /\ Local(r) /\ pc[r] = WriteOf(stage) /\ Active(r) /\ pc[r] \in Writing
      /\ stage \in Applications
  BY WriteLabels DEF IInv, WriteHolding, Active, Ended, Applications
<1>2. UNCHANGED <<txs, tickets, uncertain, op, target, quantity, before, old, seen, base>>
  BY DEF WriteHolding, control, request
<1>3. \/ /\ label = Unexpected(pc[r]) /\ seen[r] = NoHolding /\ holding # NoHolding
         /\ UNCHANGED <<holding, excuses>>
      \/ /\ ~(seen[r] = NoHolding /\ holding # NoHolding)
         /\ \/ label = Then(stage) /\ UNCHANGED excuses
            \/ label = Unexpected(pc[r]) /\ Fault({r})
         /\ holding' = CASE seen[r] = NoHolding -> [id |-> <<r, stage>>, qty |-> delta]
                         [] seen[r] # NoHolding /\ holding.id # seen[r].id -> holding
                         [] OTHER -> IF total = 0 THEN NoHolding ELSE [holding EXCEPT !.qty = total]
  BY <1>1 DEF WriteHolding, Goto, TypeOK
<1>4. pc' = [pc EXCEPT ![r] = label] /\ \A s \in Requests \ {r} : pc'[s] = pc[s]
  BY <1>1 DEF WriteHolding, Goto, TypeOK
<1>5. label \in {Then(stage), Unexpected(pc[r])}
  BY <1>3
<1>6. /\ Then("create") = "close" /\ Then("forward") = "close" /\ Then("reverse") = "update"
      /\ Then("unforward") = "restore" /\ Then("undo") = "delete_tx"
      /\ Then("redo") = "reject" /\ Then("reapply") = "reject"
      /\ Unexpected("create_write") = "rollback"
      /\ \A s \in Applications \ {"create"} : Unexpected(WriteOf(s)) = "reject"
  BY WriteLabels DEF Then, Unexpected, Applications
<1>7. label \in {"close", "update", "restore", "delete_tx", "reject", "rollback"}
  BY <1>1, <1>5, <1>6, WriteLabels DEF Applications
<1>8. label \in Labels /\ Active(r)'
  BY <1>7 DEF Labels, Active, Ended
<1>9. old[r] \in Txs /\ quantity[r] > 0 /\ op[r] \in Ticketed /\ r \in tickets
  <2>1. old[r] \in Txs
    BY <1>1, WriteLabels DEF Local, Creating, WithOld, WithNew, Restoring, Applications
  <2>2. op[r] \in {"buy", "sell", "edit", "delete"}
    BY <1>1, WriteLabels DEF Local, OpAt, Creating, WithNew, Restoring, Applications
  <2> QED BY <1>1, <2>1, <2>2 DEF Local, Ticketed
<1>10. delta \in Int /\ Sellable(seen[r], delta) /\ seen[r] \in Holdings
  BY <1>1, <1>9, DeltaFacts DEF IInv, Local, Covered
<1>11. seen[r] # NoHolding => seen[r].id \in Rows /\ seen[r].id # NoRow /\ seen[r].qty \in Nat
  BY <1>10, RowAssumption DEF Holdings, NoHolding
<1>12. holding' \in Holdings
       /\ (seen[r] = holding => holding'.qty = holding.qty + delta)
  <2>1. holding \in Holdings /\ NoHolding \in Holdings BY <1>1, TypeFacts DEF Holdings
  <2>2. CASE label = Unexpected(pc[r]) /\ seen[r] = NoHolding /\ holding # NoHolding
             /\ UNCHANGED <<holding, excuses>>
    BY <2>1, <2>2
  <2>3. CASE seen[r] = NoHolding /\ holding' = [id |-> <<r, stage>>, qty |-> delta]
    <3>1. delta > 0 BY <1>10, <2>3 DEF Sellable
    <3>2. delta \in Nat \ {0} BY <1>10, <3>1
    <3>3. <<r, stage>> \in Rows BY DEF Rows
    <3> HIDE DEF delta
    <3> QED BY <2>3, <3>2, <3>3 DEF Holdings, NoHolding
  <2>4. CASE seen[r] # NoHolding /\ holding.id # seen[r].id /\ holding' = holding
    BY <2>1, <2>4
  <2>5. CASE seen[r] # NoHolding /\ holding.id = seen[r].id
             /\ holding' = IF total = 0 THEN NoHolding ELSE [holding EXCEPT !.qty = total]
    <3>1. holding \in [id : Rows, qty : Nat \ {0}]
      BY <1>11, <2>1, <2>5 DEF Holdings, NoHolding
    <3>2. total \in Nat BY <1>10, <1>11, <2>5 DEF Sellable
    <3> HIDE DEF delta
    <3>3. CASE total = 0
      BY <2>1, <2>5, <3>3 DEF NoHolding
    <3>4. CASE total # 0
      <4>1. holding' = [holding EXCEPT !.qty = total] BY <2>5, <3>4
      <4> QED BY <3>1, <3>2, <3>4, <4>1 DEF Holdings
    <3> QED BY <3>3, <3>4
  <2> QED BY <1>3, <2>2, <2>3, <2>4, <2>5
<1>13. excuses \subseteq excuses' /\ excuses' \subseteq {"restore", "fault", "unannounced", "overlap"}
  BY <1>1, <1>3, FaultFacts DEF TypeOK
<1>14. TypeOK' /\ (old \in [Requests -> Txs \cup {NoTx}])' /\ (seen \in [Requests -> Holdings])'
       /\ DOMAIN before' = Requests
  BY <1>1, <1>2, <1>4, <1>8, <1>12, <1>13 DEF IInv, TypeOK, Holdings
<1>15. Local(r)'
  <2>1. OpAt(r)'
    BY <1>1, <1>2, <1>5, <1>6, <1>7, WriteLabels DEF Local, OpAt, Applications, Creating, WithNew, Restoring
  <2>2. Covered(r)'
    BY <1>7, WriteLabels DEF Covered, Applications
  <2> QED BY <1>2, <1>7, <1>9, <2>1, <2>2 DEF Local
<1>16. \A s \in Requests : Local(s)'
  BY <1>2, <1>4, <1>13, <1>15, LocalStays
<1>17. ASSUME Alone(r) PROVE Alone(r)'
  <2>1. label \notin Writing \cup WithNew \cup {"reapply", "reapply_write", "delete_row"}
    BY <1>7, WriteLabels DEF WithNew
  <2>2. label \in Creating \cup WithOld => pc[r] \in Creating \cup WithOld
    BY <1>1, <1>5, <1>6, WriteLabels DEF Applications, Creating, WithOld
  <2>3. \A s \in Requests : Active(s)' => s = r
    BY <1>4, <1>17 DEF Alone, Active
  <2> QED BY <1>2, <1>17, <2>1, <2>2, <2>3 DEF Alone
<1>18. ASSUME Alone(r), Aligned(r), label = Then(stage), stage \in {"create", "reverse", "forward", "undo"}
       PROVE  Aligned(r)' /\ Kept(r)'
  <2>1. holding'.qty = holding.qty + delta
    BY <1>1, <1>12, <1>18 DEF Alone
  <2>2. Recorded' = Recorded BY <1>2, RecordedStays
  <2>3. Missing(r)' = Missing(r) - delta
    <3>1. Version(r, "forward")' = Version(r, "forward") BY <1>2 DEF Version
    <3>2. /\ Signed(old[r]) \in Int /\ Signed(Version(r, "forward")) \in Int
          /\ stage = "create" => delta = Signed(old[r])
          /\ stage = "reverse" => delta = -Signed(old[r])
          /\ stage = "undo" => delta = -Signed(old[r])
          /\ stage = "forward" => delta = Signed(Version(r, "forward"))
      BY <1>1, <1>9, DeltaFacts, SignedType DEF IInv
    <3> HIDE DEF delta
    <3>3. CASE stage = "create"
      <4>1. Missing(r) = Signed(old[r]) /\ Missing(r)' = 0
        BY <1>1, <1>6, <1>18, <3>3, WriteLabels DEF Missing, Creating, WithNew
      <4> QED BY <3>2, <3>3, <4>1
    <3>4. CASE stage = "reverse"
      <4>1. Missing(r) = 0 /\ Missing(r)' = Signed(old[r])
        BY <1>1, <1>2, <1>6, <1>18, <3>4, WriteLabels DEF Missing, Creating, WithNew
      <4> QED BY <3>2, <3>4, <4>1
    <3>5. CASE stage = "undo"
      <4>1. Missing(r) = 0 /\ Missing(r)' = Signed(old[r])
        BY <1>1, <1>2, <1>6, <1>18, <3>5, WriteLabels DEF Missing, Creating, WithNew
      <4> QED BY <3>2, <3>5, <4>1
    <3>6. CASE stage = "forward"
      <4>1. Missing(r) = Signed(Version(r, "forward")) /\ Missing(r)' = 0
        BY <1>1, <1>6, <1>18, <3>6, WriteLabels DEF Missing, Creating, WithNew
      <4> QED BY <3>2, <3>6, <4>1
    <3> QED BY <1>18, <3>3, <3>4, <3>5, <3>6
  <2>4. holding.qty + Missing(r) = base + Recorded
    BY <1>1, <1>18, WriteLabels DEF Aligned, Applications
  <2>5. Missing(r) \in Int /\ holding.qty \in Int /\ Recorded \in Int /\ base \in Int
    BY <1>1, <1>9, TypeFacts, DeltaFacts, SignedType DEF IInv, Missing
  <2>6. Kept(r)'
    BY <1>1, <1>2, <1>6, <1>18, WriteLabels DEF Kept, Creating, Local, OpAt
  <2> HIDE DEF delta
  <2>7. holding'.qty + Missing(r)' = base' + Recorded'
    BY <1>2, <1>10, <2>1, <2>2, <2>3, <2>4, <2>5 DEF delta
  <2> QED BY <2>6, <2>7 DEF Aligned
<1>19. label # Then(stage) => "fault" \in excuses' \/ (seen[r] = NoHolding /\ holding # NoHolding)
  BY <1>3, FaultFacts
<1>20. ASSUME excuses' = {}, Alone(r), Aligned(r) \/ pc[r] = "restore", Kept(r)
       PROVE  (Aligned(r)' \/ label = "restore") /\ Kept(r)'
  <2>1. Aligned(r) /\ label = Then(stage)
    BY <1>1, <1>19, <1>20, WriteLabels DEF Alone, Applications
  <2>2. stage \in {"create", "reverse", "forward", "undo", "unforward"}
    BY <1>1, <1>13, <1>20, WriteLabels DEF Alone, Local, Applications
  <2>3. CASE stage = "unforward"
    BY <1>1, <1>2, <1>6, <2>1, <2>3, WriteLabels DEF Kept, Local, OpAt, WithNew
  <2> QED BY <1>18, <1>20, <2>1, <2>2, <2>3
<1>21. ASSUME Undeclared', Alone(r), Aligned(r) \/ Doomed(r)
       PROVE  Aligned(r)' \/ Doomed(r)'
  <2>1. CASE label \in {"restore", "reject", "rollback"}
    BY <1>2, <1>9, <2>1 DEF Doomed
  <2>2. CASE label \notin {"restore", "reject", "rollback"}
    <3>1. label = Then(stage) /\ stage \in {"create", "reverse", "forward", "undo"}
      BY <1>1, <1>5, <1>6, <2>2, WriteLabels DEF Applications
    <3>2. ~Doomed(r)
      BY <1>1, <3>1, WriteLabels DEF Doomed
    <3> QED BY <1>18, <1>21, <3>1, <3>2
  <2> QED BY <2>1, <2>2
<1> HIDE DEF label, delta, total
<1> QED BY <1>1, <1>2, <1>4, <1>8, <1>13, <1>14, <1>16, <1>17, <1>20, <1>21, Assemble DEF label


-------------------------------------------------------------------------------
(* The ticket *)

LEMMA Begins ==
  ASSUME IInv, NEW r \in Requests, Begin(r)
  PROVE  IInv'
<1>1. PICK o \in Ops, t \in Requests, q \in 1..MaxQuantity :
        /\ o \notin {"edit", "delete"} => t = r
        /\ op' = [op EXCEPT ![r] = o] /\ target' = [target EXCEPT ![r] = t]
        /\ quantity' = [quantity EXCEPT ![r] = q]
        /\ tickets' = IF o \in Ticketed THEN tickets \cup {r} ELSE tickets
        /\ pc' = [pc EXCEPT ![r] =
                    CASE o \in {"buy", "sell"} -> "insert"
                      [] o \in {"edit", "delete"} -> "load"
                      [] o = "post_holding" -> "post"
                      [] o = "patch_holding" -> "patch"
                      [] o = "delete_holding" -> "find"]
  BY DEF Begin, Goto
<1> DEFINE label == pc'[r]
<1>2. TypeOK /\ Local(r) /\ pc[r] = "new" /\ o \in Operations /\ q \in 0..MaxQuantity /\ q > 0
  BY QuantityAssumption, OpsAssumption DEF IInv, Begin
<1>3. /\ before' = [before EXCEPT ![r] = <<txs, holding.qty>>]
      /\ excuses' = excuses \cup IF \A s \in Requests : pc[s] \in Ended THEN {} ELSE {"overlap"}
      /\ UNCHANGED <<txs, holding, uncertain, old, seen, base>>
  BY DEF Begin, database
<1>4. /\ o \in {"buy", "sell"} => label = "insert"
      /\ o \in {"edit", "delete"} => label = "load"
      /\ o = "post_holding" => label = "post"
      /\ o = "patch_holding" => label = "patch"
      /\ o = "delete_holding" => label = "find"
  BY <1>1, <1>2 DEF TypeOK
<1>5. label \in {"insert", "load", "post", "patch", "find"}
  BY <1>2, <1>4 DEF Operations
<1>6. /\ op'[r] = o /\ target'[r] = t /\ quantity'[r] = q /\ before'[r] = <<txs, holding.qty>>
      /\ \A s \in Requests \ {r} : /\ pc'[s] = pc[s] /\ op'[s] = op[s] /\ target'[s] = target[s]
                                   /\ quantity'[s] = quantity[s]
  BY <1>1, <1>2, <1>3 DEF TypeOK, IInv
<1>7. TypeOK' /\ (old \in [Requests -> Txs \cup {NoTx}])' /\ (seen \in [Requests -> Holdings])'
      /\ DOMAIN before' = Requests
  <2>1. pc' = [pc EXCEPT ![r] = label] /\ label \in Labels
    BY <1>1, <1>2, <1>5 DEF TypeOK, Labels
  <2>2. excuses' \subseteq {"restore", "fault", "unannounced", "overlap"}
    BY <1>2, <1>3 DEF TypeOK
  <2> HIDE DEF label
  <2>3. pc' \in [Requests -> Labels] /\ tickets' \subseteq Requests
    <3>1. pc' \in [Requests -> Labels] BY <1>2, <2>1 DEF TypeOK
    <3>2. tickets' \subseteq Requests BY <1>1, <1>2 DEF TypeOK
    <3> QED BY <3>1, <3>2
  <2>4. op' \in [Requests -> Operations \cup {"none"}] /\ target' \in [Requests -> Requests]
    BY <1>1, <1>2 DEF TypeOK
  <2>5. quantity' \in [Requests -> 0..MaxQuantity]
    <3>1. quantity \in [Requests -> 0..MaxQuantity] BY <1>2 DEF TypeOK
    <3> QED BY <1>1, <1>2, <3>1
  <2>6. DOMAIN before' = Requests BY <1>3 DEF IInv
  <2>7. TypeOK' BY <1>2, <1>3, <2>2, <2>3, <2>4, <2>5 DEF TypeOK
  <2> QED BY <1>3, <2>6, <2>7 DEF IInv
<1>8. Local(r)'
  <2>1. OpAt(r)' BY <1>1, <1>2, <1>4, <1>5, <1>6 DEF OpAt, Creating, WithNew, Restoring, Operations
  <2>2. Covered(r)' BY <1>5, WriteLabels DEF Covered, Applications
  <2>3. o \in Ticketed => r \in tickets' BY <1>1
  <2> QED BY <1>2, <1>3, <1>5, <1>6, <2>1, <2>2, <2>3
          DEF Local, Creating, WithOld, WithNew, Restoring
<1>9. \A s \in Requests : Local(s)'
  BY <1>1, <1>3, <1>6, <1>8, LocalStays
<1>10. ~Overlapped' => ~Overlapped /\ Quiet
  BY <1>3 DEF Overlapped, Quiet
<1>11. Active(r)' /\ ~Quiet' /\ (Quiet => \A s \in Requests : Active(s)' => s = r)
  BY <1>5, <1>6 DEF Active, Ended, Quiet
<1>12. Quiet => Alone(r)'
  BY <1>5, <1>11, WriteLabels DEF Alone, Creating, WithOld, WithNew
<1>13. InStep => Aligned(r)'
  <2>1. Missing(r)' = 0 BY <1>5 DEF Missing, Creating, WithNew
  <2>2. holding.qty \in Int BY <1>2, TypeFacts
  <2>3. Recorded' = Recorded BY <1>3, RecordedStays
  <2> QED BY <1>3, <2>1, <2>2, <2>3 DEF Aligned, InStep
<1>14. Kept(r)'
  BY <1>3, <1>5, <1>6 DEF Kept, Creating
<1>15. WithoutTrouble'
  BY <1>3, <1>10, <1>11, <1>13, <1>14 DEF WithoutTrouble, IInv, Overlapped
<1>16. WithoutDeclaration'
  <2> SUFFICES ASSUME Undeclared' PROVE \A s \in Requests : Active(s)' => Aligned(s)'
    BY <1>11 DEF WithoutDeclaration
  <2>1. Quiet BY <1>10 DEF Undeclared, Overlapped
  <2>2. Undeclared
    <3>1. tickets \subseteq tickets' /\ excuses \subseteq excuses' /\ tickets \subseteq Requests
      BY <1>1, <1>2, <1>3 DEF TypeOK
    <3>2. \A s \in tickets : pc[s] # "crashed"
      BY <1>2, <1>6, <3>1 DEF Undeclared
    <3> QED BY <1>3, <3>1, <3>2 DEF Undeclared
  <2> QED BY <1>11, <1>13, <2>1, <2>2 DEF IInv, WithoutDeclaration
<1>17. ~Overlapped' => \A s \in Requests : Active(s)' => Alone(s)'
  BY <1>10, <1>11, <1>12
<1> HIDE DEF label
<1> QED BY <1>7, <1>9, <1>15, <1>16, <1>17 DEF IInv

LEMMA Ends ==
  ASSUME IInv, NEW r \in Requests, End(r)
  PROVE  IInv'
<1>1. TypeOK /\ Local(r) /\ pc[r] \in {"close", "reject"} /\ Active(r)
  BY DEF IInv, End, Active, Ended
<1>2. /\ UNCHANGED <<txs, holding, base, excuses>>
      /\ tickets' = tickets \ {r} /\ uncertain' = (uncertain \/ (pc[r] = "reject" /\ r \in tickets))
  BY DEF End, database
<1>3. \A s \in Requests \ {r} :
        /\ pc'[s] = pc[s] /\ op'[s] = op[s] /\ target'[s] = target[s]
        /\ quantity'[s] = quantity[s] /\ old'[s] = old[s] /\ seen'[s] = seen[s]
  BY <1>1 DEF End, Leave, Goto, TypeOK, IInv
<1>4. pc'[r] \in {"done", "rejected"}
  BY <1>1 DEF End, Leave, Goto, TypeOK
<1>5. TypeOK' /\ (old \in [Requests -> Txs \cup {NoTx}])' /\ (seen \in [Requests -> Holdings])'
      /\ DOMAIN before' = Requests
  <2>1. pc' \in [Requests -> Labels]
    BY <1>1 DEF End, Leave, Goto, TypeOK, Labels, Ended
  <2>2. op' \in [Requests -> Operations \cup {"none"}] /\ target' \in [Requests -> Requests]
        /\ quantity' \in [Requests -> 0..MaxQuantity]
    BY <1>1, QuantityAssumption DEF End, Leave, TypeOK
  <2>3. (old \in [Requests -> Txs \cup {NoTx}])' /\ (seen \in [Requests -> Holdings])'
        /\ DOMAIN before' = Requests
    BY DEF IInv, End, Leave, Holdings
  <2>4. uncertain' \in BOOLEAN BY <1>1, <1>2 DEF TypeOK
  <2> QED BY <1>1, <1>2, <2>1, <2>2, <2>3, <2>4 DEF TypeOK
<1>6. Local(r)'
  BY <1>4, WriteLabels DEF Local, OpAt, Covered, Active, Ended, Applications, Creating, WithOld,
     WithNew, Restoring
<1>7. \A s \in Requests : Local(s)'
  BY <1>2, <1>3, <1>6, LocalStays
<1>8. Aligned(r) => InStep'
  <2>1. Missing(r) = 0 BY <1>1 DEF Missing, Creating, WithNew
  <2>2. holding.qty \in Int BY <1>1, TypeFacts
  <2>3. Recorded' = Recorded BY <1>2, RecordedStays
  <2> QED BY <1>1, <1>2, <2>1, <2>2, <2>3 DEF Aligned, InStep
<1>9. ~Active(r)' BY <1>4 DEF Active, Ended
<1>10. Undeclared' => ~Doomed(r)
  BY <1>1, <1>2 DEF Undeclared, Doomed
<1> QED BY <1>1, <1>2, <1>3, <1>5, <1>7, <1>8, <1>9, <1>10, Assemble


-------------------------------------------------------------------------------
(* Transactions *)

LEMMA Inserts ==
  ASSUME IInv, NEW r \in Requests, InsertTx(r)
  PROVE  IInv'
<1> DEFINE x == [side |-> op[r], qty |-> quantity[r]]
           label == pc'[r]
<1>1. TypeOK /\ Local(r) /\ pc[r] = "insert" /\ Active(r)
  BY DEF IInv, InsertTx, Active, Ended
<1>2. /\ UNCHANGED <<holding, tickets, uncertain, op, target, quantity, before, seen, base>>
      /\ txs' = [txs EXCEPT ![r] = x] /\ old' = [old EXCEPT ![r] = txs'[r]]
  BY DEF InsertTx, control, request
<1>3. \/ label = "create" /\ UNCHANGED excuses
      \/ label = "reject" /\ Fault({r})
  BY <1>1 DEF InsertTx, Goto, TypeOK
<1>4. pc' = [pc EXCEPT ![r] = label] /\ \A s \in Requests \ {r} : pc'[s] = pc[s] /\ old'[s] = old[s]
  BY <1>1 DEF InsertTx, Goto, TypeOK, IInv
<1>5. op[r] \in {"buy", "sell"} /\ target[r] = r /\ quantity[r] > 0 /\ r \in tickets /\ txs[r] = NoTx
  BY <1>1 DEF Local, OpAt, Ticketed
<1>6. x \in Txs
  BY <1>1, <1>5, QuantityAssumption DEF TypeOK, Txs
<1> HIDE DEF x
<1>7. txs'[r] = x /\ old'[r] = x /\ txs \in [Requests -> Txs \cup {NoTx}]
  BY <1>1, <1>2, TypeFacts DEF IInv
<1>8. excuses \subseteq excuses' /\ excuses' \subseteq {"restore", "fault", "unannounced", "overlap"}
  BY <1>1, <1>3, FaultFacts DEF TypeOK
<1>9. label \in Labels /\ Active(r)'
  BY <1>3 DEF Labels, Active, Ended, Applications
<1>10. TypeOK' /\ (old \in [Requests -> Txs \cup {NoTx}])' /\ (seen \in [Requests -> Holdings])'
       /\ DOMAIN before' = Requests
  <2>1. txs' \in [Requests -> Txs \cup {NoTx}] /\ pc' \in [Requests -> Labels]
        /\ old' \in [Requests -> Txs \cup {NoTx}]
    BY <1>1, <1>2, <1>4, <1>6, <1>7, <1>9 DEF TypeOK, IInv
  <2> QED BY <1>1, <1>2, <1>8, <2>1 DEF IInv, TypeOK, Txs
<1>11. Local(r)'
  <2>1. OpAt(r)' /\ Covered(r)'
    BY <1>2, <1>3, <1>5, WriteLabels
       DEF OpAt, Covered, Applications, Creating, WithNew, Restoring
  <2> QED BY <1>2, <1>3, <1>5, <1>6, <1>7, <2>1
          DEF Local, Active, Creating, WithOld, WithNew, Restoring
<1>12. \A s \in Requests : Local(s)'
  <2>1. \A s \in Requests \ {r} : txs'[s] = txs[s] BY <1>2, <1>7
  <2> QED BY <1>2, <1>4, <1>8, <1>11, <2>1, LocalStays
<1>13. ASSUME Alone(r) PROVE Alone(r)'
  BY <1>2, <1>3, <1>4, <1>5, <1>7, <1>13, WriteLabels DEF Alone, Active, Creating, WithNew
<1>14. ASSUME Aligned(r), label = "create" PROVE Aligned(r)'
  <2>1. Missing(r) = 0 /\ Missing(r)' = Signed(x)
    BY <1>1, <1>7, <1>14 DEF Missing, Creating, WithNew
  <2>2. Recorded' = Recorded - Signed(txs[r]) + Signed(x)
    BY <1>2, <1>6, <1>7, RecordedChanges
  <2>3. Signed(txs[r]) = 0 /\ Signed(x) \in Int
    BY <1>5, <1>6, SignedType
  <2>4. holding.qty \in Int /\ base \in Int /\ Recorded \in Int
    BY <1>1, TypeFacts
  <2> QED BY <1>1, <1>2, <1>14, <2>1, <2>2, <2>3, <2>4 DEF Aligned
<1>15. ASSUME Kept(r), label = "create" PROVE Kept(r)'
  <2>1. [txs' EXCEPT ![r] = NoTx] = txs
    BY <1>2, <1>5, <1>7
  <2> QED BY <1>1, <1>2, <1>5, <1>15, <2>1 DEF Kept, Creating
<1>16. excuses' = {} => label = "create"
  BY <1>3, FaultFacts
<1>17. label = "reject" => Doomed(r)'
  BY <1>2, <1>5 DEF Doomed
<1>18. ~Doomed(r) /\ pc[r] # "restore"
  BY <1>1 DEF Doomed
<1> HIDE DEF label
<1> QED BY <1>1, <1>2, <1>3, <1>4, <1>8, <1>9, <1>10, <1>12, <1>13, <1>14, <1>15, <1>16, <1>17,
           <1>18, Assemble DEF label

LEMMA Rollbacks ==
  ASSUME IInv, NEW r \in Requests, Rollback(r)
  PROVE  IInv'
<1>1. TypeOK /\ Local(r) /\ pc[r] = "rollback" /\ Active(r)
  BY DEF IInv, Rollback, Active, Ended
<1>2. /\ UNCHANGED <<holding, tickets, uncertain, op, target, quantity, before, old, seen, base, excuses>>
      /\ txs' = [txs EXCEPT ![r] = NoTx]
      /\ pc' = [pc EXCEPT ![r] = "reject"]
  BY DEF Rollback, Goto, control, request
<1>3. pc'[r] = "reject" /\ \A s \in Requests \ {r} : pc'[s] = pc[s]
  BY <1>1, <1>2 DEF TypeOK
<1>4. op[r] \in {"buy", "sell"} /\ target[r] = r /\ quantity[r] > 0 /\ r \in tickets /\ old[r] \in Txs
  BY <1>1 DEF Local, OpAt, Ticketed, Creating
<1>5. txs \in [Requests -> Txs \cup {NoTx}] /\ \A s \in Requests : txs[s] = NoTx => txs'[s] = NoTx
  BY <1>1, <1>2, TypeFacts
<1>6. TypeOK' /\ (old \in [Requests -> Txs \cup {NoTx}])' /\ (seen \in [Requests -> Holdings])'
      /\ DOMAIN before' = Requests /\ Active(r)'
  <2>1. txs' \in [Requests -> Txs \cup {NoTx}] /\ pc' \in [Requests -> Labels]
    BY <1>1, <1>2, <1>5 DEF TypeOK, Labels
  <2> QED BY <1>1, <1>2, <1>3, <2>1 DEF IInv, TypeOK, Txs, Active, Ended
<1>7. Local(r)'
  BY <1>1, <1>2, <1>3, <1>4, WriteLabels DEF Local, OpAt, Covered, Applications, Creating, WithOld,
     WithNew, Restoring
<1>8. \A s \in Requests : Local(s)'
  BY <1>2, <1>3, <1>5, <1>7, LocalStays
<1>9. ASSUME Alone(r) PROVE Alone(r)'
  BY <1>2, <1>3, <1>9, WriteLabels DEF Alone, Active, Creating, WithOld, WithNew
<1>10. ASSUME Alone(r), Aligned(r) PROVE Aligned(r)'
  <2>1. Missing(r) = Signed(old[r]) /\ Missing(r)' = 0
    BY <1>1, <1>3 DEF Missing, Creating, WithNew
  <2>2. Recorded' = Recorded - Signed(txs[r]) + Signed(NoTx)
    BY <1>2, <1>5, RecordedChanges
  <2>3. Signed(txs[r]) = Signed(old[r]) /\ Signed(old[r]) \in Int /\ Signed(NoTx) = 0
    BY <1>1, <1>4, <1>10, SignedType DEF Alone, Creating
  <2>4. holding.qty \in Int /\ base \in Int /\ Recorded \in Int
    BY <1>1, TypeFacts
  <2>5. \A h, b, c, d, e \in Int : h + d = b + c /\ e = c - d + 0 => h + 0 = b + e
    OBVIOUS
  <2>6. holding.qty + Missing(r) = base + Recorded
    BY <1>1, <1>10 DEF Aligned
  <2> QED BY <1>2, <2>1, <2>2, <2>3, <2>4, <2>6 DEF Aligned
<1>11. ASSUME Kept(r) PROVE Kept(r)'
  BY <1>1, <1>2, <1>3, <1>4, <1>11 DEF Kept, Creating
<1>12. Doomed(r)' /\ pc[r] # "restore"
  BY <1>1, <1>2, <1>3, <1>4 DEF Doomed
<1> QED BY <1>1, <1>2, <1>3, <1>6, <1>8, <1>9, <1>10, <1>11, <1>12, Assemble

LEMMA Loads ==
  ASSUME IInv, NEW r \in Requests, LoadTx(r)
  PROVE  IInv'
<1> DEFINE label == pc'[r]
<1>1. TypeOK /\ Local(r) /\ pc[r] = "load" /\ Active(r) /\ target[r] \in Requests
  BY DEF IInv, LoadTx, Active, Ended, TypeOK
<1>2. /\ UNCHANGED <<txs, holding, tickets, uncertain, op, target, quantity, before, seen, base, excuses>>
      /\ old' = [old EXCEPT ![r] = txs[target[r]]]
  BY DEF LoadTx, database, control, request
<1>3. label = IF old'[r] = NoTx THEN "reject" ELSE IF op[r] = "edit" THEN "reverse" ELSE "undo"
  BY <1>1 DEF LoadTx, Goto, TypeOK
<1>4. pc' = [pc EXCEPT ![r] = label] /\ old'[r] = txs[target[r]]
      /\ \A s \in Requests \ {r} : pc'[s] = pc[s] /\ old'[s] = old[s]
  BY <1>1, <1>2 DEF LoadTx, Goto, TypeOK, IInv
<1>5. op[r] \in {"edit", "delete"}
  BY <1>1 DEF Local, OpAt
<1>6. txs[target[r]] \in Txs \cup {NoTx}
  BY <1>1, TypeFacts
<1>7. label \in {"reject", "reverse", "undo"} /\ (label # "reject" => old'[r] \in Txs)
      /\ (label = "reverse" => op[r] = "edit") /\ (label = "undo" => op[r] = "delete")
  BY <1>3, <1>4, <1>5, <1>6
<1>8. TypeOK' /\ (old \in [Requests -> Txs \cup {NoTx}])' /\ (seen \in [Requests -> Holdings])'
      /\ DOMAIN before' = Requests /\ Active(r)'
  <2>1. pc' \in [Requests -> Labels] /\ old' \in [Requests -> Txs \cup {NoTx}]
    BY <1>1, <1>2, <1>4, <1>6, <1>7 DEF TypeOK, Labels, Applications, IInv
  <2> QED BY <1>1, <1>2, <1>7, <2>1 DEF IInv, TypeOK, Active, Ended
<1>9. Local(r)'
  <2>1. OpAt(r)' /\ Covered(r)'
    BY <1>2, <1>7, WriteLabels DEF OpAt, Covered, Applications, Creating, WithNew, Restoring
  <2>2. quantity[r] > 0 /\ (op[r] \in Ticketed => r \in tickets)
    BY <1>1 DEF Local
  <2> QED BY <1>2, <1>7, <2>1, <2>2 DEF Local, Creating, WithOld, WithNew, Restoring
<1>10. \A s \in Requests : Local(s)'
  BY <1>2, <1>4, <1>9, LocalStays
<1>11. ASSUME Alone(r) PROVE Alone(r)'
  BY <1>2, <1>4, <1>7, <1>11, WriteLabels DEF Alone, Active, Creating, WithOld, WithNew
<1>12. Aligned(r) => Aligned(r)'
  <2>1. Missing(r) = 0 /\ Missing(r)' = 0 BY <1>1, <1>7 DEF Missing, Creating, WithNew
  <2> QED BY <1>1, <1>2, <1>7, <2>1, RecordedStays DEF Aligned
<1>13. Kept(r) => Kept(r)'
  BY <1>1, <1>2, <1>7 DEF Kept, Creating
<1>14. ~Doomed(r) /\ pc[r] # "restore"
  BY <1>1 DEF Doomed
<1> HIDE DEF label
<1> QED BY <1>1, <1>2, <1>4, <1>8, <1>10, <1>11, <1>12, <1>13, <1>14, Assemble


LEMMA Updates ==
  ASSUME IInv, NEW r \in Requests, UpdateTx(r)
  PROVE  IInv'
<1> DEFINE t == target[r]
           x == [txs[t] EXCEPT !.qty = quantity[r]]
           label == pc'[r]
<1>1. TypeOK /\ Local(r) /\ pc[r] = "update" /\ Active(r) /\ t \in Requests
  BY DEF IInv, UpdateTx, Active, Ended, TypeOK
<1>2. UNCHANGED <<holding, tickets, uncertain, op, target, quantity, before, old, seen, base, excuses>>
  BY DEF UpdateTx, control, request
<1>3. \/ txs[t] # NoTx /\ label = "forward" /\ txs' = [txs EXCEPT ![t] = x]
      \/ txs[t] = NoTx /\ label = "reapply" /\ txs' = txs
  BY <1>1 DEF UpdateTx, Goto, TypeOK
<1>4. pc' = [pc EXCEPT ![r] = label] /\ \A s \in Requests \ {r} : pc'[s] = pc[s]
  BY <1>1 DEF UpdateTx, Goto, TypeOK
<1>5. op[r] = "edit" /\ quantity[r] \in Nat \ {0} /\ r \in tickets /\ old[r] \in Txs
  BY <1>1, QuantityAssumption DEF Local, OpAt, Ticketed, WithOld, TypeOK
<1>6. txs \in [Requests -> Txs \cup {NoTx}] /\ (txs[t] # NoTx => x \in Txs)
  <2>1. txs \in [Requests -> Txs \cup {NoTx}] BY <1>1, TypeFacts
  <2> QED BY <1>1, <1>5, <2>1 DEF Txs
<1> HIDE DEF x
<1>7. txs' \in [Requests -> Txs \cup {NoTx}] /\ \A s \in Requests : txs[s] = NoTx => txs'[s] = NoTx
  BY <1>1, <1>3, <1>6
<1>8. TypeOK' /\ (old \in [Requests -> Txs \cup {NoTx}])' /\ (seen \in [Requests -> Holdings])'
      /\ DOMAIN before' = Requests /\ Active(r)'
  <2>1. label \in Labels \ Ended BY <1>3 DEF Labels, Applications, Ended
  <2> QED BY <1>1, <1>2, <1>4, <1>7, <2>1 DEF IInv, TypeOK, Txs, Active
<1>9. Local(r)'
  <2>1. OpAt(r)' /\ Covered(r)'
    BY <1>2, <1>3, <1>5, WriteLabels DEF OpAt, Covered, Applications, Creating, WithNew, Restoring
  <2> QED BY <1>2, <1>3, <1>5, <2>1 DEF Local, Creating, WithOld, WithNew, Restoring
<1>10. \A s \in Requests : Local(s)'
  BY <1>2, <1>4, <1>7, <1>9, LocalStays
<1>11. ASSUME Alone(r)
       PROVE  txs[t] = old[r] /\ label = "forward" /\ x = Version(r, "forward")
  <2>1. txs[t] = old[r] BY <1>1, <1>11 DEF Alone, WithOld
  <2>2. NoTx \notin Txs BY DEF NoTx, Txs
  <2> QED BY <1>3, <1>5, <2>1, <2>2 DEF Version, x
<1>12. Version(r, "forward")' = Version(r, "forward") /\ Version(r, "forward") \in Txs
  BY <1>1, <1>2, <1>5, DeltaFacts DEF Version, IInv
<1>13. ASSUME Alone(r) PROVE Alone(r)'
  <2>1. txs'[t] = x /\ label = "forward" BY <1>1, <1>3, <1>6, <1>11, <1>13
  <2> QED BY <1>2, <1>4, <1>11, <1>12, <1>13, <2>1, WriteLabels
          DEF Alone, Active, Creating, WithOld, WithNew
<1>14. ASSUME Alone(r), Aligned(r) PROVE Aligned(r)'
  <2>1. label = "forward" /\ txs[t] = old[r] /\ x = Version(r, "forward")
    BY <1>11, <1>14
  <2>2. Missing(r) = Signed(old[r]) /\ Missing(r)' = Signed(x)
    BY <1>1, <1>12, <2>1 DEF Missing, Creating, WithNew
  <2>3. Recorded' = Recorded - Signed(old[r]) + Signed(x)
    <3>1. txs' = [txs EXCEPT ![t] = x] /\ x \in Txs BY <1>3, <1>12, <2>1
    <3> QED BY <1>1, <1>6, <2>1, <3>1, RecordedChanges
  <2>4. holding.qty \in Int /\ base \in Int /\ Recorded \in Int
        /\ Signed(old[r]) \in Int /\ Signed(x) \in Int
    BY <1>1, <1>5, <1>12, <2>1, TypeFacts, SignedType
  <2>5. \A h, b, c, d, e, f \in Int : h + d = b + c /\ f = c - d + e => h + e = b + f
    OBVIOUS
  <2>6. holding.qty + Missing(r) = base + Recorded
    BY <1>1, <1>14 DEF Aligned
  <2> QED BY <1>2, <2>2, <2>3, <2>4, <2>5, <2>6 DEF Aligned
<1>15. Kept(r)' /\ ~Doomed(r) /\ pc[r] # "restore"
  BY <1>1, <1>2, <1>5 DEF Kept, Doomed
<1> HIDE DEF label, t
<1> QED BY <1>1, <1>2, <1>4, <1>8, <1>10, <1>13, <1>14, <1>15, Assemble

LEMMA Restores ==
  ASSUME IInv, NEW r \in Requests, RestoreTx(r)
  PROVE  IInv'
<1> DEFINE t == target[r]
           x == [txs[t] EXCEPT !.qty = old[r].qty]
<1>1. TypeOK /\ Local(r) /\ pc[r] = "restore" /\ Active(r) /\ t \in Requests
  BY DEF IInv, RestoreTx, Active, Ended, TypeOK
<1>2. /\ UNCHANGED <<holding, tickets, uncertain, op, target, quantity, before, old, seen, base>>
      /\ txs' = IF txs[t] # NoTx THEN [txs EXCEPT ![t] = x] ELSE txs
      /\ excuses' = excuses \cup {"restore"}
      /\ pc' = [pc EXCEPT ![r] = "redo"]
  BY DEF RestoreTx, Goto, control, request
<1>3. pc'[r] = "redo" /\ \A s \in Requests \ {r} : pc'[s] = pc[s]
  BY <1>1, <1>2 DEF TypeOK
<1>4. op[r] = "edit" /\ quantity[r] > 0 /\ r \in tickets /\ old[r] \in Txs
  BY <1>1 DEF Local, OpAt, Ticketed, Restoring
<1>5. txs \in [Requests -> Txs \cup {NoTx}] /\ (txs[t] # NoTx => x \in Txs)
  <2>1. txs \in [Requests -> Txs \cup {NoTx}] BY <1>1, TypeFacts
  <2> QED BY <1>1, <1>4, <2>1 DEF Txs
<1> HIDE DEF x
<1>6. txs' \in [Requests -> Txs \cup {NoTx}] /\ \A s \in Requests : txs[s] = NoTx => txs'[s] = NoTx
  BY <1>1, <1>2, <1>5
<1>7. TypeOK' /\ (old \in [Requests -> Txs \cup {NoTx}])' /\ (seen \in [Requests -> Holdings])'
      /\ DOMAIN before' = Requests /\ Active(r)'
  <2>1. pc' \in [Requests -> Labels] BY <1>1, <1>2 DEF TypeOK, Labels, Applications
  <2>2. excuses' \subseteq {"restore", "fault", "unannounced", "overlap"} BY <1>1, <1>2 DEF TypeOK
  <2> QED BY <1>1, <1>2, <1>3, <1>6, <2>1, <2>2 DEF IInv, TypeOK, Txs, Active, Ended
<1>8. Local(r)'
  BY <1>1, <1>2, <1>3, <1>4, WriteLabels DEF Local, OpAt, Covered, Applications, Creating, WithOld,
     WithNew, Restoring
<1>9. \A s \in Requests : Local(s)'
  BY <1>2, <1>3, <1>6, <1>8, LocalStays
<1>10. ASSUME Alone(r) PROVE Alone(r)'
  BY <1>2, <1>3, <1>10, WriteLabels DEF Alone, Active, Creating, WithOld, WithNew
<1>11. Doomed(r)' /\ excuses' # {}
  BY <1>2, <1>3, <1>4 DEF Doomed
<1> QED BY <1>1, <1>2, <1>3, <1>7, <1>9, <1>10, <1>11, Assemble

LEMMA Deletes ==
  ASSUME IInv, NEW r \in Requests, DeleteTx(r)
  PROVE  IInv'
<1> DEFINE t == target[r]
<1>1. TypeOK /\ Local(r) /\ pc[r] = "delete_tx" /\ Active(r) /\ t \in Requests
  BY DEF IInv, DeleteTx, Active, Ended, TypeOK
<1>2. /\ UNCHANGED <<holding, tickets, uncertain, op, target, quantity, before, old, seen, base, excuses>>
      /\ txs' = [txs EXCEPT ![t] = NoTx]
      /\ pc' = [pc EXCEPT ![r] = "close"]
  BY DEF DeleteTx, Goto, control, request
<1>3. pc'[r] = "close" /\ \A s \in Requests \ {r} : pc'[s] = pc[s]
  BY <1>1, <1>2 DEF TypeOK
<1>4. op[r] = "delete" /\ quantity[r] > 0 /\ r \in tickets /\ old[r] \in Txs
  BY <1>1 DEF Local, OpAt, Ticketed, WithOld
<1>5. txs \in [Requests -> Txs \cup {NoTx}] /\ \A s \in Requests : txs[s] = NoTx => txs'[s] = NoTx
  BY <1>1, <1>2, TypeFacts
<1>6. TypeOK' /\ (old \in [Requests -> Txs \cup {NoTx}])' /\ (seen \in [Requests -> Holdings])'
      /\ DOMAIN before' = Requests /\ Active(r)'
  <2>1. txs' \in [Requests -> Txs \cup {NoTx}] /\ pc' \in [Requests -> Labels]
    BY <1>1, <1>2, <1>5 DEF TypeOK, Labels
  <2> QED BY <1>1, <1>2, <1>3, <2>1 DEF IInv, TypeOK, Txs, Active, Ended
<1>7. Local(r)'
  BY <1>1, <1>2, <1>3, <1>4, WriteLabels DEF Local, OpAt, Covered, Applications, Creating, WithOld,
     WithNew, Restoring
<1>8. \A s \in Requests : Local(s)'
  BY <1>2, <1>3, <1>5, <1>7, LocalStays
<1>9. ASSUME Alone(r) PROVE Alone(r)'
  BY <1>2, <1>3, <1>9, WriteLabels DEF Alone, Active, Creating, WithOld, WithNew
<1>10. ASSUME Alone(r), Aligned(r) PROVE Aligned(r)'
  <2>1. Missing(r) = Signed(old[r]) /\ Missing(r)' = 0
    BY <1>1, <1>3 DEF Missing, Creating, WithNew
  <2>2. Recorded' = Recorded - Signed(txs[t]) + Signed(NoTx)
    BY <1>1, <1>2, <1>5, RecordedChanges
  <2>3. Signed(txs[t]) = Signed(old[r]) /\ Signed(old[r]) \in Int /\ Signed(NoTx) = 0
    BY <1>1, <1>4, <1>10, SignedType DEF Alone, WithOld
  <2>4. holding.qty \in Int /\ base \in Int /\ Recorded \in Int
    BY <1>1, TypeFacts
  <2>6. holding.qty + Missing(r) = base + Recorded
    BY <1>1, <1>10 DEF Aligned
  <2> QED BY <1>2, <2>1, <2>2, <2>3, <2>4, <2>6 DEF Aligned
<1>11. Kept(r)' /\ ~Doomed(r) /\ pc[r] # "restore"
  BY <1>1, <1>3 DEF Kept, Creating, Doomed
<1> QED BY <1>1, <1>2, <1>3, <1>6, <1>8, <1>9, <1>10, <1>11, Assemble


-------------------------------------------------------------------------------
(* Holdings *)

LEMMA Posts ==
  ASSUME IInv, NEW r \in Requests, PostHolding(r)
  PROVE  IInv'
<1>1. TypeOK /\ Local(r) /\ pc[r] = "post" /\ Active(r)
  BY DEF IInv, PostHolding, Active, Ended
<1>2. /\ UNCHANGED <<txs, holding, tickets, uncertain, op, target, quantity, before, old, base, excuses>>
      /\ pc' = [pc EXCEPT ![r] = "post_write"] /\ seen' = [seen EXCEPT ![r] = holding]
  BY DEF PostHolding, Goto, database, control, request
<1>3. /\ pc'[r] = "post_write" /\ seen'[r] = holding
      /\ \A s \in Requests \ {r} : pc'[s] = pc[s] /\ seen'[s] = seen[s]
  BY <1>1, <1>2 DEF TypeOK, IInv
<1>4. op[r] = "post_holding" /\ quantity[r] > 0
  BY <1>1 DEF Local, OpAt
<1>5. TypeOK' /\ (old \in [Requests -> Txs \cup {NoTx}])' /\ (seen \in [Requests -> Holdings])'
      /\ DOMAIN before' = Requests /\ Active(r)'
  <2>1. pc' \in [Requests -> Labels] BY <1>1, <1>2 DEF TypeOK, Labels
  <2>2. (seen \in [Requests -> Holdings])' BY <1>1, <1>2, TypeFacts DEF IInv, Holdings
  <2> QED BY <1>1, <1>2, <1>3, <2>1, <2>2 DEF IInv, TypeOK, Active, Ended
<1>6. Local(r)'
  BY <1>2, <1>3, <1>4, WriteLabels DEF Local, OpAt, Covered, Applications, Creating, WithOld,
     WithNew, Restoring, Ticketed
<1>7. \A s \in Requests : Local(s)'
  BY <1>2, <1>3, <1>6, LocalStays
<1>8. ASSUME Alone(r) PROVE Alone(r)'
  BY <1>2, <1>3, <1>8 DEF Alone, Active, Creating, WithOld, WithNew
<1>9. Aligned(r) => Aligned(r)'
  <2>1. Missing(r) = 0 /\ Missing(r)' = 0 BY <1>1, <1>3 DEF Missing, Creating, WithNew
  <2> QED BY <1>1, <1>2, <1>3, <2>1, RecordedStays DEF Aligned
<1>10. (Kept(r) => Kept(r)') /\ ~Doomed(r) /\ pc[r] # "restore"
  BY <1>1, <1>2, <1>3 DEF Kept, Creating, Doomed
<1> QED BY <1>1, <1>2, <1>3, <1>5, <1>7, <1>8, <1>9, <1>10, Assemble

LEMMA PostWrites ==
  ASSUME IInv, NEW r \in Requests, PostHoldingWrite(r)
  PROVE  IInv'
<1> DEFINE label == pc'[r]
<1>1. TypeOK /\ Local(r) /\ pc[r] = "post_write" /\ Active(r) /\ pc[r] \in Writing
  BY WriteLabels DEF IInv, PostHoldingWrite, Active, Ended
<1>2. UNCHANGED <<txs, tickets, uncertain, op, target, quantity, before, old, seen, excuses>>
  BY DEF PostHoldingWrite, control, request
<1>3. \/ /\ label = "close" /\ seen[r].id = holding.id
         /\ holding' = [id  |-> IF holding = NoHolding THEN <<r, "post">> ELSE holding.id,
                        qty |-> seen[r].qty + quantity[r]]
         /\ base' = base + quantity[r]
      \/ label = "reject" /\ seen[r].id # holding.id /\ UNCHANGED <<holding, base>>
  BY <1>1 DEF PostHoldingWrite, Goto, TypeOK
<1>4. pc' = [pc EXCEPT ![r] = label] /\ \A s \in Requests \ {r} : pc'[s] = pc[s]
  BY <1>1 DEF PostHoldingWrite, Goto, TypeOK
<1>5. quantity[r] \in Nat \ {0} /\ seen[r].qty \in Nat /\ base \in Int /\ holding \in Holdings
  <2>1. seen[r].qty \in Nat BY DEF IInv, Holdings, NoHolding
  <2> QED BY <1>1, <2>1, TypeFacts, QuantityAssumption DEF Local, TypeOK
<1>6. holding' \in Holdings /\ base' \in Int
  <2>1. seen[r].qty + quantity[r] \in Nat \ {0} BY <1>5
  <2>2. (IF holding = NoHolding THEN <<r, "post">> ELSE holding.id) \in Rows
    BY <1>5 DEF Holdings, Rows
  <2> QED BY <1>3, <1>5, <2>1, <2>2 DEF Holdings
<1>7. TypeOK' /\ (old \in [Requests -> Txs \cup {NoTx}])' /\ (seen \in [Requests -> Holdings])'
      /\ DOMAIN before' = Requests /\ Active(r)'
  <2>1. label \in Labels \ Ended BY <1>3 DEF Labels, Ended
  <2>2. pc' \in [Requests -> Labels] BY <1>1, <1>4, <2>1 DEF TypeOK
  <2> QED BY <1>1, <1>2, <1>6, <2>1, <2>2 DEF IInv, TypeOK, Active, Holdings
<1>8. Local(r)'
  BY <1>1, <1>2, <1>3, WriteLabels DEF Local, OpAt, Covered, Applications, Creating, WithOld,
     WithNew, Restoring
<1>9. \A s \in Requests : Local(s)'
  BY <1>2, <1>4, <1>8, LocalStays
<1>10. ASSUME Alone(r) PROVE Alone(r)'
  BY <1>2, <1>3, <1>4, <1>10, WriteLabels DEF Alone, Active, Creating, WithOld, WithNew
<1>11. ASSUME Alone(r), Aligned(r) PROVE Aligned(r)'
  <2>1. seen[r] = holding BY <1>1, <1>11 DEF Alone
  <2>2. label = "close" /\ holding'.qty = holding.qty + quantity[r] /\ base' = base + quantity[r]
    BY <1>3, <2>1
  <2>3. Missing(r) = 0 /\ Missing(r)' = 0
    BY <1>1, <2>2 DEF Missing, Creating, WithNew
  <2>4. holding.qty \in Int /\ Recorded \in Int /\ Recorded' = Recorded
    BY <1>1, <1>2, TypeFacts, RecordedStays
  <2>5. holding.qty + 0 = base + Recorded BY <1>1, <1>11, <2>3 DEF Aligned
  <2>6. \A h, b, c, q \in Int : h + 0 = b + c => h + q + 0 = b + q + c OBVIOUS
  <2> QED BY <1>5, <2>2, <2>3, <2>4, <2>5, <2>6 DEF Aligned
<1>12. Alone(r) => Kept(r)'
  BY <1>1, <1>3 DEF Kept, Creating, Alone
<1>13. ~Doomed(r) /\ pc[r] # "restore"
  BY <1>1 DEF Doomed
<1> HIDE DEF label
<1> QED BY <1>1, <1>2, <1>4, <1>7, <1>9, <1>10, <1>11, <1>12, <1>13, Assemble

LEMMA Patches ==
  ASSUME IInv, NEW r \in Requests, PatchHolding(r)
  PROVE  IInv'
<1> DEFINE label == pc'[r]
<1>1. TypeOK /\ Local(r) /\ pc[r] = "patch" /\ Active(r)
  BY DEF IInv, PatchHolding, Active, Ended
<1>2. UNCHANGED <<txs, tickets, uncertain, op, target, quantity, before, old, seen, excuses>>
  BY DEF PatchHolding, control, request
<1>3. \/ /\ label = "close" /\ holding # NoHolding
         /\ holding' = [holding EXCEPT !.qty = quantity[r]]
         /\ base' = base + quantity[r] - holding.qty
      \/ label = "reject" /\ holding = NoHolding /\ UNCHANGED <<holding, base>>
  BY <1>1 DEF PatchHolding, Goto, TypeOK
<1>4. pc' = [pc EXCEPT ![r] = label] /\ \A s \in Requests \ {r} : pc'[s] = pc[s]
  BY <1>1 DEF PatchHolding, Goto, TypeOK
<1>5. quantity[r] \in Nat \ {0} /\ base \in Int /\ holding \in Holdings /\ holding.qty \in Int
  BY <1>1, TypeFacts, QuantityAssumption DEF Local, TypeOK
<1>6. holding' \in Holdings /\ base' \in Int
  BY <1>3, <1>5 DEF Holdings
<1>7. TypeOK' /\ (old \in [Requests -> Txs \cup {NoTx}])' /\ (seen \in [Requests -> Holdings])'
      /\ DOMAIN before' = Requests /\ Active(r)'
  <2>1. label \in Labels \ Ended BY <1>3 DEF Labels, Ended
  <2>2. pc' \in [Requests -> Labels] BY <1>1, <1>4, <2>1 DEF TypeOK
  <2> QED BY <1>1, <1>2, <1>6, <2>1, <2>2 DEF IInv, TypeOK, Active, Holdings
<1>8. Local(r)'
  BY <1>1, <1>2, <1>3, WriteLabels DEF Local, OpAt, Covered, Applications, Creating, WithOld,
     WithNew, Restoring
<1>9. \A s \in Requests : Local(s)'
  BY <1>2, <1>4, <1>8, LocalStays
<1>10. ASSUME Alone(r) PROVE Alone(r)'
  BY <1>2, <1>3, <1>4, <1>10, WriteLabels DEF Alone, Active, Creating, WithOld, WithNew
<1>11. ASSUME Aligned(r) PROVE Aligned(r)'
  <2>1. Missing(r) = 0 /\ Missing(r)' = 0
    BY <1>1, <1>3 DEF Missing, Creating, WithNew
  <2>2. Recorded \in Int /\ Recorded' = Recorded
    BY <1>1, <1>2, TypeFacts, RecordedStays
  <2>3. holding.qty + 0 = base + Recorded BY <1>1, <1>11, <2>1 DEF Aligned
  <2>4. CASE label = "close"
    <3>1. holding'.qty = quantity[r] /\ base' = base + quantity[r] - holding.qty
      BY <1>3, <1>5, <2>4 DEF Holdings
    <3>2. \A h, b, c, q \in Int : h + 0 = b + c => q + 0 = b + q - h + c OBVIOUS
    <3> QED BY <1>5, <2>1, <2>2, <2>3, <3>1, <3>2 DEF Aligned
  <2>5. CASE label = "reject"
    BY <1>3, <2>1, <2>2, <2>3, <2>5 DEF Aligned
  <2> QED BY <1>3, <2>4, <2>5
<1>12. Kept(r) => Kept(r)'
  BY <1>1, <1>2, <1>3 DEF Kept, Creating
<1>13. ~Doomed(r) /\ pc[r] # "restore"
  BY <1>1 DEF Doomed
<1> HIDE DEF label
<1> QED BY <1>1, <1>2, <1>4, <1>7, <1>9, <1>10, <1>11, <1>12, <1>13, Assemble


LEMMA Finds ==
  ASSUME IInv, NEW r \in Requests, FindHolding(r)
  PROVE  IInv'
<1> DEFINE label == pc'[r]
<1>1. TypeOK /\ Local(r) /\ pc[r] = "find" /\ Active(r)
  BY DEF IInv, FindHolding, Active, Ended
<1>2. /\ UNCHANGED <<txs, holding, tickets, uncertain, op, target, quantity, before, old, base, excuses>>
      /\ seen' = [seen EXCEPT ![r] = holding]
  BY DEF FindHolding, database, control, request
<1>3. /\ pc' = [pc EXCEPT ![r] = label] /\ label \in {"reject", "cascade"} /\ seen'[r] = holding
      /\ \A s \in Requests \ {r} : pc'[s] = pc[s] /\ seen'[s] = seen[s]
  BY <1>1, <1>2 DEF FindHolding, Goto, TypeOK, IInv
<1>4. op[r] = "delete_holding" /\ quantity[r] > 0
  BY <1>1 DEF Local, OpAt
<1>5. TypeOK' /\ (old \in [Requests -> Txs \cup {NoTx}])' /\ (seen \in [Requests -> Holdings])'
      /\ DOMAIN before' = Requests /\ Active(r)'
  <2>1. pc' \in [Requests -> Labels] BY <1>1, <1>3 DEF TypeOK, Labels
  <2>2. (seen \in [Requests -> Holdings])' BY <1>1, <1>2, TypeFacts DEF IInv, Holdings
  <2> QED BY <1>1, <1>2, <1>3, <2>1, <2>2 DEF IInv, TypeOK, Active, Ended
<1>6. Local(r)'
  BY <1>2, <1>3, <1>4, WriteLabels DEF Local, OpAt, Covered, Applications, Creating, WithOld,
     WithNew, Restoring, Ticketed
<1>7. \A s \in Requests : Local(s)'
  BY <1>2, <1>3, <1>6, LocalStays
<1>8. ASSUME Alone(r) PROVE Alone(r)'
  BY <1>2, <1>3, <1>8 DEF Alone, Active, Creating, WithOld, WithNew
<1>9. Aligned(r) => Aligned(r)'
  <2>1. Missing(r) = 0 /\ Missing(r)' = 0 BY <1>1, <1>3 DEF Missing, Creating, WithNew
  <2> QED BY <1>1, <1>2, <1>3, <2>1, RecordedStays DEF Aligned
<1>10. (Kept(r) => Kept(r)') /\ ~Doomed(r) /\ pc[r] # "restore"
  BY <1>1, <1>2, <1>3 DEF Kept, Creating, Doomed
<1> HIDE DEF label
<1> QED BY <1>1, <1>2, <1>3, <1>5, <1>7, <1>8, <1>9, <1>10, Assemble

LEMMA Cascades ==
  ASSUME IInv, NEW r \in Requests, Cascade(r)
  PROVE  IInv'
<1>1. TypeOK /\ Local(r) /\ pc[r] = "cascade" /\ Active(r) /\ pc[r] \in Writing
  BY WriteLabels DEF IInv, Cascade, Active, Ended
<1>2. /\ UNCHANGED <<holding, tickets, uncertain, op, target, quantity, before, old, seen, base, excuses>>
      /\ pc' = [pc EXCEPT ![r] = "delete_row"] /\ txs' = [t \in Requests |-> NoTx]
  BY DEF Cascade, Goto, control, request
<1>3. pc'[r] = "delete_row" /\ \A s \in Requests \ {r} : pc'[s] = pc[s]
  BY <1>1, <1>2 DEF TypeOK
<1>4. op[r] = "delete_holding" /\ quantity[r] > 0
  BY <1>1 DEF Local, OpAt
<1>5. TypeOK' /\ (old \in [Requests -> Txs \cup {NoTx}])' /\ (seen \in [Requests -> Holdings])'
      /\ DOMAIN before' = Requests /\ Active(r)'
  <2>1. pc' \in [Requests -> Labels] BY <1>1, <1>2 DEF TypeOK, Labels
  <2>2. txs' \in [Requests -> Txs \cup {NoTx}] BY <1>2
  <2> QED BY <1>1, <1>2, <1>3, <2>1, <2>2 DEF IInv, TypeOK, Txs, Active, Ended
<1>6. Local(r)'
  BY <1>2, <1>3, <1>4, WriteLabels DEF Local, OpAt, Covered, Applications, Creating, WithOld,
     WithNew, Restoring, Ticketed
<1>7. \A s \in Requests : Local(s)'
  BY <1>2, <1>3, <1>6, LocalStays
<1>8. ASSUME Alone(r) PROVE Alone(r)'
  BY <1>1, <1>2, <1>3, <1>8 DEF Alone, Active, Creating, WithOld, WithNew
<1>9. Aligned(r)' /\ Kept(r)' /\ ~Doomed(r) /\ pc[r] # "restore"
  BY <1>1, <1>2, <1>3 DEF Aligned, Kept, Creating, Doomed
<1> QED BY <1>1, <1>2, <1>3, <1>5, <1>7, <1>8, <1>9, Assemble

LEMMA RowDeletes ==
  ASSUME IInv, NEW r \in Requests, DeleteRow(r)
  PROVE  IInv'
<1> DEFINE label == pc'[r]
<1>1. TypeOK /\ Local(r) /\ pc[r] = "delete_row" /\ Active(r) /\ pc[r] \in Writing
  BY WriteLabels DEF IInv, DeleteRow, Active, Ended
<1>2. UNCHANGED <<txs, tickets, uncertain, op, target, quantity, before, old, seen, excuses>>
  BY DEF DeleteRow, control, request
<1>3. \/ label = "close" /\ holding.id = seen[r].id /\ holding' = NoHolding /\ base' = 0
      \/ label = "reject" /\ holding.id # seen[r].id /\ UNCHANGED <<holding, base>>
  BY <1>1 DEF DeleteRow, Goto, TypeOK
<1>4. pc' = [pc EXCEPT ![r] = label] /\ \A s \in Requests \ {r} : pc'[s] = pc[s]
  BY <1>1 DEF DeleteRow, Goto, TypeOK
<1>5. TypeOK' /\ (old \in [Requests -> Txs \cup {NoTx}])' /\ (seen \in [Requests -> Holdings])'
      /\ DOMAIN before' = Requests /\ Active(r)'
  <2>1. label \in Labels \ Ended BY <1>3 DEF Labels, Ended
  <2>2. pc' \in [Requests -> Labels] BY <1>1, <1>4, <2>1 DEF TypeOK
  <2> QED BY <1>1, <1>2, <1>3, <2>1, <2>2 DEF IInv, TypeOK, Active
<1>6. Local(r)'
  BY <1>1, <1>2, <1>3, WriteLabels DEF Local, OpAt, Covered, Applications, Creating, WithOld,
     WithNew, Restoring
<1>7. \A s \in Requests : Local(s)'
  BY <1>2, <1>4, <1>6, LocalStays
<1>8. ASSUME Alone(r) PROVE Alone(r)'
  BY <1>2, <1>3, <1>4, <1>8, WriteLabels DEF Alone, Active, Creating, WithOld, WithNew
<1>9. ASSUME Alone(r) PROVE Aligned(r)' /\ Kept(r)'
  <2>1. label = "close" /\ holding' = NoHolding /\ base' = 0
    BY <1>1, <1>3, <1>9 DEF Alone
  <2>2. Recorded' = 0
    <3>1. \A t \in Requests : txs[t] = NoTx BY <1>1, <1>9 DEF Alone
    <3> QED BY <1>2, <3>1, NothingRecorded, RecordedStays
  <2>3. Missing(r)' = 0 BY <2>1 DEF Missing, Creating, WithNew
  <2>4. NoHolding.qty = 0 BY DEF NoHolding
  <2> QED BY <2>1, <2>2, <2>3, <2>4 DEF Aligned, Kept, Creating
<1> HIDE DEF label
<1> QED BY <1>1, <1>2, <1>4, <1>5, <1>7, <1>8, <1>9, Assemble

-------------------------------------------------------------------------------
(* Failures *)

LEMMA StorageFailures ==
  ASSUME IInv, NEW r \in Requests, StorageFails(r)
  PROVE  IInv'
<1> DEFINE label == pc'[r]
<1>1. TypeOK /\ Local(r) /\ Active(r)
  BY DEF IInv, StorageFails, Active, Ended
<1>2. UNCHANGED <<txs, holding, tickets, uncertain, op, target, quantity, before, old, seen, base>>
  BY DEF StorageFails, database, control, request
<1>3. /\ pc' = [pc EXCEPT ![r] = label] /\ \A s \in Requests \ {r} : pc'[s] = pc[s]
      /\ \/ label = "rollback" /\ pc[r] \in {"create", "create_write"}
         \/ label = "reject"
  BY <1>1 DEF StorageFails, Goto, TypeOK, Unexpected
<1>4. /\ "fault" \in excuses' /\ excuses \subseteq excuses'
      /\ excuses' \subseteq {"restore", "fault", "unannounced", "overlap"}
      /\ op[r] \notin Ticketed => "unannounced" \in excuses'
  BY <1>1, FaultFacts DEF StorageFails, TypeOK
<1>5. TypeOK' /\ (old \in [Requests -> Txs \cup {NoTx}])' /\ (seen \in [Requests -> Holdings])'
      /\ DOMAIN before' = Requests /\ Active(r)'
  <2>1. label \in Labels \ Ended BY <1>3 DEF Labels, Ended
  <2>2. pc' \in [Requests -> Labels] BY <1>1, <1>3, <2>1 DEF TypeOK
  <2> QED BY <1>1, <1>2, <1>4, <2>1, <2>2 DEF IInv, TypeOK, Active
<1>6. Local(r)'
  BY <1>1, <1>2, <1>3, WriteLabels DEF Local, OpAt, Covered, Applications, Creating, WithOld,
     WithNew, Restoring
<1>7. \A s \in Requests : Local(s)'
  BY <1>2, <1>3, <1>4, <1>6, LocalStays
<1>8. ASSUME Alone(r) PROVE Alone(r)'
  BY <1>2, <1>3, <1>8, WriteLabels DEF Alone, Active, Creating, WithOld, WithNew
<1>9. Undeclared' => Doomed(r)'
  BY <1>1, <1>2, <1>3, <1>4 DEF Undeclared, Doomed, Local
<1> HIDE DEF label
<1> QED BY <1>1, <1>2, <1>3, <1>4, <1>5, <1>7, <1>8, <1>9, Assemble

LEMMA Crashes ==
  ASSUME IInv, Crash
  PROVE  IInv'
<1> DEFINE failing == {r \in Requests : pc[r] \notin Ended}
<1>1. UNCHANGED <<txs, holding, tickets, uncertain, op, target, quantity, before, old, seen, base>>
  BY DEF Crash, database, control, request
<1>2. TypeOK /\ pc' = [r \in Requests |-> IF pc[r] \in Ended THEN pc[r] ELSE "crashed"]
  BY DEF IInv, Crash
<1>3. /\ "fault" \in excuses' /\ excuses \subseteq excuses'
      /\ excuses' \subseteq {"restore", "fault", "unannounced", "overlap"}
      /\ (\E r \in failing : op[r] \notin Ticketed) => "unannounced" \in excuses'
  <2> HIDE DEF failing
  <2> QED BY <1>2, FaultFacts DEF Crash, TypeOK, failing
<1>4. TypeOK' /\ (old \in [Requests -> Txs \cup {NoTx}])' /\ (seen \in [Requests -> Holdings])'
      /\ DOMAIN before' = Requests
  <2>1. pc' \in [Requests -> Labels] BY <1>2 DEF TypeOK, Labels, Ended
  <2> QED BY <1>1, <1>2, <1>3, <2>1 DEF IInv, TypeOK
<1>5. \A r \in Requests : ~Active(r)' /\ (pc'[r] = pc[r] \/ pc'[r] = "crashed")
  BY <1>2 DEF Active, Ended
<1>6. ASSUME NEW r \in Requests PROVE Local(r)'
  <2>1. CASE pc'[r] = pc[r]
    BY <1>1, <1>3, <2>1, LocalStays
  <2>2. CASE pc'[r] = "crashed"
    BY <2>2, WriteLabels DEF Local, OpAt, Covered, Active, Ended, Applications, Creating, WithOld,
       WithNew, Restoring
  <2> QED BY <1>5, <2>1, <2>2
<1>7. ~Undeclared'
  <2>1. PICK r \in Requests : pc[r] \notin Ended BY DEF Crash
  <2>2. pc'[r] = "crashed" BY <1>2, <2>1
  <2>3. op[r] \in Ticketed => r \in tickets BY <2>1 DEF IInv, Local, Active
  <2> QED BY <1>1, <1>3, <2>1, <2>2, <2>3 DEF Undeclared
<1> QED BY <1>3, <1>4, <1>5, <1>6, <1>7 DEF IInv, WithoutTrouble, WithoutDeclaration

-------------------------------------------------------------------------------
(* The holdings ledger: the theorems *)

LEMMA Initially ==
  ASSUME Init
  PROVE  IInv
<1>1. TypeOK
  <2>1. pc \in [Requests -> Labels] /\ quantity \in [Requests -> 0..MaxQuantity]
    BY QuantityAssumption DEF Init, Labels, Ended
  <2>2. txs \in [Requests -> [side : {"buy", "sell"}, qty : Nat \ {0}] \cup {NoTx}]
        /\ holding \in [id : Rows, qty : Nat \ {0}] \cup {NoHolding}
    BY DEF Init
  <2>3. op \in [Requests -> Operations \cup {"none"}] /\ target \in [Requests -> Requests]
    BY DEF Init
  <2>4. tickets = {} /\ uncertain = FALSE /\ base = 0 /\ excuses = {}
    BY DEF Init
  <2>5. uncertain \in BOOLEAN BY <2>4
  <2>6. base \in Int BY <2>4
  <2>7. tickets \subseteq Requests /\ excuses \subseteq {"restore", "fault", "unannounced", "overlap"}
    BY <2>4
  <2> QED BY <2>1, <2>2, <2>3, <2>5, <2>6, <2>7 DEF TypeOK
<1>2. old \in [Requests -> Txs \cup {NoTx}] /\ seen \in [Requests -> Holdings]
      /\ DOMAIN before = Requests
  BY DEF Init, Holdings
<1>3. \A r \in Requests : pc[r] = "new" /\ txs[r] = NoTx
  BY DEF Init
<1>4. \A r \in Requests : Local(r) /\ ~Active(r)
  BY <1>3, WriteLabels DEF Local, OpAt, Covered, Active, Ended, Applications, Creating, WithOld,
     WithNew, Restoring
<1>5. InStep
  <2>1. Recorded = 0 BY <1>3, NothingRecorded
  <2> QED BY <2>1 DEF Init, InStep, NoHolding
<1> QED BY <1>1, <1>2, <1>4, <1>5 DEF IInv, WithoutTrouble, WithoutDeclaration

LEMMA Stutters ==
  ASSUME IInv, UNCHANGED vars
  PROVE  IInv'
BY DEF vars, database, control, request, IInv, TypeOK, Local, OpAt, Covered, Active, Delta, Version,
   Alone, Overlapped, WithoutTrouble, WithoutDeclaration, Undeclared, Quiet, InStep, Aligned, Missing,
   Kept, Doomed, Recorded

LEMMA Inductive ==
  ASSUME IInv, [Next]_vars
  PROVE  IInv'
BY Begins, Ends, Reads, Writes, Inserts, Rollbacks, Loads, Updates, Restores, Deletes, Posts,
   PostWrites, Patches, Finds, Cascades, RowDeletes, StorageFailures, Crashes, Stutters DEF Next

LEMMA Invariance == Spec => []IInv
<1>1. Init => IInv BY Initially
<1>2. IInv /\ [Next]_vars => IInv' BY Inductive
<1> QED BY <1>1, <1>2, PTL DEF Spec


\* Every variable keeps the values the code can give it: a holding that exists has
\* shares in it, and no sequence of applications makes it negative.
THEOREM TypeCorrect == Spec => []TypeOK
<1>1. IInv => TypeOK BY DEF IInv
<1> QED BY <1>1, Invariance, PTL

\* While requests are served one after the other, and no call fails and no edit is
\* restored, the holding is what was declared plus what the transactions add up to,
\* for any number of requests and any quantities.
THEOREM LockstepHolds == Spec => []Lockstep
<1>1. IInv => Lockstep BY DEF IInv, WithoutTrouble, Lockstep
<1> QED BY <1>1, Invariance, PTL

\* A drift between the transactions and the holding is never silent unless requests
\* overlapped or an endpoint without a ticket failed: the review control has the
\* account uncertain, or a ticket is open.
THEOREM DriftDeclared == Spec => []DriftIsDeclared
<1>1. IInv => DriftIsDeclared BY DEF IInv, WithoutDeclaration, DriftIsDeclared, Undeclared
<1> QED BY <1>1, Invariance, PTL

\* Only leaving the ticket by an exception turns a request down.
LEMMA OnlyEndRejects ==
  ASSUME IInv, [Next]_vars, NEW r \in Requests, pc'[r] = "rejected", pc[r] # "rejected"
  PROVE  pc[r] = "reject" /\ UNCHANGED <<txs, holding>>
<1>1. TypeOK BY DEF IInv
<1> USE DEF Goto
<1>2. ASSUME NEW s \in Requests, Begin(s) PROVE FALSE
  <2>1. PICK o \in Ops : pc' = [pc EXCEPT ![s] =
                    CASE o \in {"buy", "sell"} -> "insert"
                      [] o \in {"edit", "delete"} -> "load"
                      [] o = "post_holding" -> "post"
                      [] o = "patch_holding" -> "patch"
                      [] o = "delete_holding" -> "find"]
    BY <1>2 DEF Begin
  <2>2. o \in Operations BY OpsAssumption
  <2> QED BY <1>1, <2>1, <2>2 DEF TypeOK, Operations
<1>3. ASSUME NEW s \in Requests, End(s) PROVE pc[r] = "reject" /\ UNCHANGED <<txs, holding>>
  BY <1>1, <1>3 DEF End, Leave, TypeOK, database
<1>4. ASSUME NEW s \in Requests, NEW stage \in Applications,
             ReadHolding(s, stage) \/ WriteHolding(s, stage)
      PROVE  FALSE
  BY <1>1, <1>4, WriteLabels DEF ReadHolding, WriteHolding, Then, Otherwise, Unexpected, TypeOK, Applications
<1>5. ASSUME NEW s \in Requests,
             InsertTx(s) \/ Rollback(s) \/ LoadTx(s) \/ UpdateTx(s) \/ RestoreTx(s) \/ DeleteTx(s)
      PROVE  FALSE
  BY <1>1, <1>5 DEF InsertTx, Rollback, LoadTx, UpdateTx, RestoreTx, DeleteTx, TypeOK
<1>6. ASSUME NEW s \in Requests,
             PostHolding(s) \/ PostHoldingWrite(s) \/ PatchHolding(s) \/ FindHolding(s)
               \/ Cascade(s) \/ DeleteRow(s) \/ StorageFails(s)
      PROVE  FALSE
  BY <1>1, <1>6 DEF PostHolding, PostHoldingWrite, PatchHolding, FindHolding, Cascade, DeleteRow,
                    StorageFails, Unexpected, TypeOK
<1>7. ~Crash
  BY <1>1 DEF Crash, TypeOK
<1>8. pc' # pc BY <1>1
<1> QED BY <1>2, <1>3, <1>4, <1>5, <1>6, <1>7, <1>8 DEF Next, vars

\* A request that is turned down while nothing else went wrong has left the
\* transactions and the shares as it found them, edits excepted.
THEOREM RejectionsKeep == Spec => RejectionsKeepAccount
<1>1. IInv /\ [Next]_vars =>
        [\A r \in Requests :
           pc'[r] = "rejected" /\ pc[r] # "rejected" /\ op[r] # "edit" /\ excuses = {}
             => before[r] = <<txs, holding.qty>>]_vars
  <2> SUFFICES ASSUME IInv, [Next]_vars, NEW r \in Requests,
                      pc'[r] = "rejected", pc[r] # "rejected", op[r] # "edit", excuses = {}
               PROVE  before[r] = <<txs, holding.qty>>
    OBVIOUS
  <2>1. pc[r] = "reject" BY OnlyEndRejects
  <2>2. Active(r) BY <2>1 DEF Active, Ended
  <2>3. Kept(r) BY <2>2 DEF IInv, WithoutTrouble
  <2> QED BY <2>1, <2>3 DEF Kept, Creating
<1> QED BY <1>1, Invariance, PTL DEF Spec, RejectionsKeepAccount

\* However requests overlap and fail, and however often the symbol is sold out and
\* bought anew, what a request computed from a row is written into that row or nowhere.
THEOREM StaleWritesAreMissed == Spec => StaleWritesMiss
<1> DEFINE Hits(r) ==
      /\ holding.id = seen[r].id
      /\ IF seen[r] = NoHolding THEN holding'.id[1] = r ELSE holding'.id \in {seen[r].id, NoRow}
<1>1. IInv /\ [Next]_vars =>
        [\A r \in Requests :
           pc[r] \in RowWrites /\ pc'[r] # pc[r] /\ holding' # holding => Hits(r)]_vars
  <2> SUFFICES ASSUME IInv, Next, NEW r \in Requests, pc[r] \in RowWrites, pc'[r] # pc[r],
                      holding' # holding
               PROVE  Hits(r)
    BY DEF vars, database
  <2>1. TypeOK /\ holding \in Holdings /\ seen[r] \in Holdings BY TypeFacts DEF IInv
  <2>2. \A h \in Holdings : h.id = NoRow <=> h = NoHolding
    BY RowAssumption DEF Holdings, NoHolding
  <2>3. \A s \in Requests : \A label : pc' = [pc EXCEPT ![s] = label] => s = r
    BY <2>1 DEF TypeOK
  <2>4. ASSUME NEW stage \in Applications, WriteHolding(r, stage)
        PROVE  Hits(r)
    <3>1. CASE seen[r] = NoHolding
      <4>1. holding = NoHolding /\ holding' = [id |-> <<r, stage>>, qty |-> Delta(r, stage)]
        BY <2>4, <3>1 DEF WriteHolding
      <4> QED BY <3>1, <4>1
    <3>2. CASE seen[r] # NoHolding
      <4>1. holding.id = seen[r].id
            /\ holding' \in {NoHolding, [holding EXCEPT !.qty = seen[r].qty + Delta(r, stage)]}
        BY <2>4, <3>2 DEF WriteHolding
      <4>2. holding'.id \in {seen[r].id, NoRow} BY <2>1, <4>1 DEF Holdings, NoHolding
      <4> QED BY <3>2, <4>1, <4>2
    <3> QED BY <3>1, <3>2
  <2>5. ASSUME PostHoldingWrite(r)
        PROVE  Hits(r)
    <3>1. seen[r].id = holding.id
          /\ holding'.id = IF holding = NoHolding THEN <<r, "post">> ELSE holding.id
      BY <2>5 DEF PostHoldingWrite
    <3> QED BY <2>1, <2>2, <3>1
  <2>6. ASSUME DeleteRow(r)
        PROVE  Hits(r)
    <3>1. seen[r].id = holding.id /\ holding' = NoHolding BY <2>6 DEF DeleteRow
    <3> QED BY <2>1, <2>2, <3>1 DEF NoHolding
  <2>7. ~ \E s \in Requests : PatchHolding(s)
    BY <2>1, <2>3 DEF PatchHolding, Goto, RowWrites, WriteOf, Applications
  <2>8. ASSUME NEW s \in Requests, NEW stage \in Applications,
               \/ WriteHolding(s, stage) \/ PostHoldingWrite(s) \/ DeleteRow(s)
        PROVE  s = r
    BY <2>3, <2>8 DEF WriteHolding, PostHoldingWrite, DeleteRow, Goto
  <2>9. ASSUME NEW s \in Requests, NEW stage \in Applications,
               \/ Begin(s) \/ End(s) \/ ReadHolding(s, stage) \/ InsertTx(s) \/ Rollback(s) \/ LoadTx(s)
               \/ UpdateTx(s) \/ RestoreTx(s) \/ DeleteTx(s) \/ PostHolding(s) \/ FindHolding(s)
               \/ Cascade(s) \/ StorageFails(s)
        PROVE  FALSE
    BY <2>9 DEF Begin, End, ReadHolding, InsertTx, Rollback, LoadTx, UpdateTx, RestoreTx, DeleteTx,
                PostHolding, FindHolding, Cascade, StorageFails, database
  <2>10. ~Crash BY DEF Crash, database
  <2>11. "create" \in Applications BY DEF Applications
  <2> HIDE DEF Hits
  <2> QED BY <2>4, <2>5, <2>6, <2>7, <2>8, <2>9, <2>10, <2>11 DEF Next
<1> QED BY <1>1, Invariance, PTL DEF Spec, StaleWritesMiss

\* The principle of induction, by a smallest interval that leads to a counterexample.
LEMMA SetInduction ==
  ASSUME NEW S, 0 \in S, \A n \in Nat : n \in S => n + 1 \in S
  PROVE  Nat \subseteq S
<1> SUFFICES ASSUME NEW m \in Nat, m \notin S PROVE FALSE
  OBVIOUS
<1> DEFINE T == {J \in SUBSET (1..m) : \E n \in Nat \ S : J = 1..n}
<1>1. T \subseteq SUBSET (1..m) /\ T # {} /\ IsFiniteSet(1..m)
  <2>1. 1..m \in T
    OBVIOUS
  <2>2. IsFiniteSet(1..m)
    BY FS_Interval
  <2> QED BY <2>1, <2>2
<1>2. PICK I \in T : \A J \in T : J \subseteq I => J = I
  <2> DEFINE A == 1..m
  <2> HIDE DEF T, A
  <2>1. T \subseteq SUBSET A /\ T # {} /\ IsFiniteSet(A)
    BY <1>1 DEF A
  <2> QED BY <2>1, SmallestSubset
<1>3. PICK n \in Nat \ S : I = 1..n /\ 1..n \subseteq 1..m
  OBVIOUS
<1>4. n # 0 /\ n - 1 \in Nat \ S
  OBVIOUS
<1>5. 1..(n - 1) \subseteq 1..n /\ n \in 1..n /\ n \notin 1..(n - 1)
  BY <1>4
<1>6. 1..(n - 1) \in T
  BY <1>3, <1>4, <1>5
<1> QED BY <1>2, <1>3, <1>5, <1>6

-------------------------------------------------------------------------------
(* More about sums *)

LEMMA SumType ==
  ASSUME NEW A, IsFiniteSet(A), NEW f, \A x \in A : f[x] \in Int
  PROVE  SumFunctionOnSet(f, A) \in Int
<1> DEFINE z == [x \in A |-> 0]
<1>1. \A x \in A : f[x] \in Int /\ z[x] \in Int /\ f[x] = f[x] + z[x]
  OBVIOUS
<1> HIDE DEF z
<1> QED BY <1>1, SumPlus

LEMMA SumOfNaturals ==
  ASSUME NEW A, IsFiniteSet(A), NEW f, \A x \in A : f[x] \in Nat
  PROVE  SumFunctionOnSet(f, A) \in Nat
<1> DEFINE S == {B \in SUBSET A : SumFunctionOnSet(f, B) \in Nat}
<1>1. ASSUME NEW B \in SUBSET A, \A C \in SUBSET B : C # B => C \in S
      PROVE  B \in S
  <2>1. CASE B = {}
    BY <2>1, SumEmpty
  <2>2. ASSUME NEW y \in B PROVE B \in S
    <3>1. IsFiniteSet(B) /\ \A x \in B : f[x] \in Int
      BY FS_Subset
    <3>2. SumFunctionOnSet(f, B) = f[y] + SumFunctionOnSet(f, B \ {y})
      BY <3>1, SumRemove
    <3>3. SumFunctionOnSet(f, B \ {y}) \in Nat
      BY <1>1
    <3> QED BY <3>2, <3>3
  <2> QED BY <2>1, <2>2
<1> HIDE DEF S
<1>2. A \in S
  BY <1>1, FiniteInduction
<1> QED BY <1>2 DEF S

\* Terms that are zero can be left out.
LEMMA SumOverSupport ==
  ASSUME NEW A, IsFiniteSet(A), NEW D, D \subseteq A, NEW f,
         \A x \in A : f[x] \in Int, \A x \in A \ D : f[x] = 0
  PROVE  SumFunctionOnSet(f, A) = SumFunctionOnSet(f, D)
<1> DEFINE Su(B) == SumFunctionOnSet(f, B)
           S == {B \in SUBSET A : Su(B) = Su(B \cap D)}
<1> HIDE DEF Su
<1>1. ASSUME NEW B \in SUBSET A, \A C \in SUBSET B : C # B => C \in S
      PROVE  B \in S
  <2>1. CASE B \subseteq D
    <3>1. B \cap D = B
      BY <2>1
    <3> QED BY <3>1
  <2>2. ASSUME NEW y \in B, y \notin D PROVE B \in S
    <3>1. IsFiniteSet(B) /\ \A x \in B : f[x] \in Int
      BY FS_Subset
    <3>2. Su(B) = f[y] + Su(B \ {y}) /\ f[y] = 0
      BY <2>2, <3>1, SumRemove DEF Su
    <3>3. Su(B \ {y}) \in Int
      <4>1. IsFiniteSet(B \ {y}) BY <3>1, FS_Subset
      <4> QED BY <3>1, <4>1, SumType DEF Su
    <3>4. Su(B \ {y}) = Su((B \ {y}) \cap D)
      <4>1. B \ {y} \in SUBSET B /\ B \ {y} # B
        OBVIOUS
      <4>2. B \ {y} \in S
        BY <1>1, <4>1
      <4> QED BY <4>2
    <3>5. (B \ {y}) \cap D = B \cap D
      BY <2>2
    <3>6. Su((B \ {y}) \cap D) = Su(B \cap D)
      BY <3>5, Zenon
    <3>7. Su(B) = Su(B \ {y})
      <4>1. \A k \in Int : 0 + k = k
        OBVIOUS
      <4> QED BY <3>2, <3>3, <4>1, Zenon
    <3> QED BY <3>4, <3>6, <3>7
  <2> QED BY <2>1, <2>2
<1> HIDE DEF S
<1>2. A \in S
  BY <1>1, FiniteInduction
<1>3. A \cap D = D
  OBVIOUS
<1> QED BY <1>2, <1>3 DEF S, Su

-------------------------------------------------------------------------------
(* Rounding *)

\* The quotient and the remainder of a division.
LEMMA Division ==
  ASSUME NEW n \in Nat, NEW d \in Nat \ {0}
  PROVE  /\ n \div d \in Nat /\ n % d \in 0..(d - 1)
         /\ n = d * (n \div d) + (n % d)
OBVIOUS

LEMMA ProductsGrow ==
  ASSUME NEW a \in Nat, NEW b \in Nat, NEW c \in Nat, a =< b
  PROVE  c * a \in Nat /\ c * a =< c * b
OBVIOUS

\* A rounded quotient is a natural number, and at most a bound of the exact one.
LEMMA HalfEvenBounds ==
  ASSUME NEW n \in Nat, NEW d \in Nat \ {0}, NEW m \in Nat, n =< d * m
  PROVE  HalfEven(n, d) \in 0..m
<1> DEFINE q == n \div d
           r == n % d
<1>1. q \in Nat /\ r \in 0..(d - 1) /\ n = d * q + r
  BY Division
<1>2. HalfEven(n, d) \in {q, q + 1} /\ (r = 0 => HalfEven(n, d) = q)
  BY <1>1 DEF HalfEven
<1> HIDE DEF q, r
<1>3. q =< m
  <2> SUFFICES ASSUME m + 1 =< q PROVE FALSE
    BY <1>1
  <2>1. d * (m + 1) =< d * q
    BY <1>1, ProductsGrow
  <2>2. d * (m + 1) = d * m + d
    OBVIOUS
  <2>3. d * q \in Nat /\ d * m \in Nat
    BY <1>1
  <2> QED BY <1>1, <2>1, <2>2, <2>3
<1>4. ASSUME q = m PROVE r = 0
  BY <1>1, <1>4
<1> QED BY <1>1, <1>2, <1>3, <1>4

LEMMA HalfEvenOfNothing == ASSUME NEW d \in Nat \ {0} PROVE HalfEven(0, d) = 0
BY HalfEvenBounds

LEMMA HalfEvenType ==
  ASSUME NEW n \in Nat, NEW d \in Nat \ {0}
  PROVE  HalfEven(n, d) \in Nat
<1>1. n =< d * n
  OBVIOUS
<1> QED BY <1>1, HalfEvenBounds

-------------------------------------------------------------------------------
(* One event *)

Lots(settings) == [symbol : settings.symbols, quantity : Nat \ {0}, cost : Nat]

\* Books after n events, in which money only moves between cash and what is held,
\* but for gains and income.
Sound(settings, state, n) ==
  /\ state \in [cash : Nat, realized : Int, income : Int, lots : {state.lots}]
  /\ DOMAIN state.lots \subseteq 1..n
  /\ state.lots \in [DOMAIN state.lots -> Lots(settings)]
  /\ state.cash + Basis(state.lots) = settings.cash + state.realized + state.income

LEMMA PrincipalType ==
  ASSUME NEW s, IsSettings(s), NEW e, IsEntry(e), e.kind \in {"buy", "sell"}
  PROVE  Principal(s, e) \in Nat
<1>1. Scale \in Nat \ {0}
  BY ScaleAssumption
<1> DEFINE slip == IF e.kind = "buy" THEN s.slippage ELSE -s.slippage
<1>2. Scale + slip \in Nat
  BY <1>1 DEF IsSettings
<1>3. e.quantity * e.price \in Nat
  BY DEF IsEntry
<1> DEFINE n == e.quantity * e.price * (Scale + slip)
<1>4. n \in Nat
  <2>1. \A a, b \in Nat : a * b \in Nat
    OBVIOUS
  <2> HIDE DEF slip
  <2> QED BY <1>2, <1>3, <2>1
<1> HIDE DEF n
<1>5. HalfEven(n, Scale) \in Nat
  BY <1>1, <1>4, HalfEvenType
<1> QED BY <1>5, Zenon DEF Principal, n, slip

LEMMA FeeBounds ==
  ASSUME NEW s, IsSettings(s), NEW e, IsEntry(e), e.kind \in {"buy", "sell"}
  PROVE  Fee(s, e) \in 0..Principal(s, e)
<1> DEFINE p == Principal(s, e)
<1>1. p \in Nat /\ Scale \in Nat \ {0} /\ s.commission \in 0..Scale
  BY PrincipalType, ScaleAssumption DEF IsSettings
<1>2. Fee(s, e) = HalfEven(p * s.commission, Scale)
  BY Zenon DEF Fee
<1> HIDE DEF p
<1>3. p * s.commission \in Nat /\ p * s.commission =< p * Scale
  BY <1>1, ProductsGrow
<1>4. p * Scale = Scale * p
  BY <1>1
<1>5. p * s.commission =< Scale * p
  BY <1>3, <1>4
<1>6. HalfEven(p * s.commission, Scale) \in 0..p
  BY <1>1, <1>3, <1>5, HalfEvenBounds
<1> QED BY <1>2, <1>6 DEF p

\* What is owned of a symbol, in lots that are known to be sound.
LEMMA SomeQuantity ==
  ASSUME NEW s, NEW lots, IsFiniteSet(DOMAIN lots), lots \in [DOMAIN lots -> Lots(s)],
         NEW D \in SUBSET (DOMAIN lots)
  PROVE  SumFunctionOnSet(Quantities(lots), D) \in Nat
<1>1. IsFiniteSet(D)
  BY FS_Subset
<1>2. \A i \in D : Quantities(lots)[i] \in Nat
  BY DEF Quantities, Lots
<1> QED BY <1>1, <1>2, SumOfNaturals

LEMMA UsedBounds ==
  ASSUME NEW s, NEW lots, IsFiniteSet(DOMAIN lots), lots \in [DOMAIN lots -> Lots(s)],
         NEW sale, sale.quantity \in Nat, NEW i \in DOMAIN lots
  PROVE  /\ Used(lots, sale, i) \in 0..lots[i].quantity
         /\ lots[i].symbol # sale.symbol => Used(lots, sale, i) = 0
<1> DEFINE D == {j \in LotsOf(lots, sale.symbol) : j < i}
           older == SumFunctionOnSet(Quantities(lots), D)
           rest == sale.quantity - older
<1>1. D \in SUBSET (DOMAIN lots)
  BY DEF LotsOf
<1>2. older \in Nat
  <2> HIDE DEF D
  <2> QED BY <1>1, SomeQuantity
<1>3. lots[i].quantity \in Nat \ {0}
  BY DEF Lots
<1>4. Used(lots, sale, i) = IF lots[i].symbol # sale.symbol \/ rest =< 0 THEN 0
                            ELSE Min({rest, lots[i].quantity})
  BY Zenon DEF Used
<1> HIDE DEF D, older
<1>5. ASSUME NEW a \in Nat, NEW b \in Nat PROVE Min({a, b}) \in 0..b
  <2>1. \E x \in {a, b} : \A y \in {a, b} : x =< y
    OBVIOUS
  <2> QED BY <2>1 DEF Min
<1>6. rest > 0 => rest \in Nat
  BY <1>2
<1> HIDE DEF rest
<1>7. CASE lots[i].symbol # sale.symbol \/ rest =< 0
  BY <1>3, <1>4, <1>7
<1>8. CASE ~(lots[i].symbol # sale.symbol \/ rest =< 0)
  <2>1. rest \in Nat
    BY <1>2, <1>6, <1>8 DEF rest
  <2>2. Min({rest, lots[i].quantity}) \in 0..lots[i].quantity
    BY <1>3, <1>5, <2>1
  <2> QED BY <1>4, <1>8, <2>2
<1> QED BY <1>7, <1>8

\* A sale takes a part of the cost of a lot, and with its last share all of it.
LEMMA CostUsedBounds ==
  ASSUME NEW s, NEW lots, IsFiniteSet(DOMAIN lots), lots \in [DOMAIN lots -> Lots(s)],
         NEW sale, sale.quantity \in Nat, NEW i \in DOMAIN lots
  PROVE  /\ CostUsed(lots, sale, i) \in 0..lots[i].cost
         /\ Used(lots, sale, i) = lots[i].quantity => CostUsed(lots, sale, i) = lots[i].cost
         /\ lots[i].symbol # sale.symbol => CostUsed(lots, sale, i) = 0
<1> DEFINE u == Used(lots, sale, i)
           q == lots[i].quantity
           c == lots[i].cost
<1>1. q \in Nat \ {0} /\ c \in Nat
  BY DEF Lots
<1>2. u \in 0..q /\ (lots[i].symbol # sale.symbol => u = 0)
  BY UsedBounds
<1>3. CostUsed(lots, sale, i) = IF u = q THEN c ELSE HalfEven(c * u, q)
  BY Zenon DEF CostUsed
<1> HIDE DEF u, q, c
<1>4. c * u \in Nat /\ c * u =< c * q
  BY <1>1, <1>2, ProductsGrow
<1>5. c * q = q * c
  BY <1>1
<1>6. HalfEven(c * u, q) \in 0..c
  <2>1. c * u =< q * c
    BY <1>4, <1>5
  <2> QED BY <1>1, <1>4, <2>1, HalfEvenBounds
<1>7. u = 0 => HalfEven(c * u, q) = 0
  <2>1. u = 0 => c * u = 0
    BY <1>1
  <2> QED BY <1>1, <2>1, HalfEvenOfNothing
<1>8. CostUsed(lots, sale, i) \in 0..c
  BY <1>1, <1>3, <1>6
<1>9. lots[i].symbol # sale.symbol => CostUsed(lots, sale, i) = 0
  BY <1>1, <1>2, <1>3, <1>7
<1> QED BY <1>3, <1>8, <1>9 DEF u, q, c

Costs(lots) == [i \in DOMAIN lots |-> lots[i].cost]

LEMMA BasisFacts ==
  ASSUME NEW s, NEW lots, IsFiniteSet(DOMAIN lots), lots \in [DOMAIN lots -> Lots(s)]
  PROVE  /\ Basis(lots) = SumFunctionOnSet(Costs(lots), DOMAIN lots)
         /\ Basis(lots) \in Nat
         /\ \A i \in DOMAIN lots : Costs(lots)[i] = lots[i].cost /\ lots[i].cost \in Nat
<1>1. DOMAIN Costs(lots) = DOMAIN lots
  BY DEF Costs
<1>2. Basis(lots) = SumFunctionOnSet(Costs(lots), DOMAIN lots)
  BY <1>1, Zenon DEF Basis, Costs, SumFunction
<1>3. \A i \in DOMAIN lots : Costs(lots)[i] = lots[i].cost /\ lots[i].cost \in Nat
  BY DEF Costs, Lots
<1>4. SumFunctionOnSet(Costs(lots), DOMAIN lots) \in Nat
  BY <1>3, SumOfNaturals
<1> QED BY <1>2, <1>3, <1>4

\* What sound books are made of.
LEMMA SoundFacts ==
  ASSUME NEW s, NEW state, NEW n \in Nat, Sound(s, state, n)
  PROVE  /\ IsFiniteSet(DOMAIN state.lots)
         /\ state.cash \in Nat /\ state.realized \in Int /\ state.income \in Int
         /\ state.lots \in [DOMAIN state.lots -> Lots(s)]
         /\ Basis(state.lots) \in Nat
<1>1. IsFiniteSet(1..n)
  BY FS_Interval
<1>2. IsFiniteSet(DOMAIN state.lots)
  BY <1>1, FS_Subset DEF Sound
<1> QED BY <1>2, BasisFacts DEF Sound

\* Balanced parts make sound books.
LEMMA Balanced ==
  ASSUME NEW s, NEW n, NEW cash \in Nat, NEW realized \in Int, NEW income \in Int, NEW lots,
         DOMAIN lots \subseteq 1..n, lots \in [DOMAIN lots -> Lots(s)],
         cash + Basis(lots) = s.cash + realized + income
  PROVE  Sound(s, [cash |-> cash, realized |-> realized, income |-> income, lots |-> lots], n)
BY DEF Sound

\* A state that is written field by field.
LEMMA Fields ==
  ASSUME NEW s, NEW state, NEW n, Sound(s, state, n)
  PROVE  /\ DOMAIN state = {"cash", "realized", "income", "lots"}
         /\ state = [cash |-> state.cash, realized |-> state.realized,
                     income |-> state.income, lots |-> state.lots]
BY DEF Sound

LEMMA Buys ==
  ASSUME NEW s, IsSettings(s), NEW state, NEW n \in Nat, Sound(s, state, n),
         NEW e, IsEntry(e), Acceptable(s, state, e), e.kind = "buy"
  PROVE  Sound(s, Buy(s, state, n + 1, e), n + 1)
<1> DEFINE total == Principal(s, e) + Fee(s, e)
           lots == state.lots
           D == DOMAIN lots
           lot == [symbol |-> e.symbol, quantity |-> e.quantity, cost |-> total]
           more == [i \in D \cup {n + 1} |-> IF i = n + 1 THEN lot ELSE lots[i]]
           books == Buy(s, state, n + 1, e)
<1>1. total \in Nat /\ total =< state.cash
  BY PrincipalType, FeeBounds DEF Acceptable
<1>2. lot \in Lots(s)
  BY <1>1 DEF Lots, Acceptable, IsEntry
<1>3. /\ state.cash \in Nat /\ state.realized \in Int /\ state.income \in Int
      /\ lots \in [D -> Lots(s)] /\ Basis(lots) \in Nat /\ IsFiniteSet(D)
  BY SoundFacts
<1>4. books = [state EXCEPT !.cash = @ - total, !.lots = more]
  BY Zenon DEF Buy
<1>5. state \in [cash : Nat, realized : Int, income : Int, lots : {lots}] /\ D \subseteq 1..n
  BY DEF Sound
<1>6. books = [cash |-> state.cash - total, realized |-> state.realized,
                 income |-> state.income, lots |-> more]
  <2> HIDE DEF total, more, books, lots
  <2> QED BY <1>4, Fields
<1>7. DOMAIN more = D \cup {n + 1} /\ D \cup {n + 1} \subseteq 1..(n + 1)
  BY <1>5
<1>8. more \in [DOMAIN more -> Lots(s)] /\ IsFiniteSet(DOMAIN more)
  <2> HIDE DEF lot, lots
  <2>1. more \in [D \cup {n + 1} -> Lots(s)]
    BY <1>2, <1>3
  <2>2. IsFiniteSet(D \cup {n + 1})
    BY <1>3, FS_AddElement
  <2> QED BY <1>7, <2>1, <2>2
<1>9. Basis(more) = total + Basis(lots)
  <2>1. \A i \in D : Costs(more)[i] = Costs(lots)[i] /\ Costs(lots)[i] \in Int
    <3> SUFFICES ASSUME NEW i \in D PROVE Costs(more)[i] = Costs(lots)[i] /\ Costs(lots)[i] \in Int
      OBVIOUS
    <3>1. i \in DOMAIN more /\ more[i] = lots[i]
      BY <1>5
    <3> HIDE DEF more, lots
    <3>2. Costs(lots)[i] = lots[i].cost /\ lots[i].cost \in Nat
      BY <1>3, BasisFacts
    <3>3. Costs(more)[i] = more[i].cost
      BY <3>1 DEF Costs
    <3> QED BY <3>1, <3>2, <3>3
  <2>2. Costs(more)[n + 1] = total
    BY <1>7 DEF Costs
  <2>3. n + 1 \notin D /\ (D \cup {n + 1}) \ {n + 1} = D
    BY <1>5
  <2> HIDE DEF more, total, lots, D
  <2>4. \A i \in D \cup {n + 1} : Costs(more)[i] \in Int
    BY <1>1, <2>1, <2>2
  <2>5. SumFunctionOnSet(Costs(more), D \cup {n + 1}) = total + SumFunctionOnSet(Costs(more), D)
    <3>1. IsFiniteSet(D \cup {n + 1})
      BY <1>7, <1>8
    <3> QED BY <2>2, <2>3, <2>4, <3>1, SumRemove
  <2>6. SumFunctionOnSet(Costs(more), D) = SumFunctionOnSet(Costs(lots), D)
    BY <1>3, <2>1, SumAgrees
  <2>7. /\ Basis(lots) = SumFunctionOnSet(Costs(lots), D)
        /\ Basis(more) = SumFunctionOnSet(Costs(more), D \cup {n + 1})
    <3>1. Basis(lots) = SumFunctionOnSet(Costs(lots), D)
      BY <1>3, BasisFacts DEF D
    <3> QED BY <1>7, <1>8, <3>1, BasisFacts
  <2> QED BY <2>5, <2>6, <2>7
<1>10. state.cash + Basis(lots) = s.cash + state.realized + state.income
  BY DEF Sound
<1> HIDE DEF total, more, books, lots
<1>11. state.cash - total \in Nat
  BY <1>1, <1>3
<1>12. state.cash - total + Basis(more) = s.cash + state.realized + state.income
  BY <1>1, <1>3, <1>9, <1>10
<1> QED BY <1>3, <1>6, <1>7, <1>8, <1>11, <1>12, Balanced DEF books

LEMMA Sells ==
  ASSUME NEW s, IsSettings(s), NEW state, NEW n \in Nat, Sound(s, state, n),
         NEW e, IsEntry(e), Acceptable(s, state, e), e.kind = "sell"
  PROVE  Sound(s, Sell(s, state, e), n)
<1> DEFINE proceeds == Principal(s, e) - Fee(s, e)
           lots == state.lots
           D == DOMAIN lots
           costs == [i \in D |-> CostUsed(lots, e, i)]
           spent == SumFunctionOnSet(costs, LotsOf(lots, e.symbol))
           kept == {i \in D : Used(lots, e, i) < lots[i].quantity}
           rest == [i \in kept |-> Remainder(lots, e, i)]
           left == [i \in D |-> lots[i].cost - CostUsed(lots, e, i)]
           books == Sell(s, state, e)
<1>1. proceeds \in Nat
  BY PrincipalType, FeeBounds
<1>2. /\ state.cash \in Nat /\ state.realized \in Int /\ state.income \in Int
      /\ lots \in [D -> Lots(s)] /\ Basis(lots) \in Nat /\ IsFiniteSet(D) /\ D \subseteq 1..n
  BY SoundFacts DEF Sound
<1>3. books = [state EXCEPT !.cash = @ + proceeds, !.realized = @ + proceeds - spent, !.lots = rest]
  BY Zenon DEF Sell
<1>4. books = [cash |-> state.cash + proceeds, realized |-> state.realized + proceeds - spent,
               income |-> state.income, lots |-> rest]
  <2> HIDE DEF proceeds, spent, rest, books
  <2> QED BY <1>3, Fields
<1>5. ASSUME NEW i \in D
      PROVE  /\ lots[i].quantity \in Nat \ {0} /\ lots[i].cost \in Nat
             /\ lots[i].symbol \in s.symbols
             /\ lots[i] = [symbol |-> lots[i].symbol, quantity |-> lots[i].quantity,
                           cost |-> lots[i].cost]
             /\ Used(lots, e, i) \in 0..lots[i].quantity
             /\ CostUsed(lots, e, i) \in 0..lots[i].cost
             /\ Used(lots, e, i) = lots[i].quantity => CostUsed(lots, e, i) = lots[i].cost
             /\ lots[i].symbol # e.symbol => CostUsed(lots, e, i) = 0
  <2>1. e.quantity \in Nat
    BY DEF IsEntry
  <2>2. lots[i] \in Lots(s)
    BY <1>2, <1>5
  <2>3. /\ lots[i].quantity \in Nat \ {0} /\ lots[i].cost \in Nat /\ lots[i].symbol \in s.symbols
        /\ lots[i] = [symbol |-> lots[i].symbol, quantity |-> lots[i].quantity,
                      cost |-> lots[i].cost]
    BY <2>2 DEF Lots
  <2> HIDE DEF lots
  <2> QED BY <1>2, <1>5, <2>1, <2>3, UsedBounds, CostUsedBounds
<1>6. kept \subseteq D /\ IsFiniteSet(kept) /\ DOMAIN rest = kept
  BY <1>2, FS_Subset
<1>7. ASSUME NEW i \in kept
      PROVE  rest[i] \in Lots(s) /\ rest[i].cost = left[i]
  <2> DEFINE u == Used(lots, e, i)
             c == CostUsed(lots, e, i)
  <2>1. i \in D /\ u < lots[i].quantity
    BY <1>7
  <2>2. rest[i] = [lots[i] EXCEPT !.quantity = @ - u, !.cost = @ - c]
    BY <1>7, Zenon DEF Remainder
  <2> DEFINE lot == lots[i]
  <2>3. /\ lot.quantity \in Nat \ {0} /\ lot.cost \in Nat /\ lot.symbol \in s.symbols
        /\ u \in 0..lot.quantity /\ c \in 0..lot.cost
        /\ lot = [symbol |-> lot.symbol, quantity |-> lot.quantity, cost |-> lot.cost]
    BY <1>5, <2>1
  <2>4. left[i] = lot.cost - c
    BY <2>1
  <2> HIDE DEF lot, u, c, left, rest
  <2>5. rest[i] = [symbol |-> lot.symbol, quantity |-> lot.quantity - u, cost |-> lot.cost - c]
    BY <2>2, <2>3 DEF lot
  <2>6. lot.quantity - u \in Nat \ {0} /\ lot.cost - c \in Nat
    BY <2>1, <2>3 DEF lot
  <2> QED BY <2>3, <2>4, <2>5, <2>6 DEF Lots
<1>8. rest \in [DOMAIN rest -> Lots(s)]
  <2>1. rest = [i \in DOMAIN rest |-> rest[i]]
    BY <1>6
  <2> HIDE DEF rest
  <2> QED BY <1>6, <1>7, <2>1
\* What is left of all lots, and what was taken from them, is what they cost.
<1>9. SumFunctionOnSet(costs, D) = spent
  <2>1. LotsOf(lots, e.symbol) \subseteq D /\ \A i \in D : costs[i] = CostUsed(lots, e, i)
    BY DEF LotsOf
  <2> HIDE DEF costs, lots
  <2>2. \A i \in D : costs[i] \in Int
    BY <1>5, <2>1
  <2>3. \A i \in D \ LotsOf(lots, e.symbol) : costs[i] = 0
    BY <1>5, <2>1 DEF LotsOf
  <2> HIDE DEF D
  <2> QED BY <1>2, <2>1, <2>2, <2>3, SumOverSupport
<1>10. SumFunctionOnSet(left, D) = Basis(rest)
  <2>1. \A i \in D : left[i] = lots[i].cost - CostUsed(lots, e, i)
    OBVIOUS
  <2> HIDE DEF left, rest, lots
  <2>2. \A i \in D : left[i] \in Int
    BY <1>5, <2>1
  <2>3. ASSUME NEW i \in D, i \notin kept PROVE left[i] = 0
    <3>1. Used(lots, e, i) = lots[i].quantity
      BY <1>5, <2>3
    <3> QED BY <1>5, <2>1, <3>1
  <2>4. \A i \in kept : rest[i].cost = left[i] /\ left[i] \in Int
    BY <1>7, <2>2
  <2> HIDE DEF kept, D
  <2>5. SumFunctionOnSet(left, D) = SumFunctionOnSet(left, kept)
    BY <1>2, <1>6, <2>2, <2>3, SumOverSupport
  <2>6. /\ Basis(rest) = SumFunctionOnSet(Costs(rest), DOMAIN rest)
        /\ \A i \in DOMAIN rest : Costs(rest)[i] = rest[i].cost
    BY <1>6, <1>8, BasisFacts
  <2>7. SumFunctionOnSet(Costs(rest), kept) = SumFunctionOnSet(left, kept)
    BY <1>6, <2>4, <2>6, SumAgrees
  <2> QED BY <1>6, <2>5, <2>6, <2>7
<1>11. Basis(lots) = SumFunctionOnSet(left, D) + SumFunctionOnSet(costs, D)
       /\ SumFunctionOnSet(left, D) \in Int /\ SumFunctionOnSet(costs, D) \in Int
  <2>1. \A i \in D : left[i] = lots[i].cost - CostUsed(lots, e, i) /\ costs[i] = CostUsed(lots, e, i)
    OBVIOUS
  <2> HIDE DEF left, costs, lots
  <2>2. Basis(lots) = SumFunctionOnSet(Costs(lots), D)
        /\ \A i \in D : Costs(lots)[i] = lots[i].cost
    BY <1>2, BasisFacts
  <2>3. \A i \in D : left[i] \in Int /\ costs[i] \in Int /\ Costs(lots)[i] = left[i] + costs[i]
    BY <1>5, <2>1, <2>2
  <2> QED BY <1>2, <2>2, <2>3, SumPlus
<1>12. state.cash + Basis(lots) = s.cash + state.realized + state.income
  BY DEF Sound
<1>13. spent \in Int
  BY <1>9, <1>11
<1> HIDE DEF proceeds, lots, D, costs, spent, kept, rest, left, books
<1>14. state.cash + proceeds \in Nat /\ state.realized + proceeds - spent \in Int
  BY <1>1, <1>2, <1>13
<1>15. Basis(lots) = Basis(rest) + spent /\ Basis(rest) \in Int
  BY <1>9, <1>10, <1>11
<1>16. s.cash \in Nat
  BY DEF IsSettings
<1>17. state.cash + proceeds + Basis(rest)
         = s.cash + (state.realized + proceeds - spent) + state.income
  BY <1>1, <1>2, <1>12, <1>13, <1>15, <1>16
<1>18. DOMAIN rest \subseteq 1..n
  BY <1>2, <1>6
<1> QED BY <1>2, <1>4, <1>8, <1>14, <1>17, <1>18, Balanced DEF books

LEMMA Splits ==
  ASSUME NEW s, IsSettings(s), NEW state, NEW n \in Nat, Sound(s, state, n),
         NEW e, IsEntry(e), Acceptable(s, state, e), e.kind = "split"
  PROVE  Sound(s, Split(state, e), n)
<1> DEFINE lots == state.lots
           D == DOMAIN lots
           part(i) == SplitQuantity(lots[i], e) \div e.denominator
           parts == [i \in D |-> IF lots[i].symbol # e.symbol THEN lots[i]
                                 ELSE [lots[i] EXCEPT !.quantity = part(i)]]
           books == Split(state, e)
<1>1. /\ state.cash \in Nat /\ state.realized \in Int /\ state.income \in Int
      /\ lots \in [D -> Lots(s)] /\ Basis(lots) \in Nat /\ IsFiniteSet(D) /\ D \subseteq 1..n
  BY SoundFacts DEF Sound
<1>2. books = [state EXCEPT !.lots = parts]
  BY Zenon DEF Split
<1>3. books = [cash |-> state.cash, realized |-> state.realized, income |-> state.income,
               lots |-> parts]
  <2> HIDE DEF parts, books
  <2> QED BY <1>2, Fields
<1>4. ASSUME NEW i \in D, lots[i].symbol = e.symbol PROVE part(i) \in Nat \ {0}
  <2> DEFINE d == e.denominator
             q == SplitQuantity(lots[i], e)
  <2>1. d \in Nat \ {0} /\ e.numerator \in Nat \ {0}
    BY DEF IsEntry
  <2>2. lots[i].quantity \in Nat \ {0}
    BY <1>1, <1>4 DEF Lots
  <2>3. q = lots[i].quantity * e.numerator
    BY Zenon DEF SplitQuantity
  <2>4. q % d = 0
    BY <1>4 DEF Acceptable, LotsOf
  <2> HIDE DEF lots, d, q
  <2>5. q \in Nat \ {0}
    <3>1. ASSUME NEW a \in Nat \ {0}, NEW b \in Nat \ {0} PROVE a * b \in Nat \ {0}
      OBVIOUS
    <3> QED BY <2>1, <2>2, <2>3, <3>1
  <2>6. q \div d \in Nat /\ q = d * (q \div d)
    <3>1. q \div d \in Nat /\ q = d * (q \div d) + (q % d)
      BY <2>1, <2>5, Division
    <3> QED BY <2>1, <2>4, <3>1
  <2>7. q \div d # 0
    BY <2>1, <2>5, <2>6
  <2> QED BY <2>6, <2>7, Zenon DEF q, d
<1>5. ASSUME NEW i \in D PROVE parts[i] \in Lots(s) /\ parts[i].cost = lots[i].cost
  <2> DEFINE lot == lots[i]
             k == part(i)
  <2>1. parts[i] = IF lot.symbol # e.symbol THEN lot ELSE [lot EXCEPT !.quantity = k]
    OBVIOUS
  <2>2. lot \in Lots(s) /\ (lot.symbol = e.symbol => k \in Nat \ {0})
    BY <1>1, <1>4
  <2> HIDE DEF lot, k, parts
  <2>3. lot.symbol \in s.symbols /\ lot.cost \in Nat
        /\ DOMAIN lot = {"symbol", "quantity", "cost"}
    BY <2>2 DEF Lots
  <2>4. [lot EXCEPT !.quantity = k] = [symbol |-> lot.symbol, quantity |-> k, cost |-> lot.cost]
    BY <2>3
  <2>5. parts[i] \in Lots(s) /\ parts[i].cost = lot.cost
    BY <2>1, <2>2, <2>3, <2>4 DEF Lots
  <2> QED BY <2>5 DEF lot
<1>6. DOMAIN parts = D /\ parts = [i \in D |-> parts[i]]
  OBVIOUS
<1>7. Basis(parts) = Basis(lots)
  <2> HIDE DEF parts, lots
  <2>1. parts \in [DOMAIN parts -> Lots(s)]
    BY <1>5, <1>6
  <2>2. /\ Basis(parts) = SumFunctionOnSet(Costs(parts), DOMAIN parts)
        /\ \A i \in DOMAIN parts : Costs(parts)[i] = parts[i].cost
    BY <1>1, <1>6, <2>1, BasisFacts
  <2>3. /\ Basis(lots) = SumFunctionOnSet(Costs(lots), D)
        /\ \A i \in D : Costs(lots)[i] = lots[i].cost /\ lots[i].cost \in Nat
    BY <1>1, BasisFacts
  <2>4. \A i \in D : Costs(lots)[i] \in Int /\ Costs(parts)[i] = Costs(lots)[i]
    BY <1>5, <1>6, <2>2, <2>3
  <2>5. SumFunctionOnSet(Costs(parts), D) = SumFunctionOnSet(Costs(lots), D)
    BY <1>1, <2>4, SumAgrees
  <2> QED BY <1>6, <2>2, <2>3, <2>5
<1>8. state.cash + Basis(lots) = s.cash + state.realized + state.income
  BY DEF Sound
<1> HIDE DEF parts, lots, D, books
<1>9. parts \in [DOMAIN parts -> Lots(s)]
  BY <1>5, <1>6
<1>10. DOMAIN parts \subseteq 1..n /\ state.cash + Basis(parts) = s.cash + state.realized + state.income
  BY <1>1, <1>6, <1>7, <1>8
<1> QED BY <1>1, <1>3, <1>9, <1>10, Balanced DEF books

LEMMA Dividends ==
  ASSUME NEW s, IsSettings(s), NEW state, NEW n \in Nat, Sound(s, state, n),
         NEW e, IsEntry(e), Acceptable(s, state, e), e.kind = "dividend"
  PROVE  Sound(s, Dividend(state, e), n)
<1> DEFINE lots == state.lots
           income == Gross(lots, e) - e.withholding
           books == Dividend(state, e)
<1>1. /\ state.cash \in Nat /\ state.realized \in Int /\ state.income \in Int
      /\ lots \in [DOMAIN lots -> Lots(s)] /\ Basis(lots) \in Nat
      /\ DOMAIN lots \subseteq 1..n /\ IsFiniteSet(DOMAIN lots)
  BY SoundFacts DEF Sound
<1>2. Held(lots, e.symbol) \in Nat
  <2> HIDE DEF lots
  <2>1. LotsOf(lots, e.symbol) \in SUBSET (DOMAIN lots)
    BY DEF LotsOf
  <2> QED BY <1>1, <2>1, SomeQuantity DEF Held
<1>3. Gross(lots, e) \in Nat
  <2> DEFINE h == Held(lots, e.symbol)
  <2>1. Scale \in Nat \ {0} /\ e.gross \in Nat
    BY ScaleAssumption DEF IsEntry
  <2>2. Gross(lots, e) = HalfEven(h * e.gross, Scale)
    BY Zenon DEF Gross
  <2> HIDE DEF h
  <2>3. h * e.gross \in Nat
    BY <1>2, <2>1 DEF h
  <2> QED BY <2>1, <2>2, <2>3, HalfEvenType
<1>4. e.withholding \in Nat /\ e.withholding =< Gross(lots, e)
  BY DEF IsEntry, Acceptable
<1>5. income \in Nat
  BY <1>3, <1>4
<1>6. books = [state EXCEPT !.cash = @ + income, !.income = @ + income]
  BY Zenon DEF Dividend
<1>7. books = [cash |-> state.cash + income, realized |-> state.realized,
               income |-> state.income + income, lots |-> lots]
  <2> HIDE DEF income, books
  <2> QED BY <1>6, Fields
<1>8. state.cash + Basis(lots) = s.cash + state.realized + state.income /\ s.cash \in Nat
  BY DEF Sound, IsSettings
<1> HIDE DEF income, lots, books
<1>9. state.cash + income \in Nat /\ state.income + income \in Int
  BY <1>1, <1>5
<1>10. state.cash + income + Basis(lots) = s.cash + state.realized + (state.income + income)
  BY <1>1, <1>5, <1>8
<1> QED BY <1>1, <1>7, <1>9, <1>10, Balanced DEF books

\* Every acceptable event leaves sound books.
LEMMA Applies ==
  ASSUME NEW s, IsSettings(s), NEW state, NEW n \in Nat, Sound(s, state, n),
         NEW e, IsEntry(e), Acceptable(s, state, e)
  PROVE  Sound(s, Apply(s, state, n + 1, e), n + 1)
<1>1. ASSUME NEW books, Sound(s, books, n) PROVE Sound(s, books, n + 1)
  <2>1. 1..n \subseteq 1..(n + 1)
    OBVIOUS
  <2> QED BY <1>1, <2>1 DEF Sound
<1>2. CASE e.kind = "buy"
  BY <1>2, Buys DEF Apply
<1>3. CASE e.kind = "sell"
  BY <1>1, <1>3, Sells DEF Apply
<1>4. CASE e.kind = "split"
  BY <1>1, <1>4, Splits DEF Apply
<1>5. CASE e.kind = "dividend"
  BY <1>1, <1>5, Dividends DEF Apply
<1>6. CASE e.kind \notin {"buy", "sell", "split", "dividend"}
  BY <1>1, <1>6 DEF Apply
<1> QED BY <1>2, <1>3, <1>4, <1>5, <1>6

LEMMA Opens == ASSUME NEW s, IsSettings(s) PROVE Sound(s, Initial(s), 1)
<1>1. DOMAIN <<>> = {} /\ <<>> \in [DOMAIN <<>> -> Lots(s)] /\ IsFiniteSet(DOMAIN <<>>)
  BY FS_EmptySet
<1>2. Basis(<<>>) = 0
  BY <1>1, BasisFacts, SumEmpty
<1>3. s.cash \in Nat /\ 0 \in Int /\ s.cash + Basis(<<>>) = s.cash + 0 + 0
  BY <1>2 DEF IsSettings
<1>4. DOMAIN <<>> \subseteq 1..1
  BY <1>1
<1> DEFINE none == <<>>
<1> HIDE DEF none
<1>5. Sound(s, [cash |-> s.cash, realized |-> 0, income |-> 0, lots |-> none], 1)
  BY <1>1, <1>3, <1>4, Balanced DEF none
<1> QED BY <1>5 DEF Initial, none

-------------------------------------------------------------------------------
(* Replays *)

\* One more event than a prefix.
NextBooks(p, ev, n) ==
  IF n = 1 THEN Initial(Settings(ev)) ELSE Apply(Settings(ev), p[n - 1], n, ev[n].entry)

\* A function that tells the books after each of the events of D.
IsReplay(p, ev, D) == p = [n \in D |-> NextBooks(p, ev, n)]

LEMMA ProjectionsAreChosen ==
  ASSUME NEW ev
  PROVE  Projections(ev) = CHOOSE p : IsReplay(p, ev, DOMAIN ev)
BY Zenon DEF Projections, IsReplay, NextBooks

\* Replays can be extended, so there is one of every history.
LEMMA ReplayExists ==
  ASSUME NEW ev, NEW n \in Nat
  PROVE  \E p : IsReplay(p, ev, 1..n)
<1> DEFINE S == {k \in Nat : \E p : IsReplay(p, ev, 1..k)}
<1>1. 0 \in S
  <2> DEFINE p == [k \in 1..0 |-> Initial(Settings(ev))]
  <2>1. p = [k \in 1..0 |-> NextBooks(p, ev, k)]
    OBVIOUS
  <2> HIDE DEF p
  <2> QED BY <2>1 DEF IsReplay
<1>2. ASSUME NEW k \in Nat, k \in S PROVE k + 1 \in S
  <2>1. PICK p : IsReplay(p, ev, 1..k)
    BY <1>2
  <2>2. \A i \in 1..k : p[i] = NextBooks(p, ev, i)
    BY <2>1 DEF IsReplay
  <2> DEFINE q == [i \in 1..(k + 1) |-> IF i \in 1..k THEN p[i] ELSE NextBooks(p, ev, i)]
  <2>3. \A i \in 1..k : q[i] = p[i]
    OBVIOUS
  <2>4. \A i \in 1..(k + 1) : q[i] = NextBooks(p, ev, i)
    BY <2>2
  <2>5. ASSUME NEW i \in 1..(k + 1) PROVE NextBooks(q, ev, i) = NextBooks(p, ev, i)
    <3>1. i # 1 => i - 1 \in 1..k
      OBVIOUS
    <3> HIDE DEF q
    <3>2. i # 1 => q[i - 1] = p[i - 1]
      BY <2>3, <3>1
    <3> QED BY <3>2 DEF NextBooks
  <2>6. q = [i \in 1..(k + 1) |-> q[i]]
    OBVIOUS
  <2> HIDE DEF q
  <2>7. q = [i \in 1..(k + 1) |-> NextBooks(q, ev, i)]
    BY <2>4, <2>5, <2>6
  <2> QED BY <2>7 DEF IsReplay
<1> HIDE DEF S
<1>3. Nat \subseteq S
  BY <1>1, <1>2, SetInduction
<1> QED BY <1>3 DEF S

\* What a history amounts to does not depend on what comes after it.
LEMMA ReplaysAgree ==
  ASSUME NEW ev, NEW more, NEW n \in Nat, NEW m \in Nat, n =< m,
         \A k \in 1..n : more[k] = ev[k],
         NEW p, IsReplay(p, ev, 1..n), NEW q, IsReplay(q, more, 1..m)
  PROVE  \A k \in 1..n : q[k] = p[k]
<1> DEFINE S == {k \in Nat : k \in 1..n => q[k] = p[k]}
<1>1. 0 \in S
  OBVIOUS
<1>2. ASSUME NEW k \in Nat, k \in S PROVE k + 1 \in S
  <2> SUFFICES ASSUME k + 1 \in 1..n PROVE q[k + 1] = p[k + 1]
    OBVIOUS
  <2>1. p[k + 1] = NextBooks(p, ev, k + 1)
    BY DEF IsReplay
  <2>2. q[k + 1] = NextBooks(q, more, k + 1)
    <3>1. k + 1 \in 1..m
      OBVIOUS
    <3> QED BY <3>1 DEF IsReplay
  <2>3. Settings(more) = Settings(ev) /\ more[k + 1] = ev[k + 1]
    BY DEF Settings
  <2>4. k + 1 # 1 => q[k] = p[k] /\ (k + 1) - 1 = k
    BY <1>2
  <2> QED BY <2>1, <2>2, <2>3, <2>4 DEF NextBooks
<1> HIDE DEF S
<1>3. Nat \subseteq S
  BY <1>1, <1>2, SetInduction
<1> QED BY <1>3 DEF S

LEMMA ProjectionsReplay ==
  ASSUME NEW ev, NEW n \in Nat, DOMAIN ev = 1..n
  PROVE  IsReplay(Projections(ev), ev, 1..n)
<1>1. \E p : IsReplay(p, ev, 1..n)
  BY ReplayExists
<1>2. Projections(ev) = CHOOSE p : IsReplay(p, ev, 1..n)
  BY ProjectionsAreChosen
<1> QED BY <1>1, <1>2, Zenon

LEMMA ProjectionOpens ==
  ASSUME NEW ev, Len(ev) = 1, DOMAIN ev = 1..1
  PROVE  Projection(ev) = Initial(Settings(ev))
<1>1. IsReplay(Projections(ev), ev, 1..1)
  BY ProjectionsReplay
<1> QED BY <1>1 DEF Projection, IsReplay, NextBooks

\* An event is booked on what the events before it amount to.
LEMMA ProjectionGrows ==
  ASSUME NEW ev, NEW more, NEW n \in Nat \ {0},
         Len(ev) = n, DOMAIN ev = 1..n, Len(more) = n + 1, DOMAIN more = 1..(n + 1),
         \A k \in 1..n : more[k] = ev[k]
  PROVE  /\ Settings(more) = Settings(ev)
         /\ Projection(more) = Apply(Settings(ev), Projection(ev), n + 1, more[n + 1].entry)
<1>1. Settings(more) = Settings(ev)
  BY DEF Settings
<1>2. IsReplay(Projections(ev), ev, 1..n) /\ IsReplay(Projections(more), more, 1..(n + 1))
  BY ProjectionsReplay
<1>3. Projections(more)[n] = Projections(ev)[n]
  BY <1>2, ReplaysAgree
<1>4. Projections(more)[n + 1] = NextBooks(Projections(more), more, n + 1)
  BY <1>2 DEF IsReplay
<1>5. n + 1 # 1 /\ (n + 1) - 1 = n
  OBVIOUS
<1>6. NextBooks(Projections(more), more, n + 1)
        = Apply(Settings(more), Projections(more)[n], n + 1, more[n + 1].entry)
  BY <1>5 DEF NextBooks
<1> QED BY <1>1, <1>3, <1>4, <1>6 DEF Projection

-------------------------------------------------------------------------------
(* The inductive invariant of PaperLedger *)

\* A delivery that was served is a body and the events it read.
Shape ==
  /\ DOMAIN mem = Deliveries
  /\ \A d \in Deliveries : {"body", "read"} \subseteq DOMAIN mem[d]

\* An experiment's creation expects nothing before it.
CreationExpectsNothing ==
  \A i \in DOMAIN events : Created(events[i].entry) => events[i].expected = 0

\* What was read is what is there, or something was appended since.
Seen(d) ==
  /\ Len(mem[d].read) \in Nat
  /\ Len(mem[d].read) =< Len(events)
  /\ Len(mem[d].read) = Len(events) => mem[d].read = events

\* The checks that were made of what was read.
Prepared(d) ==
  /\ Seen(d)
  /\ ~Taken(mem[d].read, mem[d].body)
  /\ Writable(mem[d].read, mem[d].body)
  /\ Dated(mem[d].body.entry) =>
       mem[d].body.entry.session \in Nat /\ mem[d].body.entry.session =< session
  /\ place[d] = "append" => Appendable(mem[d].read, mem[d].body)

Pending(d) ==
  place[d] \notin Idle =>
    /\ Created(mem[d].body.entry) <=> place[d] = "create"
    /\ Created(mem[d].body.entry) => mem[d].body.expected = 0
    /\ place[d] # "create" => events # <<>>
    /\ place[d] \in {"capture", "append"} => Prepared(d)

PaperInv ==
  /\ PaperTypeOK /\ OncePerRequest
  /\ Shape /\ CreationExpectsNothing
  /\ \A d \in Deliveries : Pending(d)

-------------------------------------------------------------------------------
(* Lemmas *)

\* What the type of a history gives.
LEMMA EventFacts ==
  ASSUME PaperTypeOK
  PROVE  /\ Len(events) \in Nat /\ DOMAIN events = 1..Len(events)
         /\ events = <<>> <=> Len(events) = 0
         /\ \A i \in DOMAIN events : IsEvent(events[i])
BY DEF PaperTypeOK

\* A label and a memory are written together.
LEMMA StepFacts ==
  ASSUME PaperTypeOK, Shape, NEW d \in Deliveries, NEW label \in Places, NEW m, Step(d, label, m)
  PROVE  /\ place' \in [Deliveries -> Places] /\ place'[d] = label
         /\ label \notin Idle => mem'[d] = m
         /\ DOMAIN mem' = Deliveries
         /\ {"body", "read"} \subseteq DOMAIN m => Shape'
         /\ \A e \in Deliveries \ {d} : place'[e] = place[e] /\ mem'[e] = mem[e]
BY DEF Step, PaperTypeOK, Shape, NoMemory

\* An event that is put on top of the others.
LEMMA GrowthFacts ==
  ASSUME PaperTypeOK, NEW e, IsEvent(e), Len(events) < Budget,
         events' = Append(events, e)
  PROVE  /\ events' \in Seq({x \in {events'[i] : i \in DOMAIN events'} : IsEvent(x)})
         /\ Len(events') = Len(events) + 1 /\ Len(events') =< Budget
         /\ DOMAIN events' = DOMAIN events \cup {Len(events) + 1}
         /\ events'[Len(events) + 1] = e
         /\ \A i \in DOMAIN events : events'[i] = events[i]
<1> DEFINE S == {x \in {events[i] : i \in DOMAIN events} : IsEvent(x)}
           T == {x \in {events'[i] : i \in DOMAIN events'} : IsEvent(x)}
<1>1. events \in Seq(S)
  BY DEF PaperTypeOK
<1>2. /\ Len(events) \in Nat /\ DOMAIN events = 1..Len(events)
      /\ Len(events') = Len(events) + 1
      /\ DOMAIN events' = 1..(Len(events) + 1)
      /\ events'[Len(events) + 1] = e
      /\ \A i \in DOMAIN events : events'[i] = events[i]
  BY <1>1
<1>3. S \subseteq T /\ e \in T
  BY <1>2
<1>4. events \in Seq(T)
  BY <1>1, <1>3
<1>5. events' \in Seq(T)
  BY <1>3, <1>4
<1>6. Len(events') <= Budget /\ DOMAIN events' = DOMAIN events \cup {Len(events) + 1}
  BY <1>2, BudgetAssumption
<1> HIDE DEF S
<1> QED BY <1>2, <1>5, <1>6

\* The addition to a history is the request that was sent.
LEMMA AdditionIsTheRequest ==
  ASSUME NEW read, NEW body \in Bodies
  PROVE  IsEvent(Addition(read, body)) /\ Body(Addition(read, body)) = body
BY DEF Addition, IsEvent, Body, Bodies

\* Whoever is not served in a step stays where it is, whatever the others append.
LEMMA Undisturbed ==
  ASSUME PaperInv, NEW e \in Deliveries, place'[e] = place[e], mem'[e] = mem[e],
         session' \in {session, session + 1},
         \/ events' = events
         \/ \E x : events' = Append(events, x)
  PROVE  Pending(e)'
<1>1. Len(events) \in Nat /\ session \in Nat
  BY EventFacts DEF PaperInv, PaperTypeOK
<1>2. Len(events') \in Nat /\ (events' = events \/ Len(events') > Len(events))
  BY <1>1 DEF PaperInv, PaperTypeOK
<1>3. events # <<>> => events' # <<>>
  BY <1>1, <1>2, EventFacts DEF PaperInv
<1>4. ASSUME Seen(e) PROVE Seen(e)'
  BY <1>1, <1>2, <1>4 DEF Seen
<1>5. ASSUME Prepared(e) PROVE Prepared(e)'
  <2>1. Seen(e)'
    BY <1>4, <1>5 DEF Prepared
  <2>2. ~Taken(mem'[e].read, mem'[e].body) /\ Writable(mem'[e].read, mem'[e].body)
    BY <1>5 DEF Prepared
  <2>3. place'[e] = "append" => Appendable(mem'[e].read, mem'[e].body)
    BY <1>5 DEF Prepared
  <2>4. Dated(mem'[e].body.entry) =>
          mem'[e].body.entry.session \in Nat /\ mem'[e].body.entry.session <= session
    BY <1>5 DEF Prepared
  <2>5. ASSUME Dated(mem'[e].body.entry)
        PROVE  mem'[e].body.entry.session \in Nat /\ mem'[e].body.entry.session <= session'
    <3> DEFINE k == mem'[e].body.entry.session
    <3>1. k \in Nat /\ k <= session
      BY <2>4, <2>5
    <3> HIDE DEF k
    <3>2. k \in Nat /\ k <= session'
      BY <1>1, <3>1
    <3> QED BY <3>2 DEF k
  <2> QED BY <2>1, <2>2, <2>3, <2>5 DEF Prepared
<1> QED BY <1>3, <1>5 DEF PaperInv, Pending

-------------------------------------------------------------------------------
(* Every action of PaperLedger preserves it *)

LEMMA PaperInitially == PaperInit => PaperInv
<1>1. Budget \in Nat \ {0} /\ MaxSession \in Nat
  BY BudgetAssumption
<1>2. PaperInit => PaperTypeOK
  BY <1>1 DEF PaperInit, PaperTypeOK, Places, Idle
<1> QED BY <1>2 DEF PaperInit, PaperInv, Shape, CreationExpectsNothing, Pending, OncePerRequest, Idle, NoMemory

\* A step that leaves the history and the session alone has to look after the
\* delivery that takes it.
LEMMA Moves ==
  ASSUME PaperInv, NEW d \in Deliveries, NEW label \in Places, NEW m, Step(d, label, m),
         {"body", "read"} \subseteq DOMAIN m, UNCHANGED <<events, session>>,
         label \notin Idle => m.body \in Bodies /\ Pending(d)'
  PROVE  PaperInv'
<1>1. PaperTypeOK /\ Shape
  BY DEF PaperInv
<1>2. PaperTypeOK' /\ Shape' /\ OncePerRequest' /\ CreationExpectsNothing'
  BY <1>1, StepFacts DEF PaperInv, PaperTypeOK, OncePerRequest, CreationExpectsNothing
<1>3. ASSUME NEW e \in Deliveries PROVE Pending(e)'
  <2>1. CASE e # d
    BY <1>1, <2>1, StepFacts, Undisturbed
  <2>2. CASE e = d
    BY <1>1, <2>2, StepFacts DEF Pending
  <2> QED BY <2>1, <2>2
<1> QED BY <1>2, <1>3 DEF PaperInv

LEMMA Delivers ==
  ASSUME PaperInv, NEW d \in Deliveries, Deliver(d)
  PROVE  PaperInv'
<1>1. PaperTypeOK /\ Shape
  BY DEF PaperInv
<1>2. PICK q \in RequestIds, entry \in Entries, n \in 0..Budget :
        LET body == [request |-> q, entry |-> entry, expected |-> n]
        IN  /\ Fresh(body) \/ Repeated(body)
            /\ Step(d, IF Created(entry) THEN "create" ELSE "get", [body |-> body, read |-> <<>>])
  BY DEF Deliver
<1> DEFINE body == [request |-> q, entry |-> entry, expected |-> n]
           label == IF Created(entry) THEN "create" ELSE "get"
<1>3. body \in Bodies /\ label \in Places \ Idle
  BY DEF Bodies, Places, Idle
<1>4. /\ Created(entry) => n = 0
      /\ ~Created(entry) => events # <<>>
  <2>1. CASE Fresh(body)
    BY <2>1 DEF Fresh
  <2>2. ASSUME NEW i \in DOMAIN events, body = Body(events[i])
        PROVE  (Created(entry) => n = 0) /\ events # <<>>
    BY <1>1, <2>2, EventFacts DEF PaperInv, CreationExpectsNothing, Body
  <2>3. ASSUME NEW e \in Deliveries, place[e] \notin Idle, body = mem[e].body
        PROVE  (Created(entry) => n = 0) /\ (~Created(entry) => events # <<>>)
    BY <2>3 DEF PaperInv, Pending
  <2> QED BY <1>2, <2>1, <2>2, <2>3 DEF Repeated
<1>5. Pending(d)'
  <2>1. place'[d] = label /\ mem'[d] = [body |-> body, read |-> <<>>] /\ events' = events
    BY <1>1, <1>2, <1>3, StepFacts DEF Deliver
  <2> QED BY <1>4, <2>1 DEF Pending
<1> QED BY <1>2, <1>3, <1>5, Moves DEF Deliver

LEMMA Creates ==
  ASSUME PaperInv, NEW d \in Deliveries, Create(d)
  PROVE  PaperInv'
<1> DEFINE body == mem[d].body
<1>1. PaperTypeOK /\ Shape /\ place[d] \notin Idle /\ body \in Bodies
  BY DEF Create, PaperInv, PaperTypeOK, Idle
<1>2. PICK label \in {"answered", "refused"} : Step(d, label, mem[d])
  BY DEF Create, MoveTo
<1>3. label \in Places /\ label \in Idle /\ {"body", "read"} \subseteq DOMAIN mem[d]
  BY <1>1 DEF Places, Idle, Shape
<1>4. CASE events # <<>>
  BY <1>2, <1>3, <1>4, Moves DEF Create
<1>5. CASE events = <<>>
  <2>1. events' = Append(events, Addition(<<>>, body)) /\ session' = session
    BY <1>5 DEF Create
  <2>2. IsEvent(Addition(<<>>, body)) /\ Body(Addition(<<>>, body)) = body
    BY <1>1, AdditionIsTheRequest
  <2>3. Created(body.entry) /\ body.expected = 0
    BY <1>1 DEF Create, PaperInv, Pending
  <2>4. PaperTypeOK' /\ Shape' /\ OncePerRequest' /\ CreationExpectsNothing'
    <3>1. Len(events) = 0 /\ DOMAIN events = {} /\ 0 < Budget
      BY <1>1, <1>5, EventFacts, BudgetAssumption
    <3> QED BY <1>1, <1>2, <1>3, <2>1, <2>2, <2>3, <3>1, GrowthFacts, StepFacts
            DEF PaperTypeOK, OncePerRequest, CreationExpectsNothing, Body
  <2>5. ASSUME NEW e \in Deliveries PROVE Pending(e)'
    <3>1. CASE e # d
      BY <1>1, <1>2, <1>3, <2>1, <3>1, StepFacts, Undisturbed
    <3>2. CASE e = d
      BY <1>1, <1>2, <1>3, <3>2, StepFacts DEF Pending
    <3> QED BY <3>1, <3>2
  <2> QED BY <2>4, <2>5 DEF PaperInv
<1> QED BY <1>4, <1>5

LEMMA Gets ==
  ASSUME PaperInv, NEW d \in Deliveries, Get(d)
  PROVE  PaperInv'
<1> DEFINE body == mem[d].body
           label == NextOf(body)
           m == [mem[d] EXCEPT !.read = events]
<1>1. PaperTypeOK /\ Shape /\ place[d] \notin Idle /\ body \in Bodies
  BY DEF Get, PaperInv, PaperTypeOK, Idle
<1>2. m.body = body /\ m.read = events /\ {"body", "read"} \subseteq DOMAIN m
  BY <1>1 DEF Shape
<1>3. label \in {"answered", "refused", "capture", "append"}
  BY DEF NextOf
<1>4. ASSUME label \in {"capture", "append"}
      PROVE  /\ ~Taken(events, body) /\ Writable(events, body)
             /\ Dated(body.entry) => body.entry.session = session /\ label = "capture"
             /\ ~Dated(body.entry) => Appendable(events, body)
  BY <1>4 DEF NextOf
<1>5. label \notin Idle => Pending(d)'
  <2> SUFFICES ASSUME label \in {"capture", "append"} PROVE Pending(d)'
    BY <1>3 DEF Idle
  <2>1. label \in Places /\ label \notin Idle
    BY <1>3 DEF Places, Idle
  <2>2. /\ place'[d] = label /\ mem'[d] = m
        /\ events' = events /\ session' = session /\ session \in Nat
    BY <1>1, <2>1, StepFacts DEF Get, PaperTypeOK
  <2>3. Prepared(d)'
    BY <1>1, <1>2, <1>4, <2>2, EventFacts DEF Prepared, Seen
  <2>4. ~Created(body.entry) /\ events # <<>>
    BY <1>1 DEF Get, PaperInv, Pending
  <2> QED BY <1>2, <2>2, <2>3, <2>4 DEF Pending
<1>6. label \in Places /\ Step(d, label, m) /\ UNCHANGED <<events, session>>
  BY <1>3 DEF Places, Idle, Get
<1> HIDE DEF label, m
<1> QED BY <1>1, <1>2, <1>5, <1>6, Moves

LEMMA Captures ==
  ASSUME PaperInv, NEW d \in Deliveries, Capture(d)
  PROVE  PaperInv'
<1>1. PaperTypeOK /\ Shape /\ place[d] = "capture" /\ mem[d].body \in Bodies /\ Pending(d)
  BY DEF Capture, PaperInv, PaperTypeOK, Idle
<1>2. PICK label \in {"append", "refused"} :
        /\ Step(d, label, mem[d])
        /\ label = "append" => Appendable(mem[d].read, mem[d].body)
  BY DEF Capture, MoveTo
<1>3. label \in Places /\ {"body", "read"} \subseteq DOMAIN mem[d]
  BY <1>1 DEF Places, Idle, Shape
<1>4. label \notin Idle => Pending(d)'
  <2> SUFFICES ASSUME label = "append" PROVE Pending(d)'
    BY <1>2 DEF Idle
  <2>1. place'[d] = "append" /\ mem'[d] = mem[d] /\ events' = events /\ session' = session
    BY <1>1, <1>2, <1>3, StepFacts DEF Capture, Idle
  <2> QED BY <1>1, <1>2, <2>1 DEF Pending, Prepared, Seen, Idle
<1> QED BY <1>1, <1>2, <1>3, <1>4, Moves DEF Capture

\* Where the sequences agree the histories do.
LEMMA PutFacts ==
  ASSUME PaperInv, NEW d \in Deliveries, Put(d)
  PROVE  /\ PaperTypeOK /\ Shape /\ mem[d].body \in Bodies /\ events # <<>>
         /\ mem[d].read = events
         /\ ~Taken(events, mem[d].body) /\ Writable(events, mem[d].body)
         /\ Appendable(events, mem[d].body) /\ ~Created(mem[d].body.entry)
         /\ Dated(mem[d].body.entry) => mem[d].body.entry.session = session
<1>1. PaperTypeOK /\ Shape /\ place[d] = "append" /\ mem[d].body \in Bodies /\ Pending(d)
  BY DEF Put, PaperInv, PaperTypeOK, Idle
<1>2. Prepared(d) /\ ~Created(mem[d].body.entry) /\ events # <<>>
  BY <1>1 DEF Pending, Idle
<1>3. InTurn(d) /\ session \in Nat
  BY <1>1 DEF Put, PaperTypeOK
<1> QED BY <1>1, <1>2, <1>3 DEF Prepared, Seen, InTurn

LEMMA Puts ==
  ASSUME PaperInv, NEW d \in Deliveries, Put(d)
  PROVE  PaperInv'
<1> DEFINE body == mem[d].body
           added == Addition(events, body)
<1>1. PICK label \in {"answered", "refused"} : Step(d, label, mem[d])
  BY DEF Put, MoveTo
<1>2. label \in Places /\ label \in Idle /\ {"body", "read"} \subseteq DOMAIN mem[d]
  BY PutFacts DEF Places, Idle, Shape
<1>3. events' = Append(events, added) /\ session' = session
  BY PutFacts DEF Put
<1>4. IsEvent(added) /\ Body(added) = body /\ Len(events) < Budget
  BY PutFacts, AdditionIsTheRequest DEF Appendable
<1>5. PaperTypeOK' /\ Shape'
  <2>1. Shape' /\ place' \in [Deliveries -> Places]
    BY <1>1, <1>2, PutFacts, StepFacts
  <2>2. ASSUME NEW e \in Deliveries, place'[e] \notin Idle PROVE mem'[e].body \in Bodies
    <3>1. e # d /\ place'[e] = place[e] /\ mem'[e] = mem[e]
      BY <1>1, <1>2, <2>2, PutFacts, StepFacts
    <3> QED BY <2>2, <3>1, PutFacts DEF PaperTypeOK
  <2>3. events' \in Seq({x \in {events'[i] : i \in DOMAIN events'} : IsEvent(x)})
    BY <1>3, <1>4, PutFacts, GrowthFacts
  <2>4. Len(events') =< Budget /\ session' \in 0..MaxSession
    BY <1>3, <1>4, PutFacts, GrowthFacts DEF PaperTypeOK
  <2> QED BY <2>1, <2>2, <2>3, <2>4 DEF PaperTypeOK
<1>6. OncePerRequest'
  <2>1. \A i \in DOMAIN events : events[i].request # added.request
    BY <1>4, PutFacts DEF Taken, Body
  <2> QED BY <1>3, <1>4, <2>1, PutFacts, GrowthFacts DEF PaperInv, OncePerRequest
<1>7. CreationExpectsNothing'
  <2>1. ~Created(added.entry)
    BY <1>4, PutFacts DEF Body
  <2> QED BY <1>3, <1>4, <2>1, PutFacts, GrowthFacts DEF PaperInv, CreationExpectsNothing
<1>8. ASSUME NEW e \in Deliveries PROVE Pending(e)'
  <2>1. CASE e # d
    BY <1>1, <1>2, <1>3, <2>1, PutFacts, StepFacts, Undisturbed
  <2>2. CASE e = d
    BY <1>1, <1>2, <2>2, PutFacts, StepFacts DEF Pending
  <2> QED BY <2>1, <2>2
<1> QED BY <1>5, <1>6, <1>7, <1>8 DEF PaperInv

LEMMA MissesRereadsFails ==
  ASSUME PaperInv, NEW d \in Deliveries, Miss(d) \/ Reread(d) \/ Fail(d)
  PROVE  PaperInv'
<1>1. PaperTypeOK /\ Shape /\ place[d] \notin Idle /\ mem[d].body \in Bodies /\ Pending(d)
  BY DEF Miss, Reread, Fail, PaperInv, PaperTypeOK, Idle
<1>2. PICK label \in {"answered", "refused", "reread"} :
        Step(d, label, mem[d]) /\ (label = "reread" => place[d] = "append")
  BY DEF Miss, Reread, Fail, MoveTo
<1>3. label \in Places /\ {"body", "read"} \subseteq DOMAIN mem[d]
  BY <1>1 DEF Places, Idle, Shape
<1>4. UNCHANGED <<events, session>>
  BY DEF Miss, Reread, Fail
<1>5. label \notin Idle => Pending(d)'
  <2> SUFFICES ASSUME label = "reread" PROVE Pending(d)'
    BY <1>2 DEF Idle
  <2>1. place'[d] = "reread" /\ mem'[d] = mem[d]
    BY <1>1, <1>2, <1>3, StepFacts DEF Idle
  <2> QED BY <1>1, <1>2, <1>4, <2>1 DEF Pending, Idle
<1> QED BY <1>1, <1>2, <1>3, <1>4, <1>5, Moves

LEMMA SessionsClose ==
  ASSUME PaperInv, NextClose
  PROVE  PaperInv'
<1>1. ASSUME NEW e \in Deliveries PROVE Pending(e)'
  BY <1>1, Undisturbed DEF NextClose
<1>2. PaperTypeOK' /\ Shape' /\ OncePerRequest' /\ CreationExpectsNothing'
  BY BudgetAssumption DEF NextClose, PaperInv, PaperTypeOK, Shape, OncePerRequest, CreationExpectsNothing
<1> QED BY <1>1, <1>2 DEF PaperInv

LEMMA PaperInductive == ASSUME PaperInv, [PaperNext]_ledger PROVE PaperInv'
<1>1. CASE UNCHANGED ledger
  BY <1>1 DEF ledger, PaperInv, PaperTypeOK, Shape, OncePerRequest, CreationExpectsNothing, Pending,
     Prepared, Seen
<1>2. CASE NextClose
  BY <1>2, SessionsClose
<1>3. ASSUME NEW d \in Deliveries,
             \/ Deliver(d) \/ Create(d) \/ Get(d) \/ Capture(d)
             \/ Put(d) \/ Miss(d) \/ Reread(d) \/ Fail(d)
      PROVE  PaperInv'
  BY <1>3, Delivers, Creates, Gets, Captures, Puts, MissesRereadsFails
<1> QED BY <1>1, <1>2, <1>3 DEF PaperNext

LEMMA PaperInvariance == PaperSpec => []PaperInv
<1>1. PaperInv /\ [PaperNext]_ledger => PaperInv' BY PaperInductive
<1> QED BY <1>1, PaperInitially, PTL DEF PaperSpec

-------------------------------------------------------------------------------
(* The theorems *)

\* The history of an experiment is well formed and never exceeds its budget,
\* whatever the requests, the budget and the number of deliveries.
THEOREM PaperTypeCorrect == PaperSpec => []PaperTypeOK
<1>1. PaperInv => PaperTypeOK
  BY DEF PaperInv
<1> QED BY <1>1, PaperInvariance, PTL

\* However often and however concurrently a request is sent, create, journal and
\* refresh record it at most once.
THEOREM RecordedOnce == PaperSpec => []OncePerRequest
<1>1. PaperInv => OncePerRequest
  BY DEF PaperInv
<1> QED BY <1>1, PaperInvariance, PTL

\* Whoever is told by create, journal or refresh that a request is recorded can rely
\* on it, inputs included.
THEOREM AnswersHold == PaperSpec => AnswersAreRecorded
<1> DEFINE Answered(d) == place'[d] = "answered" /\ place[d] # "answered"
           Told(d) == \E i \in DOMAIN events' : Body(events'[i]) = mem[d].body
<1>1. ASSUME PaperInv, [PaperNext]_ledger, NEW d \in Deliveries, Answered(d)
      PROVE  Told(d)
  <2>1. PaperTypeOK /\ Shape
    BY <1>1 DEF PaperInv
  <2>2. PICK e \in Deliveries :
          \/ Deliver(e) \/ Create(e) \/ Get(e) \/ Capture(e)
          \/ Put(e) \/ Miss(e) \/ Reread(e) \/ Fail(e)
    BY <1>1 DEF PaperNext, ledger, NextClose
  <2>3. ASSUME NEW label \in Places, NEW m, Step(e, label, m) PROVE label = "answered" /\ e = d
    BY <1>1, <2>1, <2>3, StepFacts
  <2>4. CASE Deliver(e)
    <3>1. PICK label \in {"create", "get"} : \E m : Step(e, label, m)
      BY <2>4 DEF Deliver
    <3>2. PICK m : Step(e, label, m)
      BY <3>1
    <3> QED BY <2>3, <3>2 DEF Places
  <2>5. CASE Create(e)
    <3>1. PICK label \in {"answered", "refused"} :
            Step(e, label, mem[e]) /\ (label = "answered" => Body(events'[1]) = mem[e].body)
      BY <2>5 DEF Create, MoveTo
    <3>2. Body(events'[1]) = mem[d].body
      BY <2>3, <3>1 DEF Places, Idle
    <3>3. 1 \in DOMAIN events'
      BY <2>1, <2>5, EventFacts DEF Create
    <3> QED BY <3>2, <3>3
  <2>6. CASE Get(e)
    <3>1. NextOf(mem[e].body) \in Places
      BY DEF NextOf, Places, Idle
    <3>2. NextOf(mem[d].body) = "answered" /\ events' = events
      BY <2>3, <2>6, <3>1 DEF Get
    <3>3. Replays(events, mem[d].body)
      BY <3>2 DEF NextOf
    <3> QED BY <3>2, <3>3 DEF Replays
  <2>7. CASE Put(e)
    <3>1. PICK label \in {"answered", "refused"} : Step(e, label, mem[e])
      BY <2>7 DEF Put, MoveTo
    <3>2. e = d
      BY <2>3, <3>1 DEF Places, Idle
    <3>3. /\ mem[d].read = events /\ mem[d].body \in Bodies
          /\ events' = Append(events, Addition(events, mem[d].body))
      BY <1>1, <2>7, <3>2, PutFacts DEF Put
    <3> QED BY <2>1, <3>3, AdditionIsTheRequest, EventFacts
  <2>8. CASE Reread(e)
    <3>1. PICK label \in {"answered", "refused"} :
            Step(e, label, mem[e]) /\ (label = "answered" => Replays(events, mem[e].body))
      BY <2>8 DEF Reread, MoveTo
    <3>2. Replays(events, mem[d].body) /\ events' = events
      BY <2>3, <2>8, <3>1 DEF Places, Idle, Reread
    <3> QED BY <3>2 DEF Replays
  <2>9. CASE Capture(e) \/ Miss(e) \/ Fail(e)
    <3>1. PICK label \in {"append", "refused", "reread"} : Step(e, label, mem[e])
      BY <2>9 DEF Capture, Miss, Fail, MoveTo
    <3> QED BY <2>3, <3>1 DEF Places, Idle
  <2> QED BY <2>2, <2>4, <2>5, <2>6, <2>7, <2>8, <2>9
<1>2. PaperInv /\ [PaperNext]_ledger => [\A d \in Deliveries : Answered(d) => Told(d)]_ledger
  BY <1>1
<1> QED BY <1>2, PaperInvariance, PTL DEF PaperSpec, AnswersAreRecorded

-------------------------------------------------------------------------------
(* Refinement *)

\* The steps that add to the history, and what they add.
LEMMA Additions ==
  ASSUME PaperInv, PaperNext, events' # events
  PROVE  \E d \in Deliveries :
           /\ session' = session /\ mem[d].body \in Bodies
           /\ events' = Append(events, Addition(events, mem[d].body))
           /\ \/ /\ events = <<>> /\ Created(mem[d].body.entry) /\ mem[d].body.expected = 0
              \/ Put(d)
<1>1. PICK d \in Deliveries : Create(d) \/ Put(d)
  BY DEF PaperNext, Deliver, Get, Capture, Miss, Reread, Fail, NextClose
<1>2. CASE Create(d)
  <2>1. mem[d].body \in Bodies /\ Created(mem[d].body.entry) /\ mem[d].body.expected = 0
    BY <1>2 DEF Create, PaperInv, PaperTypeOK, Pending, Idle
  <2>2. events = <<>> /\ events' = <<Addition(<<>>, mem[d].body)>>
    BY <1>2 DEF Create
  <2>3. events' = Append(events, Addition(events, mem[d].body))
    BY <2>2
  <2> QED BY <1>2, <2>1, <2>2, <2>3 DEF Create
<1>3. CASE Put(d)
  BY <1>3, PutFacts DEF Put
<1> QED BY <1>1, <1>2, <1>3

\* The books after the events so far are sound.
Books ==
  events # <<>> =>
    /\ Created(events[1].entry) /\ IsSettings(Settings(events))
    /\ Sound(Settings(events), Projection(events), Len(events))

LEMMA BooksStaySound == ASSUME PaperInv, Books, [PaperNext]_ledger PROVE Books'
<1>1. CASE events' = events
  BY <1>1 DEF Books
<1>2. CASE events' # events
  <2>1. PICK d \in Deliveries :
         /\ mem[d].body \in Bodies
         /\ events' = Append(events, Addition(events, mem[d].body))
         /\ \/ events = <<>> /\ Created(mem[d].body.entry)
            \/ Put(d)
    BY <1>2, Additions DEF ledger
  <2> DEFINE body == mem[d].body
             e == Addition(events, body)
             n == Len(events)
  <2>2. PaperTypeOK /\ IsEvent(e) /\ e.entry = body.entry
    BY <2>1, AdditionIsTheRequest DEF PaperInv, Addition
  <2>3. IsEntry(body.entry)
    BY <2>1, EntriesAssumption DEF Bodies
  <2>4. n \in Nat /\ DOMAIN events = 1..n /\ (events = <<>> <=> n = 0)
    BY <2>2, EventFacts
  <2> HIDE DEF e
  <2>5. CASE events = <<>> /\ Created(body.entry)
    <3>1. events' = <<e>> /\ Len(events') = 1 /\ DOMAIN events' = 1..1 /\ events'[1] = e
      BY <2>1, <2>5 DEF e
    <3>2. Settings(events') = body.entry.settings /\ IsSettings(Settings(events'))
      BY <2>2, <2>3, <2>5, <3>1 DEF Settings, IsEntry, Created
    <3>3. Sound(Settings(events'), Projection(events'), Len(events'))
      BY <3>1, <3>2, ProjectionOpens, Opens
    <3> QED BY <2>2, <2>5, <3>1, <3>2, <3>3 DEF Books
  <2>6. CASE Put(d)
    <3>1. /\ events # <<>> /\ Len(events) < Budget
          /\ Accepts(events, body.entry)
      BY <2>6, PutFacts DEF Appendable
    <3>2. /\ Len(events') = n + 1 /\ DOMAIN events' = 1..(n + 1) /\ events'[n + 1] = e
          /\ \A k \in 1..n : events'[k] = events[k]
      BY <2>1, <2>2, <2>4, <3>1, GrowthFacts DEF e
    <3>3. n \in Nat \ {0}
      BY <2>4, <3>1
    <3> DEFINE s == Settings(events)
               state == Projection(events)
    <3>4. Settings(events') = s /\ Projection(events') = Apply(s, state, n + 1, e.entry)
      <4> HIDE DEF n
      <4> QED BY <2>4, <3>2, <3>3, ProjectionGrows DEF n
    <3>5. Created(events[1].entry) /\ IsSettings(s) /\ Sound(s, state, n)
      BY <3>1 DEF Books
    <3>6. Acceptable(s, state, body.entry)
      BY <3>1 DEF Accepts
    <3> HIDE DEF s, state
    <3>7. Sound(s, Apply(s, state, n + 1, e.entry), n + 1)
      BY <2>2, <2>3, <3>3, <3>5, <3>6, Applies
    <3>8. events'[1] = events[1]
      BY <3>2, <3>3
    <3> QED BY <3>2, <3>4, <3>5, <3>7, <3>8 DEF Books
  <2> QED BY <2>1, <2>5, <2>6
<1> QED BY <1>1, <1>2

\* After every event that is recorded, through partial sales, splits, dividends and
\* rounding to cents, cash and the cost of the lots that are held are the initial
\* cash, the realized gains and the income; cash is never negative and no lot is
\* empty.  For any settings, prices, quantities and number of events.
THEOREM BooksAreBalanced == PaperSpec => []BooksBalance
<1>1. PaperInit => Books
  BY DEF PaperInit, Books
<1>2. PaperInv /\ Books /\ [PaperNext]_ledger => Books'
  BY BooksStaySound
<1>3. PaperInv /\ Books => BooksBalance
  <2> SUFFICES ASSUME PaperInv, Books, events # <<>>
               PROVE  LET books == Projection(events)
                      IN  /\ books.cash >= 0
                          /\ \A k \in DOMAIN books.lots : books.lots[k].quantity > 0
                          /\ books.cash + Basis(books.lots)
                               = Settings(events).cash + books.realized + books.income
    BY DEF BooksBalance
  <2> DEFINE books == Projection(events)
             s == Settings(events)
  <2>1. Sound(s, books, Len(events))
    BY DEF Books
  <2> HIDE DEF books, s
  <2>2. /\ books.cash >= 0 /\ books.cash + Basis(books.lots) = s.cash + books.realized + books.income
        /\ \A k \in DOMAIN books.lots : books.lots[k].quantity > 0
    BY <2>1 DEF Sound, Lots
  <2> QED BY <2>2 DEF books, s
<1> QED BY <1>1, <1>2, <1>3, PaperInvariance, PTL DEF PaperSpec

\* A valuation is recorded before the next close, over the positions of its moment,
\* although refresh waited for prices between reading the history and extending it.
THEOREM ValuationsAreCurrent == PaperSpec => ValuationIsCurrent
<1> DEFINE Current(i) == Dated(events'[i].entry) =>
             /\ events'[i].entry.session = session
             /\ events'[i].marks = Positions(events)
<1>1. ASSUME PaperInv, [PaperNext]_ledger, NEW i \in DOMAIN events' \ DOMAIN events
      PROVE  Current(i)
  <2>1. PaperNext /\ events' # events
    BY <1>1 DEF ledger
  <2>2. PICK d \in Deliveries :
           /\ session' = session /\ mem[d].body \in Bodies
           /\ events' = Append(events, Addition(events, mem[d].body))
           /\ \/ events = <<>> /\ Created(mem[d].body.entry) /\ mem[d].body.expected = 0
              \/ Put(d)
    BY <1>1, <2>1, Additions
  <2>3. events'[i] = Addition(events, mem[d].body)
    BY <1>1, <2>2, EventFacts DEF PaperInv
  <2>4. events'[i].entry = mem[d].body.entry
    BY <2>3 DEF Addition
  <2>5. Dated(mem[d].body.entry) =>
          events'[i].marks = Positions(events) /\ mem[d].body.entry.session = session
    BY <1>1, <2>2, <2>3, PutFacts DEF Addition, Dated, Created
  <2> QED BY <2>4, <2>5
<1>2. PaperInv /\ [PaperNext]_ledger => [\A i \in DOMAIN events' \ DOMAIN events : Current(i)]_ledger
  BY <1>1
<1> QED BY <1>2, PaperInvariance, PTL DEF PaperSpec, ValuationIsCurrent

\* The filtered update of append makes every request one atomic step on the log of
\* PaperJournal, however many requests are between reading and writing.
THEOREM Refinement == PaperSpec => RefinesPaperJournal
<1>1. PaperInit => Journal!Init
  BY DEF PaperInit, Journal!Init
<1>2. ASSUME PaperInv, [PaperNext]_ledger PROVE [Journal!Next]_Journal!vars
  <2>1. CASE events' = events
    BY <1>2, <2>1 DEF PaperNext, ledger, Deliver, Create, Get, Capture, Put, Miss, Reread, Fail,
       NextClose, Journal!Next, Journal!Close, Journal!vars
  <2>2. CASE events' # events
    <3>1. PICK d \in Deliveries :
           /\ session' = session /\ mem[d].body \in Bodies
           /\ events' = Append(events, Addition(events, mem[d].body))
           /\ \/ events = <<>> /\ Created(mem[d].body.entry) /\ mem[d].body.expected = 0
              \/ Put(d)
      BY <1>2, <2>2, Additions DEF ledger
    <3> DEFINE q == mem[d].body.request
               entry == mem[d].body.entry
    <3>2. q \in RequestIds /\ entry \in Entries
      BY <3>1 DEF Bodies
    <3>3. mem[d].body.expected = Len(events)
      BY <1>2, <3>1, PutFacts DEF Writable
    <3>4. Addition(events, mem[d].body) = Journal!Event(q, entry)
      BY <3>3 DEF Addition, Journal!Event, Dated
    <3>5. entry.kind = "created" <=> events = <<>>
      BY <1>2, <3>1, PutFacts DEF Created
    <3>6. events # <<>> => Journal!Allowed(q, entry)
      <4>1. CASE Put(d)
        <5>1. /\ ~Taken(events, mem[d].body) /\ Writable(events, mem[d].body)
              /\ Appendable(events, mem[d].body)
              /\ Dated(entry) => entry.session = session
          BY <1>2, <4>1, PutFacts
        <5> QED BY <5>1 DEF Journal!Allowed, Taken, Writable, Appendable, Dated
      <4> QED BY <3>1, <4>1
    <3>7. Journal!Record(q, entry)
      BY <3>1, <3>4, <3>5, <3>6 DEF Journal!Record
    <3> QED BY <2>2, <3>2, <3>7 DEF Journal!Next
  <2> QED BY <2>1, <2>2
<1> QED BY <1>1, <1>2, PaperInvariance, PTL DEF PaperSpec, RefinesPaperJournal, Journal!Spec

-------------------------------------------------------------------------------
(* What is owned *)

\* Terms in proportion have sums in proportion.
Proportional(A, f, c, g, d) ==
  \A x \in A : f[x] \in Int /\ g[x] \in Int /\ g[x] * d = f[x] * c

LEMMA SumScales ==
  ASSUME NEW A, IsFiniteSet(A), NEW f, NEW g, NEW c \in Nat, NEW d \in Nat,
         Proportional(A, f, c, g, d)
  PROVE  SumFunctionOnSet(g, A) * d = SumFunctionOnSet(f, A) * c
<1> DEFINE F(B) == SumFunctionOnSet(f, B)
           G(B) == SumFunctionOnSet(g, B)
           S == {B \in SUBSET A : G(B) * d = F(B) * c}
<1> USE DEF Proportional
<1>0. F({}) = 0 /\ G({}) = 0 /\ 0 * d = 0 /\ 0 * c = 0
  BY SumEmpty
<1>1. ASSUME NEW B \in SUBSET A, \A C \in SUBSET B : C # B => C \in S
      PROVE  B \in S
  <2>1. CASE B = {}
    BY <1>0, <2>1
  <2>2. ASSUME NEW y \in B PROVE B \in S
    <3>1. IsFiniteSet(B) /\ IsFiniteSet(B \ {y})
      BY FS_Subset
    <3>2. F(B) = f[y] + F(B \ {y}) /\ G(B) = g[y] + G(B \ {y})
      BY <3>1, SumRemove
    <3>3. F(B \ {y}) \in Int /\ G(B \ {y}) \in Int
      BY <3>1, SumType
    <3>4. G(B \ {y}) * d = F(B \ {y}) * c
      BY <1>1
    <3>5. f[y] \in Int /\ g[y] \in Int /\ g[y] * d = f[y] * c
      OBVIOUS
    <3>6. ASSUME NEW a \in Int, NEW b \in Int, NEW k \in Int PROVE (a + b) * k = a * k + b * k
      OBVIOUS
    <3> HIDE DEF F, G
    <3>7. G(B) * d = g[y] * d + G(B \ {y}) * d /\ F(B) * c = f[y] * c + F(B \ {y}) * c
      BY <3>2, <3>3, <3>5, <3>6
    <3>8. G(B) * d = F(B) * c
      BY <3>4, <3>5, <3>7
    <3> QED BY <3>8
  <2> QED BY <2>1, <2>2
<1> HIDE DEF S
<1>2. A \in S
  BY <1>1, FiniteInduction
<1> QED BY <1>2 DEF S

\* What is known of the lots of sound books.
Ready(s, lots, n) ==
  /\ IsFiniteSet(DOMAIN lots) /\ DOMAIN lots \subseteq 1..n
  /\ lots \in [DOMAIN lots -> Lots(s)]

LEMMA ReadyFacts ==
  ASSUME NEW s, NEW lots, NEW n \in Nat, Ready(s, lots, n), NEW symbol
  PROVE  /\ LotsOf(lots, symbol) \subseteq DOMAIN lots /\ IsFiniteSet(LotsOf(lots, symbol))
         /\ \A i \in DOMAIN lots : Quantities(lots)[i] = lots[i].quantity
                                     /\ lots[i].quantity \in Nat \ {0}
         /\ Held(lots, symbol) \in Nat
<1>1. LotsOf(lots, symbol) \subseteq DOMAIN lots
  BY DEF LotsOf
<1>2. \A i \in DOMAIN lots : Quantities(lots)[i] = lots[i].quantity /\ lots[i].quantity \in Nat \ {0}
  BY DEF Ready, Quantities, Lots
<1>3. Held(lots, symbol) \in Nat
  BY <1>1, SomeQuantity DEF Ready, Held
<1> QED BY <1>1, <1>2, <1>3, FS_Subset DEF Ready

\* The queue: what the lots before number k give is what they hold, and at most
\* what is sold.
LEMMA QueueGives ==
  ASSUME NEW s, NEW lots, NEW n \in Nat, Ready(s, lots, n),
         NEW sale, sale.quantity \in Nat, sale.quantity =< Held(lots, sale.symbol),
         NEW used, used = [i \in DOMAIN lots |-> Used(lots, sale, i)]
  PROVE  SumFunctionOnSet(used, LotsOf(lots, sale.symbol)) = sale.quantity
<1> DEFINE L == LotsOf(lots, sale.symbol)
           P(k) == {j \in L : j < k}
           U(B) == SumFunctionOnSet(used, B)
           Q(B) == SumFunctionOnSet(Quantities(lots), B)
           q == sale.quantity
           S == {k \in Nat : U(P(k)) = IF Q(P(k)) =< q THEN Q(P(k)) ELSE q}
<1>0. /\ L \subseteq DOMAIN lots /\ L \subseteq 1..n /\ IsFiniteSet(L)
      /\ \A i \in L : /\ Quantities(lots)[i] = lots[i].quantity /\ lots[i].quantity \in Nat \ {0}
                      /\ lots[i].symbol = sale.symbol
  BY ReadyFacts DEF Ready, LotsOf
<1>1. ASSUME NEW i \in L
      PROVE  used[i] \in Nat /\ used[i] = IF q - Q(P(i)) =< 0 THEN 0
                                          ELSE Min({q - Q(P(i)), lots[i].quantity})
  <2>1. used[i] = Used(lots, sale, i) /\ i \in DOMAIN lots
    BY <1>0, <1>1
  <2>2. used[i] \in Nat
    BY <1>0, <2>1, UsedBounds DEF Ready
  <2>3. lots[i].symbol = sale.symbol
    BY <1>0
  <2> QED BY <2>1, <2>2, <2>3, Zenon DEF Used
<1>10. \A i \in L : used[i] \in Nat
  BY <1>1
<1>2. ASSUME NEW k \in Nat PROVE Q(P(k)) \in Nat /\ IsFiniteSet(P(k))
  <2>1. P(k) \subseteq DOMAIN lots
    BY <1>0
  <2> HIDE DEF P
  <2> QED BY <2>1, SomeQuantity, FS_Subset DEF Ready
<1>3. 0 \in S
  <2>1. P(0) = {}
    BY <1>0
  <2>2. U({}) = 0 /\ Q({}) = 0
    BY SumEmpty
  <2> HIDE DEF P, U, Q
  <2> QED BY <2>1, <2>2
<1>4. ASSUME NEW k \in Nat, k \in S PROVE k + 1 \in S
  <2>1. CASE k \notin L
    <3>1. P(k + 1) = P(k)
      BY <1>0, <2>1
    <3> HIDE DEF P, U, Q
    <3> QED BY <1>4, <3>1
  <2>2. CASE k \in L
    <3>1. P(k + 1) \ {k} = P(k) /\ k \in P(k + 1) /\ P(k + 1) \subseteq L
      BY <1>0, <2>2
    <3>2. IsFiniteSet(P(k + 1)) /\ Q(P(k)) \in Nat
      BY <1>2
    <3>0. \A i \in P(k + 1) : used[i] \in Nat
      BY <1>10, <3>1
    <3> HIDE DEF P, L
    <3>3. /\ Q(P(k + 1)) = lots[k].quantity + Q(P(k))
          /\ U(P(k + 1)) = used[k] + U(P(k))
      <4>1. \A i \in P(k + 1) : Quantities(lots)[i] \in Int /\ used[i] \in Int
        BY <1>0, <3>0, <3>1
      <4>2. Quantities(lots)[k] = lots[k].quantity
        BY <1>0, <2>2
      <4>3. Q(P(k + 1)) = Quantities(lots)[k] + Q(P(k + 1) \ {k})
        BY <3>1, <3>2, <4>1, SumRemove
      <4>4. U(P(k + 1)) = used[k] + U(P(k + 1) \ {k})
        BY <3>1, <3>2, <4>1, SumRemove
      <4> QED BY <3>1, <4>2, <4>3, <4>4
    <3>4. used[k] = IF q - Q(P(k)) =< 0 THEN 0 ELSE Min({q - Q(P(k)), lots[k].quantity})
      BY <1>1, <2>2
    <3>5. U(P(k)) = IF Q(P(k)) =< q THEN Q(P(k)) ELSE q
      BY <1>4
    <3> HIDE DEF U, Q
    <3>6. ASSUME NEW a \in Nat, NEW b \in Nat PROVE Min({a, b}) = IF a =< b THEN a ELSE b
      <4>1. ASSUME NEW x \in {a, b}, \A y \in {a, b} : x =< y
            PROVE  x = IF a =< b THEN a ELSE b
        BY <4>1
      <4>2. \E x \in {a, b} : \A y \in {a, b} : x =< y
        OBVIOUS
      <4> QED BY <4>1, <4>2 DEF Min
    <3>7. lots[k].quantity \in Nat \ {0}
      BY <1>0, <2>2
    <3> DEFINE a == Q(P(k))
               b == lots[k].quantity
    <3>8. q - a > 0 => used[k] = IF q - a =< b THEN q - a ELSE b
      BY <3>2, <3>4, <3>6, <3>7
    <3>9. q - a =< 0 => used[k] = 0
      BY <3>4
    <3> HIDE DEF a, b
    <3>10. a \in Nat /\ b \in Nat \ {0} /\ q \in Nat
      BY <3>2, <3>7 DEF a, b
    <3>11. U(P(k + 1)) = IF b + a =< q THEN b + a ELSE q
      BY <3>3, <3>5, <3>8, <3>9, <3>10 DEF a, b
    <3> QED BY <3>3, <3>11 DEF a, b
  <2> QED BY <2>1, <2>2
<1>5. P(n + 1) = L
  BY <1>0
<1> HIDE DEF S
<1>6. n + 1 \in S
  <2>1. Nat \subseteq S
    BY <1>3, <1>4, SetInduction
  <2> QED BY <2>1
<1>7. Q(L) = Held(lots, sale.symbol)
  BY DEF Held
<1> HIDE DEF P, U, Q, L
<1>8. Q(L) \in Nat /\ q =< Q(L)
  BY <1>2, <1>5, <1>7
<1>9. U(L) = q
  BY <1>5, <1>6, <1>8 DEF S
<1> QED BY <1>9 DEF U, L

LEMMA SoundReady ==
  ASSUME NEW s, NEW state, NEW n \in Nat, Sound(s, state, n)
  PROVE  Ready(s, state.lots, n) /\ "lots" \in DOMAIN state
BY SoundFacts DEF Ready, Sound

\* What is owned is what is owned of the lots, whatever functions tell it.
LEMMA HeldIs ==
  ASSUME NEW lots, NEW symbol, NEW f, IsFiniteSet(LotsOf(lots, symbol)),
         \A i \in LotsOf(lots, symbol) : f[i] \in Int /\ f[i] = lots[i].quantity
  PROVE  Held(lots, symbol) = SumFunctionOnSet(f, LotsOf(lots, symbol))
<1>1. \A i \in LotsOf(lots, symbol) : f[i] \in Int /\ Quantities(lots)[i] = f[i]
  BY DEF LotsOf, Quantities
<1> QED BY <1>1, SumAgrees DEF Held

\* How an entry moves what is owned of a symbol.
Moved(entry, symbol, had, has) ==
  LET concerned == entry.kind \in {"buy", "sell", "split"} /\ entry.symbol = symbol
  IN  /\ concerned /\ entry.kind = "buy" => has = had + entry.quantity
      /\ concerned /\ entry.kind = "sell" => has = had - entry.quantity
      /\ concerned /\ entry.kind = "split" => has * entry.denominator = had * entry.numerator
      /\ ~concerned => has = had

LEMMA BuysMove ==
  ASSUME NEW s, IsSettings(s), NEW state, NEW n \in Nat, Sound(s, state, n),
         NEW e, IsEntry(e), e.kind = "buy", NEW symbol
  PROVE  Moved(e, symbol, Held(state.lots, symbol), Held(Buy(s, state, n + 1, e).lots, symbol))
<1> DEFINE total == Principal(s, e) + Fee(s, e)
           lots == state.lots
           lot == [symbol |-> e.symbol, quantity |-> e.quantity, cost |-> total]
           more == [i \in DOMAIN lots \cup {n + 1} |-> IF i = n + 1 THEN lot ELSE lots[i]]
           L == LotsOf(lots, symbol)
           M == LotsOf(more, symbol)
           f == [i \in M |-> more[i].quantity]
<1>1. Ready(s, lots, n) /\ "lots" \in DOMAIN state
  BY SoundReady
<1>2. Buy(s, state, n + 1, e).lots = more
  <2>1. Buy(s, state, n + 1, e) = [state EXCEPT !.cash = @ - total, !.lots = more]
    BY Zenon DEF Buy
  <2> HIDE DEF more, total
  <2> QED BY <1>1, <2>1
<1>3. /\ L \subseteq DOMAIN lots /\ IsFiniteSet(L) /\ n + 1 \notin DOMAIN lots
      /\ \A i \in L : lots[i].quantity \in Nat
      /\ Held(lots, symbol) \in Nat
  BY <1>1, ReadyFacts DEF Ready
<1>4. e.quantity \in Nat
  BY DEF IsEntry
<1>5. /\ e.symbol = symbol => M = L \cup {n + 1}
      /\ e.symbol # symbol => M = L
  BY <1>3 DEF LotsOf
<1>6. /\ \A i \in L : more[i] = lots[i]
      /\ more[n + 1].quantity = e.quantity
  BY <1>3
<1>7. \A i \in M : f[i] = more[i].quantity
  OBVIOUS
<1> HIDE DEF more, lot, lots, L, M, f
<1>8. IsFiniteSet(M) /\ IsFiniteSet(L)
  BY <1>3, <1>5, FS_AddElement
<1>9. \A i \in M : f[i] \in Int
  BY <1>3, <1>4, <1>5, <1>6, <1>7
<1>10. Held(more, symbol) = SumFunctionOnSet(f, M)
  BY <1>7, <1>8, <1>9, HeldIs DEF M
<1>11. Held(lots, symbol) = SumFunctionOnSet(f, L)
  <2>1. \A i \in L : f[i] \in Int /\ f[i] = lots[i].quantity
    BY <1>5, <1>6, <1>7, <1>9
  <2> QED BY <1>8, <2>1, HeldIs DEF L
<1>12. CASE e.symbol = symbol
  <2>1. n + 1 \in M /\ M \ {n + 1} = L /\ f[n + 1] = e.quantity
    BY <1>3, <1>5, <1>6, <1>7, <1>12
  <2>2. Held(more, symbol) = e.quantity + Held(lots, symbol)
    BY <1>8, <1>9, <1>10, <1>11, <2>1, SumRemove
  <2>3. Held(more, symbol) = Held(lots, symbol) + e.quantity
    BY <1>3, <1>4, <2>2
  <2> QED BY <1>2, <1>12, <2>3 DEF Moved, lots
<1>13. CASE e.symbol # symbol
  BY <1>2, <1>5, <1>10, <1>11, <1>13 DEF Moved, lots
<1> QED BY <1>12, <1>13

LEMMA SellsMove ==
  ASSUME NEW s, IsSettings(s), NEW state, NEW n \in Nat, Sound(s, state, n),
         NEW e, IsEntry(e), Acceptable(s, state, e), e.kind = "sell", NEW symbol
  PROVE  Moved(e, symbol, Held(state.lots, symbol), Held(Sell(s, state, e).lots, symbol))
<1> DEFINE lots == state.lots
           D == DOMAIN lots
           used == [i \in D |-> Used(lots, e, i)]
           left == [i \in D |-> lots[i].quantity - Used(lots, e, i)]
           kept == {i \in D : Used(lots, e, i) < lots[i].quantity}
           rest == [i \in kept |-> Remainder(lots, e, i)]
           L == LotsOf(lots, symbol)
           R == LotsOf(rest, symbol)
<1>1. Ready(s, lots, n) /\ "lots" \in DOMAIN state
  BY SoundReady
<1>2. Sell(s, state, e).lots = rest
  <2> DEFINE proceeds == Principal(s, e) - Fee(s, e)
             spent == SumFunctionOnSet([i \in D |-> CostUsed(lots, e, i)], LotsOf(lots, e.symbol))
  <2>1. Sell(s, state, e)
          = [state EXCEPT !.cash = @ + proceeds, !.realized = @ + proceeds - spent, !.lots = rest]
    BY Zenon DEF Sell
  <2> HIDE DEF proceeds, spent, rest
  <2> QED BY <1>1, <2>1
<1>3. e.quantity \in Nat /\ e.quantity =< Held(lots, e.symbol)
  BY DEF IsEntry, Acceptable
<1>4. /\ L \subseteq D /\ IsFiniteSet(L)
      /\ \A i \in D : lots[i].quantity \in Nat \ {0}
      /\ Held(lots, symbol) \in Nat
  BY <1>1, ReadyFacts
<1>5. \A i \in D : /\ used[i] \in 0..lots[i].quantity
                   /\ lots[i].symbol # e.symbol => used[i] = 0
                   /\ left[i] = lots[i].quantity - used[i]
                   /\ i \in kept <=> used[i] < lots[i].quantity
  <2> SUFFICES ASSUME NEW i \in D
               PROVE  /\ Used(lots, e, i) \in 0..lots[i].quantity
                      /\ lots[i].symbol # e.symbol => Used(lots, e, i) = 0
    OBVIOUS
  <2> HIDE DEF lots
  <2> QED BY <1>1, <1>3, UsedBounds DEF Ready
<1>6. ASSUME NEW i \in kept
      PROVE  rest[i].symbol = lots[i].symbol /\ rest[i].quantity = left[i]
  <2> DEFINE u == Used(lots, e, i)
             c == CostUsed(lots, e, i)
  <2>1. rest[i] = [lots[i] EXCEPT !.quantity = @ - u, !.cost = @ - c]
    BY <1>6, Zenon DEF Remainder
  <2>2. DOMAIN lots[i] = {"symbol", "quantity", "cost"} /\ left[i] = lots[i].quantity - u
    BY <1>1, <1>6 DEF Ready, Lots
  <2> HIDE DEF u, c, left, rest
  <2> QED BY <2>1, <2>2
<1>7. DOMAIN rest = kept /\ kept \subseteq D
  OBVIOUS
<1>8. Sell(s, state, e).lots = rest /\ used = [i \in D |-> Used(lots, e, i)]
  BY <1>2
<1> HIDE DEF rest, kept, used, left, lots
<1>9. R = L \cap kept
  BY <1>6, <1>7 DEF LotsOf
<1> HIDE DEF L, R
<1>10. \A i \in D : left[i] \in Nat /\ used[i] \in Nat /\ (i \notin kept => left[i] = 0)
  BY <1>4, <1>5
<1>11. Held(rest, symbol) = SumFunctionOnSet(left, L)
  <2>1. \A i \in R : left[i] \in Int /\ left[i] = rest[i].quantity
    BY <1>4, <1>6, <1>9, <1>10
  <2>2. IsFiniteSet(R) /\ R \subseteq L
    BY <1>4, <1>9, FS_Subset
  <2>3. Held(rest, symbol) = SumFunctionOnSet(left, R)
    BY <2>1, <2>2, HeldIs DEF R
  <2>4. \A i \in L : left[i] \in Int
    BY <1>4, <1>10
  <2>5. \A i \in L \ R : left[i] = 0
    BY <1>4, <1>9, <1>10
  <2> QED BY <1>4, <2>2, <2>3, <2>4, <2>5, SumOverSupport
<1>12. /\ Held(lots, symbol) = SumFunctionOnSet(left, L) + SumFunctionOnSet(used, L)
       /\ SumFunctionOnSet(left, L) \in Int /\ SumFunctionOnSet(used, L) \in Int
  <2> DEFINE owned == [i \in D |-> lots[i].quantity]
  <2>1. \A i \in D : owned[i] = lots[i].quantity
    OBVIOUS
  <2> HIDE DEF owned
  <2>2. \A i \in L : left[i] \in Int /\ used[i] \in Int /\ owned[i] = left[i] + used[i]
    BY <1>4, <1>5, <1>10, <2>1
  <2>3. \A i \in L : owned[i] \in Int /\ owned[i] = lots[i].quantity
    BY <1>4, <2>1
  <2>4. Held(lots, symbol) = SumFunctionOnSet(owned, L)
    BY <1>4, <2>3, HeldIs DEF L
  <2> QED BY <1>4, <2>2, <2>4, SumPlus
<1>13. CASE e.symbol = symbol
  <2>1. SumFunctionOnSet(used, L) = e.quantity
    BY <1>1, <1>3, <1>8, <1>13, QueueGives DEF L
  <2>2. Held(rest, symbol) = Held(lots, symbol) - e.quantity
    BY <1>11, <1>12, <2>1
  <2> QED BY <1>8, <1>13, <2>2 DEF Moved, lots
<1>14. CASE e.symbol # symbol
  <2>1. \A i \in L : used[i] = 0
    BY <1>4, <1>5, <1>14 DEF L, LotsOf
  <2>2. SumFunctionOnSet(used, L) = 0
    BY <1>4, <2>1, SumZero
  <2>3. Held(rest, symbol) = Held(lots, symbol)
    BY <1>11, <1>12, <2>2
  <2> QED BY <1>8, <1>14, <2>3 DEF Moved, lots
<1> QED BY <1>13, <1>14

LEMMA SplitsMove ==
  ASSUME NEW s, IsSettings(s), NEW state, NEW n \in Nat, Sound(s, state, n),
         NEW e, IsEntry(e), Acceptable(s, state, e), e.kind = "split", NEW symbol
  PROVE  Moved(e, symbol, Held(state.lots, symbol), Held(Split(state, e).lots, symbol))
<1> DEFINE lots == state.lots
           D == DOMAIN lots
           part(i) == SplitQuantity(lots[i], e) \div e.denominator
           parts == [i \in D |-> IF lots[i].symbol # e.symbol THEN lots[i]
                                 ELSE [lots[i] EXCEPT !.quantity = part(i)]]
           L == LotsOf(lots, symbol)
           f == [i \in D |-> lots[i].quantity]
           g == [i \in D |-> parts[i].quantity]
<1>1. Ready(s, lots, n) /\ "lots" \in DOMAIN state
  BY SoundReady
<1>2. Split(state, e).lots = parts
  <2>1. Split(state, e) = [state EXCEPT !.lots = parts]
    BY Zenon DEF Split
  <2> HIDE DEF parts
  <2> QED BY <1>1, <2>1
<1>3. /\ L \subseteq D /\ IsFiniteSet(L)
      /\ \A i \in D : lots[i].quantity \in Nat \ {0}
  BY <1>1, ReadyFacts
<1>4. e.numerator \in Nat /\ e.denominator \in Nat
  BY DEF IsEntry
<1>5. ASSUME NEW i \in D
      PROVE  /\ parts[i].symbol = lots[i].symbol /\ parts[i].quantity \in Int
             /\ IF lots[i].symbol = e.symbol
                THEN parts[i].quantity * e.denominator = lots[i].quantity * e.numerator
                ELSE parts[i].quantity = lots[i].quantity
  <2> DEFINE lot == lots[i]
             k == part(i)
             d == e.denominator
  <2>1. parts[i] = IF lot.symbol # e.symbol THEN lot ELSE [lot EXCEPT !.quantity = k]
    OBVIOUS
  <2>2. DOMAIN lot = {"symbol", "quantity", "cost"} /\ lot.quantity \in Nat
    BY <1>1 DEF Ready, Lots
  <2>3. lot.symbol = e.symbol => k \in Int /\ k * d = lot.quantity * e.numerator
    <3> SUFFICES ASSUME lot.symbol = e.symbol PROVE k \in Int /\ k * d = lot.quantity * e.numerator
      OBVIOUS
    <3> DEFINE q == SplitQuantity(lot, e)
    <3>1. q = lot.quantity * e.numerator
      BY Zenon DEF SplitQuantity
    <3>2. q % d = 0
      BY DEF Acceptable, LotsOf
    <3>3. d \in Nat \ {0}
      BY DEF IsEntry
    <3>4. k = q \div d
      OBVIOUS
    <3> HIDE DEF lot, d, q, k
    <3>5. q \in Nat
      <4>1. ASSUME NEW a \in Nat, NEW b \in Nat PROVE a * b \in Nat
        OBVIOUS
      <4> QED BY <1>4, <2>2, <3>1, <4>1
    <3>6. k \in Nat /\ q = d * k
      <4>1. q \div d \in Nat /\ q = d * (q \div d) + (q % d)
        BY <3>3, <3>5, Division
      <4>2. ASSUME NEW a \in Nat, NEW b \in Nat PROVE a * b + 0 = a * b
        OBVIOUS
      <4> QED BY <3>2, <3>3, <3>4, <4>1, <4>2
    <3>7. k * d = d * k
      BY <3>3, <3>6
    <3> QED BY <3>1, <3>6, <3>7
  <2> HIDE DEF lot, k, d, parts
  <2>4. [lot EXCEPT !.quantity = k].quantity = k /\ [lot EXCEPT !.quantity = k].symbol = lot.symbol
    BY <2>2
  <2>5. /\ parts[i].symbol = lot.symbol /\ parts[i].quantity \in Int
        /\ IF lot.symbol = e.symbol
           THEN parts[i].quantity * d = lot.quantity * e.numerator
           ELSE parts[i].quantity = lot.quantity
    BY <2>1, <2>2, <2>3, <2>4
  <2> QED BY <2>5 DEF lot, d
<1>6. \A i \in D : f[i] = lots[i].quantity /\ g[i] = parts[i].quantity
  OBVIOUS
<1>7. DOMAIN parts = D
  OBVIOUS
<1> HIDE DEF parts, lots, f, g
<1>8. LotsOf(parts, symbol) = L
  BY <1>5, <1>7 DEF LotsOf
<1> HIDE DEF L
<1>9. \A i \in L : f[i] \in Int /\ g[i] \in Int
  BY <1>3, <1>5, <1>6
<1>10. Held(lots, symbol) = SumFunctionOnSet(f, L)
  <2>1. \A i \in L : f[i] \in Int /\ f[i] = lots[i].quantity
    BY <1>3, <1>6, <1>9
  <2> QED BY <1>3, <2>1, HeldIs DEF L
<1>11. Held(parts, symbol) = SumFunctionOnSet(g, L)
  <2>1. \A i \in L : g[i] \in Int /\ g[i] = parts[i].quantity
    BY <1>3, <1>6, <1>9
  <2> QED BY <1>3, <1>8, <2>1, HeldIs
<1>12. CASE e.symbol = symbol
  <2>1. \A i \in L : f[i] \in Int /\ g[i] \in Int /\ g[i] * e.denominator = f[i] * e.numerator
    <3>1. \A i \in L : lots[i].symbol = e.symbol
      BY <1>12 DEF L, LotsOf
    <3> QED BY <1>3, <1>5, <1>6, <1>9, <3>1
  <2>2. SumFunctionOnSet(g, L) * e.denominator = SumFunctionOnSet(f, L) * e.numerator
    <3>1. Proportional(L, f, e.numerator, g, e.denominator)
      BY <2>1 DEF Proportional
    <3> QED BY <1>3, <1>4, <3>1, SumScales
  <2>3. Held(parts, symbol) * e.denominator = Held(lots, symbol) * e.numerator
    BY <1>10, <1>11, <2>2
  <2> QED BY <1>2, <1>12, <2>3 DEF Moved, lots
<1>13. CASE e.symbol # symbol
  <2>1. \A i \in L : f[i] \in Int /\ g[i] = f[i]
    <3>1. \A i \in L : lots[i].symbol # e.symbol
      BY <1>13 DEF L, LotsOf
    <3> QED BY <1>3, <1>5, <1>6, <1>9, <3>1
  <2>2. Held(parts, symbol) = Held(lots, symbol)
    BY <1>3, <1>10, <1>11, <2>1, SumAgrees
  <2> QED BY <1>2, <1>13, <2>2 DEF Moved, lots
<1> QED BY <1>12, <1>13

LEMMA EntriesMove ==
  ASSUME NEW s, IsSettings(s), NEW state, NEW n \in Nat, Sound(s, state, n),
         NEW e, IsEntry(e), Acceptable(s, state, e), NEW symbol
  PROVE  Moved(e, symbol, Held(state.lots, symbol), Held(Apply(s, state, n + 1, e).lots, symbol))
<1>1. CASE e.kind = "buy"
  BY <1>1, BuysMove DEF Apply
<1>2. CASE e.kind = "sell"
  BY <1>2, SellsMove DEF Apply
<1>3. CASE e.kind = "split"
  BY <1>3, SplitsMove DEF Apply
<1>4. CASE e.kind = "dividend"
  <2> DEFINE income == Gross(state.lots, e) - e.withholding
  <2>1. Apply(s, state, n + 1, e) = [state EXCEPT !.cash = @ + income, !.income = @ + income]
    BY <1>4, Zenon DEF Apply, Dividend
  <2> HIDE DEF income
  <2>2. Apply(s, state, n + 1, e).lots = state.lots
    BY <2>1, SoundReady
  <2> QED BY <1>4, <2>2 DEF Moved
<1>5. CASE e.kind \notin {"buy", "sell", "split", "dividend"}
  BY <1>5 DEF Apply, Moved
<1> QED BY <1>1, <1>2, <1>3, <1>4, <1>5

\* With every event that is recorded after the first, what is owned of each symbol
\* changes by what was traded or split, and by nothing else.
HoldingsAreTraded ==
  [][\A i \in DOMAIN events' \ DOMAIN events : events # <<>> =>
       \A symbol \in Settings(events).symbols :
         Moved(events'[i].entry, symbol, Held(Projection(events).lots, symbol),
               Held(Projection(events').lots, symbol))]_ledger

\* A sale takes exactly its quantity from the queue of lots, however it spreads over
\* them, and never more than is owned; a split multiplies what is owned exactly,
\* although each lot is divided by itself; no event touches another symbol.
THEOREM OnlyTradesMoveHoldings == PaperSpec => HoldingsAreTraded
<1>1. ASSUME PaperInv, Books, PaperNext, events # <<>>,
             NEW i \in DOMAIN events' \ DOMAIN events, NEW symbol
      PROVE  Moved(events'[i].entry, symbol, Held(Projection(events).lots, symbol),
                   Held(Projection(events').lots, symbol))
  <2> DEFINE n == Len(events)
             s == Settings(events)
             state == Projection(events)
  <2>1. PICK d \in Deliveries :
          /\ mem[d].body \in Bodies /\ Put(d)
          /\ events' = Append(events, Addition(events, mem[d].body))
    BY <1>1, Additions
  <2> DEFINE e == Addition(events, mem[d].body)
  <2>2. PaperTypeOK /\ IsEvent(e) /\ e.entry = mem[d].body.entry
    BY <1>1, <2>1, AdditionIsTheRequest DEF PaperInv, Addition
  <2>3. IsEntry(e.entry)
    BY <2>1, <2>2, EntriesAssumption DEF Bodies
  <2>4. n \in Nat \ {0} /\ DOMAIN events = 1..n
    BY <1>1, <2>2, EventFacts
  <2>5. Len(events) < Budget /\ Accepts(events, e.entry)
    BY <1>1, <2>1, <2>2, PutFacts DEF Appendable
  <2> HIDE DEF e
  <2>6. /\ Len(events') = n + 1 /\ DOMAIN events' = 1..(n + 1) /\ events'[n + 1] = e
        /\ \A k \in 1..n : events'[k] = events[k]
    BY <2>1, <2>2, <2>4, <2>5, GrowthFacts DEF e
  <2>7. Projection(events') = Apply(s, state, n + 1, e.entry)
    <3> HIDE DEF n
    <3> QED BY <2>4, <2>6, ProjectionGrows DEF n
  <2>8. IsSettings(s) /\ Sound(s, state, n)
    BY <1>1 DEF Books
  <2>9. Acceptable(s, state, e.entry)
    BY <2>5 DEF Accepts
  <2>10. i = n + 1
    BY <2>4, <2>6
  <2> HIDE DEF s, state, n
  <2>11. Moved(e.entry, symbol, Held(state.lots, symbol),
               Held(Apply(s, state, n + 1, e.entry).lots, symbol))
    BY <2>3, <2>4, <2>8, <2>9, EntriesMove
  <2> QED BY <2>6, <2>7, <2>10, <2>11 DEF state
<1>2. PaperInv /\ Books /\ [PaperNext]_ledger
        => [\A i \in DOMAIN events' \ DOMAIN events : events # <<>> =>
              \A symbol \in Settings(events).symbols :
                Moved(events'[i].entry, symbol, Held(Projection(events).lots, symbol),
                      Held(Projection(events').lots, symbol))]_ledger
  BY <1>1
<1>3. PaperInit => Books
  BY DEF PaperInit, Books
<1>4. PaperInv /\ Books /\ [PaperNext]_ledger => Books'
  BY BooksStaySound
<1> QED BY <1>2, <1>3, <1>4, PaperInvariance, PTL DEF PaperSpec, HoldingsAreTraded

===============================================================================
