-------------------------- MODULE RenderGraphProofs --------------------------
(***************************************************************************)
(* Proofs about RenderGraph and GraphRecorder.  Compile orders the passes, *)
(* culls the dead ones and bounds the lifetimes as it should (GraphInv).   *)
(* The surviving uses of a resource form a chain, each in a later pass     *)
(* than the one before, and the compiled barriers lie on it; the recorder, *)
(* going through the passes in the compiled order, keeps every image in    *)
(* the layout of its last recorded use and puts every barrier between the  *)
(* passes it separates (RecInv).                                           *)
(***************************************************************************)
EXTENDS GraphRecorder, SequenceTheorems, FiniteSetTheorems, WellFoundedInduction, TLAPS
-----------------------------------------------------------------------------
(* Numbers and recursion.                                                  *)

(* Every nonempty set of numbers has a least one; induction below rests on  *)
(* this fact.                                                               *)
LEMMA LeastNumber ==
  ASSUME NEW T \in SUBSET Nat, T # {}
  PROVE  \E n \in T : \A m \in T : n <= m
<1>1. PICK n \in T : \A m \in T : ~(<<m, n>> \in OpToRel(<, Nat))
  BY NatLessThanWellFounded, WFMin
<1>2. \A m \in T : ~(m < n)
  BY <1>1 DEF OpToRel
<1> QED
  BY <1>2

(* Induction up to a bound, over the set of the numbers that have a         *)
(* property.                                                                *)
LEMMA FromZeroTo ==
  ASSUME NEW n \in Nat, NEW T, 0 \in T,
         \A m \in 1..n : m - 1 \in T => m \in T
  PROVE  \A m \in 0..n : m \in T
<1> DEFINE Bad == {m \in 0..n : m \notin T}
<1>1. SUFFICES ASSUME Bad # {} PROVE FALSE
  OBVIOUS
<1>2. Bad \in SUBSET Nat
  OBVIOUS
<1>3. PICK m \in Bad : \A k \in Bad : m <= k
  <2> HIDE DEF Bad
  <2> QED
    BY <1>1, <1>2, LeastNumber
<1>4. m \in 0..n /\ m \notin T /\ m # 0
  OBVIOUS
<1>5. m \in 1..n /\ m - 1 \in 0..n /\ m - 1 < m
  BY <1>4
<1>6. m - 1 \in T
  BY <1>3, <1>5
<1> QED
  BY <1>4, <1>5, <1>6

(* A nonempty set of numbers below a bound has a greatest one.              *)
LEMMA GreatestNumber ==
  ASSUME NEW n \in Nat, NEW T \in SUBSET (1..n), T # {}
  PROVE  \E m \in T : \A k \in T : k <= m
<1> DEFINE U == {n - m : m \in T}
<1>1. U \in SUBSET Nat /\ U # {}
  <2>1. \A m \in T : n - m \in Nat
    OBVIOUS
  <2>2. PICK m : m \in T
    OBVIOUS
  <2>3. n - m \in U
    BY <2>2
  <2> QED
    BY <2>1, <2>3
<1>2. PICK u \in U : \A v \in U : u <= v
  <2> HIDE DEF U
  <2> QED
    BY <1>1, LeastNumber
<1>3. PICK m \in T : u = n - m
  OBVIOUS
<1>4. ASSUME NEW k \in T PROVE k <= m
  <2>1. n - k \in U
    OBVIOUS
  <2>2. n - m <= n - k
    BY <1>2, <1>3, <2>1
  <2>3. k \in 1..n /\ m \in 1..n
    OBVIOUS
  <2> QED
    BY <2>2, <2>3
<1> QED
  BY <1>4

(* f is what n steps make of x, step by step.                               *)
Steps(f, step, x, n) ==
  /\ f[0] = x
  /\ \A k \in 1..n : f[k] = step[k][f[k - 1]]

(* A recursion over a stretch of steps has a solution.                      *)
LEMMA StepsExist ==
  ASSUME NEW X, NEW x \in X, NEW n \in Nat, NEW step \in [1..n -> [X -> X]]
  PROVE  \E f \in [0..n -> X] : Steps(f, step, x, n)
<1> DEFINE T == {m \in 0..n : \E f \in [0..m -> X] : Steps(f, step, x, m)}
<1>1. 0 \in T
  <2> DEFINE f == [i \in 0..0 |-> x]
  <2>1. f \in [0..0 -> X] /\ Steps(f, step, x, 0)
    BY DEF Steps
  <2> QED
    BY <2>1
<1>2. ASSUME NEW m \in 1..n, m - 1 \in T PROVE m \in T
  <2>1. PICK f \in [0..(m - 1) -> X] : Steps(f, step, x, m - 1)
    BY <1>2
  <2> DEFINE g == [i \in 0..m |-> IF i = m THEN step[m][f[m - 1]] ELSE f[i]]
  <2>2. step[m][f[m - 1]] \in X
    <3>1. m - 1 \in 0..(m - 1) /\ m \in 1..n
      OBVIOUS
    <3>2. f[m - 1] \in X /\ step[m] \in [X -> X]
      BY <3>1
    <3> QED
      BY <3>2
  <2>3. g \in [0..m -> X]
    BY <2>2
  <2>4. /\ g[m] = step[m][f[m - 1]]
        /\ \A i \in 0..(m - 1) : g[i] = f[i]
    OBVIOUS
  <2> HIDE DEF g
  <2>5. g[0] = x
    BY <2>1, <2>4 DEF Steps
  <2>6. ASSUME NEW k \in 1..m PROVE g[k] = step[k][g[k - 1]]
    <3>1. CASE k = m
      <4>1. g[m - 1] = f[m - 1]
        BY <2>4
      <4> QED
        BY <3>1, <4>1, <2>4, Zenon
    <3>2. CASE k \in 1..(m - 1)
      <4>1. k \in 0..(m - 1) /\ k - 1 \in 0..(m - 1)
        BY <3>2
      <4>2. g[k] = f[k] /\ g[k - 1] = f[k - 1]
        BY <2>4, <4>1, Zenon
      <4>3. f[k] = step[k][f[k - 1]]
        BY <2>1, <3>2, Zenon DEF Steps
      <4> QED
        BY <4>2, <4>3, Zenon
    <3>3. k = m \/ k \in 1..(m - 1)
      OBVIOUS
    <3> QED
      BY <3>1, <3>2, <3>3, Zenon
  <2>7. Steps(g, step, x, m)
    BY <2>5, <2>6, Zenon DEF Steps
  <2>8. m \in 0..n
    OBVIOUS
  <2> QED
    BY <2>3, <2>7, <2>8, Zenon
<1> HIDE DEF T
<1>3. \A m \in 0..n : m \in T
  BY <1>1, <1>2, FromZeroTo
<1>4. n \in T
  BY <1>3
<1> QED
  BY <1>4, Zenon DEF T

-----------------------------------------------------------------------------
(* Picking elements of a sequence.                                         *)

(* t has the elements of seq at the given positions up to n; h gives the    *)
(* position each one was picked from.                                       *)
Picks(t, h, seq, positions, n) ==
  /\ h \in [1..Len(t) -> 1..n]
  /\ \A i \in 1..Len(t) : t[i] = seq[h[i]] /\ h[i] \in positions
  /\ \A i, j \in 1..Len(t) : i < j => h[i] < h[j]
  /\ \A k \in 1..n : k \in positions => \E i \in 1..Len(t) : h[i] = k

(* One more element is picked.                                              *)
LEMMA PickOneMore ==
  ASSUME NEW S, NEW seq \in Seq(S), NEW positions, NEW n \in 1..Len(seq),
         NEW t \in Seq(S), NEW h, Picks(t, h, seq, positions, n - 1), n \in positions
  PROVE  \E g : Picks(Append(t, seq[n]), g, seq, positions, n)
<1> DEFINE g == [i \in 1..(Len(t) + 1) |-> IF i = Len(t) + 1 THEN n ELSE h[i]]
           s == Append(t, seq[n])
<1>0. Len(t) \in Nat /\ n \in Nat
  OBVIOUS
<1>1. /\ Len(s) = Len(t) + 1 /\ s[Len(t) + 1] = seq[n]
      /\ \A i \in 1..Len(t) : s[i] = t[i]
  OBVIOUS
<1>2. /\ g[Len(t) + 1] = n
      /\ \A i \in 1..Len(t) : g[i] = h[i]
  BY <1>0
<1>3. /\ h \in [1..Len(t) -> 1..(n - 1)]
      /\ \A i \in 1..Len(t) : t[i] = seq[h[i]] /\ h[i] \in positions
      /\ \A i, j \in 1..Len(t) : i < j => h[i] < h[j]
      /\ \A k \in 1..(n - 1) : k \in positions => \E i \in 1..Len(t) : h[i] = k
  BY Zenon DEF Picks
<1>4. g \in [1..Len(s) -> 1..n]
  BY <1>0, <1>1, <1>3
<1> HIDE DEF g, s
<1>5. \A i \in 1..Len(s) : i = Len(t) + 1 \/ i \in 1..Len(t)
  BY <1>0, <1>1
<1>6. ASSUME NEW i \in 1..Len(s) PROVE s[i] = seq[g[i]] /\ g[i] \in positions
  BY <1>1, <1>2, <1>3, <1>5
<1>7. ASSUME NEW i \in 1..Len(s), NEW j \in 1..Len(s), i < j PROVE g[i] < g[j]
  <2>1. i \in 1..Len(t)
    BY <1>0, <1>1, <1>7
  <2>2. g[i] = h[i] /\ h[i] \in 1..(n - 1)
    BY <1>2, <1>3, <2>1
  <2>3. CASE j = Len(t) + 1
    BY <1>0, <1>2, <2>2, <2>3
  <2>4. CASE j \in 1..Len(t)
    BY <1>2, <1>3, <1>7, <2>1, <2>2, <2>4
  <2> QED
    BY <1>5, <2>3, <2>4
<1>8. ASSUME NEW k \in 1..n, k \in positions PROVE \E i \in 1..Len(s) : g[i] = k
  <2>1. CASE k = n
    <3>1. Len(t) + 1 \in 1..Len(s)
      BY <1>0, <1>1
    <3> QED
      BY <1>2, <2>1, <3>1
  <2>2. CASE k \in 1..(n - 1)
    <3>1. PICK i \in 1..Len(t) : h[i] = k
      BY <1>3, <1>8, <2>2
    <3>2. i \in 1..Len(s) /\ g[i] = k
      BY <1>0, <1>1, <1>2, <3>1
    <3> QED
      BY <3>2
  <2> QED
    BY <1>0, <2>1, <2>2
<1>9. Picks(s, g, seq, positions, n)
  BY <1>4, <1>6, <1>7, <1>8, Zenon DEF Picks
<1> QED
  BY <1>9 DEF s

(* A position that is not picked changes nothing.                           *)
LEMMA PickNoMore ==
  ASSUME NEW S, NEW seq \in Seq(S), NEW positions, NEW n \in 1..Len(seq),
         NEW t \in Seq(S), NEW h, Picks(t, h, seq, positions, n - 1), n \notin positions
  PROVE  Picks(t, h, seq, positions, n)
<1>1. /\ h \in [1..Len(t) -> 1..(n - 1)]
      /\ \A i \in 1..Len(t) : t[i] = seq[h[i]] /\ h[i] \in positions
      /\ \A i, j \in 1..Len(t) : i < j => h[i] < h[j]
      /\ \A k \in 1..(n - 1) : k \in positions => \E i \in 1..Len(t) : h[i] = k
  BY Zenon DEF Picks
<1>2. 1..(n - 1) \subseteq 1..n /\ \A k \in 1..n : k \in positions => k \in 1..(n - 1)
  OBVIOUS
<1>3. h \in [1..Len(t) -> 1..n]
  BY <1>1, <1>2
<1> QED
  BY <1>1, <1>2, <1>3, Zenon DEF Picks

(* Picked picks.                                                            *)
LEMMA PickedPicks ==
  ASSUME NEW S, NEW seq \in Seq(S), NEW positions
  PROVE  /\ Picked(seq, positions) \in Seq(S)
         /\ \E h : Picks(Picked(seq, positions), h, seq, positions, Len(seq))
<1> DEFINE N == Len(seq)
           step == [k \in 1..N |-> [t \in Seq(S) |->
                       IF k \in positions THEN Append(t, seq[k]) ELSE t]]
           Rec(f) == f = [k \in 0..N |->
                       IF k = 0 THEN <<>>
                       ELSE IF k \in positions THEN Append(f[k - 1], seq[k]) ELSE f[k - 1]]
<1>1. N \in Nat /\ \A k \in 1..N : seq[k] \in S
  OBVIOUS
<1>2. step \in [1..N -> [Seq(S) -> Seq(S)]]
  BY <1>1
<1>3. \A k \in 1..N : \A t \in Seq(S) :
         step[k][t] = IF k \in positions THEN Append(t, seq[k]) ELSE t
  OBVIOUS
<1>4. <<>> \in Seq(S)
  OBVIOUS
<1> HIDE DEF N, step
<1>5. PICK f \in [0..N -> Seq(S)] : Steps(f, step, <<>>, N)
  BY <1>1, <1>2, <1>4, StepsExist
<1>6. ASSUME NEW k \in 1..N
      PROVE  f[k] = IF k \in positions THEN Append(f[k - 1], seq[k]) ELSE f[k - 1]
  <2>1. k - 1 \in 0..N
    BY <1>1
  <2>2. f[k - 1] \in Seq(S)
    BY <2>1
  <2>3. f[k] = step[k][f[k - 1]]
    BY <1>5, Zenon DEF Steps
  <2> QED
    BY <1>3, <2>2, <2>3, Zenon
<1>7. f[0] = <<>>
  BY <1>5, Zenon DEF Steps
<1>8. Rec(f)
  <2>1. ASSUME NEW k \in 0..N
        PROVE  f[k] = IF k = 0 THEN <<>>
                      ELSE IF k \in positions THEN Append(f[k - 1], seq[k]) ELSE f[k - 1]
    <3>1. k = 0 \/ k \in 1..N
      BY <1>1
    <3> QED
      BY <1>6, <1>7, <3>1
  <2> QED
    BY <2>1, Zenon
<1>9. PICK g : Rec(g) /\ Picked(seq, positions) = g[N]
  BY <1>8 DEF Picked, N
<1>10. /\ g[0] = <<>>
       /\ \A k \in 1..N :
            g[k] = IF k \in positions THEN Append(g[k - 1], seq[k]) ELSE g[k - 1]
  <2>1. \A k \in 0..N : g[k] =
                      IF k = 0 THEN <<>>
                      ELSE IF k \in positions THEN Append(g[k - 1], seq[k]) ELSE g[k - 1]
    BY <1>9, Zenon
  <2>2. \A k \in 1..N : k \in 0..N /\ k # 0
    BY <1>1
  <2>3. 0 \in 0..N
    BY <1>1
  <2> QED
    BY <2>1, <2>2, <2>3, Zenon
<1> HIDE DEF Rec
<1> DEFINE T == {m \in 0..N : /\ g[m] \in Seq(S)
                              /\ \E h : Picks(g[m], h, seq, positions, m)}
<1>11. 0 \in T
  <2> DEFINE h == [i \in 1..0 |-> 1]
  <2>1. g[0] \in Seq(S) /\ Len(g[0]) = 0 /\ 0 \in 0..N
    BY <1>1, <1>10
  <2>2. h \in [1..0 -> 1..0]
    OBVIOUS
  <2> HIDE DEF h
  <2>3. Picks(g[0], h, seq, positions, 0)
    BY <2>1, <2>2 DEF Picks
  <2> QED
    BY <2>1, <2>3, Zenon
<1>12. ASSUME NEW m \in 1..N, m - 1 \in T PROVE m \in T
  <2>1. PICK h : Picks(g[m - 1], h, seq, positions, m - 1)
    BY <1>12
  <2>2. g[m - 1] \in Seq(S) /\ m \in 0..N /\ m \in 1..Len(seq)
    BY <1>1, <1>12 DEF N
  <2>3. PICK t \in Seq(S) : t = g[m - 1]
    BY <2>2
  <2>4. CASE m \in positions
    <3>1. g[m] = Append(t, seq[m])
      BY <1>10, <2>3, <2>4, Zenon
    <3>2. g[m] \in Seq(S)
      BY <1>1, <3>1
    <3>3. Picks(t, h, seq, positions, m - 1)
      BY <2>1, <2>3, Zenon
    <3>4. \E i : Picks(Append(t, seq[m]), i, seq, positions, m)
      BY <2>2, <2>4, <3>3, PickOneMore
    <3> QED
      BY <2>2, <3>1, <3>2, <3>4, Zenon
  <2>5. CASE m \notin positions
    <3>1. g[m] = t
      BY <1>10, <2>3, <2>5, Zenon
    <3>3. Picks(t, h, seq, positions, m - 1)
      BY <2>1, <2>3, Zenon
    <3>4. Picks(t, h, seq, positions, m)
      BY <2>2, <2>5, <3>3, PickNoMore
    <3> QED
      BY <2>2, <3>1, <3>4, Zenon
  <2> QED
    BY <2>4, <2>5
<1> HIDE DEF T
<1>13. \A m \in 0..N : m \in T
  BY <1>1, <1>11, <1>12, FromZeroTo
<1>14. N \in T
  BY <1>1, <1>13
<1> QED
  BY <1>9, <1>14, Zenon DEF T, N

-----------------------------------------------------------------------------
(* The declarations.                                                       *)

PassRecords == [cullable : BOOLEAN]
ResourceRecords ==
  [isImage : BOOLEAN, initialLayout : InitialLayouts \cup {"UNDEFINED"},
   presented : BOOLEAN, uses : Seq(UseRecords)]

(* What the declaring calls keep true: uses name declared passes.           *)
Declared ==
  /\ passes \in Seq(PassRecords) /\ Len(passes) <= MaxPasses
  /\ resources \in Seq(ResourceRecords)
  /\ \A r \in Resources : \A u \in DOMAIN Uses(r) : Uses(r)[u].pass \in Passes

(* The types of the declared passes and resources.                          *)
LEMMA DeclaredTypes ==
  ASSUME Declared
  PROVE  /\ Len(passes) \in Nat /\ Passes = 1..Len(passes)
         /\ \A p \in Passes : passes[p].cullable \in BOOLEAN
         /\ Resources = 1..Len(resources)
         /\ \A r \in Resources :
              /\ resources[r] \in ResourceRecords
              /\ Uses(r) \in Seq(UseRecords) /\ DOMAIN Uses(r) = 1..Len(Uses(r))
              /\ Len(Uses(r)) \in Nat
              /\ \A u \in DOMAIN Uses(r) : /\ Uses(r)[u] \in UseRecords
                                           /\ Uses(r)[u].pass \in Passes
                                           /\ Uses(r)[u].isRead \in BOOLEAN
<1>1. /\ passes \in Seq(PassRecords)
      /\ resources \in Seq(ResourceRecords)
      /\ \A r \in Resources : \A u \in DOMAIN Uses(r) : Uses(r)[u].pass \in Passes
  BY Zenon DEF Declared
<1>2. Len(passes) \in Nat /\ Passes = 1..Len(passes)
  BY <1>1 DEF Passes
<1>3. \A p \in Passes : passes[p].cullable \in BOOLEAN
  <2>1. \A p \in Passes : passes[p] \in PassRecords
    BY <1>1, <1>2
  <2>2. \A pass \in PassRecords : pass.cullable \in BOOLEAN
    BY DEF PassRecords
  <2> QED
    BY <2>1, <2>2
<1>4. Resources = 1..Len(resources) /\ \A r \in Resources : resources[r] \in ResourceRecords
  BY <1>1 DEF Resources
<1>5. ASSUME NEW r \in Resources
      PROVE  /\ Uses(r) \in Seq(UseRecords) /\ DOMAIN Uses(r) = 1..Len(Uses(r))
             /\ Len(Uses(r)) \in Nat
             /\ \A u \in DOMAIN Uses(r) : /\ Uses(r)[u] \in UseRecords
                                          /\ Uses(r)[u].isRead \in BOOLEAN
  <2>1. resources[r].uses \in Seq(UseRecords)
    BY <1>4 DEF ResourceRecords
  <2>2. Uses(r) \in Seq(UseRecords)
    BY <2>1 DEF Uses
  <2>3. \A u \in DOMAIN Uses(r) : Uses(r)[u] \in UseRecords
    BY <2>2
  <2>4. \A use \in UseRecords : use.isRead \in BOOLEAN
    BY DEF UseRecords
  <2> QED
    BY <2>2, <2>3, <2>4
<1> QED
  BY <1>1, <1>2, <1>3, <1>4, <1>5

(* An edge of the graph goes from one use of a resource to the next.        *)
LEMMA EdgesAreNeighbours ==
  ASSUME Declared
  PROVE  /\ \A e \in OrderingEdges :
              \E r \in Resources : \E u \in 2..Len(Uses(r)) :
                 /\ EdgeBetween(Uses(r)[u - 1], Uses(r)[u])
                 /\ e[1] = Uses(r)[u - 1].pass /\ e[2] = Uses(r)[u].pass
         /\ \A r \in Resources : \A u \in 2..Len(Uses(r)) :
              EdgeBetween(Uses(r)[u - 1], Uses(r)[u]) =>
                 <<Uses(r)[u - 1].pass, Uses(r)[u].pass>> \in OrderingEdges
<1>1. ASSUME NEW e \in OrderingEdges
      PROVE  \E r \in Resources : \E u \in 2..Len(Uses(r)) :
                 /\ EdgeBetween(Uses(r)[u - 1], Uses(r)[u])
                 /\ e[1] = Uses(r)[u - 1].pass /\ e[2] = Uses(r)[u].pass
  <2>1. PICK r \in Resources :
           e \in {<<pair[1].pass, pair[2].pass>> :
               pair \in {q \in ConsecutivePairs(r) : EdgeBetween(q[1], q[2])}}
    BY DEF OrderingEdges
  <2>2. PICK pair \in ConsecutivePairs(r) :
           EdgeBetween(pair[1], pair[2]) /\ e = <<pair[1].pass, pair[2].pass>>
    BY <2>1
  <2>3. PICK u \in 2..Len(Uses(r)) : pair = <<Uses(r)[u - 1], Uses(r)[u]>>
    BY <2>2 DEF ConsecutivePairs
  <2>4. pair[1] = Uses(r)[u - 1] /\ pair[2] = Uses(r)[u]
    BY <2>3
  <2>5. e[1] = pair[1].pass /\ e[2] = pair[2].pass
    BY <2>2
  <2> QED
    BY <2>2, <2>4, <2>5, Zenon
<1>2. ASSUME NEW r \in Resources, NEW u \in 2..Len(Uses(r)),
             EdgeBetween(Uses(r)[u - 1], Uses(r)[u])
      PROVE  <<Uses(r)[u - 1].pass, Uses(r)[u].pass>> \in OrderingEdges
  <2> DEFINE q == <<Uses(r)[u - 1], Uses(r)[u]>>
  <2>1. q \in ConsecutivePairs(r)
    BY DEF ConsecutivePairs
  <2>2. q[1] = Uses(r)[u - 1] /\ q[2] = Uses(r)[u]
    OBVIOUS
  <2> HIDE DEF q
  <2>3. q \in {p \in ConsecutivePairs(r) : EdgeBetween(p[1], p[2])}
    BY <1>2, <2>1, <2>2, Zenon
  <2>4. <<q[1].pass, q[2].pass>> \in
          {<<pair[1].pass, pair[2].pass>> :
               pair \in {p \in ConsecutivePairs(r) : EdgeBetween(p[1], p[2])}}
    BY <2>3, Zenon
  <2>5. <<q[1].pass, q[2].pass>> \in OrderingEdges
    BY <2>4, Zenon DEF OrderingEdges
  <2> QED
    BY <2>2, <2>5, Zenon
<1> QED
  BY <1>1, <1>2

(* An ordering edge joins two passes.                                       *)
LEMMA EdgesBetweenPasses ==
  ASSUME Declared
  PROVE  \A e \in OrderingEdges : e[1] \in Passes /\ e[2] \in Passes
<1>1. TAKE e \in OrderingEdges
<1>1a. PICK r \in Resources : \E u \in 2..Len(Uses(r)) :
         e[1] = Uses(r)[u - 1].pass /\ e[2] = Uses(r)[u].pass
  BY EdgesAreNeighbours
<1>2. PICK u \in 2..Len(Uses(r)) :
         e[1] = Uses(r)[u - 1].pass /\ e[2] = Uses(r)[u].pass
  BY <1>1a
<1>3. DOMAIN Uses(r) = 1..Len(Uses(r)) /\ Len(Uses(r)) \in Nat
  BY DeclaredTypes
<1>4. u \in DOMAIN Uses(r) /\ u - 1 \in DOMAIN Uses(r)
  BY <1>3
<1> QED
  BY <1>2, <1>4, DeclaredTypes

-----------------------------------------------------------------------------
(* Kahn's algorithm.                                                       *)

(* The least element of a set of numbers.                                   *)
LEMMA MinOf ==
  ASSUME NEW T \in SUBSET Nat, T # {}
  PROVE  Min(T) \in T /\ \A m \in T : Min(T) <= m
<1>1. \E n \in T : \A m \in T : n <= m
  BY LeastNumber
<1> QED
  BY <1>1 DEF Min

(* A pass is ordered once, and after every pass an edge comes from.         *)
Sound(order, edges) ==
  /\ order \in Seq(Passes)
  /\ \A i, j \in 1..Len(order) : order[i] = order[j] => i = j
  /\ \A i \in 1..Len(order) : \A e \in edges :
       e[2] = order[i] => \E j \in 1..(i - 1) : order[j] = e[1]

(* One round of Compile adds one pass that was ready.                       *)
LEMMA NextOrder ==
  ASSUME Declared, NEW edges, NEW order \in Seq(Passes), Ready(order, edges) # {}
  PROVE  \E p \in Ready(order, edges) :
            /\ p \in Passes /\ \A q \in Ready(order, edges) : p <= q
            /\ OrderNext(order, edges) = Append(order, p)
<1>1. Ready(order, edges) \subseteq Passes
  BY DEF Ready
<1>2. Ready(order, edges) \in SUBSET Nat
  BY <1>1, DeclaredTypes
<1>3. /\ Min(Ready(order, edges)) \in Ready(order, edges)
      /\ \A q \in Ready(order, edges) : Min(Ready(order, edges)) <= q
  BY <1>2, MinOf
<1> QED
  BY <1>1, <1>3, Zenon DEF OrderNext

(* A round keeps the order sound.                                           *)
LEMMA NextSound ==
  ASSUME Declared, NEW edges, NEW order, Sound(order, edges)
  PROVE  Sound(OrderNext(order, edges), edges)
<1>0. order \in Seq(Passes)
  BY Zenon DEF Sound
<1>1. CASE Ready(order, edges) = {}
  BY <1>1, Zenon DEF OrderNext
<1>2. CASE Ready(order, edges) # {}
  <2>1. PICK p \in Ready(order, edges) :
            p \in Passes /\ OrderNext(order, edges) = Append(order, p)
    BY <1>0, <1>2, NextOrder
  <2> DEFINE next == Append(order, p)
  <2>2. /\ Len(order) \in Nat /\ next \in Seq(Passes)
        /\ Len(next) = Len(order) + 1 /\ next[Len(order) + 1] = p
        /\ \A i \in 1..Len(order) : next[i] = order[i]
    BY <1>0, <2>1
  <2> HIDE DEF next
  <2>3. \A i \in 1..Len(next) : i = Len(order) + 1 \/ i \in 1..Len(order)
    BY <2>2
  <2>4. /\ \A i \in 1..Len(order) : order[i] # p
        /\ \A e \in edges : e[2] = p => \E j \in 1..Len(order) : e[1] = order[j]
    <3>1. DOMAIN order = 1..Len(order)
      BY <1>0
    <3> QED
      BY <2>1, <3>1 DEF Ready, Range
  <2>5. ASSUME NEW i \in 1..Len(next), NEW j \in 1..Len(next), next[i] = next[j]
        PROVE  i = j
    BY <2>2, <2>3, <2>4, <2>5 DEF Sound
  <2>6. ASSUME NEW i \in 1..Len(next), NEW e \in edges, e[2] = next[i]
        PROVE  \E j \in 1..(i - 1) : next[j] = e[1]
    <3>1. CASE i = Len(order) + 1
      <4>1. PICK j \in 1..Len(order) : e[1] = order[j]
        BY <2>2, <2>4, <2>6, <3>1
      <4>2. j \in 1..(i - 1)
        BY <2>2, <3>1
      <4> QED
        BY <2>2, <4>1, <4>2
    <3>2. CASE i \in 1..Len(order)
      <4>1. e[2] = order[i]
        BY <2>2, <2>6, <3>2
      <4>2. PICK j \in 1..(i - 1) : order[j] = e[1]
        BY <3>2, <4>1, Zenon DEF Sound
      <4>3. j \in 1..Len(order)
        BY <2>2, <3>2
      <4> QED
        BY <2>2, <4>2, <4>3
    <3> QED
      BY <2>3, <3>1, <3>2
  <2>7. Sound(next, edges)
    BY <2>2, <2>5, <2>6, Zenon DEF Sound
  <2> QED
    BY <2>1, <2>7, Zenon DEF next
<1> QED
  BY <1>1, <1>2

(* f holds the orders after each round.                                     *)
Rounds(f, edges) ==
  /\ f[0] = <<>>
  /\ \A k \in 1..Len(passes) : f[k] = OrderNext(f[k - 1], edges)

(* After each round the order is sound.                                     *)
LEMMA OrderedInRounds ==
  ASSUME Declared
  PROVE  \E f : Rounds(f, OrderingEdges) /\ TopologicalOrder = f[Len(passes)]
<1> DEFINE N == Len(passes)
           edges == OrderingEdges
           S == Seq(Passes)
           step == [k \in 1..N |-> [order \in S |-> OrderNext(order, edges)]]
           Rec(f) == f = [k \in 0..N |-> IF k = 0 THEN <<>> ELSE OrderNext(f[k - 1], edges)]
<1>1. N \in Nat
  BY DeclaredTypes
<1>2. <<>> \in S
  OBVIOUS
<1>3. ASSUME NEW order \in S PROVE OrderNext(order, edges) \in S
  <2>1. CASE Ready(order, edges) = {}
    BY <2>1, Zenon DEF OrderNext
  <2>2. CASE Ready(order, edges) # {}
    <3>1. PICK p \in Passes : OrderNext(order, edges) = Append(order, p)
      BY <2>2, NextOrder
    <3>2. Append(order, p) \in Seq(Passes)
      OBVIOUS
    <3> QED
      BY <3>1, <3>2, Zenon
  <2> QED
    BY <2>1, <2>2
<1> HIDE DEF S, edges
<1>4. step \in [1..N -> [S -> S]]
  BY <1>3, Zenon
<1>5. \A k \in 1..N : \A order \in S : step[k][order] = OrderNext(order, edges)
  BY Zenon
<1> HIDE DEF N, step
<1>6. PICK f \in [0..N -> S] : Steps(f, step, <<>>, N)
  BY <1>1, <1>2, <1>4, StepsExist
<1>7. f[0] = <<>>
  BY <1>6, Zenon DEF Steps
<1>8. ASSUME NEW k \in 1..N PROVE f[k] = OrderNext(f[k - 1], edges)
  <2>1. k - 1 \in 0..N
    BY <1>1
  <2>2. f[k - 1] \in S
    BY <2>1
  <2>3. f[k] = step[k][f[k - 1]]
    BY <1>6, Zenon DEF Steps
  <2> QED
    BY <1>5, <2>2, <2>3, Zenon
<1>9. Rec(f)
  <2>1. ASSUME NEW k \in 0..N
        PROVE  f[k] = IF k = 0 THEN <<>> ELSE OrderNext(f[k - 1], edges)
    <3>1. k = 0 \/ k \in 1..N
      BY <1>1
    <3> QED
      BY <1>7, <1>8, <3>1, Zenon
  <2> QED
    BY <2>1, Zenon
<1>10. PICK g : Rec(g) /\ TopologicalOrder = g[N]
  BY <1>9 DEF TopologicalOrder, N, edges
<1>11. /\ g[0] = <<>>
       /\ \A k \in 1..N : g[k] = OrderNext(g[k - 1], edges)
  <2>1. \A k \in 0..N : g[k] = IF k = 0 THEN <<>> ELSE OrderNext(g[k - 1], edges)
    BY <1>10, Zenon
  <2>2. \A k \in 1..N : k \in 0..N /\ k # 0
    BY <1>1
  <2>3. 0 \in 0..N
    BY <1>1
  <2> QED
    BY <2>1, <2>2, <2>3, Zenon
<1>12. Rounds(g, OrderingEdges)
  BY <1>11, Zenon DEF Rounds, N, edges
<1> QED
  BY <1>10, <1>12, Zenon DEF N

(* Every round orders one more pass, until none is ready.                   *)
LEMMA RoundsSound ==
  ASSUME Declared, NEW f, NEW edges, Rounds(f, edges)
  PROVE  \A k \in 0..Len(passes) :
            /\ Sound(f[k], edges)
            /\ Len(f[k]) = k \/ Ready(f[k], edges) = {}
<1> DEFINE N == Len(passes)
           Good(k) == Sound(f[k], edges) /\ (Len(f[k]) = k \/ Ready(f[k], edges) = {})
           T == {k \in 0..N : Good(k)}
<1>1. N \in Nat
  BY DeclaredTypes
<1>2. 0 \in T
  <2>1. f[0] = <<>>
    BY Zenon DEF Rounds
  <2>2. Sound(<<>>, edges) /\ Len(<<>>) = 0
    BY DEF Sound
  <2>3. Good(0)
    BY <2>1, <2>2, Zenon
  <2>4. 0 \in 0..N
    BY <1>1
  <2> QED
    BY <2>3, <2>4, Zenon
<1>3. ASSUME NEW k \in 1..N, k - 1 \in T PROVE k \in T
  <2>1. Good(k - 1)
    BY <1>3, Zenon
  <2>2. f[k] = OrderNext(f[k - 1], edges)
    BY Zenon DEF Rounds
  <2>3. Sound(f[k], edges)
    BY <2>1, <2>2, NextSound, Zenon
  <2>4. Len(f[k]) = k \/ Ready(f[k], edges) = {}
    <3>1. CASE Ready(f[k - 1], edges) = {}
      BY <2>2, <3>1, Zenon DEF OrderNext
    <3>2. CASE Ready(f[k - 1], edges) # {}
      <4>1. Len(f[k - 1]) = k - 1
        BY <2>1, <3>2
      <4>2. PICK order \in Seq(Passes) : order = f[k - 1]
        BY <2>1 DEF Sound
      <4>3. PICK p \in Passes : OrderNext(order, edges) = Append(order, p)
        BY <3>2, <4>2, NextOrder
      <4>4. Len(Append(order, p)) = Len(order) + 1
        OBVIOUS
      <4>5. Len(f[k]) = (k - 1) + 1
        BY <2>2, <4>1, <4>2, <4>3, <4>4
      <4> QED
        BY <4>5
    <3> QED
      BY <3>1, <3>2
  <2>5. k \in 0..N
    BY <1>1
  <2> QED
    BY <2>3, <2>4, <2>5, Zenon
<1> HIDE DEF T
<1>4. \A k \in 0..N : k \in T
  BY <1>1, <1>2, <1>3, FromZeroTo
<1> QED
  BY <1>4, Zenon DEF T, N

(* The topological order is sound.                                          *)
LEMMA OrderSound ==
  ASSUME Declared
  PROVE  /\ Sound(TopologicalOrder, OrderingEdges)
         /\ Len(TopologicalOrder) = Len(passes) \/ Ready(TopologicalOrder, OrderingEdges) = {}
<1>1. PICK f : Rounds(f, OrderingEdges) /\ TopologicalOrder = f[Len(passes)]
  BY OrderedInRounds
<1>2. Len(passes) \in 0..Len(passes)
  BY DeclaredTypes
<1> QED
  BY <1>1, <1>2, RoundsSound, Zenon

(* The order has every pass exactly if it is as long as the passes are many.*)
LEMMA AllOrdered ==
  ASSUME Declared, NEW edges, NEW order, Sound(order, edges)
  PROVE  Len(order) = Len(passes) <=> \A p \in Passes : \E i \in 1..Len(order) : order[i] = p
<1> DEFINE S == 1..Len(order)
           T == 1..Len(passes)
<1>1. order \in Seq(Passes) /\ \A i, j \in 1..Len(order) : order[i] = order[j] => i = j
  BY Zenon DEF Sound
<1>2. Passes = T /\ Len(passes) \in Nat
  BY DeclaredTypes
<1>3. Len(order) \in Nat /\ order \in [S -> T] /\ DOMAIN order = S
  BY <1>1, <1>2
<1>4. order \in Injection(S, T)
  BY <1>1, <1>3 DEF Injection, IsInjective
<1>5. /\ IsFiniteSet(T) /\ Cardinality(T) = Len(passes)
      /\ IsFiniteSet(S) /\ Cardinality(S) = Len(order)
  <2>1. ASSUME NEW n \in Nat PROVE IsFiniteSet(1..n) /\ Cardinality(1..n) = n
    <3>1. 1 \in Int /\ n \in Int
      OBVIOUS
    <3>2. /\ IsFiniteSet(1..n)
          /\ Cardinality(1..n) = IF 1 > n THEN 0 ELSE n - 1 + 1
      BY <3>1, FS_Interval, Zenon
    <3> QED
      BY <3>2
  <2> QED
    BY <1>2, <1>3, <2>1, Zenon
<1> HIDE DEF S, T
<1>6. Cardinality(S) = Cardinality(T) <=> order \in Surjection(S, T)
  BY <1>4, <1>5, FS_Injection
<1>7. order \in Surjection(S, T) <=> \A p \in T : \E i \in S : order[i] = p
  BY <1>3 DEF Surjection
<1> QED
  BY <1>2, <1>5, <1>6, <1>7 DEF S

(* Without a cycle every pass is in the order.                              *)
LEMMA AllPassesOrdered ==
  ASSUME Declared, Len(TopologicalOrder) = Len(passes)
  PROVE  \A p \in Passes : \E i \in 1..Len(TopologicalOrder) : TopologicalOrder[i] = p
<1>1. Sound(TopologicalOrder, OrderingEdges)
  BY OrderSound, Zenon
<1> QED
  BY <1>1, AllOrdered, Zenon

(* Passes left over wait for one another, so no position suits them all.    *)
LEMMA CycleHasNoOrder ==
  ASSUME Declared, Len(TopologicalOrder) # Len(passes), NEW position \in [Passes -> Passes]
  PROVE  \E r \in Resources : \E u \in 2 .. Len(Uses(r)) :
            /\ IsWrite(Uses(r)[u - 1]) \/ IsWrite(Uses(r)[u])
            /\ position[Uses(r)[u - 1].pass] >= position[Uses(r)[u].pass]
<1> DEFINE order == TopologicalOrder
           edges == OrderingEdges
           left == {p \in Passes : \A i \in 1..Len(order) : order[i] # p}
           places == {position[p] : p \in left}
<1>1. Sound(order, edges) /\ Ready(order, edges) = {}
  BY OrderSound
<1> HIDE DEF order, edges
<1>2. PICK p : p \in left
  BY <1>1, AllOrdered DEF order
<1>3. Passes \subseteq Nat
  BY DeclaredTypes
<1>4. places \in SUBSET Nat /\ places # {}
  BY <1>2, <1>3
<1>5. PICK least \in places : \A n \in places : least <= n
  <2> HIDE DEF places
  <2> QED
    BY <1>4, LeastNumber
<1>6. PICK q \in left : least = position[q]
  OBVIOUS
<1>7. order \in Seq(Passes) /\ DOMAIN order = 1..Len(order)
  BY <1>1 DEF Sound
<1>8. q \in Passes /\ q \notin Range(order)
  BY <1>7 DEF Range
<1>9. PICK e \in edges : e[2] = q /\ e[1] \notin Range(order)
  BY <1>1, <1>8, Zenon DEF Ready
<1>10. e[1] \in Passes
  BY <1>9, EdgesBetweenPasses DEF edges
<1>11. e[1] \in left
  BY <1>7, <1>9, <1>10 DEF Range
<1>12. position[e[1]] \in places
  BY <1>11
<1>13. least <= position[e[1]]
  BY <1>5, <1>12
<1>14. position[e[1]] >= position[e[2]]
  <2>1. position[e[1]] \in Nat /\ position[e[2]] \in Nat
    BY <1>3, <1>8, <1>9, <1>10
  <2>2. position[e[2]] <= position[e[1]]
    BY <1>6, <1>9, <1>13, Zenon
  <2> QED
    BY <2>1, <2>2
<1>15. PICK r \in Resources : \E u \in 2..Len(Uses(r)) :
          /\ EdgeBetween(Uses(r)[u - 1], Uses(r)[u])
          /\ e[1] = Uses(r)[u - 1].pass /\ e[2] = Uses(r)[u].pass
  BY EdgesAreNeighbours, Zenon DEF edges
<1>16. PICK u \in 2..Len(Uses(r)) :
          /\ EdgeBetween(Uses(r)[u - 1], Uses(r)[u])
          /\ e[1] = Uses(r)[u - 1].pass /\ e[2] = Uses(r)[u].pass
  BY <1>15
<1>17. IsWrite(Uses(r)[u - 1]) \/ IsWrite(Uses(r)[u])
  BY <1>16, Zenon DEF EdgeBetween, IsWrite
<1>18. position[Uses(r)[u - 1].pass] >= position[Uses(r)[u].pass]
  BY <1>14, <1>16, Zenon
<1> QED
  BY <1>17, <1>18, Zenon

-----------------------------------------------------------------------------
(* The order of the uses of a resource.                                    *)

(* What rises from each place to the next rises over any distance.          *)
LEMMA Rising ==
  ASSUME NEW n \in Nat, NEW q \in [1..n -> Nat], \A u \in 2..n : q[u - 1] < q[u]
  PROVE  \A i, j \in 1..n : i < j => q[i] < q[j]
<1> DEFINE T == {m \in 0..n : \A i, j \in 1..m : i < j => q[i] < q[j]}
<1>1. 0 \in T
  OBVIOUS
<1>2. ASSUME NEW m \in 1..n, m - 1 \in T PROVE m \in T
  <2>1. ASSUME NEW i \in 1..m, NEW j \in 1..m, i < j PROVE q[i] < q[j]
    <3>1. CASE j \in 1..(m - 1)
      <4>1. i \in 1..(m - 1)
        BY <2>1, <3>1
      <4> QED
        BY <1>2, <2>1, <3>1, <4>1
    <3>2. CASE j = m
      <4>1. i \in 1..(m - 1) /\ m - 1 \in 1..(m - 1) /\ m \in 2..n
        BY <2>1, <3>2
      <4>2. q[m - 1] < q[m]
        BY <4>1
      <4>3. i = m - 1 \/ i < m - 1
        BY <4>1
      <4>4. i < m - 1 => q[i] < q[m - 1]
        BY <1>2, <4>1
      <4>5. i \in 1..n /\ m - 1 \in 1..n /\ m \in 1..n
        BY <4>1
      <4>6. q[i] \in Nat /\ q[m - 1] \in Nat /\ q[m] \in Nat
        BY <4>5
      <4> QED
        BY <3>2, <4>2, <4>3, <4>4, <4>6
    <3> QED
      BY <3>1, <3>2
  <2>2. m \in 0..n
    OBVIOUS
  <2> QED
    BY <2>1, <2>2
<1> HIDE DEF T
<1>3. \A m \in 0..n : m \in T
  BY <1>1, <1>2, FromZeroTo
<1>4. n \in T
  BY <1>3
<1> QED
  BY <1>4 DEF T

(* Uses declared in the order of the pass ids leave the passes in that order.*)
LEMMA OrderById ==
  ASSUME Declared, DeclaredInOrder
  PROVE  /\ Len(TopologicalOrder) = Len(passes)
         /\ \A i \in 1..Len(passes) : TopologicalOrder[i] = i
<1> DEFINE N == Len(passes)
           edges == OrderingEdges
<1>1. PICK f : Rounds(f, edges) /\ TopologicalOrder = f[N]
  BY OrderedInRounds
<1>2. Passes = 1..N /\ N \in Nat
  BY DeclaredTypes
<1>3. ASSUME NEW e \in edges PROVE e[1] \in 1..N /\ e[2] \in 1..N /\ e[1] < e[2]
  <2>1. PICK r \in Resources : \E u \in 2..Len(Uses(r)) :
          e[1] = Uses(r)[u - 1].pass /\ e[2] = Uses(r)[u].pass
    BY EdgesAreNeighbours
  <2>2. PICK u \in 2..Len(Uses(r)) : e[1] = Uses(r)[u - 1].pass /\ e[2] = Uses(r)[u].pass
    BY <2>1
  <2>3. Uses(r)[u - 1].pass < Uses(r)[u].pass
    BY DEF DeclaredInOrder
  <2> QED
    BY <1>2, <2>2, <2>3, EdgesBetweenPasses
<1> HIDE DEF edges, N
<1> DEFINE T == {k \in 0..N : /\ f[k] \in Seq(Passes) /\ Len(f[k]) = k
                              /\ \A i \in 1..k : f[k][i] = i}
<1>4. 0 \in T
  <2>1. f[0] = <<>>
    BY <1>1, Zenon DEF Rounds
  <2>2. <<>> \in Seq(Passes) /\ Len(<<>>) = 0 /\ \A i \in 1..0 : <<>>[i] = i
    OBVIOUS
  <2>3. 0 \in 0..N
    BY <1>2
  <2> QED
    BY <2>1, <2>2, <2>3, Zenon
<1>5. ASSUME NEW k \in 1..N, k - 1 \in T PROVE k \in T
  <2>1. PICK order \in Seq(Passes) : order = f[k - 1]
    BY <1>5
  <2>2. Len(order) = k - 1 /\ \A i \in 1..(k - 1) : order[i] = i
    BY <1>5, <2>1
  <2>3. Range(order) = 1..(k - 1)
    <3>1. DOMAIN order = 1..(k - 1)
      BY <2>2
    <3> QED
      BY <2>2, <3>1 DEF Range
  <2>4. f[k] = OrderNext(order, edges)
    BY <1>1, <2>1, Zenon DEF Rounds, N
  <2>5. k \in Ready(order, edges)
    <3>1. k \in Passes /\ k \notin 1..(k - 1)
      BY <1>2
    <3>2. ASSUME NEW e \in edges, e[2] = k PROVE e[1] \in 1..(k - 1)
      BY <1>2, <1>3, <3>2
    <3> QED
      BY <2>3, <3>1, <3>2, Zenon DEF Ready
  <2>6. PICK p \in Ready(order, edges) :
            /\ p \in Passes /\ \A q \in Ready(order, edges) : p <= q
            /\ OrderNext(order, edges) = Append(order, p)
    BY <2>5, NextOrder, Zenon
  <2>7. p \in 1..N /\ p \notin 1..(k - 1) /\ p <= k
    BY <1>2, <2>3, <2>5, <2>6, Zenon DEF Ready
  <2>8. p = k
    BY <1>2, <2>7
  <2>9. f[k] = Append(order, k)
    BY <2>4, <2>6, <2>8, Zenon
  <2>10. /\ Append(order, k) \in Seq(Passes) /\ Len(Append(order, k)) = k
         /\ \A i \in 1..k : Append(order, k)[i] = i
    BY <1>2, <2>2
  <2>11. k \in 0..N
    BY <1>2
  <2> QED
    BY <2>9, <2>10, <2>11, Zenon
<1> HIDE DEF T
<1>6. \A k \in 0..N : k \in T
  BY <1>2, <1>4, <1>5, FromZeroTo
<1>7. N \in T
  BY <1>2, <1>6
<1> QED
  BY <1>1, <1>7, Zenon DEF T, N

(* In a conformant graph a resource is used in the order of the declarations.*)
LEMMA UsesInOrder ==
  ASSUME Declared, Conformant, NEW order, order = TopologicalOrder,
         Len(order) = Len(passes),
         NEW r \in Resources, NEW i \in DOMAIN Uses(r), NEW j \in DOMAIN Uses(r), i < j,
         NEW a \in 1..Len(order), NEW b \in 1..Len(order),
         order[a] = Uses(r)[i].pass, order[b] = Uses(r)[j].pass
  PROVE  a < b
<1> DEFINE N == Len(passes)
           n == Len(Uses(r))
           pos == [p \in Passes |-> CHOOSE k \in 1..N : order[k] = p]
           q == [u \in 1..n |-> pos[Uses(r)[u].pass]]
<1>1. /\ Sound(order, OrderingEdges)
      /\ Passes = 1..N /\ N \in Nat /\ n \in Nat /\ DOMAIN Uses(r) = 1..n
      /\ \A u \in 1..n : Uses(r)[u].pass \in Passes
  BY OrderSound, DeclaredTypes
<1>2. \A k, l \in 1..N : order[k] = order[l] => k = l
  BY <1>1 DEF Sound
<1>3. \A p \in Passes : \E k \in 1..N : order[k] = p
  <2>1. \A p \in Passes : \E k \in 1..Len(order) : order[k] = p
    BY AllPassesOrdered, Zenon
  <2> QED
    BY <2>1, Zenon
<1>4. \A p \in Passes : pos[p] \in 1..N /\ order[pos[p]] = p
  BY <1>3
<1>5. \A k \in 1..N : \A p \in Passes : order[k] = p => pos[p] = k
  BY <1>2, <1>4
<1> HIDE DEF pos
<1>6. \A u \in 1..n : q[u] = pos[Uses(r)[u].pass] /\ q[u] \in 1..N
  BY <1>1, <1>4
<1>7. q \in [1..n -> Nat]
  BY <1>1, <1>4
<1> HIDE DEF N, n, q
<1>8. ASSUME NEW u \in 2..n PROVE q[u - 1] < q[u]
  <2>1. u \in 1..n /\ u - 1 \in 1..n
    BY <1>1
  <2>2. CASE DeclaredInOrder
    <3>1. \A k \in 1..N : order[k] = k
      BY <2>2, OrderById DEF N
    <3>2. \A p \in Passes : pos[p] = p
      BY <1>1, <1>5, <3>1
    <3>3. Uses(r)[u - 1].pass < Uses(r)[u].pass
      BY <2>2 DEF DeclaredInOrder, n
    <3> QED
      BY <1>1, <1>6, <2>1, <3>2, <3>3
  <2>3. CASE NoConsecutiveReads
    <3>1. EdgeBetween(Uses(r)[u - 1], Uses(r)[u])
      BY <2>3 DEF NoConsecutiveReads, n, EdgeBetween, IsWrite
    <3>2. PICK e : e = <<Uses(r)[u - 1].pass, Uses(r)[u].pass>>
      OBVIOUS
    <3>3. e \in OrderingEdges /\ e[1] = Uses(r)[u - 1].pass /\ e[2] = Uses(r)[u].pass
      <4>1. <<Uses(r)[u - 1].pass, Uses(r)[u].pass>> \in OrderingEdges
        BY <3>1, EdgesAreNeighbours, Zenon DEF n
      <4> QED
        BY <3>2, <4>1
    <3>4. q[u] \in 1..Len(order) /\ order[q[u]] = e[2]
      <4>1. Uses(r)[u].pass \in Passes /\ q[u] = pos[Uses(r)[u].pass] /\ q[u] \in 1..N
        BY <1>1, <1>6, <2>1, Zenon
      <4>2. order[q[u]] = Uses(r)[u].pass
        BY <1>4, <4>1, Zenon
      <4> QED
        BY <3>3, <4>1, <4>2, Zenon DEF N
    <3>5. PICK k \in 1..(q[u] - 1) : order[k] = e[1]
      BY <1>1, <3>3, <3>4, Zenon DEF Sound
    <3>6. k \in 1..N /\ k < q[u]
      <4>1. PICK w \in 1..N : w = q[u]
        BY <1>6, <2>1, Zenon
      <4>2. N \in Nat /\ k \in 1..(w - 1)
        BY <1>1, <4>1, Zenon
      <4>3. k \in 1..N /\ k < w
        BY <4>2
      <4> QED
        BY <4>1, <4>3, Zenon
    <3>7. q[u - 1] = k
      BY <1>1, <1>5, <1>6, <2>1, <3>3, <3>5, <3>6
    <3> QED
      BY <3>6, <3>7
  <2> QED
    BY <2>2, <2>3 DEF Conformant
<1>9. \A k, l \in 1..n : k < l => q[k] < q[l]
  BY <1>1, <1>7, <1>8, Rising
<1>10. q[i] = a /\ q[j] = b
  <2>1. Uses(r)[i].pass \in Passes /\ Uses(r)[j].pass \in Passes /\ i \in 1..n /\ j \in 1..n
    BY <1>1
  <2>2. q[i] = pos[Uses(r)[i].pass] /\ q[j] = pos[Uses(r)[j].pass]
    BY <1>6, <2>1, Zenon
  <2> QED
    BY <1>5, <2>1, <2>2, Zenon DEF N
<1> QED
  BY <1>1, <1>9, <1>10

-----------------------------------------------------------------------------
(* The survivors.                                                          *)

(* The survivors behind a place of the order.                               *)
Later(order, S, i) == {order[j] : j \in {k \in (i + 1)..Len(order) : order[k] \in S}}

(* from holds what is kept of the passes from each place on.                *)
SweptBack(from, order) ==
  /\ from[Len(order) + 1] = {}
  /\ \A i \in 1..Len(order) : from[i] = Sweep(order[i], from[i + 1])

(* The survivors are what the reverse sweep leaves.                         *)
LEMMA SurvivorsSwept ==
  ASSUME NEW S, NEW order \in Seq(S)
  PROVE  \E from : SweptBack(from, order) /\ SurvivingPasses(order) = from[1]
<1> DEFINE N == Len(order)
           X == SUBSET S
           step == [k \in 1..N |-> [s \in X |-> Sweep(order[(N + 1) - k], s)]]
           Rec(f) == f = [i \in 1..(N + 1) |->
                            IF i = N + 1 THEN {} ELSE Sweep(order[i], f[i + 1])]
<1>1. N \in Nat /\ \A i \in 1..N : order[i] \in S
  OBVIOUS
<1>2. ASSUME NEW i \in 1..N, NEW s \in X PROVE Sweep(order[i], s) \in X
  <2>1. order[i] \in S
    BY <1>1
  <2> QED
    BY <2>1 DEF Sweep
<1>3. \A k \in 1..N : (N + 1) - k \in 1..N
  BY <1>1
<1>4. {} \in X
  OBVIOUS
<1> HIDE DEF X, N
<1>5. step \in [1..N -> [X -> X]]
  BY <1>2, <1>3, Zenon
<1>6. \A k \in 1..N : \A s \in X : step[k][s] = Sweep(order[(N + 1) - k], s)
  BY Zenon
<1> HIDE DEF step
<1>7. PICK f \in [0..N -> X] : Steps(f, step, {}, N)
  BY <1>1, <1>4, <1>5, StepsExist
<1> DEFINE g == [i \in 1..(N + 1) |-> f[(N + 1) - i]]
<1>8. g[N + 1] = {}
  <2>1. N + 1 \in 1..(N + 1) /\ (N + 1) - (N + 1) = 0
    BY <1>1
  <2>2. f[0] = {}
    BY <1>7, Zenon DEF Steps
  <2> QED
    BY <2>1, <2>2
<1>9. ASSUME NEW i \in 1..N PROVE g[i] = Sweep(order[i], g[i + 1])
  <2>1. PICK k \in 1..N : k = (N + 1) - i
    BY <1>3
  <2>2. /\ i \in 1..(N + 1) /\ i + 1 \in 1..(N + 1) /\ (N + 1) - (i + 1) = k - 1
        /\ k - 1 \in 0..N /\ (N + 1) - k = i
    BY <1>1, <2>1
  <2>3. g[i] = f[k] /\ g[i + 1] = f[k - 1]
    BY <2>1, <2>2
  <2>4. f[k] = step[k][f[k - 1]] /\ f[k - 1] \in X
    BY <1>7, <2>2, Zenon DEF Steps
  <2>5. step[k][f[k - 1]] = Sweep(order[(N + 1) - k], f[k - 1])
    BY <1>6, <2>4, Zenon
  <2> HIDE DEF g
  <2> QED
    BY <2>2, <2>3, <2>4, <2>5, Zenon
<1>10. g = [i \in 1..(N + 1) |-> g[i]]
  OBVIOUS
<1> HIDE DEF g
<1>11. Rec(g)
  <2>1. ASSUME NEW i \in 1..(N + 1)
        PROVE  g[i] = IF i = N + 1 THEN {} ELSE Sweep(order[i], g[i + 1])
    <3>1. i = N + 1 \/ i \in 1..N
      BY <1>1
    <3>2. N + 1 \notin 1..N
      BY <1>1
    <3> QED
      BY <1>8, <1>9, <3>1, <3>2, Zenon
  <2>2. [i \in 1..(N + 1) |-> g[i]]
           = [i \in 1..(N + 1) |-> IF i = N + 1 THEN {} ELSE Sweep(order[i], g[i + 1])]
    BY <2>1, Zenon
  <2> QED
    BY <1>10, <2>2, Zenon
<1>12. PICK h : Rec(h) /\ SurvivingPasses(order) = h[1]
  BY <1>11 DEF SurvivingPasses, N
<1>13. \A i \in 1..(N + 1) : h[i] = IF i = N + 1 THEN {} ELSE Sweep(order[i], h[i + 1])
  BY <1>12, Zenon
<1>14. h[N + 1] = {} /\ \A i \in 1..N : h[i] = Sweep(order[i], h[i + 1])
  <2>1. N + 1 \in 1..(N + 1) /\ \A i \in 1..N : i \in 1..(N + 1) /\ i # N + 1
    BY <1>1
  <2> QED
    BY <1>13, <2>1, Zenon
<1> QED
  BY <1>12, <1>14, Zenon DEF SweptBack, N

(* A pass survives exactly if there is a reason among the later survivors.  *)
LEMMA SurvivesForReason ==
  ASSUME NEW S, NEW order \in Seq(S),
         \A i, j \in 1..Len(order) : order[i] = order[j] => i = j
  PROVE  /\ \A p \in SurvivingPasses(order) : \E i \in 1..Len(order) : order[i] = p
         /\ \A i \in 1..Len(order) :
              order[i] \in SurvivingPasses(order) <=>
                 HasReasonToSurvive(order[i], Later(order, SurvivingPasses(order), i))
<1> DEFINE N == Len(order)
<1>0. PICK from : SweptBack(from, order) /\ SurvivingPasses(order) = from[1]
  BY SurvivorsSwept
<1> DEFINE kept == from[1]
           FromThere(i) == \A p \in from[i] : \E j \in i..N : order[j] = p
<1>1. /\ N \in Nat /\ from[N + 1] = {}
      /\ \A i \in 1..N : from[i] = Sweep(order[i], from[i + 1])
  BY <1>0 DEF SweptBack
<1>2. \A i \in 1..N : from[i] = from[i + 1] \/ from[i] = from[i + 1] \cup {order[i]}
  BY <1>1, Zenon DEF Sweep
<1> HIDE DEF N
\* Downwards: what is kept from a place on is behind it.
<1>3. \A i \in 1..(N + 1) : FromThere(i)
  <2> DEFINE T == {m \in 0..N : FromThere((N + 1) - m)}
  <2>1. 0 \in T
    <3>1. (N + 1) - 0 = N + 1 /\ 0 \in 0..N
      BY <1>1
    <3>2. FromThere(N + 1)
      BY <1>1, Zenon
    <3> HIDE DEF FromThere
    <3> QED
      BY <3>1, <3>2
  <2>2. ASSUME NEW m \in 1..N, m - 1 \in T PROVE m \in T
    <3>1. PICK i \in 1..N : i = (N + 1) - m
      BY <1>1
    <3>2. (N + 1) - (m - 1) = i + 1 /\ m \in 0..N
      BY <1>1, <3>1
    <3>3. FromThere(i + 1)
      <4>1. FromThere((N + 1) - (m - 1))
        BY <2>2, Zenon
      <4> HIDE DEF FromThere
      <4> QED
        BY <3>2, <4>1
    <3>4. ASSUME NEW p \in from[i] PROVE \E j \in i..N : order[j] = p
      <4>1. CASE p \in from[i + 1]
        <5>1. PICK j \in (i + 1)..N : order[j] = p
          BY <3>3, <4>1, Zenon
        <5>2. j \in i..N
          BY <1>1
        <5> QED
          BY <5>1, <5>2, Zenon
      <4>2. CASE p = order[i]
        <5>1. i \in i..N
          BY <1>1
        <5> QED
          BY <4>2, <5>1, Zenon
      <4> QED
        BY <1>2, <4>1, <4>2
    <3>5. FromThere(i)
      BY <3>4, Zenon
    <3> HIDE DEF FromThere
    <3> QED
      BY <3>1, <3>2, <3>5
  <2> HIDE DEF T
  <2>3. \A m \in 0..N : m \in T
    BY <1>1, <2>1, <2>2, FromZeroTo
  <2>4. ASSUME NEW i \in 1..(N + 1) PROVE FromThere(i)
    <3>1. PICK m \in 0..N : m = (N + 1) - i
      BY <1>1
    <3>2. m \in T /\ (N + 1) - m = i
      BY <1>1, <2>3, <3>1
    <3>3. FromThere((N + 1) - m)
      BY <3>2, Zenon DEF T
    <3> HIDE DEF FromThere
    <3> QED
      BY <3>2, <3>3
  <2> QED
    BY <2>4, Zenon
\* Upwards: sweeping earlier passes changes nothing for a later one.
<1>4. ASSUME NEW j \in 1..N PROVE \A i \in 1..j : order[j] \in from[i] <=> order[j] \in kept
  <2> DEFINE T == {m \in 0..(j - 1) : order[j] \in from[m + 1] <=> order[j] \in kept}
  <2>1. 0 \in T
    <3>1. 0 \in 0..(j - 1) /\ 0 + 1 = 1
      BY <1>1
    <3> QED
      BY <3>1
  <2>2. ASSUME NEW m \in 1..(j - 1), m - 1 \in T PROVE m \in T
    <3>1. m \in 1..N /\ m # j /\ m \in 0..(j - 1) /\ (m - 1) + 1 = m
      BY <1>1
    <3>2. order[m] # order[j]
      BY <3>1 DEF N
    <3>3. order[j] \in from[m] <=> order[j] \in kept
      BY <2>2, <3>1
    <3>4. from[m] = from[m + 1] \/ from[m] = from[m + 1] \cup {order[m]}
      BY <1>2, <3>1, Zenon
    <3>5. order[j] \in from[m + 1] <=> order[j] \in kept
      BY <3>2, <3>3, <3>4
    <3> QED
      BY <3>1, <3>5, Zenon
  <2> HIDE DEF T
  <2>3. j - 1 \in Nat
    BY <1>1
  <2>4. \A m \in 0..(j - 1) : m \in T
    BY <2>1, <2>2, <2>3, FromZeroTo
  <2>5. ASSUME NEW i \in 1..j PROVE order[j] \in from[i] <=> order[j] \in kept
    <3>1. PICK m \in 0..(j - 1) : m = i - 1
      BY <1>1
    <3>2. m \in T /\ m + 1 = i
      BY <1>1, <2>4, <3>1
    <3> QED
      BY <3>2 DEF T
  <2> QED
    BY <2>5
<1>5. ASSUME NEW i \in 1..N PROVE from[i + 1] = Later(order, kept, i)
  <2>1. ASSUME NEW p \in from[i + 1] PROVE p \in Later(order, kept, i)
    <3>1. i + 1 \in 1..(N + 1)
      BY <1>1
    <3>2. PICK j \in (i + 1)..N : order[j] = p
      BY <1>3, <3>1, Zenon
    <3>3. j \in 1..N /\ i + 1 \in 1..j
      BY <1>1
    <3>4. order[j] \in kept
      BY <1>4, <2>1, <3>2, <3>3, Zenon
    <3> HIDE DEF kept
    <3> QED
      BY <3>2, <3>4 DEF Later, N
  <2>2. ASSUME NEW p \in Later(order, kept, i) PROVE p \in from[i + 1]
    <3>1. PICK j \in (i + 1)..N : p = order[j] /\ order[j] \in kept
      BY DEF Later, N
    <3>2. j \in 1..N /\ i + 1 \in 1..j
      BY <1>1
    <3> QED
      BY <1>4, <3>1, <3>2, Zenon
  <2> QED
    BY <2>1, <2>2
<1>6. ASSUME NEW i \in 1..N
      PROVE  order[i] \in kept <=> HasReasonToSurvive(order[i], Later(order, kept, i))
  <2>1. order[i] \notin from[i + 1]
    <3>1. i + 1 \in 1..(N + 1)
      BY <1>1
    <3>2. ASSUME order[i] \in from[i + 1] PROVE FALSE
      <4>1. PICK j \in (i + 1)..N : order[j] = order[i]
        BY <1>3, <3>1, <3>2, Zenon
      <4>2. j \in 1..N /\ j # i
        BY <1>1
      <4> QED
        BY <4>1, <4>2 DEF N
    <3> QED
      BY <3>2
  <2>2. i \in 1..i
    BY <1>1
  <2>3. order[i] \in from[i] <=> order[i] \in kept
    BY <1>4, <2>2
  <2>4. order[i] \in from[i] <=> HasReasonToSurvive(order[i], from[i + 1])
    <3>1. from[i] = IF HasReasonToSurvive(order[i], from[i + 1])
                    THEN from[i + 1] \cup {order[i]} ELSE from[i + 1]
      BY <1>1, Zenon DEF Sweep
    <3> QED
      BY <2>1, <3>1
  <2> QED
    BY <1>5, <2>3, <2>4, Zenon
<1>7. \A p \in kept : \E i \in 1..N : order[i] = p
  <2>1. 1 \in 1..(N + 1)
    BY <1>1
  <2> QED
    BY <1>3, <2>1, Zenon
<1>8. kept = SurvivingPasses(order)
  BY <1>0
<1> HIDE DEF kept
<1> QED
  BY <1>6, <1>7, <1>8, Zenon DEF N

-----------------------------------------------------------------------------
(* The compiled graph.                                                     *)

Survivors == SurvivingPasses(TopologicalOrder)

(* The result is that of an order of all passes.                            *)
ResultOfOrder ==
  /\ Len(TopologicalOrder) = Len(passes) /\ resources # <<>>
  /\ out.order = SurvivingOrder(TopologicalOrder, Survivors)
  /\ out.lifetimes = Lifetimes(Survivors)
  /\ out.imageBarriers = BarriersOf(TRUE, Survivors)
  /\ out.bufferBarriers = BarriersOf(FALSE, Survivors)

(* The order of all passes, as the lemmas below use it.                     *)
LEMMA FullOrder ==
  ASSUME Declared, ResultOfOrder, NEW order, order = TopologicalOrder
  PROVE  /\ order \in Seq(Passes) /\ DOMAIN order = 1..Len(order) /\ Len(order) \in Nat
         /\ \A i, j \in 1..Len(order) : order[i] = order[j] => i = j
         /\ \A p \in Passes : \E i \in 1..Len(order) : order[i] = p
         /\ \A p \in Survivors : \E i \in 1..Len(order) : order[i] = p
         /\ \A i \in 1..Len(order) :
              /\ order[i] \in Passes
              /\ order[i] \in Survivors <=>
                    HasReasonToSurvive(order[i], Later(order, Survivors, i))
<1>1. Sound(order, OrderingEdges) /\ Len(order) = Len(passes)
  BY OrderSound DEF ResultOfOrder
<1>2. order \in Seq(Passes) /\ \A i, j \in 1..Len(order) : order[i] = order[j] => i = j
  BY <1>1, Zenon DEF Sound
<1>3. \A p \in Passes : \E i \in 1..Len(order) : order[i] = p
  BY <1>1, AllOrdered, Zenon
<1>4. /\ DOMAIN order = 1..Len(order) /\ Len(order) \in Nat
      /\ \A i \in 1..Len(order) : order[i] \in Passes
  BY <1>2
<1>5. /\ \A p \in SurvivingPasses(order) : \E i \in 1..Len(order) : order[i] = p
      /\ \A i \in 1..Len(order) :
           order[i] \in SurvivingPasses(order) <=>
              HasReasonToSurvive(order[i], Later(order, SurvivingPasses(order), i))
  BY <1>2, SurvivesForReason
<1>6. Survivors = SurvivingPasses(order)
  BY Zenon DEF Survivors
<1> QED
  BY <1>2, <1>3, <1>4, <1>5, <1>6, Zenon

(* The result lists the survivors, and one runs before another exactly if   *)
(* it does so in the order of all passes.                                   *)
LEMMA ResultInOrder ==
  ASSUME Declared, ResultOfOrder, NEW order, order = TopologicalOrder
  PROVE  /\ \A p : Survives(p) <=> p \in Survivors
         /\ \A a, b \in 1..Len(order) :
              order[a] \in Survivors /\ order[b] \in Survivors =>
                 (RunsBefore(order[a], order[b]) <=> a < b)
<1> DEFINE N == Len(order)
           t == out.order
           positions == {i \in DOMAIN order : order[i] \in Survivors}
<1>1. /\ order \in Seq(Passes) /\ DOMAIN order = 1..N /\ N \in Nat
      /\ \A i, j \in 1..N : order[i] = order[j] => i = j
      /\ \A p \in Survivors : \E i \in 1..N : order[i] = p
  BY FullOrder
<1>2. t = Picked(order, positions)
  BY Zenon DEF ResultOfOrder, SurvivingOrder
<1>3. positions = {i \in 1..N : order[i] \in Survivors}
  BY <1>1
<1> HIDE DEF positions, t
<1>4. t \in Seq(Passes) /\ \E h : Picks(t, h, order, positions, N)
  BY <1>1, <1>2, PickedPicks, Zenon
<1>5. PICK h : Picks(t, h, order, positions, N)
  BY <1>4
<1>6. /\ Len(t) \in Nat /\ DOMAIN t = 1..Len(t)
      /\ h \in [1..Len(t) -> 1..N]
      /\ \A i \in 1..Len(t) : t[i] = order[h[i]] /\ h[i] \in positions
      /\ \A i, j \in 1..Len(t) : i < j => h[i] < h[j]
      /\ \A k \in 1..N : k \in positions => \E i \in 1..Len(t) : h[i] = k
  <2>1. Len(t) \in Nat /\ DOMAIN t = 1..Len(t)
    BY <1>4
  <2> QED
    BY <1>5, <2>1, Zenon DEF Picks
<1>7. ASSUME NEW p PROVE Survives(p) <=> p \in Survivors
  <2>1. ASSUME Survives(p) PROVE p \in Survivors
    <3>1. PICK i \in 1..Len(t) : p = t[i]
      BY <1>6, <2>1 DEF Survives, Range, t
    <3> QED
      BY <1>3, <1>6, <3>1
  <2>2. ASSUME p \in Survivors PROVE Survives(p)
    <3>1. PICK k \in 1..N : order[k] = p
      BY <1>1, <2>2
    <3>2. PICK i \in 1..Len(t) : h[i] = k
      BY <1>3, <1>6, <2>2, <3>1
    <3>3. i \in DOMAIN t /\ t[i] = p
      BY <1>6, <3>1, <3>2
    <3> QED
      BY <3>3 DEF Survives, Range, t
  <2> QED
    BY <2>1, <2>2
<1>8. ASSUME NEW a \in 1..N, order[a] \in Survivors
      PROVE  OrderIndex(order[a]) \in 1..Len(t) /\ h[OrderIndex(order[a])] = a
  <2>1. PICK k \in 1..Len(t) : h[k] = a
    BY <1>3, <1>6, <1>8
  <2>2. k \in DOMAIN t /\ t[k] = order[a]
    BY <1>6, <2>1
  <2>3. OrderIndex(order[a]) \in DOMAIN t /\ t[OrderIndex(order[a])] = order[a]
    BY <2>2, Zenon DEF OrderIndex, t
  <2>4. PICK i \in 1..Len(t) : i = OrderIndex(order[a])
    BY <1>6, <2>3
  <2>5. order[h[i]] = order[a] /\ h[i] \in 1..N
    BY <1>6, <2>3, <2>4
  <2>6. h[i] = a
    BY <1>1, <2>5
  <2> QED
    BY <2>4, <2>6
<1>9. ASSUME NEW a \in 1..N, NEW b \in 1..N, order[a] \in Survivors, order[b] \in Survivors
      PROVE  RunsBefore(order[a], order[b]) <=> a < b
  <2>1. PICK i \in 1..Len(t) : i = OrderIndex(order[a]) /\ h[i] = a
    BY <1>8, <1>9
  <2>2. PICK j \in 1..Len(t) : j = OrderIndex(order[b]) /\ h[j] = b
    BY <1>8, <1>9
  <2>3. RunsBefore(order[a], order[b]) <=> i < j
    BY <1>7, <1>9, <2>1, <2>2 DEF RunsBefore
  <2>4. i < j <=> a < b
    <3>1. i < j => h[i] < h[j]
      BY <1>6
    <3>2. j < i => h[j] < h[i]
      BY <1>6
    <3>3. i < j \/ j < i \/ i = j
      BY <1>6
    <3> QED
      BY <1>1, <2>1, <2>2, <3>1, <3>2, <3>3
  <2> QED
    BY <2>3, <2>4
<1> QED
  BY <1>7, <1>9

(* Two uses of a resource by survivors run in the order of the declarations.*)
LEMMA UsesRunInOrder ==
  ASSUME Declared, ResultOfOrder, Conformant,
         NEW r \in Resources, NEW i \in DOMAIN Uses(r), NEW j \in DOMAIN Uses(r), i < j,
         Survives(Uses(r)[i].pass), Survives(Uses(r)[j].pass)
  PROVE  /\ RunsBefore(Uses(r)[i].pass, Uses(r)[j].pass)
         /\ ~RunsBefore(Uses(r)[j].pass, Uses(r)[i].pass)
<1> DEFINE order == TopologicalOrder
           p == Uses(r)[i].pass
           q == Uses(r)[j].pass
<1>1. p \in Survivors /\ q \in Survivors
  BY ResultInOrder
<1>2. /\ Len(order) = Len(passes) /\ Len(order) \in Nat
      /\ \A s \in Survivors : \E k \in 1..Len(order) : order[k] = s
  BY FullOrder DEF ResultOfOrder
<1> HIDE DEF order, p, q
<1>3. PICK a \in 1..Len(order) : order[a] = p
  BY <1>1, <1>2
<1>4. PICK b \in 1..Len(order) : order[b] = q
  BY <1>1, <1>2
<1>5. a < b
  BY <1>2, <1>3, <1>4, UsesInOrder DEF order, p, q
<1>6. ~(b < a)
  BY <1>2, <1>5
<1>7. (RunsBefore(order[a], order[b]) <=> a < b) /\ (RunsBefore(order[b], order[a]) <=> b < a)
  BY <1>1, <1>3, <1>4, ResultInOrder DEF order
<1> QED
  BY <1>3, <1>4, <1>5, <1>6, <1>7 DEF p, q

(* No pass runs before itself.                                              *)
LEMMA NothingBeforeItself ==
  ASSUME Declared, ResultOfOrder, NEW p
  PROVE  ~RunsBefore(p, p)
<1>1. SUFFICES ASSUME Survives(p) PROVE ~RunsBefore(p, p)
  BY DEF RunsBefore
<1> DEFINE order == TopologicalOrder
<1>2. p \in Survivors
  BY <1>1, ResultInOrder
<1>3. PICK a \in 1..Len(order) : order[a] = p
  BY <1>2, FullOrder
<1>4. Len(order) \in Nat
  BY FullOrder
<1> HIDE DEF order
<1>5. RunsBefore(order[a], order[a]) <=> a < a
  BY <1>2, <1>3, ResultInOrder DEF order
<1> QED
  BY <1>3, <1>4, <1>5

(* Conflicting uses run in the order of their declaration.                  *)
LEMMA ExecutionInDeclaredOrder ==
  ASSUME Declared, status = "compiled" => ResultOfOrder
  PROVE  ExecutionFollowsDeclaration
<1>1. SUFFICES ASSUME status = "compiled", Conformant,
                      NEW r \in Resources, NEW i \in DOMAIN Uses(r), NEW j \in DOMAIN Uses(r),
                      i < j, Survives(Uses(r)[i].pass), Survives(Uses(r)[j].pass)
               PROVE  RunsBefore(Uses(r)[i].pass, Uses(r)[j].pass)
  BY Zenon DEF ExecutionFollowsDeclaration
<1> QED
  BY <1>1, UsesRunInOrder, Zenon

(* A lifetime encloses the surviving uses.                                  *)
LEMMA LifetimesEnclose ==
  ASSUME Declared, status = "compiled" => ResultOfOrder
  PROVE  LifetimesEncloseUses
<1>1. SUFFICES ASSUME status = "compiled", Conformant,
                      NEW r \in Resources, NEW u \in DOMAIN Uses(r),
                      Survives(Uses(r)[u].pass)
               PROVE  /\ out.lifetimes[r].used
                      /\ ~RunsBefore(Uses(r)[u].pass, out.lifetimes[r].firstPass)
                      /\ ~RunsBefore(out.lifetimes[r].lastPass, Uses(r)[u].pass)
  BY Zenon DEF LifetimesEncloseUses
<1> DEFINE all == Uses(r)
           positions == {v \in DOMAIN all : all[v].pass \in Survivors}
           uses == Picked(all, positions)
<1>2. ResultOfOrder
  BY <1>1
<1>3. out.lifetimes[r] = LifetimeOf(uses)
  BY <1>2, Zenon DEF ResultOfOrder, Lifetimes, SurvivingUses
<1>4. /\ all \in Seq(UseRecords) /\ DOMAIN all = 1..Len(all) /\ Len(all) \in Nat
  BY DeclaredTypes
<1>5. \A p : Survives(p) <=> p \in Survivors
  BY <1>2, ResultInOrder
<1>6. u \in positions
  BY <1>1, <1>5
<1>7. positions \subseteq 1..Len(all) /\ \A v \in positions : Survives(all[v].pass)
  BY <1>4, <1>5
<1> HIDE DEF positions, uses, all
<1>8. uses \in Seq(UseRecords) /\ \E h : Picks(uses, h, all, positions, Len(all))
  BY <1>4, PickedPicks, Zenon DEF uses
<1>9. PICK h : Picks(uses, h, all, positions, Len(all))
  BY <1>8
<1> DEFINE n == Len(uses)
<1>10. /\ h \in [1..n -> 1..Len(all)]
       /\ \A i \in 1..n : uses[i] = all[h[i]] /\ h[i] \in positions
       /\ \A i, j \in 1..n : i < j => h[i] < h[j]
       /\ \A k \in 1..Len(all) : k \in positions => \E i \in 1..n : h[i] = k
  BY <1>9, Zenon DEF Picks
<1>11. n \in Nat
  BY <1>8
<1>12. PICK i \in 1..n : h[i] = u
  BY <1>6, <1>7, <1>10, Zenon
<1> HIDE DEF n
<1>13. 1 \in 1..n /\ n \in 1..n /\ (i = 1 \/ 1 < i) /\ (i = n \/ i < n)
  BY <1>11
<1>14. uses # <<>> /\ Head(uses) = uses[1] /\ Last(uses) = uses[n]
  BY <1>8, <1>11, <1>13 DEF Last, n
<1>15. /\ out.lifetimes[r].used
       /\ out.lifetimes[r].firstPass = all[h[1]].pass
       /\ out.lifetimes[r].lastPass = all[h[n]].pass
  <2>1. LifetimeOf(uses) =
          [used |-> TRUE, firstPass |-> Head(uses).pass, lastPass |-> Last(uses).pass]
    BY <1>14, Zenon DEF LifetimeOf
  <2>2. Head(uses) = all[h[1]] /\ Last(uses) = all[h[n]]
    BY <1>10, <1>13, <1>14
  <2> QED
    BY <1>3, <2>1, <2>2
<1>16. h[1] = u \/ h[1] < u
  BY <1>10, <1>12, <1>13
<1>17. h[n] = u \/ u < h[n]
  BY <1>10, <1>12, <1>13
<1>18. h[1] \in DOMAIN all /\ h[n] \in DOMAIN all
       /\ Survives(all[h[1]].pass) /\ Survives(all[h[n]].pass)
  BY <1>4, <1>7, <1>10, <1>13
<1>19. ~RunsBefore(all[u].pass, all[h[1]].pass)
  <2>1. CASE h[1] = u
    BY <1>2, <2>1, NothingBeforeItself
  <2>2. CASE h[1] < u
    BY <1>1, <1>2, <1>18, <2>2, UsesRunInOrder DEF all
  <2> QED
    BY <1>16, <2>1, <2>2
<1>20. ~RunsBefore(all[h[n]].pass, all[u].pass)
  <2>1. CASE h[n] = u
    BY <1>2, <2>1, NothingBeforeItself
  <2>2. CASE u < h[n]
    BY <1>1, <1>2, <1>18, <2>2, UsesRunInOrder DEF all
  <2> QED
    BY <1>17, <2>1, <2>2
<1> QED
  BY <1>15, <1>19, <1>20, Zenon DEF all

(* A pass without a reason to survive is needed by no survivor.             *)
LEMMA SurvivorsClosed ==
  ASSUME Declared, ResultOfOrder, Conformant
  PROVE  ClosedUnderNeed(Survivors)
<1> DEFINE order == TopologicalOrder
<1>1. SUFFICES ASSUME NEW p \in Passes, p \notin Survivors
               PROVE  /\ passes[p].cullable
                      /\ \A r \in Resources : \A w \in DOMAIN Uses(r) :
                            Uses(r)[w].pass = p /\ IsWrite(Uses(r)[w]) =>
                               /\ ~resources[r].presented
                               /\ \A u \in w + 1 .. Len(Uses(r)) :
                                     Uses(r)[u].isRead /\ Uses(r)[u].pass # p =>
                                        Uses(r)[u].pass \notin Survivors
  BY Zenon DEF ClosedUnderNeed
<1>2. /\ Len(order) = Len(passes) /\ Len(order) \in Nat
      /\ \A s \in Survivors : \E k \in 1..Len(order) : order[k] = s
      /\ \A s \in Passes : \E k \in 1..Len(order) : order[k] = s
      /\ \A k \in 1..Len(order) :
           order[k] \in Survivors <=> HasReasonToSurvive(order[k], Later(order, Survivors, k))
  BY FullOrder DEF ResultOfOrder
<1> HIDE DEF order
<1>3. PICK k \in 1..Len(order) : order[k] = p
  BY <1>2
<1>4. ~HasReasonToSurvive(p, Later(order, Survivors, k))
  BY <1>1, <1>2, <1>3
<1>5. passes[p].cullable
  BY <1>4, Zenon DEF HasReasonToSurvive
<1>6. ASSUME NEW r \in Resources, NEW w \in DOMAIN Uses(r),
             Uses(r)[w].pass = p, IsWrite(Uses(r)[w])
      PROVE  /\ ~resources[r].presented
             /\ \A u \in w + 1 .. Len(Uses(r)) :
                   Uses(r)[u].isRead /\ Uses(r)[u].pass # p =>
                      Uses(r)[u].pass \notin Survivors
  <2>1. ~resources[r].presented
    BY <1>4, <1>6, Zenon DEF HasReasonToSurvive
  <2>2. ASSUME NEW u \in w + 1 .. Len(Uses(r)), Uses(r)[u].isRead, Uses(r)[u].pass # p,
               Uses(r)[u].pass \in Survivors
        PROVE  FALSE
    <3>1. DOMAIN Uses(r) = 1..Len(Uses(r)) /\ Len(Uses(r)) \in Nat
      BY DeclaredTypes
    <3>2. u \in DOMAIN Uses(r) /\ w < u
      BY <3>1
    <3>3. PICK l \in 1..Len(order) : order[l] = Uses(r)[u].pass
      BY <1>2, <2>2
    <3>4. k < l
      BY <1>2, <1>3, <1>6, <3>2, <3>3, UsesInOrder DEF order
    <3>5. l \in (k + 1)..Len(order)
      BY <1>2, <3>4
    <3>6. order[l] \in Later(order, Survivors, k)
      BY <2>2, <3>3, <3>5 DEF Later
    <3>7. Uses(r)[u].pass \in Later(order, Survivors, k) \ {p}
      BY <2>2, <3>3, <3>6, Zenon
    <3>8. HasReasonToSurvive(p, Later(order, Survivors, k))
      BY <1>6, <2>2, <3>2, <3>7, Zenon DEF HasReasonToSurvive
    <3> QED
      BY <1>4, <3>8
  <2> QED
    BY <2>1, <2>2, Zenon
<1> QED
  BY <1>5, <1>6, Zenon

(* Nothing can be dropped: the last pass dropped would still be needed.     *)
LEMMA SurvivorsLeast ==
  ASSUME Declared, ResultOfOrder, Conformant,
         NEW kept, kept \subseteq Survivors, ClosedUnderNeed(kept)
  PROVE  kept = Survivors
<1> DEFINE order == TopologicalOrder
           N == Len(order)
           dropped == {i \in 1..N : order[i] \in Survivors /\ order[i] \notin kept}
<1>1. /\ N = Len(passes) /\ N \in Nat
      /\ \A i, j \in 1..N : order[i] = order[j] => i = j
      /\ \A s \in Survivors : \E k \in 1..N : order[k] = s
      /\ \A k \in 1..N :
           /\ order[k] \in Passes
           /\ order[k] \in Survivors <=> HasReasonToSurvive(order[k], Later(order, Survivors, k))
  BY FullOrder DEF ResultOfOrder
<1> HIDE DEF order, N
<1>2. SUFFICES ASSUME dropped # {} PROVE FALSE
  <2>1. ASSUME NEW s \in Survivors PROVE s \in kept
    <3>1. PICK k \in 1..N : order[k] = s
      BY <1>1
    <3> QED
      BY <1>2, <3>1
  <2> QED
    BY <2>1
<1>3. dropped \in SUBSET (1..N)
  OBVIOUS
<1>4. PICK i \in dropped : \A k \in dropped : k <= i
  <2> HIDE DEF dropped
  <2> QED
    BY <1>1, <1>2, <1>3, GreatestNumber
<1>5. i \in 1..N /\ order[i] \in Survivors /\ order[i] \notin kept
  OBVIOUS
<1> DEFINE p == order[i]
<1>6. p \in Passes /\ p \notin kept /\ HasReasonToSurvive(p, Later(order, Survivors, i))
  BY <1>1, <1>5
<1> HIDE DEF p
<1>7. /\ passes[p].cullable
      /\ \A r \in Resources : \A w \in DOMAIN Uses(r) :
            Uses(r)[w].pass = p /\ IsWrite(Uses(r)[w]) =>
               /\ ~resources[r].presented
               /\ \A u \in w + 1 .. Len(Uses(r)) :
                     Uses(r)[u].isRead /\ Uses(r)[u].pass # p => Uses(r)[u].pass \notin kept
  BY <1>6, Zenon DEF ClosedUnderNeed
<1>8. PICK r \in Resources : \E w \in DOMAIN Uses(r) :
         /\ Uses(r)[w].pass = p /\ IsWrite(Uses(r)[w])
         /\ \/ resources[r].presented
            \/ \E u \in DOMAIN Uses(r) :
                  Uses(r)[u].isRead /\ Uses(r)[u].pass \in Later(order, Survivors, i) \ {p}
  BY <1>6, <1>7, Zenon DEF HasReasonToSurvive
<1>9. PICK w \in DOMAIN Uses(r) :
         /\ Uses(r)[w].pass = p /\ IsWrite(Uses(r)[w])
         /\ \E u \in DOMAIN Uses(r) :
               Uses(r)[u].isRead /\ Uses(r)[u].pass \in Later(order, Survivors, i) \ {p}
  BY <1>7, <1>8, Zenon
<1>10. PICK u \in DOMAIN Uses(r) :
          Uses(r)[u].isRead /\ Uses(r)[u].pass \in Later(order, Survivors, i) \ {p}
  BY <1>9
<1>11. PICK j \in (i + 1)..N : order[j] = Uses(r)[u].pass /\ order[j] \in Survivors
  BY <1>10 DEF Later, N
<1>12. j \in 1..N /\ i < j
  BY <1>1, <1>5
<1>13. order[j] \in kept
  <2>1. j \notin dropped
    BY <1>1, <1>4, <1>5, <1>12
  <2> QED
    BY <1>11, <1>12, <2>1
<1>14. DOMAIN Uses(r) = 1..Len(Uses(r)) /\ Len(Uses(r)) \in Nat
  BY DeclaredTypes
<1>15. u # w
  BY <1>9, <1>10
<1>16. ~(u < w)
  <2>1. ASSUME u < w PROVE FALSE
    <3>1. order[j] = Uses(r)[u].pass /\ order[i] = Uses(r)[w].pass
      BY <1>9, <1>11 DEF p
    <3>2. j < i
      BY <1>1, <1>5, <1>12, <2>1, <3>1, UsesInOrder DEF order, N
    <3> QED
      BY <1>1, <1>5, <1>12, <3>2
  <2> QED
    BY <2>1
<1>17. u \in w + 1 .. Len(Uses(r))
  BY <1>14, <1>15, <1>16
<1>18. Uses(r)[u].pass # p
  BY <1>10
<1>19. Uses(r)[u].pass \notin kept
  BY <1>7, <1>9, <1>10, <1>17, <1>18, Zenon
<1> QED
  BY <1>11, <1>13, <1>19

(* The survivors are the least set closed under need.                       *)
LEMMA SurvivorsNeeded ==
  ASSUME Declared, status = "compiled" => ResultOfOrder
  PROVE  SurvivorsExactlyNeeded
<1>1. SUFFICES ASSUME status = "compiled", Conformant
               PROVE  /\ ClosedUnderNeed(Range(out.order))
                      /\ \A kept \in SUBSET Range(out.order) :
                            ClosedUnderNeed(kept) => kept = Range(out.order)
  BY Zenon DEF SurvivorsExactlyNeeded
<1>2. ResultOfOrder
  BY <1>1
<1>3. Range(out.order) = Survivors
  <2>1. \A p : p \in Range(out.order) <=> p \in Survivors
    BY <1>2, ResultInOrder, Zenon DEF Survives
  <2> QED
    BY <2>1
<1>4. ClosedUnderNeed(Survivors)
  BY <1>1, <1>2, SurvivorsClosed, Zenon
<1>5. \A kept \in SUBSET Survivors : ClosedUnderNeed(kept) => kept = Survivors
  BY <1>1, <1>2, SurvivorsLeast
<1> QED
  BY <1>3, <1>4, <1>5

-----------------------------------------------------------------------------
(* The theorems.                                                           *)

(* The inductive invariant: the declarations are well formed, and what      *)
(* Compile answered it answered of them.                                    *)
GraphInv ==
  /\ Declared
  /\ status = "cycle" => Len(TopologicalOrder) # Len(passes)
  /\ status = "compiled" => ResultOfOrder

(* The barriers depend on the declarations alone.                           *)
LEMMA SameImageBarriers ==
  ASSUME resources' = resources, NEW CONSTANT r, NEW CONSTANT uses
  PROVE  ImageBarriersOf(r, uses)' = ImageBarriersOf(r, uses)
<1>1. PresentBarrier(r, uses)' = PresentBarrier(r, uses)
  BY DEF PresentBarrier
<1>2. \A k : ImageBarrier(r, uses, k)' = ImageBarrier(r, uses, k)
  BY DEF ImageBarrier
<1> QED
  BY <1>1, <1>2 DEF ImageBarriersOf

(* So does all that Compile computes.                                       *)
LEMMA SameDeclarations ==
  ASSUME UNCHANGED <<passes, resources>>
  PROVE  /\ TopologicalOrder' = TopologicalOrder /\ Len(passes)' = Len(passes)
         /\ Survivors' = Survivors
         /\ Lifetimes(Survivors)' = Lifetimes(Survivors)
         /\ BarriersOf(TRUE, Survivors)' = BarriersOf(TRUE, Survivors)
         /\ BarriersOf(FALSE, Survivors)' = BarriersOf(FALSE, Survivors)
         /\ SurvivingOrder(TopologicalOrder, Survivors)'
              = SurvivingOrder(TopologicalOrder, Survivors)
<1>0. passes' = passes /\ resources' = resources
  OBVIOUS
<1>1. TopologicalOrder' = TopologicalOrder
  BY <1>0 DEF TopologicalOrder, OrderNext, Ready, Passes, OrderingEdges, ConsecutivePairs,
              Uses, EdgeBetween, Resources
<1>2. Survivors' = Survivors
  BY <1>0, <1>1 DEF Survivors, SurvivingPasses, Sweep, HasReasonToSurvive, Uses, IsWrite, Resources
<1>3. Lifetimes(Survivors)' = Lifetimes(Survivors)
  BY <1>0, <1>2 DEF Lifetimes, LifetimeOf, SurvivingUses, Picked, Uses, Resources
<1>4. SurvivingOrder(TopologicalOrder, Survivors)' = SurvivingOrder(TopologicalOrder, Survivors)
  BY <1>1, <1>2 DEF SurvivingOrder, Picked
<1>5. \A r \in Resources : SurvivingUses(r, Survivors)' = SurvivingUses(r, Survivors)
  BY <1>0, <1>2 DEF SurvivingUses, Picked, Uses
<1>6. \A r \in Resources : ImageBarriersOf(r, SurvivingUses(r, Survivors))'
                               = ImageBarriersOf(r, SurvivingUses(r, Survivors))
  <2>1. TAKE r \in Resources
  <2>2. PICK uses : uses = SurvivingUses(r, Survivors)
    OBVIOUS
  <2>3. SurvivingUses(r, Survivors)' = uses
    BY <1>5, <2>2
  <2>4. ImageBarriersOf(r, uses)' = ImageBarriersOf(r, uses)
    BY <1>0, SameImageBarriers
  <2> QED
    BY <2>2, <2>3, <2>4
<1>7. \A r \in Resources : BufferBarriersOf(r, SurvivingUses(r, Survivors))'
                               = BufferBarriersOf(r, SurvivingUses(r, Survivors))
  BY <1>5
<1>8. ASSUME NEW isImage \in BOOLEAN
      PROVE  BarriersOf(isImage, Survivors)' = BarriersOf(isImage, Survivors)
  <2>1. Resources' = Resources
    BY <1>0 DEF Resources
  <2>2. \A r \in Resources :
           BarriersFor(r, isImage, Survivors)' = BarriersFor(r, isImage, Survivors)
    BY <1>0, <1>5, <1>6, <1>7 DEF BarriersFor, Uses
  <2>3. [r \in Resources |-> BarriersFor(r, isImage, Survivors)]'
          = [r \in Resources |-> BarriersFor(r, isImage, Survivors)]
    BY <2>1, <2>2
  <2> QED
    BY <2>3 DEF BarriersOf
<1> QED
  BY <1>0, <1>1, <1>2, <1>3, <1>4, <1>8

(* The empty graph.                                                         *)
LEMMA GraphStarts == GraphInit => GraphInv
<1>1. SUFFICES ASSUME GraphInit PROVE GraphInv
  OBVIOUS
<1>2. Declared
  BY <1>1, BoundsAssumption DEF GraphInit, Declared, Resources
<1> QED
  BY <1>1, <1>2 DEF GraphInit, GraphInv

(* A new resource has no uses.                                              *)
LEMMA ResourceAdded ==
  ASSUME Declared, UNCHANGED passes,
         NEW new \in ResourceRecords, new.uses = <<>>, resources' = Append(resources, new)
  PROVE  Declared'
<1>1. /\ passes \in Seq(PassRecords) /\ Len(passes) <= MaxPasses
      /\ resources \in Seq(ResourceRecords)
      /\ \A r \in Resources : \A u \in DOMAIN Uses(r) : Uses(r)[u].pass \in Passes
  BY Zenon DEF Declared
<1>2. resources' \in Seq(ResourceRecords)
  BY <1>1
<1>3. ASSUME NEW r \in Resources', NEW u \in DOMAIN Uses(r)' PROVE (Uses(r)[u].pass \in Passes)'
  <2>1. CASE r \in Resources
    <3>1. Uses(r)' = Uses(r)
      BY <1>1, <2>1 DEF Resources, Uses
    <3> QED
      BY <1>1, <1>3, <2>1, <3>1 DEF Passes
  <2>2. CASE r \notin Resources
    <3>1. resources'[r] = new
      BY <1>1, <2>2 DEF Resources
    <3>2. Uses(r)' = <<>>
      BY <3>1 DEF Uses
    <3> QED
      BY <1>3, <3>2
  <2> QED
    BY <2>1, <2>2
<1> QED
  BY <1>1, <1>2, <1>3 DEF Declared

(* A resource changes to one whose uses name declared passes too.           *)
LEMMA ResourceChanged ==
  ASSUME Declared, UNCHANGED passes, NEW r \in Resources, NEW new \in ResourceRecords,
         \A u \in DOMAIN new.uses : new.uses[u].pass \in Passes,
         resources' = [resources EXCEPT ![r] = new]
  PROVE  Declared'
<1>1. /\ passes \in Seq(PassRecords) /\ Len(passes) <= MaxPasses
      /\ resources \in Seq(ResourceRecords)
      /\ \A s \in Resources : \A u \in DOMAIN Uses(s) : Uses(s)[u].pass \in Passes
  BY Zenon DEF Declared
<1>2. /\ resources' \in Seq(ResourceRecords) /\ Resources' = Resources
      /\ resources'[r] = new /\ \A s \in Resources : s # r => resources'[s] = resources[s]
  BY <1>1 DEF Resources
<1>3. ASSUME NEW s \in Resources, NEW u \in DOMAIN Uses(s)' PROVE Uses(s)'[u].pass \in Passes
  <2>1. CASE s = r
    BY <1>2, <1>3, <2>1 DEF Uses
  <2>2. CASE s # r
    <3>1. Uses(s)' = Uses(s)
      BY <1>2, <2>2 DEF Uses
    <3> QED
      BY <1>1, <1>3, <3>1
  <2> QED
    BY <2>1, <2>2
<1>4. Passes' = Passes
  BY DEF Passes
<1> QED
  BY <1>1, <1>2, <1>3, <1>4 DEF Declared

(* The passes change, and no pass is taken away.                            *)
LEMMA PassesChanged ==
  ASSUME Declared, UNCHANGED resources, passes' \in Seq(PassRecords),
         Len(passes') <= MaxPasses, Len(passes) <= Len(passes')
  PROVE  Declared'
<1>1. /\ passes \in Seq(PassRecords) /\ resources \in Seq(ResourceRecords)
      /\ \A r \in Resources : \A u \in DOMAIN Uses(r) : Uses(r)[u].pass \in Passes
  BY Zenon DEF Declared
<1>2. Passes \subseteq Passes'
  BY <1>1 DEF Passes
<1>3. Resources' = Resources /\ \A r \in Resources : Uses(r)' = Uses(r)
  BY DEF Resources, Uses
<1>4. ASSUME NEW r \in Resources', NEW u \in DOMAIN Uses(r)' PROVE (Uses(r)[u].pass \in Passes)'
  BY <1>1, <1>2, <1>3, <1>4
<1> QED
  BY <1>1, <1>4 DEF Declared

(* A declared use is well typed.                                            *)
LEMMA UseDeclared ==
  ASSUME Declared, NEW isImage, NEW isRead \in BOOLEAN,
         NEW accesses, accesses \subseteq ImageReads \cup ImageWrites \cup BufferReads \cup BufferWrites,
         DeclareUse(isImage, isRead, accesses)
  PROVE  Declared'
<1>1. PICK p \in Passes, r \in Resources, access \in accesses :
         resources' = [resources EXCEPT ![r].uses =
                Append(@, [pass |-> p, isRead |-> isRead, access |-> access, loadOp |-> "LOAD"])]
  BY DEF DeclareUse
<1>2. UNCHANGED passes
  BY DEF DeclareUse
<1> DEFINE use == [pass |-> p, isRead |-> isRead, access |-> access, loadOp |-> "LOAD"]
           new == [resources[r] EXCEPT !.uses = Append(Uses(r), use)]
<1>3. /\ resources[r] \in ResourceRecords /\ Uses(r) \in Seq(UseRecords)
      /\ \A u \in DOMAIN Uses(r) : Uses(r)[u].pass \in Passes
      /\ Passes = 1..Len(passes) /\ Len(passes) \in Nat /\ Len(passes) <= MaxPasses
  BY DeclaredTypes DEF Declared
<1>4. use \in UseRecords /\ use.pass \in Passes
  BY <1>3, BoundsAssumption DEF UseRecords
<1> HIDE DEF use
<1>5. /\ Append(Uses(r), use) \in Seq(UseRecords)
      /\ \A u \in DOMAIN Append(Uses(r), use) : Append(Uses(r), use)[u].pass \in Passes
  BY <1>3, <1>4
<1>6. new \in ResourceRecords /\ new.uses = Append(Uses(r), use)
  BY <1>3, <1>5 DEF ResourceRecords
<1>7. resources' = [resources EXCEPT ![r] = new]
  BY <1>1 DEF Uses, use
<1> HIDE DEF new
<1> QED
  BY <1>2, <1>5, <1>6, <1>7, ResourceChanged

(* So are the uses whose load operation is set to CLEAR.                    *)
LEMMA ClearSet == Declared /\ SetAttachmentClear => Declared'
<1>1. SUFFICES ASSUME Declared, SetAttachmentClear PROVE Declared'
  OBVIOUS
<1>2. PICK p \in Passes, r \in Resources :
         LET writes == {u \in DOMAIN Uses(r) : /\ Uses(r)[u].pass = p
                                               /\ IsWrite(Uses(r)[u])
                                               /\ Uses(r)[u].access \in Attachments}
         IN  /\ writes # {}
             /\ resources' = [resources EXCEPT ![r].uses[Min(writes)].loadOp = "CLEAR"]
  BY <1>1 DEF SetAttachmentClear
<1> DEFINE writes == {u \in DOMAIN Uses(r) : /\ Uses(r)[u].pass = p
                                             /\ IsWrite(Uses(r)[u])
                                             /\ Uses(r)[u].access \in Attachments}
<1>3. writes # {} /\ resources' = [resources EXCEPT ![r].uses[Min(writes)].loadOp = "CLEAR"]
  BY <1>2
<1>4. /\ resources[r] \in ResourceRecords /\ Uses(r) \in Seq(UseRecords)
      /\ DOMAIN Uses(r) = 1..Len(Uses(r))
      /\ \A u \in DOMAIN Uses(r) : Uses(r)[u] \in UseRecords /\ Uses(r)[u].pass \in Passes
  BY <1>1, DeclaredTypes
<1>5. writes \in SUBSET Nat /\ writes \subseteq DOMAIN Uses(r)
  BY <1>4
<1> HIDE DEF writes
<1>6. PICK m \in DOMAIN Uses(r) : m = Min(writes)
  BY <1>3, <1>5, MinOf
<1> DEFINE use == [Uses(r)[m] EXCEPT !.loadOp = "CLEAR"]
           uses == [Uses(r) EXCEPT ![m] = use]
           new == [resources[r] EXCEPT !.uses = uses]
<1>7. use \in UseRecords /\ use.pass = Uses(r)[m].pass
  BY <1>4 DEF UseRecords
<1>8. resources' = [resources EXCEPT ![r] = new]
  BY <1>3, <1>6 DEF Uses
<1> HIDE DEF use
<1>9. uses \in Seq(UseRecords) /\ \A u \in DOMAIN uses : uses[u].pass \in Passes
  BY <1>4, <1>7
<1> HIDE DEF uses
<1>10. new \in ResourceRecords /\ new.uses = uses
  BY <1>4, <1>9 DEF ResourceRecords
<1> HIDE DEF new
<1>11. UNCHANGED passes
  BY <1>1 DEF SetAttachmentClear
<1> QED
  BY <1>1, <1>8, <1>9, <1>10, <1>11, ResourceChanged

(* Every declaring call keeps the declarations well typed.                  *)
LEMMA DeclaringKeepsDeclared == Declared /\ Declare => Declared'
<1>1. SUFFICES ASSUME Declared, Declare PROVE Declared'
  OBVIOUS
<1>0. passes \in Seq(PassRecords) /\ Len(passes) \in Nat
  BY <1>1 DEF Declared
<1>2. CASE AddImage
  <2>1. PICK l \in InitialLayouts :
          resources' = Append(resources, [isImage |-> TRUE, initialLayout |-> l,
                                          presented |-> FALSE, uses |-> <<>>])
    BY <1>2 DEF AddImage
  <2> DEFINE new == [isImage |-> TRUE, initialLayout |-> l,
                     presented |-> FALSE, uses |-> <<>>]
  <2>2. new \in ResourceRecords /\ new.uses = <<>>
    BY DEF ResourceRecords
  <2>3. UNCHANGED passes
    BY <1>2 DEF AddImage
  <2> QED
    BY <1>1, <2>1, <2>2, <2>3, ResourceAdded
<1>3. CASE AddBuffer
  <2> DEFINE new == [isImage |-> FALSE, initialLayout |-> "UNDEFINED",
                     presented |-> FALSE, uses |-> <<>>]
  <2>1. resources' = Append(resources, new) /\ UNCHANGED passes
    BY <1>3 DEF AddBuffer
  <2>2. new \in ResourceRecords /\ new.uses = <<>>
    BY DEF ResourceRecords
  <2> QED
    BY <1>1, <2>1, <2>2, ResourceAdded
<1>4. CASE AddPass
  <2>1. /\ Len(passes) < MaxPasses /\ passes' = Append(passes, [cullable |-> FALSE])
        /\ UNCHANGED resources
    BY <1>4 DEF AddPass
  <2>2. [cullable |-> FALSE] \in PassRecords
    BY DEF PassRecords
  <2>3. passes' \in Seq(PassRecords) /\ Len(passes') = Len(passes) + 1
    BY <1>0, <2>1, <2>2
  <2> QED
    BY <1>0, <1>1, <2>1, <2>3, BoundsAssumption, PassesChanged
<1>5. CASE PassReadsImage \/ PassWritesImage \/ PassReadsBuffer \/ PassWritesBuffer
  <2>1. PICK isImage \in BOOLEAN, isRead \in BOOLEAN,
             accesses \in {ImageReads, ImageWrites, BufferReads, BufferWrites} :
          DeclareUse(isImage, isRead, accesses)
    BY <1>5 DEF PassReadsImage, PassWritesImage, PassReadsBuffer, PassWritesBuffer
  <2>2. accesses \subseteq ImageReads \cup ImageWrites \cup BufferReads \cup BufferWrites
    OBVIOUS
  <2> QED
    BY <1>1, <2>1, <2>2, UseDeclared
<1>6. CASE MarkPassCullable
  <2>1. PICK p \in Passes : passes' = [passes EXCEPT ![p].cullable = TRUE]
    BY <1>6 DEF MarkPassCullable
  <2>2. UNCHANGED resources
    BY <1>6 DEF MarkPassCullable
  <2>3. passes[p] \in PassRecords
    BY <1>0 DEF Passes
  <2>4. [passes[p] EXCEPT !.cullable = TRUE] \in PassRecords
    BY <2>3 DEF PassRecords
  <2>5. passes' \in Seq(PassRecords) /\ Len(passes') = Len(passes)
    BY <1>0, <2>1, <2>4 DEF Passes
  <2> QED
    BY <1>0, <1>1, <2>2, <2>5, PassesChanged DEF Declared
<1>7. CASE SetAttachmentClear
  BY <1>1, <1>7, ClearSet
<1>8. CASE MarkPresented
  <2>1. PICK r \in Resources : resources' = [resources EXCEPT ![r].presented = TRUE]
    BY <1>8 DEF MarkPresented
  <2> DEFINE new == [resources[r] EXCEPT !.presented = TRUE]
  <2>2. /\ resources[r] \in ResourceRecords
        /\ \A u \in DOMAIN Uses(r) : Uses(r)[u].pass \in Passes
    BY <1>1, DeclaredTypes
  <2>3. new \in ResourceRecords /\ new.uses = Uses(r)
    BY <2>2 DEF ResourceRecords, Uses
  <2>4. resources' = [resources EXCEPT ![r] = new]
    BY <2>1
  <2>5. UNCHANGED passes
    BY <1>8 DEF MarkPresented
  <2> HIDE DEF new
  <2> QED
    BY <1>1, <2>2, <2>3, <2>4, <2>5, ResourceChanged
<1> QED
  BY <1>1, <1>2, <1>3, <1>4, <1>5, <1>6, <1>7, <1>8 DEF Declare

(* Compile does not touch them.                                             *)
LEMMA CompilingKeepsDeclared == Declared /\ UNCHANGED <<passes, resources>> => Declared'
BY DEF Declared, Resources, Uses, Passes

(* The invariant of the graph holds at every step.                          *)
LEMMA GraphSteps == GraphInv /\ [GraphNext]_graphVars => GraphInv'
<1>1. SUFFICES ASSUME GraphInv, [GraphNext]_graphVars PROVE GraphInv'
  OBVIOUS
<1>0. Declared
  BY <1>1 DEF GraphInv
<1>2. CASE Declare
  <2>1. Declared'
    BY <1>0, <1>2, DeclaringKeepsDeclared
  <2>2. status' = "declaring"
    BY <1>2 DEF Declare, AddImage, AddBuffer, AddPass, PassReadsImage, PassWritesImage,
                PassReadsBuffer, PassWritesBuffer, DeclareUse, MarkPassCullable,
                SetAttachmentClear, MarkPresented, Declaring
  <2> QED
    BY <2>1, <2>2 DEF GraphInv
<1>3. CASE CompileFails
  <2>1. UNCHANGED <<passes, resources>> /\ status' = "invalid"
    BY <1>3 DEF CompileFails
  <2> QED
    BY <1>0, <2>1, CompilingKeepsDeclared DEF GraphInv
<1>4. CASE CompileFindsCycle
  <2>1. /\ UNCHANGED <<passes, resources>> /\ status' = "cycle"
        /\ Len(TopologicalOrder) # Len(passes)
    BY <1>4 DEF CompileFindsCycle
  <2>2. (Len(TopologicalOrder) # Len(passes))'
    BY <2>1, SameDeclarations
  <2> QED
    BY <1>0, <2>1, <2>2, CompilingKeepsDeclared DEF GraphInv
<1>5. CASE CompileSucceeds
  <2>1. /\ UNCHANGED <<passes, resources>> /\ status' = "compiled"
        /\ Len(TopologicalOrder) = Len(passes) /\ out' = Compiled(TopologicalOrder)
        /\ resources # <<>>
    BY <1>5 DEF CompileSucceeds, InvalidDeclarations
  <2>2. /\ out'.order = SurvivingOrder(TopologicalOrder, Survivors)
        /\ out'.lifetimes = Lifetimes(Survivors)
        /\ out'.imageBarriers = BarriersOf(TRUE, Survivors)
        /\ out'.bufferBarriers = BarriersOf(FALSE, Survivors)
    BY <2>1 DEF Compiled, Survivors
  <2>5. ResultOfOrder'
    BY <2>1, <2>2, SameDeclarations DEF ResultOfOrder
  <2> QED
    BY <1>0, <2>1, <2>5, CompilingKeepsDeclared DEF GraphInv
<1>6. CASE UNCHANGED graphVars
  <2>1. UNCHANGED <<passes, resources, status, out>>
    BY <1>6 DEF graphVars
  <2>2. TopologicalOrder' = TopologicalOrder /\ Len(passes)' = Len(passes)
    BY <2>1, SameDeclarations
  <2>3. ResultOfOrder => ResultOfOrder'
    BY <2>1, SameDeclarations DEF ResultOfOrder
  <2> QED
    BY <1>1, <2>1, <2>2, <2>3, CompilingKeepsDeclared DEF GraphInv
<1> QED
  BY <1>1, <1>2, <1>3, <1>4, <1>5, <1>6 DEF GraphNext, Compile

(* At every point the declarations are well typed, and a result or a        *)
(* cycle is the one Compile computes from them.                             *)
THEOREM GraphInvariance == GraphSpec => []GraphInv
BY GraphStarts, GraphSteps, PTL DEF GraphSpec

(* In every compiled graph whose ordering edges are complete, of two uses   *)
(* of a resource of which one writes, the one declared first runs first.    *)
THEOREM ExecutionInOrder == GraphSpec => []ExecutionFollowsDeclaration
<1>1. GraphInv => ExecutionFollowsDeclaration
  BY ExecutionInDeclaredOrder DEF GraphInv
<1> QED
  BY <1>1, GraphInvariance, PTL

(* Compile reports a cycle only if no order of the passes respects the      *)
(* edges between neighbouring uses.                                         *)
THEOREM CyclesAreReal == GraphSpec => []CycleMeansNoOrder
<1>1. ASSUME GraphInv PROVE CycleMeansNoOrder
  <2>1. SUFFICES ASSUME status = "cycle", NEW position \in [Passes -> Passes]
                 PROVE  \E r \in Resources : \E u \in 2 .. Len(Uses(r)) :
                           /\ IsWrite(Uses(r)[u - 1]) \/ IsWrite(Uses(r)[u])
                           /\ position[Uses(r)[u - 1].pass] >= position[Uses(r)[u].pass]
    BY Zenon DEF CycleMeansNoOrder
  <2> QED
    BY <1>1, <2>1, CycleHasNoOrder, Zenon DEF GraphInv
<1> QED
  BY <1>1, GraphInvariance, PTL

(* Dead-pass culling keeps exactly the passes that are needed, and the      *)
(* lifetime of a resource encloses every surviving use of it.               *)
THEOREM CullingAndLifetimes == GraphSpec => []SurvivorsAndLifetimes
<1>1. GraphInv => SurvivorsAndLifetimes
  BY SurvivorsNeeded, LifetimesEnclose DEF GraphInv, SurvivorsAndLifetimes
<1> QED
  BY <1>1, GraphInvariance, PTL
-----------------------------------------------------------------------------
(* The surviving uses of a resource.                                       *)

SU(r) == SurvivingUses(r, Survivors)

(* Where in the result a pass runs.                                         *)
Turn(use) == OrderIndex(use.pass)

(* The surviving uses run in their order, each in a pass of its own, and    *)
(* are all the uses surviving passes make.                                  *)
Chain(r) ==
  /\ SU(r) \in Seq(UseRecords) /\ DOMAIN SU(r) = 1..Len(SU(r)) /\ Len(SU(r)) \in Nat
  /\ \A k \in 1..Len(SU(r)) :
       /\ SU(r)[k] \in UseRecords /\ Turn(SU(r)[k]) \in 1..Len(out.order)
       /\ out.order[Turn(SU(r)[k])] = SU(r)[k].pass
  /\ \A k, l \in 1..Len(SU(r)) : k < l => Turn(SU(r)[k]) < Turn(SU(r)[l])
  /\ \A u \in DOMAIN Uses(r) :
       Survives(Uses(r)[u].pass) => \E k \in 1..Len(SU(r)) : SU(r)[k] = Uses(r)[u]
  /\ \A k \in 1..Len(SU(r)) : \E u \in DOMAIN Uses(r) : SU(r)[k] = Uses(r)[u]

(* The result is a sequence of passes without repetition.                   *)
LEMMA ResultType ==
  ASSUME Declared, ResultOfOrder
  PROVE  /\ out.order \in Seq(Passes) /\ DOMAIN out.order = 1..Len(out.order)
         /\ Len(out.order) \in Nat
         /\ \A n \in 1..Len(out.order) : out.order[n] \in Passes
         /\ \A i, j \in 1..Len(out.order) : out.order[i] = out.order[j] => i = j
         /\ \A p : Survives(p) => /\ OrderIndex(p) \in 1..Len(out.order)
                                  /\ out.order[OrderIndex(p)] = p
         /\ \A n \in 1..Len(out.order) : /\ Survives(out.order[n])
                                         /\ OrderIndex(out.order[n]) = n
<1> DEFINE order == TopologicalOrder
           t == out.order
           positions == {i \in DOMAIN order : order[i] \in Survivors}
<1>1. /\ order \in Seq(Passes) /\ Len(order) \in Nat
      /\ \A i, j \in 1..Len(order) : order[i] = order[j] => i = j
  BY FullOrder, Zenon
<1>2. t = Picked(order, positions)
  BY Zenon DEF ResultOfOrder, SurvivingOrder
<1> HIDE DEF positions, t, order
<1>3. t \in Seq(Passes) /\ \E h : Picks(t, h, order, positions, Len(order))
  BY <1>1, <1>2, PickedPicks, Zenon
<1>4. PICK h : Picks(t, h, order, positions, Len(order))
  BY <1>3
<1>5. /\ h \in [1..Len(t) -> 1..Len(order)]
      /\ \A i \in 1..Len(t) : t[i] = order[h[i]]
      /\ \A i, j \in 1..Len(t) : i < j => h[i] < h[j]
  BY <1>4, Zenon DEF Picks
<1>6. Len(t) \in Nat /\ DOMAIN t = 1..Len(t) /\ \A n \in 1..Len(t) : t[n] \in Passes
  BY <1>3
<1>7. ASSUME NEW i \in 1..Len(t), NEW j \in 1..Len(t), t[i] = t[j] PROVE i = j
  <2>1. order[h[i]] = order[h[j]] /\ h[i] \in 1..Len(order) /\ h[j] \in 1..Len(order)
    BY <1>5, <1>7
  <2>2. h[i] = h[j]
    BY <1>1, <2>1, Zenon
  <2>3. ~(h[i] < h[j]) /\ ~(h[j] < h[i])
    BY <1>1, <2>1, <2>2
  <2>4. ~(i < j) /\ ~(j < i)
    BY <1>5, <2>3
  <2> QED
    BY <1>6, <2>4
<1>8. ASSUME NEW p, Survives(p) PROVE OrderIndex(p) \in 1..Len(t) /\ t[OrderIndex(p)] = p
  <2>1. PICK i \in DOMAIN t : t[i] = p
    BY <1>8 DEF Survives, Range, t
  <2>2. OrderIndex(p) \in DOMAIN t /\ t[OrderIndex(p)] = p
    BY <2>1, Zenon DEF OrderIndex, t
  <2> QED
    BY <1>6, <2>2
<1>9. ASSUME NEW n \in 1..Len(t) PROVE Survives(t[n]) /\ OrderIndex(t[n]) = n
  <2>1. Survives(t[n])
    BY <1>6 DEF Survives, Range, t
  <2> QED
    BY <1>7, <1>8, <2>1
<1> QED
  BY <1>3, <1>6, <1>7, <1>8, <1>9, Zenon DEF t

(* In a compiled conformant graph the surviving uses form a chain.          *)
LEMMA UsesMakeChains ==
  ASSUME Declared, ResultOfOrder, Conformant, NEW r \in Resources
  PROVE  Chain(r)
<1> DEFINE all == Uses(r)
           positions == {v \in DOMAIN all : all[v].pass \in Survivors}
           su == SU(r)
           n == Len(su)
<1>1. su = Picked(all, positions)
  BY Zenon DEF SU, SurvivingUses
<1>2. all \in Seq(UseRecords) /\ DOMAIN all = 1..Len(all) /\ Len(all) \in Nat
  BY DeclaredTypes
<1>3. \A p : Survives(p) <=> p \in Survivors
  BY ResultInOrder
<1>4. /\ positions \subseteq 1..Len(all) /\ \A v \in positions : Survives(all[v].pass)
      /\ \A v \in 1..Len(all) : Survives(all[v].pass) => v \in positions
  BY <1>2, <1>3
<1> HIDE DEF positions, su, all
<1>5. su \in Seq(UseRecords) /\ \E h : Picks(su, h, all, positions, Len(all))
  BY <1>1, <1>2, PickedPicks, Zenon
<1>6. PICK h : Picks(su, h, all, positions, Len(all))
  BY <1>5
<1>7. /\ h \in [1..n -> 1..Len(all)]
      /\ \A i \in 1..n : su[i] = all[h[i]] /\ h[i] \in positions
      /\ \A i, j \in 1..n : i < j => h[i] < h[j]
      /\ \A k \in 1..Len(all) : k \in positions => \E i \in 1..n : h[i] = k
  BY <1>6, Zenon DEF Picks
<1>8. DOMAIN su = 1..n /\ n \in Nat /\ \A k \in 1..n : su[k] \in UseRecords
  BY <1>5
<1> HIDE DEF n
<1>9. ASSUME NEW k \in 1..n
      PROVE  Turn(su[k]) \in 1..Len(out.order) /\ out.order[Turn(su[k])] = su[k].pass
  <2>1. Survives(su[k].pass)
    BY <1>4, <1>7
  <2> QED
    BY <2>1, ResultType, Zenon DEF Turn
<1>10. ASSUME NEW k \in 1..n, NEW l \in 1..n, k < l PROVE Turn(su[k]) < Turn(su[l])
  <2>1. /\ su[k] = all[h[k]] /\ su[l] = all[h[l]] /\ h[k] < h[l]
        /\ h[k] \in DOMAIN all /\ h[l] \in DOMAIN all
        /\ Survives(all[h[k]].pass) /\ Survives(all[h[l]].pass)
    BY <1>2, <1>4, <1>7, <1>10
  <2>2. RunsBefore(all[h[k]].pass, all[h[l]].pass)
    BY <2>1, UsesRunInOrder, Zenon DEF all
  <2> QED
    BY <2>1, <2>2 DEF RunsBefore, Turn
<1>11. ASSUME NEW u \in DOMAIN all, Survives(all[u].pass)
       PROVE  \E k \in 1..n : su[k] = all[u]
  <2>1. u \in 1..Len(all) /\ u \in positions
    BY <1>2, <1>4, <1>11
  <2>2. PICK k \in 1..n : h[k] = u
    BY <1>7, <2>1, Zenon
  <2> QED
    BY <1>7, <2>2
<1>12. ASSUME NEW k \in 1..n PROVE \E u \in DOMAIN all : su[k] = all[u]
  BY <1>2, <1>7
<1> QED
  BY <1>5, <1>8, <1>9, <1>10, <1>11, <1>12, Zenon DEF Chain, su, n, all

-----------------------------------------------------------------------------
(* The compiled barriers.                                                  *)

(* t has the elements of the first m sequences of parts, and no others.     *)
Gathered(t, parts, m, B) ==
  /\ t \in Seq(B)
  /\ \A x \in 1..Len(t) : \E r \in 1..m : \E y \in 1..Len(parts[r]) : t[x] = parts[r][y]
  /\ \A r \in 1..m : \A y \in 1..Len(parts[r]) : \E x \in 1..Len(t) : t[x] = parts[r][y]

(* No resource has two barriers before one pass.                            *)
Apart(t) ==
  \A x, y \in 1..Len(t) :
     x # y /\ t[x].resource = t[y].resource => t[x].beforePass # t[y].beforePass

(* One more part is put behind the others.                                  *)
LEMMA GatherOneMore ==
  ASSUME NEW B, NEW n \in Nat, NEW parts \in [1..n -> Seq(B)], NEW m \in 1..n,
         NEW t, Gathered(t, parts, m - 1, B), Apart(t),
         \A r \in 1..n : Apart(parts[r]) /\ \A y \in 1..Len(parts[r]) : parts[r][y].resource = r
  PROVE  Gathered(t \o parts[m], parts, m, B) /\ Apart(t \o parts[m])
<1>1. /\ t \in Seq(B)
      /\ \A x \in 1..Len(t) : \E r \in 1..(m - 1) : \E y \in 1..Len(parts[r]) : t[x] = parts[r][y]
      /\ \A r \in 1..(m - 1) : \A y \in 1..Len(parts[r]) : \E x \in 1..Len(t) : t[x] = parts[r][y]
  BY Zenon DEF Gathered
<1>2. PICK u \in Seq(B) : u = parts[m]
  OBVIOUS
<1> DEFINE s == t \o u
<1>3. /\ s \in Seq(B) /\ Len(s) = Len(t) + Len(u) /\ Len(t) \in Nat /\ Len(u) \in Nat
      /\ \A x \in 1..Len(t) : s[x] = t[x]
      /\ \A y \in 1..Len(u) : s[Len(t) + y] = u[y]
  BY <1>1, ConcatProperties
<1> HIDE DEF s
<1>4. \A x \in 1..Len(s) : x \in 1..Len(t) \/ (x - Len(t) \in 1..Len(u) /\ Len(t) + (x - Len(t)) = x)
  BY <1>3
<1>5. ASSUME NEW x \in 1..Len(s)
      PROVE  \E r \in 1..m : \E y \in 1..Len(parts[r]) : s[x] = parts[r][y]
  <2>1. CASE x \in 1..Len(t)
    <3>1. PICK r \in 1..(m - 1) : \E y \in 1..Len(parts[r]) : t[x] = parts[r][y]
      BY <1>1, <2>1, Zenon
    <3>2. r \in 1..m /\ s[x] = t[x]
      BY <1>3, <2>1
    <3> QED
      BY <3>1, <3>2, Zenon
  <2>2. CASE x - Len(t) \in 1..Len(u) /\ Len(t) + (x - Len(t)) = x
    <3>1. s[x] = u[x - Len(t)]
      BY <1>3, <2>2
    <3>2. m \in 1..m
      OBVIOUS
    <3> QED
      BY <1>2, <2>2, <3>1, <3>2, Zenon
  <2> QED
    BY <1>4, <2>1, <2>2, Zenon
<1>6. ASSUME NEW r \in 1..m, NEW y \in 1..Len(parts[r])
      PROVE  \E x \in 1..Len(s) : s[x] = parts[r][y]
  <2>1. CASE r \in 1..(m - 1)
    <3>1. PICK x \in 1..Len(t) : t[x] = parts[r][y]
      BY <1>1, <2>1, Zenon
    <3>2. x \in 1..Len(s) /\ s[x] = t[x]
      <4>1. PICK a \in Nat, b \in Nat : a = Len(t) /\ Len(s) = a + b /\ x \in 1..a
        BY <1>3, Zenon
      <4>2. x \in 1..(a + b)
        BY <4>1
      <4> QED
        BY <1>3, <4>1, <4>2, Zenon
    <3> QED
      BY <3>1, <3>2, Zenon
  <2>2. CASE r = m
    <3>1. y \in 1..Len(u) /\ parts[r][y] = u[y]
      BY <1>2, <2>2
    <3>2. Len(t) + y \in 1..Len(s) /\ s[Len(t) + y] = u[y]
      <4>1. PICK a \in Nat, b \in Nat : a = Len(t) /\ b = Len(u) /\ Len(s) = a + b /\ y \in 1..b
        BY <1>3, <3>1, Zenon
      <4>2. a + y \in 1..(a + b)
        BY <4>1
      <4> QED
        BY <1>3, <3>1, <4>1, <4>2, Zenon
    <3> QED
      BY <3>1, <3>2, Zenon
  <2>3. r = m \/ r \in 1..(m - 1)
    OBVIOUS
  <2> QED
    BY <2>1, <2>2, <2>3, Zenon
<1>7. Gathered(s, parts, m, B)
  BY <1>3, <1>5, <1>6, Zenon DEF Gathered
<1>8. \A x \in 1..Len(t) : t[x].resource \in 1..(m - 1)
  <2>1. TAKE x \in 1..Len(t)
  <2>2. PICK r \in 1..(m - 1) : \E y \in 1..Len(parts[r]) : t[x] = parts[r][y]
    BY <1>1, Zenon
  <2>3. r \in 1..n
    OBVIOUS
  <2>4. t[x].resource = r
    BY <2>2, <2>3, Zenon
  <2> QED
    BY <2>4, Zenon
<1>9. \A y \in 1..Len(u) : u[y].resource = m
  BY <1>2, Zenon
<1>10. Apart(s)
  <2>1. SUFFICES ASSUME NEW x \in 1..Len(s), NEW y \in 1..Len(s), x # y,
                        s[x].resource = s[y].resource
                 PROVE  s[x].beforePass # s[y].beforePass
    BY Zenon DEF Apart
  <2>2. CASE x \in 1..Len(t) /\ y \in 1..Len(t)
    <3>1. s[x] = t[x] /\ s[y] = t[y]
      BY <1>3, <2>2
    <3> QED
      BY <2>1, <2>2, <3>1 DEF Apart
  <2>3. CASE x \notin 1..Len(t) /\ y \notin 1..Len(t)
    <3>1. PICK v \in 1..Len(u) : v = x - Len(t) /\ s[x] = u[v]
      BY <1>3, <1>4, <2>3
    <3>2. PICK w \in 1..Len(u) : w = y - Len(t) /\ s[y] = u[w]
      BY <1>3, <1>4, <2>3
    <3>3. v # w
      BY <1>3, <2>1, <3>1, <3>2
    <3>4. Apart(u)
      BY <1>2
    <3>5. u[v].resource = u[w].resource => u[v].beforePass # u[w].beforePass
      BY <3>3, <3>4 DEF Apart
    <3> QED
      BY <2>1, <3>1, <3>2, <3>5
  <2>4. CASE x \in 1..Len(t) /\ y \notin 1..Len(t)
    <3>1. s[x].resource \in 1..(m - 1)
      BY <1>3, <1>8, <2>4
    <3>2. PICK v \in 1..Len(u) : v = y - Len(t) /\ s[y] = u[v]
      BY <1>3, <1>4, <2>4
    <3>3. s[y].resource = m
      BY <1>9, <3>2
    <3> QED
      BY <2>1, <3>1, <3>3
  <2>5. CASE x \notin 1..Len(t) /\ y \in 1..Len(t)
    <3>1. s[y].resource \in 1..(m - 1)
      BY <1>3, <1>8, <2>5
    <3>2. PICK v \in 1..Len(u) : v = x - Len(t) /\ s[x] = u[v]
      BY <1>3, <1>4, <2>5
    <3>3. s[x].resource = m
      BY <1>9, <3>2
    <3> QED
      BY <2>1, <3>1, <3>3
  <2> QED
    BY <2>2, <2>3, <2>4, <2>5
<1> QED
  BY <1>2, <1>7, <1>10, Zenon DEF s


(* FlattenSeq gathers all parts.                                            *)
LEMMA FlattenGathers ==
  ASSUME NEW B, NEW n \in Nat, n >= 1, NEW parts \in [1..n -> Seq(B)],
         \A r \in 1..n : Apart(parts[r]) /\ \A y \in 1..Len(parts[r]) : parts[r][y].resource = r
  PROVE  Gathered(FlattenSeq(parts), parts, n, B) /\ Apart(FlattenSeq(parts))
<1> DEFINE step == [k \in 1..n |-> [t \in Seq(B) |-> t \o parts[k]]]
           Rec(f) == f = [i \in 1..n |-> IF i = 1 THEN parts[i] ELSE f[i - 1] \o parts[i]]
<1>1. \A k \in 1..n : \A t \in Seq(B) : t \o parts[k] \in Seq(B) /\ step[k][t] = t \o parts[k]
  <2>1. TAKE k \in 1..n
  <2>2. PICK u \in Seq(B) : u = parts[k]
    OBVIOUS
  <2>3. \A t \in Seq(B) : t \o u \in Seq(B)
    OBVIOUS
  <2> QED
    BY <2>2, <2>3
<1>2. step \in [1..n -> [Seq(B) -> Seq(B)]]
  BY <1>1
<1>3. <<>> \in Seq(B) /\ Len(parts) = n
  OBVIOUS
<1> HIDE DEF step
<1>4. PICK f \in [0..n -> Seq(B)] : Steps(f, step, <<>>, n)
  BY <1>2, <1>3, StepsExist
<1>5. f[0] = <<>>
  BY <1>4, Zenon DEF Steps
<1>6. ASSUME NEW k \in 1..n PROVE f[k] = f[k - 1] \o parts[k]
  <2>1. k - 1 \in 0..n
    OBVIOUS
  <2>2. f[k - 1] \in Seq(B)
    BY <2>1
  <2>3. f[k] = step[k][f[k - 1]]
    BY <1>4, Zenon DEF Steps
  <2> QED
    BY <1>1, <2>2, <2>3, Zenon
<1>7. 1 \in 1..n /\ 1 - 1 = 0 /\ n \in 1..n
  OBVIOUS
<1>8. f[1] = parts[1]
  <2>1. PICK u \in Seq(B) : u = parts[1]
    BY <1>7
  <2>2. <<>> \o u = u
    BY <2>1, ConcatEmptySeq
  <2>3. f[1] = f[0] \o parts[1]
    BY <1>6, <1>7
  <2> QED
    BY <1>5, <2>1, <2>2, <2>3, Zenon
<1> DEFINE e == [k \in 1..n |-> f[k]]
<1>9. \A k \in 1..n : e[k] = f[k]
  OBVIOUS
<1>10. ASSUME NEW k \in 1..n PROVE e[k] = IF k = 1 THEN parts[k] ELSE e[k - 1] \o parts[k]
  <2>1. CASE k = 1
    BY <1>8, <1>9, <2>1
  <2>2. CASE k # 1
    <3>1. k - 1 \in 1..n
      BY <2>2
    <3> QED
      BY <1>6, <1>9, <2>2, <3>1, Zenon
  <2> QED
    BY <2>1, <2>2
<1>11. Rec(e)
  <2> HIDE DEF e
  <2>1. e = [k \in 1..n |-> e[k]]
    BY DEF e
  <2> QED
    BY <1>10, <2>1, Zenon
<1>12. PICK g : Rec(g) /\ FlattenSeq(parts) = g[n]
  <2> HIDE DEF e
  <2>1. Len(parts) # 0
    BY <1>3
  <2> QED
    BY <1>3, <1>11, <2>1 DEF FlattenSeq
<1>13. \A k \in 1..n : g[k] = IF k = 1 THEN parts[k] ELSE g[k - 1] \o parts[k]
  BY <1>12, Zenon
<1> HIDE DEF e, Rec
<1> DEFINE T == {m \in 0..n : m = 0 \/ (Gathered(g[m], parts, m, B) /\ Apart(g[m]))}
<1>14. 0 \in T
  OBVIOUS
<1>15. ASSUME NEW m \in 1..n, m - 1 \in T PROVE m \in T
  <2>1. CASE m = 1
    <3>1. PICK t \in Seq(B) : t = <<>>
      BY <1>3
    <3>2. Len(t) = 0
      BY <3>1
    <3>3. Gathered(t, parts, m - 1, B) /\ Apart(t)
      BY <2>1, <3>2 DEF Gathered, Apart
    <3>4. Gathered(t \o parts[m], parts, m, B) /\ Apart(t \o parts[m])
      BY <3>3, GatherOneMore
    <3>5. t \o parts[m] = g[m]
      BY <1>5, <1>6, <1>7, <1>8, <1>13, <2>1, <3>1
    <3> QED
      BY <3>4, <3>5
  <2>2. CASE m # 1
    <3>1. PICK t : t = g[m - 1]
      OBVIOUS
    <3>2. Gathered(t, parts, m - 1, B) /\ Apart(t)
      BY <1>15, <2>2, <3>1
    <3>3. Gathered(t \o parts[m], parts, m, B) /\ Apart(t \o parts[m])
      BY <3>2, GatherOneMore
    <3>4. t \o parts[m] = g[m]
      BY <1>13, <2>2, <3>1
    <3> QED
      BY <3>3, <3>4
  <2> QED
    BY <2>1, <2>2
<1> HIDE DEF T
<1>16. \A m \in 0..n : m \in T
  BY <1>14, <1>15, FromZeroTo
<1>17. n \in T
  BY <1>16
<1> QED
  BY <1>12, <1>17 DEF T

(* Picking numbers picks them in their order.                               *)
Numbers(n) == [i \in 1..n |-> i]

(* Picking some of the numbers 1 to n.                                      *)
LEMMA NumbersPicked ==
  ASSUME NEW n \in Nat, NEW positions \in SUBSET (1..n), NEW t,
         t = Picked(Numbers(n), positions)
  PROVE  /\ t \in Seq(1..n)
         /\ \A i \in 1..Len(t) : t[i] \in positions
         /\ \A i, j \in 1..Len(t) : i < j => t[i] < t[j]
         /\ \A k \in positions : \E i \in 1..Len(t) : t[i] = k
<1> DEFINE id == Numbers(n)
<1>1. id \in Seq(1..n) /\ Len(id) = n /\ \A i \in 1..n : id[i] = i
  BY DEF Numbers
<1> HIDE DEF id
<1>2. t = Picked(id, positions)
  BY DEF id
<1>3. t \in Seq(1..n) /\ \E h : Picks(t, h, id, positions, n)
  BY <1>1, <1>2, PickedPicks
<1>4. PICK h : Picks(t, h, id, positions, n)
  BY <1>3
<1>5. /\ h \in [1..Len(t) -> 1..n]
      /\ \A i \in 1..Len(t) : t[i] = id[h[i]] /\ h[i] \in positions
      /\ \A i, j \in 1..Len(t) : i < j => h[i] < h[j]
      /\ \A k \in 1..n : k \in positions => \E i \in 1..Len(t) : h[i] = k
  BY <1>4, Zenon DEF Picks
<1>6. \A i \in 1..Len(t) : t[i] = h[i]
  BY <1>1, <1>5
<1> QED
  BY <1>3, <1>5, <1>6

(* A resource that is not used has no surviving uses.                       *)
LEMMA NoUsesNoChain ==
  ASSUME Declared, NEW r \in Resources, Uses(r) = <<>>
  PROVE  Len(SU(r)) = 0
<1> DEFINE positions == {v \in DOMAIN Uses(r) : Uses(r)[v].pass \in Survivors}
<1>1. SU(r) = Picked(Uses(r), positions)
  BY Zenon DEF SU, SurvivingUses
<1>2. Uses(r) \in Seq(UseRecords) /\ Len(Uses(r)) = 0
  BY DeclaredTypes
<1> HIDE DEF positions
<1>3. SU(r) \in Seq(UseRecords) /\ \E h : Picks(SU(r), h, Uses(r), positions, 0)
  BY <1>1, <1>2, PickedPicks
<1>4. PICK h : h \in [1..Len(SU(r)) -> 1..0]
  BY <1>3 DEF Picks
<1>5. Len(SU(r)) \in Nat
  BY <1>3
<1> QED
  BY <1>4, <1>5

(* Whether the k-th surviving use of a resource needs a barrier.            *)
NeedsBarrier(r, k) ==
  IF resources[r].isImage THEN NeedsImageBarrier(SU(r), resources[r].initialLayout, k)
  ELSE NeedsBufferBarrier(SU(r), k)

(* The barriers a chain asks for.                                           *)
ImageUseBarrier(r, b) ==
  \E k \in 1..Len(SU(r)) : NeedsBarrier(r, k) /\ b = ImageBarrier(r, SU(r), k)
BufferUseBarrier(r, b) ==
  \E k \in 1..Len(SU(r)) : NeedsBarrier(r, k) /\ b = BufferBarrier(r, SU(r), k)

ImageBarriersFor(r) == BarriersFor(r, TRUE, Survivors)
BufferBarriersFor(r) == BarriersFor(r, FALSE, Survivors)

AllImageBarriers ==
  {ImageBarrier(r, SU(r), k) : r \in Resources, k \in Nat}
    \cup {PresentBarrier(r, SU(r)) : r \in Resources}
AllBufferBarriers == {BufferBarrier(r, SU(r), k) : r \in Resources, k \in Nat}

(* The uses of a chain are in passes of their own.                          *)
LEMMA ChainApart ==
  ASSUME NEW r, Chain(r), NEW k \in 1..Len(SU(r)), NEW l \in 1..Len(SU(r)), k # l
  PROVE  SU(r)[k].pass # SU(r)[l].pass
<1>1. Len(SU(r)) \in Nat /\ \A i, j \in 1..Len(SU(r)) : i < j => Turn(SU(r)[i]) < Turn(SU(r)[j])
  BY Zenon DEF Chain
<1>2. \A i \in 1..Len(SU(r)) : Turn(SU(r)[i]) \in Nat
  BY DEF Chain
<1>3. k < l \/ l < k
  BY <1>1
<1>4. Turn(SU(r)[k]) # Turn(SU(r)[l])
  BY <1>1, <1>2, <1>3
<1> QED
  BY <1>4 DEF Turn

(* The part of an image.                                                    *)
LEMMA ImagePart ==
  ASSUME Declared, NEW r \in Resources, Chain(r), NEW part, part = ImageBarriersFor(r)
  PROVE  /\ part \in Seq(AllImageBarriers) /\ Apart(part)
         /\ \A y \in 1..Len(part) :
              /\ part[y].resource = r /\ resources[r].isImage
              /\ ImageUseBarrier(r, part[y])
                   \/ (part[y].beforePass = Present /\ part[y] = PresentBarrier(r, SU(r)))
         /\ resources[r].isImage =>
              \A k \in 1..Len(SU(r)) : NeedsBarrier(r, k) =>
                 \E y \in 1..Len(part) : part[y] = ImageBarrier(r, SU(r), k)
<1>0. resources[r].isImage \in BOOLEAN
  BY DeclaredTypes DEF ResourceRecords
<1>1. CASE ~resources[r].isImage \/ Uses(r) = <<>>
  <2>1. part = <<>>
    BY <1>0, <1>1 DEF BarriersFor, ImageBarriersFor
  <2>2. resources[r].isImage => Len(SU(r)) = 0
    BY <1>1, NoUsesNoChain
  <2>3. PICK B : B = AllImageBarriers
    OBVIOUS
  <2>4. part \in Seq(B) /\ Len(part) = 0
    BY <2>1
  <2>5. \A y \in 1..Len(part) : FALSE
    BY <2>4
  <2>6. resources[r].isImage => \A k \in 1..Len(SU(r)) : FALSE
    BY <2>2
  <2> QED
    BY <2>3, <2>4, <2>5, <2>6, Zenon DEF Apart
<1>2. CASE resources[r].isImage /\ Uses(r) # <<>>
  <2> DEFINE su == SU(r)
             n == Len(SU(r))
             needed == {i \in 1..n : NeedsBarrier(r, i)}
             t == Picked(Numbers(n), needed)
             front == [k \in DOMAIN t |-> ImageBarrier(r, su, t[k])]
             back == IF resources[r].presented THEN <<PresentBarrier(r, su)>> ELSE <<>>
  <2>1. n \in Nat /\ DOMAIN su = 1..n /\ \A k \in 1..n : su[k] \in UseRecords
    BY DEF Chain
  <2>2. part = front \o back
    <3>1. part = ImageBarriersOf(r, su)
      BY <1>2 DEF BarriersFor, SU, ImageBarriersFor
    <3>2. needed = {i \in DOMAIN su : NeedsImageBarrier(su, resources[r].initialLayout, i)}
      BY <1>2, <2>1 DEF NeedsBarrier
    <3>3. Numbers(n) = [i \in DOMAIN su |-> i]
      BY <2>1 DEF Numbers
    <3> QED
      BY <3>1, <3>2, <3>3 DEF ImageBarriersOf
  <2>3. /\ t \in Seq(1..n)
        /\ \A i \in 1..Len(t) : t[i] \in needed
        /\ \A i, j \in 1..Len(t) : i < j => t[i] < t[j]
        /\ \A k \in needed : \E i \in 1..Len(t) : t[i] = k
    <3>1. needed \in SUBSET (1..n)
      OBVIOUS
    <3>2. t = Picked(Numbers(n), needed)
      OBVIOUS
    <3>3. n \in Nat
      BY <2>1
    <3> HIDE DEF n, needed, t
    <3> QED
      BY <3>1, <3>2, <3>3, NumbersPicked
  <2>4. \A k : k \in needed <=> k \in 1..n /\ NeedsBarrier(r, k)
    OBVIOUS
  <2> HIDE DEF needed, t, su, n
  <2>5. Len(t) \in Nat /\ DOMAIN t = 1..Len(t) /\ \A i \in 1..Len(t) : t[i] \in 1..n /\ t[i] \in Nat
    BY <2>1, <2>3
  <2>6. /\ front \in Seq(AllImageBarriers) /\ Len(front) = Len(t)
        /\ \A i \in 1..Len(t) : front[i] = ImageBarrier(r, su, t[i])
    <3>1. \A i \in 1..Len(t) : ImageBarrier(r, su, t[i]) \in AllImageBarriers
      BY <2>5 DEF AllImageBarriers, su
    <3> QED
      BY <2>5, <3>1
  <2>7. /\ back \in Seq(AllImageBarriers) /\ Len(back) \in {0, 1}
        /\ \A i \in 1..Len(back) : back[i] = PresentBarrier(r, su)
    <3>1. PresentBarrier(r, su) \in AllImageBarriers
      BY DEF AllImageBarriers, su
    <3> QED
      BY <3>1
  <2> HIDE DEF front, back
  <2>8. /\ part \in Seq(AllImageBarriers) /\ Len(part) = Len(t) + Len(back)
        /\ \A i \in 1..Len(t) : part[i] = front[i]
        /\ \A i \in 1..Len(back) : part[Len(t) + i] = back[i]
    <3>1. /\ part \in Seq(AllImageBarriers) /\ Len(part) = Len(front) + Len(back)
          /\ \A i \in 1..Len(front) : part[i] = front[i]
          /\ \A i \in 1..Len(back) : part[Len(front) + i] = back[i]
      <4>1. PICK B : B = AllImageBarriers
        OBVIOUS
      <4>2. PICK f \in Seq(B), g \in Seq(B) : f = front /\ g = back
        BY <2>6, <2>7, <4>1, Zenon
      <4>3. /\ f \o g \in Seq(B) /\ Len(f \o g) = Len(f) + Len(g)
            /\ \A i \in 1..Len(f) : (f \o g)[i] = f[i]
            /\ \A i \in 1..Len(g) : (f \o g)[Len(f) + i] = g[i]
        BY ConcatProperties
      <4> QED
        BY <2>2, <4>1, <4>2, <4>3, Zenon
    <3> QED
      BY <2>6, <3>1, Zenon
  <2>9. /\ \A i \in 1..Len(t) : part[i] = ImageBarrier(r, su, t[i])
        /\ \A i \in 1..Len(part) : i \notin 1..Len(t) =>
              i = Len(t) + 1 /\ part[i] = PresentBarrier(r, su)
    <3>1. ASSUME NEW i \in 1..Len(part), i \notin 1..Len(t)
          PROVE  i = Len(t) + 1 /\ part[i] = PresentBarrier(r, su)
      <4>1. PICK a \in Nat, b \in {0, 1} : a = Len(t) /\ b = Len(back)
        BY <2>5, <2>7, Zenon
      <4>2. i \in 1..(a + b) /\ i \notin 1..a
        BY <2>8, <3>1, <4>1, Zenon
      <4>3. i = a + 1 /\ 1 \in 1..b
        BY <4>2
      <4>4. i = Len(t) + 1 /\ 1 \in 1..Len(back)
        BY <4>1, <4>3, Zenon
      <4> QED
        BY <2>7, <2>8, <4>4, Zenon
    <3> QED
      BY <2>6, <2>8, <3>1, Zenon
  <2>10. \A k : ImageBarrier(r, su, k).resource = r /\ ImageBarrier(r, su, k).beforePass = su[k].pass
    BY DEF ImageBarrier
  <2>11. PresentBarrier(r, su).resource = r /\ PresentBarrier(r, su).beforePass = Present
    BY DEF PresentBarrier
  <2>12. \A k \in 1..n : su[k].pass # Present
    BY <2>1, BoundsAssumption DEF UseRecords, Present
  <2>13. ASSUME NEW y \in 1..Len(part)
         PROVE  /\ part[y].resource = r
                /\ ImageUseBarrier(r, part[y])
                     \/ (part[y].beforePass = Present /\ part[y] = PresentBarrier(r, su))
    <3>1. CASE y \in 1..Len(t)
      <4>1. part[y] = ImageBarrier(r, su, t[y]) /\ t[y] \in 1..n /\ NeedsBarrier(r, t[y])
        BY <2>3, <2>4, <2>5, <2>9, <3>1
      <4> QED
        BY <2>10, <4>1 DEF ImageUseBarrier, su, n
    <3>2. CASE y \notin 1..Len(t)
      BY <2>9, <2>11, <3>2
    <3> QED
      BY <3>1, <3>2
  <2>14. Apart(part)
    <3>1. SUFFICES ASSUME NEW x \in 1..Len(part), NEW y \in 1..Len(part), x # y
                   PROVE  part[x].beforePass # part[y].beforePass
      BY Zenon DEF Apart
    <3>2. CASE x \in 1..Len(t) /\ y \in 1..Len(t)
      <4>1. t[x] # t[y] /\ t[x] \in 1..n /\ t[y] \in 1..n
        BY <2>1, <2>3, <2>5, <3>1, <3>2
      <4>2. su[t[x]].pass # su[t[y]].pass
        BY <4>1, ChainApart DEF su, n
      <4> QED
        BY <2>9, <2>10, <3>2, <4>2
    <3>3. \A i \in 1..Len(t) : part[i].beforePass # Present
      BY <2>5, <2>9, <2>10, <2>12, Zenon
    <3>4. \A i \in 1..Len(part) : i \notin 1..Len(t) => i = Len(t) + 1 /\ part[i].beforePass = Present
      BY <2>9, <2>11, Zenon
    <3> QED
      BY <3>1, <3>2, <3>3, <3>4, Zenon
  <2>15. ASSUME NEW k \in 1..n, NeedsBarrier(r, k)
         PROVE  \E y \in 1..Len(part) : part[y] = ImageBarrier(r, su, k)
    <3>1. PICK y \in 1..Len(t) : t[y] = k
      BY <2>3, <2>4, <2>15
    <3>2. PICK a \in Nat, b \in {0, 1} : a = Len(t) /\ Len(part) = a + b
      BY <2>5, <2>7, <2>8, Zenon
    <3>3. y \in 1..Len(part)
      BY <3>2
    <3> QED
      BY <2>9, <3>1, <3>3, Zenon
  <2> QED
    BY <1>2, <2>8, <2>13, <2>14, <2>15 DEF su, n
<1> QED
  BY <1>0, <1>1, <1>2

(* The part of a buffer.                                                    *)
LEMMA BufferPart ==
  ASSUME Declared, NEW r \in Resources, Chain(r), NEW part, part = BufferBarriersFor(r)
  PROVE  /\ part \in Seq(AllBufferBarriers) /\ Apart(part)
         /\ \A y \in 1..Len(part) :
              part[y].resource = r /\ ~resources[r].isImage /\ BufferUseBarrier(r, part[y])
         /\ ~resources[r].isImage =>
              \A k \in 1..Len(SU(r)) : NeedsBarrier(r, k) =>
                 \E y \in 1..Len(part) : part[y] = BufferBarrier(r, SU(r), k)
<1>0. resources[r].isImage \in BOOLEAN
  BY DeclaredTypes DEF ResourceRecords
<1>1. CASE resources[r].isImage \/ Uses(r) = <<>>
  <2>1. part = <<>>
    BY <1>0, <1>1 DEF BarriersFor, BufferBarriersFor
  <2>2. ~resources[r].isImage => Len(SU(r)) = 0
    BY <1>1, NoUsesNoChain
  <2>3. PICK B : B = AllBufferBarriers
    OBVIOUS
  <2>4. part \in Seq(B) /\ Len(part) = 0
    BY <2>1
  <2>5. \A y \in 1..Len(part) : FALSE
    BY <2>4
  <2>6. ~resources[r].isImage => \A k \in 1..Len(SU(r)) : FALSE
    BY <2>2
  <2> QED
    BY <2>3, <2>4, <2>5, <2>6, Zenon DEF Apart
<1>2. CASE ~resources[r].isImage /\ Uses(r) # <<>>
  <2> DEFINE su == SU(r)
             n == Len(SU(r))
             needed == {i \in 1..n : NeedsBarrier(r, i)}
             t == Picked(Numbers(n), needed)
  <2>1. n \in Nat /\ DOMAIN su = 1..n
    BY DEF Chain
  <2>2. part = [k \in DOMAIN t |-> BufferBarrier(r, su, t[k])]
    <3>1. part = BufferBarriersOf(r, su)
      BY <1>0, <1>2 DEF BarriersFor, SU, BufferBarriersFor
    <3>2. needed = {i \in DOMAIN su : NeedsBufferBarrier(su, i)}
      BY <1>2, <2>1 DEF NeedsBarrier
    <3>3. Numbers(n) = [i \in DOMAIN su |-> i]
      BY <2>1 DEF Numbers
    <3> QED
      BY <3>1, <3>2, <3>3 DEF BufferBarriersOf
  <2>3. /\ t \in Seq(1..n)
        /\ \A i \in 1..Len(t) : t[i] \in needed
        /\ \A i, j \in 1..Len(t) : i < j => t[i] < t[j]
        /\ \A k \in needed : \E i \in 1..Len(t) : t[i] = k
    <3>1. needed \in SUBSET (1..n)
      OBVIOUS
    <3>2. t = Picked(Numbers(n), needed)
      OBVIOUS
    <3>3. n \in Nat
      BY <2>1
    <3> HIDE DEF n, needed, t
    <3> QED
      BY <3>1, <3>2, <3>3, NumbersPicked
  <2>4. \A k : k \in needed <=> k \in 1..n /\ NeedsBarrier(r, k)
    OBVIOUS
  <2> HIDE DEF needed, t, su, n
  <2>5. Len(t) \in Nat /\ DOMAIN t = 1..Len(t) /\ \A i \in 1..Len(t) : t[i] \in 1..n /\ t[i] \in Nat
    BY <2>1, <2>3
  <2>6. /\ part \in Seq(AllBufferBarriers) /\ Len(part) = Len(t)
        /\ \A i \in 1..Len(t) : part[i] = BufferBarrier(r, su, t[i])
    <3>1. \A i \in 1..Len(t) : BufferBarrier(r, su, t[i]) \in AllBufferBarriers
      BY <2>5 DEF AllBufferBarriers, su
    <3>2. PICK B : B = AllBufferBarriers
      OBVIOUS
    <3>3. \A i \in 1..Len(t) : BufferBarrier(r, su, t[i]) \in B
      BY <3>1, <3>2, Zenon
    <3>4. part \in Seq(B) /\ Len(part) = Len(t)
      BY <2>2, <2>5, <3>3
    <3> QED
      BY <2>2, <2>5, <3>2, <3>4
  <2>7. \A k : BufferBarrier(r, su, k).resource = r /\ BufferBarrier(r, su, k).beforePass = su[k].pass
    BY DEF BufferBarrier
  <2>8. ASSUME NEW y \in 1..Len(part) PROVE part[y].resource = r /\ BufferUseBarrier(r, part[y])
    <3>1. part[y] = BufferBarrier(r, su, t[y]) /\ t[y] \in 1..n /\ NeedsBarrier(r, t[y])
      BY <2>3, <2>4, <2>5, <2>6
    <3> QED
      BY <2>7, <3>1 DEF BufferUseBarrier, su, n
  <2>9. Apart(part)
    <3>1. SUFFICES ASSUME NEW x \in 1..Len(part), NEW y \in 1..Len(part), x # y
                   PROVE  part[x].beforePass # part[y].beforePass
      BY Zenon DEF Apart
    <3>2. t[x] # t[y] /\ t[x] \in 1..n /\ t[y] \in 1..n
      <4>1. x \in 1..Len(t) /\ y \in 1..Len(t) /\ (x < y \/ y < x)
        BY <2>5, <2>6, <3>1
      <4>2. t[x] \in Nat /\ t[y] \in Nat /\ (t[x] < t[y] \/ t[y] < t[x])
        BY <2>3, <2>5, <4>1, Zenon
      <4> QED
        BY <2>5, <4>1, <4>2
    <3>3. su[t[x]].pass # su[t[y]].pass
      BY <3>2, ChainApart DEF su, n
    <3> QED
      BY <2>6, <2>7, <3>3
  <2>10. ASSUME NEW k \in 1..n, NeedsBarrier(r, k)
         PROVE  \E y \in 1..Len(part) : part[y] = BufferBarrier(r, su, k)
    <3>1. PICK y \in 1..Len(t) : t[y] = k
      BY <2>3, <2>4, <2>10
    <3> QED
      BY <2>6, <3>1
  <2> QED
    BY <1>2, <2>6, <2>8, <2>9, <2>10 DEF su, n
<1> QED
  BY <1>0, <1>1, <1>2

(* The image barriers of a compiled graph.                                  *)
LEMMA CompiledImages ==
  ASSUME Declared, ResultOfOrder, Conformant, NEW s, s = out.imageBarriers
  PROVE  /\ s \in Seq(AllImageBarriers) /\ Apart(s)
         /\ \A x \in 1..Len(s) : \E r \in Resources :
              /\ s[x].resource = r /\ resources[r].isImage
              /\ ImageUseBarrier(r, s[x])
                   \/ (s[x].beforePass = Present /\ s[x] = PresentBarrier(r, SU(r)))
         /\ \A r \in Resources : resources[r].isImage =>
              \A k \in 1..Len(SU(r)) : NeedsBarrier(r, k) =>
                 \E x \in 1..Len(s) : s[x] = ImageBarrier(r, SU(r), k)
<1> DEFINE n == Len(resources)
           parts == [r \in Resources |-> ImageBarriersFor(r)]
<1>1. n \in Nat /\ n >= 1 /\ Resources = 1..n
  BY DEF Declared, Resources, ResultOfOrder
<1>2. s = FlattenSeq(parts)
  BY Zenon DEF ResultOfOrder, BarriersOf, ImageBarriersFor
<1>3. \A r \in 1..n : parts[r] = ImageBarriersFor(r)
  BY <1>1
<1>4. ASSUME NEW r \in 1..n
      PROVE  /\ parts[r] \in Seq(AllImageBarriers) /\ Apart(parts[r])
             /\ \A y \in 1..Len(parts[r]) :
                  /\ parts[r][y].resource = r /\ resources[r].isImage
                  /\ ImageUseBarrier(r, parts[r][y])
                       \/ (parts[r][y].beforePass = Present /\ parts[r][y] = PresentBarrier(r, SU(r)))
             /\ resources[r].isImage =>
                  \A k \in 1..Len(SU(r)) : NeedsBarrier(r, k) =>
                     \E y \in 1..Len(parts[r]) : parts[r][y] = ImageBarrier(r, SU(r), k)
  <2>1. r \in Resources
    BY <1>1
  <2>2. Chain(r)
    BY <2>1, UsesMakeChains
  <2>3. parts[r] = ImageBarriersFor(r)
    BY <1>3
  <2> HIDE DEF parts
  <2> QED
    BY <2>1, <2>2, <2>3, ImagePart
<1>5. parts \in [1..n -> Seq(AllImageBarriers)]
  BY <1>1, <1>3, <1>4
<1> HIDE DEF parts, n
<1>6. PICK B : B = AllImageBarriers
  OBVIOUS
<1>7. Gathered(s, parts, n, B) /\ Apart(s)
  BY <1>1, <1>2, <1>4, <1>5, <1>6, FlattenGathers
<1>8. /\ s \in Seq(B)
      /\ \A x \in 1..Len(s) : \E r \in 1..n : \E y \in 1..Len(parts[r]) : s[x] = parts[r][y]
      /\ \A r \in 1..n : \A y \in 1..Len(parts[r]) : \E x \in 1..Len(s) : s[x] = parts[r][y]
  BY <1>7, Zenon DEF Gathered
<1>9. ASSUME NEW x \in 1..Len(s)
      PROVE  \E r \in Resources :
              /\ s[x].resource = r /\ resources[r].isImage
              /\ ImageUseBarrier(r, s[x])
                   \/ (s[x].beforePass = Present /\ s[x] = PresentBarrier(r, SU(r)))
  <2>1. PICK r \in 1..n : \E y \in 1..Len(parts[r]) : s[x] = parts[r][y]
    BY <1>8
  <2>2. PICK y \in 1..Len(parts[r]) : s[x] = parts[r][y]
    BY <2>1
  <2>3. r \in Resources
    BY <1>1
  <2>4. /\ parts[r][y].resource = r /\ resources[r].isImage
        /\ ImageUseBarrier(r, parts[r][y])
             \/ (parts[r][y].beforePass = Present /\ parts[r][y] = PresentBarrier(r, SU(r)))
    BY <1>4, Zenon
  <2> QED
    BY <2>2, <2>3, <2>4, Zenon
<1>10. ASSUME NEW r \in Resources, resources[r].isImage, NEW k \in 1..Len(SU(r)), NeedsBarrier(r, k)
       PROVE  \E x \in 1..Len(s) : s[x] = ImageBarrier(r, SU(r), k)
  <2>1. PICK y \in 1..Len(parts[r]) : parts[r][y] = ImageBarrier(r, SU(r), k)
    BY <1>1, <1>4, <1>10, Zenon
  <2>2. r \in 1..n
    BY <1>1
  <2>3. PICK x \in 1..Len(s) : s[x] = parts[r][y]
    BY <1>8, <2>2, Zenon
  <2> QED
    BY <2>1, <2>3, Zenon
<1> QED
  BY <1>6, <1>7, <1>8, <1>9, <1>10, Zenon

(* The buffer barriers of a compiled graph.                                 *)
LEMMA CompiledBuffers ==
  ASSUME Declared, ResultOfOrder, Conformant, NEW s, s = out.bufferBarriers
  PROVE  /\ s \in Seq(AllBufferBarriers)
         /\ \A r \in Resources : ~resources[r].isImage =>
              \A k \in 1..Len(SU(r)) : NeedsBarrier(r, k) =>
                 \E x \in 1..Len(s) : s[x] = BufferBarrier(r, SU(r), k)
<1> DEFINE n == Len(resources)
           parts == [r \in Resources |-> BufferBarriersFor(r)]
<1>1. n \in Nat /\ n >= 1 /\ Resources = 1..n
  BY DEF Declared, Resources, ResultOfOrder
<1>2. s = FlattenSeq(parts)
  BY Zenon DEF ResultOfOrder, BarriersOf, BufferBarriersFor
<1>3. \A r \in 1..n : parts[r] = BufferBarriersFor(r)
  BY <1>1
<1>4. ASSUME NEW r \in 1..n
      PROVE  /\ parts[r] \in Seq(AllBufferBarriers) /\ Apart(parts[r])
             /\ \A y \in 1..Len(parts[r]) : parts[r][y].resource = r
             /\ ~resources[r].isImage =>
                  \A k \in 1..Len(SU(r)) : NeedsBarrier(r, k) =>
                     \E y \in 1..Len(parts[r]) : parts[r][y] = BufferBarrier(r, SU(r), k)
  <2>1. r \in Resources
    BY <1>1
  <2>2. Chain(r)
    BY <2>1, UsesMakeChains
  <2>3. parts[r] = BufferBarriersFor(r)
    BY <1>3
  <2> HIDE DEF parts
  <2> QED
    BY <2>1, <2>2, <2>3, BufferPart
<1>5. parts \in [1..n -> Seq(AllBufferBarriers)]
  BY <1>1, <1>3, <1>4
<1> HIDE DEF parts, n
<1>6. PICK B : B = AllBufferBarriers
  OBVIOUS
<1>7. Gathered(s, parts, n, B)
  <2>1. \A r \in 1..n : Apart(parts[r]) /\ \A y \in 1..Len(parts[r]) : parts[r][y].resource = r
    BY <1>4, Zenon
  <2>2. parts \in [1..n -> Seq(B)]
    BY <1>5, <1>6
  <2>3. Gathered(FlattenSeq(parts), parts, n, B)
    BY <1>1, <2>1, <2>2, FlattenGathers
  <2> QED
    BY <1>2, <2>3
<1>8. /\ s \in Seq(B)
      /\ \A r \in 1..n : \A y \in 1..Len(parts[r]) : \E x \in 1..Len(s) : s[x] = parts[r][y]
  BY <1>7, Zenon DEF Gathered
<1>9. ASSUME NEW r \in Resources, ~resources[r].isImage, NEW k \in 1..Len(SU(r)), NeedsBarrier(r, k)
      PROVE  \E x \in 1..Len(s) : s[x] = BufferBarrier(r, SU(r), k)
  <2>1. PICK y \in 1..Len(parts[r]) : parts[r][y] = BufferBarrier(r, SU(r), k)
    BY <1>1, <1>4, <1>9, Zenon
  <2> QED
    BY <1>1, <1>8, <2>1, Zenon
<1> QED
  BY <1>6, <1>8, <1>9, Zenon

-----------------------------------------------------------------------------
(* The barriers before a pass.                                             *)

(* The barriers recorded before a pass are those compiled for it.           *)
LEMMA PickedBefore ==
  ASSUME NEW B, NEW s \in Seq(B), NEW p, NEW t, t = BarriersBefore(s, p)
  PROVE  /\ t \in Seq(B)
         /\ \A x \in 1..Len(t) : t[x].beforePass = p /\ \E y \in 1..Len(s) : t[x] = s[y]
         /\ \A y \in 1..Len(s) : s[y].beforePass = p => \E x \in 1..Len(t) : t[x] = s[y]
         /\ Apart(s) => \A x, y \in 1..Len(t) : x # y => t[x].resource # t[y].resource
<1> DEFINE positions == {i \in DOMAIN s : s[i].beforePass = p}
<1>1. t = Picked(s, positions)
  BY DEF BarriersBefore
<1>2. DOMAIN s = 1..Len(s) /\ Len(s) \in Nat
  OBVIOUS
<1>3. \A i : i \in positions <=> i \in 1..Len(s) /\ s[i].beforePass = p
  BY <1>2
<1> HIDE DEF positions
<1>4. t \in Seq(B) /\ \E h : Picks(t, h, s, positions, Len(s))
  BY <1>1, PickedPicks
<1>5. PICK h : Picks(t, h, s, positions, Len(s))
  BY <1>4
<1>6. /\ h \in [1..Len(t) -> 1..Len(s)]
      /\ \A i \in 1..Len(t) : t[i] = s[h[i]] /\ h[i] \in positions
      /\ \A i, j \in 1..Len(t) : i < j => h[i] < h[j]
      /\ \A k \in 1..Len(s) : k \in positions => \E i \in 1..Len(t) : h[i] = k
  BY <1>5, Zenon DEF Picks
<1>7. \A i \in 1..Len(t) : h[i] \in 1..Len(s)
  BY <1>6
<1>8. ASSUME Apart(s), NEW x \in 1..Len(t), NEW y \in 1..Len(t), x # y
      PROVE  t[x].resource # t[y].resource
  <2>1. h[x] # h[y]
    <3>1. Len(t) \in Nat
      BY <1>4
    <3>2. x < y \/ y < x
      BY <1>8, <3>1
    <3>3. h[x] < h[y] \/ h[y] < h[x]
      BY <1>6, <3>2, Zenon
    <3> QED
      BY <1>2, <1>7, <3>3
  <2>2. s[h[x]].beforePass = p /\ s[h[y]].beforePass = p
    BY <1>3, <1>6, Zenon
  <2>3. s[h[x]].resource # s[h[y]].resource
    BY <1>7, <1>8, <2>1, <2>2, Zenon DEF Apart
  <2> QED
    BY <1>6, <2>3, Zenon
<1>9. ASSUME NEW x \in 1..Len(t)
      PROVE  t[x].beforePass = p /\ \E y \in 1..Len(s) : t[x] = s[y]
  <2>1. t[x] = s[h[x]] /\ h[x] \in 1..Len(s) /\ s[h[x]].beforePass = p
    BY <1>3, <1>6, Zenon
  <2> QED
    BY <2>1, Zenon
<1>10. ASSUME NEW y \in 1..Len(s), s[y].beforePass = p PROVE \E x \in 1..Len(t) : t[x] = s[y]
  <2>1. PICK x \in 1..Len(t) : h[x] = y
    BY <1>3, <1>6, <1>10, Zenon
  <2> QED
    BY <1>6, <2>1, Zenon
<1> QED
  BY <1>4, <1>8, <1>9, <1>10, Zenon

(* b is the barrier of the use that pass p makes of image r.                *)
ImageAt(r, b, p) ==
  /\ resources[r].isImage /\ b.resource = r
  /\ \E k \in 1..Len(SU(r)) :
        SU(r)[k].pass = p /\ NeedsBarrier(r, k) /\ b = ImageBarrier(r, SU(r), k)

(* Some image barriers of the uses of pass p, one an image; all of them.    *)
SomeImagesAt(t, p) ==
  /\ t \in Seq(AllImageBarriers)
  /\ \A x \in 1..Len(t) : \E r \in Resources : ImageAt(r, t[x], p)
  /\ \A x, y \in 1..Len(t) : x # y => t[x].resource # t[y].resource

ImagesAt(t, p) ==
  /\ SomeImagesAt(t, p)
  /\ \A r \in Resources : resources[r].isImage =>
       \A k \in 1..Len(SU(r)) : SU(r)[k].pass = p /\ NeedsBarrier(r, k) =>
          \E x \in 1..Len(t) : t[x] = ImageBarrier(r, SU(r), k)

(* The image barriers before a pass.                                        *)
LEMMA ImagesBeforePass ==
  ASSUME Declared, ResultOfOrder, Conformant, graph = out, NEW p \in Passes
  PROVE  ImagesAt(ImagesBefore(p), p)
<1> DEFINE s == out.imageBarriers
           t == ImagesBefore(p)
<1>1. /\ s \in Seq(AllImageBarriers) /\ Apart(s)
      /\ \A x \in 1..Len(s) : \E r \in Resources :
              /\ s[x].resource = r /\ resources[r].isImage
              /\ ImageUseBarrier(r, s[x])
                   \/ (s[x].beforePass = Present /\ s[x] = PresentBarrier(r, SU(r)))
      /\ \A r \in Resources : resources[r].isImage =>
              \A k \in 1..Len(SU(r)) : NeedsBarrier(r, k) =>
                 \E x \in 1..Len(s) : s[x] = ImageBarrier(r, SU(r), k)
  BY CompiledImages
<1>2. t = BarriersBefore(s, p)
  BY DEF ImagesBefore
<1> HIDE DEF s, t
<1>3. /\ t \in Seq(AllImageBarriers)
      /\ \A x \in 1..Len(t) : t[x].beforePass = p /\ \E y \in 1..Len(s) : t[x] = s[y]
      /\ \A y \in 1..Len(s) : s[y].beforePass = p => \E x \in 1..Len(t) : t[x] = s[y]
      /\ \A x, y \in 1..Len(t) : x # y => t[x].resource # t[y].resource
  BY <1>1, <1>2, PickedBefore
<1>4. p # Present
  BY DeclaredTypes DEF Present
<1>5. \A r, k : ImageBarrier(r, SU(r), k).beforePass = SU(r)[k].pass
  BY DEF ImageBarrier
<1>6. ASSUME NEW x \in 1..Len(t) PROVE \E r \in Resources : ImageAt(r, t[x], p)
  <2>1. PICK y \in 1..Len(s) : t[x] = s[y]
    BY <1>3
  <2>2. PICK r \in Resources :
              /\ s[y].resource = r /\ resources[r].isImage
              /\ ImageUseBarrier(r, s[y])
                   \/ (s[y].beforePass = Present /\ s[y] = PresentBarrier(r, SU(r)))
    BY <1>1
  <2>3. ImageUseBarrier(r, t[x]) /\ t[x].resource = r /\ t[x].beforePass = p
    BY <1>3, <1>4, <2>1, <2>2, Zenon
  <2>4. PICK k \in 1..Len(SU(r)) : NeedsBarrier(r, k) /\ t[x] = ImageBarrier(r, SU(r), k)
    BY <2>3, Zenon DEF ImageUseBarrier
  <2>5. SU(r)[k].pass = p
    BY <1>5, <2>3, <2>4, Zenon
  <2> QED
    BY <2>2, <2>3, <2>4, <2>5, Zenon DEF ImageAt
<1>7. ASSUME NEW r \in Resources, resources[r].isImage, NEW k \in 1..Len(SU(r)),
             SU(r)[k].pass = p, NeedsBarrier(r, k)
      PROVE  \E x \in 1..Len(t) : t[x] = ImageBarrier(r, SU(r), k)
  <2>1. PICK y \in 1..Len(s) : s[y] = ImageBarrier(r, SU(r), k)
    BY <1>1, <1>7, Zenon
  <2>2. s[y].beforePass = p
    BY <1>5, <1>7, <2>1, Zenon
  <2>3. PICK x \in 1..Len(t) : t[x] = s[y]
    BY <1>3, <2>2
  <2> QED
    BY <2>1, <2>3, Zenon
<1>8. ImagesAt(t, p)
  BY <1>3, <1>6, <1>7, Zenon DEF ImagesAt, SomeImagesAt
<1> QED
  BY <1>8 DEF t

(* The buffer barriers before a pass.                                       *)
LEMMA BuffersBeforePass ==
  ASSUME Declared, ResultOfOrder, Conformant, graph = out, NEW p
  PROVE  /\ BuffersBefore(p) \in Seq(AllBufferBarriers)
         /\ \A r \in Resources : ~resources[r].isImage =>
              \A k \in 1..Len(SU(r)) : SU(r)[k].pass = p /\ NeedsBarrier(r, k) =>
                 \E x \in 1..Len(BuffersBefore(p)) : BuffersBefore(p)[x] = BufferBarrier(r, SU(r), k)
<1> DEFINE s == out.bufferBarriers
           t == BuffersBefore(p)
<1>1. /\ s \in Seq(AllBufferBarriers)
      /\ \A r \in Resources : ~resources[r].isImage =>
              \A k \in 1..Len(SU(r)) : NeedsBarrier(r, k) =>
                 \E x \in 1..Len(s) : s[x] = BufferBarrier(r, SU(r), k)
  BY CompiledBuffers
<1>2. t = BarriersBefore(s, p)
  BY DEF BuffersBefore
<1> HIDE DEF s, t
<1>3. /\ t \in Seq(AllBufferBarriers)
      /\ \A y \in 1..Len(s) : s[y].beforePass = p => \E x \in 1..Len(t) : t[x] = s[y]
  BY <1>1, <1>2, PickedBefore
<1>4. \A r, k : BufferBarrier(r, SU(r), k).beforePass = SU(r)[k].pass
  BY DEF BufferBarrier
<1>5. ASSUME NEW r \in Resources, ~resources[r].isImage, NEW k \in 1..Len(SU(r)),
             SU(r)[k].pass = p, NeedsBarrier(r, k)
      PROVE  \E x \in 1..Len(t) : t[x] = BufferBarrier(r, SU(r), k)
  <2>1. PICK y \in 1..Len(s) : s[y] = BufferBarrier(r, SU(r), k)
    BY <1>1, <1>5, Zenon
  <2>2. s[y].beforePass = p
    BY <1>4, <1>5, <2>1, Zenon
  <2> QED
    BY <1>3, <2>1, <2>2, Zenon
<1> QED
  BY <1>3, <1>5, Zenon DEF t

-----------------------------------------------------------------------------
(* The layouts along a chain.                                              *)

(* Images are used with accesses that have a layout.                        *)
ImageAccesses == ImageReads \cup ImageWrites
ImagesUsedAsImages ==
  \A r \in Resources : resources[r].isImage =>
     \A u \in DOMAIN Uses(r) : Uses(r)[u].access \in ImageAccesses

(* An access is known by its layout, and no layout is UNDEFINED.            *)
LEMMA LayoutsTellAccesses ==
  /\ \A a \in ImageAccesses : LayoutOf(a) # "UNDEFINED"
  /\ \A a, b \in ImageAccesses : LayoutOf(a) = LayoutOf(b) => a = b
<1>1. ImageAccesses \subseteq {"COLOR_ATTACHMENT", "DEPTH_ATTACHMENT", "SHADER_READ",
                               "TRANSFER_WRITE", "TRANSFER_READ"}
  BY AccessAssumption DEF ImageAccesses
<1>2. /\ LayoutOf("COLOR_ATTACHMENT") = "COLOR_ATTACHMENT_OPTIMAL"
      /\ LayoutOf("DEPTH_ATTACHMENT") = "DEPTH_STENCIL_ATTACHMENT_OPTIMAL"
      /\ LayoutOf("SHADER_READ") = "SHADER_READ_ONLY_OPTIMAL"
      /\ LayoutOf("TRANSFER_WRITE") = "TRANSFER_DST_OPTIMAL"
      /\ LayoutOf("TRANSFER_READ") = "TRANSFER_SRC_OPTIMAL"
  BY DEF LayoutOf
<1> QED
  BY <1>1, <1>2

(* The surviving uses of an image have layouts.                             *)
LEMMA ChainAccesses ==
  ASSUME ImagesUsedAsImages, NEW r \in Resources, resources[r].isImage, Chain(r),
         NEW k \in 1..Len(SU(r))
  PROVE  SU(r)[k].access \in ImageAccesses
<1>1. PICK u \in DOMAIN Uses(r) : SU(r)[k] = Uses(r)[u]
  BY Zenon DEF Chain
<1>2. Uses(r)[u].access \in ImageAccesses
  BY Zenon DEF ImagesUsedAsImages
<1> QED
  BY <1>1, <1>2

(* Image r is declared in the layout an upload leaves, and its first        *)
(* surviving use is that upload.                                            *)
FilledFirst(r) ==
  /\ resources[r].initialLayout = "TRANSFER_DST_OPTIMAL"
  /\ Len(SU(r)) >= 1 /\ SU(r)[1].access = "TRANSFER_WRITE"

(* The declaration of image r says where its texture is.                    *)
Known(r) == resources[r].initialLayout \in {"UNDEFINED", atStart[r]} \/ FilledFirst(r)

(* Image r may be in layout L after the first n passes: in the one of its   *)
(* last use among them, or before the first use in the declared one.        *)
Agrees(r, n, L) ==
  \/ /\ \A k \in 1..Len(SU(r)) : Turn(SU(r)[k]) > n
     /\ resources[r].initialLayout \in {"UNDEFINED", L} \/ FilledFirst(r)
  \/ \E k \in 1..Len(SU(r)) :
       /\ Turn(SU(r)[k]) <= n
       /\ \A l \in 1..Len(SU(r)) : l > k => Turn(SU(r)[l]) > n
       /\ L = LayoutOf(SU(r)[k].access)

(* Where its barrier starts, what a use without a barrier finds, and what   *)
(* holds after it.                                                          *)
LEMMA UseOfImage ==
  ASSUME NEW r, Chain(r), NEW n \in Nat, NEW L, Agrees(r, n, L),
         NEW k \in 1..Len(SU(r)), Turn(SU(r)[k]) = n + 1, resources[r].isImage,
         LayoutOf(SU(r)[k].access) # "UNDEFINED"
  PROVE  /\ NeedsBarrier(r, k) => ImageBarrier(r, SU(r), k).oldLayout \in {"UNDEFINED", L}
         /\ ~NeedsBarrier(r, k) =>
              LayoutOf(SU(r)[k].access) = L \/ SU(r)[k].access = "TRANSFER_WRITE"
         /\ Agrees(r, n + 1, LayoutOf(SU(r)[k].access))
<1> DEFINE su == SU(r)
           m == Len(SU(r))
           T(i) == Turn(SU(r)[i])
<1>1. /\ m \in Nat /\ \A i \in 1..m : T(i) \in Nat
      /\ \A i, j \in 1..m : i < j => T(i) < T(j)
  BY DEF Chain
<1>2. \/ /\ \A i \in 1..m : T(i) > n
         /\ resources[r].initialLayout \in {"UNDEFINED", L} \/ FilledFirst(r)
      \/ \E i \in 1..m :
           /\ T(i) <= n
           /\ \A l \in 1..m : l > i => T(l) > n
           /\ L = LayoutOf(su[i].access)
  BY Zenon DEF Agrees
<1>3. k \in 1..m /\ T(k) = n + 1
  OBVIOUS
<1> HIDE DEF T, m, su
<1>4. k = 1 => resources[r].initialLayout \in {"UNDEFINED", L} \/ FilledFirst(r)
  <2>1. SUFFICES ASSUME k = 1 PROVE \A i \in 1..m : ~(T(i) <= n)
    BY <1>2, Zenon
  <2>2. \A i \in 1..m : i = k \/ k < i
    BY <1>1, <2>1
  <2> QED
    BY <1>1, <1>3, <2>2
<1>5. k # 1 => L = LayoutOf(su[k - 1].access)
  <2>1. SUFFICES ASSUME k # 1 PROVE L = LayoutOf(su[k - 1].access)
    OBVIOUS
  <2>2. k - 1 \in 1..m /\ k - 1 < k /\ T(k - 1) < n + 1 /\ T(k - 1) \in Nat
    BY <1>1, <1>3, <2>1
  <2>3. ~(T(k - 1) > n)
    BY <2>2
  <2>4. PICK i \in 1..m :
           /\ T(i) <= n
           /\ \A l \in 1..m : l > i => T(l) > n
           /\ L = LayoutOf(su[i].access)
    BY <1>2, <2>2, <2>3, Zenon
  <2>5. ~(k - 1 > i) /\ i # k /\ ~(i > k)
    <3>1. ~(k - 1 > i)
      BY <2>2, <2>3, <2>4, Zenon
    <3>2. T(i) < T(k)
      BY <1>1, <1>3, <2>4
    <3> QED
      BY <1>1, <1>3, <3>1, <3>2
  <2>6. i = k - 1
    BY <1>1, <1>3, <2>5
  <2> QED
    BY <2>4, <2>6
<1>6. ImageBarrier(r, su, k).oldLayout =
         IF k = 1 THEN resources[r].initialLayout ELSE LayoutOf(su[k - 1].access)
  BY DEF ImageBarrier
<1>7. /\ ~NeedsBarrier(r, k) =>
           LayoutOf(su[k].access) = IF k = 1 THEN resources[r].initialLayout
                                     ELSE LayoutOf(su[k - 1].access)
      /\ k = 1 /\ NeedsBarrier(r, k) => LayoutOf(su[k].access) # resources[r].initialLayout
  BY DEF NeedsBarrier, NeedsImageBarrier, su
<1>8. Agrees(r, n + 1, LayoutOf(su[k].access))
  <2>1. T(k) <= n + 1 /\ \A l \in 1..m : l > k => T(l) > n + 1
    BY <1>1, <1>3
  <2> QED
    BY <1>3, <2>1, Zenon DEF Agrees, T, m, su
<1>9. LayoutOf(su[k].access) # "UNDEFINED"
  BY DEF su
<1>a. FilledFirst(r) /\ k = 1 =>
         su[k].access = "TRANSFER_WRITE" /\ LayoutOf(su[k].access) = resources[r].initialLayout
  BY DEF FilledFirst, LayoutOf, su
<1>10. ~NeedsBarrier(r, k) => LayoutOf(su[k].access) = L \/ su[k].access = "TRANSFER_WRITE"
  BY <1>4, <1>5, <1>7, <1>9, <1>a
<1>11. NeedsBarrier(r, k) => ImageBarrier(r, su, k).oldLayout \in {"UNDEFINED", L}
  BY <1>4, <1>5, <1>6, <1>7, <1>a
<1> QED
  BY <1>8, <1>10, <1>11 DEF su

(* A pass that does not use the image.                                      *)
LEMMA NoUseOfImage ==
  ASSUME NEW r, Chain(r), NEW n \in Nat, NEW L, Agrees(r, n, L),
         \A k \in 1..Len(SU(r)) : Turn(SU(r)[k]) # n + 1
  PROVE  Agrees(r, n + 1, L)
<1> DEFINE m == Len(SU(r))
           T(i) == Turn(SU(r)[i])
<1>1. m \in Nat /\ \A i \in 1..m : T(i) \in Nat /\ T(i) # n + 1
  BY DEF Chain
<1>2. \A i \in 1..m : (T(i) > n => T(i) > n + 1) /\ (T(i) <= n => T(i) <= n + 1)
  BY <1>1
<1> HIDE DEF T, m
<1>3. \/ /\ \A i \in 1..m : T(i) > n
         /\ resources[r].initialLayout \in {"UNDEFINED", L} \/ FilledFirst(r)
      \/ \E i \in 1..m :
           /\ T(i) <= n
           /\ \A l \in 1..m : l > i => T(l) > n
           /\ L = LayoutOf(SU(r)[i].access)
  BY Zenon DEF Agrees, T, m
<1>4. \/ /\ \A i \in 1..m : T(i) > n + 1
         /\ resources[r].initialLayout \in {"UNDEFINED", L} \/ FilledFirst(r)
      \/ \E i \in 1..m :
           /\ T(i) <= n + 1
           /\ \A l \in 1..m : l > i => T(l) > n + 1
           /\ L = LayoutOf(SU(r)[i].access)
  BY <1>2, <1>3, Zenon
<1> QED
  BY <1>4, Zenon DEF Agrees, T, m

(* Pass p is the one that runs at turn n.                                   *)
LEMMA TurnOfPass ==
  ASSUME Declared, ResultOfOrder, NEW r, Chain(r), NEW k \in 1..Len(SU(r)),
         NEW n \in 1..Len(out.order)
  PROVE  SU(r)[k].pass = out.order[n] <=> Turn(SU(r)[k]) = n
<1>1. out.order[Turn(SU(r)[k])] = SU(r)[k].pass
  BY Zenon DEF Chain
<1>2. OrderIndex(out.order[n]) = n
  BY ResultType, Zenon
<1> QED
  BY <1>1, <1>2 DEF Turn

(* The barriers before a pass, or the first of them, are recorded from the  *)
(* layouts tracked before the pass.                                         *)
LEMMA LayoutsFound ==
  ASSUME NEW S, NEW t \in Seq(S), NEW i \in 1..Len(t),
         \A x, y \in 1..Len(t) : x # y => t[x].resource # t[y].resource,
         t[i].resource \in DOMAIN layout
  PROVE  LayoutsAfter(SubSeq(t, 1, i - 1))[t[i].resource] = layout[t[i].resource]
<1> DEFINE s == SubSeq(t, 1, i - 1)
           on == {x \in DOMAIN s : s[x].resource = t[i].resource}
<1>1. DOMAIN s = 1..(i - 1) /\ \A x \in 1..(i - 1) : s[x] = t[x]
  OBVIOUS
<1> HIDE DEF s
<1>2. on = {}
  <2>1. \A x \in 1..(i - 1) : x \in 1..Len(t) /\ x # i
    OBVIOUS
  <2> QED
    BY <1>1, <2>1
<1> QED
  BY <1>2 DEF LayoutsAfter, s

(* The layouts after the barriers before a pass.                            *)
LEMMA LayoutsReached ==
  ASSUME NEW S, NEW t \in Seq(S),
         \A x, y \in 1..Len(t) : x # y => t[x].resource # t[y].resource,
         NEW r \in DOMAIN layout
  PROVE  /\ (\A x \in 1..Len(t) : t[x].resource # r) => LayoutsAfter(t)[r] = layout[r]
         /\ \A x \in 1..Len(t) : t[x].resource = r => LayoutsAfter(t)[r] = t[x].newLayout
<1> DEFINE on == {i \in DOMAIN t : t[i].resource = r}
<1>1. LayoutsAfter(t)[r] = IF on = {} THEN layout[r] ELSE t[Max(on)].newLayout
  BY DEF LayoutsAfter
<1>2. DOMAIN t = 1..Len(t)
  OBVIOUS
<1>3. (\A x \in 1..Len(t) : t[x].resource # r) => on = {}
  BY <1>2
<1>4. ASSUME NEW x \in 1..Len(t), t[x].resource = r PROVE LayoutsAfter(t)[r] = t[x].newLayout
  <2>1. on = {x}
    BY <1>2, <1>4
  <2> HIDE DEF on
  <2>2. Max(on) \in on
    <3>1. x \in on /\ \A y \in on : x >= y
      BY <2>1
    <3> QED
      BY <3>1 DEF Max
  <2> QED
    BY <1>1, <2>1, <2>2
<1> QED
  BY <1>1, <1>3, <1>4

-----------------------------------------------------------------------------
(* The command buffer.                                                     *)

IsSeq(s) == \E S : s \in Seq(S)

(* The command makes the k-th surviving use of a resource wait for the one  *)
(* before it.                                                               *)
WaitsFor(command, r, k) ==
  /\ IsBarrierOn(command, r) /\ command.dst = SU(r)[k].access
  /\ k > 1 => command.src = SU(r)[k - 1].access

(* That command is between the passes before the use and the use.           *)
BarrierLogged(log, at, n, r, k) ==
  \E c \in 1..Len(log) :
    /\ WaitsFor(log[c], r, k) /\ c < at[Turn(SU(r)[k])]
    /\ \A i \in 1..n : i < Turn(SU(r)[k]) => at[i] < c

(* The command buffer holds the first n passes, the i-th at at[i], and the  *)
(* barriers they need.                                                      *)
Logged(log, at, n) ==
  /\ at \in [1..n -> 1..Len(log)]
  /\ \A i, j \in 1..n : i < j => at[i] < at[j]
  /\ \A i \in 1..n : log[at[i]] = PassBody(out.order[i])
  /\ \A c \in 1..Len(log) : log[c].op = "pass" => \E i \in 1..n : at[i] = c
  /\ \A r \in Resources : \A k \in 1..Len(SU(r)) :
       Turn(SU(r)[k]) <= n /\ NeedsBarrier(r, k) => BarrierLogged(log, at, n, r, k)

(* Two sequences one behind the other.                                      *)
Joined(u, s, t) ==
  /\ Len(s) \in Nat /\ Len(t) \in Nat /\ Len(u) = Len(s) + Len(t)
  /\ \A x \in 1..Len(s) : u[x] = s[x]
  /\ \A x \in 1..Len(t) : u[Len(s) + x] = t[x]
  /\ \A x \in 1..Len(u) : x \in 1..Len(s) \/ \E y \in 1..Len(t) : x = Len(s) + y

(* Concatenation joins two sequences.                                       *)
LEMMA JoinedSeqs ==
  ASSUME NEW s, NEW t, IsSeq(s), IsSeq(t), NEW u, u = s \o t
  PROVE  IsSeq(u) /\ Joined(u, s, t)
<1>1. PICK S : s \in Seq(S)
  BY Zenon DEF IsSeq
<1>2. PICK T : t \in Seq(T)
  BY Zenon DEF IsSeq
<1> DEFINE U == S \cup T
<1>3. s \in Seq(U) /\ t \in Seq(U)
  BY <1>1, <1>2
<1> HIDE DEF U
<1>4. /\ u \in Seq(U) /\ Len(u) = Len(s) + Len(t)
      /\ \A x \in 1..Len(s) : u[x] = s[x]
      /\ \A x \in 1..Len(t) : u[Len(s) + x] = t[x]
  BY <1>3, ConcatProperties
<1>5. Len(s) \in Nat /\ Len(t) \in Nat
  BY <1>1, <1>2
<1>6. ASSUME NEW x \in 1..Len(u), x \notin 1..Len(s) PROVE \E y \in 1..Len(t) : x = Len(s) + y
  <2>1. x - Len(s) \in 1..Len(t) /\ x = Len(s) + (x - Len(s))
    BY <1>4, <1>5, <1>6
  <2> QED
    BY <2>1, Zenon
<1>7. IsSeq(u)
  BY <1>4, Zenon DEF IsSeq
<1> QED
  BY <1>4, <1>5, <1>6, <1>7, Zenon DEF Joined

(* A barrier stays logged when the passes after it are logged.              *)
LEMMA LogGrows ==
  ASSUME NEW log, NEW more, IsSeq(log), IsSeq(more), NEW n \in Nat, NEW at, Logged(log, at, n),
         \A x \in 1..Len(more) : more[x].op # "pass"
  PROVE  Logged(log \o more, at, n)
<1>0. PICK new : new = log \o more
  OBVIOUS
<1>a. Joined(new, log, more)
  BY <1>0, JoinedSeqs
<1>1. /\ Len(log) \in Nat /\ Len(more) \in Nat /\ Len(new) = Len(log) + Len(more)
      /\ \A x \in 1..Len(log) : new[x] = log[x]
      /\ \A x \in 1..Len(more) : new[Len(log) + x] = more[x]
      /\ \A x \in 1..Len(new) : x \in 1..Len(log) \/ \E y \in 1..Len(more) : x = Len(log) + y
  BY <1>a, Zenon DEF Joined
<1>2. /\ at \in [1..n -> 1..Len(log)]
      /\ \A i, j \in 1..n : i < j => at[i] < at[j]
      /\ \A i \in 1..n : log[at[i]] = PassBody(out.order[i])
      /\ \A c \in 1..Len(log) : log[c].op = "pass" => \E i \in 1..n : at[i] = c
      /\ \A r \in Resources : \A k \in 1..Len(SU(r)) :
           Turn(SU(r)[k]) <= n /\ NeedsBarrier(r, k) => BarrierLogged(log, at, n, r, k)
  BY Zenon DEF Logged
<1>3. \A x \in 1..Len(log) : x \in 1..Len(new)
  BY <1>1
<1>4. at \in [1..n -> 1..Len(new)] /\ \A i \in 1..n : at[i] \in 1..Len(log)
  BY <1>2, <1>3
<1>5. \A i \in 1..n : new[at[i]] = PassBody(out.order[i])
  BY <1>1, <1>2, <1>4, Zenon
<1>6. ASSUME NEW c \in 1..Len(new), new[c].op = "pass" PROVE \E i \in 1..n : at[i] = c
  <2>1. c \in 1..Len(log)
    <3>1. ASSUME NEW y \in 1..Len(more), c = Len(log) + y PROVE FALSE
      BY <1>1, <1>6, <3>1, Zenon
    <3> QED
      BY <1>1, <3>1, Zenon
  <2> QED
    BY <1>1, <1>2, <1>6, <2>1, Zenon
<1>7. ASSUME NEW r \in Resources, NEW k \in 1..Len(SU(r)), Turn(SU(r)[k]) <= n, NeedsBarrier(r, k)
      PROVE  BarrierLogged(new, at, n, r, k)
  <2>1. BarrierLogged(log, at, n, r, k)
    BY <1>2, <1>7, Zenon
  <2>2. PICK c \in 1..Len(log) :
           /\ WaitsFor(log[c], r, k) /\ c < at[Turn(SU(r)[k])]
           /\ \A i \in 1..n : i < Turn(SU(r)[k]) => at[i] < c
    BY <2>1, Zenon DEF BarrierLogged
  <2>3. c \in 1..Len(new) /\ new[c] = log[c]
    BY <1>1, <1>3
  <2> QED
    BY <2>2, <2>3, Zenon DEF BarrierLogged
<1>8. Logged(new, at, n)
  BY <1>2, <1>4, <1>5, <1>6, <1>7, Zenon DEF Logged
<1> QED
  BY <1>0, <1>8

(* The next pass is logged, behind the barriers it needs.                   *)
LEMMA LogPass ==
  ASSUME NEW log, NEW more, IsSeq(log), IsSeq(more), NEW n \in Nat, NEW at, Logged(log, at, n),
         NEW q \in Nat, q + 1 = Len(more), more[q + 1] = PassBody(out.order[n + 1]),
         \A x \in 1..q : more[x].op # "pass",
         \A r \in Resources : \A k \in 1..Len(SU(r)) : Turn(SU(r)[k]) \in Nat \ {0},
         \A r \in Resources : \A k \in 1..Len(SU(r)) :
            Turn(SU(r)[k]) = n + 1 /\ NeedsBarrier(r, k) => \E x \in 1..q : WaitsFor(more[x], r, k)
  PROVE  \E new : Logged(log \o more, new, n + 1)
<1>0. PICK all : all = log \o more
  OBVIOUS
<1>a. Joined(all, log, more)
  BY <1>0, JoinedSeqs
<1>1. /\ Len(log) \in Nat /\ Len(more) \in Nat /\ Len(all) = Len(log) + Len(more)
      /\ \A x \in 1..Len(log) : all[x] = log[x]
      /\ \A x \in 1..Len(more) : all[Len(log) + x] = more[x]
      /\ \A x \in 1..Len(all) : x \in 1..Len(log) \/ \E y \in 1..Len(more) : x = Len(log) + y
  BY <1>a, Zenon DEF Joined
<1>2. /\ at \in [1..n -> 1..Len(log)]
      /\ \A i, j \in 1..n : i < j => at[i] < at[j]
      /\ \A i \in 1..n : log[at[i]] = PassBody(out.order[i])
      /\ \A c \in 1..Len(log) : log[c].op = "pass" => \E i \in 1..n : at[i] = c
      /\ \A r \in Resources : \A k \in 1..Len(SU(r)) :
           Turn(SU(r)[k]) <= n /\ NeedsBarrier(r, k) => BarrierLogged(log, at, n, r, k)
  BY Zenon DEF Logged
<1>3. PICK last \in Nat : last = Len(log) + (q + 1) /\ last = Len(all) /\ last > Len(log)
  <2>1. PICK a \in Nat : a = Len(log)
    BY <1>1, Zenon
  <2>2. Len(all) = a + (q + 1)
    BY <1>1, <2>1
  <2>3. a + (q + 1) \in Nat /\ a + (q + 1) > a
    OBVIOUS
  <2> QED
    BY <2>1, <2>2, <2>3, Zenon
<1> DEFINE new == [i \in 1..(n + 1) |-> IF i = n + 1 THEN last ELSE at[i]]
<1>4. new[n + 1] = last /\ \A i \in 1..n : new[i] = at[i] /\ at[i] \in 1..Len(log)
  BY <1>2
<1>5. \A i \in 1..(n + 1) : i = n + 1 \/ i \in 1..n
  OBVIOUS
<1>6. new \in [1..(n + 1) -> 1..Len(all)]
  BY <1>1, <1>2, <1>3
<1> HIDE DEF new
<1>7. ASSUME NEW i \in 1..(n + 1), NEW j \in 1..(n + 1), i < j PROVE new[i] < new[j]
  <2>1. i \in 1..n
    BY <1>7
  <2>2. CASE j = n + 1
    <3>1. PICK a \in Nat : a = Len(log) /\ last > a /\ at[i] \in 1..a
      BY <1>1, <1>3, <1>4, <2>1, Zenon
    <3>2. at[i] < last
      BY <3>1
    <3> QED
      BY <1>4, <2>1, <2>2, <3>2, Zenon
  <2>3. CASE j \in 1..n
    BY <1>2, <1>4, <1>7, <2>1, <2>3
  <2> QED
    BY <1>5, <2>2, <2>3
<1>8. all[last] = PassBody(out.order[n + 1])
  <2>1. q + 1 \in 1..Len(more)
    BY <1>1
  <2> QED
    BY <1>1, <1>3, <2>1
<1>9. ASSUME NEW i \in 1..(n + 1) PROVE all[new[i]] = PassBody(out.order[i])
  BY <1>1, <1>2, <1>4, <1>5, <1>8
<1>10. ASSUME NEW c \in 1..Len(all), all[c].op = "pass" PROVE \E i \in 1..(n + 1) : new[i] = c
  <2>1. CASE c \in 1..Len(log)
    <3>1. PICK i \in 1..n : at[i] = c
      BY <1>1, <1>2, <1>10, <2>1, Zenon
    <3>2. i \in 1..(n + 1)
      OBVIOUS
    <3> QED
      BY <1>4, <3>1, <3>2, Zenon
  <2>2. CASE c \notin 1..Len(log)
    <3>1. PICK y \in 1..Len(more) : c = Len(log) + y
      BY <1>1, <2>2, Zenon
    <3>2. more[y].op = "pass"
      BY <1>1, <1>10, <3>1, Zenon
    <3>3. y = q + 1
      BY <1>1, <3>2
    <3>4. c = last /\ n + 1 \in 1..(n + 1)
      BY <1>3, <3>1, <3>3
    <3> QED
      BY <1>4, <3>4, Zenon
  <2> QED
    BY <2>1, <2>2
<1>11. ASSUME NEW r \in Resources, NEW k \in 1..Len(SU(r)), Turn(SU(r)[k]) <= n + 1, NeedsBarrier(r, k)
       PROVE  BarrierLogged(all, new, n + 1, r, k)
  <2>1. PICK T \in Nat \ {0} : T = Turn(SU(r)[k])
    OBVIOUS
  <2>2. CASE T <= n
    <3>1. BarrierLogged(log, at, n, r, k)
      BY <1>2, <1>11, <2>1, <2>2, Zenon
    <3>2. PICK c \in 1..Len(log) :
             /\ WaitsFor(log[c], r, k) /\ c < at[T]
             /\ \A i \in 1..n : i < T => at[i] < c
      BY <2>1, <3>1, Zenon DEF BarrierLogged
    <3>3. c \in 1..Len(all) /\ all[c] = log[c]
      BY <1>1
    <3>4. T \in 1..n
      BY <2>2
    <3>5. c < new[T]
      BY <1>4, <3>2, <3>4
    <3>6. ASSUME NEW i \in 1..(n + 1), i < T PROVE new[i] < c
      <4>1. i \in 1..n
        BY <2>2, <3>6
      <4> QED
        BY <1>4, <3>2, <3>6, <4>1
    <3> QED
      BY <2>1, <3>2, <3>3, <3>5, <3>6, Zenon DEF BarrierLogged
  <2>3. CASE T = n + 1
    <3>1. PICK x \in 1..q : WaitsFor(more[x], r, k)
      BY <1>11, <2>1, <2>3, Zenon
    <3>2. PICK c \in 1..Len(all) : c = Len(log) + x /\ all[c] = more[x]
      <4>1. PICK a \in Nat : a = Len(log)
        BY <1>1, Zenon
      <4>2. Len(all) = a + (q + 1)
        BY <1>1, <4>1
      <4>3. a + x \in 1..(a + (q + 1)) /\ x \in 1..(q + 1)
        OBVIOUS
      <4>4. Len(log) + x \in 1..Len(all) /\ x \in 1..Len(more)
        BY <4>1, <4>2, <4>3
      <4> QED
        BY <1>1, <4>4, Zenon
    <3>3. c < new[T]
      BY <1>1, <1>3, <1>4, <2>3, <3>2
    <3>4. ASSUME NEW i \in 1..(n + 1), i < T PROVE new[i] < c
      <4>1. i \in 1..n
        BY <2>3, <3>4
      <4>2. PICK a \in Nat : a = Len(log) /\ at[i] \in 1..a /\ c = a + x
        BY <1>1, <1>4, <3>2, <4>1, Zenon
      <4>3. at[i] < c
        BY <4>2
      <4> QED
        BY <1>4, <4>1, <4>3, Zenon
    <3> QED
      BY <2>1, <3>1, <3>2, <3>3, <3>4, Zenon DEF BarrierLogged
  <2>4. T <= n \/ T = n + 1
    BY <1>11, <2>1
  <2> QED
    BY <2>2, <2>3, <2>4
<1>12. Logged(all, new, n + 1)
  BY <1>6, <1>7, <1>9, <1>10, <1>11, Zenon DEF Logged
<1> QED
  BY <1>0, <1>12

-----------------------------------------------------------------------------
(* Conflicting passes in the command buffer.                               *)

(* Two neighbouring uses of which one writes need a barrier.                *)
LEMMA WriteNeedsBarrier ==
  ASSUME NEW r, NEW q \in Nat, q > 1, IsWrite(SU(r)[q - 1]) \/ IsWrite(SU(r)[q])
  PROVE  NeedsBarrier(r, q)
<1>1. q # 1
  OBVIOUS
<1> QED
  BY <1>1 DEF NeedsBarrier, NeedsImageBarrier, NeedsBufferBarrier

(* A use without a barrier has the access of the use before it.             *)
LEMMA NoBarrierSameAccess ==
  ASSUME Declared, ImagesUsedAsImages, NEW r \in Resources, Chain(r),
         NEW q \in 2..Len(SU(r)), ~NeedsBarrier(r, q)
  PROVE  SU(r)[q].access = SU(r)[q - 1].access
<1>1. q \in 1..Len(SU(r)) /\ q - 1 \in 1..Len(SU(r)) /\ q # 1 /\ q > 1
  BY DEF Chain
<1>2. CASE resources[r].isImage
  <2>1. LayoutOf(SU(r)[q].access) = LayoutOf(SU(r)[q - 1].access)
    BY <1>1, <1>2 DEF NeedsBarrier, NeedsImageBarrier
  <2>2. SU(r)[q].access \in ImageAccesses /\ SU(r)[q - 1].access \in ImageAccesses
    BY <1>1, <1>2, ChainAccesses
  <2> QED
    BY <2>1, <2>2, LayoutsTellAccesses
<1>3. CASE ~resources[r].isImage
  BY <1>1, <1>3 DEF NeedsBarrier, NeedsBufferBarrier
<1> QED
  BY <1>2, <1>3

(* Along uses that need no barrier the access stays the same.               *)
LEMMA NoBarriersSameAccess ==
  ASSUME Declared, ImagesUsedAsImages, NEW r \in Resources, Chain(r),
         NEW l \in 1..Len(SU(r)), NEW h \in 1..Len(SU(r)), l <= h,
         \A q \in (l + 1)..h : ~NeedsBarrier(r, q)
  PROVE  SU(r)[h].access = SU(r)[l].access
<1> DEFINE T == {d \in 0..(h - l) : SU(r)[l + d].access = SU(r)[l].access}
<1>0. Len(SU(r)) \in Nat /\ l \in Nat /\ h \in Nat /\ h - l \in Nat
  BY DEF Chain
<1>1. 0 \in T
  BY <1>0
<1>2. ASSUME NEW d \in 1..(h - l), d - 1 \in T PROVE d \in T
  <2>1. /\ l + d \in 2..Len(SU(r)) /\ l + d \in (l + 1)..h /\ (l + d) - 1 = l + (d - 1)
        /\ d \in 0..(h - l)
    BY <1>0
  <2>2. SU(r)[l + d].access = SU(r)[(l + d) - 1].access
    BY <2>1, NoBarrierSameAccess
  <2>3. SU(r)[l + (d - 1)].access = SU(r)[l].access
    BY <1>2
  <2> QED
    BY <2>1, <2>2, <2>3
<1> HIDE DEF T
<1>3. \A d \in 0..(h - l) : d \in T
  BY <1>0, <1>1, <1>2, FromZeroTo
<1>4. h - l \in T /\ l + (h - l) = h
  BY <1>0, <1>3
<1> QED
  BY <1>4 DEF T

(* Some use after the f-th, up to the g-th, waits for the access of the     *)
(* f-th, and one not before it is waited for with the access of the g-th.   *)
Bracketed(r, f, g) ==
  \E lo, hi \in (f + 1)..g :
     /\ lo <= hi /\ NeedsBarrier(r, lo) /\ NeedsBarrier(r, hi)
     /\ SU(r)[lo - 1].access = SU(r)[f].access
     /\ SU(r)[hi].access = SU(r)[g].access

(* Two uses of a chain that conflict.                                       *)
LEMMA ChainConflict ==
  ASSUME Declared, ImagesUsedAsImages, NEW r \in Resources, Chain(r),
         NEW f \in 1..Len(SU(r)), NEW g \in 1..Len(SU(r)), f < g,
         IsWrite(SU(r)[f]) \/ IsWrite(SU(r)[g])
  PROVE  Bracketed(r, f, g)
<1> DEFINE N == {q \in (f + 1)..g : NeedsBarrier(r, q)}
<1>0. Len(SU(r)) \in Nat /\ f \in Nat /\ g \in Nat /\ f >= 1 /\ g <= Len(SU(r))
  BY DEF Chain
<1>1. N # {}
  <2>1. CASE IsWrite(SU(r)[f])
    <3>1. f + 1 \in Nat /\ f + 1 > 1 /\ (f + 1) - 1 = f /\ f + 1 \in (f + 1)..g
      BY <1>0
    <3>2. NeedsBarrier(r, f + 1)
      BY <2>1, <3>1, WriteNeedsBarrier
    <3> QED
      BY <3>1, <3>2
  <2>2. CASE IsWrite(SU(r)[g])
    <3>1. g \in (f + 1)..g /\ g > 1
      BY <1>0
    <3>2. NeedsBarrier(r, g)
      BY <1>0, <2>2, <3>1, WriteNeedsBarrier
    <3> QED
      BY <3>1, <3>2
  <2> QED
    BY <2>1, <2>2
<1>2. N \in SUBSET Nat /\ N \in SUBSET (1..g) /\ N \subseteq (f + 1)..g
  BY <1>0
<1>3. \A q \in (f + 1)..g : q \notin N => ~NeedsBarrier(r, q)
  OBVIOUS
<1>4. \A q \in N : NeedsBarrier(r, q)
  OBVIOUS
<1> HIDE DEF N
<1>5. PICK lo \in N : \A q \in N : lo <= q
  BY <1>1, <1>2, LeastNumber
<1>6. PICK hi \in N : \A q \in N : q <= hi
  BY <1>0, <1>1, <1>2, GreatestNumber
<1>7. lo \in (f + 1)..g /\ hi \in (f + 1)..g /\ lo <= hi
  BY <1>2, <1>5
<1>8. SU(r)[lo - 1].access = SU(r)[f].access
  <2>1. lo - 1 \in 1..Len(SU(r)) /\ f <= lo - 1
    BY <1>0, <1>7
  <2>2. ASSUME NEW q \in (f + 1)..(lo - 1) PROVE ~NeedsBarrier(r, q)
    <3>1. q \in (f + 1)..g /\ ~(lo <= q)
      BY <1>0, <1>7
    <3> QED
      BY <1>3, <1>5, <3>1
  <2> QED
    BY <2>1, <2>2, NoBarriersSameAccess
<1>9. SU(r)[hi].access = SU(r)[g].access
  <2>1. hi \in 1..Len(SU(r)) /\ hi <= g
    BY <1>0, <1>7
  <2>2. ASSUME NEW q \in (hi + 1)..g PROVE ~NeedsBarrier(r, q)
    <3>1. q \in (f + 1)..g /\ ~(q <= hi)
      BY <1>0, <1>7
    <3> QED
      BY <1>3, <1>6, <3>1
  <2> QED
    BY <2>1, <2>2, NoBarriersSameAccess
<1> QED
  BY <1>4, <1>5, <1>6, <1>7, <1>8, <1>9, Zenon DEF Bracketed

(* Between two commands, a barrier waits for access src of a resource, and  *)
(* it or a later one is waited for with access dst.                         *)
Guarded(log, i, j, r, src, dst) ==
  \E k, l \in (i + 1)..(j - 1) :
     /\ k <= l
     /\ IsBarrierOn(log[k], r) /\ log[k].src = src
     /\ IsBarrierOn(log[l], r) /\ log[l].dst = dst

(* Two passes in the command buffer, and uses they make of a resource.      *)
LEMMA LoggedConflict ==
  ASSUME Declared, ResultOfOrder, Conformant, ImagesUsedAsImages,
         NEW n \in Nat, n <= Len(out.order), NEW log, NEW at, Logged(log, at, n), Len(log) \in Nat,
         NEW x \in 1..n, NEW y \in 1..n, x < y,
         NEW r \in Resources, NEW u \in DOMAIN Uses(r), NEW v \in DOMAIN Uses(r),
         Uses(r)[u].pass = out.order[x], Uses(r)[v].pass = out.order[y],
         IsWrite(Uses(r)[u]) \/ IsWrite(Uses(r)[v])
  PROVE  Guarded(log, at[x], at[y], r, Uses(r)[u].access, Uses(r)[v].access)
<1>1. Chain(r)
  BY UsesMakeChains
<1>2. x \in 1..Len(out.order) /\ y \in 1..Len(out.order)
  BY ResultType
<1>3. Survives(out.order[x]) /\ Survives(out.order[y])
  BY <1>2, ResultType, Zenon
<1>4. PICK f \in 1..Len(SU(r)) : SU(r)[f] = Uses(r)[u]
  BY <1>1, <1>3, Zenon DEF Chain
<1>5. PICK g \in 1..Len(SU(r)) : SU(r)[g] = Uses(r)[v]
  BY <1>1, <1>3, Zenon DEF Chain
<1>6. Turn(SU(r)[f]) = x /\ Turn(SU(r)[g]) = y
  BY <1>1, <1>2, <1>4, <1>5, TurnOfPass
<1>7. /\ Len(SU(r)) \in Nat
      /\ \A k, l \in 1..Len(SU(r)) : k < l => Turn(SU(r)[k]) < Turn(SU(r)[l])
      /\ \A k \in 1..Len(SU(r)) : Turn(SU(r)[k]) \in Nat /\ Turn(SU(r)[k]) >= 1
  BY <1>1 DEF Chain
<1>8. f < g
  <2>1. ~(g < f)
    BY <1>6, <1>7
  <2>2. f # g
    BY <1>6
  <2> QED
    BY <1>7, <2>1, <2>2
<1>9. PICK lo \in (f + 1)..g, hi \in (f + 1)..g :
            /\ lo <= hi /\ NeedsBarrier(r, lo) /\ NeedsBarrier(r, hi)
            /\ SU(r)[lo - 1].access = SU(r)[f].access
            /\ SU(r)[hi].access = SU(r)[g].access
  <2>1. IsWrite(SU(r)[f]) \/ IsWrite(SU(r)[g])
    BY <1>4, <1>5
  <2>2. Bracketed(r, f, g)
    BY <1>1, <1>8, <2>1, ChainConflict
  <2> QED
    BY <2>2, Zenon DEF Bracketed
<1>10. /\ lo \in 1..Len(SU(r)) /\ hi \in 1..Len(SU(r)) /\ lo > 1 /\ hi > 1
       /\ f < lo /\ f < hi /\ (lo = g \/ lo < g) /\ (hi = g \/ hi < g) /\ (lo = hi \/ lo < hi)
  <2>1. PICK m \in Nat : m = Len(SU(r)) /\ f \in 1..m /\ g \in 1..m
    BY <1>7, Zenon
  <2>2. lo <= hi
    BY <1>9, Zenon
  <2>3. /\ lo \in 1..m /\ hi \in 1..m /\ lo > 1 /\ hi > 1
        /\ f < lo /\ f < hi /\ (lo = g \/ lo < g) /\ (hi = g \/ hi < g) /\ (lo = hi \/ lo < hi)
    BY <2>1, <2>2
  <2> QED
    BY <2>1, <2>3, Zenon
<1>11. PICK X \in Nat, Y \in Nat : X = Turn(SU(r)[lo]) /\ Y = Turn(SU(r)[hi])
  BY <1>7, <1>10
<1>12. x < X /\ x < Y /\ X <= y /\ Y <= y /\ (lo < hi => X < Y)
  <2>1. x < X /\ x < Y /\ (lo < hi => X < Y)
    BY <1>6, <1>7, <1>10, <1>11, Zenon
  <2>2. (X = y \/ X < y) /\ (Y = y \/ Y < y)
    BY <1>6, <1>7, <1>10, <1>11, Zenon
  <2>3. X <= y /\ Y <= y
    BY <2>2
  <2> QED
    BY <2>1, <2>3
<1>13. X \in 1..n /\ Y \in 1..n /\ X <= n /\ Y <= n
  BY <1>12
<1>14. /\ at \in [1..n -> 1..Len(log)]
       /\ \A i, j \in 1..n : i < j => at[i] < at[j]
       /\ \A s \in Resources : \A k \in 1..Len(SU(s)) :
            Turn(SU(s)[k]) <= n /\ NeedsBarrier(s, k) => BarrierLogged(log, at, n, s, k)
  BY Zenon DEF Logged
<1>15. \A i \in 1..n : at[i] \in Nat
  BY <1>14
<1>16. BarrierLogged(log, at, n, r, lo) /\ BarrierLogged(log, at, n, r, hi)
  BY <1>9, <1>10, <1>11, <1>13, <1>14, Zenon
<1>17. PICK c \in 1..Len(log) :
          /\ WaitsFor(log[c], r, lo) /\ c < at[X]
          /\ \A i \in 1..n : i < X => at[i] < c
  BY <1>11, <1>16, Zenon DEF BarrierLogged
<1>18. PICK d \in 1..Len(log) :
          /\ WaitsFor(log[d], r, hi) /\ d < at[Y]
          /\ \A i \in 1..n : i < Y => at[i] < d
  BY <1>11, <1>16, Zenon DEF BarrierLogged
<1>19. at[x] < c /\ at[x] < d /\ at[X] <= at[y] /\ at[Y] <= at[y]
  <2>1. at[x] < c /\ at[x] < d
    BY <1>12, <1>17, <1>18
  <2>2. X = y \/ X < y
    BY <1>12
  <2>3. Y = y \/ Y < y
    BY <1>12
  <2>4. at[X] = at[y] \/ at[X] < at[y]
    BY <1>13, <1>14, <2>2, Zenon
  <2>5. at[Y] = at[y] \/ at[Y] < at[y]
    BY <1>13, <1>14, <2>3, Zenon
  <2>6. PICK a \in Nat, b \in Nat : a = at[X] /\ b = at[Y]
    BY <1>13, <1>15, Zenon
  <2>7. PICK e \in Nat : e = at[y]
    BY <1>15, Zenon
  <2>8. (a = e \/ a < e) /\ (b = e \/ b < e)
    BY <2>4, <2>5, <2>6, <2>7, Zenon
  <2>9. a <= e /\ b <= e
    BY <2>8
  <2> QED
    BY <2>1, <2>6, <2>7, <2>9, Zenon
<1>20. c \in (at[x] + 1)..(at[y] - 1) /\ d \in (at[x] + 1)..(at[y] - 1)
  <2>1. PICK a \in Nat, b \in Nat : a = at[x] /\ b = at[y]
    BY <1>15
  <2>2. PICK aX \in Nat, aY \in Nat : aX = at[X] /\ aY = at[Y]
    BY <1>13, <1>15, Zenon
  <2>3. a < c /\ a < d /\ c < aX /\ d < aY /\ aX <= b /\ aY <= b
    BY <1>17, <1>18, <1>19, <2>1, <2>2, Zenon
  <2>4. c \in (a + 1)..(b - 1) /\ d \in (a + 1)..(b - 1)
    BY <2>3
  <2> QED
    BY <2>1, <2>4, Zenon
<1>21. IsBarrierOn(log[c], r) /\ log[c].src = Uses(r)[u].access /\ log[c].dst = SU(r)[lo].access
  BY <1>4, <1>9, <1>10, <1>17 DEF WaitsFor
<1>22. IsBarrierOn(log[d], r) /\ log[d].dst = Uses(r)[v].access
  BY <1>5, <1>9, <1>18 DEF WaitsFor
<1>23. CASE lo = hi
  <2>1. log[c].dst = Uses(r)[v].access /\ c <= c
    BY <1>5, <1>9, <1>21, <1>23
  <2> QED
    BY <1>20, <1>21, <2>1, Zenon DEF Guarded
<1>24. CASE lo < hi
  <2>1. at[X] < d
    BY <1>12, <1>13, <1>18, <1>24
  <2>2. c <= d
    BY <1>13, <1>15, <1>17, <2>1
  <2> QED
    BY <1>20, <1>21, <1>22, <2>2, Zenon DEF Guarded
<1> QED
  BY <1>10, <1>23, <1>24

-----------------------------------------------------------------------------
(* The commands of a pass.                                                 *)

(* One command for each image barrier.                                      *)
LEMMA ImageCommands ==
  ASSUME NEW S, NEW t \in Seq(S)
  PROVE  /\ IsSeq(ImageTransitions(t)) /\ Len(ImageTransitions(t)) = Len(t)
         /\ \A i \in 1..Len(t) :
              ImageTransitions(t)[i] =
                ImageTransition(t[i], LayoutsAfter(SubSeq(t, 1, i - 1))[t[i].resource])
<1> DEFINE F(i) == ImageTransition(t[i], LayoutsAfter(SubSeq(t, 1, i - 1))[t[i].resource])
           R == {F(i) : i \in 1..Len(t)}
<1>1. DOMAIN t = 1..Len(t) /\ Len(t) \in Nat
  OBVIOUS
<1>2. ImageTransitions(t) = [i \in 1..Len(t) |-> F(i)]
  BY <1>1 DEF ImageTransitions
<1> HIDE DEF F
<1>3. ImageTransitions(t) \in Seq(R) /\ Len(ImageTransitions(t)) = Len(t)
  BY <1>1, <1>2
<1>4. \A i \in 1..Len(t) : ImageTransitions(t)[i] = F(i)
  BY <1>2
<1>5. IsSeq(ImageTransitions(t))
  BY <1>3, Zenon DEF IsSeq
<1> QED
  BY <1>3, <1>4, <1>5, Zenon DEF F

(* One command for each buffer barrier.                                     *)
LEMMA BufferCommands ==
  ASSUME NEW S, NEW t \in Seq(S)
  PROVE  /\ IsSeq(BufferTransitions(t)) /\ Len(BufferTransitions(t)) = Len(t)
         /\ \A i \in 1..Len(t) : BufferTransitions(t)[i] = BufferTransition(t[i])
<1> DEFINE R == {BufferTransition(t[i]) : i \in 1..Len(t)}
<1>1. DOMAIN t = 1..Len(t) /\ Len(t) \in Nat
  OBVIOUS
<1>2. BufferTransitions(t) = [i \in 1..Len(t) |-> BufferTransition(t[i])]
  BY <1>1 DEF BufferTransitions
<1>3. BufferTransitions(t) \in Seq(R) /\ Len(BufferTransitions(t)) = Len(t)
  BY <1>1, <1>2
<1>4. \A i \in 1..Len(t) : BufferTransitions(t)[i] = BufferTransition(t[i])
  BY <1>2
<1>5. IsSeq(BufferTransitions(t))
  BY <1>3, Zenon DEF IsSeq
<1> QED
  BY <1>3, <1>4, <1>5, Zenon

(* What the commands are for.                                               *)
NoPassIn(log) == \A x \in 1..Len(log) : log[x].op # "pass"
Truthful(log) ==
  \A x \in 1..Len(log) :
     log[x].op = "imageBarrier" /\ Known(log[x].resource) =>
        log[x].oldLayout \in {"UNDEFINED", log[x].found}

(* What holds of two logs holds of both together.                           *)
LEMMA JoinedLogs ==
  ASSUME NEW s, NEW t, IsSeq(s), IsSeq(t)
  PROVE  /\ IsSeq(s \o t)
         /\ NoPassIn(s) /\ NoPassIn(t) => NoPassIn(s \o t)
         /\ Truthful(s) /\ Truthful(t) => Truthful(s \o t)
<1>1. PICK u : u = s \o t
  OBVIOUS
<1>2. IsSeq(u) /\ Joined(u, s, t)
  BY <1>1, JoinedSeqs
<1>3. /\ \A x \in 1..Len(s) : u[x] = s[x]
      /\ \A x \in 1..Len(t) : u[Len(s) + x] = t[x]
      /\ \A x \in 1..Len(u) : x \in 1..Len(s) \/ \E y \in 1..Len(t) : x = Len(s) + y
  BY <1>2, Zenon DEF Joined
<1>4. ASSUME NEW x \in 1..Len(u)
      PROVE  (\E y \in 1..Len(s) : u[x] = s[y]) \/ (\E y \in 1..Len(t) : u[x] = t[y])
  BY <1>3, Zenon
<1>5. NoPassIn(s) /\ NoPassIn(t) => NoPassIn(u)
  BY <1>4, Zenon DEF NoPassIn
<1>6. Truthful(s) /\ Truthful(t) => Truthful(u)
  BY <1>4, Zenon DEF Truthful
<1> QED
  BY <1>1, <1>2, <1>5, <1>6

(* Buffer barriers are neither passes nor transitions.                      *)
LEMMA BuffersHarmless ==
  ASSUME NEW S, NEW t \in Seq(S)
  PROVE  IsSeq(BufferTransitions(t)) /\ NoPassIn(BufferTransitions(t)) /\ Truthful(BufferTransitions(t))
<1>1. /\ IsSeq(BufferTransitions(t)) /\ Len(BufferTransitions(t)) = Len(t)
      /\ \A i \in 1..Len(t) : BufferTransitions(t)[i] = BufferTransition(t[i])
  BY BufferCommands
<1>2. \A b : BufferTransition(b).op = "bufferBarrier"
  BY DEF BufferTransition
<1>3. "bufferBarrier" # "pass" /\ "bufferBarrier" # "imageBarrier"
  OBVIOUS
<1>4. ASSUME NEW x \in 1..Len(BufferTransitions(t))
      PROVE  BufferTransitions(t)[x].op # "pass" /\ BufferTransitions(t)[x].op # "imageBarrier"
  BY <1>1, <1>2, <1>3
<1> QED
  BY <1>1, <1>4, Zenon DEF NoPassIn, Truthful

(* The image barriers of a pass are recorded from the layouts the images    *)
(* are in.                                                                  *)
ImagesAgree(n) ==
  \A r \in 1..Len(layout) : resources[r].isImage /\ Known(r) => Agrees(r, n, layout[r])

(* The transitions before a pass start where the images are.                *)
LEMMA ImagesTruthful ==
  ASSUME Declared, ResultOfOrder, Conformant, ImagesUsedAsImages,
         NEW n \in Nat, n + 1 \in 1..Len(out.order), ImagesAgree(n),
         DOMAIN layout = Resources, DOMAIN layout = 1..Len(layout),
         NEW t, SomeImagesAt(t, out.order[n + 1])
  PROVE  IsSeq(ImageTransitions(t)) /\ NoPassIn(ImageTransitions(t)) /\ Truthful(ImageTransitions(t))
<1>1. /\ t \in Seq(AllImageBarriers)
      /\ \A x \in 1..Len(t) : \E r \in Resources : ImageAt(r, t[x], out.order[n + 1])
      /\ \A x, y \in 1..Len(t) : x # y => t[x].resource # t[y].resource
  BY Zenon DEF SomeImagesAt
<1>2. PICK c : c = ImageTransitions(t)
  OBVIOUS
<1>3. /\ IsSeq(c) /\ Len(c) = Len(t)
      /\ \A i \in 1..Len(t) :
           c[i] = ImageTransition(t[i], LayoutsAfter(SubSeq(t, 1, i - 1))[t[i].resource])
  BY <1>1, <1>2, ImageCommands
<1>4. \A b, f : /\ ImageTransition(b, f).op = "imageBarrier" /\ ImageTransition(b, f).found = f
                /\ ImageTransition(b, f).oldLayout = b.oldLayout
                /\ ImageTransition(b, f).resource = b.resource
  BY DEF ImageTransition
<1>5. ASSUME NEW i \in 1..Len(t)
      PROVE  /\ c[i].op # "pass"
             /\ Known(c[i].resource) => c[i].oldLayout \in {"UNDEFINED", c[i].found}
  <2>1. PICK r \in Resources : ImageAt(r, t[i], out.order[n + 1])
    BY <1>1
  <2>2. PICK k \in 1..Len(SU(r)) :
           /\ resources[r].isImage /\ t[i].resource = r
           /\ SU(r)[k].pass = out.order[n + 1] /\ NeedsBarrier(r, k)
           /\ t[i] = ImageBarrier(r, SU(r), k)
    BY <2>1, Zenon DEF ImageAt
  <2>3. Chain(r)
    BY UsesMakeChains
  <2>4. Turn(SU(r)[k]) = n + 1
    BY <2>2, <2>3, TurnOfPass
  <2>5. r \in 1..Len(layout)
    OBVIOUS
  <2>6. Known(r) => Agrees(r, n, layout[r])
    BY <2>2, <2>5, Zenon DEF ImagesAgree
  <2>7. LayoutOf(SU(r)[k].access) # "UNDEFINED"
    BY <2>2, <2>3, ChainAccesses, LayoutsTellAccesses
  <2>8. Known(r) => t[i].oldLayout \in {"UNDEFINED", layout[r]}
    BY <2>2, <2>3, <2>4, <2>6, <2>7, UseOfImage
  <2>9. LayoutsAfter(SubSeq(t, 1, i - 1))[t[i].resource] = layout[r]
    BY <1>1, <2>2, LayoutsFound
  <2>10. /\ c[i] = ImageTransition(t[i], layout[r])
         /\ "imageBarrier" # "pass"
    BY <1>3, <2>9
  <2> QED
    BY <1>4, <2>2, <2>8, <2>10
<1>6. NoPassIn(c) /\ Truthful(c)
  BY <1>3, <1>5, Zenon DEF NoPassIn, Truthful
<1> QED
  BY <1>2, <1>3, <1>6

(* The first of some barriers.                                              *)
LEMMA FirstOfThem ==
  ASSUME NEW S, NEW t \in Seq(S)
  PROVE  /\ ValidPrefix(t) \in Seq(S) /\ Len(ValidPrefix(t)) <= Len(t)
         /\ \A x \in 1..Len(ValidPrefix(t)) : ValidPrefix(t)[x] = t[x]
<1> DEFINE invalid == {i \in DOMAIN t : ~registered[t[i].resource]}
<1>1. CASE invalid = {}
  BY <1>1 DEF ValidPrefix
<1>2. CASE invalid # {}
  <2>1. invalid \in SUBSET Nat /\ invalid \subseteq 1..Len(t)
    OBVIOUS
  <2>2. ValidPrefix(t) = SubSeq(t, 1, Min(invalid) - 1)
    BY <1>2 DEF ValidPrefix
  <2> HIDE DEF invalid
  <2>3. PICK m \in 1..Len(t) : m = Min(invalid)
    BY <1>2, <2>1, MinOf
  <2>4. ValidPrefix(t) = SubSeq(t, 1, m - 1)
    BY <2>2, <2>3
  <2>5. /\ SubSeq(t, 1, m - 1) \in Seq(S) /\ Len(SubSeq(t, 1, m - 1)) = m - 1
        /\ \A x \in 1..(m - 1) : SubSeq(t, 1, m - 1)[x] = t[x]
    OBVIOUS
  <2> QED
    BY <2>4, <2>5
<1> QED
  BY <1>1, <1>2

(* A failing call records some of them.                                     *)
LEMMA SomeOfThem ==
  ASSUME NEW t, NEW p, SomeImagesAt(t, p)
  PROVE  SomeImagesAt(ValidPrefix(t), p)
<1>1. /\ t \in Seq(AllImageBarriers)
      /\ \A x \in 1..Len(t) : \E r \in Resources : ImageAt(r, t[x], p)
      /\ \A x, y \in 1..Len(t) : x # y => t[x].resource # t[y].resource
  BY Zenon DEF SomeImagesAt
<1>2. PICK v : v = ValidPrefix(t)
  OBVIOUS
<1>3. v \in Seq(AllImageBarriers) /\ Len(v) <= Len(t) /\ \A x \in 1..Len(v) : v[x] = t[x]
  BY <1>1, <1>2, FirstOfThem
<1>4. \A x \in 1..Len(v) : x \in 1..Len(t) /\ v[x] = t[x]
  BY <1>1, <1>3
<1>5. SomeImagesAt(v, p)
  BY <1>1, <1>3, <1>4, Zenon DEF SomeImagesAt
<1> QED
  BY <1>2, <1>5

(* A log has all the commands of another.                                   *)
Includes(u, s) == \A x \in 1..Len(s) : \E y \in 1..Len(u) : u[y] = s[x]

(* Joining loses no command.                                                *)
LEMMA JoinIncludes ==
  ASSUME NEW s, NEW t, IsSeq(s), IsSeq(t)
  PROVE  Includes(s \o t, s) /\ Includes(s \o t, t)
<1>1. PICK u : u = s \o t
  OBVIOUS
<1>2. Joined(u, s, t)
  BY <1>1, JoinedSeqs
<1>3. /\ Len(s) \in Nat /\ Len(t) \in Nat /\ Len(u) = Len(s) + Len(t)
      /\ \A x \in 1..Len(s) : u[x] = s[x]
      /\ \A x \in 1..Len(t) : u[Len(s) + x] = t[x]
  BY <1>2, Zenon DEF Joined
<1>4. (\A x \in 1..Len(s) : x \in 1..Len(u)) /\ \A x \in 1..Len(t) : Len(s) + x \in 1..Len(u)
  BY <1>3
<1>5. Includes(u, s) /\ Includes(u, t)
  BY <1>3, <1>4, Zenon DEF Includes
<1> QED
  BY <1>1, <1>5

(* Inclusion is transitive.                                                 *)
LEMMA IncludesAll ==
  ASSUME NEW s, NEW t, NEW u, Includes(t, s), Includes(u, t)
  PROVE  Includes(u, s)
<1>1. SUFFICES ASSUME NEW x \in 1..Len(s) PROVE \E y \in 1..Len(u) : u[y] = s[x]
  BY Zenon DEF Includes
<1>2. PICK z \in 1..Len(t) : t[z] = s[x]
  BY Zenon DEF Includes
<1>3. PICK y \in 1..Len(u) : u[y] = t[z]
  BY Zenon DEF Includes
<1> QED
  BY <1>2, <1>3, Zenon

(* What BeginGraphPass records for the pass after the first n: the barriers *)
(* its uses need, and the pass behind them.                                 *)
LogsPass(more, q, n) ==
  /\ q + 1 = Len(more) /\ more[q + 1] = PassBody(out.order[n + 1])
  /\ \A x \in 1..q : more[x].op # "pass"
  /\ \A r \in Resources : \A k \in 1..Len(SU(r)) :
       Turn(SU(r)[k]) = n + 1 /\ NeedsBarrier(r, k) => \E x \in 1..q : WaitsFor(more[x], r, k)

(* The barriers before a pass are those that its uses need.                 *)
LEMMA BarriersWait ==
  ASSUME Declared, ResultOfOrder, Conformant, graph = out,
         NEW n \in Nat, n + 1 \in 1..Len(out.order), NEW p \in Passes, p = out.order[n + 1],
         NEW r \in Resources, NEW k \in 1..Len(SU(r)), Turn(SU(r)[k]) = n + 1, NeedsBarrier(r, k)
  PROVE  \/ \E x \in 1..Len(ImageTransitions(ImagesBefore(p))) :
               WaitsFor(ImageTransitions(ImagesBefore(p))[x], r, k)
         \/ \E x \in 1..Len(BufferTransitions(BuffersBefore(p))) :
               WaitsFor(BufferTransitions(BuffersBefore(p))[x], r, k)
<1>1. Chain(r)
  BY UsesMakeChains
<1>2. SU(r)[k].pass = p
  BY <1>1, TurnOfPass
<1>0. Len(SU(r)) \in Nat
  BY <1>1 DEF Chain
<1>3. CASE resources[r].isImage
  <2>1. PICK t : t = ImagesBefore(p)
    OBVIOUS
  <2>2. ImagesAt(t, p)
    BY <2>1, ImagesBeforePass
  <2>3. t \in Seq(AllImageBarriers) /\ \E x \in 1..Len(t) : t[x] = ImageBarrier(r, SU(r), k)
    BY <1>2, <1>3, <2>2, Zenon DEF ImagesAt, SomeImagesAt
  <2>4. PICK x \in 1..Len(t) : t[x] = ImageBarrier(r, SU(r), k)
    BY <2>3
  <2>5. PICK found : /\ Len(ImageTransitions(t)) = Len(t)
                     /\ ImageTransitions(t)[x] = ImageTransition(t[x], found)
    BY <2>3, ImageCommands
  <2>6. WaitsFor(ImageTransition(ImageBarrier(r, SU(r), k), found), r, k)
    BY <1>0 DEF WaitsFor, IsBarrierOn, ImageTransition, ImageBarrier
  <2> QED
    BY <2>1, <2>4, <2>5, <2>6
<1>4. CASE ~resources[r].isImage
  <2>1. PICK t : t = BuffersBefore(p)
    OBVIOUS
  <2>2. t \in Seq(AllBufferBarriers) /\ \E x \in 1..Len(t) : t[x] = BufferBarrier(r, SU(r), k)
    BY <1>2, <1>4, <2>1, BuffersBeforePass, Zenon
  <2>3. PICK x \in 1..Len(t) : t[x] = BufferBarrier(r, SU(r), k)
    BY <2>2
  <2>4. /\ Len(BufferTransitions(t)) = Len(t)
        /\ BufferTransitions(t)[x] = BufferTransition(t[x])
    BY <2>2, BufferCommands
  <2>5. WaitsFor(BufferTransition(BufferBarrier(r, SU(r), k)), r, k)
    BY DEF WaitsFor, IsBarrierOn, BufferTransition, BufferBarrier
  <2> QED
    BY <2>1, <2>3, <2>4, <2>5
<1> QED
  BY <1>3, <1>4

(* A sequence of at most one command.                                       *)
LEMMA OneOrNone ==
  ASSUME NEW b, NEW s, s = <<b>> \/ s = <<>>
  PROVE  s \in Seq({b}) /\ \A x \in 1..Len(s) : s[x] = b
<1>1. CASE s = <<b>>
  <2>1. s \in Seq({b}) /\ Len(s) = 1 /\ s[1] = b
    BY <1>1
  <2> QED
    BY <2>1
<1>2. CASE s = <<>>
  <2>1. s \in Seq({b}) /\ Len(s) = 0
    BY <1>2
  <2> QED
    BY <2>1
<1> QED
  BY <1>1, <1>2

(* The barriers BeginGraphPass records, and the rendering it opens.         *)
LEMMA BarriersLogged ==
  ASSUME Declared, ResultOfOrder, Conformant, ImagesUsedAsImages, graph = out,
         NEW n \in Nat, n + 1 \in 1..Len(out.order), ImagesAgree(n),
         DOMAIN layout = Resources, DOMAIN layout = 1..Len(layout),
         NEW p \in Passes, p = out.order[n + 1], NEW F, F = PassBarriers(p)
  PROVE  /\ IsSeq(F) /\ NoPassIn(F) /\ Truthful(F)
         /\ \A r \in Resources : \A k \in 1..Len(SU(r)) :
              Turn(SU(r)[k]) = n + 1 /\ NeedsBarrier(r, k) => \E x \in 1..Len(F) : WaitsFor(F[x], r, k)
<1>1. PICK A, B : A = ImageTransitions(ImagesBefore(p)) /\ B = BufferTransitions(BuffersBefore(p))
  OBVIOUS
<1>2. IsSeq(A) /\ NoPassIn(A) /\ Truthful(A)
  <2>1. ImagesAt(ImagesBefore(p), p)
    BY ImagesBeforePass
  <2>2. SomeImagesAt(ImagesBefore(p), out.order[n + 1])
    BY <2>1 DEF ImagesAt
  <2> QED
    BY <1>1, <2>2, ImagesTruthful
<1>3. IsSeq(B) /\ NoPassIn(B) /\ Truthful(B)
  <2>1. BuffersBefore(p) \in Seq(AllBufferBarriers)
    BY BuffersBeforePass, Zenon
  <2> QED
    BY <1>1, <2>1, BuffersHarmless
<1>4. PICK C : C = IF AttachmentsOf(p) # {} THEN <<BeginRendering(p)>> ELSE <<>>
  OBVIOUS
<1>5. IsSeq(C) /\ NoPassIn(C) /\ Truthful(C)
  <2>0. PICK b : b = BeginRendering(p)
    OBVIOUS
  <2>1. C \in Seq({b}) /\ \A x \in 1..Len(C) : C[x] = BeginRendering(p)
    <3>1. C = <<b>> \/ C = <<>>
      BY <1>4, <2>0, Zenon
    <3> QED
      BY <2>0, <3>1, OneOrNone
  <2>2. BeginRendering(p).op # "pass" /\ BeginRendering(p).op # "imageBarrier"
    BY DEF BeginRendering
  <2>3. IsSeq(C)
    BY <2>1, Zenon DEF IsSeq
  <2> QED
    BY <2>1, <2>2, <2>3, Zenon DEF NoPassIn, Truthful
<1>6. PICK E : E = A \o B
  OBVIOUS
<1>7. F = E \o C
  BY <1>1, <1>4, <1>6 DEF PassBarriers
<1>8. IsSeq(E) /\ NoPassIn(E) /\ Truthful(E) /\ Includes(E, A) /\ Includes(E, B)
  BY <1>2, <1>3, <1>6, JoinedLogs, JoinIncludes
<1>9. IsSeq(F) /\ NoPassIn(F) /\ Truthful(F) /\ Includes(F, E)
  BY <1>5, <1>7, <1>8, JoinedLogs, JoinIncludes
<1>10. ASSUME NEW r \in Resources, NEW k \in 1..Len(SU(r)), Turn(SU(r)[k]) = n + 1, NeedsBarrier(r, k)
       PROVE  \E x \in 1..Len(F) : WaitsFor(F[x], r, k)
  <2>1. (\E x \in 1..Len(A) : WaitsFor(A[x], r, k)) \/ (\E x \in 1..Len(B) : WaitsFor(B[x], r, k))
    BY <1>1, <1>10, BarriersWait
  <2>2. PICK e \in 1..Len(E) : WaitsFor(E[e], r, k)
    BY <1>8, <2>1, Zenon DEF Includes
  <2> QED
    BY <1>9, <2>2, Zenon DEF Includes
<1> QED
  BY <1>9, <1>10

(* The transitions of uploads start from the layouts that are tracked.      *)
LEMMA UploadsHarmless ==
  ASSUME NEW t, IsSeq(t), NEW layouts
  PROVE  /\ IsSeq(UploadTransitions(t, layouts)) /\ NoPassIn(UploadTransitions(t, layouts))
         /\ Truthful(UploadTransitions(t, layouts))
<1>1. PICK n \in Nat : n = Len(t) /\ DOMAIN t = 1..n
  <2>1. PICK S : t \in Seq(S)
    BY Zenon DEF IsSeq
  <2> QED
    BY <2>1
<1> DEFINE G(i) == UploadTransition(t[i], layouts[t[i]])
           R == {G(i) : i \in 1..n}
<1>2. PICK u : u = UploadTransitions(t, layouts)
  OBVIOUS
<1>3. u = [i \in 1..n |-> G(i)]
  BY <1>1, <1>2 DEF UploadTransitions
<1>4. \A i : G(i).op = "imageBarrier" /\ G(i).oldLayout = G(i).found
  BY DEF UploadTransition
<1> HIDE DEF G
<1>5. u \in Seq(R) /\ Len(u) = n /\ \A i \in 1..n : u[i] = G(i)
  BY <1>3
<1>6. IsSeq(u)
  BY <1>5, Zenon DEF IsSeq
<1>7. ASSUME NEW i \in 1..Len(u) PROVE u[i].op # "pass" /\ u[i].oldLayout \in {"UNDEFINED", u[i].found}
  BY <1>4, <1>5
<1>8. NoPassIn(u) /\ Truthful(u)
  BY <1>7, Zenon DEF NoPassIn, Truthful
<1> QED
  BY <1>2, <1>6, <1>8

(* The textures a pass uploads, in the scene's order.                       *)
LEMMA UploadsAreSeq ==
  ASSUME Declared, NEW p
  PROVE  IsSeq(UploadOrder(p)) /\ \A n \in 0..Len(UploadOrder(p)) : IsSeq(SubSeq(UploadOrder(p), 1, n))
<1> DEFINE id == [r \in Resources |-> r]
<1>1. PICK m \in Nat : Resources = 1..m
  BY DeclaredTypes DEF Declared
<1>2. id \in Seq(1..m)
  BY <1>1
<1>3. PICK t : t = UploadOrder(p)
  OBVIOUS
<1> HIDE DEF id
<1>4. t = Picked(id, TexturesUploaded(p))
  BY <1>3 DEF UploadOrder, id
<1>5. t \in Seq(1..m)
  BY <1>2, <1>4, PickedPicks
<1>6. \A n \in 0..Len(t) : SubSeq(t, 1, n) \in Seq(1..m)
  BY <1>5
<1>7. IsSeq(t) /\ \A n \in 0..Len(t) : IsSeq(SubSeq(t, 1, n))
  BY <1>5, <1>6, Zenon DEF IsSeq
<1> QED
  BY <1>3, <1>7

(* The barriers of a pass and its uploads are recorded, then the pass.      *)
LEMMA PassIsLogged ==
  ASSUME Declared, ResultOfOrder, Conformant, ImagesUsedAsImages, graph = out,
         NEW n \in Nat, n + 1 \in 1..Len(out.order), ImagesAgree(n),
         DOMAIN layout = Resources, DOMAIN layout = 1..Len(layout),
         NEW p \in Passes, p = out.order[n + 1]
  PROVE  /\ IsSeq(PassCommands(p)) /\ Truthful(PassCommands(p))
         /\ \E q \in Nat : LogsPass(PassCommands(p), q, n)
<1>1. PICK A : A = PassBarriers(p)
  OBVIOUS
<1>2. /\ IsSeq(A) /\ NoPassIn(A) /\ Truthful(A)
      /\ \A r \in Resources : \A k \in 1..Len(SU(r)) :
           Turn(SU(r)[k]) = n + 1 /\ NeedsBarrier(r, k) => \E x \in 1..Len(A) : WaitsFor(A[x], r, k)
  BY <1>1, BarriersLogged
<1>3. PICK U : U = UploadTransitions(UploadOrder(p), LayoutsAfter(ImagesBefore(p)))
  OBVIOUS
<1>4. IsSeq(U) /\ NoPassIn(U) /\ Truthful(U)
  BY <1>3, UploadsAreSeq, UploadsHarmless
<1>6. PICK D : D = <<PassBody(p)>>
  OBVIOUS
<1>7. IsSeq(D) /\ Len(D) = 1 /\ D[1] = PassBody(p) /\ Truthful(D)
  <2>1. D \in Seq({PassBody(p)}) /\ Len(D) = 1 /\ D[1] = PassBody(p)
    BY <1>6
  <2>2. PassBody(p).op # "imageBarrier"
    BY DEF PassBody
  <2>3. \A x \in 1..Len(D) : D[x] = PassBody(p)
    BY <2>1
  <2>4. IsSeq(D)
    BY <2>1, Zenon DEF IsSeq
  <2> QED
    BY <2>1, <2>2, <2>3, <2>4, Zenon DEF Truthful
<1>8. PICK F : F = A \o U
  OBVIOUS
<1>9. PICK G : G = F \o D
  OBVIOUS
<1>10. PassCommands(p) = G
  BY <1>1, <1>3, <1>6, <1>8, <1>9 DEF PassCommands
<1>12. IsSeq(F) /\ NoPassIn(F) /\ Truthful(F) /\ Includes(F, A)
  BY <1>2, <1>4, <1>8, JoinedLogs, JoinIncludes
<1>13. IsSeq(G) /\ Truthful(G) /\ Joined(G, F, D)
  BY <1>7, <1>9, <1>12, JoinedLogs, JoinedSeqs
<1>14. PICK q \in Nat : q = Len(F)
  BY <1>13, Zenon DEF Joined
<1>15. q + 1 = Len(G) /\ G[q + 1] = PassBody(out.order[n + 1]) /\ \A x \in 1..q : G[x] = F[x]
  <2>1. /\ Len(G) = Len(F) + Len(D) /\ \A x \in 1..Len(F) : G[x] = F[x]
        /\ \A x \in 1..Len(D) : G[Len(F) + x] = D[x]
    BY <1>13, Zenon DEF Joined
  <2>2. 1 \in 1..Len(D)
    BY <1>7
  <2> QED
    BY <1>7, <1>14, <2>1, <2>2
<1>16. \A x \in 1..q : G[x].op # "pass"
  BY <1>12, <1>14, <1>15, Zenon DEF NoPassIn
<1>17. ASSUME NEW r \in Resources, NEW k \in 1..Len(SU(r)), Turn(SU(r)[k]) = n + 1, NeedsBarrier(r, k)
       PROVE  \E x \in 1..q : WaitsFor(G[x], r, k)
  <2>1. PICK a \in 1..Len(A) : WaitsFor(A[a], r, k)
    BY <1>2, <1>17, Zenon
  <2>2. PICK f \in 1..Len(F) : WaitsFor(F[f], r, k)
    BY <1>12, <2>1, Zenon DEF Includes
  <2> QED
    BY <1>14, <1>15, <2>2, Zenon
<1>18. LogsPass(G, q, n)
  BY <1>15, <1>16, <1>17, Zenon DEF LogsPass
<1> QED
  BY <1>10, <1>13, <1>18, Zenon

(* The images after the uploads of a pass.                                  *)
LayoutsLeft(p) == LayoutsUploaded(TexturesUploaded(p), LayoutsAfter(ImagesBefore(p)))

(* A pass uploads an image when one of the image's surviving uses is that.  *)
LEMMA UploadIsUse ==
  ASSUME Declared, ResultOfOrder, NEW n \in 1..Len(out.order), NEW p, p = out.order[n],
         NEW r \in Resources, resources[r].isImage, Chain(r)
  PROVE  r \in TexturesUploaded(p) <=>
            \E k \in 1..Len(SU(r)) : Turn(SU(r)[k]) = n /\ SU(r)[k].access = "TRANSFER_WRITE"
<1>1. Survives(p)
  BY ResultType, Zenon
<1>2. \A k \in 1..Len(SU(r)) : SU(r)[k].pass = p <=> Turn(SU(r)[k]) = n
  BY TurnOfPass
<1>3. r \in TexturesUploaded(p) <=>
         \E u \in DOMAIN Uses(r) : Uses(r)[u].pass = p /\ Uses(r)[u].access = "TRANSFER_WRITE"
  BY DEF TexturesUploaded, UploadsTo
<1>4. ASSUME NEW u \in DOMAIN Uses(r), Uses(r)[u].pass = p, Uses(r)[u].access = "TRANSFER_WRITE"
      PROVE  \E k \in 1..Len(SU(r)) : Turn(SU(r)[k]) = n /\ SU(r)[k].access = "TRANSFER_WRITE"
  <2>1. PICK k \in 1..Len(SU(r)) : SU(r)[k] = Uses(r)[u]
    BY <1>1, <1>4, Zenon DEF Chain
  <2> QED
    BY <1>2, <1>4, <2>1
<1>5. ASSUME NEW k \in 1..Len(SU(r)), Turn(SU(r)[k]) = n, SU(r)[k].access = "TRANSFER_WRITE"
      PROVE  \E u \in DOMAIN Uses(r) : Uses(r)[u].pass = p /\ Uses(r)[u].access = "TRANSFER_WRITE"
  <2>1. PICK u \in DOMAIN Uses(r) : SU(r)[k] = Uses(r)[u]
    BY Zenon DEF Chain
  <2> QED
    BY <1>2, <1>5, <2>1
<1> QED
  BY <1>3, <1>4, <1>5, Zenon

(* The pass finds its images in the layouts its accesses need.              *)
LEMMA LayoutStep ==
  ASSUME Declared, ResultOfOrder, Conformant, ImagesUsedAsImages, graph = out,
         NEW n \in Nat, n + 1 \in 1..Len(out.order), ImagesAgree(n),
         DOMAIN layout = Resources, DOMAIN layout = 1..Len(layout),
         NEW p \in Passes, p = out.order[n + 1],
         NEW r \in Resources, resources[r].isImage, Known(r)
  PROVE  Agrees(r, n + 1, LayoutsLeft(p)[r])
<1>1. PICK t : t = ImagesBefore(p)
  OBVIOUS
<1>2. Chain(r)
  BY UsesMakeChains
<1>3. ImagesAt(t, p)
  BY <1>1, ImagesBeforePass
<1>4. /\ t \in Seq(AllImageBarriers)
      /\ \A x \in 1..Len(t) : \E s \in Resources : ImageAt(s, t[x], p)
      /\ \A x, y \in 1..Len(t) : x # y => t[x].resource # t[y].resource
  BY <1>3, Zenon DEF ImagesAt, SomeImagesAt
<1>5. \A k \in 1..Len(SU(r)) : SU(r)[k].pass = p /\ NeedsBarrier(r, k) =>
          \E x \in 1..Len(t) : t[x] = ImageBarrier(r, SU(r), k)
  BY <1>3, Zenon DEF ImagesAt
<1>6. /\ (\A x \in 1..Len(t) : t[x].resource # r) => LayoutsAfter(t)[r] = layout[r]
      /\ \A x \in 1..Len(t) : t[x].resource = r => LayoutsAfter(t)[r] = t[x].newLayout
  BY <1>4, LayoutsReached
<1>7. Agrees(r, n, layout[r])
  BY Zenon DEF ImagesAgree
<1>8. \A k \in 1..Len(SU(r)) : Turn(SU(r)[k]) = n + 1 <=> SU(r)[k].pass = p
  BY <1>2, TurnOfPass
<1>9. ASSUME NEW x \in 1..Len(t), t[x].resource = r
      PROVE  \E k \in 1..Len(SU(r)) : /\ Turn(SU(r)[k]) = n + 1
                                      /\ LayoutsAfter(t)[r] = LayoutOf(SU(r)[k].access)
  <2>1. PICK s \in Resources : ImageAt(s, t[x], p)
    BY <1>4
  <2>2. s = r
    BY <1>9, <2>1 DEF ImageAt
  <2>3. PICK k \in 1..Len(SU(r)) : SU(r)[k].pass = p /\ t[x] = ImageBarrier(r, SU(r), k)
    BY <2>1, <2>2, Zenon DEF ImageAt
  <2>4. t[x].newLayout = LayoutOf(SU(r)[k].access)
    BY <2>3 DEF ImageBarrier
  <2>5. LayoutsAfter(t)[r] = LayoutOf(SU(r)[k].access) /\ Turn(SU(r)[k]) = n + 1
    BY <1>6, <1>8, <1>9, <2>3, <2>4
  <2> QED
    BY <2>5
<1>a. LayoutsLeft(p)[r] =
         IF r \in TexturesUploaded(p) THEN "TRANSFER_DST_OPTIMAL" ELSE LayoutsAfter(t)[r]
  <2>1. DOMAIN LayoutsAfter(t) = DOMAIN layout
    BY DEF LayoutsAfter
  <2> QED
    BY <1>1, <2>1 DEF LayoutsLeft, LayoutsUploaded
<1>b. r \in TexturesUploaded(p) <=>
         \E k \in 1..Len(SU(r)) : Turn(SU(r)[k]) = n + 1 /\ SU(r)[k].access = "TRANSFER_WRITE"
  BY <1>2, UploadIsUse
<1>10. ASSUME NEW k \in 1..Len(SU(r)), Turn(SU(r)[k]) = n + 1
       PROVE  Agrees(r, n + 1, LayoutsLeft(p)[r])
  <2>1. LayoutOf(SU(r)[k].access) # "UNDEFINED"
    BY <1>2, ChainAccesses, LayoutsTellAccesses
  <2>2. /\ ~NeedsBarrier(r, k) =>
             LayoutOf(SU(r)[k].access) = layout[r] \/ SU(r)[k].access = "TRANSFER_WRITE"
        /\ Agrees(r, n + 1, LayoutOf(SU(r)[k].access))
    BY <1>2, <1>7, <1>10, <2>1, UseOfImage
  <2>3. \A l \in 1..Len(SU(r)) : Turn(SU(r)[l]) = n + 1 => l = k
    BY <1>2, <1>8, <1>10, ChainApart
  <2>4. CASE SU(r)[k].access = "TRANSFER_WRITE"
    <3>1. LayoutOf(SU(r)[k].access) = "TRANSFER_DST_OPTIMAL"
      BY <2>4 DEF LayoutOf
    <3>2. r \in TexturesUploaded(p)
      BY <1>10, <1>b, <2>4
    <3> QED
      BY <1>a, <2>2, <3>1, <3>2
  <2>5. CASE SU(r)[k].access # "TRANSFER_WRITE"
    <3>1. r \notin TexturesUploaded(p)
      BY <1>b, <2>3, <2>5
    <3>2. LayoutsAfter(t)[r] = LayoutOf(SU(r)[k].access)
      <4>1. CASE \E x \in 1..Len(t) : t[x].resource = r
        BY <1>9, <2>3, <4>1
      <4>2. CASE \A x \in 1..Len(t) : t[x].resource # r
        <5>1. ImageBarrier(r, SU(r), k).resource = r
          BY DEF ImageBarrier
        <5>2. ~NeedsBarrier(r, k)
          BY <1>5, <1>8, <1>10, <4>2, <5>1
        <5> QED
          BY <1>6, <2>2, <2>5, <4>2, <5>2
      <4> QED
        BY <4>1, <4>2, Zenon
    <3> QED
      BY <1>a, <2>2, <3>1, <3>2
  <2> QED
    BY <2>4, <2>5
<1>11. CASE \A k \in 1..Len(SU(r)) : Turn(SU(r)[k]) # n + 1
  <2>1. \A x \in 1..Len(t) : t[x].resource # r
    BY <1>9, <1>11
  <2>2. Agrees(r, n + 1, layout[r])
    BY <1>2, <1>7, <1>11, NoUseOfImage
  <2>3. r \notin TexturesUploaded(p)
    BY <1>11, <1>b
  <2> QED
    BY <1>6, <1>a, <2>1, <2>2, <2>3
<1> QED
  BY <1>10, <1>11

-----------------------------------------------------------------------------
(* Images stay used as images.                                             *)

(* A changed resource keeps being used as what it is.                       *)
LEMMA ImageKept ==
  ASSUME Declared, ImagesUsedAsImages, NEW r \in Resources, NEW new,
         resources' = [resources EXCEPT ![r] = new], new.isImage = resources[r].isImage,
         new.isImage => \A u \in DOMAIN new.uses : new.uses[u].access \in ImageAccesses
  PROVE  ImagesUsedAsImages'
<1>1. resources \in Seq(ResourceRecords)
  BY Zenon DEF Declared
<1>2. /\ Resources' = Resources
      /\ resources'[r] = new /\ \A s \in Resources : s # r => resources'[s] = resources[s]
  BY <1>1 DEF Resources
<1>3. ASSUME NEW s \in Resources, resources'[s].isImage, NEW u \in DOMAIN Uses(s)'
      PROVE  Uses(s)'[u].access \in ImageAccesses
  <2>1. CASE s = r
    BY <1>2, <1>3, <2>1 DEF Uses
  <2>2. CASE s # r
    <3>1. Uses(s)' = Uses(s) /\ resources[s].isImage
      BY <1>2, <1>3, <2>2 DEF Uses
    <3> QED
      BY <1>3, <3>1 DEF ImagesUsedAsImages
  <2> QED
    BY <2>1, <2>2
<1> QED
  BY <1>2, <1>3 DEF ImagesUsedAsImages, ImageAccesses

(* A new resource has no uses.                                              *)
LEMMA ImageAdded ==
  ASSUME Declared, ImagesUsedAsImages, NEW new, new.uses = <<>>,
         new \in ResourceRecords, resources' = Append(resources, new)
  PROVE  ImagesUsedAsImages'
<1>1. resources \in Seq(ResourceRecords)
  BY Zenon DEF Declared
<1>3. ASSUME NEW s \in Resources', resources'[s].isImage, NEW u \in DOMAIN Uses(s)'
      PROVE  Uses(s)'[u].access \in ImageAccesses
  <2>1. CASE s \in Resources
    <3>1. Uses(s)' = Uses(s) /\ resources[s].isImage
      BY <1>1, <1>3, <2>1 DEF Uses, Resources
    <3> QED
      BY <1>3, <2>1, <3>1 DEF ImagesUsedAsImages
  <2>2. CASE s \notin Resources
    <3>1. resources'[s] = new
      BY <1>1, <2>2 DEF Resources
    <3>2. Uses(s)' = <<>>
      BY <3>1 DEF Uses
    <3> QED
      BY <1>3, <3>2
  <2> QED
    BY <2>1, <2>2
<1> QED
  BY <1>3 DEF ImagesUsedAsImages, ImageAccesses

(* A declared use is one the kind of its resource has.                      *)
LEMMA UseKept ==
  ASSUME Declared, ImagesUsedAsImages, NEW isImage \in BOOLEAN, NEW isRead, NEW accesses,
         isImage => accesses \subseteq ImageAccesses,
         DeclareUse(isImage, isRead, accesses)
  PROVE  ImagesUsedAsImages'
<1>1. PICK p \in Passes, r \in Resources, access \in accesses :
         /\ resources[r].isImage = isImage
         /\ resources' = [resources EXCEPT ![r].uses =
                Append(@, [pass |-> p, isRead |-> isRead, access |-> access, loadOp |-> "LOAD"])]
  BY DEF DeclareUse
<1> DEFINE use == [pass |-> p, isRead |-> isRead, access |-> access, loadOp |-> "LOAD"]
           new == [resources[r] EXCEPT !.uses = Append(Uses(r), use)]
<1>2. resources[r] \in ResourceRecords /\ Uses(r) \in Seq(UseRecords) /\ DOMAIN Uses(r) = 1..Len(Uses(r))
  BY DeclaredTypes
<1>3. use.access = access
  OBVIOUS
<1>4. resources' = [resources EXCEPT ![r] = new]
  BY <1>1 DEF Uses
<1> HIDE DEF use
<1>5. new.isImage = resources[r].isImage /\ new.uses = Append(Uses(r), use)
  BY <1>2 DEF ResourceRecords
<1> HIDE DEF new
<1>6. ASSUME new.isImage, NEW u \in DOMAIN new.uses PROVE new.uses[u].access \in ImageAccesses
  <2>1. resources[r].isImage /\ isImage
    BY <1>1, <1>5, <1>6
  <2>2. CASE u \in DOMAIN Uses(r)
    <3>1. new.uses[u] = Uses(r)[u]
      BY <1>2, <1>5, <2>2
    <3> QED
      BY <2>1, <2>2, <3>1 DEF ImagesUsedAsImages
  <2>3. CASE u \notin DOMAIN Uses(r)
    <3>1. new.uses[u] = use
      BY <1>2, <1>5, <1>6, <2>3
    <3> QED
      BY <1>3, <2>1, <3>1
  <2> QED
    BY <2>2, <2>3
<1> QED
  BY <1>4, <1>5, <1>6, ImageKept

(* No step of the declarations mixes the kinds.                             *)
LEMMA ImagesStayImages ==
  ASSUME Declared, ImagesUsedAsImages, [GraphNext]_graphVars
  PROVE  ImagesUsedAsImages'
<1>1. CASE AddImage
  <2>1. PICK l \in InitialLayouts :
          resources' = Append(resources, [isImage |-> TRUE, initialLayout |-> l,
                                          presented |-> FALSE, uses |-> <<>>])
    BY <1>1 DEF AddImage
  <2> DEFINE new == [isImage |-> TRUE, initialLayout |-> l, presented |-> FALSE, uses |-> <<>>]
  <2>2. new \in ResourceRecords /\ new.uses = <<>>
    BY DEF ResourceRecords
  <2> QED
    BY <2>1, <2>2, ImageAdded
<1>2. CASE AddBuffer
  <2> DEFINE new == [isImage |-> FALSE, initialLayout |-> "UNDEFINED",
                     presented |-> FALSE, uses |-> <<>>]
  <2>1. resources' = Append(resources, new)
    BY <1>2 DEF AddBuffer
  <2>2. new \in ResourceRecords /\ new.uses = <<>>
    BY DEF ResourceRecords
  <2> QED
    BY <2>1, <2>2, ImageAdded
<1>3. CASE UNCHANGED resources
  BY <1>3 DEF ImagesUsedAsImages, Resources, Uses, ImageAccesses
<1>4. CASE PassReadsImage \/ PassWritesImage
  <2>1. PICK isRead \in BOOLEAN, accesses \in {ImageReads, ImageWrites} : DeclareUse(TRUE, isRead, accesses)
    BY <1>4 DEF PassReadsImage, PassWritesImage
  <2>2. accesses \subseteq ImageAccesses
    BY DEF ImageAccesses
  <2> QED
    BY <2>1, <2>2, UseKept
<1>5. CASE PassReadsBuffer \/ PassWritesBuffer
  <2>1. PICK isRead, accesses : DeclareUse(FALSE, isRead, accesses)
    BY <1>5 DEF PassReadsBuffer, PassWritesBuffer
  <2> QED
    BY <2>1, UseKept
<1>6. CASE SetAttachmentClear
  <2>0. PICK r \in Resources :
          \E m : resources' = [resources EXCEPT ![r].uses[m].loadOp = "CLEAR"]
    BY <1>6 DEF SetAttachmentClear
  <2>1. PICK m : resources' = [resources EXCEPT ![r].uses[m].loadOp = "CLEAR"]
    BY <2>0
  <2> DEFINE use == [Uses(r)[m] EXCEPT !.loadOp = "CLEAR"]
             uses == [Uses(r) EXCEPT ![m] = use]
             new == [resources[r] EXCEPT !.uses = uses]
  <2>2. /\ resources[r] \in ResourceRecords /\ Uses(r) \in Seq(UseRecords)
        /\ \A u \in DOMAIN Uses(r) : Uses(r)[u] \in UseRecords
    BY DeclaredTypes
  <2>3. resources' = [resources EXCEPT ![r] = new]
    BY <2>1 DEF Uses
  <2>4. m \in DOMAIN Uses(r) => use.access = Uses(r)[m].access
    BY <2>2 DEF UseRecords
  <2> HIDE DEF use
  <2>5. DOMAIN uses = DOMAIN Uses(r) /\ \A u \in DOMAIN uses : uses[u].access = Uses(r)[u].access
    BY <2>4
  <2> HIDE DEF uses
  <2>6. new.isImage = resources[r].isImage /\ new.uses = uses
    BY <2>2 DEF ResourceRecords
  <2> HIDE DEF new
  <2>7. new.isImage => \A u \in DOMAIN new.uses : new.uses[u].access \in ImageAccesses
    BY <2>5, <2>6 DEF ImagesUsedAsImages
  <2> QED
    BY <2>3, <2>6, <2>7, ImageKept
<1>7. CASE MarkPresented
  <2>1. PICK r \in Resources : resources' = [resources EXCEPT ![r].presented = TRUE]
    BY <1>7 DEF MarkPresented
  <2> DEFINE new == [resources[r] EXCEPT !.presented = TRUE]
  <2>2. resources[r] \in ResourceRecords
    BY DeclaredTypes
  <2>3. new.isImage = resources[r].isImage /\ new.uses = Uses(r)
    BY <2>2 DEF ResourceRecords, Uses
  <2>4. resources' = [resources EXCEPT ![r] = new]
    BY <2>1
  <2> HIDE DEF new
  <2>5. new.isImage => \A u \in DOMAIN new.uses : new.uses[u].access \in ImageAccesses
    BY <2>3 DEF ImagesUsedAsImages
  <2> QED
    BY <2>3, <2>4, <2>5, ImageKept
<1>8. CASE AddPass \/ MarkPassCullable \/ Compile \/ UNCHANGED graphVars
  BY <1>3, <1>8 DEF AddPass, MarkPassCullable, Compile, CompileFails, CompileFindsCycle,
                    CompileSucceeds, graphVars
<1> QED
  BY <1>1, <1>2, <1>4, <1>5, <1>6, <1>7, <1>8 DEF GraphNext, Declare

-----------------------------------------------------------------------------
(* The recorder's invariant.                                               *)

NotYet == scene \in {"declaring", "begun"}

(* What has happened at each point of the scene's frame.                    *)
Sequencing ==
  /\ scene \in {"declaring", "begun", "registering", "recorded", "presented", "exited"}
  /\ NotYet => /\ commands = <<>> /\ recorded = 0 /\ activePass = NoPass
               /\ registered = <<>> /\ layout = <<>>
  /\ scene = "begun" => status = "compiled"
  /\ ~NotYet => graph = out /\ status = "compiled"
  /\ scene \in {"recorded", "presented"} => activePass = NoPass
  /\ recorded \in Nat
  /\ scene \in {"registering", "recorded"} =>
        /\ IsSeq(registered) /\ IsSeq(layout)
        /\ Len(layout) = Len(registered) /\ Len(registered) <= Len(resources)
        /\ recorded > 0 => Len(registered) = Len(resources)
  /\ scene = "recorded" => Len(registered) = Len(resources) /\ recorded = Len(ExecutionOrder)

(* What the recorded passes have done to the images and put into the        *)
(* command buffer.                                                          *)
Tracked ==
  /\ recorded <= Len(out.order)
  /\ scene = "registering" /\ activePass # NoPass =>
        recorded >= 1 /\ activePass = out.order[recorded]
  /\ scene \in {"registering", "recorded"} => ImagesAgree(recorded)
  /\ IsSeq(commands) /\ Truthful(commands)
  /\ \E at : Logged(commands, at, recorded)

RecInv ==
  /\ GraphInv /\ ImagesUsedAsImages /\ Sequencing
  /\ ~NotYet /\ InOrder => Tracked

(* A sequence that grows by one element.                                    *)
LEMMA AppendedSeq ==
  ASSUME NEW s, NEW x, IsSeq(s), NEW t, t = Append(s, x)
  PROVE  /\ IsSeq(t) /\ Len(s) \in Nat /\ Len(t) = Len(s) + 1 /\ t[Len(s) + 1] = x
         /\ \A i \in 1..Len(s) : t[i] = s[i]
<1>1. PICK S : s \in Seq(S)
  BY Zenon DEF IsSeq
<1> DEFINE T == S \cup {x}
<1>2. s \in Seq(T) /\ x \in T
  BY <1>1
<1> HIDE DEF T
<1>3. /\ t \in Seq(T) /\ Len(s) \in Nat /\ Len(t) = Len(s) + 1 /\ t[Len(s) + 1] = x
      /\ \A i \in 1..Len(s) : t[i] = s[i]
  BY <1>2
<1>4. IsSeq(t)
  BY <1>3, Zenon DEF IsSeq
<1> QED
  BY <1>3, <1>4

(* The domain of a sequence.                                                *)
LEMMA SeqDomain ==
  ASSUME NEW s, IsSeq(s)
  PROVE  Len(s) \in Nat /\ DOMAIN s = 1..Len(s)
<1>1. PICK S : s \in Seq(S)
  BY Zenon DEF IsSeq
<1> QED
  BY <1>1

(* The empty sequence.                                                      *)
LEMMA EmptyIsSeq == IsSeq(<<>>)
<1>1. <<>> \in Seq({})
  OBVIOUS
<1> QED
  BY <1>1, Zenon DEF IsSeq

(* The layouts stay a sequence.                                             *)
LEMMA LayoutsStaySeq ==
  ASSUME IsSeq(layout), NEW t
  PROVE  IsSeq(LayoutsAfter(t)) /\ Len(LayoutsAfter(t)) = Len(layout)
<1>1. PICK n \in Nat : n = Len(layout) /\ DOMAIN layout = 1..n
  BY SeqDomain
<1> DEFINE F(r) == LET on == {i \in DOMAIN t : t[i].resource = r}
                   IN  IF on = {} THEN layout[r] ELSE t[Max(on)].newLayout
           R == {F(r) : r \in 1..n}
<1>2. LayoutsAfter(t) = [r \in 1..n |-> F(r)]
  BY <1>1 DEF LayoutsAfter
<1> HIDE DEF F
<1>3. LayoutsAfter(t) \in Seq(R) /\ Len(LayoutsAfter(t)) = n
  BY <1>2
<1> QED
  BY <1>1, <1>3, Zenon DEF IsSeq

(* So do they behind the uploads.                                           *)
LEMMA LayoutsLeftSeq ==
  ASSUME IsSeq(layout), NEW p
  PROVE  IsSeq(LayoutsLeft(p)) /\ Len(LayoutsLeft(p)) = Len(layout)
<1>1. PICK A : A = LayoutsAfter(ImagesBefore(p))
  OBVIOUS
<1>2. PICK n \in Nat : n = Len(layout) /\ n = Len(A) /\ DOMAIN A = 1..n
  BY <1>1, LayoutsStaySeq, SeqDomain
<1> DEFINE F(r) == IF r \in TexturesUploaded(p) THEN "TRANSFER_DST_OPTIMAL" ELSE A[r]
           R == {F(r) : r \in 1..n}
<1>3. LayoutsLeft(p) = [r \in 1..n |-> F(r)]
  BY <1>1, <1>2 DEF LayoutsLeft, LayoutsUploaded
<1> HIDE DEF F
<1>4. LayoutsLeft(p) \in Seq(R) /\ Len(LayoutsLeft(p)) = n
  BY <1>3
<1> QED
  BY <1>2, <1>4, Zenon DEF IsSeq

-----------------------------------------------------------------------------
(* The graph does not change while it is recorded.                         *)

(* The declarations and the result stay.                                    *)
LEMMA SameChains ==
  ASSUME UNCHANGED graphVars
  PROVE  /\ passes' = passes /\ resources' = resources /\ status' = status /\ out' = out
         /\ Resources' = Resources /\ (\A r : Uses(r)' = Uses(r)) /\ Conformant' = Conformant
         /\ Survivors' = Survivors
<1>0. UNCHANGED <<passes, resources, status, out>>
  BY DEF graphVars
<1>1. passes' = passes /\ resources' = resources /\ status' = status /\ out' = out
  BY <1>0
<1>2. Survivors' = Survivors
  BY <1>0, SameDeclarations
<1>3. Resources' = Resources /\ \A r : Uses(r)' = Uses(r)
  BY <1>1 DEF Resources, Uses
<1>4. Conformant' = Conformant
  BY <1>1 DEF Conformant, NoConsecutiveReads, DeclaredInOrder, Resources, Uses, IsWrite
<1> QED
  BY <1>1, <1>2, <1>3, <1>4

(* So do the chains and the barriers they need.                             *)
LEMMA SameUses ==
  ASSUME UNCHANGED graphVars
  PROVE  /\ \A r : SU(r)' = SU(r)
         /\ \A use : Turn(use)' = Turn(use)
         /\ \A r, k : NeedsBarrier(r, k)' = NeedsBarrier(r, k)
<1>1. /\ passes' = passes /\ resources' = resources /\ out' = out
      /\ (\A r : Uses(r)' = Uses(r)) /\ Survivors' = Survivors
  BY SameChains
<1>2. \A r : SU(r)' = SU(r)
  BY <1>1 DEF SU, SurvivingUses
<1>3. \A use : Turn(use)' = Turn(use)
  BY <1>1 DEF Turn, OrderIndex
<1>4. ASSUME NEW r, NEW k PROVE NeedsBarrier(r, k)' = NeedsBarrier(r, k)
  BY <1>1, <1>2 DEF NeedsBarrier, NeedsImageBarrier, NeedsBufferBarrier
<1> QED
  BY <1>2, <1>3, <1>4

(* So does the order in which the scene goes through the passes.            *)
LEMMA SameOrder ==
  ASSUME UNCHANGED graphVars, UNCHANGED graph
  PROVE  ExecutionOrder' = ExecutionOrder /\ InOrder' = InOrder
<1>1. passes' = passes /\ graph' = graph /\ Conformant' = Conformant
  BY SameChains
<1>2. ExecutionOrder' = ExecutionOrder
  BY <1>1 DEF ExecutionOrder, Picked, Passes
<1> QED
  BY <1>1, <1>2 DEF InOrder

(* What holds of the graph now, with the next layouts and commands.         *)
LEMMA AgreesNext ==
  ASSUME UNCHANGED graphVars, NEW CONSTANT r, NEW CONSTANT n, NEW CONSTANT L,
         Agrees(r, n, L), n = recorded', L = layout'[r]
  PROVE  Agrees(r, recorded, layout[r])'
<1>1. SU(r)' = SU(r) /\ (\A use : Turn(use)' = Turn(use)) /\ resources' = resources
  BY SameUses, SameChains
<1> QED
  BY <1>1 DEF Agrees, FilledFirst

(* The declarations keep saying where the textures are.                     *)
LEMMA KnownNext ==
  ASSUME UNCHANGED graphVars, UNCHANGED atStart
  PROVE  \A r : Known(r)' = Known(r)
<1>1. (\A r : SU(r)' = SU(r)) /\ resources' = resources /\ atStart' = atStart
  BY SameUses, SameChains
<1> QED
  BY <1>1 DEF Known, FilledFirst

(* The same for the command buffer.                                         *)
LEMMA LoggedNext ==
  ASSUME UNCHANGED graphVars, NEW CONSTANT log, NEW CONSTANT at, NEW CONSTANT n,
         Logged(log, at, n), log = commands', n = recorded'
  PROVE  Logged(commands, at, recorded)'
<1>1. /\ \A r : SU(r)' = SU(r)
      /\ \A use : Turn(use)' = Turn(use)
      /\ \A r, k : NeedsBarrier(r, k)' = NeedsBarrier(r, k)
      /\ Resources' = Resources /\ out' = out
  BY SameUses, SameChains
<1>2. \A r, k : BarrierLogged(log, at, n, r, k) => BarrierLogged(commands, at, recorded, r, k)'
  BY <1>1 DEF BarrierLogged, WaitsFor
<1> QED
  BY <1>1, <1>2 DEF Logged, PassBody

-----------------------------------------------------------------------------
(* The steps of the recorder.                                              *)

(* A scene that has not begun its frame.                                    *)
LEMMA RecorderStarts == Init => RecInv
<1>1. SUFFICES ASSUME Init PROVE RecInv
  OBVIOUS
<1>2. GraphInv
  BY <1>1, GraphStarts DEF Init
<1>3. ImagesUsedAsImages
  BY <1>1 DEF Init, GraphInit, ImagesUsedAsImages, Resources
<1>4. NotYet /\ Sequencing
  BY <1>1 DEF Init, NotYet, Sequencing
<1> QED
  BY <1>2, <1>3, <1>4 DEF RecInv

(* The steps after the declaring ones leave the graph alone.                *)
Recording ==
  \/ BeginGraphFrame \/ SetGraphResult
  \/ \E r \in 1 .. MaxResources : RegisterGraphTexture(r) \/ RegisterGraphBuffer(r)
  \/ \E p \in 1 .. MaxPasses : BeginGraphPass(p) \/ BeginGraphPassFails(p) \/ UploadFails(p)
  \/ EndGraphPass \/ EndGraphFrame \/ PresentFrame

(* Each of them does.                                                       *)
LEMMA RecordingLeavesGraph == Recording => UNCHANGED graphVars
BY DEF Recording, BeginGraphFrame, SetGraphResult, RegisterGraphTexture, RegisterGraphBuffer,
       Registering, BeginGraphPass, BeginGraphPassFails, UploadFails, EndGraphPass, EndGraphFrame,
       PresentFrame

(* While the graph is declared nothing is recorded.                         *)
LEMMA DeclaringSequenced == Sequencing /\ SceneDeclares => Sequencing' /\ NotYet'
<1>1. SUFFICES ASSUME Sequencing, SceneDeclares PROVE Sequencing' /\ NotYet'
  OBVIOUS
<1>2. scene = "declaring" /\ UNCHANGED recorderVars
  BY <1>1 DEF SceneDeclares
<1>3. UNCHANGED <<scene, frameActive, graph, atStart, registered, layout, activePass, hasRendering,
                  recorded, commands>>
  BY <1>2 DEF recorderVars
<1> QED
  BY <1>1, <1>2, <1>3 DEF Sequencing, NotYet

(* BeginGraphFrame starts with nothing registered.                          *)
LEMMA BeginFrameSequenced == Sequencing /\ BeginGraphFrame => Sequencing' /\ NotYet'
<1>1. SUFFICES ASSUME Sequencing, BeginGraphFrame PROVE Sequencing' /\ NotYet'
  OBVIOUS
<1>2. /\ scene = "declaring" /\ status = "compiled" /\ scene' = "begun"
      /\ registered' = <<>> /\ layout' = <<>> /\ activePass' = NoPass
      /\ UNCHANGED <<graphVars, recorded, commands>>
  BY <1>1 DEF BeginGraphFrame
<1>3. status' = status /\ recorded' = recorded /\ commands' = commands
  BY <1>2 DEF graphVars
<1>4. NoPass' = NoPass
  BY DEF NoPass
<1> QED
  BY <1>1, <1>2, <1>3, <1>4 DEF Sequencing, NotYet

(* SetGraphResult hands over the compiled result.                           *)
LEMMA SetResultSequenced == Declared /\ Sequencing /\ SetGraphResult => Sequencing'
<1>1. SUFFICES ASSUME Declared, Sequencing, SetGraphResult PROVE Sequencing'
  OBVIOUS
<1>2. /\ scene = "begun" /\ scene' = "registering" /\ graph' = out
      /\ UNCHANGED <<graphVars, registered, layout, activePass, recorded, commands>>
  BY <1>1 DEF SetGraphResult
<1>3. /\ status' = status /\ out' = out /\ recorded' = recorded /\ resources' = resources
      /\ registered' = registered /\ layout' = layout
  BY <1>2 DEF graphVars
<1>4. registered = <<>> /\ layout = <<>> /\ recorded = 0 /\ status = "compiled"
  BY <1>1, <1>2 DEF Sequencing, NotYet
<1>5. IsSeq(registered)' /\ IsSeq(layout)'
  BY <1>3, <1>4, EmptyIsSeq
<1>6. Len(layout)' = 0 /\ Len(registered)' = 0 /\ 0 <= Len(resources)'
  <2>1. Len(resources) \in Nat
    BY <1>1 DEF Declared
  <2> QED
    BY <1>3, <1>4, <2>1
<1> QED
  BY <1>2, <1>3, <1>4, <1>5, <1>6 DEF Sequencing, NotYet

(* Registering a resource comes before the first pass.                      *)
LEMMA RegisteringSequenced ==
  ASSUME Declared, Sequencing, NEW r, RegisterGraphTexture(r) \/ RegisterGraphBuffer(r)
  PROVE  /\ Sequencing' /\ recorded = 0 /\ scene = "registering" /\ r = Len(layout) + 1
         /\ r \in Resources /\ IsSeq(layout)
         /\ UNCHANGED <<graphVars, scene, graph, atStart, activePass, recorded, commands>>
         /\ \E current : /\ layout' = Append(layout, current)
                         /\ resources[r].isImage => current = atStart[r]
<1>0. Len(resources) \in Nat /\ Resources = 1..Len(resources)
  BY DEF Declared, Resources
<1>1. PICK isImage \in BOOLEAN : Registering(r, isImage)
  BY DEF RegisterGraphTexture, RegisterGraphBuffer
<1>2. /\ scene = "registering" /\ r = Len(registered) + 1 /\ r \in Resources
      /\ \E valid \in BOOLEAN : registered' = Append(registered, valid)
      /\ UNCHANGED <<graphVars, scene, graph, atStart, activePass, recorded, commands>>
  BY <1>1 DEF Registering
<1>3. /\ IsSeq(registered) /\ IsSeq(layout) /\ Len(layout) = Len(registered)
      /\ Len(registered) <= Len(resources) /\ recorded \in Nat
      /\ recorded > 0 => Len(registered) = Len(resources)
  BY <1>2 DEF Sequencing
<1>4. Len(registered) \in Nat /\ Len(registered) < Len(resources) /\ recorded = 0
  <2>1. PICK n \in Nat : n = Len(registered)
    BY <1>3, SeqDomain
  <2> QED
    BY <1>0, <1>2, <1>3, <2>1
<1>5. \E current : /\ layout' = Append(layout, current)
                   /\ resources[r].isImage => current = atStart[r]
  <2>1. CASE RegisterGraphTexture(r)
    BY <2>1 DEF RegisterGraphTexture
  <2>2. CASE RegisterGraphBuffer(r)
    BY <2>2 DEF RegisterGraphBuffer, Registering
  <2> QED
    BY <2>1, <2>2
<1>6. PICK current : layout' = Append(layout, current)
  BY <1>5
<1>7. PICK valid : registered' = Append(registered, valid)
  BY <1>2
<1>8. IsSeq(layout)' /\ Len(layout)' = Len(registered) + 1
  BY <1>3, <1>6, AppendedSeq
<1>9. IsSeq(registered)' /\ Len(registered)' = Len(registered) + 1
  BY <1>3, <1>7, AppendedSeq
<1>10. Len(registered)' <= Len(resources)'
  BY <1>0, <1>2, <1>4, <1>9 DEF graphVars
<1>11. /\ scene' = scene /\ status' = status /\ graph' = graph /\ out' = out /\ recorded' = recorded
       /\ graph = out /\ status = "compiled"
  BY <1>2 DEF graphVars, Sequencing, NotYet
<1>12. Sequencing'
  BY <1>2, <1>3, <1>4, <1>8, <1>9, <1>10, <1>11 DEF Sequencing, NotYet
<1> QED
  BY <1>2, <1>3, <1>4, <1>5, <1>12

(* At a pass every resource is registered.                                  *)
LEMMA AtPassKnown ==
  ASSUME Sequencing, NEW p, AtPass(p)
  PROVE  /\ scene = "registering" /\ activePass = NoPass /\ graph = out /\ status = "compiled"
         /\ IsSeq(registered) /\ IsSeq(layout) /\ Len(layout) = Len(registered)
         /\ Len(registered) = Len(resources) /\ recorded \in Nat
         /\ recorded < Len(ExecutionOrder) /\ p = ExecutionOrder[recorded + 1]
<1>1. /\ scene = "registering" /\ Len(registered) = Len(resources) /\ activePass = NoPass
      /\ recorded < Len(ExecutionOrder) /\ p = ExecutionOrder[recorded + 1]
  BY DEF AtPass
<1>2. ~NotYet
  BY <1>1 DEF NotYet
<1> QED
  BY <1>1, <1>2 DEF Sequencing

(* BeginGraphPass counts one more pass.                                     *)
LEMMA BeginPassSequenced ==
  ASSUME Declared, Sequencing, NEW p, BeginGraphPass(p)
  PROVE  Sequencing'
<1>1. /\ AtPass(p) /\ layout' = LayoutsLeft(p) /\ recorded' = recorded + 1
      /\ UNCHANGED <<graphVars, scene, graph, registered>>
  BY DEF BeginGraphPass, LayoutsLeft
<1>2. /\ scene = "registering" /\ graph = out /\ status = "compiled"
      /\ IsSeq(registered) /\ IsSeq(layout) /\ Len(layout) = Len(registered)
      /\ Len(registered) = Len(resources) /\ recorded \in Nat
  BY <1>1, AtPassKnown
<1>3. /\ scene' = scene /\ graph' = graph /\ registered' = registered
      /\ resources' = resources /\ out' = out /\ status' = status
  BY <1>1 DEF graphVars
<1>4. IsSeq(layout)' /\ Len(layout)' = Len(layout)
  BY <1>1, <1>2, LayoutsLeftSeq
<1>5. IsSeq(registered)'
  BY <1>2, <1>3
<1>6. Len(resources) \in Nat /\ Len(registered)' <= Len(resources)'
  <2>1. Len(resources) \in Nat
    BY DEF Declared
  <2> QED
    BY <1>2, <1>3, <2>1
<1> QED
  BY <1>1, <1>2, <1>3, <1>4, <1>5, <1>6 DEF Sequencing, NotYet

(* A failing BeginGraphPass ends the scene.                                 *)
LEMMA PassFailsSequenced ==
  ASSUME Sequencing, NEW p, BeginGraphPassFails(p)
  PROVE  Sequencing'
<1>1. /\ AtPass(p) /\ scene' = "exited"
      /\ UNCHANGED <<graphVars, graph, activePass, recorded>>
  BY DEF BeginGraphPassFails
<1>2. activePass = NoPass /\ graph = out /\ status = "compiled" /\ recorded \in Nat
  BY <1>1, AtPassKnown
<1>3. graph' = graph /\ out' = out /\ status' = status /\ activePass' = activePass /\ recorded' = recorded
  BY <1>1 DEF graphVars
<1>4. NoPass' = NoPass
  BY DEF NoPass
<1> QED
  BY <1>1, <1>2, <1>3, <1>4 DEF Sequencing, NotYet

(* So does an upload without memory.                                        *)
LEMMA UploadFailsSequenced ==
  ASSUME Sequencing, NEW p, UploadFails(p)
  PROVE  Sequencing'
<1>1. AtPass(p) /\ scene' = "exited" /\ UNCHANGED <<graphVars, graph, recorded>>
  BY DEF UploadFails
<1>2. graph = out /\ status = "compiled" /\ recorded \in Nat
  BY <1>1, AtPassKnown
<1>3. graph' = graph /\ out' = out /\ status' = status /\ recorded' = recorded
  BY <1>1 DEF graphVars
<1> QED
  BY <1>1, <1>2, <1>3 DEF Sequencing, NotYet

(* EndGraphPass leaves the frame open.                                      *)
LEMMA EndPassSequenced ==
  ASSUME Sequencing, EndGraphPass
  PROVE  Sequencing' /\ scene = "registering" /\ graph = out
<1>1. /\ scene = "registering" /\ activePass' = NoPass
      /\ UNCHANGED <<graphVars, scene, graph, registered, layout, recorded>>
  BY DEF EndGraphPass
<1>2. scene = "registering" /\ graph = out /\ status = "compiled"
  BY <1>1 DEF Sequencing, NotYet
<1>3. /\ scene' = scene /\ graph' = graph /\ registered' = registered /\ layout' = layout
      /\ resources' = resources /\ out' = out /\ status' = status /\ recorded' = recorded
  BY <1>1 DEF graphVars
<1>4. IsSeq(registered)' = IsSeq(registered) /\ IsSeq(layout)' = IsSeq(layout)
  BY <1>3
<1> QED
  BY <1>1, <1>2, <1>3, <1>4 DEF Sequencing, NotYet

(* EndGraphFrame comes after the last pass.                                 *)
LEMMA EndFrameSequenced ==
  ASSUME Sequencing, EndGraphFrame
  PROVE  Sequencing' /\ scene = "registering"
<1>1. /\ scene = "registering" /\ scene' = "recorded" /\ Len(registered) = Len(resources)
      /\ activePass = NoPass /\ recorded = Len(ExecutionOrder)
      /\ UNCHANGED <<graphVars, graph, registered, layout, activePass, recorded>>
  BY DEF EndGraphFrame
<1>2. graph = out /\ status = "compiled"
  BY <1>1 DEF Sequencing, NotYet
<1>3. /\ graph' = graph /\ registered' = registered /\ layout' = layout /\ activePass' = activePass
      /\ resources' = resources /\ out' = out /\ status' = status /\ recorded' = recorded
  BY <1>1 DEF graphVars
<1>4. IsSeq(registered)' = IsSeq(registered) /\ IsSeq(layout)' = IsSeq(layout)
  BY <1>3
<1>5. ExecutionOrder' = ExecutionOrder
  BY <1>1, SameOrder
<1>6. NoPass' = NoPass
  BY DEF NoPass
<1> QED
  BY <1>1, <1>2, <1>3, <1>4, <1>5, <1>6 DEF Sequencing, NotYet

(* Present comes after EndGraphFrame.                                       *)
LEMMA PresentSequenced ==
  ASSUME Sequencing, PresentFrame
  PROVE  Sequencing' /\ scene = "recorded"
<1>1. /\ scene = "recorded" /\ scene' = "presented"
      /\ UNCHANGED <<graphVars, graph, activePass, recorded>>
  BY DEF PresentFrame
<1>2. graph = out /\ status = "compiled" /\ activePass = NoPass
  BY <1>1 DEF Sequencing, NotYet
<1>3. /\ graph' = graph /\ activePass' = activePass
      /\ out' = out /\ status' = status /\ recorded' = recorded
  BY <1>1 DEF graphVars
<1>6. NoPass' = NoPass
  BY DEF NoPass
<1> QED
  BY <1>1, <1>2, <1>3, <1>6 DEF Sequencing, NotYet

-----------------------------------------------------------------------------
(* The steps track the images and the passes.                              *)

(* What the recorder works on, for the graphs recorded in order.            *)
LEMMA GraphAtHand ==
  ASSUME RecInv, status = "compiled", Conformant
  PROVE  /\ Declared /\ ResultOfOrder /\ ImagesUsedAsImages /\ Sequencing
         /\ \A r \in Resources : Chain(r)
         /\ Len(out.order) \in Nat /\ \A n \in 1..Len(out.order) : out.order[n] \in Passes
<1>1. Declared /\ ResultOfOrder /\ ImagesUsedAsImages /\ Sequencing
  BY DEF RecInv, GraphInv
<1> QED
  BY <1>1, UsesMakeChains, ResultType

(* The parts of Tracked.                                                    *)
LEMMA TrackedIn ==
  ASSUME Tracked
  PROVE  /\ recorded <= Len(out.order)
         /\ scene = "registering" /\ activePass # NoPass =>
               recorded >= 1 /\ activePass = out.order[recorded]
         /\ scene \in {"registering", "recorded"} => ImagesAgree(recorded)
         /\ IsSeq(commands) /\ Truthful(commands)
         /\ \E at : Logged(commands, at, recorded)
BY Zenon DEF Tracked

(* Before the first pass.                                                   *)
LEMMA NothingLogged ==
  ASSUME \A r \in Resources : Chain(r)
  PROVE  \E at : Logged(<<>>, at, 0)
<1> DEFINE at == [i \in 1..0 |-> 1]
<1>a. PICK log : log = <<>>
  OBVIOUS
<1>b. PICK n \in Nat : n = 0
  OBVIOUS
<1>1. log = <<>> /\ n = 0 /\ Len(log) = 0
  BY <1>a, <1>b
<1>2. at \in [1..n -> 1..Len(log)]
  BY <1>1
<1>3. (\A i \in 1..n : FALSE) /\ \A c \in 1..Len(log) : FALSE
  BY <1>1
<1>4. \A r \in Resources : \A k \in 1..Len(SU(r)) : ~(Turn(SU(r)[k]) <= n)
  BY <1>1 DEF Chain
<1> HIDE DEF at
<1>5. Logged(log, at, n)
  BY <1>2, <1>3, <1>4, Zenon DEF Logged
<1> QED
  BY <1>1, <1>5, Zenon

(* The commands grow by some that are not passes.                           *)
LEMMA CommandsGrow ==
  ASSUME UNCHANGED graphVars, UNCHANGED atStart, Tracked, recorded \in Nat, UNCHANGED recorded,
         NEW CONSTANT more, IsSeq(more), NoPassIn(more), Truthful(more), commands' = commands \o more
  PROVE  IsSeq(commands)' /\ Truthful(commands)' /\ (\E at : Logged(commands, at, recorded))'
<1>1. IsSeq(commands) /\ Truthful(commands) /\ \E at : Logged(commands, at, recorded)
  BY TrackedIn, Zenon
<1>2. PICK at : Logged(commands, at, recorded)
  BY <1>1
<1>3. Logged(commands \o more, at, recorded)
  <2>1. \A x \in 1..Len(more) : more[x].op # "pass"
    BY Zenon DEF NoPassIn
  <2> QED
    BY <1>1, <1>2, <2>1, LogGrows
<1>4. IsSeq(commands \o more) /\ Truthful(commands \o more)
  BY <1>1, JoinedLogs
<1>5. PICK log, n : log = commands' /\ n = recorded'
  OBVIOUS
<1>6. Logged(log, at, n) /\ IsSeq(log) /\ Truthful(log)
  BY <1>3, <1>4, <1>5
<1>7. Logged(commands, at, recorded)'
  BY <1>5, <1>6, LoggedNext
<1>8. IsSeq(commands)' /\ Truthful(commands)'
  BY <1>5, <1>6, KnownNext DEF Truthful, IsSeq
<1> QED
  BY <1>7, <1>8

(* The commands stay.                                                       *)
LEMMA CommandsKept ==
  ASSUME UNCHANGED graphVars, UNCHANGED atStart, Tracked, UNCHANGED recorded, UNCHANGED commands
  PROVE  IsSeq(commands)' /\ Truthful(commands)' /\ (\E at : Logged(commands, at, recorded))'
<1>1. IsSeq(commands) /\ Truthful(commands) /\ \E at : Logged(commands, at, recorded)
  BY TrackedIn, Zenon
<1>2. PICK at : Logged(commands, at, recorded)
  BY <1>1
<1>5. PICK log, n : log = commands' /\ n = recorded'
  OBVIOUS
<1>6. Logged(log, at, n) /\ IsSeq(log) /\ Truthful(log)
  BY <1>1, <1>2, <1>5
<1>7. Logged(commands, at, recorded)'
  BY <1>5, <1>6, LoggedNext
<1>8. IsSeq(commands)' /\ Truthful(commands)'
  BY <1>5, <1>6, KnownNext DEF Truthful, IsSeq
<1> QED
  BY <1>7, <1>8

(* The layouts stay.                                                        *)
LEMMA ImagesKept ==
  ASSUME UNCHANGED graphVars, UNCHANGED atStart, ImagesAgree(recorded), UNCHANGED recorded,
         UNCHANGED layout
  PROVE  ImagesAgree(recorded)'
<1>1. resources' = resources /\ layout' = layout /\ recorded' = recorded
  BY SameChains
<1>2. ASSUME NEW r \in 1..Len(layout), resources[r].isImage, Known(r)
      PROVE  Agrees(r, recorded, layout[r])'
  <2>1. PICK n, L : n = recorded' /\ L = layout'[r]
    OBVIOUS
  <2>2. Agrees(r, n, L)
    BY <1>1, <1>2, <2>1 DEF ImagesAgree
  <2> QED
    BY <2>1, <2>2, AgreesNext
<1> QED
  BY <1>1, <1>2, KnownNext DEF ImagesAgree

(* At SetGraphResult nothing is recorded and no image known.                *)
LEMMA SetResultTracked ==
  ASSUME RecInv, SetGraphResult, InOrder'
  PROVE  Tracked'
<1>1. /\ scene = "begun" /\ scene' = "registering" /\ graph' = out
      /\ UNCHANGED graphVars /\ UNCHANGED <<registered, layout, activePass, recorded, commands>>
  BY DEF SetGraphResult
<1>2. /\ commands = <<>> /\ recorded = 0 /\ activePass = NoPass /\ layout = <<>>
      /\ status = "compiled"
  BY <1>1 DEF RecInv, Sequencing, NotYet
<1>3. Conformant
  BY <1>1, SameChains DEF InOrder
<1>4. /\ \A r \in Resources : Chain(r)
      /\ Len(out.order) \in Nat
  BY <1>2, <1>3, GraphAtHand
<1>5. PICK at : Logged(<<>>, at, 0)
  BY <1>4, NothingLogged
<1>6. PICK log, n : log = commands' /\ n = recorded'
  OBVIOUS
<1>7. log = <<>> /\ n = 0
  BY <1>1, <1>2, <1>6
<1>8. Logged(log, at, n)
  BY <1>5, <1>7
<1>9. Logged(commands, at, recorded)'
  BY <1>1, <1>6, <1>8, LoggedNext
<1>10. IsSeq(commands)' /\ Truthful(commands)'
  <2>1. Len(log) = 0 /\ IsSeq(log)
    BY <1>7, EmptyIsSeq
  <2>2. Truthful(log)
    BY <2>1 DEF Truthful
  <2> QED
    BY <1>6, <2>1, <2>2 DEF Truthful, IsSeq
<1>11. ImagesAgree(recorded)'
  <2>1. Len(layout') = 0
    BY <1>1, <1>2
  <2> QED
    BY <2>1 DEF ImagesAgree
<1>12. recorded' <= Len(out.order)' /\ activePass' = NoPass'
  BY <1>1, <1>2, <1>4 DEF graphVars, NoPass
<1> QED
  BY <1>9, <1>10, <1>11, <1>12 DEF Tracked

(* A texture is registered in the layout it is in.                          *)
LEMMA RegisteringTracked ==
  ASSUME RecInv, ~NotYet, InOrder, NEW r, RegisterGraphTexture(r) \/ RegisterGraphBuffer(r)
  PROVE  Tracked'
<1>0. Tracked /\ status = "compiled" /\ Conformant /\ Sequencing /\ Declared
  BY DEF RecInv, Sequencing, InOrder, GraphInv
<1>1. /\ recorded = 0 /\ scene = "registering" /\ r = Len(layout) + 1
      /\ r \in Resources /\ IsSeq(layout)
      /\ UNCHANGED <<graphVars, scene, graph, atStart, activePass, recorded, commands>>
      /\ \E current : /\ layout' = Append(layout, current)
                      /\ resources[r].isImage => current = atStart[r]
  BY <1>0, RegisteringSequenced
<1>2. PICK current : /\ layout' = Append(layout, current)
                     /\ resources[r].isImage => current = atStart[r]
  BY <1>1
<1>3. /\ Len(layout) \in Nat /\ Len(layout') = Len(layout) + 1 /\ layout'[Len(layout) + 1] = current
      /\ \A i \in 1..Len(layout) : layout'[i] = layout[i]
  BY <1>1, <1>2, AppendedSeq
<1>4. /\ UNCHANGED graphVars /\ recorded' = recorded /\ resources' = resources /\ UNCHANGED commands
      /\ UNCHANGED atStart /\ scene' = scene
  BY <1>1, SameChains
<1>5. ASSUME NEW i \in 1..Len(layout'), resources[i].isImage, Known(i)
      PROVE  Agrees(i, recorded, layout[i])'
  <2>1. PICK n, L : n = recorded' /\ L = layout'[i]
    OBVIOUS
  <2>2. Agrees(i, n, L)
    <3>1. CASE i \in 1..Len(layout)
      <4>1. ImagesAgree(recorded)
        BY <1>0, <1>1 DEF Tracked
      <4>2. L = layout[i] /\ n = recorded
        BY <1>3, <1>4, <2>1, <3>1
      <4> QED
        BY <1>5, <3>1, <4>1, <4>2 DEF ImagesAgree
    <3>2. CASE i = r
      <4>1. Chain(r)
        BY <1>0, <1>1, GraphAtHand
      <4>2. \A k \in 1..Len(SU(r)) : Turn(SU(r)[k]) > n
        BY <1>1, <1>4, <2>1, <4>1 DEF Chain
      <4>3. L = current
        BY <1>1, <1>3, <2>1, <3>2
      <4> QED
        BY <1>2, <1>5, <3>2, <4>2, <4>3 DEF Agrees, Known
    <3> QED
      BY <1>1, <1>3, <3>1, <3>2
  <2> QED
    BY <1>4, <2>1, <2>2, AgreesNext
<1>6. ImagesAgree(recorded)'
  BY <1>4, <1>5, KnownNext DEF ImagesAgree
<1>7. IsSeq(commands)' /\ Truthful(commands)' /\ (\E at : Logged(commands, at, recorded))'
  BY <1>0, <1>4, CommandsKept
<1>8. /\ recorded <= Len(out.order)
      /\ scene = "registering" /\ activePass # NoPass =>
            recorded >= 1 /\ activePass = out.order[recorded]
  BY <1>0, TrackedIn, Zenon
<1>9. out' = out /\ activePass' = activePass /\ NoPass' = NoPass
  BY <1>1 DEF graphVars, NoPass
<1> QED
  BY <1>4, <1>6, <1>7, <1>8, <1>9 DEF Tracked

(* EndGraphPass records no barrier and no pass.                             *)
LEMMA EndPassTracked ==
  ASSUME RecInv, ~NotYet, InOrder, EndGraphPass
  PROVE  Tracked'
<1>0. Tracked /\ Sequencing /\ recorded \in Nat
  BY DEF RecInv, Sequencing
<1>1. /\ activePass' = NoPass /\ UNCHANGED graphVars /\ UNCHANGED recorded /\ UNCHANGED layout
      /\ UNCHANGED scene /\ UNCHANGED atStart
      /\ commands' = commands \o (IF hasRendering THEN <<EndRendering>> ELSE <<>>)
  BY DEF EndGraphPass
<1>2. PICK more : more = IF hasRendering THEN <<EndRendering>> ELSE <<>>
  OBVIOUS
<1>3. IsSeq(more) /\ NoPassIn(more) /\ Truthful(more)
  <2>1. PICK b : b = EndRendering
    OBVIOUS
  <2>2. more = <<b>> \/ more = <<>>
    BY <1>2, <2>1, Zenon
  <2>3. more \in Seq({b}) /\ \A x \in 1..Len(more) : more[x] = b
    BY <2>2, OneOrNone
  <2>4. b.op # "pass" /\ b.op # "imageBarrier"
    BY <2>1 DEF EndRendering
  <2>5. IsSeq(more)
    BY <2>3, Zenon DEF IsSeq
  <2> QED
    BY <2>3, <2>4, <2>5, Zenon DEF NoPassIn, Truthful
<1>4. commands' = commands \o more
  BY <1>1, <1>2
<1>5. IsSeq(commands)' /\ Truthful(commands)' /\ (\E at : Logged(commands, at, recorded))'
  BY <1>0, <1>1, <1>3, <1>4, CommandsGrow
<1>6. scene \in {"registering", "recorded"} => ImagesAgree(recorded)'
  BY <1>0, <1>1, TrackedIn, ImagesKept
<1>7. recorded <= Len(out.order) /\ out' = out /\ NoPass' = NoPass
  BY <1>0, <1>1, TrackedIn DEF graphVars, NoPass
<1> QED
  BY <1>1, <1>5, <1>6, <1>7 DEF Tracked

(* EndGraphFrame and Present record nothing.                                *)
LEMMA FrameEndTracked ==
  ASSUME RecInv, ~NotYet, InOrder, EndGraphFrame \/ PresentFrame
  PROVE  Tracked'
<1>0. Tracked /\ Sequencing
  BY DEF RecInv
<1>1. /\ UNCHANGED graphVars /\ UNCHANGED recorded /\ UNCHANGED commands
      /\ UNCHANGED activePass /\ UNCHANGED atStart
      /\ scene' = "registering" => scene = "registering"
  BY DEF EndGraphFrame, PresentFrame
<1>2. IsSeq(commands)' /\ Truthful(commands)' /\ (\E at : Logged(commands, at, recorded))'
  BY <1>0, <1>1, CommandsKept
<1>3. scene' \in {"registering", "recorded"} => ImagesAgree(recorded)'
  <2>1. SUFFICES ASSUME scene' \in {"registering", "recorded"} PROVE ImagesAgree(recorded)'
    OBVIOUS
  <2>2. scene = "registering" /\ UNCHANGED layout
    BY <2>1 DEF EndGraphFrame, PresentFrame
  <2>3. ImagesAgree(recorded)
    BY <1>0, <2>2, TrackedIn
  <2> QED
    BY <1>1, <2>2, <2>3, ImagesKept
<1>4. /\ recorded <= Len(out.order)
      /\ scene = "registering" /\ activePass # NoPass =>
            recorded >= 1 /\ activePass = out.order[recorded]
  BY <1>0, TrackedIn, Zenon
<1>5. out' = out /\ NoPass' = NoPass
  BY <1>1 DEF graphVars, NoPass
<1> QED
  BY <1>1, <1>2, <1>3, <1>4, <1>5 DEF Tracked

(* What the recorder has when the loop comes to a pass.                     *)
LEMMA PassAtHand ==
  ASSUME RecInv, InOrder, NEW p, AtPass(p)
  PROVE  /\ Declared /\ ResultOfOrder /\ Conformant /\ ImagesUsedAsImages /\ graph = out
         /\ Tracked /\ ImagesAgree(recorded) /\ activePass = NoPass
         /\ recorded \in Nat /\ recorded + 1 \in 1..Len(out.order) /\ Len(out.order) \in Nat
         /\ p \in Passes /\ p = out.order[recorded + 1]
         /\ DOMAIN layout = Resources /\ DOMAIN layout = 1..Len(layout)
         /\ IsSeq(layout) /\ \A r \in Resources : Chain(r)
<1>1. Sequencing /\ (~NotYet /\ InOrder => Tracked)
  BY Zenon DEF RecInv
<1>2. /\ scene = "registering" /\ activePass = NoPass /\ graph = out /\ status = "compiled"
      /\ IsSeq(layout) /\ Len(layout) = Len(resources) /\ recorded \in Nat
      /\ recorded < Len(ExecutionOrder) /\ p = ExecutionOrder[recorded + 1]
  BY <1>1, AtPassKnown
<1>3. Conformant /\ ExecutionOrder = out.order
  BY <1>2 DEF InOrder
<1>4. /\ Declared /\ ResultOfOrder /\ ImagesUsedAsImages /\ \A r \in Resources : Chain(r)
      /\ Len(out.order) \in Nat /\ \A n \in 1..Len(out.order) : out.order[n] \in Passes
  BY <1>2, <1>3, GraphAtHand
<1>5. Tracked
  BY <1>1, <1>2 DEF NotYet
<1>6. ImagesAgree(recorded)
  BY <1>2, <1>5, TrackedIn
<1>7. recorded + 1 \in 1..Len(out.order) /\ p = out.order[recorded + 1]
  BY <1>2, <1>3, <1>4
<1>8. DOMAIN layout = 1..Len(layout)
  BY <1>2, SeqDomain
<1>9. DOMAIN layout = Resources
  BY <1>2, <1>8 DEF Resources
<1> QED
  BY <1>2, <1>3, <1>4, <1>5, <1>6, <1>7, <1>8, <1>9

(* BeginGraphPass records one more pass and moves its images.               *)
LEMMA BeginPassTracked ==
  ASSUME RecInv, InOrder, NEW p, BeginGraphPass(p)
  PROVE  Tracked'
<1>1. /\ AtPass(p) /\ layout' = LayoutsLeft(p) /\ recorded' = recorded + 1
      /\ commands' = commands \o PassCommands(p) /\ activePass' = p
      /\ UNCHANGED graphVars /\ UNCHANGED atStart
  BY DEF BeginGraphPass, LayoutsLeft
<1>2. /\ Declared /\ ResultOfOrder /\ Conformant /\ ImagesUsedAsImages /\ graph = out
      /\ Tracked /\ ImagesAgree(recorded)
      /\ recorded \in Nat /\ recorded + 1 \in 1..Len(out.order) /\ Len(out.order) \in Nat
      /\ p \in Passes /\ p = out.order[recorded + 1]
      /\ DOMAIN layout = Resources /\ DOMAIN layout = 1..Len(layout)
      /\ IsSeq(layout) /\ \A r \in Resources : Chain(r)
  BY <1>1, PassAtHand
<1>3. PICK n \in Nat : n = recorded
  BY <1>2
<1>4. IsSeq(PassCommands(p)) /\ Truthful(PassCommands(p)) /\ \E q \in Nat : LogsPass(PassCommands(p), q, n)
  BY <1>2, <1>3, PassIsLogged
<1>5. PICK more : more = PassCommands(p)
  OBVIOUS
<1>6. PICK q \in Nat : LogsPass(more, q, n)
  BY <1>4, <1>5
<1>7. IsSeq(commands) /\ Truthful(commands) /\ \E at : Logged(commands, at, n)
  BY <1>2, <1>3, TrackedIn
<1>8. \E new : Logged(commands \o more, new, n + 1)
  <2>1. PICK at : Logged(commands, at, n)
    BY <1>7
  <2>2. \A r \in Resources : \A k \in 1..Len(SU(r)) : Turn(SU(r)[k]) \in Nat \ {0}
    BY <1>2 DEF Chain
  <2>3. /\ q + 1 = Len(more) /\ more[q + 1] = PassBody(out.order[n + 1])
        /\ \A x \in 1..q : more[x].op # "pass"
        /\ \A r \in Resources : \A k \in 1..Len(SU(r)) :
             Turn(SU(r)[k]) = n + 1 /\ NeedsBarrier(r, k) => \E x \in 1..q : WaitsFor(more[x], r, k)
    BY <1>6, Zenon DEF LogsPass
  <2> QED
    BY <1>4, <1>5, <1>7, <2>1, <2>2, <2>3, LogPass
<1>9. PICK new : Logged(commands \o more, new, n + 1)
  BY <1>8
<1>10. IsSeq(commands \o more) /\ Truthful(commands \o more)
  BY <1>4, <1>5, <1>7, JoinedLogs
<1>11. PICK log, m : log = commands' /\ m = recorded'
  OBVIOUS
<1>12. Logged(log, new, m) /\ IsSeq(log) /\ Truthful(log)
  BY <1>1, <1>3, <1>5, <1>9, <1>10, <1>11
<1>13. Logged(commands, new, recorded)'
  BY <1>1, <1>11, <1>12, LoggedNext
<1>14. IsSeq(commands)' /\ Truthful(commands)'
  BY <1>1, <1>11, <1>12, KnownNext DEF Truthful, IsSeq
<1>15. ImagesAgree(recorded)'
  <2>1. Len(layout') = Len(layout) /\ resources' = resources
    BY <1>1, <1>2, LayoutsLeftSeq, SameChains
  <2>2. ASSUME NEW r \in Resources, resources[r].isImage, Known(r)
        PROVE  Agrees(r, recorded, layout[r])'
    <3>1. PICK L : L = layout'[r]
      OBVIOUS
    <3>2. Agrees(r, n + 1, LayoutsLeft(p)[r])
      BY <1>2, <1>3, <2>2, LayoutStep
    <3>3. Agrees(r, m, L)
      BY <1>1, <1>3, <1>11, <3>1, <3>2
    <3> QED
      BY <1>1, <1>11, <3>1, <3>3, AgreesNext
  <2>3. \A r \in 1..Len(layout') : r \in Resources
    BY <1>2, <2>1
  <2> QED
    BY <1>1, <2>1, <2>2, <2>3, KnownNext DEF ImagesAgree
<1>16. out' = out /\ recorded' <= Len(out.order) /\ recorded' >= 1 /\ activePass' = out.order[recorded']
  BY <1>1, <1>2 DEF graphVars
<1> QED
  BY <1>13, <1>14, <1>15, <1>16 DEF Tracked

(* A failing BeginGraphPass has recorded some barriers only.                *)
LEMMA PassFailsTracked ==
  ASSUME RecInv, InOrder, NEW p, BeginGraphPassFails(p)
  PROVE  Tracked'
<1> DEFINE images == ValidPrefix(ImagesBefore(p))
           buffers == IF images = ImagesBefore(p) THEN ValidPrefix(BuffersBefore(p)) ELSE <<>>
<1>1. /\ AtPass(p) /\ scene' = "exited" /\ UNCHANGED graphVars /\ UNCHANGED atStart
      /\ UNCHANGED activePass /\ UNCHANGED recorded
      /\ commands' = commands \o (ImageTransitions(images) \o BufferTransitions(buffers))
  BY DEF BeginGraphPassFails
<1>2. /\ Declared /\ ResultOfOrder /\ Conformant /\ ImagesUsedAsImages /\ graph = out
      /\ Tracked /\ ImagesAgree(recorded) /\ activePass = NoPass
      /\ recorded \in Nat /\ recorded + 1 \in 1..Len(out.order)
      /\ p \in Passes /\ p = out.order[recorded + 1]
      /\ DOMAIN layout = Resources /\ DOMAIN layout = 1..Len(layout)
  BY <1>1, PassAtHand
<1>3. PICK A : A = ImageTransitions(images)
  OBVIOUS
<1>4. IsSeq(A) /\ NoPassIn(A) /\ Truthful(A)
  <2>1. ImagesAt(ImagesBefore(p), p)
    BY <1>2, ImagesBeforePass
  <2>2. SomeImagesAt(ImagesBefore(p), p)
    BY <2>1 DEF ImagesAt
  <2>3. SomeImagesAt(images, out.order[recorded + 1])
    BY <1>2, <2>2, SomeOfThem
  <2> HIDE DEF images
  <2> QED
    BY <1>2, <1>3, <2>3, ImagesTruthful
<1>5. buffers \in Seq(AllBufferBarriers)
  <2>1. BuffersBefore(p) \in Seq(AllBufferBarriers)
    BY <1>2, BuffersBeforePass, Zenon
  <2>2. ValidPrefix(BuffersBefore(p)) \in Seq(AllBufferBarriers)
    BY <2>1, FirstOfThem
  <2>3. <<>> \in Seq(AllBufferBarriers)
    OBVIOUS
  <2> HIDE DEF images
  <2> QED
    BY <2>2, <2>3
<1>6. PICK B : B = BufferTransitions(buffers)
  OBVIOUS
<1> HIDE DEF images, buffers
<1>7. IsSeq(B) /\ NoPassIn(B) /\ Truthful(B)
  BY <1>5, <1>6, BuffersHarmless
<1>8. PICK more : more = A \o B
  OBVIOUS
<1>9. IsSeq(more) /\ NoPassIn(more) /\ Truthful(more)
  BY <1>4, <1>7, <1>8, JoinedLogs
<1>10. commands' = commands \o more
  BY <1>1, <1>3, <1>6, <1>8
<1>11. IsSeq(commands)' /\ Truthful(commands)' /\ (\E at : Logged(commands, at, recorded))'
  BY <1>1, <1>2, <1>9, <1>10, CommandsGrow
<1>12. recorded <= Len(out.order) /\ out' = out /\ NoPass' = NoPass
  BY <1>1, <1>2, TrackedIn DEF graphVars, NoPass
<1> QED
  BY <1>1, <1>2, <1>11, <1>12 DEF Tracked

(* An upload that fails comes behind the barriers and some of the uploads.  *)
LEMMA UploadFailsTracked ==
  ASSUME RecInv, InOrder, NEW p, UploadFails(p)
  PROVE  Tracked'
<1>1. /\ AtPass(p) /\ scene' = "exited" /\ UNCHANGED graphVars /\ UNCHANGED atStart
      /\ UNCHANGED recorded
      /\ \E n \in 0..Len(UploadOrder(p)) :
            commands' = commands \o (PassBarriers(p)
               \o UploadTransitions(SubSeq(UploadOrder(p), 1, n), LayoutsAfter(ImagesBefore(p))))
  BY DEF UploadFails
<1>2. /\ Declared /\ ResultOfOrder /\ Conformant /\ ImagesUsedAsImages /\ graph = out
      /\ Tracked /\ ImagesAgree(recorded)
      /\ recorded \in Nat /\ recorded + 1 \in 1..Len(out.order)
      /\ p \in Passes /\ p = out.order[recorded + 1]
      /\ DOMAIN layout = Resources /\ DOMAIN layout = 1..Len(layout)
  BY <1>1, PassAtHand
<1>3. PICK n \in 0..Len(UploadOrder(p)) :
         commands' = commands \o (PassBarriers(p)
            \o UploadTransitions(SubSeq(UploadOrder(p), 1, n), LayoutsAfter(ImagesBefore(p))))
  BY <1>1
<1>4. PICK A : A = PassBarriers(p)
  OBVIOUS
<1>5. IsSeq(A) /\ NoPassIn(A) /\ Truthful(A)
  BY <1>2, <1>4, BarriersLogged
<1>6. PICK U : U = UploadTransitions(SubSeq(UploadOrder(p), 1, n), LayoutsAfter(ImagesBefore(p)))
  OBVIOUS
<1>7. IsSeq(U) /\ NoPassIn(U) /\ Truthful(U)
  BY <1>2, <1>6, UploadsAreSeq, UploadsHarmless
<1>8. PICK more : more = A \o U
  OBVIOUS
<1>9. IsSeq(more) /\ NoPassIn(more) /\ Truthful(more)
  BY <1>5, <1>7, <1>8, JoinedLogs
<1>10. commands' = commands \o more
  BY <1>3, <1>4, <1>6, <1>8
<1>11. IsSeq(commands)' /\ Truthful(commands)' /\ (\E at : Logged(commands, at, recorded))'
  BY <1>1, <1>2, <1>9, <1>10, CommandsGrow
<1>12. recorded <= Len(out.order) /\ out' = out
  BY <1>1, <1>2, TrackedIn DEF graphVars
<1> QED
  BY <1>1, <1>11, <1>12 DEF Tracked

-----------------------------------------------------------------------------
(* The invariant holds at every step.                                      *)

(* Nothing happens.                                                         *)
LEMMA StutterTracked ==
  ASSUME RecInv, UNCHANGED vars
  PROVE  Sequencing' /\ (~NotYet /\ InOrder => Tracked)'
<1>1. Sequencing /\ (~NotYet /\ InOrder => Tracked)
  BY Zenon DEF RecInv
<1>2. UNCHANGED graphVars /\ UNCHANGED recorderVars
  BY DEF vars
<1>3. UNCHANGED <<scene, frameActive, graph, atStart, registered, layout, activePass, hasRendering,
                  recorded, commands>>
  BY <1>2 DEF recorderVars
<1>4. /\ scene' = scene /\ graph' = graph /\ registered' = registered /\ layout' = layout
      /\ activePass' = activePass /\ recorded' = recorded /\ commands' = commands
      /\ resources' = resources /\ out' = out /\ status' = status /\ UNCHANGED atStart
  BY <1>2, <1>3, SameChains
<1>5. ExecutionOrder' = ExecutionOrder /\ InOrder' = InOrder
  BY <1>2, <1>4, SameOrder
<1>6. /\ IsSeq(registered)' = IsSeq(registered) /\ IsSeq(layout)' = IsSeq(layout)
      /\ NoPass' = NoPass /\ NotYet' = NotYet
  BY <1>4 DEF NoPass, NotYet
<1>7. Sequencing'
  BY <1>1, <1>4, <1>5, <1>6 DEF Sequencing
<1>8. ASSUME Tracked PROVE Tracked'
  <2>1. IsSeq(commands)' /\ Truthful(commands)' /\ (\E at : Logged(commands, at, recorded))'
    BY <1>2, <1>4, <1>8, CommandsKept
  <2>2. scene \in {"registering", "recorded"} => ImagesAgree(recorded)'
    BY <1>2, <1>4, <1>8, TrackedIn, ImagesKept
  <2>3. /\ recorded <= Len(out.order)
        /\ scene = "registering" /\ activePass # NoPass =>
              recorded >= 1 /\ activePass = out.order[recorded]
    BY <1>8, TrackedIn, Zenon
  <2> QED
    BY <1>4, <1>6, <2>1, <2>2, <2>3 DEF Tracked
<1> QED
  BY <1>1, <1>5, <1>6, <1>7, <1>8

(* Each of the steps after the declaring ones.                              *)
LEMMA RecordingTracked ==
  ASSUME RecInv, Recording
  PROVE  Sequencing' /\ (~NotYet /\ InOrder => Tracked)'
<1>0. Declared /\ Sequencing
  BY DEF RecInv, GraphInv
<1>1. UNCHANGED graphVars
  BY RecordingLeavesGraph
<1>2. CASE BeginGraphFrame
  BY <1>0, <1>2, BeginFrameSequenced
<1>3. CASE SetGraphResult
  BY <1>0, <1>3, SetResultSequenced, SetResultTracked
<1>4. ASSUME scene \notin {"declaring", "begun"}, UNCHANGED graph, InOrder => Tracked', Sequencing'
      PROVE  Sequencing' /\ (~NotYet /\ InOrder => Tracked)'
  BY <1>1, <1>4, SameOrder
<1>5. CASE \E r \in 1 .. MaxResources : RegisterGraphTexture(r) \/ RegisterGraphBuffer(r)
  <2>1. PICK r \in 1 .. MaxResources : RegisterGraphTexture(r) \/ RegisterGraphBuffer(r)
    BY <1>5
  <2>2. Sequencing' /\ scene = "registering" /\ UNCHANGED graph
    BY <1>0, <2>1, RegisteringSequenced
  <2>3. InOrder => Tracked'
    BY <2>1, <2>2, RegisteringTracked DEF NotYet
  <2> QED
    BY <1>4, <2>2, <2>3
<1>6. CASE \E p \in 1 .. MaxPasses : BeginGraphPass(p) \/ BeginGraphPassFails(p) \/ UploadFails(p)
  <2>1. PICK p \in 1 .. MaxPasses : BeginGraphPass(p) \/ BeginGraphPassFails(p) \/ UploadFails(p)
    BY <1>6
  <2>2. scene = "registering" /\ UNCHANGED graph
    BY <2>1 DEF BeginGraphPass, BeginGraphPassFails, UploadFails, AtPass
  <2>3. Sequencing'
    BY <1>0, <2>1, BeginPassSequenced, PassFailsSequenced, UploadFailsSequenced
  <2>4. InOrder => Tracked'
    BY <2>1, BeginPassTracked, PassFailsTracked, UploadFailsTracked
  <2> QED
    BY <1>4, <2>2, <2>3, <2>4
<1>7. CASE EndGraphPass
  <2>1. Sequencing' /\ scene = "registering" /\ UNCHANGED graph
    BY <1>0, <1>7, EndPassSequenced DEF EndGraphPass
  <2>2. InOrder => Tracked'
    BY <1>7, <2>1, EndPassTracked DEF NotYet
  <2> QED
    BY <1>4, <2>1, <2>2
<1>8. CASE EndGraphFrame \/ PresentFrame
  <2>1. Sequencing' /\ scene \in {"registering", "recorded"} /\ UNCHANGED graph
    BY <1>0, <1>8, EndFrameSequenced, PresentSequenced DEF EndGraphFrame, PresentFrame
  <2>2. InOrder => Tracked'
    BY <1>8, <2>1, FrameEndTracked DEF NotYet
  <2> QED
    BY <1>4, <2>1, <2>2
<1> QED
  BY <1>2, <1>3, <1>5, <1>6, <1>7, <1>8 DEF Recording

(* Each step of the scene.                                                  *)
LEMMA RecorderSteps == RecInv /\ [Next]_vars => RecInv'
<1>1. SUFFICES ASSUME RecInv, [Next]_vars PROVE RecInv'
  OBVIOUS
<1>2. GraphInv /\ Declared /\ ImagesUsedAsImages /\ Sequencing
  BY <1>1 DEF RecInv, GraphInv
<1>3. SceneDeclares \/ Recording \/ UNCHANGED vars
  BY <1>1 DEF Next, Recording
<1>4. [GraphNext]_graphVars
  BY <1>3, RecordingLeavesGraph DEF SceneDeclares, vars
<1>5. GraphInv' /\ ImagesUsedAsImages'
  BY <1>2, <1>4, GraphSteps, ImagesStayImages
<1>6. Sequencing' /\ (~NotYet /\ InOrder => Tracked)'
  <2>1. CASE SceneDeclares
    BY <1>2, <2>1, DeclaringSequenced
  <2> QED
    BY <1>1, <1>3, <2>1, RecordingTracked, StutterTracked
<1> QED
  BY <1>5, <1>6 DEF RecInv

(* At every point of a frame the layouts and the command buffer are those   *)
(* that the passes recorded so far call for.                                *)
THEOREM RecorderInvariance == Spec => []RecInv
BY RecorderStarts, RecorderSteps, PTL DEF Spec

-----------------------------------------------------------------------------
(* What the invariant says of the properties.                              *)

(* The recorder's state for a graph recorded in order.                      *)
LEMMA InOrderState ==
  ASSUME RecInv, InOrder, ~NotYet
  PROVE  /\ Declared /\ ResultOfOrder /\ Conformant /\ ImagesUsedAsImages /\ graph = out
         /\ ExecutionOrder = out.order /\ Sequencing /\ Tracked /\ recorded \in Nat
         /\ Len(out.order) \in Nat /\ \A r \in Resources : Chain(r)
<1>1. Sequencing /\ Tracked
  BY Zenon DEF RecInv
<1>2. graph = out /\ status = "compiled" /\ recorded \in Nat
  BY <1>1 DEF Sequencing
<1>3. Conformant /\ ExecutionOrder = out.order
  BY <1>2 DEF InOrder
<1> QED
  BY <1>1, <1>2, <1>3, GraphAtHand

(* A declaration that holds says where the texture is.                      *)
LEMMA DeclarationsKnown ==
  ASSUME Declared, ResultOfOrder, graph = out, NEW r \in WellDeclared, Chain(r)
  PROVE  Known(r)
<1>0. r \in Resources
  BY DEF WellDeclared
<1>1. SUFFICES ASSUME resources[r].initialLayout = "TRANSFER_DST_OPTIMAL",
                      UploadsTo(out.lifetimes[r].firstPass, r)
               PROVE  Len(SU(r)) >= 1 /\ SU(r)[1].access = "TRANSFER_WRITE"
  BY DEF WellDeclared, Known, FilledFirst
<1>2. PICK u \in DOMAIN Uses(r) :
         Uses(r)[u].pass = out.lifetimes[r].firstPass /\ Uses(r)[u].access = "TRANSFER_WRITE"
  BY <1>1 DEF UploadsTo
<1>3. out.lifetimes[r] = LifetimeOf(SU(r))
  BY <1>0 DEF ResultOfOrder, Lifetimes, SU
<1>4. SU(r) \in Seq(UseRecords) /\ Len(SU(r)) \in Nat
  BY DEF Chain
<1>5. SU(r) # <<>>
  <2>1. SUFFICES ASSUME SU(r) = <<>> PROVE FALSE
    OBVIOUS
  <2>2. out.lifetimes[r].firstPass = Present
    BY <1>3, <2>1 DEF LifetimeOf
  <2>3. Uses(r)[u].pass \in 1..Len(passes)
    BY <1>0, DeclaredTypes
  <2> QED
    BY <1>2, <2>2, <2>3 DEF Present
<1>6. Len(SU(r)) >= 1 /\ 1 \in 1..Len(SU(r)) /\ out.lifetimes[r].firstPass = SU(r)[1].pass
  BY <1>3, <1>4, <1>5 DEF LifetimeOf
<1>7. Survives(SU(r)[1].pass)
  <2>1. Turn(SU(r)[1]) \in 1..Len(out.order) /\ out.order[Turn(SU(r)[1])] = SU(r)[1].pass
    BY <1>6, Zenon DEF Chain
  <2> QED
    BY <2>1, ResultType, Zenon
<1>8. PICK k \in 1..Len(SU(r)) : SU(r)[k] = Uses(r)[u]
  BY <1>2, <1>6, <1>7, Zenon DEF Chain
<1>9. k = 1
  BY <1>2, <1>6, <1>8, ChainApart
<1> QED
  BY <1>2, <1>6, <1>8, <1>9

(* The active pass is the last use of its images so far.                    *)
LEMMA LayoutsReady == RecInv => ImagesInDeclaredLayout
<1>1. SUFFICES ASSUME RecInv, scene = "registering", activePass # NoPass, InOrder,
                      NEW r \in WellDeclared, NEW u \in DOMAIN Uses(r), Uses(r)[u].pass = activePass
               PROVE  layout[r] = LayoutOf(Uses(r)[u].access)
  BY DEF ImagesInDeclaredLayout
<1>0. r \in Resources /\ resources[r].isImage
  BY DEF WellDeclared
<1>2. Sequencing
  BY <1>1 DEF RecInv
<1>3. ~NotYet /\ scene = "registering"
  BY <1>1, <1>2 DEF Sequencing, NotYet
<1>4. /\ Declared /\ ResultOfOrder /\ Tracked /\ recorded \in Nat /\ graph = out
      /\ Len(out.order) \in Nat /\ Chain(r)
  BY <1>0, <1>1, <1>3, InOrderState
<1>a. Known(r)
  BY <1>1, <1>4, DeclarationsKnown
<1>5. /\ recorded >= 1 /\ recorded <= Len(out.order) /\ activePass = out.order[recorded]
      /\ ImagesAgree(recorded)
  BY <1>1, <1>3, <1>4, TrackedIn
<1>6. Len(layout) = Len(resources)
  BY <1>2, <1>3, <1>4, <1>5 DEF Sequencing
<1>7. Agrees(r, recorded, layout[r])
  BY <1>0, <1>5, <1>6, <1>a DEF ImagesAgree, Resources
<1>8. recorded \in 1..Len(out.order)
  BY <1>4, <1>5
<1>9. Survives(out.order[recorded]) /\ OrderIndex(out.order[recorded]) = recorded
  BY <1>4, <1>8, ResultType, Zenon
<1>10. PICK k \in 1..Len(SU(r)) : SU(r)[k] = Uses(r)[u]
  BY <1>1, <1>4, <1>5, <1>9, Zenon DEF Chain
<1>11. Turn(SU(r)[k]) = recorded
  BY <1>1, <1>5, <1>9, <1>10 DEF Turn
<1>12. ~(Turn(SU(r)[k]) > recorded)
  BY <1>4, <1>11
<1>13. PICK l \in 1..Len(SU(r)) :
          /\ Turn(SU(r)[l]) <= recorded
          /\ \A m \in 1..Len(SU(r)) : m > l => Turn(SU(r)[m]) > recorded
          /\ layout[r] = LayoutOf(SU(r)[l].access)
  BY <1>7, <1>12, Zenon DEF Agrees
<1>14. /\ Len(SU(r)) \in Nat /\ Turn(SU(r)[l]) \in Nat
       /\ k < l => Turn(SU(r)[k]) < Turn(SU(r)[l])
  BY <1>4 DEF Chain
<1>15. ~(k < l)
  BY <1>4, <1>11, <1>13, <1>14
<1>16. ~(k > l)
  BY <1>12, <1>13, Zenon
<1>17. k = l
  BY <1>14, <1>15, <1>16
<1> QED
  BY <1>10, <1>13, <1>17

(* The transitions in the command buffer.                                   *)
LEMMA BarriersTruthful == RecInv => OldLayoutsTruthful
<1>1. SUFFICES ASSUME RecInv, InOrder, NEW i \in DOMAIN commands, commands[i].op = "imageBarrier",
                      commands[i].resource \in WellDeclared
               PROVE  commands[i].oldLayout \in {"UNDEFINED", commands[i].found}
  BY DEF OldLayoutsTruthful
<1>2. Sequencing
  BY <1>1 DEF RecInv
<1>3. ~NotYet
  BY <1>1, <1>2 DEF Sequencing
<1>4. IsSeq(commands) /\ Truthful(commands)
  BY <1>1, <1>3, InOrderState, TrackedIn
<1>5. i \in 1..Len(commands)
  BY <1>4, SeqDomain
<1>6. Known(commands[i].resource)
  <2>1. PICK r \in WellDeclared : r = commands[i].resource
    BY <1>1
  <2>2. r \in Resources
    BY DEF WellDeclared
  <2>3. Declared /\ ResultOfOrder /\ graph = out /\ Chain(r)
    BY <1>1, <1>3, <2>2, InOrderState
  <2> QED
    BY <2>1, <2>3, DeclarationsKnown
<1> QED
  BY <1>1, <1>4, <1>5, <1>6, Zenon DEF Truthful

(* The last surviving use leaves the image where Present finds it.          *)
LEMMA PresentAccurate == RecInv => PresentTransitionAccurate
<1>1. SUFFICES ASSUME RecInv, scene = "recorded", InOrder,
                      NEW b \in Range(graph.imageBarriers), b.beforePass = Present,
                      b.resource \in WellDeclared
               PROVE  b.oldLayout \in {"UNDEFINED", layout[b.resource]}
  BY DEF PresentTransitionAccurate
<1>2. ~NotYet
  BY <1>1 DEF NotYet
<1>3. /\ Declared /\ ResultOfOrder /\ Conformant /\ graph = out /\ ExecutionOrder = out.order
      /\ Sequencing /\ Tracked /\ recorded \in Nat
      /\ \A r \in Resources : Chain(r)
  BY <1>1, <1>2, InOrderState
<1>4. /\ Len(layout) = Len(resources) /\ recorded = Len(out.order) /\ ImagesAgree(recorded)
  BY <1>1, <1>3, TrackedIn DEF Sequencing
<1>5. PICK s : s = out.imageBarriers
  OBVIOUS
<1>6. /\ s \in Seq(AllImageBarriers)
      /\ \A x \in 1..Len(s) : \E r \in Resources :
           /\ s[x].resource = r /\ resources[r].isImage
           /\ ImageUseBarrier(r, s[x])
                \/ (s[x].beforePass = Present /\ s[x] = PresentBarrier(r, SU(r)))
  BY <1>3, <1>5, CompiledImages, Zenon
<1>7. PICK x \in 1..Len(s) : b = s[x]
  <2>1. DOMAIN s = 1..Len(s)
    BY <1>6
  <2> QED
    BY <1>1, <1>3, <1>5, <2>1 DEF Range
<1>8. PICK r \in Resources :
           /\ s[x].resource = r /\ resources[r].isImage
           /\ ImageUseBarrier(r, s[x])
                \/ (s[x].beforePass = Present /\ s[x] = PresentBarrier(r, SU(r)))
  BY <1>6
<1>9. ~ImageUseBarrier(r, b)
  <2>1. SUFFICES ASSUME NEW k \in 1..Len(SU(r)), b = ImageBarrier(r, SU(r), k) PROVE FALSE
    BY Zenon DEF ImageUseBarrier
  <2>2. SU(r)[k].pass = Present
    BY <1>1, <2>1 DEF ImageBarrier
  <2>3. PICK u \in DOMAIN Uses(r) : SU(r)[k] = Uses(r)[u]
    BY <1>3, Zenon DEF Chain
  <2>4. Uses(r)[u].pass \in 1..Len(passes)
    BY <1>3, DeclaredTypes
  <2> QED
    BY <2>2, <2>3, <2>4 DEF Present
<1>10. b = PresentBarrier(r, SU(r)) /\ b.resource = r
  BY <1>7, <1>8, <1>9
<1>11. b.oldLayout = IF SU(r) = <<>> THEN resources[r].initialLayout ELSE LayoutOf(Last(SU(r)).access)
  BY <1>10 DEF PresentBarrier
<1>a. Known(r)
  BY <1>1, <1>3, <1>10, DeclarationsKnown
<1>12. Agrees(r, recorded, layout[r])
  BY <1>4, <1>8, <1>a DEF ImagesAgree, Resources
<1>13. /\ Len(SU(r)) \in Nat /\ SU(r) \in Seq(UseRecords)
       /\ \A k \in 1..Len(SU(r)) : Turn(SU(r)[k]) \in 1..recorded
  BY <1>3, <1>4 DEF Chain
<1>14. \A k \in 1..Len(SU(r)) : ~(Turn(SU(r)[k]) > recorded)
  BY <1>3, <1>13
<1>15. CASE SU(r) = <<>>
  <2>1. \A k \in 1..Len(SU(r)) : FALSE
    BY <1>15
  <2>2. ~FilledFirst(r)
    BY <1>15 DEF FilledFirst
  <2>3. resources[r].initialLayout \in {"UNDEFINED", layout[r]}
    BY <1>12, <2>1, <2>2, Zenon DEF Agrees
  <2> QED
    BY <1>10, <1>11, <1>15, <2>3
<1>16. CASE SU(r) # <<>>
  <2>1. Len(SU(r)) \in 1..Len(SU(r)) /\ Last(SU(r)) = SU(r)[Len(SU(r))]
    BY <1>13, <1>16 DEF Last
  <2>2. PICK k \in 1..Len(SU(r)) :
          /\ \A l \in 1..Len(SU(r)) : l > k => Turn(SU(r)[l]) > recorded
          /\ layout[r] = LayoutOf(SU(r)[k].access)
    BY <1>12, <1>14, <2>1, Zenon DEF Agrees
  <2>3. ~(Len(SU(r)) > k)
    BY <1>14, <2>1, <2>2, Zenon
  <2>4. k = Len(SU(r))
    BY <1>13, <2>3
  <2> QED
    BY <1>10, <1>11, <1>16, <2>1, <2>2, <2>4
<1> QED
  BY <1>15, <1>16

(* The passes in the command buffer are in turn, and so their barriers.     *)
LEMMA ConflictsWait == RecInv => ConflictsSynchronised
<1>1. SUFFICES ASSUME RecInv, InOrder, NEW i \in DOMAIN commands, NEW j \in DOMAIN commands, i < j,
                      commands[i].op = "pass", commands[j].op = "pass", NEW r \in Resources,
                      NEW a \in AccessesOf(commands[i].pass, r),
                      NEW b \in AccessesOf(commands[j].pass, r),
                      IsWrite(a) \/ IsWrite(b)
               PROVE  \E k, l \in i + 1 .. j - 1 :
                         /\ k <= l
                         /\ IsBarrierOn(commands[k], r) /\ commands[k].src = a.access
                         /\ IsBarrierOn(commands[l], r) /\ commands[l].dst = b.access
  BY Zenon DEF ConflictsSynchronised
<1>2. Sequencing
  BY <1>1 DEF RecInv
<1>3. ~NotYet
  BY <1>1, <1>2 DEF Sequencing
<1>4. /\ Declared /\ ResultOfOrder /\ Conformant /\ ImagesUsedAsImages /\ Tracked /\ recorded \in Nat
  BY <1>1, <1>3, InOrderState
<1>5. recorded <= Len(out.order) /\ IsSeq(commands) /\ \E at : Logged(commands, at, recorded)
  BY <1>4, TrackedIn
<1>6. PICK at : Logged(commands, at, recorded)
  BY <1>5
<1>7. /\ at \in [1..recorded -> 1..Len(commands)]
      /\ \A x, y \in 1..recorded : x < y => at[x] < at[y]
      /\ \A x \in 1..recorded : commands[at[x]] = PassBody(out.order[x])
      /\ \A c \in 1..Len(commands) : commands[c].op = "pass" => \E x \in 1..recorded : at[x] = c
  BY <1>6, Zenon DEF Logged
<1>8. Len(commands) \in Nat /\ DOMAIN commands = 1..Len(commands)
  BY <1>5, SeqDomain
<1>9. PICK x \in 1..recorded : at[x] = i
  BY <1>1, <1>7, <1>8
<1>10. PICK y \in 1..recorded : at[y] = j
  BY <1>1, <1>7, <1>8
<1>11. x < y
  <2>1. i \in Nat /\ j \in Nat /\ i # j /\ ~(j < i)
    BY <1>1, <1>8
  <2>2. ~(y < x) /\ x # y
    BY <1>7, <1>9, <1>10, <2>1, Zenon
  <2> QED
    BY <1>4, <2>2
<1>12. commands[i].pass = out.order[x] /\ commands[j].pass = out.order[y]
  <2>1. commands[i] = PassBody(out.order[x]) /\ commands[j] = PassBody(out.order[y])
    BY <1>7, <1>9, <1>10, Zenon
  <2>2. \A p : PassBody(p).pass = p
    BY DEF PassBody
  <2> QED
    BY <2>1, <2>2, Zenon
<1>13. PICK u \in DOMAIN Uses(r) : a = Uses(r)[u] /\ Uses(r)[u].pass = out.order[x]
  BY <1>12 DEF AccessesOf
<1>14. PICK v \in DOMAIN Uses(r) : b = Uses(r)[v] /\ Uses(r)[v].pass = out.order[y]
  BY <1>12 DEF AccessesOf
<1>15. IsWrite(Uses(r)[u]) \/ IsWrite(Uses(r)[v])
  BY <1>1, <1>13, <1>14
<1>a. PICK n \in Nat : n = recorded
  BY <1>4
<1>b. PICK log : log = commands
  OBVIOUS
<1>16. n = recorded /\ log = commands
  BY <1>a, <1>b
<1>17. Logged(log, at, n) /\ n <= Len(out.order) /\ Len(log) \in Nat /\ x \in 1..n /\ y \in 1..n
  BY <1>5, <1>6, <1>8, <1>16
<1>18. Guarded(log, at[x], at[y], r, Uses(r)[u].access, Uses(r)[v].access)
  BY <1>4, <1>11, <1>13, <1>14, <1>15, <1>17, LoggedConflict
<1>19. Guarded(commands, i, j, r, a.access, b.access)
  BY <1>9, <1>10, <1>13, <1>14, <1>16, <1>18, Zenon
<1> QED
  BY <1>19, Zenon DEF Guarded

(* While a pass is recorded, every image it uses is in the layout that its  *)
(* access needs, for every graph the scene's loop records in the compiled   *)
(* order, if the image's declared initial layout says where its texture is  *)
(* or the first pass that uses the image uploads it.                        *)
THEOREM ImagesReady == Spec => []ImagesInDeclaredLayout
BY LayoutsReady, RecorderInvariance, PTL

(* Every transition BeginGraphPass and UpdateSubresource record on such an  *)
(* image, and the one Compile leaves for the present, starts from the       *)
(* layout the image is in or from UNDEFINED.                                *)
THEOREM TransitionsAreTruthful == Spec => []TransitionsTruthful
<1>1. RecInv => TransitionsTruthful
  BY BarriersTruthful, PresentAccurate DEF TransitionsTruthful
<1> QED
  BY <1>1, RecorderInvariance, PTL

(* Of two recorded passes that use a resource, one writing it, the second   *)
(* comes behind a barrier that waits for the first and one that makes the   *)
(* resource available to the second, in this order.                         *)
THEOREM ConflictsAreSynchronised == Spec => []ConflictsSynchronised
BY ConflictsWait, RecorderInvariance, PTL
=============================================================================
