-------------------------- MODULE CrowdSec_proofs ---------------------------
(***************************************************************************)
(* Proofs about the CrowdSec integration: between polls exactly the        *)
(* decisions of the Local API are in force, a lookup finds the strongest,  *)
(* and a disabled integration holds nothing.                               *)
(*                                                                         *)
(* The loops of the store are folds.  Induction over a set of positions    *)
(* (Induction) gives each fold its loop: values L[0], L[1], ... of which   *)
(* every one comes from the one before (WithoutLoop, BestLoop, BuiltLoop,  *)
(* DroppedLoop, SweptLoop).  A second induction shows what the loop keeps: *)
(* no parked decision beats the one in force (Sound), and what is held is  *)
(* what was put in less what was taken out.  So a store can be reasoned    *)
(* about as the set it holds.                                              *)
(*                                                                         *)
(* For the poller that set agrees with what the Local API had at the last  *)
(* pull (Agrees).  While a poll is under way it need not; then what the    *)
(* poll is about to put in does, with what it holds of its own in each     *)
(* phase (Current).  That a delta is asked for only where the store agrees *)
(* already rests on needsFullSync and on the settings in force (Asked).    *)
(***************************************************************************)
EXTENDS CrowdSec, FiniteSetTheorems, WellFoundedInduction, TLAPS

(***************************************************************************)
(* Induction and folds                                                     *)
(***************************************************************************)

(* A set of natural numbers has a least element.                           *)
LEMMA Least ==
    ASSUME NEW T, T \subseteq Nat, T # {}
    PROVE  \E m \in T : \A k \in T : m <= k
<1> DEFINE R == OpToRel(<, Nat)
<1>1. IsWellFoundedOn(R, Nat) BY NatLessThanWellFounded
<1>2. \A x, y \in Nat : <<y, x>> \in R <=> y < x BY DEF OpToRel
<1> HIDE DEF R
<1>3. PICK x \in T : \A y \in T : ~ (<<y, x>> \in R) BY <1>1, WFMin
<1>4. \A y \in T : ~ (y < x) BY <1>2, <1>3
<1>5. \A y \in T : x <= y BY <1>4
<1> QED BY <1>3, <1>5

(* Induction over a set of numbers instead of a predicate.                 *)
LEMMA Induction ==
    ASSUME NEW n \in Nat, NEW S, 0 \in S, \A k \in 0..(n - 1) : k \in S => k + 1 \in S
    PROVE  0..n \subseteq S
<1> DEFINE T == (0..n) \ S
<1> SUFFICES ASSUME T # {} PROVE FALSE OBVIOUS
<1>1. T \subseteq Nat OBVIOUS
<1>2. \E m \in T : \A k \in T : m <= k
  <2> HIDE DEF T
  <2> QED BY <1>1, Least
<1>3. PICK m \in T : \A k \in T : m <= k BY <1>2
<1>4. m # 0 /\ m - 1 \in 0..(n - 1) BY <1>3
<1>5. m - 1 \in S BY <1>3, <1>4
<1> QED BY <1>3, <1>4, <1>5

(* The largest element, if it is known.                                    *)
LEMMA MaxIs ==
    ASSUME NEW n \in Nat, NEW s \in SUBSET (1..n), n \in s
    PROVE  Max(s) = n
<1>1. \A y \in s : n >= y OBVIOUS
<1>2. \A x \in s : (\A y \in s : x >= y) => x = n BY <1>1
<1> QED BY <1>1, <1>2 DEF Max

(* A set of positions has a largest one.                                   *)
LEMMA MaxIn ==
    ASSUME NEW n \in Nat, NEW s \in SUBSET (1..n), s # {}
    PROVE  Max(s) \in s
<1> DEFINE T == {n - x : x \in s}
<1>1. T \subseteq Nat /\ T # {}
  <2>1. \A x \in s : n - x \in Nat OBVIOUS
  <2>2. PICK x \in s : TRUE OBVIOUS
  <2>3. n - x \in T BY <2>2
  <2> QED BY <2>1, <2>3
<1>2. PICK m \in T : \A k \in T : m <= k
  <2> HIDE DEF T
  <2> QED BY <1>1, Least
<1>3. PICK x \in s : m = n - x BY <1>2
<1>4. ASSUME NEW y \in s PROVE x >= y
  <2>1. n - y \in T OBVIOUS
  <2>2. n - x <= n - y BY <1>2, <1>3, <2>1
  <2> QED BY <2>2
<1> QED BY <1>4 DEF Max

(* FoldLeft over a sequence of length n, step F, is a function of sets of  *)
(* positions; there is one.                                                *)
IsFold(g, T, base, n, F) ==
    /\ g \in [SUBSET (1..n) -> T]
    /\ \A s \in SUBSET (1..n) : g[s] = IF s = {} THEN base ELSE F[<<g[s \ {Max(s)}], Max(s)>>]

LEMMA FoldExists ==
    ASSUME NEW T, NEW base \in T, NEW n \in Nat, NEW F \in [T \X (1..n) -> T]
    PROVE  \E g : IsFold(g, T, base, n, F)
<1> DEFINE Fold(m, g) == \A s \in SUBSET (1..m) : g[s] = IF s = {} THEN base ELSE F[<<g[s \ {Max(s)}], Max(s)>>]
           Has(m) == \E g \in [SUBSET (1..m) -> T] : Fold(m, g)
           S == {m \in 0..n : Has(m)}
<1>1. Has(0)
  <2>1. [s \in SUBSET (1..0) |-> base] \in [SUBSET (1..0) -> T] OBVIOUS
  <2>2. 1..0 = {} OBVIOUS
  <2>3. Fold(0, [s \in SUBSET (1..0) |-> base]) BY <2>2
  <2> HIDE DEF Fold
  <2> QED BY <2>1, <2>3
<1>2. ASSUME NEW m \in 0..(n - 1), Has(m) PROVE Has(m + 1)
  <2>1. PICK g \in [SUBSET (1..m) -> T] : Fold(m, g) BY <1>2
  <2> DEFINE h == [s \in SUBSET (1..(m + 1)) |-> IF m + 1 \in s THEN F[<<g[s \ {m + 1}], m + 1>>] ELSE g[s]]
  <2>2. \A s \in SUBSET (1..(m + 1)) : s \ {m + 1} \in SUBSET (1..m) OBVIOUS
  <2>3. \A s \in SUBSET (1..(m + 1)) : m + 1 \notin s => s \in SUBSET (1..m) OBVIOUS
  <2>4. h \in [SUBSET (1..(m + 1)) -> T]
    <3> SUFFICES ASSUME NEW s \in SUBSET (1..(m + 1)) PROVE h[s] \in T OBVIOUS
    <3>1. CASE m + 1 \in s
      <4>1. g[s \ {m + 1}] \in T BY <2>2
      <4>2. h[s] = F[<<g[s \ {m + 1}], m + 1>>] BY <3>1
      <4>3. <<g[s \ {m + 1}], m + 1>> \in T \X (1..n) BY <4>1
      <4> QED BY <4>2, <4>3
    <3>2. CASE m + 1 \notin s BY <2>3, <3>2
    <3> QED BY <3>1, <3>2
  <2>5. ASSUME NEW s \in SUBSET (1..(m + 1))
        PROVE  h[s] = IF s = {} THEN base ELSE F[<<h[s \ {Max(s)}], Max(s)>>]
    <3>1. CASE m + 1 \in s
      <4>1. Max(s) = m + 1 BY <3>1, MaxIs
      <4>2. m + 1 \notin s \ {m + 1} /\ s \ {m + 1} \in SUBSET (1..(m + 1)) OBVIOUS
      <4>3. h[s \ {m + 1}] = g[s \ {m + 1}] BY <4>2
      <4>4. h[s] = F[<<g[s \ {m + 1}], m + 1>>] BY <3>1
      <4>5. s # {} BY <3>1
      <4> HIDE DEF h
      <4> QED BY <4>1, <4>3, <4>4, <4>5
    <3>2. CASE m + 1 \notin s
      <4>1. s \in SUBSET (1..m) BY <2>3, <3>2
      <4>2. h[s] = g[s] BY <3>2
      <4>3. s \ {Max(s)} \in SUBSET (1..(m + 1)) /\ m + 1 \notin s \ {Max(s)} BY <3>2
      <4>4. h[s \ {Max(s)}] = g[s \ {Max(s)}] BY <4>3
      <4>5. g[s] = IF s = {} THEN base ELSE F[<<g[s \ {Max(s)}], Max(s)>>] BY <2>1, <4>1
      <4> HIDE DEF h
      <4> QED BY <4>2, <4>4, <4>5
    <3> QED BY <3>1, <3>2
  <2> HIDE DEF h
  <2>6. Fold(m + 1, h) BY <2>5
  <2> HIDE DEF Fold
  <2> QED BY <2>4, <2>6
<1>3. Has(n)
  <2> HIDE DEF Has
  <2>1. 0 \in S /\ \A m \in 0..(n - 1) : m \in S => m + 1 \in S BY <1>1, <1>2
  <2>2. 0..n \subseteq S
    <3> HIDE DEF S
    <3> QED BY <2>1, Induction
  <2> QED BY <2>2
<1> QED BY <1>3 DEF IsFold

(* What a fold has computed after the first k elements.                    *)
LEMMA Prefix ==
    ASSUME NEW n \in Nat, NEW k \in 1..n
    PROVE  1..k \in SUBSET (1..n) /\ 1..k # {} /\ Max(1..k) = k /\ (1..k) \ {k} = 1..(k - 1)
<1>1. k \in 1..k OBVIOUS
<1>2. 1..k \in SUBSET (1..k) OBVIOUS
<1>3. Max(1..k) = k BY <1>1, <1>2, MaxIs
<1> QED BY <1>1, <1>3

(* The loop of Without                                                     *)
LEMMA WithoutLoop ==
    ASSUME NEW q \in Seq(Decision), NEW d
    PROVE  \E L : /\ L[0] = <<>>
                  /\ \A k \in 1..Len(q) : L[k] = IF q[k] = d THEN L[k - 1] ELSE Append(L[k - 1], q[k])
                  /\ Without(q, d) = L[Len(q)]
<1> DEFINE n == Len(q)
           Is(f) == f = [t \in SUBSET DOMAIN q |->
                           IF t = {} THEN <<>>
                           ELSE IF q[Max(t)] = d THEN f[t \ {Max(t)}] ELSE Append(f[t \ {Max(t)}], q[Max(t)])]
           F == [p \in Seq(Decision) \X (1..n) |-> IF q[p[2]] = d THEN p[1] ELSE Append(p[1], q[p[2]])]
<1>1. n \in Nat /\ DOMAIN q = 1..n /\ \A k \in 1..n : q[k] \in Decision OBVIOUS
<1>2. F \in [Seq(Decision) \X (1..n) -> Seq(Decision)] BY <1>1
<1>3. <<>> \in Seq(Decision) OBVIOUS
<1>4. PICK g : IsFold(g, Seq(Decision), <<>>, n, F)
  <2> HIDE DEF F, n
  <2> QED BY <1>1, <1>2, <1>3, FoldExists
<1>5. Is(g)
  <2>1. ASSUME NEW t \in SUBSET (1..n), t # {}
        PROVE  F[<<g[t \ {Max(t)}], Max(t)>>]
                 = IF q[Max(t)] = d THEN g[t \ {Max(t)}] ELSE Append(g[t \ {Max(t)}], q[Max(t)])
    <3>1. Max(t) \in 1..n BY <1>1, <2>1, MaxIn
    <3>2. g[t \ {Max(t)}] \in Seq(Decision) BY <1>4 DEF IsFold
    <3> QED BY <3>1, <3>2
  <2> HIDE DEF F
  <2> QED BY <1>1, <1>4, <2>1 DEF IsFold
<1> DEFINE f == CHOOSE h : Is(h)
<1>6. Is(f)
  <2> HIDE DEF Is
  <2> QED BY <1>5, Zenon
<1>7. Without(q, d) = f[1..n]
  <2>1. Without(q, d) = f[DOMAIN q] BY DEF Without, FoldLeft, MapThenFoldSet
  <2> HIDE DEF f
  <2> QED BY <1>1, <2>1
<1> DEFINE L == [k \in 0..n |-> f[1..k]]
<1> HIDE DEF f
<1>8. L[0] = <<>> /\ L[n] = Without(q, d)
  <2>1. 1..0 = {} OBVIOUS
  <2> QED BY <1>1, <1>6, <1>7, <2>1
<1>9. ASSUME NEW k \in 1..n
      PROVE  L[k] = IF q[k] = d THEN L[k - 1] ELSE Append(L[k - 1], q[k])
  <2>1. 1..k \in SUBSET (1..n) /\ 1..k # {} /\ Max(1..k) = k /\ (1..k) \ {k} = 1..(k - 1) BY <1>1, Prefix
  <2>2. \A t \in SUBSET (1..n) : t # {} =>
           f[t] = IF q[Max(t)] = d THEN f[t \ {Max(t)}] ELSE Append(f[t \ {Max(t)}], q[Max(t)])
    BY <1>1, <1>6
  <2>3. f[1..k] = IF q[k] = d THEN f[1..(k - 1)] ELSE Append(f[1..(k - 1)], q[k])
    <3> HIDE DEF Is
    <3> QED BY <2>1, <2>2
  <2> QED BY <2>3
<1> HIDE DEF L
<1> QED BY <1>8, <1>9

LEMMA ToSetAppend ==
    ASSUME NEW S, NEW q \in Seq(S), NEW e \in S
    PROVE  ToSet(Append(q, e)) = ToSet(q) \union {e}
<1> DEFINE r == Append(q, e)
<1>1. Len(r) = Len(q) + 1 /\ DOMAIN r = 1..(Len(q) + 1) /\ DOMAIN q = 1..Len(q) OBVIOUS
<1>2. \A i \in 1..Len(q) : r[i] = q[i] OBVIOUS
<1>3. r[Len(q) + 1] = e OBVIOUS
<1> HIDE DEF r
<1>4. ASSUME NEW x \in ToSet(r) PROVE x \in ToSet(q) \union {e}
  <2>1. PICK i \in DOMAIN r : x = r[i] BY DEF ToSet
  <2> QED BY <1>1, <1>2, <1>3, <2>1 DEF ToSet
<1>5. ASSUME NEW x \in ToSet(q) \union {e} PROVE x \in ToSet(r)
  <2>1. CASE x = e BY <1>1, <1>3, <2>1 DEF ToSet
  <2>2. CASE x \in ToSet(q)
    <3>1. PICK i \in DOMAIN q : x = q[i] BY <2>2 DEF ToSet
    <3>2. i \in DOMAIN r /\ x = r[i] BY <1>1, <1>2, <3>1
    <3> QED BY <3>2 DEF ToSet
  <2> QED BY <2>1, <2>2
<1> QED BY <1>4, <1>5 DEF r

(* What is filtered out is gone, the rest is still there.                  *)
LEMMA WithoutSet ==
    ASSUME NEW q \in Seq(Decision), NEW d
    PROVE  Without(q, d) \in Seq(Decision) /\ ToSet(Without(q, d)) = ToSet(q) \ {d}
<1>1. PICK L : /\ L[0] = <<>>
               /\ \A k \in 1..Len(q) : L[k] = IF q[k] = d THEN L[k - 1] ELSE Append(L[k - 1], q[k])
               /\ Without(q, d) = L[Len(q)]
  BY WithoutLoop
<1> DEFINE Upto(k) == {q[i] : i \in 1..k}
           Ok(k) == L[k] \in Seq(Decision) /\ ToSet(L[k]) = Upto(k) \ {d}
           S == {k \in 0..Len(q) : Ok(k)}
<1>2. Ok(0)
  <2>1. ToSet(<<>>) = {} BY DEF ToSet
  <2>2. Upto(0) = {} OBVIOUS
  <2> QED BY <1>1, <2>1, <2>2
<1>3. ASSUME NEW k \in 0..(Len(q) - 1), Ok(k) PROVE Ok(k + 1)
  <2>1. q[k + 1] \in Decision /\ L[k + 1] = IF q[k + 1] = d THEN L[k] ELSE Append(L[k], q[k + 1]) BY <1>1
  <2>2. Upto(k + 1) = Upto(k) \union {q[k + 1]}
    <3>1. 1..(k + 1) = (1..k) \union {k + 1} OBVIOUS
    <3> QED BY <3>1
  <2>3. ToSet(Append(L[k], q[k + 1])) = ToSet(L[k]) \union {q[k + 1]} BY <1>3, <2>1, ToSetAppend
  <2> HIDE DEF Upto
  <2> QED BY <1>3, <2>1, <2>2, <2>3
<1>4. Ok(Len(q))
  <2> HIDE DEF Ok
  <2>1. 0 \in S /\ \A k \in 0..(Len(q) - 1) : k \in S => k + 1 \in S BY <1>2, <1>3
  <2>2. 0..Len(q) \subseteq S
    <3> HIDE DEF S
    <3> QED BY <2>1, Induction
  <2> QED BY <2>2
<1>5. Upto(Len(q)) = ToSet(q) BY DEF ToSet
<1> QED BY <1>1, <1>4, <1>5

(* The loop of Best                                                        *)
LEMMA BestLoop ==
    ASSUME NEW q \in Seq(Decision), q # <<>>
    PROVE  \E L : /\ L[0] = Head(q)
                  /\ \A k \in 1..Len(q) : L[k] = IF Outranks(q[k], L[k - 1]) THEN q[k] ELSE L[k - 1]
                  /\ Best(q) = L[Len(q)]
<1> DEFINE n == Len(q)
           Is(f) == f = [t \in SUBSET DOMAIN q |->
                           IF t = {} THEN Head(q)
                           ELSE IF Outranks(q[Max(t)], f[t \ {Max(t)}]) THEN q[Max(t)] ELSE f[t \ {Max(t)}]]
           F == [p \in Decision \X (1..n) |-> IF Outranks(q[p[2]], p[1]) THEN q[p[2]] ELSE p[1]]
<1>1. n \in Nat /\ DOMAIN q = 1..n /\ \A k \in 1..n : q[k] \in Decision OBVIOUS
<1>2. F \in [Decision \X (1..n) -> Decision] BY <1>1
<1>3. Head(q) \in Decision OBVIOUS
<1>4. PICK g : IsFold(g, Decision, Head(q), n, F)
  <2> HIDE DEF F, n
  <2> QED BY <1>1, <1>2, <1>3, FoldExists
<1>5. Is(g)
  <2>1. ASSUME NEW t \in SUBSET (1..n), t # {}
        PROVE  F[<<g[t \ {Max(t)}], Max(t)>>]
                 = IF Outranks(q[Max(t)], g[t \ {Max(t)}]) THEN q[Max(t)] ELSE g[t \ {Max(t)}]
    <3>1. Max(t) \in 1..n BY <1>1, <2>1, MaxIn
    <3>2. g[t \ {Max(t)}] \in Decision BY <1>4 DEF IsFold
    <3> QED BY <3>1, <3>2
  <2> HIDE DEF F
  <2> QED BY <1>1, <1>4, <2>1 DEF IsFold
<1> DEFINE f == CHOOSE h : Is(h)
<1>6. Is(f)
  <2> HIDE DEF Is
  <2> QED BY <1>5, Zenon
<1>7. Best(q) = f[1..n]
  <2>1. Best(q) = f[DOMAIN q] BY DEF Best, FoldLeft, MapThenFoldSet
  <2> HIDE DEF f
  <2> QED BY <1>1, <2>1
<1> DEFINE L == [k \in 0..n |-> f[1..k]]
<1> HIDE DEF f
<1>8. L[0] = Head(q) /\ L[n] = Best(q)
  <2>1. 1..0 = {} OBVIOUS
  <2> QED BY <1>1, <1>6, <1>7, <2>1
<1>9. ASSUME NEW k \in 1..n
      PROVE  L[k] = IF Outranks(q[k], L[k - 1]) THEN q[k] ELSE L[k - 1]
  <2>1. 1..k \in SUBSET (1..n) /\ 1..k # {} /\ Max(1..k) = k /\ (1..k) \ {k} = 1..(k - 1) BY <1>1, Prefix
  <2>2. \A t \in SUBSET (1..n) : t # {} =>
           f[t] = IF Outranks(q[Max(t)], f[t \ {Max(t)}]) THEN q[Max(t)] ELSE f[t \ {Max(t)}]
    BY <1>1, <1>6
  <2>3. f[1..k] = IF Outranks(q[k], f[1..(k - 1)]) THEN q[k] ELSE f[1..(k - 1)]
    <3> HIDE DEF Is
    <3> QED BY <2>1, <2>2
  <2> QED BY <2>3
<1> HIDE DEF L
<1> QED BY <1>8, <1>9

(* d does not beat b.                                                      *)
Dominates(b, d) == Outranks(d, b) => Outranks(b, d)

LEMMA DominatesIs ==
    ASSUME NEW b \in Decision, NEW d \in Decision
    PROVE  /\ Outranks(b, d) \in BOOLEAN
           /\ Dominates(b, d) <=> \/ b \in Ban /\ d \notin Ban
                                  \/ /\ b \in Ban <=> d \in Ban
                                     /\ Expiry[b] = Never \/ (Expiry[d] # Never /\ Expiry[b] >= Expiry[d])
<1>1. Expiry[b] \in Nat \union {Never} /\ Expiry[d] \in Nat \union {Never} BY ExpiryType
<1>2. Never \notin Nat BY ExpiryType
<1>3. CASE b \in Ban /\ d \notin Ban BY <1>3 DEF Dominates, Outranks
<1>4. CASE b \notin Ban /\ d \in Ban
  <2>1. Outranks(b, d) = FALSE /\ Outranks(d, b) = TRUE BY <1>4 DEF Outranks
  <2> QED BY <1>4, <2>1 DEF Dominates
<1>5. CASE b \in Ban <=> d \in Ban
  <2>1. Outranks(b, d) = Later(b, d) /\ Outranks(d, b) = Later(d, b) BY <1>5 DEF Outranks
  <2>2. CASE Expiry[b] = Never BY <1>1, <1>2, <1>5, <2>1, <2>2 DEF Dominates, Later
  <2>3. CASE Expiry[d] = Never /\ Expiry[b] # Never BY <1>1, <1>2, <1>5, <2>1, <2>3 DEF Dominates, Later
  <2>4. CASE Expiry[d] # Never /\ Expiry[b] # Never
    <3>1. Expiry[b] \in Nat /\ Expiry[d] \in Nat BY <1>1, <2>4
    <3>2. Outranks(b, d) = (Expiry[b] > Expiry[d]) /\ Outranks(d, b) = (Expiry[d] > Expiry[b])
      BY <2>1, <2>4 DEF Later
    <3>3. Dominates(b, d) <=> (Expiry[d] > Expiry[b] => Expiry[b] > Expiry[d]) BY <3>2, Zenon DEF Dominates
    <3>4. (Expiry[d] > Expiry[b] => Expiry[b] > Expiry[d]) <=> Expiry[b] >= Expiry[d] BY <3>1
    <3> QED BY <1>5, <2>4, <3>2, <3>3, <3>4
  <2> QED BY <2>2, <2>3, <2>4
<1> QED BY <1>3, <1>4, <1>5

LEMMA DominatesTransitive ==
    ASSUME NEW a \in Decision, NEW b \in Decision, NEW c \in Decision, Dominates(a, b), Dominates(b, c)
    PROVE  Dominates(a, c)
<1>1. Never \notin Nat /\ \A d \in Decision : Expiry[d] \in Nat \union {Never} BY ExpiryType
<1> QED BY <1>1, DominatesIs

(* The best of the parked decisions is one of them, and none beats it.     *)
LEMMA BestSet ==
    ASSUME NEW q \in Seq(Decision), q # <<>>
    PROVE  Best(q) \in ToSet(q) /\ Best(q) \in Decision /\ \A d \in ToSet(q) : Dominates(Best(q), d)
<1>1. PICK L : /\ L[0] = Head(q)
               /\ \A k \in 1..Len(q) : L[k] = IF Outranks(q[k], L[k - 1]) THEN q[k] ELSE L[k - 1]
               /\ Best(q) = L[Len(q)]
  BY BestLoop
<1> DEFINE Ok(k) == L[k] \in ToSet(q) /\ \A i \in 1..k : Dominates(L[k], q[i])
           S == {k \in 0..Len(q) : Ok(k)}
<1>2. Ok(0)
  <2>1. Head(q) = q[1] /\ 1 \in DOMAIN q OBVIOUS
  <2> QED BY <1>1, <2>1 DEF ToSet
<1>3. \A x \in ToSet(q) : x \in Decision BY DEF ToSet
<1>4. ASSUME NEW k \in 0..(Len(q) - 1), Ok(k) PROVE Ok(k + 1)
  <2>1. L[k + 1] = IF Outranks(q[k + 1], L[k]) THEN q[k + 1] ELSE L[k] BY <1>1
  <2>2. q[k + 1] \in ToSet(q) BY DEF ToSet
  <2>3. q[k + 1] \in Decision /\ L[k] \in Decision /\ \A i \in 1..k : q[i] \in Decision BY <1>3, <1>4, <2>2
  <2>4. Dominates(L[k + 1], q[k + 1]) /\ Dominates(L[k + 1], L[k]) BY <2>1, <2>3, DominatesIs DEF Dominates
  <2>5. L[k + 1] \in ToSet(q) /\ L[k + 1] \in Decision BY <1>4, <2>1, <2>2, <2>3
  <2>6. ASSUME NEW i \in 1..(k + 1) PROVE Dominates(L[k + 1], q[i])
    <3>1. CASE i = k + 1 BY <2>4, <3>1
    <3>2. CASE i # k + 1
      <4>1. i \in 1..k BY <3>2
      <4> QED BY <1>4, <2>3, <2>4, <2>5, <4>1, DominatesTransitive
    <3> QED BY <3>1, <3>2
  <2> QED BY <2>5, <2>6
<1>5. Ok(Len(q))
  <2> HIDE DEF Ok
  <2>1. 0 \in S /\ \A k \in 0..(Len(q) - 1) : k \in S => k + 1 \in S BY <1>2, <1>4
  <2>2. 0..Len(q) \subseteq S
    <3> HIDE DEF S
    <3> QED BY <2>1, Induction
  <2> QED BY <2>2
<1> QED BY <1>1, <1>3, <1>5 DEF ToSet

(***************************************************************************)
(* The store                                                               *)
(***************************************************************************)

(* Nothing is parked behind nothing, or behind itself, and no parked       *)
(* decision beats the one in force.                                        *)
Sound(st) ==
    /\ st.top = NoDecision => st.parked = <<>>
    /\ st.top \notin ToSet(st.parked)
    /\ \A d \in ToSet(st.parked) : Dominates(st.top, d)

Stores == {st \in Store : Sound(st)}

LEMMA ParkedDecisions ==
    ASSUME NEW q \in Seq(Decision)
    PROVE  ToSet(q) \subseteq Decision /\ ToSet(<<>>) = {} /\ (ToSet(q) = {} => q = <<>>)
<1>1. ASSUME q # <<>> PROVE q[1] \in ToSet(q) BY <1>1 DEF ToSet
<1> QED BY <1>1 DEF ToSet

LEMMA EmptyStore == Empty \in Stores /\ Held(Empty) = {}
<1>1. ToSet(<<>>) = {} BY DEF ToSet
<1> QED BY <1>1 DEF Empty, Stores, Store, Sound, Held

LEMMA InsertedStore ==
    ASSUME NEW st \in Stores, NEW d \in Decision
    PROVE  Inserted(st, d) \in Stores /\ Held(Inserted(st, d)) = Held(st) \union {d}
<1>1. st \in Store /\ Sound(st) BY DEF Stores
<1>2. d # NoDecision BY BansAreDecisions
<1> DEFINE rest == Without(st.parked, d)
<1>3. rest \in Seq(Decision) /\ ToSet(rest) = ToSet(st.parked) \ {d} BY <1>1, WithoutSet DEF Store
<1>4. CASE st.top \in {NoDecision, d}
  <2>1. Inserted(st, d) = [st EXCEPT !.top = d] BY <1>4 DEF Inserted
  <2>2. ToSet(<<>>) = {} BY DEF ToSet
  <2>3. [st EXCEPT !.top = d].top = d /\ [st EXCEPT !.top = d].parked = st.parked BY <1>1 DEF Store
  <2>4. [st EXCEPT !.top = d] \in Store BY <1>1 DEF Store
  <2> QED BY <1>1, <1>2, <1>4, <2>1, <2>2, <2>3, <2>4 DEF Stores, Sound, Held
<1>5. CASE st.top \notin {NoDecision, d}
  <2>1. st.top \in Decision /\ ToSet(st.parked) \subseteq Decision BY <1>1, <1>5, ParkedDecisions DEF Store
  <2>2. CASE Outranks(d, st.top)
    <3> DEFINE new == [top |-> d, parked |-> Append(rest, st.top)]
    <3>1. Inserted(st, d) = new BY <1>5, <2>2 DEF Inserted
    <3>2. new \in Store BY <1>3, <2>1 DEF Store
    <3>3. ToSet(new.parked) = ToSet(rest) \union {st.top} BY <1>3, <2>1, ToSetAppend
    <3>4. Dominates(d, st.top) BY <2>2 DEF Dominates
    <3>5. \A e \in ToSet(new.parked) : Dominates(d, e)
      BY <1>1, <1>3, <2>1, <3>3, <3>4, DominatesTransitive DEF Sound
    <3>6. new.top = d OBVIOUS
    <3>7. Sound(new) BY <1>2, <1>3, <1>5, <3>3, <3>5, <3>6 DEF Sound
    <3>8. Held(new) = Held(st) \union {d} BY <1>2, <1>3, <1>5, <3>3, <3>6 DEF Held
    <3> QED BY <3>1, <3>2, <3>7, <3>8 DEF Stores
  <2>3. CASE ~Outranks(d, st.top)
    <3> DEFINE new == [st EXCEPT !.parked = Append(rest, d)]
    <3>1. Inserted(st, d) = new BY <1>5, <2>3 DEF Inserted
    <3>2. new \in Store
      <4>1. Append(rest, d) \in Seq(Decision) BY <1>3
      <4> HIDE DEF rest
      <4> QED BY <1>1, <4>1 DEF Store
    <3>3. new.top = st.top /\ new.parked = Append(rest, d) BY <1>1 DEF Store
    <3>4. ToSet(new.parked) = ToSet(rest) \union {d} BY <1>3, <3>3, ToSetAppend
    <3>5. Dominates(st.top, d) BY <2>3 DEF Dominates
    <3> HIDE DEF new
    <3>6. Sound(new) BY <1>1, <1>3, <1>5, <3>3, <3>4, <3>5 DEF Sound
    <3>7. Held(new) = Held(st) \union {d} BY <1>3, <1>5, <3>3, <3>4 DEF Held
    <3> QED BY <3>1, <3>2, <3>6, <3>7 DEF Stores
  <2> QED BY <2>2, <2>3
<1> QED BY <1>4, <1>5

LEMMA RemovedStore ==
    ASSUME NEW st \in Stores, NEW d \in Decision
    PROVE  Removed(st, d) \in Stores /\ Held(Removed(st, d)) = Held(st) \ {d}
<1>1. st \in Store /\ Sound(st) /\ st.parked \in Seq(Decision) BY DEF Stores, Store
<1>2. d # NoDecision BY BansAreDecisions
<1>3. ToSet(st.parked) \subseteq Decision /\ ToSet(<<>>) = {} BY <1>1, ParkedDecisions
<1>4. CASE st.top # d
  <2> DEFINE new == [st EXCEPT !.parked = Without(st.parked, d)]
  <2>1. Removed(st, d) = new BY <1>4 DEF Removed
  <2>2. Without(st.parked, d) \in Seq(Decision) /\ ToSet(Without(st.parked, d)) = ToSet(st.parked) \ {d}
    BY <1>1, WithoutSet
  <2>3. new \in Store /\ new.top = st.top /\ new.parked = Without(st.parked, d) BY <1>1, <2>2 DEF Store
  <2> HIDE DEF new
  <2>4. st.top = NoDecision => new.parked = <<>>
    <3> HAVE st.top = NoDecision
    <3>1. ToSet(new.parked) = {} BY <1>1, <1>3, <2>2, <2>3 DEF Sound
    <3> QED BY <2>2, <2>3, <3>1, ParkedDecisions
  <2>5. Sound(new) BY <1>1, <2>2, <2>3, <2>4 DEF Sound
  <2>6. Held(new) = Held(st) \ {d} BY <1>4, <2>2, <2>3 DEF Held
  <2> QED BY <2>1, <2>3, <2>5, <2>6 DEF Stores
<1>5. CASE st.top = d /\ st.parked = <<>>
  <2>1. Removed(st, d) = Empty BY <1>5 DEF Removed
  <2>2. Held(st) = {d} BY <1>2, <1>3, <1>5 DEF Held
  <2> QED BY <2>1, <2>2, EmptyStore
<1>6. CASE st.top = d /\ st.parked # <<>>
  <2> DEFINE best == Best(st.parked)
             new == [top |-> best, parked |-> Without(st.parked, best)]
  <2>1. Removed(st, d) = new BY <1>6 DEF Removed
  <2>2. best \in ToSet(st.parked) /\ best \in Decision /\ \A e \in ToSet(st.parked) : Dominates(best, e)
    BY <1>1, <1>6, BestSet
  <2> HIDE DEF best
  <2>3. Without(st.parked, best) \in Seq(Decision) /\ ToSet(Without(st.parked, best)) = ToSet(st.parked) \ {best}
    BY <1>1, WithoutSet
  <2>4. new \in Store /\ new.top = best /\ new.parked = Without(st.parked, best) BY <2>2, <2>3 DEF Store
  <2> HIDE DEF new
  <2>5. Sound(new) BY <2>2, <2>3, <2>4, BansAreDecisions DEF Sound
  <2>6. Held(new) = ToSet(st.parked) BY <2>2, <2>3, <2>4, BansAreDecisions DEF Held
  <2>7. Held(st) \ {d} = ToSet(st.parked) BY <1>1, <1>6 DEF Held, Sound
  <2> QED BY <2>1, <2>4, <2>5, <2>6, <2>7 DEF Stores
<1> QED BY <1>4, <1>5, <1>6

(* The loop of Built                                                       *)
LEMMA BuiltLoop ==
    ASSUME NEW st \in Stores, NEW q \in Seq(Decision), NEW t0
    PROVE  \E L : /\ L[0] = st
                  /\ \A k \in 1..Len(q) : L[k] = IF InForce(q[k], t0) THEN Inserted(L[k - 1], q[k]) ELSE L[k - 1]
                  /\ Built(st, q, t0) = L[Len(q)]
<1> DEFINE n == Len(q)
           Is(f) == f = [t \in SUBSET DOMAIN q |->
                           IF t = {} THEN st
                           ELSE IF InForce(q[Max(t)], t0) THEN Inserted(f[t \ {Max(t)}], q[Max(t)]) ELSE f[t \ {Max(t)}]]
           F == [p \in Stores \X (1..n) |-> IF InForce(q[p[2]], t0) THEN Inserted(p[1], q[p[2]]) ELSE p[1]]
<1>1. n \in Nat /\ DOMAIN q = 1..n /\ \A k \in 1..n : q[k] \in Decision OBVIOUS
<1>2. F \in [Stores \X (1..n) -> Stores] BY <1>1, InsertedStore
<1>3. st \in Stores OBVIOUS
<1>4. PICK g : IsFold(g, Stores, st, n, F)
  <2> HIDE DEF F, n
  <2> QED BY <1>1, <1>2, <1>3, FoldExists
<1>5. Is(g)
  <2>1. ASSUME NEW t \in SUBSET (1..n), t # {}
        PROVE  F[<<g[t \ {Max(t)}], Max(t)>>]
                 = IF InForce(q[Max(t)], t0) THEN Inserted(g[t \ {Max(t)}], q[Max(t)]) ELSE g[t \ {Max(t)}]
    <3>1. Max(t) \in 1..n BY <1>1, <2>1, MaxIn
    <3>2. g[t \ {Max(t)}] \in Stores BY <1>4 DEF IsFold
    <3> QED BY <3>1, <3>2
  <2> HIDE DEF F
  <2> QED BY <1>1, <1>4, <2>1 DEF IsFold
<1> DEFINE f == CHOOSE h : Is(h)
<1>6. Is(f)
  <2> HIDE DEF Is
  <2> QED BY <1>5, Zenon
<1>7. Built(st, q, t0) = f[1..n]
  <2>1. Built(st, q, t0) = f[DOMAIN q] BY DEF Built, FoldLeft, MapThenFoldSet
  <2> HIDE DEF f
  <2> QED BY <1>1, <2>1
<1> DEFINE L == [k \in 0..n |-> f[1..k]]
<1> HIDE DEF f
<1>8. L[0] = st /\ L[n] = Built(st, q, t0)
  <2>1. 1..0 = {} OBVIOUS
  <2> QED BY <1>1, <1>6, <1>7, <2>1
<1>9. ASSUME NEW k \in 1..n
      PROVE  L[k] = IF InForce(q[k], t0) THEN Inserted(L[k - 1], q[k]) ELSE L[k - 1]
  <2>1. 1..k \in SUBSET (1..n) /\ 1..k # {} /\ Max(1..k) = k /\ (1..k) \ {k} = 1..(k - 1) BY <1>1, Prefix
  <2>2. \A t \in SUBSET (1..n) : t # {} =>
           f[t] = IF InForce(q[Max(t)], t0) THEN Inserted(f[t \ {Max(t)}], q[Max(t)]) ELSE f[t \ {Max(t)}]
    BY <1>1, <1>6
  <2>3. f[1..k] = IF InForce(q[k], t0) THEN Inserted(f[1..(k - 1)], q[k]) ELSE f[1..(k - 1)]
    <3> HIDE DEF Is
    <3> QED BY <2>1, <2>2
  <2> QED BY <2>3
<1> HIDE DEF L
<1> QED BY <1>8, <1>9

(* The loop of Dropped                                                     *)
LEMMA DroppedLoop ==
    ASSUME NEW st \in Stores, NEW q \in Seq(Decision)
    PROVE  \E L : /\ L[0] = st
                  /\ \A k \in 1..Len(q) : L[k] = Removed(L[k - 1], q[k])
                  /\ Dropped(st, q) = L[Len(q)]
<1> DEFINE n == Len(q)
           Is(f) == f = [t \in SUBSET DOMAIN q |->
                           IF t = {} THEN st
                           ELSE Removed(f[t \ {Max(t)}], q[Max(t)])]
           F == [p \in Stores \X (1..n) |-> Removed(p[1], q[p[2]])]
<1>1. n \in Nat /\ DOMAIN q = 1..n /\ \A k \in 1..n : q[k] \in Decision OBVIOUS
<1>2. F \in [Stores \X (1..n) -> Stores] BY <1>1, RemovedStore
<1>3. st \in Stores OBVIOUS
<1>4. PICK g : IsFold(g, Stores, st, n, F)
  <2> HIDE DEF F, n
  <2> QED BY <1>1, <1>2, <1>3, FoldExists
<1>5. Is(g)
  <2>1. ASSUME NEW t \in SUBSET (1..n), t # {}
        PROVE  F[<<g[t \ {Max(t)}], Max(t)>>]
                 = Removed(g[t \ {Max(t)}], q[Max(t)])
    <3>1. Max(t) \in 1..n BY <1>1, <2>1, MaxIn
    <3>2. g[t \ {Max(t)}] \in Stores BY <1>4 DEF IsFold
    <3> QED BY <3>1, <3>2
  <2> HIDE DEF F
  <2> QED BY <1>1, <1>4, <2>1 DEF IsFold
<1> DEFINE f == CHOOSE h : Is(h)
<1>6. Is(f)
  <2> HIDE DEF Is
  <2> QED BY <1>5, Zenon
<1>7. Dropped(st, q) = f[1..n]
  <2>1. Dropped(st, q) = f[DOMAIN q] BY DEF Dropped, FoldLeft, MapThenFoldSet
  <2> HIDE DEF f
  <2> QED BY <1>1, <2>1
<1> DEFINE L == [k \in 0..n |-> f[1..k]]
<1> HIDE DEF f
<1>8. L[0] = st /\ L[n] = Dropped(st, q)
  <2>1. 1..0 = {} OBVIOUS
  <2> QED BY <1>1, <1>6, <1>7, <2>1
<1>9. ASSUME NEW k \in 1..n
      PROVE  L[k] = Removed(L[k - 1], q[k])
  <2>1. 1..k \in SUBSET (1..n) /\ 1..k # {} /\ Max(1..k) = k /\ (1..k) \ {k} = 1..(k - 1) BY <1>1, Prefix
  <2>2. \A t \in SUBSET (1..n) : t # {} =>
           f[t] = Removed(f[t \ {Max(t)}], q[Max(t)])
    BY <1>1, <1>6
  <2>3. f[1..k] = Removed(f[1..(k - 1)], q[k])
    <3> HIDE DEF Is
    <3> QED BY <2>1, <2>2
  <2> QED BY <2>3
<1> HIDE DEF L
<1> QED BY <1>8, <1>9

(* The loop of Swept                                                       *)
LEMMA SweptLoop ==
    ASSUME NEW st \in Stores, NEW q \in Seq(Decision), q = Exported(st), NEW t0
    PROVE  \E L : /\ L[0] = st
                  /\ \A k \in 1..Len(q) : L[k] = IF InForce(q[k], t0) THEN L[k - 1] ELSE Removed(L[k - 1], q[k])
                  /\ Swept(st, t0) = L[Len(q)]
<1> DEFINE n == Len(q)
           Is(f) == f = [t \in SUBSET DOMAIN q |->
                           IF t = {} THEN st
                           ELSE IF InForce(q[Max(t)], t0) THEN f[t \ {Max(t)}] ELSE Removed(f[t \ {Max(t)}], q[Max(t)])]
           F == [p \in Stores \X (1..n) |-> IF InForce(q[p[2]], t0) THEN p[1] ELSE Removed(p[1], q[p[2]])]
<1>1. n \in Nat /\ DOMAIN q = 1..n /\ \A k \in 1..n : q[k] \in Decision OBVIOUS
<1>2. F \in [Stores \X (1..n) -> Stores] BY <1>1, RemovedStore
<1>3. st \in Stores OBVIOUS
<1>4. PICK g : IsFold(g, Stores, st, n, F)
  <2> HIDE DEF F, n
  <2> QED BY <1>1, <1>2, <1>3, FoldExists
<1>5. Is(g)
  <2>1. ASSUME NEW t \in SUBSET (1..n), t # {}
        PROVE  F[<<g[t \ {Max(t)}], Max(t)>>]
                 = IF InForce(q[Max(t)], t0) THEN g[t \ {Max(t)}] ELSE Removed(g[t \ {Max(t)}], q[Max(t)])
    <3>1. Max(t) \in 1..n BY <1>1, <2>1, MaxIn
    <3>2. g[t \ {Max(t)}] \in Stores BY <1>4 DEF IsFold
    <3> QED BY <3>1, <3>2
  <2> HIDE DEF F
  <2> QED BY <1>1, <1>4, <2>1 DEF IsFold
<1> DEFINE f == CHOOSE h : Is(h)
<1>6. Is(f)
  <2> HIDE DEF Is
  <2> QED BY <1>5, Zenon
<1>7. Swept(st, t0) = f[1..n]
  <2>1. Swept(st, t0) = f[DOMAIN q] BY DEF Swept, FoldLeft, MapThenFoldSet
  <2> HIDE DEF f
  <2> QED BY <1>1, <2>1
<1> DEFINE L == [k \in 0..n |-> f[1..k]]
<1> HIDE DEF f
<1>8. L[0] = st /\ L[n] = Swept(st, t0)
  <2>1. 1..0 = {} OBVIOUS
  <2> QED BY <1>1, <1>6, <1>7, <2>1
<1>9. ASSUME NEW k \in 1..n
      PROVE  L[k] = IF InForce(q[k], t0) THEN L[k - 1] ELSE Removed(L[k - 1], q[k])
  <2>1. 1..k \in SUBSET (1..n) /\ 1..k # {} /\ Max(1..k) = k /\ (1..k) \ {k} = 1..(k - 1) BY <1>1, Prefix
  <2>2. \A t \in SUBSET (1..n) : t # {} =>
           f[t] = IF InForce(q[Max(t)], t0) THEN f[t \ {Max(t)}] ELSE Removed(f[t \ {Max(t)}], q[Max(t)])
    BY <1>1, <1>6
  <2>3. f[1..k] = IF InForce(q[k], t0) THEN f[1..(k - 1)] ELSE Removed(f[1..(k - 1)], q[k])
    <3> HIDE DEF Is
    <3> QED BY <2>1, <2>2
  <2> QED BY <2>3
<1> HIDE DEF L
<1> QED BY <1>8, <1>9

(* What has been built holds what was held and what is in force of the     *)
(* list.                                                                   *)
LEMMA BuiltStore ==
    ASSUME NEW st \in Stores, NEW q \in Seq(Decision), NEW t0
    PROVE  /\ Built(st, q, t0) \in Stores
           /\ Held(Built(st, q, t0)) = Held(st) \union {d \in ToSet(q) : InForce(d, t0)}
<1>1. PICK L : /\ L[0] = st
               /\ \A k \in 1..Len(q) : L[k] = IF InForce(q[k], t0) THEN Inserted(L[k - 1], q[k]) ELSE L[k - 1]
               /\ Built(st, q, t0) = L[Len(q)]
  BY BuiltLoop
<1> DEFINE Ok(k) == /\ L[k] \in Stores
                    /\ \A d : d \in Held(L[k]) <=> d \in Held(st) \/ \E i \in 1..k : d = q[i] /\ InForce(d, t0)
           S == {k \in 0..Len(q) : Ok(k)}
<1>2. Ok(0) BY <1>1
<1>3. ASSUME NEW k \in 0..(Len(q) - 1), Ok(k) PROVE Ok(k + 1)
  <2>1. k + 1 \in 1..Len(q) /\ (k + 1) - 1 = k /\ q[k + 1] \in Decision OBVIOUS
  <2>2. L[k + 1] = IF InForce(q[k + 1], t0) THEN Inserted(L[k], q[k + 1]) ELSE L[k] BY <1>1, <2>1
  <2>3. \A i : i \in 1..(k + 1) <=> i \in 1..k \/ i = k + 1 OBVIOUS
  <2>4. CASE InForce(q[k + 1], t0)
    <3>1. L[k + 1] \in Stores /\ Held(L[k + 1]) = Held(L[k]) \union {q[k + 1]} BY <1>3, <2>1, <2>2, <2>4, InsertedStore
    <3> QED BY <1>3, <2>3, <2>4, <3>1
  <2>5. CASE ~InForce(q[k + 1], t0) BY <1>3, <2>2, <2>3, <2>5
  <2> QED BY <2>4, <2>5
<1>4. Ok(Len(q))
  <2> HIDE DEF Ok
  <2>1. 0 \in S /\ \A k \in 0..(Len(q) - 1) : k \in S => k + 1 \in S BY <1>2, <1>3
  <2>2. 0..Len(q) \subseteq S
    <3> HIDE DEF S
    <3> QED BY <2>1, Induction
  <2> QED BY <2>2
<1> QED BY <1>1, <1>4 DEF ToSet

LEMMA DroppedStore ==
    ASSUME NEW st \in Stores, NEW q \in Seq(Decision)
    PROVE  Dropped(st, q) \in Stores /\ Held(Dropped(st, q)) = Held(st) \ ToSet(q)
<1>1. PICK L : /\ L[0] = st
               /\ \A k \in 1..Len(q) : L[k] = Removed(L[k - 1], q[k])
               /\ Dropped(st, q) = L[Len(q)]
  BY DroppedLoop
<1> DEFINE Ok(k) == /\ L[k] \in Stores
                    /\ \A d : d \in Held(L[k]) <=> d \in Held(st) /\ \A i \in 1..k : d # q[i]
           S == {k \in 0..Len(q) : Ok(k)}
<1>2. Ok(0) BY <1>1
<1>3. ASSUME NEW k \in 0..(Len(q) - 1), Ok(k) PROVE Ok(k + 1)
  <2>1. k + 1 \in 1..Len(q) /\ (k + 1) - 1 = k /\ q[k + 1] \in Decision OBVIOUS
  <2>2. L[k + 1] = Removed(L[k], q[k + 1]) BY <1>1, <2>1
  <2>3. \A i : i \in 1..(k + 1) <=> i \in 1..k \/ i = k + 1 OBVIOUS
  <2>4. L[k + 1] \in Stores /\ Held(L[k + 1]) = Held(L[k]) \ {q[k + 1]} BY <1>3, <2>1, <2>2, RemovedStore
  <2> QED BY <1>3, <2>3, <2>4
<1>4. Ok(Len(q))
  <2> HIDE DEF Ok
  <2>1. 0 \in S /\ \A k \in 0..(Len(q) - 1) : k \in S => k + 1 \in S BY <1>2, <1>3
  <2>2. 0..Len(q) \subseteq S
    <3> HIDE DEF S
    <3> QED BY <2>1, Induction
  <2> QED BY <2>2
<1> QED BY <1>1, <1>4 DEF ToSet

LEMMA ExportedSet ==
    ASSUME NEW st \in Stores
    PROVE  Exported(st) \in Seq(Decision) /\ ToSet(Exported(st)) = Held(st)
<1>1. st \in Store /\ Sound(st) /\ st.parked \in Seq(Decision) /\ ToSet(<<>>) = {}
  BY ParkedDecisions DEF Stores, Store
<1>2. CASE st.top = NoDecision
  <2>1. Exported(st) = <<>> BY <1>1, <1>2 DEF Exported, Sound
  <2>2. Held(st) = {} BY <1>1, <1>2 DEF Held, Sound
  <2> QED BY <1>1, <2>1, <2>2
<1>3. CASE st.top # NoDecision
  <2> DEFINE p == st.parked
             r == <<st.top>> \o st.parked
  <2>1. Exported(st) = r BY <1>3 DEF Exported
  <2>2. st.top \in Decision BY <1>1, <1>3 DEF Store
  <2>3. r \in Seq(Decision) /\ DOMAIN r = 1..(Len(p) + 1) /\ DOMAIN p = 1..Len(p) BY <1>1, <2>2
  <2>4. r[1] = st.top /\ \A i \in 1..Len(p) : r[i + 1] = p[i] BY <1>1, <2>2
  <2>5. Held(st) = {st.top} \union ToSet(p) BY <1>3 DEF Held
  <2>6. Len(p) \in Nat BY <1>1
  <2> HIDE DEF p, r
  <2>7. ASSUME NEW x \in ToSet(r) PROVE x \in {st.top} \union ToSet(p)
    <3>1. PICK i \in 1..(Len(p) + 1) : x = r[i] BY <2>3 DEF ToSet
    <3>2. CASE i = 1 BY <2>4, <3>1, <3>2
    <3>3. CASE i # 1
      <4>1. i - 1 \in 1..Len(p) /\ (i - 1) + 1 = i BY <2>6, <3>3
      <4>2. x = p[i - 1] BY <2>4, <3>1, <4>1
      <4> QED BY <2>3, <4>1, <4>2 DEF ToSet
    <3> QED BY <3>2, <3>3
  <2>8. ASSUME NEW x \in {st.top} \union ToSet(p) PROVE x \in ToSet(r)
    <3>1. CASE x = st.top BY <2>3, <2>4, <2>6, <3>1 DEF ToSet
    <3>2. CASE x \in ToSet(p)
      <4>1. PICK i \in 1..Len(p) : x = p[i] BY <2>3, <3>2 DEF ToSet
      <4>2. x = r[i + 1] /\ i + 1 \in DOMAIN r BY <2>3, <2>4, <2>6, <4>1
      <4> QED BY <4>2 DEF ToSet
    <3> QED BY <3>1, <3>2
  <2> QED BY <2>1, <2>3, <2>5, <2>7, <2>8
<1> QED BY <1>2, <1>3

(* The sweep takes what has lapsed and nothing else.                       *)
LEMMA SweptStore ==
    ASSUME NEW st \in Stores, NEW t0
    PROVE  Swept(st, t0) \in Stores /\ Held(Swept(st, t0)) = {d \in Held(st) : InForce(d, t0)}
<1> DEFINE q == Exported(st)
<1>1. q \in Seq(Decision) /\ ToSet(q) = Held(st) BY ExportedSet
<1>2. \E L : /\ L[0] = st
             /\ \A k \in 1..Len(q) : L[k] = IF InForce(q[k], t0) THEN L[k - 1] ELSE Removed(L[k - 1], q[k])
             /\ Swept(st, t0) = L[Len(q)]
  BY <1>1, SweptLoop
<1> HIDE DEF q
<1>3. PICK L : /\ L[0] = st
               /\ \A k \in 1..Len(q) : L[k] = IF InForce(q[k], t0) THEN L[k - 1] ELSE Removed(L[k - 1], q[k])
               /\ Swept(st, t0) = L[Len(q)]
  BY <1>2
<1> DEFINE Ok(k) == /\ L[k] \in Stores
                    /\ \A d : d \in Held(L[k]) <=> d \in Held(st) /\ \A i \in 1..k : d = q[i] => InForce(d, t0)
           S == {k \in 0..Len(q) : Ok(k)}
<1>4. Ok(0) BY <1>3
<1>5. ASSUME NEW k \in 0..(Len(q) - 1), Ok(k) PROVE Ok(k + 1)
  <2>1. k + 1 \in 1..Len(q) /\ (k + 1) - 1 = k /\ q[k + 1] \in Decision BY <1>1
  <2>2. L[k + 1] = IF InForce(q[k + 1], t0) THEN L[k] ELSE Removed(L[k], q[k + 1]) BY <1>3, <2>1
  <2>3. \A i : i \in 1..(k + 1) <=> i \in 1..k \/ i = k + 1 OBVIOUS
  <2>4. CASE ~InForce(q[k + 1], t0)
    <3>1. L[k + 1] \in Stores /\ Held(L[k + 1]) = Held(L[k]) \ {q[k + 1]} BY <1>5, <2>1, <2>2, <2>4, RemovedStore
    <3> QED BY <1>5, <2>3, <2>4, <3>1
  <2>5. CASE InForce(q[k + 1], t0) BY <1>5, <2>2, <2>3, <2>5
  <2> QED BY <2>4, <2>5
<1>6. Ok(Len(q))
  <2> HIDE DEF Ok
  <2>1. Len(q) \in Nat BY <1>1
  <2>2. 0 \in S /\ \A k \in 0..(Len(q) - 1) : k \in S => k + 1 \in S BY <1>4, <1>5, <2>1
  <2>3. 0..Len(q) \subseteq S
    <3> HIDE DEF S
    <3> QED BY <2>1, <2>2, Induction
  <2> QED BY <2>1, <2>3
<1>7. \A d : d \in Held(st) <=> \E i \in 1..Len(q) : d = q[i] BY <1>1 DEF ToSet
<1> QED BY <1>3, <1>6, <1>7

LEMMA HeldNothing ==
    ASSUME NEW st \in Stores, Held(st) = {}
    PROVE  st = Empty
<1>1. st \in Store /\ Sound(st) BY DEF Stores
<1>2. st.top = NoDecision BY <1>1 DEF Held
<1>3. st.parked = <<>> BY <1>1, <1>2 DEF Sound
<1> QED BY <1>1, <1>2, <1>3 DEF Store, Empty

(* A lookup takes a lapsed decision, nothing that is in force, and nothing *)
(* from an empty store.                                                    *)
LEMMA EvictedStore ==
    ASSUME NEW st \in Stores, NEW t0
    PROVE  /\ Evicted(st, t0) \in Stores
           /\ {d \in Held(Evicted(st, t0)) : InForce(d, t0)} = {d \in Held(st) : InForce(d, t0)}
           /\ Held(Evicted(st, t0)) \subseteq Held(st)
<1>1. CASE st.top = NoDecision \/ InForce(st.top, t0)
  <2>1. Evicted(st, t0) = st BY <1>1 DEF Evicted
  <2> QED BY <2>1
<1>2. CASE st.top # NoDecision /\ ~InForce(st.top, t0)
  <2>1. st.top \in Decision BY <1>2 DEF Stores, Store
  <2>2. Evicted(st, t0) = Removed(st, st.top) BY <1>2 DEF Evicted
  <2>3. Evicted(st, t0) \in Stores /\ Held(Evicted(st, t0)) = Held(st) \ {st.top} BY <2>1, <2>2, RemovedStore
  <2> QED BY <1>2, <2>3
<1> QED BY <1>1, <1>2

(* The answer of a Local API lists a set.                                  *)
LEMMA SequencesOfSet ==
    ASSUME NEW S \in SUBSET Decision, IsFiniteSet(S), NEW q \in SetToSeqs(S)
    PROVE  q \in Seq(Decision) /\ ToSet(q) = S
<1> DEFINE n == Cardinality(S)
<1>1. n \in Nat BY FS_CardinalityType
<1>2. q \in [1..n -> S] /\ \A i, j \in 1..n : i # j => q[i] # q[j] BY DEF SetToSeqs
<1> HIDE DEF n
<1>3. q \in Seq(S) /\ Len(q) = n BY <1>1, <1>2
<1>4. ToSet(q) \subseteq S BY <1>2 DEF ToSet
<1>5. ASSUME NEW x \in S, x \notin ToSet(q) PROVE FALSE
  <2> DEFINE T == S \ {x}
  <2>1. IsFiniteSet(T) /\ Cardinality(T) = n - 1 BY <1>5, FS_RemoveElement DEF n
  <2>2. IsFiniteSet(1..n) /\ Cardinality(1..n) = n BY <1>1, FS_Interval
  <2>3. q \in [1..n -> T] BY <1>2, <1>5 DEF ToSet
  <2> HIDE DEF T
  <2>4. Cardinality(T) < Cardinality(1..n) BY <1>1, <2>1, <2>2
  <2>5. \E i, j \in 1..n : i # j /\ q[i] = q[j] BY <2>1, <2>2, <2>3, <2>4, FS_PigeonHole
  <2> QED BY <1>2, <2>5
<1>6. q \in Seq(Decision) BY <1>3
<1> QED BY <1>4, <1>5, <1>6

(***************************************************************************)
(* The inductive invariant                                                 *)
(***************************************************************************)

Sets == {S \in SUBSET Decision : IsFiniteSet(S)}

PollOK ==
    /\ poll.pc \in {"idle", "key", "answer", "adopt", "done", "failed"}
    /\ poll.pc = "idle" => poll = Idle
    /\ poll.pc \in {"key", "answer", "adopt"} => poll.source \in Source
    /\ poll.pc = "answer" => poll.startup \in BOOLEAN /\ poll.added \in Seq(Decision) /\ poll.deleted \in Seq(Decision)
    /\ poll.pc = "adopt" => poll.built \in Stores

TypeInv ==
    /\ now \in Nat
    /\ lapi \in [Source -> [active : Sets, added : Sets, deleted : Sets]]
    /\ settings \in Settings /\ reloads \in Nat
    /\ needsFullSync \in BOOLEAN /\ drifted \in BOOLEAN /\ lingering \in BOOLEAN
    /\ store \in Stores /\ disk \in Seq(Decision) /\ PollOK

(* What a Local API reports to have changed fits with what it has.         *)
Fits(l, t) ==
    /\ l.added \subseteq l.active
    /\ l.active \cap l.deleted = {}
    /\ \A d \in l.active : InForce(d, t)

Ledger == \A s \in Source : Fits(lapi[s], now)

(* S is what the Local API had at the last pull, but for what has lapsed.  *)
Agrees(S, l, t) == {d \in S : InForce(d, t)} \ l.deleted = l.active \ l.added

(* What the poll is about to put in.                                       *)
Answered ==
    IF poll.startup THEN ToSet(poll.added) ELSE (Held(store) \ ToSet(poll.deleted)) \union ToSet(poll.added)

(* The poll is one of the source in force, and a poll that was asked for   *)
(* before the integration was disabled is a full one.                      *)
Asked ==
    /\ poll.pc \in {"key", "answer", "adopt"} /\ ~drifted => poll.source = settings.source
    /\ poll.pc = "key" /\ ~settings.on => needsFullSync

(* In every phase of a poll what is, or will be, held agrees with the last *)
(* pull.                                                                   *)
Current ==
    ~drifted =>
        /\ poll.pc \in {"idle", "key", "done"} /\ ~needsFullSync /\ settings.on =>
              Agrees(Held(store), lapi[settings.source], now)
        /\ poll.pc = "answer" => Agrees(Answered, lapi[settings.source], now)
        /\ poll.pc = "adopt" => Agrees(Held(poll.built), lapi[settings.source], now)

Off == ~settings.on /\ reloads = 0 /\ ~lingering => poll = Idle /\ store = Empty

Inv == TypeInv /\ Ledger /\ Asked /\ Current /\ Off

LEMMA EmptySets == {} \in Sets
BY FS_EmptySet DEF Sets

(* How the changes of a Local API keep to both.                            *)
LEMMA IssueFits ==
    ASSUME NEW l \in [active : Sets, added : Sets, deleted : Sets], NEW d \in Decision, NEW t0,
           Fits(l, t0), InForce(d, t0), d \notin l.active \union l.deleted
    PROVE  LET m == [l EXCEPT !.active = @ \union {d}, !.added = @ \union {d}]
           IN  /\ m \in [active : Sets, added : Sets, deleted : Sets]
               /\ Fits(m, t0)
               /\ \A S : Agrees(S, l, t0) => Agrees(S, m, t0)
<1> DEFINE m == [l EXCEPT !.active = @ \union {d}, !.added = @ \union {d}]
<1>1. m.active = l.active \union {d} /\ m.added = l.added \union {d} /\ m.deleted = l.deleted OBVIOUS
<1>2. l.active \union {d} \in Sets /\ l.added \union {d} \in Sets BY FS_AddElement DEF Sets
<1>3. m \in [active : Sets, added : Sets, deleted : Sets] BY <1>2
<1> HIDE DEF m
<1>4. Fits(m, t0) BY <1>1 DEF Fits
<1>5. ASSUME NEW S, Agrees(S, l, t0) PROVE Agrees(S, m, t0) BY <1>1, <1>5 DEF Agrees
<1>6. m \in [active : Sets, added : Sets, deleted : Sets] /\ Fits(m, t0) /\ \A S : Agrees(S, l, t0) => Agrees(S, m, t0)
  BY <1>3, <1>4, <1>5
<1> QED BY <1>6 DEF m

LEMMA WithdrawFits ==
    ASSUME NEW l \in [active : Sets, added : Sets, deleted : Sets], NEW d \in Decision, NEW t0,
           Fits(l, t0), d \in l.active
    PROVE  LET m == [l EXCEPT !.active = @ \ {d}, !.added = @ \ {d}, !.deleted = @ \union {d}]
           IN  /\ m \in [active : Sets, added : Sets, deleted : Sets]
               /\ Fits(m, t0)
               /\ \A S : Agrees(S, l, t0) => Agrees(S, m, t0)
<1> DEFINE m == [l EXCEPT !.active = @ \ {d}, !.added = @ \ {d}, !.deleted = @ \union {d}]
<1>1. m.active = l.active \ {d} /\ m.added = l.added \ {d} /\ m.deleted = l.deleted \union {d} OBVIOUS
<1>2. l.active \ {d} \in Sets /\ l.added \ {d} \in Sets /\ l.deleted \union {d} \in Sets
  BY FS_AddElement, FS_RemoveElement DEF Sets
<1>3. m \in [active : Sets, added : Sets, deleted : Sets] BY <1>2
<1> HIDE DEF m
<1>4. Fits(m, t0) BY <1>1 DEF Fits
<1>5. ASSUME NEW S, Agrees(S, l, t0) PROVE Agrees(S, m, t0) BY <1>1, <1>5 DEF Agrees
<1>6. m \in [active : Sets, added : Sets, deleted : Sets] /\ Fits(m, t0) /\ \A S : Agrees(S, l, t0) => Agrees(S, m, t0)
  BY <1>3, <1>4, <1>5
<1> QED BY <1>6 DEF m

LEMMA InForceEarlier ==
    ASSUME NEW d \in Decision, NEW t0 \in Nat, InForce(d, t0 + 1)
    PROVE  InForce(d, t0)
<1>1. Expiry[d] \in Nat \union {Never} BY ExpiryType
<1> QED BY <1>1 DEF InForce

LEMMA TickFits ==
    ASSUME NEW l \in [active : Sets, added : Sets, deleted : Sets], NEW t0 \in Nat, Fits(l, t0)
    PROVE  LET gone == {d \in l.active : ~InForce(d, t0 + 1)}
               m == [active |-> l.active \ gone, added |-> l.added \ gone, deleted |-> l.deleted \union gone]
           IN  /\ m \in [active : Sets, added : Sets, deleted : Sets]
               /\ Fits(m, t0 + 1)
               /\ \A S \in SUBSET Decision : Agrees(S, l, t0) => Agrees(S, m, t0 + 1)
<1> DEFINE gone == {d \in l.active : ~InForce(d, t0 + 1)}
           m == [active |-> l.active \ gone, added |-> l.added \ gone, deleted |-> l.deleted \union gone]
<1>1. m.active = l.active \ gone /\ m.added = l.added \ gone /\ m.deleted = l.deleted \union gone OBVIOUS
<1>2. m.active \in Sets /\ m.added \in Sets /\ m.deleted \in Sets
  <2>1. gone \in SUBSET l.active /\ l.active \ gone \in SUBSET l.active /\ l.added \ gone \in SUBSET l.added OBVIOUS
  <2>2. IsFiniteSet(gone) /\ IsFiniteSet(l.active \ gone) /\ IsFiniteSet(l.added \ gone) BY <2>1, FS_Subset DEF Sets
  <2> HIDE DEF gone
  <2>3. IsFiniteSet(l.deleted \union gone) BY <2>2, FS_Union DEF Sets
  <2> QED BY <1>1, <2>1, <2>2, <2>3 DEF Sets
<1>3. m \in [active : Sets, added : Sets, deleted : Sets] BY <1>1, <1>2
<1>4. Fits(m, t0 + 1) BY <1>1 DEF Fits
<1>5. ASSUME NEW S \in SUBSET Decision, Agrees(S, l, t0) PROVE Agrees(S, m, t0 + 1)
  <2>1. \A d \in S : InForce(d, t0 + 1) => InForce(d, t0) BY InForceEarlier
  <2>2. \A d : d \in S /\ InForce(d, t0) /\ d \notin l.deleted <=> d \in l.active /\ d \notin l.added BY <1>5 DEF Agrees
  <2>3. \A d : d \in S /\ InForce(d, t0 + 1) /\ d \notin m.deleted <=> d \in m.active /\ d \notin m.added
    <3> TAKE d
    <3>1. d \in gone <=> d \in l.active /\ ~InForce(d, t0 + 1) OBVIOUS
    <3> HIDE DEF gone, m
    <3> QED BY <1>1, <2>1, <2>2, <3>1
  <2> QED BY <2>3 DEF Agrees
<1>6. m \in [active : Sets, added : Sets, deleted : Sets] /\ Fits(m, t0 + 1) /\ \A S \in SUBSET Decision : Agrees(S, l, t0) => Agrees(S, m, t0 + 1)
  BY <1>3, <1>4, <1>5
<1> QED BY <1>6

LEMMA HeldDecisions ==
    ASSUME NEW st \in Stores
    PROVE  Held(st) \subseteq Decision
<1>1. st \in Store BY DEF Stores
<1>2. ToSet(st.parked) \subseteq Decision BY <1>1, ParkedDecisions DEF Store
<1> QED BY <1>1, <1>2 DEF Held, Store

(* Whatever a Local API does, what agreed with it still does.              *)
LEMMA LapiStep ==
    ASSUME Inv, now' \in Nat, lapi' \in [Source -> [active : Sets, added : Sets, deleted : Sets]],
           \A s \in Source : Fits(lapi'[s], now'),
           UNCHANGED <<settings, reloads, store, needsFullSync, poll, disk, drifted, lingering>>,
           \A s \in Source : \A S \in SUBSET Decision : Agrees(S, lapi[s], now) => Agrees(S, lapi'[s], now')
    PROVE  Inv'
<1>1. TypeInv' BY DEF Inv, TypeInv, PollOK
<1>2. Ledger' BY DEF Ledger
<1>3. Asked' BY DEF Inv, Asked
<1>4. Current'
  <2>1. settings.source \in Source BY DEF Inv, TypeInv, Settings
  <2>2. Held(store) \in SUBSET Decision BY HeldDecisions DEF Inv, TypeInv
  <2>3. poll.pc = "adopt" => Held(poll.built) \in SUBSET Decision BY HeldDecisions DEF Inv, TypeInv, PollOK
  <2>4. poll.pc = "answer" => Answered \in SUBSET Decision
    <3> HAVE poll.pc = "answer"
    <3>1. ToSet(poll.added) \subseteq Decision BY ParkedDecisions DEF Inv, TypeInv, PollOK
    <3> QED BY <2>2, <3>1 DEF Answered
  <2>5. Answered' = Answered BY DEF Answered
  <2>6. Held(store)' = Held(store) /\ Held(poll.built)' = Held(poll.built) OBVIOUS
  <2> QED BY <2>1, <2>2, <2>3, <2>4, <2>5, <2>6 DEF Inv, Current
<1>5. Off' BY DEF Inv, Off
<1> QED BY <1>1, <1>2, <1>3, <1>4, <1>5 DEF Inv

LEMMA IssueStep ==
    ASSUME Inv, NEW s \in Source, NEW d \in Decision, Issue(s, d)
    PROVE  Inv'
<1> DEFINE m == [lapi[s] EXCEPT !.active = @ \union {d}, !.added = @ \union {d}]
<1>1. lapi[s] \in [active : Sets, added : Sets, deleted : Sets] BY DEF Inv, TypeInv
<1>2. /\ m \in [active : Sets, added : Sets, deleted : Sets]
      /\ Fits(m, now)
      /\ \A S : Agrees(S, lapi[s], now) => Agrees(S, m, now)
  BY <1>1, IssueFits DEF Inv, Ledger, Issue
<1>3. lapi' = [lapi EXCEPT ![s] = m] BY DEF Issue, Inv, TypeInv
<1>4. now' = now /\ now \in Nat BY DEF Issue, Inv, TypeInv
<1> HIDE DEF m
<1>5. lapi' \in [Source -> [active : Sets, added : Sets, deleted : Sets]] BY <1>2, <1>3 DEF Inv, TypeInv
<1>6. \A r \in Source : lapi'[r] = IF r = s THEN m ELSE lapi[r] BY <1>3 DEF Inv, TypeInv
<1>7. \A r \in Source : Fits(lapi'[r], now') BY <1>2, <1>4, <1>6 DEF Inv, Ledger
<1>8. \A r \in Source : \A S \in SUBSET Decision : Agrees(S, lapi[r], now) => Agrees(S, lapi'[r], now')
  BY <1>2, <1>4, <1>6
<1>9. UNCHANGED <<settings, reloads, store, needsFullSync, poll, disk, drifted, lingering>> BY DEF Issue
<1> QED BY <1>4, <1>5, <1>7, <1>8, <1>9, LapiStep

LEMMA WithdrawStep ==
    ASSUME Inv, NEW s \in Source, NEW d \in Decision, Withdraw(s, d)
    PROVE  Inv'
<1> DEFINE m == [lapi[s] EXCEPT !.active = @ \ {d}, !.added = @ \ {d}, !.deleted = @ \union {d}]
<1>1. lapi[s] \in [active : Sets, added : Sets, deleted : Sets] BY DEF Inv, TypeInv
<1>2. /\ m \in [active : Sets, added : Sets, deleted : Sets]
      /\ Fits(m, now)
      /\ \A S : Agrees(S, lapi[s], now) => Agrees(S, m, now)
  BY <1>1, WithdrawFits DEF Inv, Ledger, Withdraw
<1>3. lapi' = [lapi EXCEPT ![s] = m] BY DEF Withdraw, Inv, TypeInv
<1>4. now' = now /\ now \in Nat BY DEF Withdraw, Inv, TypeInv
<1> HIDE DEF m
<1>5. lapi' \in [Source -> [active : Sets, added : Sets, deleted : Sets]] BY <1>2, <1>3 DEF Inv, TypeInv
<1>6. \A r \in Source : lapi'[r] = IF r = s THEN m ELSE lapi[r] BY <1>3 DEF Inv, TypeInv
<1>7. \A r \in Source : Fits(lapi'[r], now') BY <1>2, <1>4, <1>6 DEF Inv, Ledger
<1>8. \A r \in Source : \A S \in SUBSET Decision : Agrees(S, lapi[r], now) => Agrees(S, lapi'[r], now')
  BY <1>2, <1>4, <1>6
<1>9. UNCHANGED <<settings, reloads, store, needsFullSync, poll, disk, drifted, lingering>> BY DEF Withdraw
<1> QED BY <1>4, <1>5, <1>7, <1>8, <1>9, LapiStep

LEMMA TickStep ==
    ASSUME Inv, Tick
    PROVE  Inv'
<1> DEFINE gone(s) == {d \in lapi[s].active : ~InForce(d, now + 1)}
           m(s) == [active |-> lapi[s].active \ gone(s), added |-> lapi[s].added \ gone(s),
                    deleted |-> lapi[s].deleted \union gone(s)]
<1>1. now \in Nat /\ now' = now + 1 BY DEF Tick, Inv, TypeInv
<1>2. lapi' = [s \in Source |-> m(s)] BY <1>1 DEF Tick
<1>3. ASSUME NEW s \in Source
      PROVE  /\ m(s) \in [active : Sets, added : Sets, deleted : Sets]
             /\ Fits(m(s), now + 1)
             /\ \A S \in SUBSET Decision : Agrees(S, lapi[s], now) => Agrees(S, m(s), now + 1)
  <2>1. lapi[s] \in [active : Sets, added : Sets, deleted : Sets] /\ Fits(lapi[s], now) BY DEF Inv, TypeInv, Ledger
  <2> QED BY <1>1, <2>1, TickFits
<1> HIDE DEF m
<1>4. lapi' \in [Source -> [active : Sets, added : Sets, deleted : Sets]] BY <1>2, <1>3
<1>5. \A s \in Source : lapi'[s] = m(s) BY <1>2
<1>6. \A s \in Source : Fits(lapi'[s], now') BY <1>1, <1>3, <1>5
<1>7. \A s \in Source : \A S \in SUBSET Decision : Agrees(S, lapi[s], now) => Agrees(S, lapi'[s], now')
  BY <1>1, <1>3, <1>5
<1>8. UNCHANGED <<settings, reloads, store, needsFullSync, poll, disk, drifted, lingering>> BY DEF Tick
<1> QED BY <1>1, <1>4, <1>6, <1>7, <1>8, LapiStep

(* Only what is in force counts.                                           *)
LEMMA AgreesInForce ==
    ASSUME NEW S, NEW T, NEW l, NEW t0, Agrees(S, l, t0),
           {d \in S : InForce(d, t0)} = {d \in T : InForce(d, t0)}
    PROVE  Agrees(T, l, t0)
BY DEF Agrees

(* A pull takes the list of changes, and nothing else.                     *)
LEMMA PulledLapi ==
    ASSUME Inv, NEW s \in Source
    PROVE  /\ Pulled(s) \in [Source -> [active : Sets, added : Sets, deleted : Sets]]
           /\ \A r \in Source : Fits(Pulled(s)[r], now)
           /\ Pulled(s)[s].active = lapi[s].active /\ Pulled(s)[s].added = {} /\ Pulled(s)[s].deleted = {}
           /\ \A r \in Source \ {s} : Pulled(s)[r] = lapi[r]
<1> DEFINE m == [lapi[s] EXCEPT !.added = {}, !.deleted = {}]
<1>1. lapi \in [Source -> [active : Sets, added : Sets, deleted : Sets]] BY DEF Inv, TypeInv
<1>2. Pulled(s) = [lapi EXCEPT ![s] = m] BY <1>1 DEF Pulled
<1>3. m.active = lapi[s].active /\ m.added = {} /\ m.deleted = {} BY <1>1
<1>4. m \in [active : Sets, added : Sets, deleted : Sets] BY <1>1, EmptySets
<1>5. Fits(lapi[s], now) BY DEF Inv, Ledger
<1> HIDE DEF m
<1>6. Fits(m, now) BY <1>3, <1>5 DEF Fits
<1>7. \A r \in Source : Pulled(s)[r] = IF r = s THEN m ELSE lapi[r] BY <1>1, <1>2
<1>8. Pulled(s) \in [Source -> [active : Sets, added : Sets, deleted : Sets]] BY <1>1, <1>2, <1>4
<1>9. \A r \in Source : Fits(Pulled(s)[r], now) BY <1>6, <1>7 DEF Inv, Ledger
<1> QED BY <1>3, <1>7, <1>8, <1>9

(* The poll that starts names the source of the settings.                  *)
LEMMA PollingOK ==
    ASSUME Inv
    PROVE  Polling.pc = "key" /\ Polling.source = settings.source /\ Polling.source \in Source /\ Polling # Idle
<1>1. Polling.pc = "key" /\ Polling.source = settings.source BY DEF Polling
<1>2. Idle.pc = "idle" BY DEF Idle
<1> QED BY <1>1, <1>2 DEF Inv, TypeInv, Settings

LEMMA StartPollStep ==
    ASSUME Inv, StartPoll
    PROVE  Inv'
<1>1. poll'.pc = "key" /\ poll'.source = settings.source /\ poll'.source \in Source BY PollingOK DEF StartPoll
<1>2. poll.pc = "idle" BY DEF StartPoll, Idle
<1>3. UNCHANGED <<now, lapi, settings, reloads, store, needsFullSync, disk, drifted, lingering>> /\ settings.on
  BY DEF StartPoll
<1>4. TypeInv'
  <2>1. PollOK' BY <1>1 DEF PollOK
  <2> QED BY <1>3, <2>1 DEF Inv, TypeInv
<1>5. Ledger' BY <1>3 DEF Inv, Ledger
<1>6. Asked' BY <1>1, <1>3 DEF Asked
<1>7. Current' BY <1>1, <1>2, <1>3 DEF Inv, Current
<1>8. Off' BY <1>3 DEF Off
<1> QED BY <1>4, <1>5, <1>6, <1>7, <1>8 DEF Inv

LEMMA RefreshStep ==
    ASSUME Inv, Refresh
    PROVE  Inv'
<1>1. \/ poll' = poll
      \/ poll'.pc = "key" /\ poll'.source = settings.source /\ poll'.source \in Source /\ settings.on
  BY PollingOK DEF Refresh
<1>2. needsFullSync' = TRUE /\ UNCHANGED <<now, lapi, settings, reloads, store, disk, drifted, lingering>> BY DEF Refresh
<1>3. TypeInv'
  <2>1. PollOK' BY <1>1 DEF PollOK, Inv, TypeInv
  <2> QED BY <1>2, <2>1 DEF Inv, TypeInv
<1>4. Ledger' BY <1>2 DEF Inv, Ledger
<1>5. Asked' BY <1>1, <1>2 DEF Inv, Asked
<1>6. Current'
  <2>1. CASE poll' = poll
    <3>1. Answered' = Answered BY <1>2, <2>1 DEF Answered
    <3> QED BY <1>2, <2>1, <3>1 DEF Inv, Current
  <2>2. CASE poll'.pc = "key" BY <1>2, <2>2 DEF Current
  <2> QED BY <1>1, <2>1, <2>2
<1>7. Off' BY <1>1, <1>2 DEF Inv, Off
<1> QED BY <1>3, <1>4, <1>5, <1>6, <1>7 DEF Inv

LEMMA RequestStep ==
    ASSUME Inv, Request
    PROVE  Inv'
<1> DEFINE s == poll.source
<1>1. poll.pc = "key" /\ lapi' = Pulled(s) BY DEF Request
<1>2. s \in Source BY <1>1 DEF Inv, TypeInv, PollOK
<1>3. UNCHANGED <<now, settings, reloads, store, needsFullSync, disk, lingering>> BY DEF Request
<1>4. /\ lapi' \in [Source -> [active : Sets, added : Sets, deleted : Sets]]
      /\ \A r \in Source : Fits(lapi'[r], now)
      /\ lapi'[s].active = lapi[s].active /\ lapi'[s].added = {} /\ lapi'[s].deleted = {}
  <2> HIDE DEF s
  <2> QED BY <1>1, <1>2, PulledLapi
<1>5. lapi[s] \in [active : Sets, added : Sets, deleted : Sets] /\ Fits(lapi[s], now) BY <1>2 DEF Inv, TypeInv, Ledger
<1>6. PICK list \in SetToSeqs(lapi[s].active), startup \in Startup :
          \/ /\ startup
             /\ poll' = [pc |-> "answer", source |-> s, startup |-> TRUE, added |-> list, deleted |-> <<>>]
          \/ /\ ~startup
             /\ \E add \in SetToSeqs(lapi[s].added), del \in SetToSeqs(lapi[s].deleted) :
                   poll' = [pc |-> "answer", source |-> s, startup |-> FALSE, added |-> add, deleted |-> del]
  BY DEF Request
<1>7. drifted' = IF poll'.startup THEN s # settings.source ELSE drifted BY DEF Request
<1>8. drifted' \in BOOLEAN BY <1>7 DEF Inv, TypeInv
<1>9. Ledger' BY <1>3, <1>4 DEF Ledger
<1>10. Off' BY <1>1, <1>3 DEF Inv, Off, Idle
<1>11. CASE startup /\ poll' = [pc |-> "answer", source |-> s, startup |-> TRUE, added |-> list, deleted |-> <<>>]
  <2>1. list \in Seq(Decision) /\ ToSet(list) = lapi[s].active BY <1>5, <1>6, SequencesOfSet DEF Sets
  <2>2. poll'.pc = "answer" /\ poll'.source = s /\ poll'.startup = TRUE /\ poll'.added = list /\ poll'.deleted = <<>> BY <1>11
  <2>9. <<>> \in Seq(Decision) OBVIOUS
  <2>3. PollOK' BY <1>2, <2>1, <2>2, <2>9 DEF PollOK
  <2>4. TypeInv' BY <1>3, <1>4, <1>8, <2>3 DEF Inv, TypeInv
  <2>5. Asked' BY <1>3, <1>7, <2>2 DEF Asked
  <2>6. Answered' = lapi[s].active BY <2>1, <2>2 DEF Answered
  <2>7. Agrees(lapi[s].active, lapi'[s], now) BY <1>4, <1>5 DEF Agrees, Fits
  <2>8. Current' BY <1>3, <1>7, <2>2, <2>6, <2>7 DEF Current
  <2> QED BY <1>9, <1>10, <2>4, <2>5, <2>8 DEF Inv
<1>12. CASE /\ ~startup
            /\ \E add \in SetToSeqs(lapi[s].added), del \in SetToSeqs(lapi[s].deleted) :
                   poll' = [pc |-> "answer", source |-> s, startup |-> FALSE, added |-> add, deleted |-> del]
  <2>1. PICK add \in SetToSeqs(lapi[s].added), del \in SetToSeqs(lapi[s].deleted) :
            poll' = [pc |-> "answer", source |-> s, startup |-> FALSE, added |-> add, deleted |-> del]
    BY <1>12
  <2>2. add \in Seq(Decision) /\ ToSet(add) = lapi[s].added BY <1>5, SequencesOfSet DEF Sets
  <2>3. del \in Seq(Decision) /\ ToSet(del) = lapi[s].deleted BY <1>5, SequencesOfSet DEF Sets
  <2>4. poll'.pc = "answer" /\ poll'.source = s /\ poll'.startup = FALSE /\ poll'.added = add /\ poll'.deleted = del BY <2>1
  <2>5. PollOK' BY <1>2, <2>2, <2>3, <2>4 DEF PollOK
  <2>6. TypeInv' BY <1>3, <1>4, <1>8, <2>5 DEF Inv, TypeInv
  <2>7. drifted' = drifted BY <1>7, <2>4
  <2>8. Asked' BY <1>1, <1>3, <2>4, <2>7 DEF Inv, Asked
  <2>9. ~needsFullSync BY <1>6, <1>12 DEF Startup, Inv, TypeInv
  <2>10. Answered' = (Held(store) \ lapi[s].deleted) \union lapi[s].added BY <1>3, <2>2, <2>3, <2>4 DEF Answered
  <2>11. ASSUME ~drifted PROVE s = settings.source /\ Agrees(Answered', lapi'[s], now)
    <3>1. s = settings.source /\ settings.on BY <1>1, <2>9, <2>11 DEF Inv, Asked
    <3>2. Agrees(Held(store), lapi[s], now) BY <1>1, <2>9, <2>11, <3>1 DEF Inv, Current
    <3>3. Agrees((Held(store) \ lapi[s].deleted) \union lapi[s].added, lapi'[s], now)
      <4> HIDE DEF s
      <4> QED BY <1>4, <1>5, <3>2 DEF Agrees, Fits
    <3> QED BY <2>10, <3>1, <3>3
  <2>12. Current' BY <1>3, <2>4, <2>7, <2>11 DEF Current
  <2> QED BY <1>9, <1>10, <2>6, <2>8, <2>12 DEF Inv
<1> QED BY <1>6, <1>11, <1>12

LEMMA RequestFailsStep ==
    ASSUME Inv, RequestFails
    PROVE  Inv'
<1>1. poll.pc = "key" /\ poll'.pc = "failed" /\ lapi' \in {lapi, Pulled(poll.source)} BY DEF RequestFails
<1>2. poll.source \in Source BY <1>1 DEF Inv, TypeInv, PollOK
<1>3. UNCHANGED <<now, settings, reloads, store, needsFullSync, disk, drifted, lingering>> BY DEF RequestFails
<1>4. /\ lapi' \in [Source -> [active : Sets, added : Sets, deleted : Sets]]
      /\ \A r \in Source : Fits(lapi'[r], now)
  BY <1>1, <1>2, PulledLapi DEF Inv, TypeInv, Ledger
<1>5. TypeInv'
  <2>1. PollOK' BY <1>1 DEF PollOK
  <2> QED BY <1>3, <1>4, <2>1 DEF Inv, TypeInv
<1>6. Ledger' BY <1>3, <1>4 DEF Ledger
<1>7. Asked' BY <1>1 DEF Asked
<1>8. Current' BY <1>1 DEF Current
<1>9. Off' BY <1>1, <1>3 DEF Inv, Off, Idle
<1> QED BY <1>5, <1>6, <1>7, <1>8, <1>9 DEF Inv

LEMMA ApplyStep ==
    ASSUME Inv, Apply
    PROVE  Inv'
<1>1. poll.pc = "answer" /\ poll.startup \in BOOLEAN /\ poll.added \in Seq(Decision) /\ poll.deleted \in Seq(Decision)
      /\ poll.source \in Source
  BY DEF Apply, Inv, TypeInv, PollOK
<1>2. UNCHANGED <<now, lapi, settings, reloads, disk, drifted, lingering>> BY DEF Apply
<1>3. store \in Stores BY DEF Inv, TypeInv
<1>4. Ledger' BY <1>2 DEF Inv, Ledger
<1>5. Off' BY <1>1, <1>2 DEF Inv, Off, Idle
<1>6. CASE poll.startup
  <2> DEFINE b == Snapshot(poll.added, now)
  <2>1. poll' = [pc |-> "adopt", source |-> poll.source, built |-> b] /\ UNCHANGED <<store, needsFullSync>> BY <1>6 DEF Apply
  <2>2. b \in Stores /\ Held(b) = {d \in ToSet(poll.added) : InForce(d, now)} BY <1>1, BuiltStore, EmptyStore DEF Snapshot
  <2> HIDE DEF b
  <2>3. poll'.pc = "adopt" /\ poll'.source = poll.source /\ poll'.built = b BY <2>1
  <2>4. PollOK' BY <1>1, <2>2, <2>3 DEF PollOK
  <2>5. TypeInv' BY <1>2, <2>1, <2>4 DEF Inv, TypeInv
  <2>6. Asked' BY <1>1, <1>2, <2>3 DEF Inv, Asked
  <2>7. Answered = ToSet(poll.added) BY <1>6 DEF Answered
  <2>8. {d \in Answered : InForce(d, now)} = {d \in Held(b) : InForce(d, now)} BY <2>2, <2>7
  <2>9. ~drifted => Agrees(Held(b), lapi[settings.source], now) BY <1>1, <2>8, AgreesInForce DEF Inv, Current
  <2>10. Current' BY <1>2, <2>3, <2>9 DEF Current
  <2> QED BY <1>4, <1>5, <2>5, <2>6, <2>10 DEF Inv
<1>7. CASE ~poll.startup
  <2> DEFINE b == Delta(store, poll.added, poll.deleted, now)
             c == Dropped(store, poll.deleted)
  <2>1. store' = b /\ poll' = [pc |-> "done", startup |-> FALSE] /\ needsFullSync' = FALSE BY <1>7 DEF Apply
  <2>2. c \in Stores /\ Held(c) = Held(store) \ ToSet(poll.deleted) BY <1>1, <1>3, DroppedStore
  <2>3. b = Built(c, poll.added, now) BY DEF Delta
  <2> HIDE DEF b, c
  <2>4. b \in Stores /\ Held(b) = Held(c) \union {d \in ToSet(poll.added) : InForce(d, now)}
    BY <1>1, <2>2, <2>3, BuiltStore
  <2>5. poll'.pc = "done" BY <2>1
  <2>6. PollOK' BY <2>5 DEF PollOK
  <2>7. TypeInv' BY <1>2, <2>1, <2>4, <2>6 DEF Inv, TypeInv
  <2>8. Asked' BY <2>5 DEF Asked
  <2>9. Answered = (Held(store) \ ToSet(poll.deleted)) \union ToSet(poll.added) BY <1>7 DEF Answered
  <2>10. {d \in Answered : InForce(d, now)} = {d \in Held(b) : InForce(d, now)} BY <2>2, <2>4, <2>9
  <2>11. ~drifted => Agrees(Held(b), lapi[settings.source], now) BY <1>1, <2>10, AgreesInForce DEF Inv, Current
  <2>12. Current' BY <1>2, <2>1, <2>5, <2>11 DEF Current
  <2> QED BY <1>4, <1>5, <2>7, <2>8, <2>12 DEF Inv
<1> QED BY <1>6, <1>7

LEMMA AdoptStep ==
    ASSUME Inv, Adopt
    PROVE  Inv'
<1>1. poll.pc = "adopt" /\ poll.built \in Stores BY DEF Adopt, Inv, TypeInv, PollOK
<1>2. UNCHANGED <<now, lapi, settings, reloads, disk, drifted, lingering>> BY DEF Adopt
<1>3. store' = poll.built /\ needsFullSync' = FALSE /\ poll'.pc = "done" BY DEF Adopt
<1>4. TypeInv'
  <2>1. PollOK' BY <1>3 DEF PollOK
  <2> QED BY <1>1, <1>2, <1>3, <2>1 DEF Inv, TypeInv
<1>5. Ledger' BY <1>2 DEF Inv, Ledger
<1>6. Asked' BY <1>3 DEF Asked
<1>7. Current' BY <1>1, <1>2, <1>3 DEF Inv, Current
<1>8. Off' BY <1>1, <1>2 DEF Inv, Off, Idle
<1> QED BY <1>4, <1>5, <1>6, <1>7, <1>8 DEF Inv

LEMMA SuccessStep ==
    ASSUME Inv, Success
    PROVE  Inv'
<1>1. poll.pc = "done" /\ poll' = Idle /\ poll'.pc = "idle" BY DEF Success, Idle
<1>2. UNCHANGED <<now, lapi, settings, reloads, store, needsFullSync, drifted, lingering>> BY DEF Success
<1>3. disk' \in Seq(Decision)
  <2>1. disk' = disk \/ disk' = Exported(store) BY DEF Success
  <2> QED BY <2>1, ExportedSet DEF Inv, TypeInv
<1>4. TypeInv'
  <2>1. PollOK' BY <1>1 DEF PollOK, Idle
  <2> QED BY <1>2, <1>3, <2>1 DEF Inv, TypeInv
<1>5. Ledger' BY <1>2 DEF Inv, Ledger
<1>6. Asked' BY <1>1 DEF Asked
<1>7. Current' BY <1>1, <1>2 DEF Inv, Current
<1>8. Off' BY <1>1, <1>2 DEF Inv, Off, Idle
<1> QED BY <1>4, <1>5, <1>6, <1>7, <1>8 DEF Inv

LEMMA FailureStep ==
    ASSUME Inv, Failure
    PROVE  Inv'
<1>1. poll.pc = "failed" /\ poll' = Idle /\ poll'.pc = "idle" /\ needsFullSync' = TRUE BY DEF Failure, Idle
<1>2. UNCHANGED <<now, lapi, settings, reloads, store, disk, drifted, lingering>> BY DEF Failure
<1>3. TypeInv'
  <2>1. PollOK' BY <1>1 DEF PollOK, Idle
  <2> QED BY <1>1, <1>2, <2>1 DEF Inv, TypeInv
<1>4. Ledger' BY <1>2 DEF Inv, Ledger
<1>5. Asked' BY <1>1 DEF Asked
<1>6. Current' BY <1>1, <1>2 DEF Current
<1>7. Off' BY <1>1, <1>2 DEF Inv, Off, Idle
<1> QED BY <1>3, <1>4, <1>5, <1>6, <1>7 DEF Inv

LEMMA SaveStep ==
    ASSUME Inv, NEW new \in Settings, Save(new)
    PROVE  Inv'
<1>1. settings' = new /\ needsFullSync' = TRUE /\ reloads' = reloads + 1 BY DEF Save
<1>2. UNCHANGED <<now, lapi, store, poll, disk, lingering>> BY DEF Save
<1>3. drifted' = (drifted \/ (poll # Idle /\ new.source # settings.source)) BY DEF Save
<1>4. TypeInv'
  <2>1. PollOK' BY <1>2 DEF PollOK, Inv, TypeInv
  <2>2. drifted' \in BOOLEAN BY <1>3 DEF Inv, TypeInv
  <2> QED BY <1>1, <1>2, <2>1, <2>2 DEF Inv, TypeInv
<1>5. Ledger' BY <1>2 DEF Inv, Ledger
<1>6. ASSUME ~drifted', poll.pc \in {"key", "answer", "adopt"} PROVE ~drifted /\ settings'.source = settings.source
  <2>1. poll # Idle BY <1>6 DEF Idle
  <2>2. ~(drifted \/ new.source # settings.source) BY <1>3, <1>6, <2>1
  <2> QED BY <1>1, <2>2
<1>7. Asked' BY <1>1, <1>2, <1>6 DEF Inv, Asked
<1>8. Current'
  <2>1. Answered' = Answered BY <1>2 DEF Answered
  <2> QED BY <1>1, <1>2, <1>6, <2>1 DEF Inv, Current
<1>9. Off' BY <1>1 DEF Off, Inv, TypeInv
<1> QED BY <1>4, <1>5, <1>7, <1>8, <1>9 DEF Inv

LEMMA ApplyTimerStep ==
    ASSUME Inv, ApplyTimer
    PROVE  Inv'
<1>1. UNCHANGED <<now, lapi, settings, needsFullSync, disk>> BY DEF ApplyTimer
<1>2. reloads \in Nat /\ reloads > 0 /\ reloads' = reloads - 1 BY DEF ApplyTimer, Inv, TypeInv
<1>3. lingering' = (~settings.on /\ poll # Idle) BY DEF ApplyTimer
<1>4. drifted' = (drifted \/ (~settings.on /\ poll.pc = "answer" /\ ~poll.startup)) BY DEF ApplyTimer
<1>5. settings.on \in BOOLEAN /\ drifted' \in BOOLEAN /\ lingering' \in BOOLEAN /\ reloads' \in Nat
  BY <1>2, <1>3, <1>4 DEF Inv, TypeInv, Settings
<1>6. store' = (IF settings.on THEN store ELSE Empty) /\ store' \in Stores BY EmptyStore DEF ApplyTimer, Inv, TypeInv
<1>7. \/ poll' = poll
      \/ /\ poll = Idle /\ settings.on
         /\ poll'.pc = "key" /\ poll'.source = settings.source /\ poll'.source \in Source
  <2>1. poll' \in Polled BY DEF ApplyTimer
  <2>2. CASE settings.on /\ poll = Idle
    <3>1. poll' \in {Polling} \union {Idle} BY <2>1, <2>2 DEF Polled
    <3> QED BY <2>2, <3>1, PollingOK
  <2>3. CASE ~(settings.on /\ poll = Idle) BY <2>1, <2>3 DEF Polled
  <2> QED BY <2>2, <2>3
<1>8. TypeInv'
  <2>1. PollOK' BY <1>7 DEF PollOK, Inv, TypeInv
  <2> QED BY <1>1, <1>5, <1>6, <2>1 DEF Inv, TypeInv
<1>9. Ledger' BY <1>1 DEF Inv, Ledger
<1>10. Asked' BY <1>1, <1>4, <1>7 DEF Inv, Asked
<1>11. Off'
  <2>1. CASE settings.on BY <1>1, <2>1 DEF Off
  <2>2. CASE ~settings.on BY <1>3, <1>6, <1>7, <2>2 DEF Off
  <2> QED BY <2>1, <2>2
<1>12. Current'
  <2>1. CASE poll' # poll
    <3>1. poll.pc = "idle" /\ poll'.pc = "key" /\ store' = store BY <1>6, <1>7, <2>1 DEF Idle
    <3> QED BY <1>1, <1>4, <3>1 DEF Inv, Current
  <2>2. CASE poll' = poll /\ settings.on
    <3>1. store' = store BY <1>6, <2>2
    <3>2. Answered' = Answered BY <2>2, <3>1 DEF Answered
    <3> QED BY <1>1, <1>4, <2>2, <3>1, <3>2 DEF Inv, Current
  <2>3. CASE poll' = poll /\ ~settings.on
    <3>1. ASSUME ~drifted', poll.pc = "answer" PROVE Answered' = Answered
      <4>1. poll.startup BY <1>4, <2>3, <3>1
      <4> QED BY <2>3, <4>1 DEF Answered
    <3> QED BY <1>1, <1>4, <2>3, <3>1 DEF Inv, Current
  <2> QED BY <2>1, <2>2, <2>3
<1> QED BY <1>8, <1>9, <1>10, <1>11, <1>12 DEF Inv

LEMMA TestConnectionStep ==
    ASSUME Inv, NEW s \in Source, TestConnection(s)
    PROVE  Inv'
<1>1. lapi' = Pulled(s) /\ drifted' = (drifted \/ s = settings.source) BY DEF TestConnection
<1>2. UNCHANGED <<now, settings, reloads, store, needsFullSync, poll, disk, lingering>> BY DEF TestConnection
<1>3. /\ lapi' \in [Source -> [active : Sets, added : Sets, deleted : Sets]]
      /\ \A r \in Source : Fits(lapi'[r], now)
      /\ \A r \in Source \ {s} : lapi'[r] = lapi[r]
  BY <1>1, PulledLapi
<1>4. TypeInv'
  <2>1. PollOK' BY <1>2 DEF PollOK, Inv, TypeInv
  <2>2. drifted' \in BOOLEAN BY <1>1 DEF Inv, TypeInv
  <2> QED BY <1>2, <1>3, <2>1, <2>2 DEF Inv, TypeInv
<1>5. Ledger' BY <1>2, <1>3 DEF Ledger
<1>6. Asked' BY <1>1, <1>2 DEF Inv, Asked
<1>7. Current'
  <2>1. Answered' = Answered BY <1>2 DEF Answered
  <2>2. settings.source \in Source BY DEF Inv, TypeInv, Settings
  <2>3. ~drifted' => ~drifted /\ lapi'[settings.source] = lapi[settings.source] BY <1>1, <1>3, <2>2
  <2> QED BY <1>2, <2>1, <2>3 DEF Inv, Current
<1>8. Off' BY <1>2 DEF Inv, Off
<1> QED BY <1>4, <1>5, <1>6, <1>7, <1>8 DEF Inv

(* What takes lapsed decisions out of the store.                           *)
LEMMA ExpiryStep ==
    ASSUME Inv, store' \in Stores,
           UNCHANGED <<now, lapi, settings, reloads, needsFullSync, poll, disk, drifted, lingering>>,
           {d \in Held(store)' : InForce(d, now)} = {d \in Held(store) : InForce(d, now)},
           Held(store)' \subseteq Held(store), store' # store
    PROVE  Inv'
<1>1. TypeInv'
  <2>1. PollOK' BY DEF PollOK, Inv, TypeInv
  <2> QED BY <2>1 DEF Inv, TypeInv
<1>2. Ledger' BY DEF Inv, Ledger
<1>3. Asked' BY DEF Inv, Asked
<1>4. Current'
  <2>1. {d \in Answered' : InForce(d, now)} = {d \in Answered : InForce(d, now)}
    <3>1. CASE poll.startup BY <3>1 DEF Answered
    <3>2. CASE ~poll.startup
      <4>1. Answered = (Held(store) \ ToSet(poll.deleted)) \union ToSet(poll.added) BY <3>2 DEF Answered
      <4>2. Answered' = (Held(store)' \ ToSet(poll.deleted)) \union ToSet(poll.added) BY <3>2 DEF Answered
      <4> QED BY <4>1, <4>2
    <3> QED BY <3>1, <3>2
  <2>2. Agrees(Held(store), lapi[settings.source], now) => Agrees(Held(store)', lapi[settings.source], now)
    BY AgreesInForce
  <2>3. Agrees(Answered, lapi[settings.source], now) => Agrees(Answered', lapi[settings.source], now)
    BY <2>1, AgreesInForce
  <2> QED BY <2>2, <2>3 DEF Inv, Current
<1>5. Off'
  <2> SUFFICES ASSUME ~settings.on, reloads = 0, ~lingering PROVE FALSE BY DEF Off
  <2>1. store = Empty BY DEF Inv, Off
  <2>2. Held(store)' = {} BY <2>1, EmptyStore
  <2>3. Held(store') = {} BY <2>2
  <2> QED BY <2>1, <2>3, HeldNothing
<1> QED BY <1>1, <1>2, <1>3, <1>4, <1>5 DEF Inv

LEMMA LookupStep ==
    ASSUME Inv, Lookup
    PROVE  Inv'
<1>1. store \in Stores BY DEF Inv, TypeInv
<1>2. store' = Evicted(store, now) /\ store' # store BY DEF Lookup
<1>3. UNCHANGED <<now, lapi, settings, reloads, needsFullSync, poll, disk, drifted, lingering>> BY DEF Lookup
<1>4. /\ store' \in Stores
      /\ {d \in Held(store') : InForce(d, now)} = {d \in Held(store) : InForce(d, now)}
      /\ Held(store') \subseteq Held(store)
  BY <1>1, <1>2, EvictedStore
<1>5. Held(store)' = Held(store') OBVIOUS
<1> QED BY <1>2, <1>3, <1>4, <1>5, ExpiryStep

LEMMA SweepStep ==
    ASSUME Inv, Sweep
    PROVE  Inv'
<1>1. store \in Stores BY DEF Inv, TypeInv
<1>2. store' = Swept(store, now) /\ store' # store BY DEF Sweep
<1>3. UNCHANGED <<now, lapi, settings, reloads, needsFullSync, poll, disk, drifted, lingering>> BY DEF Sweep
<1>4. store' \in Stores /\ Held(store') = {d \in Held(store) : InForce(d, now)} BY <1>1, <1>2, SweptStore
<1>5. /\ {d \in Held(store') : InForce(d, now)} = {d \in Held(store) : InForce(d, now)}
      /\ Held(store') \subseteq Held(store)
  BY <1>4
<1>6. Held(store)' = Held(store') OBVIOUS
<1> QED BY <1>2, <1>3, <1>4, <1>5, <1>6, ExpiryStep

LEMMA RestartStep ==
    ASSUME Inv, Restart
    PROVE  Inv'
<1>1. needsFullSync' = TRUE /\ reloads' = 0 /\ lingering' = FALSE /\ UNCHANGED <<now, lapi, settings, disk, drifted>>
  BY DEF Restart
<1>2. store' = (IF settings.on THEN Snapshot(disk, now) ELSE Empty) BY DEF Restart
<1>3. store' \in Stores
  <2>1. disk \in Seq(Decision) BY DEF Inv, TypeInv
  <2>2. Snapshot(disk, now) \in Stores BY <2>1, BuiltStore, EmptyStore DEF Snapshot
  <2> QED BY <1>2, <2>2, EmptyStore
<1>4. \/ settings.on /\ poll'.pc = "key" /\ poll'.source = settings.source /\ poll'.source \in Source
      \/ ~settings.on /\ poll' = Idle /\ poll'.pc = "idle"
  BY PollingOK DEF Restart, Idle
<1>5. TypeInv'
  <2>1. PollOK' BY <1>4 DEF PollOK, Idle
  <2> QED BY <1>1, <1>3, <2>1 DEF Inv, TypeInv
<1>6. Ledger' BY <1>1 DEF Inv, Ledger
<1>7. Asked' BY <1>1, <1>4 DEF Asked
<1>8. Current' BY <1>1, <1>4 DEF Current
<1>9. Off' BY <1>1, <1>2, <1>4 DEF Off
<1> QED BY <1>5, <1>6, <1>7, <1>8, <1>9 DEF Inv

LEMMA StutterStep ==
    ASSUME Inv, UNCHANGED vars
    PROVE  Inv'
<1>1. UNCHANGED <<now, lapi, settings, reloads, store, needsFullSync, poll, disk, drifted, lingering>> BY DEF vars
<1>2. TypeInv'
  <2>1. PollOK' BY <1>1 DEF PollOK, Inv, TypeInv
  <2> QED BY <1>1, <2>1 DEF Inv, TypeInv
<1>3. Answered' = Answered BY <1>1 DEF Answered
<1>4. Ledger' BY <1>1 DEF Inv, Ledger
<1>5. Asked' BY <1>1 DEF Inv, Asked
<1>6. Current' BY <1>1, <1>3 DEF Inv, Current
<1>7. Off' BY <1>1 DEF Inv, Off
<1> QED BY <1>2, <1>4, <1>5, <1>6, <1>7 DEF Inv

LEMMA InitInv == Init => Inv
<1> SUFFICES ASSUME Init PROVE Inv OBVIOUS
<1>1. \A s \in Source : lapi[s] = [active |-> {}, added |-> {}, deleted |-> {}] BY DEF Init
<1>2. settings \in Settings /\ settings.on = TRUE
  <2>1. (CHOOSE s \in Source : TRUE) \in Source BY SourceNonempty
  <2> QED BY <2>1 DEF Init, Settings
<1>3. poll.pc = "key" /\ poll.source = settings.source /\ poll.source \in Source BY <1>2 DEF Init, Polling, Settings
<1>4. lapi \in [Source -> [active : Sets, added : Sets, deleted : Sets]] BY EmptySets DEF Init
<1>5. TypeInv
  <2>1. PollOK BY <1>3 DEF PollOK
  <2>2. <<>> \in Seq(Decision) OBVIOUS
  <2> QED BY <1>2, <1>4, <2>1, <2>2, EmptyStore DEF Init, TypeInv
<1>6. Ledger BY <1>1 DEF Ledger, Fits
<1>7. Asked BY <1>2, <1>3 DEF Asked
<1>8. Current BY <1>3 DEF Init, Current
<1>9. Off BY <1>2 DEF Off
<1> QED BY <1>5, <1>6, <1>7, <1>8, <1>9 DEF Inv

(* Every behaviour of the poller satisfies the inductive invariant.        *)
THEOREM Invariant == Spec => []Inv
<1>1. Init => Inv BY InitInv
<1>2. Inv /\ [Next]_vars => Inv'
  <2> SUFFICES ASSUME Inv, [Next]_vars PROVE Inv' OBVIOUS
  <2>1. ASSUME NEW s \in Source, NEW d \in Decision, Issue(s, d) \/ Withdraw(s, d) PROVE Inv'
    BY <2>1, IssueStep, WithdrawStep
  <2>2. CASE Tick BY <2>2, TickStep
  <2>3. CASE PollStep
    BY <2>3, StartPollStep, RequestStep, RequestFailsStep, ApplyStep, AdoptStep, SuccessStep, FailureStep DEF PollStep
  <2>4. CASE Refresh BY <2>4, RefreshStep
  <2>5. ASSUME NEW new \in Settings, Save(new) PROVE Inv' BY <2>5, SaveStep
  <2>6. CASE ApplyTimer BY <2>6, ApplyTimerStep
  <2>7. ASSUME NEW s \in Source, TestConnection(s) PROVE Inv' BY <2>7, TestConnectionStep
  <2>8. CASE Lookup BY <2>8, LookupStep
  <2>9. CASE Sweep BY <2>9, SweepStep
  <2>10. CASE Restart BY <2>10, RestartStep
  <2>11. CASE UNCHANGED vars BY <2>11, StutterStep
  <2> QED BY <2>1, <2>2, <2>3, <2>4, <2>5, <2>6, <2>7, <2>8, <2>9, <2>10, <2>11 DEF Next
<1> QED BY <1>1, <1>2, PTL DEF Spec

(* Between polls exactly the decisions of the Local API are in force,      *)
(* whatever deltas, deletions, expiries, sweeps, failures, refreshes and   *)
(* restarts came before (runPoll, applyDelta, remove, live).               *)
THEOREM HeldIsCurrent == Spec => []HeldDecisionsCurrent
<1>1. Inv => HeldDecisionsCurrent
  <2> SUFFICES ASSUME Inv, poll = Idle, settings.on, ~needsFullSync, ~drifted,
                      lapi[settings.source].added = {}, lapi[settings.source].deleted = {}
               PROVE  InForceNow(Held(store)) = lapi[settings.source].active
    BY DEF HeldDecisionsCurrent
  <2>1. poll.pc = "idle" BY DEF Idle
  <2>2. Agrees(Held(store), lapi[settings.source], now) BY <2>1 DEF Inv, Current
  <2> QED BY <2>2 DEF Agrees, InForceNow
<1> QED BY <1>1, Invariant, PTL

(* No decision that is held and in force outranks the one a lookup finds,  *)
(* after any history of insertions, removals and promotions (insert,       *)
(* remove, live).                                                          *)
THEOREM StrongestIsFound == Spec => []StrongestWins
<1>1. Inv => StrongestWins
  <2> SUFFICES ASSUME Inv, Found(store, now) # NoDecision, NEW d \in InForceNow(Held(store)) \ {Found(store, now)}
               PROVE  Dominates(Found(store, now), d)
    BY DEF StrongestWins, Dominates
  <2> DEFINE st == Evicted(store, now)
  <2>1. st \in Stores /\ {e \in Held(st) : InForce(e, now)} = {e \in Held(store) : InForce(e, now)}
    BY EvictedStore DEF Inv, TypeInv
  <2>2. Found(store, now) = st.top BY DEF Found
  <2> HIDE DEF st
  <2>3. d \in Held(st) BY <2>1 DEF InForceNow
  <2>4. d \in ToSet(st.parked) BY <2>2, <2>3 DEF Held
  <2> QED BY <2>1, <2>2, <2>4 DEF Stores, Sound
<1> QED BY <1>1, Invariant, PTL

(* Once the integration is disabled, and no poll was in flight then,       *)
(* nothing is enforced (applyTimer, refreshNow, restoreSnapshot).          *)
THEOREM DisabledHoldsNothing == Spec => []DisabledIsEmpty
<1>1. Inv => DisabledIsEmpty BY DEF Inv, Off, DisabledIsEmpty
<1> QED BY <1>1, Invariant, PTL
=============================================================================
