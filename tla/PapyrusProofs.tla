---------------------------- MODULE PapyrusProofs ----------------------------
(***************************************************************************)
(* Safety of the user interface for every size of the pool.  The links of  *)
(* the tree's nodes are a forest: a rank falls along child and next.  That *)
(* makes the walks of removeFromParent and makeDrawList end and meet every *)
(* node once, so destroy, which checks nothing, frees every index once;    *)
(* and what removal and insertion write leaves a forest.  Read as a tree   *)
(* of sequences of children, it is the one WidgetTree describes.           *)
(***************************************************************************)
EXTENDS Papyrus, WellFoundedInduction, FiniteSetTheorems, TLAPS

(* Induction *)

(* Induction over the natural numbers, for a property given as a set. *)
LEMMA Induction ==
  ASSUME NEW S, 0 \in S, \A n \in Nat : n \in S => n + 1 \in S
  PROVE  Nat \subseteq S
<1> SUFFICES ASSUME Nat \ S # {} PROVE FALSE
  OBVIOUS
<1>1. PICK x \in Nat \ S : \A y \in Nat \ S : ~(<<y, x>> \in OpToRel(<, Nat))
  BY NatLessThanWellFounded, WFMin
<1>2. \A y \in Nat : y < x => <<y, x>> \in OpToRel(<, Nat)
  BY <1>1 DEF OpToRel
<1>3. x \in Nat /\ x \notin S /\ x # 0
  BY <1>1
<1>4. x - 1 \in Nat /\ x - 1 < x
  BY <1>3
<1>5. x - 1 \in S
  BY <1>1, <1>2, <1>4
<1>6. (x - 1) + 1 \in S
  BY <1>4, <1>5
<1> QED BY <1>3, <1>6

(* A step repeated from a beginning: the sequence of results exists. *)
LEMMA Iteration ==
  ASSUME NEW S, NEW base \in S, NEW step \in [S -> S]
  PROVE  \E F \in [Nat -> S] : F[0] = base /\ \A n \in Nat : F[n + 1] = step[F[n]]
<1> DEFINE From(n) == {g \in [0 .. n -> S] : g[0] = base /\ \A i \in 0 .. n - 1 : g[i + 1] = step[g[i]]}
<1>1. \A n \in Nat : From(n) # {}
  <2> DEFINE T == {n \in Nat : From(n) # {}}
  <2>1. [i \in 0 .. 0 |-> base] \in From(0)
    OBVIOUS
  <2>2. ASSUME NEW n \in Nat, n \in T PROVE n + 1 \in T
    <3>1. PICK g \in From(n) : TRUE
      BY <2>2
    <3> DEFINE h == [i \in 0 .. n + 1 |-> IF i = n + 1 THEN step[g[n]] ELSE g[i]]
    <3>2. g \in [0 .. n -> S] /\ g[0] = base /\ \A i \in 0 .. n - 1 : g[i + 1] = step[g[i]]
      BY <3>1
    <3>3. h \in [0 .. n + 1 -> S]
      BY <3>2
    <3>4. h[0] = base
      BY <3>2
    <3>5. \A i \in 0 .. (n + 1) - 1 : h[i + 1] = step[h[i]]
      BY <3>2
    <3>6. h \in From(n + 1)
      BY <3>3, <3>4, <3>5
    <3> HIDE DEF h, From
    <3>7. From(n + 1) # {}
      BY <3>6
    <3> QED BY <3>7
  <2>3. 0 \in T
    BY <2>1
  <2> HIDE DEF T
  <2>4. Nat \subseteq T
    BY <2>2, <2>3, Induction
  <2> QED BY <2>4 DEF T
<1>2. \A n \in Nat : \A m \in Nat : \A g \in From(n) : \A h \in From(m) : n <= m => g[n] = h[n]
  <2> SUFFICES ASSUME NEW n \in Nat, NEW m \in Nat, NEW g \in From(n), NEW h \in From(m), n <= m
               PROVE  g[n] = h[n]
    OBVIOUS
  <2> DEFINE T == {i \in Nat : i <= n => g[i] = h[i]}
  <2>1. 0 \in T
    OBVIOUS
  <2>2. ASSUME NEW i \in Nat, i \in T PROVE i + 1 \in T
    <3> SUFFICES ASSUME i + 1 <= n PROVE g[i + 1] = h[i + 1]
      OBVIOUS
    <3>1. g[i] = h[i] /\ i \in 0 .. n - 1 /\ i \in 0 .. m - 1
      BY <2>2
    <3> QED BY <3>1
  <2> HIDE DEF T
  <2>3. Nat \subseteq T
    BY <2>1, <2>2, Induction
  <2> QED BY <2>3 DEF T
<1> DEFINE Chosen(n) == CHOOSE g \in From(n) : TRUE
           F == [n \in Nat |-> Chosen(n)[n]]
<1>3. \A n \in Nat : Chosen(n) \in From(n)
  BY <1>1
<1> HIDE DEF Chosen
<1>4. F \in [Nat -> S]
  BY <1>3
<1>5. F[0] = base
  BY <1>3
<1>6. ASSUME NEW n \in Nat PROVE F[n + 1] = step[F[n]]
  <2>1. Chosen(n + 1)[n] = Chosen(n)[n]
    <3> HIDE DEF From
    <3>1. n + 1 \in Nat /\ n <= n + 1
      OBVIOUS
    <3> QED BY <1>2, <1>3, <3>1
  <2>2. Chosen(n + 1)[n + 1] = step[Chosen(n + 1)[n]]
    BY <1>3
  <2> QED BY <2>1, <2>2
<1> HIDE DEF F
<1> QED BY <1>4, <1>5, <1>6

-----------------------------------------------------------------------------
(* Ranks and sequences *)

(* Induction along a rank. *)
LEMMA RankInduction ==
  ASSUME NEW L, NEW rk \in [L -> Nat], NEW Q,
         \A x \in L : (\A y \in L : rk[y] < rk[x] => y \in Q) => x \in Q
  PROVE  L \subseteq Q
<1> DEFINE T == {n \in Nat : \A x \in L : rk[x] < n => x \in Q}
<1>1. 0 \in T
  OBVIOUS
<1>2. ASSUME NEW n \in Nat, n \in T PROVE n + 1 \in T
  <2> SUFFICES ASSUME NEW x \in L, rk[x] < n + 1 PROVE x \in Q
    OBVIOUS
  <2>1. \A y \in L : rk[y] < rk[x] => rk[y] < n
    OBVIOUS
  <2> QED BY <1>2, <2>1
<1> HIDE DEF T
<1>3. Nat \subseteq T
  BY <1>1, <1>2, Induction
<1>4. \A x \in L : rk[x] + 1 \in T /\ rk[x] < rk[x] + 1
  BY <1>3
<1> QED BY <1>4 DEF T

(* What a concatenation holds. *)
LEMMA RangeOfConcat ==
  ASSUME NEW S, NEW s \in Seq(S), NEW t \in Seq(S)
  PROVE  s \o t \in Seq(S) /\ ToSet(s \o t) = ToSet(s) \cup ToSet(t)
<1> DEFINE u == s \o t
<1>1. /\ u \in Seq(S) /\ DOMAIN u = 1 .. Len(s) + Len(t)
      /\ \A i \in 1 .. Len(s) : u[i] = s[i]
      /\ \A i \in 1 .. Len(t) : u[Len(s) + i] = t[i]
  OBVIOUS
<1>2. DOMAIN s = 1 .. Len(s) /\ DOMAIN t = 1 .. Len(t) /\ Len(s) \in Nat /\ Len(t) \in Nat
  OBVIOUS
<1> HIDE DEF u
<1>3. ASSUME NEW i \in DOMAIN u PROVE u[i] \in ToSet(s) \cup ToSet(t)
  <2>1. CASE i <= Len(s)
    BY <1>1, <1>2, <2>1 DEF ToSet
  <2>2. CASE i > Len(s)
    <3>1. i - Len(s) \in 1 .. Len(t) /\ Len(s) + (i - Len(s)) = i
      BY <1>1, <1>2, <2>2
    <3> QED BY <1>1, <1>2, <3>1 DEF ToSet
  <2> QED BY <2>1, <2>2, <1>1, <1>2
<1>4. \A i \in DOMAIN s : s[i] \in ToSet(u)
  BY <1>1, <1>2 DEF ToSet
<1>5. ASSUME NEW i \in DOMAIN t PROVE t[i] \in ToSet(u)
  <2>1. Len(s) + i \in DOMAIN u /\ u[Len(s) + i] = t[i]
    BY <1>1, <1>2
  <2> QED BY <2>1 DEF ToSet
<1>6. ToSet(u) = ToSet(s) \cup ToSet(t)
  BY <1>3, <1>4, <1>5 DEF ToSet
<1> QED BY <1>1, <1>6 DEF u

(* Two sequences with nothing in common, one after the other. *)
LEMMA ConcatInjective ==
  ASSUME NEW S, NEW s \in Seq(S), NEW t \in Seq(S),
         IsInjective(s), IsInjective(t), ToSet(s) \cap ToSet(t) = {}
  PROVE  IsInjective(s \o t)
<1> DEFINE u == s \o t
<1>1. /\ u \in Seq(S) /\ DOMAIN u = 1 .. Len(s) + Len(t)
      /\ \A i \in 1 .. Len(s) : u[i] = s[i]
      /\ \A i \in 1 .. Len(t) : u[Len(s) + i] = t[i]
  OBVIOUS
<1>2. DOMAIN s = 1 .. Len(s) /\ DOMAIN t = 1 .. Len(t) /\ Len(s) \in Nat /\ Len(t) \in Nat
  OBVIOUS
<1> HIDE DEF u
<1>3. \A i \in DOMAIN u : i > Len(s) => i - Len(s) \in 1 .. Len(t) /\ u[i] = t[i - Len(s)]
  <2> SUFFICES ASSUME NEW i \in DOMAIN u, i > Len(s)
               PROVE  i - Len(s) \in 1 .. Len(t) /\ u[i] = t[i - Len(s)]
    OBVIOUS
  <2>1. i - Len(s) \in 1 .. Len(t) /\ Len(s) + (i - Len(s)) = i
    BY <1>1, <1>2
  <2> QED BY <1>1, <2>1
<1>4. \A i \in DOMAIN u : i <= Len(s) => i \in 1 .. Len(s) /\ u[i] = s[i]
  BY <1>1, <1>2
<1>5. \A i \in 1 .. Len(s), j \in 1 .. Len(t) : s[i] # t[j]
  BY <1>2 DEF ToSet
<1>6. ASSUME NEW i \in DOMAIN u, NEW j \in DOMAIN u, u[i] = u[j] PROVE i = j
  <2>1. CASE i <= Len(s) /\ j <= Len(s)
    BY <1>2, <1>4, <1>6, <2>1 DEF IsInjective
  <2>2. CASE i > Len(s) /\ j > Len(s)
    <3>1. i - Len(s) = j - Len(s)
      BY <1>2, <1>3, <1>6, <2>2 DEF IsInjective
    <3> QED BY <1>1, <1>2, <3>1
  <2>3. CASE (i <= Len(s) /\ j > Len(s)) \/ (i > Len(s) /\ j <= Len(s))
    BY <1>3, <1>4, <1>5, <1>6, <2>3
  <2> QED BY <1>1, <1>2, <2>1, <2>2, <2>3
<1> QED BY <1>6 DEF IsInjective, u

(* A sequence of one. *)
LEMMA RangeOfOne == ASSUME NEW S, NEW x \in S PROVE <<x>> \in Seq(S) /\ ToSet(<<x>>) = {x} /\ IsInjective(<<x>>)
BY DEF ToSet, IsInjective

-----------------------------------------------------------------------------
(* Forests and their walks *)

Forest(L, par, ch, en, nx, pv, rk) ==
  /\ Null \in L
  /\ par \in [L -> L] /\ ch \in [L -> L] /\ en \in [L -> L]
  /\ nx \in [L -> L] /\ pv \in [L -> L] /\ rk \in [L -> Nat]
  /\ par[Null] = Null /\ nx[Null] = Null /\ pv[Null] = Null
  /\ \A x \in L : rk[x] <= rk[Null]
  /\ \A x \in L :
       /\ (ch[x] = Null) <=> (en[x] = Null)
       /\ ch[x] # Null => pv[ch[x]] = Null /\ par[ch[x]] = x
       /\ en[x] # Null => nx[en[x]] = Null /\ par[en[x]] = x
       /\ x # Null =>
            /\ rk[x] < rk[par[x]]
            /\ nx[x] # Null => pv[nx[x]] = x /\ par[nx[x]] = par[x] /\ rk[nx[x]] < rk[x]
            /\ pv[x] # Null => nx[pv[x]] = x /\ par[pv[x]] = par[x]
            /\ nx[x] = Null => en[par[x]] = x
            /\ pv[x] = Null => ch[par[x]] = x

(* All that a walk needs to end: a rank that falls along the links it follows. *)
Falls(L, ch, nx, rk) ==
  /\ Null \in L
  /\ ch \in [L -> L] /\ nx \in [L -> L] /\ rk \in [L -> Nat]
  /\ \A x \in L \ {Null} :
       /\ ch[x] = Null \/ rk[ch[x]] < rk[x]
       /\ nx[x] = Null \/ rk[nx[x]] < rk[x]

LEMMA ForestFalls ==
  ASSUME NEW L, NEW par, NEW ch, NEW en, NEW nx, NEW pv, NEW rk, Forest(L, par, ch, en, nx, pv, rk)
  PROVE  Falls(L, ch, nx, rk)
<1>1. /\ Null \in L
      /\ ch \in [L -> L] /\ nx \in [L -> L] /\ rk \in [L -> Nat]
  BY DEF Forest
<1>2. ASSUME NEW x \in L, x # Null
      PROVE  /\ ch[x] = Null \/ rk[ch[x]] < rk[x]
             /\ nx[x] = Null \/ rk[nx[x]] < rk[x]
  BY <1>2 DEF Forest
<1> QED BY <1>1, <1>2 DEF Falls

IsWalk(L, ch, nx, w) ==
  /\ w \in [L -> Seq(L)]
  /\ \A x \in L : w[x] = IF x = Null THEN <<>> ELSE <<x>> \o w[ch[x]] \o w[nx[x]]

(* The recursion of a walk ends: such a function exists. *)
LEMMA WalkExists ==
  ASSUME NEW L, NEW ch, NEW nx, NEW rk, Falls(L, ch, nx, rk)
  PROVE  \E w : IsWalk(L, ch, nx, w)
<1> DEFINE S == [L -> Seq(L)]
           Base == [x \in L |-> <<>>]
           After(f) == [x \in L |-> IF x = Null THEN <<>> ELSE <<x>> \o f[ch[x]] \o f[nx[x]]]
           Step == [f \in S |-> After(f)]
<1>1. Base \in S
  OBVIOUS
<1>2. ASSUME NEW f \in S PROVE After(f) \in S
  <2> SUFFICES ASSUME NEW x \in L, x # Null PROVE <<x>> \o f[ch[x]] \o f[nx[x]] \in Seq(L)
    OBVIOUS
  <2>1. ch[x] \in L /\ nx[x] \in L
    BY DEF Falls
  <2>2. f[ch[x]] \in Seq(L) /\ f[nx[x]] \in Seq(L)
    BY <2>1
  <2>3. <<x>> \in Seq(L)
    OBVIOUS
  <2> QED BY <2>2, <2>3
<1>3. Step \in [S -> S]
  BY <1>2
<1> HIDE DEF Base, Step, S
<1>4. PICK F \in [Nat -> S] : F[0] = Base /\ \A n \in Nat : F[n + 1] = Step[F[n]]
  BY <1>1, <1>3, Iteration
<1>5. \A n \in Nat : F[n] \in S /\ F[n + 1] = After(F[n])
  BY <1>4 DEF Step
<1>6. \A n \in Nat : F[n][Null] = <<>>
  <2>1. Null \in L
    BY DEF Falls
  <2>2. F[0][Null] = <<>>
    BY <1>4, <2>1 DEF Base
  <2>3. \A n \in Nat : F[n + 1][Null] = <<>>
    BY <1>5, <2>1
  <2>4. ASSUME NEW n \in Nat, n # 0 PROVE F[n][Null] = <<>>
    <3>1. n - 1 \in Nat /\ (n - 1) + 1 = n
      BY <2>4
    <3> QED BY <2>3, <3>1
  <2> QED BY <2>2, <2>4
<1> DEFINE T == {n \in Nat : \A x \in L : rk[x] < n => F[n][x] = F[n + 1][x]}
<1>7. rk \in [L -> Nat]
  BY DEF Falls
<1>8. 0 \in T
  BY <1>7
<1>9. ASSUME NEW n \in Nat, n \in T PROVE n + 1 \in T
  <2> SUFFICES ASSUME NEW x \in L, rk[x] < n + 1, x # Null PROVE F[n + 1][x] = F[(n + 1) + 1][x]
    BY <1>6
  <2>1. \A y \in L : y = Null \/ rk[y] < rk[x] => F[n][y] = F[n + 1][y]
    BY <1>6, <1>7, <1>9
  <2>2. /\ ch[x] \in L /\ nx[x] \in L
        /\ ch[x] = Null \/ rk[ch[x]] < rk[x]
        /\ nx[x] = Null \/ rk[nx[x]] < rk[x]
    BY DEF Falls
  <2>3. F[n][ch[x]] = F[n + 1][ch[x]] /\ F[n][nx[x]] = F[n + 1][nx[x]]
    BY <2>1, <2>2
  <2>4. F[n + 1] = After(F[n]) /\ F[(n + 1) + 1] = After(F[n + 1])
    <3> HIDE DEF After
    <3>1. n + 1 \in Nat
      OBVIOUS
    <3> QED BY <1>5, <3>1
  <2>5. After(F[n])[x] = After(F[n + 1])[x]
    BY <2>3
  <2> HIDE DEF After
  <2> QED BY <2>4, <2>5
<1> HIDE DEF T
<1>10. Nat \subseteq T
  BY <1>8, <1>9, Induction
<1>11. \A x \in L : F[rk[x] + 1][x] = F[(rk[x] + 1) + 1][x]
  BY <1>7, <1>10 DEF T
<1>12. ASSUME NEW x \in L PROVE \A m \in Nat : F[rk[x] + 1][x] = F[(rk[x] + 1) + m][x]
  <2> DEFINE U == {m \in Nat : F[rk[x] + 1][x] = F[(rk[x] + 1) + m][x]}
  <2>0. rk[x] \in Nat
    BY <1>7
  <2>1. 0 \in U
    BY <2>0
  <2>2. ASSUME NEW m \in Nat, m \in U PROVE m + 1 \in U
    <3>1. (rk[x] + 1) + m \in T /\ rk[x] < (rk[x] + 1) + m
      BY <1>10, <2>0
    <3>2. F[(rk[x] + 1) + m][x] = F[((rk[x] + 1) + m) + 1][x]
      BY <3>1 DEF T
    <3>3. ((rk[x] + 1) + m) + 1 = (rk[x] + 1) + (m + 1)
      BY <2>0
    <3> QED BY <2>2, <3>2, <3>3
  <2> HIDE DEF U
  <2>3. Nat \subseteq U
    BY <2>1, <2>2, Induction
  <2> QED BY <2>3 DEF U
<1> DEFINE w == [x \in L |-> F[rk[x] + 1][x]]
<1>13. w \in [L -> Seq(L)]
  BY <1>5, <1>7 DEF S
<1>14. ASSUME NEW x \in L, x # Null PROVE w[x] = <<x>> \o w[ch[x]] \o w[nx[x]]
  <2>1. F[rk[x] + 1] = After(F[rk[x]])
    BY <1>5, <1>7
  <2>2. \A y \in L : y = Null \/ rk[y] < rk[x] => F[rk[x]][y] = w[y]
    <3> SUFFICES ASSUME NEW y \in L, y = Null \/ rk[y] < rk[x] PROVE F[rk[x]][y] = F[rk[y] + 1][y]
      OBVIOUS
    <3>1. CASE y = Null
      BY <3>1, <1>6, <1>7
    <3>2. CASE rk[y] < rk[x]
      <4>1. rk[x] - (rk[y] + 1) \in Nat /\ (rk[y] + 1) + (rk[x] - (rk[y] + 1)) = rk[x]
        BY <3>2, <1>7
      <4> QED BY <1>12, <4>1
    <3> QED BY <3>1, <3>2
  <2>3. /\ ch[x] \in L /\ nx[x] \in L
        /\ ch[x] = Null \/ rk[ch[x]] < rk[x]
        /\ nx[x] = Null \/ rk[nx[x]] < rk[x]
    BY <1>14 DEF Falls
  <2>4. F[rk[x]][ch[x]] = w[ch[x]] /\ F[rk[x]][nx[x]] = w[nx[x]]
    BY <2>2, <2>3
  <2> HIDE DEF w
  <2>5. w[x] = F[rk[x] + 1][x]
    BY DEF w
  <2> QED BY <1>14, <2>1, <2>4, <2>5
<1>15. Null \in L => w[Null] = <<>>
  BY <1>6, <1>7
<1> HIDE DEF w
<1>16. IsWalk(L, ch, nx, w)
  BY <1>13, <1>14, <1>15 DEF IsWalk
<1> QED BY <1>16

-----------------------------------------------------------------------------
(* Whom a walk visits *)

(* What is visited from a node: itself, what is below it and after it. *)
Visits(L, ch, nx, R) ==
  /\ R \in [L -> SUBSET L]
  /\ \A x \in L : R[x] = IF x = Null THEN {} ELSE {x} \cup R[ch[x]] \cup R[nx[x]]

(* The nodes on a walk are those its recursion names. *)
LEMMA WalkVisits ==
  ASSUME NEW L, NEW ch \in [L -> L], NEW nx \in [L -> L], NEW w, IsWalk(L, ch, nx, w)
  PROVE  Visits(L, ch, nx, [x \in L |-> ToSet(w[x])])
<1>1. \A x \in L : w[x] \in Seq(L)
  BY DEF IsWalk
<1>2. \A x \in L : ToSet(w[x]) \subseteq L
  BY <1>1 DEF ToSet
<1>3. ASSUME NEW x \in L, x = Null PROVE ToSet(w[x]) = {}
  <2>1. w[x] = <<>>
    BY <1>3 DEF IsWalk
  <2>2. ToSet(<< >>) = {}
    BY DEF ToSet
  <2> QED BY <2>1, <2>2
<1>4. ASSUME NEW x \in L, x # Null PROVE ToSet(w[x]) = {x} \cup ToSet(w[ch[x]]) \cup ToSet(w[nx[x]])
  <2> DEFINE one == <<x>>
             below == w[ch[x]]
             after == w[nx[x]]
  <2>1. w[x] = (one \o below) \o after
    BY <1>4 DEF IsWalk
  <2>2. below \in Seq(L) /\ after \in Seq(L)
    BY <1>1
  <2>3. one \in Seq(L) /\ ToSet(one) = {x}
    BY RangeOfOne
  <2> HIDE DEF one, below, after
  <2>4. one \o below \in Seq(L) /\ ToSet(one \o below) = ToSet(one) \cup ToSet(below)
    BY <2>2, <2>3, RangeOfConcat
  <2>5. ToSet((one \o below) \o after) = ToSet(one \o below) \cup ToSet(after)
    <3> DEFINE both == one \o below
    <3>1. both \in Seq(L)
      BY <2>4
    <3> HIDE DEF both
    <3>2. ToSet(both \o after) = ToSet(both) \cup ToSet(after)
      BY <2>2, <3>1, RangeOfConcat
    <3> QED BY <3>2 DEF both
  <2> QED BY <2>1, <2>3, <2>4, <2>5 DEF below, after
<1> QED BY <1>2, <1>3, <1>4 DEF Visits

Closed(L, par, ch, nx, pv, rk, R, x) ==
  /\ \A z \in R[x] :
       /\ z # Null /\ rk[z] <= rk[x]
       /\ par[z] \in R[x] \cup {par[x]}
       /\ ch[z] \in R[x] \cup {Null}
       /\ nx[z] \in R[x] \cup {Null}
       /\ z # x => pv[z] \in R[x] \cup {Null}

(* A visited node's child and next are visited too. *)
LEMMA VisitsClosed ==
  ASSUME NEW L, NEW par, NEW ch, NEW en, NEW nx, NEW pv, NEW rk, Forest(L, par, ch, en, nx, pv, rk),
         NEW R, Visits(L, ch, nx, R)
  PROVE  \A x \in L : Closed(L, par, ch, nx, pv, rk, R, x)
<1> DEFINE Q == {x \in L : Closed(L, par, ch, nx, pv, rk, R, x)}
<1>0. rk \in [L -> Nat]
  BY DEF Forest
<1>1. ASSUME NEW x \in L, \A y \in L : rk[y] < rk[x] => y \in Q PROVE x \in Q
  <2>1. CASE x = Null
    BY <2>1 DEF Visits, Closed
  <2>2. CASE x # Null
    <3> DEFINE c == ch[x]
               n == nx[x]
    <3>1. /\ c \in L /\ n \in L
          /\ c = Null \/ (rk[c] < rk[x] /\ pv[c] = Null /\ par[c] = x)
          /\ n = Null \/ (rk[n] < rk[x] /\ pv[n] = x /\ par[n] = par[x])
      BY <2>2 DEF Forest
    <3>2. R[x] = {x} \cup R[c] \cup R[n] /\ R[Null] = {} /\ R[c] \subseteq L /\ R[n] \subseteq L
      BY <2>2, <3>1 DEF Visits, Forest
    <3>3. c # Null => c \in R[c]
      BY <3>1 DEF Visits
    <3>4. n # Null => n \in R[n]
      BY <3>1 DEF Visits
    <3>5. c = Null \/ Closed(L, par, ch, nx, pv, rk, R, c)
      BY <1>1, <3>1
    <3>6. n = Null \/ Closed(L, par, ch, nx, pv, rk, R, n)
      BY <1>1, <3>1
    <3> HIDE DEF c, n
    <3>7. ASSUME NEW z \in R[c]
          PROVE  /\ z # Null /\ rk[z] <= rk[x]
                 /\ par[z] \in R[x] \cup {par[x]}
                 /\ ch[z] \in R[x] \cup {Null}
                 /\ nx[z] \in R[x] \cup {Null}
                 /\ pv[z] \in R[x] \cup {Null}
      <4>1. z \in L /\ rk[z] <= rk[c] /\ rk[c] < rk[x] /\ rk[z] \in Nat /\ rk[c] \in Nat /\ rk[x] \in Nat
        BY <1>0, <3>1, <3>2, <3>5 DEF Closed
      <4> QED BY <3>1, <3>2, <3>5, <4>1 DEF Closed
    <3>8. ASSUME NEW z \in R[n]
          PROVE  /\ z # Null /\ rk[z] <= rk[x]
                 /\ par[z] \in R[x] \cup {par[x]}
                 /\ ch[z] \in R[x] \cup {Null}
                 /\ nx[z] \in R[x] \cup {Null}
                 /\ pv[z] \in R[x] \cup {Null}
      <4>1. z \in L /\ rk[z] <= rk[n] /\ rk[n] < rk[x] /\ rk[z] \in Nat /\ rk[n] \in Nat /\ rk[x] \in Nat
        BY <1>0, <3>1, <3>2, <3>6 DEF Closed
      <4> QED BY <3>1, <3>2, <3>6, <4>1 DEF Closed
    <3>9. ch[x] \in R[x] \cup {Null} /\ nx[x] \in R[x] \cup {Null}
      BY <3>2, <3>3, <3>4 DEF c, n
    <3>10. rk[x] <= rk[x]
      BY <1>0
    <3> QED BY <2>2, <3>2, <3>7, <3>8, <3>9, <3>10 DEF Closed
  <2> QED BY <2>1, <2>2
<1> HIDE DEF Q
<1>2. L \subseteq Q
  BY <1>0, <1>1, RankInduction
<1> QED BY <1>2 DEF Q

(* What is below a node and what comes after it have nothing in common. *)
LEMMA VisitsApart ==
  ASSUME NEW L, NEW par, NEW ch, NEW en, NEW nx, NEW pv, NEW rk, Forest(L, par, ch, en, nx, pv, rk),
         NEW R, Visits(L, ch, nx, R), NEW x \in L, x # Null
  PROVE  x \notin R[ch[x]] /\ x \notin R[nx[x]] /\ R[ch[x]] \cap R[nx[x]] = {}
<1> DEFINE c == ch[x]
           n == nx[x]
           A == R[c] \cap R[n]
<1>0. rk \in [L -> Nat] /\ par \in [L -> L] /\ R \in [L -> SUBSET L]
  BY DEF Forest, Visits
<1>1. /\ c \in L /\ n \in L /\ rk[x] < rk[par[x]]
      /\ c = Null \/ (rk[c] < rk[x] /\ pv[c] = Null /\ par[c] = x)
      /\ n = Null \/ (rk[n] < rk[x] /\ pv[n] = x /\ par[n] = par[x])
  BY DEF Forest
<1>2. R[Null] = {} /\ Null \in L
  BY DEF Visits, Forest
<1>3. Closed(L, par, ch, nx, pv, rk, R, c) /\ Closed(L, par, ch, nx, pv, rk, R, n)
  BY <1>1, VisitsClosed
<1> HIDE DEF c, n
<1>4. \A z \in R[c] \cup R[n] : z \in L /\ rk[z] < rk[x] /\ z # Null
  <2>1. ASSUME NEW z \in R[c] PROVE z \in L /\ rk[z] < rk[x] /\ z # Null
    <3>1. c # Null /\ z \in L
      BY <1>0, <1>1, <1>2
    <3>2. rk[z] <= rk[c] /\ rk[c] < rk[x] /\ z # Null
      BY <1>1, <1>3, <3>1 DEF Closed
    <3> QED BY <1>0, <1>1, <3>1, <3>2
  <2>2. ASSUME NEW z \in R[n] PROVE z \in L /\ rk[z] < rk[x] /\ z # Null
    <3>1. n # Null /\ z \in L
      BY <1>0, <1>1, <1>2
    <3>2. rk[z] <= rk[n] /\ rk[n] < rk[x] /\ z # Null
      BY <1>1, <1>3, <3>1 DEF Closed
    <3> QED BY <1>0, <1>1, <3>1, <3>2
  <2> QED BY <2>1, <2>2
<1>5. x \notin R[c] /\ x \notin R[n] /\ par[x] \notin R[c] \cup R[n]
  <2>1. rk[x] \in Nat /\ rk[par[x]] \in Nat /\ rk[x] < rk[par[x]]
    BY <1>0, <1>1
  <2> QED BY <1>4, <2>1
<1>6. ASSUME NEW z \in A PROVE \E y \in A : rk[z] < rk[y]
  <2>1. c # Null /\ n # Null /\ z \in L /\ z # Null
    BY <1>2, <1>4
  <2>2. CASE pv[z] # Null
    <3>1. z # c
      BY <1>1, <2>1, <2>2
    <3>2. pv[z] \in R[c]
      BY <1>3, <2>2, <3>1 DEF Closed
    <3>3. z # n
      BY <1>1, <1>5, <2>1, <3>2
    <3>4. pv[z] \in R[n]
      BY <1>3, <2>2, <3>3 DEF Closed
    <3>5. pv[z] \in L /\ nx[pv[z]] = z
      BY <2>1, <2>2 DEF Forest
    <3>6. rk[z] < rk[pv[z]]
      BY <2>1, <2>2, <3>5 DEF Forest
    <3> QED BY <3>2, <3>4, <3>6
  <2>3. CASE pv[z] = Null
    <3>1. par[z] \in R[c] \cup {x} /\ par[z] \in R[n] \cup {par[x]}
      BY <1>1, <1>3, <2>1 DEF Closed
    <3>2. x # par[x]
      BY <1>0, <1>1
    <3>3. par[z] \in A
      BY <1>5, <3>1, <3>2
    <3>4. rk[z] < rk[par[z]]
      BY <2>1 DEF Forest
    <3> QED BY <3>3, <3>4
  <2> QED BY <2>2, <2>3
<1>7. A = {}
  <2> DEFINE up == [z \in A |-> rk[x] - rk[z]]
             Q == {}
  <2>1. \A z \in A : z \in L /\ rk[z] \in Nat /\ rk[x] \in Nat /\ rk[z] < rk[x]
    BY <1>0, <1>4
  <2>2. up \in [A -> Nat]
    BY <2>1
  <2>3. ASSUME NEW z \in A, \A y \in A : up[y] < up[z] => y \in Q PROVE z \in Q
    <3>1. PICK y \in A : rk[z] < rk[y]
      BY <1>6
    <3>2. up[y] < up[z]
      BY <2>1, <3>1
    <3> QED BY <2>3, <3>2
  <2> HIDE DEF up, Q, A
  <2>4. A \subseteq Q
    BY <2>2, <2>3, RankInduction
  <2> QED BY <2>4 DEF Q
<1> QED BY <1>5, <1>7 DEF c, n

(* A walk meets no node twice. *)
LEMMA WalkInjective ==
  ASSUME NEW L, NEW par, NEW ch, NEW en, NEW nx, NEW pv, NEW rk, Forest(L, par, ch, en, nx, pv, rk),
         NEW w, IsWalk(L, ch, nx, w)
  PROVE  \A x \in L : IsInjective(w[x])
<1> DEFINE Q == {x \in L : IsInjective(w[x])}
           R == [x \in L |-> ToSet(w[x])]
<1>0. rk \in [L -> Nat] /\ ch \in [L -> L] /\ nx \in [L -> L]
  BY DEF Forest
<1>1. ASSUME NEW x \in L, \A y \in L : rk[y] < rk[x] => y \in Q PROVE x \in Q
  <2>1. IsInjective(<< >>)
    BY DEF IsInjective
  <2>2. CASE x = Null
    BY <2>1, <2>2 DEF IsWalk
  <2>3. CASE x # Null
    <3>1. Visits(L, ch, nx, R)
      BY <1>0, WalkVisits
    <3>2. x \notin R[ch[x]] /\ x \notin R[nx[x]] /\ R[ch[x]] \cap R[nx[x]] = {}
      <4> HIDE DEF R
      <4> QED BY <2>3, <3>1, VisitsApart
    <3>3. x \notin ToSet(w[ch[x]]) /\ x \notin ToSet(w[nx[x]]) /\ ToSet(w[ch[x]]) \cap ToSet(w[nx[x]]) = {}
      BY <1>0, <3>2
    <3>4. /\ ch[x] = Null \/ rk[ch[x]] < rk[x]
          /\ nx[x] = Null \/ rk[nx[x]] < rk[x]
      BY <2>3 DEF Forest
    <3>5. Null \in L /\ w[Null] = <<>>
      BY DEF Forest, IsWalk
    <3>6. IsInjective(w[ch[x]]) /\ IsInjective(w[nx[x]])
      BY <1>0, <1>1, <2>1, <3>4, <3>5
    <3>7. w[ch[x]] \in Seq(L) /\ w[nx[x]] \in Seq(L)
      BY <1>0 DEF IsWalk
    <3> DEFINE one == <<x>>
               below == w[ch[x]]
               after == w[nx[x]]
    <3>8. w[x] = (one \o below) \o after
      BY <2>3 DEF IsWalk
    <3>9. one \in Seq(L) /\ ToSet(one) = {x} /\ IsInjective(one)
      BY RangeOfOne
    <3> HIDE DEF one, below, after
    <3>10. one \o below \in Seq(L) /\ ToSet(one \o below) = {x} \cup ToSet(below)
      BY <3>7, <3>9, RangeOfConcat DEF below
    <3>11. IsInjective(one \o below)
      BY <3>3, <3>6, <3>7, <3>9, ConcatInjective DEF below
    <3>12. ToSet(one \o below) \cap ToSet(after) = {}
      BY <3>3, <3>10 DEF below, after
    <3>13. IsInjective((one \o below) \o after)
      BY <3>6, <3>7, <3>10, <3>11, <3>12, ConcatInjective DEF after
    <3> QED BY <3>8, <3>13
  <2> QED BY <2>2, <2>3
<1> HIDE DEF Q
<1>2. L \subseteq Q
  BY <1>0, <1>1, RankInduction
<1> QED BY <1>2 DEF Q

-----------------------------------------------------------------------------
(* Taking a node away *)

(* K is h and nodes that only h connects to the others. *)
TopOnly(L, par, ch, en, nx, pv, h, K) ==
  /\ h \in K /\ Null \notin K /\ K \subseteq L
  /\ {par[h], nx[h], pv[h]} \cap K = {}
  /\ \A y \in L \ K :
       /\ par[y] \notin K
       /\ ch[y] \in K => ch[y] = h /\ y = par[h]
       /\ en[y] \in K => en[y] = h /\ y = par[h]
       /\ nx[y] \in K => nx[y] = h /\ y = pv[h]
       /\ pv[y] \in K => pv[y] = h /\ y = nx[h]

(* What is left refers to what is taken away, a node and all below it, by the *)
(* links of the node's neighbours only.                                       *)
LEMMA RestRefersToTop ==
  ASSUME NEW L, NEW par, NEW ch, NEW en, NEW nx, NEW pv, NEW rk, Forest(L, par, ch, en, nx, pv, rk),
         NEW R, Visits(L, ch, nx, R), NEW h \in L, h # Null,
         NEW K, K = {h} \cup R[ch[h]]
  PROVE  TopOnly(L, par, ch, en, nx, pv, h, K)
<1> DEFINE c == ch[h]
<1>0. rk \in [L -> Nat] /\ par \in [L -> L] /\ ch \in [L -> L] /\ nx \in [L -> L] /\ pv \in [L -> L] /\ R \in [L -> SUBSET L]
  BY DEF Forest, Visits
<1>1. c \in L /\ (c = Null \/ (rk[c] < rk[h] /\ pv[c] = Null /\ par[c] = h))
  BY DEF Forest
<1>2. R[Null] = {} /\ Null \in L /\ (c # Null => c \in R[c])
  BY <1>1 DEF Visits, Forest
<1>3. Closed(L, par, ch, nx, pv, rk, R, c)
  BY <1>1, VisitsClosed
<1>4. h \notin R[c]
  BY VisitsApart
<1>5. K = {h} \cup R[c]
  OBVIOUS
<1> HIDE DEF c
<1>6. \A z \in R[c] : /\ z \in L /\ z # Null /\ z # h /\ rk[z] <= rk[h]
                      /\ par[z] \in K
                      /\ ch[z] \in K \cup {Null} /\ nx[z] \in K \cup {Null} /\ pv[z] \in K \cup {Null}
                      /\ pv[z] # h
  <2> SUFFICES ASSUME NEW z \in R[c]
               PROVE  /\ z \in L /\ z # Null /\ z # h /\ rk[z] <= rk[h]
                      /\ par[z] \in K
                      /\ ch[z] \in K \cup {Null} /\ nx[z] \in K \cup {Null} /\ pv[z] \in K \cup {Null}
                      /\ pv[z] # h
    OBVIOUS
  <2>1. c # Null /\ z \in L /\ z # h
    BY <1>0, <1>1, <1>2, <1>4
  <2>2. rk[z] <= rk[h]
    BY <1>0, <1>1, <1>3, <2>1 DEF Closed
  <2>3. /\ z # Null
        /\ par[z] \in R[c] \cup {h} /\ ch[z] \in R[c] \cup {Null} /\ nx[z] \in R[c] \cup {Null}
        /\ pv[z] \in R[c] \cup {Null}
    BY <1>1, <1>3, <2>1 DEF Closed
  <2> QED BY <1>4, <1>5, <2>1, <2>2, <2>3
<1>7. Null \notin K /\ K \subseteq L /\ ch[h] \in K \cup {Null}
  BY <1>2, <1>5, <1>6 DEF c
<1>8. \A z \in K : rk[z] <= rk[h] /\ z \in L
  BY <1>0, <1>5, <1>6
<1>9. par[h] \notin K /\ pv[h] \notin K /\ nx[h] \notin K
  <2>1. rk[h] < rk[par[h]] /\ rk[h] \in Nat /\ rk[par[h]] \in Nat
    BY <1>0 DEF Forest
  <2>2. pv[h] = Null \/ (pv[h] \in L /\ nx[pv[h]] = h /\ rk[h] < rk[pv[h]])
    BY DEF Forest
  <2>3. rk[h] \in Nat /\ rk[pv[h]] \in Nat /\ rk[nx[h]] \in Nat
    BY <1>0
  <2>4. nx[h] = Null \/ (pv[nx[h]] = h /\ rk[nx[h]] < rk[h])
    BY DEF Forest
  <2>5. par[h] \notin K
    BY <1>8, <2>1
  <2>6. pv[h] \notin K
    BY <1>7, <1>8, <2>2, <2>3
  <2>7. nx[h] \notin K
    BY <1>5, <1>6, <1>7, <2>3, <2>4
  <2> QED BY <2>5, <2>6, <2>7
<1>10. \A y \in L \ K : par[y] \notin K
  <2> DEFINE B == {y \in L \ K : par[y] \in K}
  <2>1. ASSUME NEW y \in B PROVE pv[y] \in B /\ rk[y] < rk[pv[y]] /\ rk[y] < rk[h]
    <3>1. y \in L /\ y \notin K /\ par[y] \in K /\ y # Null
      BY <1>7 DEF Forest
    <3>2. pv[y] # Null
      <4>1. ch[par[y]] \in K \cup {Null}
        BY <1>5, <1>6, <1>7, <3>1
      <4> QED BY <3>1, <4>1 DEF Forest
    <3>3. pv[y] \in L /\ nx[pv[y]] = y /\ par[pv[y]] = par[y]
      BY <3>1, <3>2 DEF Forest
    <3>4. pv[y] # h
      BY <1>9, <3>1, <3>3
    <3>5. pv[y] \notin K
      BY <1>5, <1>6, <3>1, <3>3, <3>4
    <3>6. rk[y] < rk[pv[y]]
      BY <3>1, <3>2, <3>3 DEF Forest
    <3>7. rk[y] < rk[par[y]] /\ rk[par[y]] <= rk[h]
      BY <1>8, <3>1 DEF Forest
    <3>8. rk[y] \in Nat /\ rk[par[y]] \in Nat /\ rk[h] \in Nat
      BY <1>0, <3>1
    <3> QED BY <3>1, <3>3, <3>5, <3>6, <3>7, <3>8
  <2> DEFINE up == [z \in B |-> rk[h] - rk[z]]
             Q == {}
  <2>2. \A z \in B : rk[z] \in Nat /\ rk[h] \in Nat
    BY <1>0
  <2> HIDE DEF B
  <2>3. up \in [B -> Nat]
    BY <2>1, <2>2
  <2>4. ASSUME NEW z \in B, \A y \in B : up[y] < up[z] => y \in Q PROVE z \in Q
    <3>1. pv[z] \in B /\ rk[z] < rk[pv[z]]
      BY <2>1
    <3>2. up[pv[z]] < up[z]
      BY <2>2, <3>1
    <3> QED BY <2>4, <3>1, <3>2
  <2> HIDE DEF up, Q
  <2>5. B \subseteq Q
    BY <2>3, <2>4, RankInduction
  <2> QED BY <2>5 DEF B, Q
<1>11. ASSUME NEW y \in L \ K
       PROVE  /\ ch[y] \in K => ch[y] = h /\ y = par[h]
              /\ en[y] \in K => en[y] = h /\ y = par[h]
              /\ nx[y] \in K => nx[y] = h /\ y = pv[h]
              /\ pv[y] \in K => pv[y] = h /\ y = nx[h]
  <2>1. ASSUME ch[y] \in K PROVE ch[y] = h /\ y = par[h]
    <3>1. par[ch[y]] = y
      BY <1>7, <2>1 DEF Forest
    <3> QED BY <1>5, <1>6, <2>1, <3>1
  <2>2. ASSUME en[y] \in K PROVE en[y] = h /\ y = par[h]
    <3>1. par[en[y]] = y
      BY <1>7, <2>2 DEF Forest
    <3> QED BY <1>5, <1>6, <2>2, <3>1
  <2>3. ASSUME nx[y] \in K PROVE nx[y] = h /\ y = pv[h]
    <3>1. y # Null /\ pv[nx[y]] = y
      BY <1>7, <2>3 DEF Forest
    <3> QED BY <1>5, <1>6, <2>3, <3>1
  <2>4. ASSUME pv[y] \in K PROVE pv[y] = h /\ y = nx[h]
    <3>1. y # Null /\ nx[pv[y]] = y
      BY <1>7, <2>4 DEF Forest
    <3> QED BY <1>5, <1>6, <2>4, <3>1
  <2> QED BY <2>1, <2>2, <2>3, <2>4
<1> QED BY <1>5, <1>7, <1>9, <1>10, <1>11 DEF TopOnly

(* The links once h has been taken away with the rest of K. *)
LinkedWithout(L, par, ch, en, nx, pv, h, K, L2, par2, ch2, en2, nx2, pv2) ==
  /\ L2 = L \ K
  /\ par2 = [x \in L2 |-> par[x]]
  /\ ch2 = [x \in L2 |-> IF x = par[h] /\ ch[x] = h THEN nx[h] ELSE ch[x]]
  /\ en2 = [x \in L2 |-> IF x = par[h] /\ en[x] = h THEN pv[h] ELSE en[x]]
  /\ nx2 = [x \in L2 |-> IF x # Null /\ x = pv[h] THEN nx[h] ELSE nx[x]]
  /\ pv2 = [x \in L2 |-> IF x # Null /\ x = nx[h] THEN pv[h] ELSE pv[x]]

(* Taking a node away with all below it leaves a forest. *)
LEMMA ForestWithout ==
  ASSUME NEW L, NEW par, NEW ch, NEW en, NEW nx, NEW pv, NEW rk, Forest(L, par, ch, en, nx, pv, rk),
         NEW h \in L, h # Null, NEW K, TopOnly(L, par, ch, en, nx, pv, h, K),
         NEW L2, NEW par2, NEW ch2, NEW en2, NEW nx2, NEW pv2,
         LinkedWithout(L, par, ch, en, nx, pv, h, K, L2, par2, ch2, en2, nx2, pv2)
  PROVE  \E rk2 : Forest(L2, par2, ch2, en2, nx2, pv2, rk2)
<1> DEFINE rk2 == [x \in L2 |-> rk[x]]
<1>0. /\ L2 = L \ K
      /\ par2 = [x \in L2 |-> par[x]]
      /\ ch2 = [x \in L2 |-> IF x = par[h] /\ ch[x] = h THEN nx[h] ELSE ch[x]]
      /\ en2 = [x \in L2 |-> IF x = par[h] /\ en[x] = h THEN pv[h] ELSE en[x]]
      /\ nx2 = [x \in L2 |-> IF x # Null /\ x = pv[h] THEN nx[h] ELSE nx[x]]
      /\ pv2 = [x \in L2 |-> IF x # Null /\ x = nx[h] THEN pv[h] ELSE pv[x]]
  BY DEF LinkedWithout
<1>1. h \in L /\ h \in K
  BY DEF TopOnly
<1>2. /\ Null \notin K /\ K \subseteq L
      /\ {par[h], nx[h], pv[h]} \cap K = {}
      /\ \A y \in L \ K :
           /\ par[y] \notin K
           /\ ch[y] \in K => ch[y] = h /\ y = par[h]
           /\ en[y] \in K => en[y] = h /\ y = par[h]
           /\ nx[y] \in K => nx[y] = h /\ y = pv[h]
           /\ pv[y] \in K => pv[y] = h /\ y = nx[h]
  BY DEF TopOnly
<1>3. /\ Null \in L2 /\ par[h] \in L2 /\ nx[h] \in L2 /\ pv[h] \in L2
  BY <1>0, <1>1, <1>2 DEF Forest
<1>4. /\ par2 \in [L2 -> L2] /\ ch2 \in [L2 -> L2] /\ en2 \in [L2 -> L2]
      /\ nx2 \in [L2 -> L2] /\ pv2 \in [L2 -> L2] /\ rk2 \in [L2 -> Nat]
  <2>1. par2 \in [L2 -> L2]
    BY <1>0, <1>1, <1>2, <1>3 DEF Forest
  <2>2. ch2 \in [L2 -> L2]
    BY <1>0, <1>1, <1>2, <1>3 DEF Forest
  <2>3. en2 \in [L2 -> L2]
    BY <1>0, <1>1, <1>2, <1>3 DEF Forest
  <2>4. nx2 \in [L2 -> L2]
    BY <1>0, <1>1, <1>2, <1>3 DEF Forest
  <2>5. pv2 \in [L2 -> L2]
    BY <1>0, <1>1, <1>2, <1>3 DEF Forest
  <2>6. rk2 \in [L2 -> Nat]
    BY <1>0, <1>1 DEF Forest
  <2> QED BY <2>1, <2>2, <2>3, <2>4, <2>5, <2>6
<1>5. par2[Null] = Null /\ nx2[Null] = Null /\ pv2[Null] = Null
  BY <1>0, <1>3 DEF Forest
<1>6. ASSUME NEW x \in L2
      PROVE  /\ (ch2[x] = Null) <=> (en2[x] = Null)
             /\ ch2[x] # Null => pv2[ch2[x]] = Null /\ par2[ch2[x]] = x
             /\ en2[x] # Null => nx2[en2[x]] = Null /\ par2[en2[x]] = x
             /\ x # Null =>
                  /\ rk2[x] < rk2[par2[x]]
                  /\ nx2[x] # Null => pv2[nx2[x]] = x /\ par2[nx2[x]] = par2[x] /\ rk2[nx2[x]] < rk2[x]
                  /\ pv2[x] # Null => nx2[pv2[x]] = x /\ par2[pv2[x]] = par2[x]
                  /\ nx2[x] = Null => en2[par2[x]] = x
                  /\ pv2[x] = Null => ch2[par2[x]] = x
  <2>0. x \in L /\ x # h
    BY <1>0, <1>1
  <2>h. /\ rk[h] < rk[par[h]]
        /\ nx[h] # Null => pv[nx[h]] = h /\ par[nx[h]] = par[h] /\ rk[nx[h]] < rk[h]
        /\ pv[h] # Null => nx[pv[h]] = h /\ par[pv[h]] = par[h] /\ rk[h] < rk[pv[h]]
        /\ nx[h] = Null => en[par[h]] = h
        /\ pv[h] = Null => ch[par[h]] = h
        /\ ch[par[h]] = h => pv[h] = Null
        /\ en[par[h]] = h => nx[h] = Null
    BY <1>0, <1>1 DEF Forest
  <2>x. /\ (ch[x] = Null) <=> (en[x] = Null)
        /\ ch[x] # Null => pv[ch[x]] = Null /\ par[ch[x]] = x
        /\ en[x] # Null => nx[en[x]] = Null /\ par[en[x]] = x
        /\ x # Null =>
             /\ rk[x] < rk[par[x]]
             /\ nx[x] # Null => pv[nx[x]] = x /\ par[nx[x]] = par[x] /\ rk[nx[x]] < rk[x]
             /\ pv[x] # Null => nx[pv[x]] = x /\ par[pv[x]] = par[x]
             /\ nx[x] = Null => en[par[x]] = x
             /\ pv[x] = Null => ch[par[x]] = x
    BY <2>0 DEF Forest
  <2>1. (ch2[x] = Null) <=> (en2[x] = Null)
    BY <1>0, <1>1, <1>2, <2>0, <2>h, <2>x
  <2>2. ch2[x] # Null => pv2[ch2[x]] = Null /\ par2[ch2[x]] = x
    BY <1>0, <1>1, <1>2, <1>3, <1>4, <2>0, <2>h, <2>x
  <2>3. en2[x] # Null => nx2[en2[x]] = Null /\ par2[en2[x]] = x
    BY <1>0, <1>1, <1>2, <1>3, <1>4, <2>0, <2>h, <2>x
  <2>4. x # Null => rk2[x] < rk2[par2[x]]
    BY <1>0, <1>3, <1>4, <2>0, <2>x
  <2>5. x # Null /\ nx2[x] # Null => pv2[nx2[x]] = x /\ par2[nx2[x]] = par2[x] /\ rk2[nx2[x]] < rk2[x]
    <3>1. rk[x] \in Nat /\ rk[h] \in Nat /\ rk[nx[h]] \in Nat
      BY <1>0, <1>1, <1>2, <1>3, <2>0 DEF Forest
    <3>2. CASE x = pv[h] /\ x # Null
      BY <3>1, <3>2, <1>0, <1>1, <1>2, <1>3, <1>4, <2>0, <2>h, <2>x
    <3>3. CASE x # pv[h] /\ x # Null /\ nx[x] # Null
      <4>1. nx2[x] = nx[x] /\ nx2[x] \in L2
        BY <1>0, <1>4, <3>3
      <4>2. nx[x] # nx[h]
        BY <2>0, <2>h, <2>x, <3>3
      <4>3. /\ pv2[nx[x]] = pv[nx[x]] /\ par2[nx[x]] = par[nx[x]] /\ par2[x] = par[x]
            /\ rk2[nx[x]] = rk[nx[x]] /\ rk2[x] = rk[x]
        BY <1>0, <4>1, <4>2
      <4> QED BY <2>x, <3>3, <4>1, <4>3
    <3> QED BY <1>0, <3>2, <3>3
  <2>6. x # Null /\ pv2[x] # Null => nx2[pv2[x]] = x /\ par2[pv2[x]] = par2[x]
    <3>1. CASE x = nx[h] /\ x # Null
      BY <3>1, <1>0, <1>1, <1>2, <1>3, <1>4, <2>0, <2>h, <2>x
    <3>2. CASE x # nx[h] /\ x # Null /\ pv[x] # Null
      <4>1. pv2[x] = pv[x] /\ pv2[x] \in L2
        BY <1>0, <1>4, <3>2
      <4>2. pv[x] # pv[h]
        BY <2>0, <2>h, <2>x, <3>2
      <4>3. nx2[pv[x]] = nx[pv[x]] /\ par2[pv[x]] = par[pv[x]] /\ par2[x] = par[x]
        BY <1>0, <4>1, <4>2
      <4> QED BY <2>x, <3>2, <4>1, <4>3
    <3> QED BY <1>0, <3>1, <3>2
  <2>7. x # Null /\ nx2[x] = Null => en2[par2[x]] = x
    BY <1>0, <1>1, <1>2, <1>3, <1>4, <2>0, <2>h, <2>x
  <2>8. x # Null /\ pv2[x] = Null => ch2[par2[x]] = x
    BY <1>0, <1>1, <1>2, <1>3, <1>4, <2>0, <2>h, <2>x
  <2> QED BY <2>1, <2>2, <2>3, <2>4, <2>5, <2>6, <2>7, <2>8
<1>r. \A x \in L2 : rk2[x] <= rk2[Null]
  BY <1>0, <1>3 DEF Forest
<1> HIDE DEF rk2
<1>7. Forest(L2, par2, ch2, en2, nx2, pv2, rk2)
  BY <1>3, <1>4, <1>5, <1>6, <1>r DEF Forest
<1> QED BY <1>7

-----------------------------------------------------------------------------
(* Adding a last child *)

(* The links once f has become the last child of p. *)
LinkedWith(L, par, ch, en, nx, pv, f, p, L2, par2, ch2, en2, nx2, pv2) ==
  /\ L2 = L \cup {f}
  /\ par2 = [x \in L2 |-> IF x = f THEN p ELSE par[x]]
  /\ ch2 = [x \in L2 |-> IF x = f THEN Null ELSE IF x = p /\ ch[p] = Null THEN f ELSE ch[x]]
  /\ en2 = [x \in L2 |-> IF x = f THEN Null ELSE IF x = p THEN f ELSE en[x]]
  /\ nx2 = [x \in L2 |-> IF x = f THEN Null ELSE IF x # Null /\ x = en[p] THEN f ELSE nx[x]]
  /\ pv2 = [x \in L2 |-> IF x = f THEN en[p] ELSE pv[x]]

(* A new last child leaves a forest. *)
LEMMA ForestWith ==
  ASSUME NEW L, NEW par, NEW ch, NEW en, NEW nx, NEW pv, NEW rk, Forest(L, par, ch, en, nx, pv, rk),
         NEW f, f \notin L, NEW p \in L,
         NEW L2, NEW par2, NEW ch2, NEW en2, NEW nx2, NEW pv2,
         LinkedWith(L, par, ch, en, nx, pv, f, p, L2, par2, ch2, en2, nx2, pv2)
  PROVE  \E rk2 : Forest(L2, par2, ch2, en2, nx2, pv2, rk2)
<1> DEFINE rk2 == [x \in L2 |-> IF x = f THEN 0 ELSE rk[x] + 1]
<1>0. /\ L2 = L \cup {f}
      /\ par2 = [x \in L2 |-> IF x = f THEN p ELSE par[x]]
      /\ ch2 = [x \in L2 |-> IF x = f THEN Null ELSE IF x = p /\ ch[p] = Null THEN f ELSE ch[x]]
      /\ en2 = [x \in L2 |-> IF x = f THEN Null ELSE IF x = p THEN f ELSE en[x]]
      /\ nx2 = [x \in L2 |-> IF x = f THEN Null ELSE IF x # Null /\ x = en[p] THEN f ELSE nx[x]]
      /\ pv2 = [x \in L2 |-> IF x = f THEN en[p] ELSE pv[x]]
  BY DEF LinkedWith
<1>1. Null \in L /\ Null # f /\ p # f /\ en[p] \in L /\ ch[p] \in L
  BY DEF Forest
<1>2. /\ par2 \in [L2 -> L2] /\ ch2 \in [L2 -> L2] /\ en2 \in [L2 -> L2]
      /\ nx2 \in [L2 -> L2] /\ pv2 \in [L2 -> L2] /\ rk2 \in [L2 -> Nat]
  <2>1. par2 \in [L2 -> L2]
    BY <1>0, <1>1 DEF Forest
  <2>2. ch2 \in [L2 -> L2]
    BY <1>0, <1>1 DEF Forest
  <2>3. en2 \in [L2 -> L2]
    BY <1>0, <1>1 DEF Forest
  <2>4. nx2 \in [L2 -> L2]
    BY <1>0, <1>1 DEF Forest
  <2>5. pv2 \in [L2 -> L2]
    BY <1>0, <1>1 DEF Forest
  <2>6. rk2 \in [L2 -> Nat]
    BY <1>0 DEF Forest
  <2> QED BY <2>1, <2>2, <2>3, <2>4, <2>5, <2>6
<1>3. Null \in L2 /\ par2[Null] = Null /\ nx2[Null] = Null /\ pv2[Null] = Null
  BY <1>0, <1>1 DEF Forest
<1>p. /\ (ch[p] = Null) <=> (en[p] = Null)
      /\ en[p] # Null => nx[en[p]] = Null /\ par[en[p]] = p
  BY DEF Forest
<1>4. ASSUME NEW x \in L2
      PROVE  /\ (ch2[x] = Null) <=> (en2[x] = Null)
             /\ ch2[x] # Null => pv2[ch2[x]] = Null /\ par2[ch2[x]] = x
             /\ en2[x] # Null => nx2[en2[x]] = Null /\ par2[en2[x]] = x
             /\ x # Null =>
                  /\ rk2[x] < rk2[par2[x]]
                  /\ nx2[x] # Null => pv2[nx2[x]] = x /\ par2[nx2[x]] = par2[x] /\ rk2[nx2[x]] < rk2[x]
                  /\ pv2[x] # Null => nx2[pv2[x]] = x /\ par2[pv2[x]] = par2[x]
                  /\ nx2[x] = Null => en2[par2[x]] = x
                  /\ pv2[x] = Null => ch2[par2[x]] = x
  <2>1. CASE x = f
    <3>1. rk[p] \in Nat
      BY DEF Forest
    <3>2. /\ par2[x] = p /\ ch2[x] = Null /\ en2[x] = Null /\ nx2[x] = Null /\ pv2[x] = en[p] /\ rk2[x] = 0
          /\ rk2[p] = rk[p] + 1 /\ en2[p] = f
          /\ ch[p] = Null => ch2[p] = f
          /\ en[p] # Null => nx2[en[p]] = f /\ par2[en[p]] = par[en[p]]
      BY <1>0, <1>1, <2>1
    <3> QED BY <1>1, <1>p, <2>1, <3>1, <3>2
  <2>2. CASE x \in L
    <3>0. x # f
      BY <2>2
    <3>x. /\ (ch[x] = Null) <=> (en[x] = Null)
          /\ ch[x] # Null => pv[ch[x]] = Null /\ par[ch[x]] = x
          /\ en[x] # Null => nx[en[x]] = Null /\ par[en[x]] = x
          /\ x # Null =>
               /\ rk[x] < rk[par[x]]
               /\ nx[x] # Null => pv[nx[x]] = x /\ par[nx[x]] = par[x] /\ rk[nx[x]] < rk[x]
               /\ pv[x] # Null => nx[pv[x]] = x /\ par[pv[x]] = par[x]
               /\ nx[x] = Null => en[par[x]] = x
               /\ pv[x] = Null => ch[par[x]] = x
      BY <2>2 DEF Forest
    <3>t. /\ par[x] \in L /\ ch[x] \in L /\ en[x] \in L /\ nx[x] \in L /\ pv[x] \in L
          /\ rk[x] \in Nat /\ rk[par[x]] \in Nat /\ rk[nx[x]] \in Nat
      BY <2>2 DEF Forest
    <3>1. (ch2[x] = Null) <=> (en2[x] = Null)
      BY <1>0, <1>1, <1>p, <2>2, <3>0, <3>x
    <3>2. ch2[x] # Null => pv2[ch2[x]] = Null /\ par2[ch2[x]] = x
      BY <1>0, <1>1, <1>p, <2>2, <3>0, <3>x, <3>t
    <3>3. en2[x] # Null => nx2[en2[x]] = Null /\ par2[en2[x]] = x
      BY <1>0, <1>1, <1>p, <2>2, <3>0, <3>x, <3>t
    <3>4. x # Null => rk2[x] < rk2[par2[x]]
      BY <1>0, <1>1, <2>2, <3>0, <3>x, <3>t
    <3>5. x # Null /\ nx2[x] # Null => pv2[nx2[x]] = x /\ par2[nx2[x]] = par2[x] /\ rk2[nx2[x]] < rk2[x]
      BY <1>0, <1>1, <1>p, <2>2, <3>0, <3>x, <3>t
    <3>6. x # Null /\ pv2[x] # Null => nx2[pv2[x]] = x /\ par2[pv2[x]] = par2[x]
      BY <1>0, <1>1, <1>p, <2>2, <3>0, <3>x, <3>t
    <3>7. x # Null /\ nx2[x] = Null => en2[par2[x]] = x
      BY <1>0, <1>1, <1>p, <2>2, <3>0, <3>x, <3>t
    <3>8. x # Null /\ pv2[x] = Null => ch2[par2[x]] = x
      BY <1>0, <1>1, <1>p, <2>2, <3>0, <3>x, <3>t
    <3> QED BY <3>1, <3>2, <3>3, <3>4, <3>5, <3>6, <3>7, <3>8
  <2> QED BY <1>0, <2>1, <2>2
<1>r. \A x \in L2 : rk2[x] <= rk2[Null]
  <2>1. \A x \in L : rk[x] \in Nat /\ rk[x] <= rk[Null]
    BY DEF Forest
  <2>2. rk2[Null] = rk[Null] + 1 /\ rk[Null] \in Nat
    BY <1>0, <1>1, <2>1
  <2> QED BY <1>0, <2>1, <2>2
<1> HIDE DEF rk2
<1>5. Forest(L2, par2, ch2, en2, nx2, pv2, rk2)
  BY <1>2, <1>3, <1>4, <1>r DEF Forest
<1> QED BY <1>5

-----------------------------------------------------------------------------
(* The pool and its links *)

Nodes == [kind : Kinds \cup {"Slot"}, parent : Handles, child : Handles, end : Handles, next : Handles, prev : Handles]

Par == [h \in InTree |-> Node(h).parent]
Ch == [h \in InTree |-> Node(h).child]
En == [h \in InTree |-> Node(h).end]
Nx == [h \in InTree |-> IF h = Null THEN Null ELSE Node(h).next]
Pv == [h \in InTree |-> IF h = Null THEN Null ELSE Node(h).prev]

PoolInv ==
  /\ \E n \in 0 .. NumNodes : DOMAIN active = 0 .. n
  /\ \A i \in DOMAIN active : active[i] \in Nodes \cup {Hole}
  /\ active = [i \in DOMAIN active |-> active[i]]
  /\ generations \in [DOMAIN active -> 0 .. Generations - 1]
  /\ turns \in [DOMAIN active -> Nat]
  /\ \A i \in DOMAIN active : turns[i] < Generations => generations[i] = turns[i]
  /\ active[0] # Hole /\ generations[0] = 0
  /\ lost \subseteq Live \ {Null}
  /\ dead \in Seq(Indices)
  /\ DeadAreTheHoles

LinkInv == \E rk : Forest(InTree, Par, Ch, En, Nx, Pv, rk)

(* Facts of the constants. *)
LEMMA NodesAreNoHoles == Hole \notin Nodes
BY KindsAssumption DEF Hole, Nodes

LEMMA NullIsHandle == Null \in Handles /\ Null.index = 0 /\ Null.generation = 0
BY NodesAssumption DEF Null, Handles, Indices

(* A live handle names a node, and no two name the same. *)
LEMMA LiveFacts ==
  ASSUME PoolInv
  PROVE  /\ Null \in Live
         /\ \A h \in Live : /\ h \in Handles /\ h.index \in DOMAIN active /\ h.index \in Indices
                            /\ Node(h) \in Nodes /\ generations[h.index] = h.generation
                            /\ (h.index = 0) <=> (h = Null)
         /\ \A g, h \in Live : g.index = h.index => g = h
<1>1. Null \in Live
  <2>1. 0 \in DOMAIN active
    BY DEF PoolInv
  <2> QED BY <2>1, NullIsHandle DEF PoolInv, Live, IsValid
<1>2. \A g, h \in Handles : g.index = h.index /\ g.generation = h.generation => g = h
  BY DEF Handles
<1>3. \A g, h \in Live : g.index = h.index => g = h
  BY <1>2 DEF Live, IsValid
<1>4. ASSUME NEW h \in Live
      PROVE  /\ h \in Handles /\ h.index \in DOMAIN active /\ h.index \in Indices
             /\ Node(h) \in Nodes /\ generations[h.index] = h.generation
             /\ (h.index = 0) <=> (h = Null)
  <2>1. h \in Handles /\ h.index \in DOMAIN active /\ generations[h.index] = h.generation /\ active[h.index] # Hole
    BY DEF Live, IsValid
  <2>2. h.index \in Indices
    BY <2>1 DEF Handles
  <2>3. Node(h) \in Nodes
    BY <2>1 DEF Node, PoolInv
  <2> QED BY <1>1, <1>3, <2>1, <2>2, <2>3, NullIsHandle
<1> QED BY <1>1, <1>3, <1>4

(* The same of the nodes of the tree. *)
LEMMA TreeFacts ==
  ASSUME PoolInv
  PROVE  /\ Null \in InTree /\ InTree \subseteq Live
         /\ \A h \in InTree : /\ h \in Handles /\ h.index \in DOMAIN active /\ h.index \in Indices
                              /\ Node(h) \in Nodes /\ generations[h.index] = h.generation
                              /\ (h.index = 0) <=> (h = Null)
         /\ \A g, h \in InTree : g.index = h.index => g = h
<1>1. Null \in InTree /\ InTree \subseteq Live
  BY LiveFacts DEF PoolInv, InTree
<1> QED BY <1>1, LiveFacts

(* The model's Walk is the walk of the links. *)
LEMMA WalkIs ==
  ASSUME PoolInv, LinkInv
  PROVE  IsWalk(InTree, Ch, Nx, Walk)
<1>1. \A h \in InTree : (h.index = 0) <=> (h = Null)
  BY TreeFacts
<1>2. PICK rk : Forest(InTree, Par, Ch, En, Nx, Pv, rk)
  BY DEF LinkInv
<1>3. PICK w : IsWalk(InTree, Ch, Nx, w)
  BY <1>2, ForestFalls, WalkExists
<1>4. w = [h \in InTree |-> IF h.index = 0 THEN <<>> ELSE <<h>> \o w[Node(h).child] \o w[Node(h).next]]
  BY <1>1, <1>3 DEF IsWalk, Ch, Nx
<1>5. Walk = [h \in InTree |-> IF h.index = 0 THEN <<>> ELSE <<h>> \o Walk[Node(h).child] \o Walk[Node(h).next]]
  BY <1>4 DEF Walk
<1> DEFINE W == Walk
<1>6. W = [h \in InTree |-> IF h.index = 0 THEN <<>> ELSE <<h>> \o W[Node(h).child] \o W[Node(h).next]]
  BY <1>5
<1>7. \A h \in InTree : W[h] = IF h = Null THEN <<>> ELSE <<h>> \o W[Ch[h]] \o W[Nx[h]]
  <2> HIDE DEF W
  <2> QED BY <1>1, <1>6 DEF Ch, Nx
<1>8. \A h \in InTree : W[h] = w[h]
  <2> DEFINE Q == {h \in InTree : W[h] = w[h]}
  <2>1. ASSUME NEW h \in InTree, \A y \in InTree : rk[y] < rk[h] => y \in Q PROVE h \in Q
    <3> HIDE DEF W
    <3>1. CASE h = Null
      BY <3>1, <1>3, <1>7 DEF IsWalk
    <3>2. CASE h # Null
      <4>1. /\ Ch[h] \in InTree /\ Nx[h] \in InTree
            /\ Ch[h] = Null \/ rk[Ch[h]] < rk[h]
            /\ Nx[h] = Null \/ rk[Nx[h]] < rk[h]
        BY <1>2, <3>2 DEF Forest
      <4>2. W[Null] = w[Null]
        BY <1>2, <1>3, <1>7 DEF IsWalk, Forest
      <4>3. W[Ch[h]] = w[Ch[h]] /\ W[Nx[h]] = w[Nx[h]]
        BY <2>1, <4>1, <4>2
      <4> QED BY <1>3, <1>7, <3>2, <4>3 DEF IsWalk
    <3> QED BY <3>1, <3>2
  <2> HIDE DEF Q
  <2>2. rk \in [InTree -> Nat]
    BY <1>2 DEF Forest
  <2>3. InTree \subseteq Q
    BY <2>1, <2>2, RankInduction
  <2> QED BY <2>3 DEF Q
<1>9. W \in [InTree -> Seq(InTree)]
  <2>1. W = [h \in InTree |-> W[h]]
    <3> HIDE DEF W
    <3> QED BY <1>6
  <2>2. \A h \in InTree : W[h] \in Seq(InTree)
    <3> HIDE DEF W
    <3> QED BY <1>3, <1>8 DEF IsWalk
  <2> HIDE DEF W
  <2> QED BY <2>1, <2>2
<1> HIDE DEF W
<1>10. IsWalk(InTree, Ch, Nx, W)
  BY <1>7, <1>9 DEF IsWalk
<1> QED BY <1>10 DEF W

(* Whom removeFromParent removes: the node and all below it, each once. *)
LEMMA KillListFacts ==
  ASSUME PoolInv, LinkInv, NEW h \in InTree, h # Null
  PROVE  /\ KillList(h) \in Seq(InTree) /\ IsInjective(KillList(h))
         /\ TopOnly(InTree, Par, Ch, En, Nx, Pv, h, ToSet(KillList(h)))
         /\ ToSet(KillList(h)) = {h} \cup ToSet(Walk[Ch[h]])
         /\ \A y \in ToSet(KillList(h)) : y # h => Par[y] \in ToSet(KillList(h))
<1>1. PICK rk : Forest(InTree, Par, Ch, En, Nx, Pv, rk)
  BY DEF LinkInv
<1>2. IsWalk(InTree, Ch, Nx, Walk)
  BY WalkIs
<1>3. Ch \in [InTree -> InTree] /\ Nx \in [InTree -> InTree]
  BY <1>1 DEF Forest
<1> DEFINE R == [x \in InTree |-> ToSet(Walk[x])]
           one == <<h>>
           below == Walk[Ch[h]]
<1>4. Visits(InTree, Ch, Nx, R)
  BY <1>2, <1>3, WalkVisits
<1>5. KillList(h) = one \o below
  BY DEF KillList, Ch
<1>6. one \in Seq(InTree) /\ ToSet(one) = {h} /\ IsInjective(one)
  BY RangeOfOne
<1>7. below \in Seq(InTree) /\ ToSet(below) = R[Ch[h]]
  BY <1>2, <1>3 DEF IsWalk
<1>8. IsInjective(below)
  <2>1. \A x \in InTree : IsInjective(Walk[x])
    BY <1>1, <1>2, WalkInjective
  <2> QED BY <1>3, <2>1
<1> HIDE DEF R, one, below
<1>9. h \notin R[Ch[h]]
  BY <1>1, <1>4, VisitsApart
<1>10. one \o below \in Seq(InTree) /\ ToSet(one \o below) = {h} \cup R[Ch[h]]
  BY <1>6, <1>7, RangeOfConcat
<1>11. IsInjective(one \o below)
  BY <1>6, <1>7, <1>8, <1>9, ConcatInjective
<1>12. TopOnly(InTree, Par, Ch, En, Nx, Pv, h, {h} \cup R[Ch[h]])
  <2> DEFINE K == {h} \cup R[Ch[h]]
  <2>1. K = {h} \cup R[Ch[h]]
    OBVIOUS
  <2> HIDE DEF K
  <2>2. TopOnly(InTree, Par, Ch, En, Nx, Pv, h, K)
    BY <1>1, <1>4, <2>1, RestRefersToTop
  <2> QED BY <2>1, <2>2
<1>13. \A y \in R[Ch[h]] : Par[y] \in {h} \cup R[Ch[h]]
  <2>1. Closed(InTree, Par, Ch, Nx, Pv, rk, R, Ch[h])
    BY <1>1, <1>3, <1>4, VisitsClosed
  <2>2. Ch[h] # Null => Par[Ch[h]] = h
    BY <1>1 DEF Forest
  <2>3. Ch[h] = Null => R[Ch[h]] = {}
    BY <1>3, <1>4 DEF Visits
  <2> QED BY <2>1, <2>2, <2>3 DEF Closed
<1> QED BY <1>5, <1>7, <1>10, <1>11, <1>12, <1>13 DEF below

-----------------------------------------------------------------------------
(* What Unlink writes *)

LEMMA LinksOfTree ==
  ASSUME LinkInv
  PROVE  /\ Par \in [InTree -> InTree] /\ Ch \in [InTree -> InTree] /\ En \in [InTree -> InTree]
         /\ Nx \in [InTree -> InTree] /\ Pv \in [InTree -> InTree]
BY DEF LinkInv, Forest

(* Writing one link of a node leaves the others. *)
LEMMA SetParent ==
  ASSUME NEW r \in Nodes, NEW v \in Handles, NEW m, m = [r EXCEPT !.parent = v]
  PROVE  m \in Nodes /\ m.parent = v /\ m.kind = r.kind /\ m.child = r.child /\ m.end = r.end /\ m.next = r.next /\ m.prev = r.prev
BY DEF Nodes

LEMMA SetChild ==
  ASSUME NEW r \in Nodes, NEW v \in Handles, NEW m, m = [r EXCEPT !.child = v]
  PROVE  m \in Nodes /\ m.child = v /\ m.kind = r.kind /\ m.parent = r.parent /\ m.end = r.end /\ m.next = r.next /\ m.prev = r.prev
BY DEF Nodes

LEMMA SetEnd ==
  ASSUME NEW r \in Nodes, NEW v \in Handles, NEW m, m = [r EXCEPT !.end = v]
  PROVE  m \in Nodes /\ m.end = v /\ m.kind = r.kind /\ m.parent = r.parent /\ m.child = r.child /\ m.next = r.next /\ m.prev = r.prev
BY DEF Nodes

LEMMA SetNext ==
  ASSUME NEW r \in Nodes, NEW v \in Handles, NEW m, m = [r EXCEPT !.next = v]
  PROVE  m \in Nodes /\ m.next = v /\ m.kind = r.kind /\ m.parent = r.parent /\ m.child = r.child /\ m.end = r.end /\ m.prev = r.prev
BY DEF Nodes

LEMMA SetPrev ==
  ASSUME NEW r \in Nodes, NEW v \in Handles, NEW m, m = [r EXCEPT !.prev = v]
  PROVE  m \in Nodes /\ m.prev = v /\ m.kind = r.kind /\ m.parent = r.parent /\ m.child = r.child /\ m.end = r.end /\ m.next = r.next
BY DEF Nodes

(* The links removeFromParent writes before it destroys. *)
LEMMA UnlinkFacts ==
  ASSUME PoolInv, LinkInv, NEW h \in InTree, h # Null
  PROVE  LET U == Unlink(h) IN
         /\ DOMAIN U = DOMAIN active
         /\ \A i \in DOMAIN active : (\A x \in InTree : x.index # i) => U[i] = active[i]
         /\ \A x \in InTree :
              /\ U[x.index] \in Nodes
              /\ U[x.index].kind = Node(x).kind
              /\ U[x.index].parent = Par[x]
              /\ U[x.index].child = IF x = Par[h] /\ Ch[x] = h THEN Nx[h] ELSE Ch[x]
              /\ U[x.index].end = IF x = Par[h] /\ En[x] = h THEN Pv[h] ELSE En[x]
              /\ x # Null => U[x.index].next = IF x = Pv[h] THEN Nx[h] ELSE Nx[x]
              /\ x # Null => U[x.index].prev = IF x = Nx[h] THEN Pv[h] ELSE Pv[x]
<1> DEFINE n == Nx[h]
           p == Pv[h]
           q == Par[h]
           a1 == [active EXCEPT ![n.index].prev = p]
           a2 == [a1 EXCEPT ![p.index].next = n]
           U == [a2 EXCEPT ![q.index].child = IF a2[q.index].child = h THEN n ELSE @,
                           ![q.index].end = IF a2[q.index].end = h THEN p ELSE @]
<1>1. /\ Node(h).next = n /\ Node(h).prev = p /\ Node(h).parent = q
      /\ n \in InTree /\ p \in InTree /\ q \in InTree
  BY LinksOfTree DEF Par, Nx, Pv
<1>2. Unlink(h) = U
  BY <1>1 DEF Unlink
<1>3. /\ \A x \in InTree : /\ x \in Handles /\ x.index \in DOMAIN active
                           /\ Node(x) = active[x.index] /\ Node(x) \in Nodes
      /\ \A g, x \in InTree : g.index = x.index => g = x
  BY TreeFacts DEF Node
<1>5. /\ \A x \in InTree : Par[x] = Node(x).parent /\ Ch[x] = Node(x).child /\ En[x] = Node(x).end
      /\ \A x \in InTree : x # Null => Nx[x] = Node(x).next /\ Pv[x] = Node(x).prev
  BY DEF Par, Ch, En, Nx, Pv
<1> HIDE DEF n, p, q
<1>6. /\ DOMAIN a1 = DOMAIN active
      /\ \A i \in DOMAIN active : (\A x \in InTree : x.index # i) => a1[i] = active[i]
      /\ \A x \in InTree : /\ a1[x.index] \in Nodes
                           /\ a1[x.index].kind = Node(x).kind
                           /\ a1[x.index].parent = Node(x).parent
                           /\ a1[x.index].child = Node(x).child
                           /\ a1[x.index].end = Node(x).end
                           /\ a1[x.index].next = Node(x).next
                           /\ a1[x.index].prev = IF x = n THEN p ELSE Node(x).prev
  <2>1. \A i \in DOMAIN active : a1[i] = IF i = n.index THEN [active[i] EXCEPT !.prev = p] ELSE active[i]
    BY <1>1, <1>3
  <2>2. DOMAIN a1 = DOMAIN active
    OBVIOUS
  <2> HIDE DEF a1
  <2>3. ASSUME NEW x \in InTree
        PROVE  /\ a1[x.index] \in Nodes
               /\ a1[x.index].kind = Node(x).kind
               /\ a1[x.index].parent = Node(x).parent
               /\ a1[x.index].child = Node(x).child
               /\ a1[x.index].end = Node(x).end
               /\ a1[x.index].next = Node(x).next
               /\ a1[x.index].prev = IF x = n THEN p ELSE Node(x).prev
    <3>1. Node(x) \in Nodes /\ p \in Handles /\ x.index \in DOMAIN active /\ active[x.index] = Node(x)
      BY <1>1, <1>3
    <3>2. CASE x = n
      <4>1. a1[x.index] = [Node(x) EXCEPT !.prev = p]
        BY <2>1, <3>1, <3>2
      <4> QED BY <3>1, <3>2, <4>1, SetPrev
    <3>3. CASE x # n
      <4>1. x.index # n.index
        BY <1>1, <1>3, <3>3
      <4>2. a1[x.index] = Node(x)
        BY <2>1, <3>1, <4>1
      <4> QED BY <3>1, <3>3, <4>2
    <3> QED BY <3>2, <3>3
  <2> QED BY <1>1, <2>1, <2>2, <2>3
<1> HIDE DEF a1
<1>7. /\ DOMAIN a2 = DOMAIN active
      /\ \A i \in DOMAIN active : (\A x \in InTree : x.index # i) => a2[i] = active[i]
      /\ \A x \in InTree : /\ a2[x.index] \in Nodes
                           /\ a2[x.index].kind = Node(x).kind
                           /\ a2[x.index].parent = Node(x).parent
                           /\ a2[x.index].child = Node(x).child
                           /\ a2[x.index].end = Node(x).end
                           /\ a2[x.index].next = IF x = p THEN n ELSE Node(x).next
                           /\ a2[x.index].prev = IF x = n THEN p ELSE Node(x).prev
  <2>1. \A i \in DOMAIN active : a2[i] = IF i = p.index THEN [a1[i] EXCEPT !.next = n] ELSE a1[i]
    BY <1>1, <1>3, <1>6
  <2>2. DOMAIN a2 = DOMAIN active
    BY <1>6
  <2> HIDE DEF a2
  <2>3. ASSUME NEW x \in InTree
        PROVE  /\ a2[x.index] \in Nodes
               /\ a2[x.index].kind = Node(x).kind
               /\ a2[x.index].parent = Node(x).parent
               /\ a2[x.index].child = Node(x).child
               /\ a2[x.index].end = Node(x).end
               /\ a2[x.index].next = IF x = p THEN n ELSE Node(x).next
               /\ a2[x.index].prev = IF x = n THEN p ELSE Node(x).prev
    <3> DEFINE r == a1[x.index]
    <3>1. r \in Nodes /\ n \in Handles /\ x.index \in DOMAIN active
      BY <1>1, <1>3, <1>6
    <3>2. CASE x = p
      <4>1. a2[x.index] = [r EXCEPT !.next = n]
        BY <2>1, <3>1, <3>2
      <4> HIDE DEF r
      <4> QED
        <5>1. /\ a2[x.index] \in Nodes /\ a2[x.index].kind = r.kind /\ a2[x.index].parent = r.parent
              /\ a2[x.index].child = r.child /\ a2[x.index].end = r.end
              /\ a2[x.index].next = n /\ a2[x.index].prev = r.prev
          BY <3>1, <4>1, SetNext
        <5> QED BY <1>6, <3>2, <5>1 DEF r
    <3>3. CASE x # p
      <4>1. a2[x.index] = r
        BY <1>1, <1>3, <2>1, <3>1, <3>3
      <4> QED BY <1>6, <3>1, <3>3, <4>1
    <3> QED BY <3>2, <3>3
  <2> QED BY <1>1, <1>6, <2>1, <2>2, <2>3
<1> HIDE DEF a2
<1>8. /\ DOMAIN U = DOMAIN active
      /\ \A i \in DOMAIN active : (\A x \in InTree : x.index # i) => U[i] = active[i]
      /\ \A x \in InTree : /\ U[x.index] \in Nodes
                           /\ U[x.index].kind = Node(x).kind
                           /\ U[x.index].parent = Node(x).parent
                           /\ U[x.index].child = IF x = q /\ Node(x).child = h THEN n ELSE Node(x).child
                           /\ U[x.index].end = IF x = q /\ Node(x).end = h THEN p ELSE Node(x).end
                           /\ U[x.index].next = IF x = p THEN n ELSE Node(x).next
                           /\ U[x.index].prev = IF x = n THEN p ELSE Node(x).prev
  <2> DEFINE v == IF a2[q.index].child = h THEN n ELSE a2[q.index].child
             e == IF a2[q.index].end = h THEN p ELSE a2[q.index].end
  <2>1. \A i \in DOMAIN active : U[i] = IF i = q.index THEN [a2[i] EXCEPT !.child = v, !.end = e] ELSE a2[i]
    BY <1>1, <1>3, <1>7
  <2>2. DOMAIN U = DOMAIN active
    BY <1>7
  <2>3. v \in Handles /\ e \in Handles
    BY <1>1, <1>3, <1>7 DEF Nodes
  <2>4. /\ v = IF Node(q).child = h THEN n ELSE Node(q).child
        /\ e = IF Node(q).end = h THEN p ELSE Node(q).end
    BY <1>1, <1>7
  <2> HIDE DEF U, v, e
  <2>5. ASSUME NEW x \in InTree
        PROVE  /\ U[x.index] \in Nodes
               /\ U[x.index].kind = Node(x).kind
               /\ U[x.index].parent = Node(x).parent
               /\ U[x.index].child = IF x = q /\ Node(x).child = h THEN n ELSE Node(x).child
               /\ U[x.index].end = IF x = q /\ Node(x).end = h THEN p ELSE Node(x).end
               /\ U[x.index].next = IF x = p THEN n ELSE Node(x).next
               /\ U[x.index].prev = IF x = n THEN p ELSE Node(x).prev
    <3> DEFINE r == a2[x.index]
               s == [r EXCEPT !.child = v]
    <3>1. r \in Nodes /\ x.index \in DOMAIN active
      BY <1>3, <1>7
    <3>2. CASE x = q
      <4>1. U[x.index] = [s EXCEPT !.end = e]
        BY <2>1, <3>1, <3>2
      <4> HIDE DEF r
      <4>2. /\ s \in Nodes /\ s.kind = r.kind /\ s.parent = r.parent
            /\ s.child = v /\ s.next = r.next /\ s.prev = r.prev
        BY <2>3, <3>1, SetChild
      <4> HIDE DEF s
      <4>3. /\ U[x.index] \in Nodes /\ U[x.index].kind = s.kind /\ U[x.index].parent = s.parent
            /\ U[x.index].child = s.child /\ U[x.index].end = e
            /\ U[x.index].next = s.next /\ U[x.index].prev = s.prev
        BY <2>3, <4>1, <4>2, SetEnd
      <4> QED BY <1>7, <2>4, <3>2, <4>2, <4>3 DEF r
    <3>3. CASE x # q
      <4>1. U[x.index] = r
        BY <1>1, <1>3, <2>1, <3>1, <3>3
      <4> QED BY <1>7, <3>1, <3>3, <4>1
    <3> QED BY <3>2, <3>3
  <2>6. \A i \in DOMAIN active : (\A x \in InTree : x.index # i) => U[i] = active[i]
    <3> SUFFICES ASSUME NEW i \in DOMAIN active, \A x \in InTree : x.index # i PROVE U[i] = active[i]
      OBVIOUS
    <3>1. i # q.index
      BY <1>1
    <3> QED BY <1>7, <2>1, <3>1
  <2> QED BY <2>2, <2>5, <2>6
<1> HIDE DEF U
<1> QED BY <1>2, <1>5, <1>8 DEF n, p, q

-----------------------------------------------------------------------------
(* Removing a node *)

(* The indices of a sequence of handles, in its order. *)
LEMMA IndicesOf ==
  ASSUME PoolInv, NEW s \in Seq(InTree), IsInjective(s)
  PROVE  LET t == [k \in DOMAIN s |-> s[k].index] IN
         /\ t \in Seq(Indices) /\ IsInjective(t)
         /\ ToSet(t) = {s[k].index : k \in DOMAIN s}
<1> DEFINE t == [k \in DOMAIN s |-> s[k].index]
<1>1. \A k \in DOMAIN s : s[k] \in InTree /\ s[k].index \in Indices
  BY TreeFacts
<1>2. t \in Seq(Indices)
  <2>1. DOMAIN s = 1 .. Len(s) /\ Len(s) \in Nat
    OBVIOUS
  <2> QED BY <1>1, <2>1
<1>3. IsInjective(t)
  <2>1. \A j, k \in DOMAIN s : s[j].index = s[k].index => s[j] = s[k]
    BY <1>1, TreeFacts
  <2> QED BY <2>1 DEF IsInjective
<1>4. ToSet(t) = {s[k].index : k \in DOMAIN s}
  BY DEF ToSet
<1> QED BY <1>2, <1>3, <1>4

(* What removeFromParent does to the pool... *)
LEMMA RemoveFacts ==
  ASSUME PoolInv, LinkInv, NEW h \in Handles, RemoveNode(h)
  PROVE  /\ h \in InTree /\ h # Null
         /\ PoolInv'
         /\ h \in ToSet(KillList(h)) /\ ToSet(KillList(h)) \subseteq InTree \ {Null}
         /\ Live' = Live \ ToSet(KillList(h)) /\ InTree' = InTree \ ToSet(KillList(h))
         /\ \A x \in InTree' : Node(x)' = Unlink(h)[x.index]
         /\ \A x \in Live' : Node(x)'.kind = Node(x).kind
         /\ DOMAIN active' = DOMAIN active
         /\ \A i \in DOMAIN active :
              IF \E x \in ToSet(KillList(h)) : x.index = i
              THEN /\ generations'[i] = NextGeneration(generations[i])
                   /\ turns'[i] = turns[i] + 1
              ELSE /\ active'[i] = Hole <=> active[i] = Hole
                   /\ generations'[i] = generations[i] /\ turns'[i] = turns[i]
<1> DEFINE KL == KillList(h)
           K == ToSet(KL)
           U == Unlink(h)
           gone == {KL[k].index : k \in DOMAIN KL}
           s == [k \in DOMAIN KL |-> KL[k].index]
<1>1. h \in InTree /\ h # Null
  BY NullIsHandle DEF RemoveNode
<1>2. /\ KL \in Seq(InTree) /\ IsInjective(KL) /\ TopOnly(InTree, Par, Ch, En, Nx, Pv, h, K)
  BY <1>1, KillListFacts
<1>3. h \in K /\ K \subseteq InTree /\ Null \notin K
  BY <1>2 DEF TopOnly
<1>4. /\ DOMAIN U = DOMAIN active
      /\ \A i \in DOMAIN active : (\A x \in InTree : x.index # i) => U[i] = active[i]
      /\ \A x \in InTree : U[x.index] \in Nodes /\ U[x.index].kind = Node(x).kind
  BY <1>1, UnlinkFacts
<1>5. gone = {x.index : x \in K}
  BY DEF ToSet
<1>6. /\ active' = [i \in DOMAIN active |-> IF i \in gone THEN Hole ELSE U[i]]
      /\ dead' = dead \o s
      /\ generations' = [i \in DOMAIN active |->
                            IF i \in gone THEN NextGeneration(generations[i]) ELSE generations[i]]
      /\ turns' = [i \in DOMAIN active |-> IF i \in gone THEN turns[i] + 1 ELSE turns[i]]
      /\ lost' = lost
  BY <1>4 DEF RemoveNode, Destroy
<1>7. s \in Seq(Indices) /\ IsInjective(s) /\ ToSet(s) = gone
  BY <1>2, IndicesOf
<1>9. Hole \notin Nodes
  BY NodesAreNoHoles
<1>10. /\ Null \in Live
       /\ \A x \in Live : /\ x \in Handles /\ x.index \in DOMAIN active
                          /\ Node(x) = active[x.index] /\ Node(x) \in Nodes
                          /\ generations[x.index] = x.generation
                          /\ (x.index = 0) <=> (x = Null)
       /\ \A g, x \in Live : g.index = x.index => g = x
  BY LiveFacts DEF Node
<1>8. InTree \subseteq Live /\ InTree = Live \ lost /\ lost \subseteq Live
  BY TreeFacts DEF InTree, PoolInv
<1> HIDE DEF KL, K, U, gone, s
<1>11. \A i \in gone : i \in DOMAIN active /\ i # 0 /\ active[i] # Hole
  BY <1>3, <1>5, <1>8, <1>9, <1>10
<1>13. \A i \in DOMAIN active : i \notin gone => (U[i] = Hole <=> active[i] = Hole)
  <2> SUFFICES ASSUME NEW i \in DOMAIN active PROVE U[i] = Hole <=> active[i] = Hole
    OBVIOUS
  <2>1. CASE \E x \in InTree : x.index = i
    BY <1>4, <1>8, <1>9, <1>10, <2>1
  <2>2. CASE \A x \in InTree : x.index # i
    BY <1>4, <2>2
  <2> QED BY <2>1, <2>2
<1>14. Live' = Live \ K /\ InTree' = InTree \ K
  <2>1. \A g \in Handles : IsValid(g)' <=> IsValid(g) /\ g.index \notin gone
    BY <1>6, <1>13 DEF IsValid
  <2>2. \A g \in Live : g.index \in gone <=> g \in K
    BY <1>3, <1>5, <1>8, <1>10
  <2>3. Live' = Live \ K
    BY <2>1, <2>2 DEF Live
  <2> QED BY <1>6, <2>3 DEF InTree
<1>15. \A x \in Live' : Node(x)' = U[x.index]
  BY <1>3, <1>5, <1>6, <1>8, <1>10, <1>14 DEF Node
<1>20. \A x \in Live' : Node(x)'.kind = Node(x).kind
  <2>1. ASSUME NEW x \in Live \ K PROVE U[x.index].kind = Node(x).kind
    <3>1. CASE x \in InTree
      BY <1>4, <3>1
    <3>2. CASE x \notin InTree
      <4>1. \A y \in InTree : y.index # x.index
        BY <1>8, <1>10, <3>2
      <4> QED BY <1>4, <1>10, <4>1
    <3> QED BY <3>1, <3>2
  <2> QED BY <1>14, <1>15, <2>1
<1>16. \A i \in DOMAIN active : active'[i] = Hole <=> (i \in gone \/ active[i] = Hole)
  BY <1>6, <1>13
<1>17. PoolInv'
  <2>1. \E n \in 0 .. NumNodes : DOMAIN active' = 0 .. n
    BY <1>6 DEF PoolInv
  <2>2. \A i \in DOMAIN active' : active'[i] \in Nodes \cup {Hole}
    <3> SUFFICES ASSUME NEW i \in DOMAIN active, i \notin gone PROVE U[i] \in Nodes \cup {Hole}
      BY <1>6
    <3>1. CASE \E x \in InTree : x.index = i
      BY <1>4, <3>1
    <3>2. CASE \A x \in InTree : x.index # i
      BY <1>4, <3>2 DEF PoolInv
    <3> QED BY <3>1, <3>2
  <2>3. /\ generations' \in [DOMAIN active' -> 0 .. Generations - 1]
        /\ turns' \in [DOMAIN active' -> Nat]
        /\ \A i \in DOMAIN active' : turns'[i] < Generations => generations'[i] = turns'[i]
    <3>1. Generations \in Nat /\ Generations # 0
      BY NodesAssumption
    <3>2. \A i \in DOMAIN active : /\ generations[i] \in 0 .. Generations - 1 /\ turns[i] \in Nat
                                   /\ turns[i] < Generations => generations[i] = turns[i]
      BY DEF PoolInv
    <3>3. \A i \in DOMAIN active : /\ NextGeneration(generations[i]) \in 0 .. Generations - 1
                                   /\ turns[i] + 1 < Generations => NextGeneration(generations[i]) = turns[i] + 1
      BY <3>1, <3>2 DEF NextGeneration
    <3>4. \A i \in DOMAIN active :
            /\ (IF i \in gone THEN NextGeneration(generations[i]) ELSE generations[i]) \in 0 .. Generations - 1
            /\ (IF i \in gone THEN turns[i] + 1 ELSE turns[i]) \in Nat
      BY <3>2, <3>3
    <3>5. \A i \in DOMAIN active : turns'[i] < Generations => generations'[i] = turns'[i]
      BY <1>6, <3>2, <3>3
    <3> QED BY <1>6, <3>4, <3>5
  <2>9. lost' \subseteq Live' \ {Null'}
    BY <1>3, <1>6, <1>8, <1>14 DEF PoolInv, Null
  <2>4. active'[0] # Hole /\ generations'[0] = 0
    <3>1. 0 \in DOMAIN active /\ 0 \notin gone
      BY <1>10, <1>11, NullIsHandle
    <3> QED BY <1>6, <1>13, <3>1 DEF PoolInv
  <2>5. dead' \in Seq(Indices) /\ ToSet(dead') = ToSet(dead) \cup gone
    BY <1>6, <1>7, RangeOfConcat DEF PoolInv
  <2>6. IsInjective(dead')
    <3>1. IsInjective(dead) /\ ToSet(dead) = {i \in DOMAIN active : active[i] = Hole} /\ dead \in Seq(Indices)
      BY DEF PoolInv, DeadAreTheHoles
    <3>2. ToSet(dead) \cap ToSet(s) = {}
      BY <1>7, <1>11, <3>1
    <3> QED BY <1>6, <1>7, <3>1, <3>2, ConcatInjective
  <2>7. ToSet(dead') = {i \in DOMAIN active' : active'[i] = Hole}
    BY <1>6, <1>11, <1>16, <2>5 DEF PoolInv, DeadAreTheHoles
  <2>8. active' = [i \in DOMAIN active' |-> active'[i]]
    BY <1>6
  <2> QED BY <2>1, <2>2, <2>3, <2>4, <2>5, <2>6, <2>7, <2>8, <2>9 DEF PoolInv, DeadAreTheHoles, Null
<1>18. \A i \in DOMAIN active :
         IF \E x \in K : x.index = i
         THEN generations'[i] = NextGeneration(generations[i]) /\ turns'[i] = turns[i] + 1
         ELSE /\ active'[i] = Hole <=> active[i] = Hole
              /\ generations'[i] = generations[i] /\ turns'[i] = turns[i]
  BY <1>5, <1>6, <1>11, <1>16
<1>19. DOMAIN active' = DOMAIN active
  BY <1>6
<1>21. \A x \in InTree' : Node(x)' = U[x.index]
  BY <1>8, <1>14, <1>15
<1> QED BY <1>1, <1>3, <1>14, <1>17, <1>18, <1>19, <1>20, <1>21 DEF K, KL, U

(* ... and to the links. *)
LEMMA RemoveKeepsLinks ==
  ASSUME PoolInv, LinkInv, NEW h \in Handles, RemoveNode(h)
  PROVE  /\ LinkInv'
         /\ LinkedWithout(InTree, Par, Ch, En, Nx, Pv, h, ToSet(KillList(h)), InTree', Par', Ch', En', Nx', Pv')
<1>1. /\ h \in InTree /\ h # Null
      /\ InTree' = InTree \ ToSet(KillList(h))
      /\ \A x \in InTree' : Node(x)' = Unlink(h)[x.index]
  BY RemoveFacts
<1> DEFINE K == ToSet(KillList(h))
<1>2. TopOnly(InTree, Par, Ch, En, Nx, Pv, h, K)
  BY <1>1, KillListFacts
<1>3. \A x \in InTree :
        /\ Unlink(h)[x.index].parent = Par[x]
        /\ Unlink(h)[x.index].child = IF x = Par[h] /\ Ch[x] = h THEN Nx[h] ELSE Ch[x]
        /\ Unlink(h)[x.index].end = IF x = Par[h] /\ En[x] = h THEN Pv[h] ELSE En[x]
        /\ x # Null => Unlink(h)[x.index].next = IF x = Pv[h] THEN Nx[h] ELSE Nx[x]
        /\ x # Null => Unlink(h)[x.index].prev = IF x = Nx[h] THEN Pv[h] ELSE Pv[x]
  BY <1>1, UnlinkFacts
<1> HIDE DEF K
<1>4. InTree' = InTree \ K
  BY <1>1 DEF K
<1>5. Par' = [x \in InTree' |-> Par[x]]
  BY <1>1, <1>3, <1>4 DEF Par
<1>6. Ch' = [x \in InTree' |-> IF x = Par[h] /\ Ch[x] = h THEN Nx[h] ELSE Ch[x]]
  BY <1>1, <1>3, <1>4 DEF Ch
<1>7. En' = [x \in InTree' |-> IF x = Par[h] /\ En[x] = h THEN Pv[h] ELSE En[x]]
  BY <1>1, <1>3, <1>4 DEF En
<1>8. Nx[Null] = Null /\ Pv[Null] = Null /\ Null' = Null
  BY DEF LinkInv, Forest, Null
<1>9. Nx' = [x \in InTree' |-> IF x # Null /\ x = Pv[h] THEN Nx[h] ELSE Nx[x]]
  <2>1. Nx' = [x \in InTree' |-> IF x = Null THEN Null ELSE Node(x)'.next]
    BY <1>8 DEF Nx
  <2>2. \A x \in InTree' : (IF x = Null THEN Null ELSE Node(x)'.next) = IF x # Null /\ x = Pv[h] THEN Nx[h] ELSE Nx[x]
    BY <1>1, <1>3, <1>4, <1>8
  <2> QED BY <2>1, <2>2
<1>10. Pv' = [x \in InTree' |-> IF x # Null /\ x = Nx[h] THEN Pv[h] ELSE Pv[x]]
  <2>1. Pv' = [x \in InTree' |-> IF x = Null THEN Null ELSE Node(x)'.prev]
    BY <1>8 DEF Pv
  <2>2. \A x \in InTree' : (IF x = Null THEN Null ELSE Node(x)'.prev) = IF x # Null /\ x = Nx[h] THEN Pv[h] ELSE Pv[x]
    BY <1>1, <1>3, <1>4, <1>8
  <2> QED BY <2>1, <2>2
<1>11. PICK rk : Forest(InTree, Par, Ch, En, Nx, Pv, rk)
  BY DEF LinkInv
<1>12. LinkedWithout(InTree, Par, Ch, En, Nx, Pv, h, K, InTree', Par', Ch', En', Nx', Pv')
  BY <1>4, <1>5, <1>6, <1>7, <1>9, <1>10 DEF LinkedWithout
<1>13. \E rk2 : Forest(InTree', Par', Ch', En', Nx', Pv', rk2)
  BY <1>1, <1>2, <1>11, <1>12, ForestWithout
<1> QED BY <1>12, <1>13 DEF LinkInv, K

-----------------------------------------------------------------------------
(* Adding a node *)

(* The index a node is given is a hole, or none that is in use. *)
LEMMA FreshFacts ==
  ASSUME PoolInv, FreshIndex \in Indices
  PROVE  /\ FreshHandle \in Handles /\ FreshHandle.index = FreshIndex /\ FreshHandle # Null
         /\ \A x \in Live : x.index # FreshIndex
         /\ IF dead # <<>>
            THEN /\ FreshIndex \in DOMAIN active /\ active[FreshIndex] = Hole
                 /\ FreshHandle.generation = generations[FreshIndex]
            ELSE /\ DOMAIN active = 0 .. FreshIndex - 1 /\ FreshIndex \in Nat
                 /\ FreshHandle.generation = 0
<1>1. PICK n \in 0 .. NumNodes : DOMAIN active = 0 .. n
  BY DEF PoolInv
<1>2. n \in Nat
  BY NodesAssumption
<1>3. \A x \in Live : x.index \in DOMAIN active /\ active[x.index] # Hole
  BY DEF Live, IsValid
<1>4. 0 \in 0 .. Generations - 1
  BY NodesAssumption
<1>5. CASE dead # <<>>
  <2>1. dead \in Seq(Indices) /\ Len(dead) \in DOMAIN dead /\ FreshIndex = dead[Len(dead)]
    BY <1>5 DEF PoolInv, FreshIndex, Last
  <2>2. FreshIndex \in ToSet(dead)
    BY <2>1 DEF ToSet
  <2>3. FreshIndex \in DOMAIN active /\ active[FreshIndex] = Hole
    BY <2>2 DEF PoolInv, DeadAreTheHoles
  <2>4. generations[FreshIndex] \in 0 .. Generations - 1
    BY <2>3 DEF PoolInv
  <2>5. FreshHandle = [index |-> FreshIndex, generation |-> generations[FreshIndex]]
    BY <1>5 DEF FreshHandle
  <2>6. FreshHandle \in Handles /\ FreshHandle.index = FreshIndex /\ FreshHandle.generation = generations[FreshIndex]
    BY <2>4, <2>5 DEF Handles
  <2>7. FreshIndex # 0
    BY <2>3 DEF PoolInv
  <2> QED BY <1>3, <1>5, <2>3, <2>6, <2>7, NullIsHandle
<1>6. CASE dead = <<>>
  <2>1. FreshIndex = n + 1
    <3>1. Cardinality(0 .. n) = n + 1
      BY <1>2, FS_Interval
    <3> QED BY <1>1, <1>6, <3>1 DEF FreshIndex
  <2>2. FreshHandle = [index |-> FreshIndex, generation |-> 0]
    BY <1>6 DEF FreshHandle
  <2>3. FreshHandle \in Handles /\ FreshHandle.index = FreshIndex /\ FreshHandle.generation = 0
    BY <1>4, <2>2 DEF Handles
  <2>4. FreshIndex \notin DOMAIN active /\ FreshIndex # 0
    BY <1>1, <1>2, <2>1
  <2>5. DOMAIN active = 0 .. FreshIndex - 1 /\ FreshIndex \in Nat
    BY <1>1, <1>2, <2>1
  <2> QED BY <1>3, <1>6, <2>3, <2>4, <2>5, NullIsHandle
<1> QED BY <1>5, <1>6

(* The pool once a new node is the last child of p, and what a pool M is then *)
(* said to hold of the old nodes and of the new one, f.                       *)
Added(kind, p) == Link(With(active, FreshHandle.index, NewNode(kind)), FreshHandle, p)

LinkedLast(M, kind, p, f) ==
  /\ DOMAIN M = DOMAIN active \cup {f.index}
  /\ \A i \in DOMAIN active : i # f.index /\ (\A x \in InTree : x.index # i) => M[i] = active[i]
  /\ M[f.index] \in Nodes
  /\ M[f.index].kind = kind /\ M[f.index].parent = p
  /\ M[f.index].child = Null /\ M[f.index].end = Null
  /\ M[f.index].next = Null /\ M[f.index].prev = En[p]
  /\ \A x \in InTree :
       /\ M[x.index] \in Nodes
       /\ M[x.index].kind = Node(x).kind
       /\ M[x.index].parent = Par[x]
       /\ M[x.index].child = IF x = p /\ Ch[p] = Null THEN f ELSE Ch[x]
       /\ M[x.index].end = IF x = p THEN f ELSE En[x]
       /\ x # Null => M[x.index].next = IF x = En[p] THEN f ELSE Nx[x]
       /\ x # Null => M[x.index].prev = Pv[x]

(* The links setParent writes for a node just made. *)
LEMMA LinkFacts ==
  ASSUME PoolInv, LinkInv, FreshIndex \in Indices,
         NEW p \in InTree, NEW kind \in Kinds
  PROVE  LinkedLast(Added(kind, p), kind, p, FreshHandle)
<1> DEFINE f == FreshHandle
           i0 == f.index
           a0 == With(active, i0, NewNode(kind))
           a1 == [a0 EXCEPT ![i0].parent = p]
           a2 == [a1 EXCEPT ![p.index].end = f]
           c == Ch[p]
           e == En[p]
           bc == [a2 EXCEPT ![p.index].child = f]
           b1 == [a2 EXCEPT ![e.index].next = f]
           be == [b1 EXCEPT ![i0].prev = e]
           M == Link(a0, f, p)
           Good(a) == /\ DOMAIN a = DOMAIN active \cup {i0}
                      /\ \A i \in DOMAIN active :
                           i # i0 /\ (\A x \in InTree : x.index # i) => a[i] = active[i]
                      /\ \A i \in DOMAIN a : (i = i0 \/ active[i] # Hole) => a[i] \in Nodes
<1>1. f \in Handles /\ i0 = FreshIndex /\ f # Null /\ \A x \in InTree : x.index # i0
  BY FreshFacts, TreeFacts
<1>2. /\ \A x \in InTree : /\ x \in Handles /\ x.index \in DOMAIN active
                           /\ Node(x) = active[x.index] /\ Node(x) \in Nodes
                           /\ (x.index = 0) <=> (x = Null)
      /\ \A g, x \in InTree : g.index = x.index => g = x
  BY TreeFacts DEF Node
<1>3. Hole \notin Nodes
  BY NodesAreNoHoles
<1>4. /\ c \in InTree /\ e \in InTree /\ (c = Null <=> e = Null)
      /\ Node(p).child = c /\ Node(p).end = e
  BY LinksOfTree DEF LinkInv, Forest, Ch, En
<1>5. /\ \A x \in InTree : Par[x] = Node(x).parent /\ Ch[x] = Node(x).child /\ En[x] = Node(x).end
      /\ \A x \in InTree : x # Null => Nx[x] = Node(x).next /\ Pv[x] = Node(x).prev
  BY DEF Par, Ch, En, Nx, Pv
<1>6. NewNode(kind) \in Nodes
  BY NullIsHandle DEF NewNode, Nodes
<1>7. /\ NewNode(kind).kind = kind /\ NewNode(kind).child = Null /\ NewNode(kind).end = Null
      /\ NewNode(kind).next = Null /\ NewNode(kind).prev = Null
  BY DEF NewNode
<1>8. \A x \in InTree : x.index \in DOMAIN active /\ active[x.index] # Hole /\ x.index # i0
  BY <1>1, <1>2, <1>3
<1>9. M = IF c = Null THEN bc ELSE be
  <2>1. a0[p.index] = Node(p)
    BY <1>1, <1>2 DEF With
  <2>2. (c.index = 0) <=> (c = Null)
    <3> HIDE DEF c
    <3> QED BY <1>2, <1>4
  <2> QED BY <1>4, <2>1, <2>2 DEF Link
<1> HIDE DEF c, e, M, i0, f
<1>10. /\ Good(a0) /\ a0[i0] = NewNode(kind)
       /\ \A x \in InTree : a0[x.index] = Node(x)
  <2>1. \A i \in DOMAIN active \cup {i0} : a0[i] = IF i = i0 THEN NewNode(kind) ELSE active[i]
    BY DEF With
  <2>2. DOMAIN a0 = DOMAIN active \cup {i0}
    BY DEF With
  <2> HIDE DEF a0
  <2>3. \A i \in DOMAIN active : active[i] # Hole => active[i] \in Nodes
    BY DEF PoolInv
  <2> QED BY <1>2, <1>6, <1>8, <2>1, <2>2, <2>3
<1> HIDE DEF a0
<1>11. /\ Good(a1)
       /\ a1[i0] = [NewNode(kind) EXCEPT !.parent = p]
       /\ \A x \in InTree : a1[x.index] = Node(x)
  <2>1. DOMAIN a1 = DOMAIN a0 /\ \A i \in DOMAIN a0 : a1[i] = IF i = i0 THEN [a0[i] EXCEPT !.parent = p] ELSE a0[i]
    BY <1>10
  <2> HIDE DEF a1
  <2>2. a1[i0] = [NewNode(kind) EXCEPT !.parent = p]
    BY <1>10, <2>1
  <2>3. a1[i0] \in Nodes
    BY <1>2, <1>6, <2>2, SetParent
  <2> QED BY <1>8, <1>10, <2>1, <2>2, <2>3
<1> HIDE DEF a1
<1>12. /\ Good(a2)
       /\ a2[i0] = a1[i0]
       /\ \A x \in InTree : a2[x.index] = IF x = p THEN [Node(x) EXCEPT !.end = f] ELSE Node(x)
  <2>1. DOMAIN a2 = DOMAIN a1 /\ \A i \in DOMAIN a1 : a2[i] = IF i = p.index THEN [a1[i] EXCEPT !.end = f] ELSE a1[i]
    BY <1>11
  <2> HIDE DEF a2
  <2>2. a2[p.index] = [Node(p) EXCEPT !.end = f]
    BY <1>8, <1>11, <2>1
  <2>3. a2[p.index] \in Nodes
    BY <1>1, <1>2, <2>2, SetEnd
  <2>4. \A i \in DOMAIN a1 : i # p.index => a2[i] = a1[i]
    BY <2>1
  <2>5. Good(a2)
    BY <1>8, <1>11, <2>1, <2>3, <2>4
  <2> QED BY <1>2, <1>8, <1>11, <2>1, <2>2, <2>4, <2>5
<1> HIDE DEF a2
<1>13. ASSUME c = Null
       PROVE  /\ Good(bc) /\ bc[i0] = a2[i0]
              /\ bc[p.index] = [[Node(p) EXCEPT !.end = f] EXCEPT !.child = f]
              /\ \A x \in InTree : x # p => bc[x.index] = Node(x)
  <2>1. DOMAIN bc = DOMAIN a2 /\ \A i \in DOMAIN a2 : bc[i] = IF i = p.index THEN [a2[i] EXCEPT !.child = f] ELSE a2[i]
    BY <1>12
  <2> HIDE DEF bc
  <2>2. p.index \in DOMAIN a2 /\ a2[p.index] \in Nodes
    BY <1>8, <1>12
  <2>3. bc[p.index] = [a2[p.index] EXCEPT !.child = f]
    BY <2>1, <2>2
  <2>4. bc[p.index] \in Nodes
    BY <1>1, <2>2, <2>3, SetChild
  <2>5. \A i \in DOMAIN a2 : i # p.index => bc[i] = a2[i]
    BY <2>1
  <2>6. Good(bc)
    BY <1>8, <1>12, <2>1, <2>4, <2>5
  <2>7. bc[p.index] = [[Node(p) EXCEPT !.end = f] EXCEPT !.child = f]
    BY <1>12, <2>3
  <2>8. \A x \in InTree : x # p => bc[x.index] = Node(x)
    BY <1>2, <1>8, <1>12, <2>5
  <2>9. bc[i0] = a2[i0]
    BY <1>8, <1>12, <2>5
  <2> QED BY <2>6, <2>7, <2>8, <2>9
<1>14. ASSUME c # Null
       PROVE  /\ Good(be) /\ be[i0] = [a2[i0] EXCEPT !.prev = e]
              /\ \A x \in InTree : be[x.index] = IF x = e THEN [a2[e.index] EXCEPT !.next = f] ELSE a2[x.index]
  <2>1. DOMAIN b1 = DOMAIN a2 /\ \A i \in DOMAIN a2 : b1[i] = IF i = e.index THEN [a2[i] EXCEPT !.next = f] ELSE a2[i]
    BY <1>12
  <2> HIDE DEF b1
  <2>2. DOMAIN be = DOMAIN a2 /\ \A i \in DOMAIN a2 : be[i] = IF i = i0 THEN [b1[i] EXCEPT !.prev = e] ELSE b1[i]
    BY <2>1
  <2> HIDE DEF be
  <2>3. /\ e.index \in DOMAIN a2 /\ a2[e.index] \in Nodes /\ e.index # i0
        /\ i0 \in DOMAIN a2 /\ a2[i0] \in Nodes
    BY <1>4, <1>8, <1>12
  <2>4. be[e.index] = [a2[e.index] EXCEPT !.next = f] /\ be[i0] = [a2[i0] EXCEPT !.prev = e]
    BY <2>1, <2>2, <2>3
  <2>5. be[e.index] \in Nodes
    BY <1>1, <2>3, <2>4, SetNext
  <2>6. be[i0] \in Nodes
    BY <1>2, <1>4, <2>3, <2>4, SetPrev
  <2>7. \A i \in DOMAIN a2 : i # e.index /\ i # i0 => be[i] = a2[i]
    BY <2>1, <2>2
  <2>8. Good(be)
    BY <1>4, <1>8, <1>12, <2>2, <2>5, <2>6, <2>7
  <2>9. \A x \in InTree : be[x.index] = IF x = e THEN [a2[e.index] EXCEPT !.next = f] ELSE a2[x.index]
    BY <1>2, <1>4, <1>8, <1>12, <2>4, <2>7
  <2> QED BY <2>4, <2>8, <2>9
<1> HIDE DEF bc, be
<1>15. Good(M)
  BY <1>9, <1>13, <1>14
<1>16. /\ M[i0].kind = kind /\ M[i0].parent = p
       /\ M[i0].child = Null /\ M[i0].end = Null
       /\ M[i0].next = Null /\ M[i0].prev = e
  <2>1. /\ a2[i0] \in Nodes /\ a2[i0].kind = kind /\ a2[i0].parent = p
        /\ a2[i0].child = Null /\ a2[i0].end = Null
        /\ a2[i0].next = Null /\ a2[i0].prev = Null
    BY <1>2, <1>6, <1>7, <1>11, <1>12, SetParent
  <2>2. CASE c = Null
    BY <1>4, <1>9, <1>13, <2>1, <2>2
  <2>3. CASE c # Null
    <3>1. M[i0] = [a2[i0] EXCEPT !.prev = e]
      BY <1>9, <1>14, <2>3
    <3>2. e \in Handles
      BY <1>2, <1>4
    <3> QED BY <2>1, <3>1, <3>2, SetPrev
  <2> QED BY <2>2, <2>3
<1>17. ASSUME NEW x \in InTree
       PROVE  /\ M[x.index].kind = Node(x).kind
              /\ M[x.index].parent = Node(x).parent
              /\ M[x.index].child = IF x = p /\ c = Null THEN f ELSE Node(x).child
              /\ M[x.index].end = IF x = p THEN f ELSE Node(x).end
              /\ M[x.index].next = IF x = e /\ c # Null THEN f ELSE Node(x).next
              /\ M[x.index].prev = Node(x).prev
  <2> DEFINE r == a2[x.index]
  <2>1. Node(x) \in Nodes /\ f \in Handles
    BY <1>1, <1>2
  <2>2. /\ r \in Nodes /\ r.kind = Node(x).kind /\ r.parent = Node(x).parent /\ r.child = Node(x).child
        /\ r.end = IF x = p THEN f ELSE Node(x).end
        /\ r.next = Node(x).next /\ r.prev = Node(x).prev
    <3>1. CASE x = p
      <4>1. r = [Node(x) EXCEPT !.end = f]
        BY <1>12, <3>1
      <4> HIDE DEF r
      <4> QED BY <2>1, <3>1, <4>1, SetEnd
    <3>2. CASE x # p
      BY <1>12, <2>1, <3>2
    <3> QED BY <3>1, <3>2
  <2>3. CASE c = Null
    <3>1. CASE x = p
      <4>1. M[x.index] = [r EXCEPT !.child = f]
        BY <1>9, <1>12, <1>13, <2>3, <3>1
      <4> HIDE DEF r
      <4>2. /\ M[x.index].kind = r.kind /\ M[x.index].parent = r.parent /\ M[x.index].child = f
            /\ M[x.index].end = r.end /\ M[x.index].next = r.next /\ M[x.index].prev = r.prev
        BY <2>1, <2>2, <4>1, SetChild
      <4> QED BY <2>2, <2>3, <3>1, <4>2
    <3>2. CASE x # p
      <4>1. M[x.index] = Node(x)
        BY <1>9, <1>13, <2>3, <3>2
      <4> QED BY <2>3, <3>2, <4>1
    <3> QED BY <3>1, <3>2
  <2>4. CASE c # Null
    <3>1. CASE x = e
      <4>1. M[x.index] = [r EXCEPT !.next = f]
        BY <1>9, <1>14, <2>4, <3>1
      <4> HIDE DEF r
      <4>2. /\ M[x.index].kind = r.kind /\ M[x.index].parent = r.parent /\ M[x.index].child = r.child
            /\ M[x.index].end = r.end /\ M[x.index].next = f /\ M[x.index].prev = r.prev
        BY <2>1, <2>2, <4>1, SetNext
      <4> QED BY <2>2, <2>4, <3>1, <4>2
    <3>2. CASE x # e
      <4>1. M[x.index] = r
        BY <1>9, <1>14, <2>4, <3>2
      <4> HIDE DEF r
      <4> QED BY <2>2, <2>4, <3>2, <4>1
    <3> QED BY <3>1, <3>2
  <2> QED BY <2>3, <2>4
<1>18. \A x \in InTree : M[x.index] \in Nodes
  BY <1>8, <1>15
<1>19. M[i0] \in Nodes
  BY <1>15
<1>20. ASSUME NEW x \in InTree, x # Null
       PROVE  /\ M[x.index].next = IF x = e THEN f ELSE Nx[x]
              /\ M[x.index].prev = Pv[x]
  BY <1>4, <1>5, <1>17, <1>20
<1>21. ASSUME NEW x \in InTree
       PROVE  /\ M[x.index].parent = Par[x]
              /\ M[x.index].child = IF x = p /\ c = Null THEN f ELSE Ch[x]
              /\ M[x.index].end = IF x = p THEN f ELSE En[x]
  BY <1>5, <1>17
<1>22. /\ DOMAIN M = DOMAIN active \cup {i0}
       /\ \A i \in DOMAIN active : i # i0 /\ (\A x \in InTree : x.index # i) => M[i] = active[i]
  BY <1>15
<1> QED
  BY <1>16, <1>17, <1>18, <1>19, <1>20, <1>21, <1>22 DEF M, f, i0, a0, c, e, Added, LinkedLast

(* A sequence without its last element. *)
LEMMA FrontFacts ==
  ASSUME NEW S, NEW s \in Seq(S), s # <<>>, IsInjective(s)
  PROVE  Front(s) \in Seq(S) /\ IsInjective(Front(s)) /\ ToSet(Front(s)) = ToSet(s) \ {Last(s)}
<1>1. Len(s) \in Nat /\ Len(s) # 0 /\ DOMAIN s = 1 .. Len(s) /\ \A k \in 1 .. Len(s) : s[k] \in S
  OBVIOUS
<1> DEFINE n == Len(s)
           t == Front(s)
<1>2. t \in Seq(S) /\ DOMAIN t = 1 .. n - 1 /\ \A k \in 1 .. n - 1 : t[k] = s[k]
  BY <1>1 DEF Front
<1>3. Last(s) = s[n]
  BY DEF Last
<1> HIDE DEF n, t
<1>4. n \in Nat /\ n # 0 /\ DOMAIN s = 1 .. n
  BY <1>1 DEF n
<1>5. IsInjective(t)
  BY <1>2, <1>4 DEF IsInjective
<1>6. ToSet(t) = ToSet(s) \ {s[n]}
  <2>1. \A k \in 1 .. n - 1 : s[k] # s[n]
    BY <1>4 DEF IsInjective
  <2>2. \A k \in 1 .. n : k = n \/ k \in 1 .. n - 1
    BY <1>4
  <2>3. \A k \in 1 .. n - 1 : k \in 1 .. n
    BY <1>4
  <2> QED BY <1>2, <1>4, <2>1, <2>2, <2>3 DEF ToSet
<1> QED BY <1>2, <1>3, <1>5, <1>6 DEF t

(* What new does to the pool, whatever is then written to the links: A is the *)
(* nodes, f the handle of the new one.                                        *)
LEMMA NewFacts ==
  ASSUME PoolInv, New, NEW f, f = FreshHandle,
         NEW A, A = [i \in DOMAIN A |-> A[i]], DOMAIN A = DOMAIN active \cup {f.index},
         A[f.index] \in Nodes,
         \A i \in DOMAIN active : /\ A[i] \in Nodes \cup {Hole}
                                  /\ i # f.index => (A[i] = Hole <=> active[i] = Hole),
         active' = A, lost' \in {lost, lost \cup {f}}
  PROVE  /\ f \in Handles \ Live /\ f # Null
         /\ PoolInv' /\ Live' = Live \cup {f}
         /\ DOMAIN active' = DOMAIN active \cup {f.index}
         /\ active'[f.index] # Hole /\ generations'[f.index] = f.generation
         /\ \A i \in DOMAIN active : turns'[i] = turns[i]
         /\ \A i \in DOMAIN active :
              i # f.index => generations'[i] = generations[i] /\ (active'[i] = Hole <=> active[i] = Hole)
         /\ f.index \in DOMAIN active => active[f.index] = Hole /\ generations[f.index] = f.generation
<1> DEFINE i0 == f.index
<1>1. /\ i0 \in Indices
      /\ generations' = With(generations, i0, f.generation)
      /\ turns' = With(turns, i0, IF dead # <<>> THEN turns[i0] ELSE 0)
      /\ dead' = IF dead # <<>> THEN Front(dead) ELSE dead
  BY DEF New
<1>2. /\ f \in Handles /\ i0 = FreshIndex /\ f # Null /\ \A x \in Live : x.index # i0
      /\ IF dead # <<>>
         THEN i0 \in DOMAIN active /\ active[i0] = Hole /\ f.generation = generations[i0]
         ELSE DOMAIN active = 0 .. i0 - 1 /\ i0 \in Nat /\ f.generation = 0
  <2>1. FreshHandle.index = FreshIndex
    BY DEF FreshHandle
  <2> QED BY <1>1, <2>1, FreshFacts
<1>3. Hole \notin Nodes
  BY NodesAreNoHoles
<1>4. Null \in Live /\ Null.index = 0 /\ 0 \in DOMAIN active
  BY LiveFacts, NullIsHandle
<1> HIDE DEF i0
<1>5. /\ DOMAIN A = DOMAIN active \cup {i0} /\ A[i0] \in Nodes
      /\ \A i \in DOMAIN active : A[i] \in Nodes \cup {Hole} /\ (i # i0 => (A[i] = Hole <=> active[i] = Hole))
  BY DEF i0
<1>6. /\ DOMAIN generations' = DOMAIN active \cup {i0}
      /\ generations'[i0] = f.generation
      /\ \A i \in DOMAIN active : i # i0 => generations'[i] = generations[i]
  BY <1>1 DEF With, PoolInv
<1>7. i0 \in DOMAIN active => dead # <<>> /\ active[i0] = Hole /\ generations[i0] = f.generation
  BY <1>2
<1>8. /\ DOMAIN turns' = DOMAIN active \cup {i0}
      /\ turns'[i0] = IF dead # <<>> THEN turns[i0] ELSE 0
      /\ \A i \in DOMAIN active : turns'[i] = turns[i]
  BY <1>1, <1>7 DEF With, PoolInv
<1>9. Live' = Live \cup {f}
  <2>1. ASSUME NEW g \in Handles PROVE IsValid(g)' <=> IsValid(g) \/ g = f
    <3>1. CASE g.index = i0
      <4>1. ~IsValid(g)
        BY <1>7, <3>1 DEF IsValid
      <4>2. IsValid(g)' <=> g.generation = f.generation
        BY <1>3, <1>5, <1>6, <3>1 DEF IsValid
      <4>3. g = f <=> g.generation = f.generation
        BY <1>2, <3>1 DEF Handles, i0
      <4> QED BY <4>1, <4>2, <4>3
    <3>2. CASE g.index # i0
      <4>1. IsValid(g)' <=> IsValid(g)
        BY <1>5, <1>6, <3>2 DEF IsValid
      <4> QED BY <3>2, <4>1 DEF i0
    <3> QED BY <3>1, <3>2
  <2> QED BY <1>2, <2>1 DEF Live
<1>10. f \notin Live
  BY <1>2 DEF i0
<1>11. PoolInv'
  <2>1. \E n \in 0 .. NumNodes : DOMAIN active' = 0 .. n
    <3>1. PICK n \in 0 .. NumNodes : DOMAIN active = 0 .. n
      BY DEF PoolInv
    <3>2. CASE dead # <<>>
      BY <1>2, <1>5, <3>1, <3>2
    <3>3. CASE dead = <<>>
      <4>1. i0 \in 0 .. NumNodes /\ DOMAIN active' = 0 .. i0
        BY <1>1, <1>2, <1>5, <3>3 DEF Indices
      <4> QED BY <4>1
    <3> QED BY <3>2, <3>3
  <2>2. \A i \in DOMAIN active' : active'[i] \in Nodes \cup {Hole}
    BY <1>5
  <2>3. active' = [i \in DOMAIN active' |-> active'[i]]
    OBVIOUS
  <2>4. generations' \in [DOMAIN active' -> 0 .. Generations - 1]
    <3>1. f.generation \in 0 .. Generations - 1
      BY <1>2 DEF Handles
    <3>2. \A i \in DOMAIN active : generations[i] \in 0 .. Generations - 1
      BY DEF PoolInv
    <3>3. \A i \in DOMAIN active' : generations'[i] \in 0 .. Generations - 1
      BY <1>5, <1>6, <3>1, <3>2
    <3>4. generations' = [i \in DOMAIN active' |-> generations'[i]]
      BY <1>1, <1>5 DEF With, PoolInv
    <3> QED BY <3>3, <3>4
  <2>5. /\ turns' \in [DOMAIN active' -> Nat]
        /\ \A i \in DOMAIN active' : turns'[i] < Generations => generations'[i] = turns'[i]
    <3>1. \A i \in DOMAIN active : turns[i] \in Nat /\ (turns[i] < Generations => generations[i] = turns[i])
      BY DEF PoolInv
    <3>2. i0 \notin DOMAIN active => turns'[i0] = 0 /\ generations'[i0] = 0
      BY <1>2, <1>6, <1>8
    <3>3. \A i \in DOMAIN active' : turns'[i] \in Nat
      BY <1>5, <1>8, <3>1, <3>2
    <3>4. turns' = [i \in DOMAIN active' |-> turns'[i]]
      BY <1>1, <1>5 DEF With, PoolInv
    <3>5. \A i \in DOMAIN active' : turns'[i] < Generations => generations'[i] = turns'[i]
      BY <1>5, <1>6, <1>7, <1>8, <3>1, <3>2
    <3> QED BY <3>3, <3>4, <3>5
  <2>6. active'[0] # Hole /\ generations'[0] = 0
    <3>1. 0 \in DOMAIN active /\ 0 # i0
      BY <1>2, <1>4
    <3> QED BY <1>5, <1>6, <3>1 DEF PoolInv
  <2>7. lost' \subseteq Live' \ {Null}
    BY <1>2, <1>9 DEF PoolInv
  <2>8. /\ dead' \in Seq(Indices) /\ IsInjective(dead')
        /\ ToSet(dead') = {i \in DOMAIN active : active[i] = Hole} \ {i0}
    <3>0. /\ dead \in Seq(Indices) /\ IsInjective(dead)
          /\ ToSet(dead) = {i \in DOMAIN active : active[i] = Hole}
      BY DEF PoolInv, DeadAreTheHoles
    <3>1. CASE dead # <<>>
      <4>1. i0 = Last(dead)
        BY <1>2, <3>1 DEF FreshIndex
      <4> QED BY <1>1, <3>0, <3>1, <4>1, FrontFacts
    <3>2. CASE dead = <<>>
      <4>1. i0 \notin DOMAIN active
        BY <1>2, <3>2
      <4> QED BY <1>1, <3>0, <3>2, <4>1
    <3> QED BY <3>1, <3>2
  <2>9. {i \in DOMAIN active' : active'[i] = Hole} = {i \in DOMAIN active : active[i] = Hole} \ {i0}
    BY <1>3, <1>5
  <2> QED BY <2>1, <2>2, <2>3, <2>4, <2>5, <2>6, <2>7, <2>8, <2>9 DEF PoolInv, DeadAreTheHoles, Null
<1>12. /\ active'[i0] # Hole
       /\ \A i \in DOMAIN active : i # i0 => (active'[i] = Hole <=> active[i] = Hole)
  BY <1>3, <1>5
<1> QED BY <1>2, <1>5, <1>6, <1>7, <1>8, <1>9, <1>10, <1>11, <1>12 DEF i0

(* What of the pool a step that makes a node has changed. *)
Made(f) ==
  /\ f \in Handles \ Live /\ f # Null
  /\ PoolInv' /\ Live' = Live \cup {f}
  /\ DOMAIN active' = DOMAIN active \cup {f.index}
  /\ active'[f.index] # Hole /\ generations'[f.index] = f.generation
  /\ \A i \in DOMAIN active : turns'[i] = turns[i]
  /\ \A i \in DOMAIN active :
       i # f.index => generations'[i] = generations[i] /\ (active'[i] = Hole <=> active[i] = Hole)
  /\ f.index \in DOMAIN active => active[f.index] = Hole /\ generations[f.index] = f.generation
  /\ \A x \in Live : Node(x)'.kind = Node(x).kind

(* What addSlot, addPanel and addButton do to the pool and to the links. *)
LEMMA AddFacts ==
  ASSUME PoolInv, LinkInv, NEW kind \in Kinds, NEW p \in Handles, AddNode(kind, p),
         NEW f, f = FreshHandle
  PROVE  /\ Made(f) /\ LinkInv'
         /\ lost' = lost /\ InTree' = InTree \cup {f} /\ p \in InTree
         /\ LinkedWith(InTree, Par, Ch, En, Nx, Pv, f, p, InTree', Par', Ch', En', Nx', Pv')
         /\ Node(f)'.kind = kind
<1> DEFINE i0 == f.index
           A == Added(kind, p)
<1>1. p \in InTree /\ FreshIndex \in Indices /\ New /\ active' = A /\ lost' = lost
  BY DEF AddNode, New, FreshHandle, Added
<1>2. /\ f \in Handles /\ i0 = FreshIndex /\ f # Null /\ \A x \in Live : x.index # i0
      /\ i0 \in DOMAIN active => active[i0] = Hole
  BY <1>1, FreshFacts
<1>4. /\ DOMAIN A = DOMAIN active \cup {i0}
      /\ \A i \in DOMAIN active : i # i0 /\ (\A x \in InTree : x.index # i) => A[i] = active[i]
      /\ A[i0] \in Nodes
      /\ A[i0].kind = kind /\ A[i0].parent = p
      /\ A[i0].child = Null /\ A[i0].end = Null
      /\ A[i0].next = Null /\ A[i0].prev = En[p]
      /\ \A x \in InTree :
           /\ A[x.index] \in Nodes
           /\ A[x.index].kind = Node(x).kind
           /\ A[x.index].parent = Par[x]
           /\ A[x.index].child = IF x = p /\ Ch[p] = Null THEN f ELSE Ch[x]
           /\ A[x.index].end = IF x = p THEN f ELSE En[x]
           /\ x # Null => A[x.index].next = IF x = En[p] THEN f ELSE Nx[x]
           /\ x # Null => A[x.index].prev = Pv[x]
  <2>1. LinkedLast(A, kind, p, f)
    BY <1>1, LinkFacts
  <2> HIDE DEF A
  <2> QED BY <2>1 DEF LinkedLast
<1>5. /\ Null \in InTree /\ InTree \subseteq Live
      /\ \A x \in Live : /\ x \in Handles /\ x.index \in DOMAIN active
                         /\ active[x.index] \in Nodes /\ Node(x) = active[x.index]
      /\ \A g, x \in Live : g.index = x.index => g = x
  BY LiveFacts, TreeFacts DEF Node
<1>6. Hole \notin Nodes
  BY NodesAreNoHoles
<1>7. A = [i \in DOMAIN A |-> A[i]]
  <2> DEFINE a0 == With(active, FreshHandle.index, NewNode(kind))
             a1 == [a0 EXCEPT ![FreshHandle.index].parent = p]
             a2 == [a1 EXCEPT ![p.index].end = FreshHandle]
  <2>1. A = IF a0[p.index].child.index = 0
            THEN [a2 EXCEPT ![p.index].child = FreshHandle]
            ELSE [[a2 EXCEPT ![a0[p.index].end.index].next = FreshHandle]
                    EXCEPT ![FreshHandle.index].prev = a0[p.index].end]
    BY DEF A, Added, Link
  <2> HIDE DEF a0, a2
  <2> QED BY <2>1
<1> HIDE DEF A, i0
<1>8. ASSUME NEW i \in DOMAIN active
      PROVE  /\ A[i] \in Nodes \cup {Hole}
             /\ i # i0 => (A[i] = Hole <=> active[i] = Hole)
  <2>1. CASE i = i0
    BY <1>4, <2>1
  <2>2. CASE i # i0 /\ \E x \in InTree : x.index = i
    BY <1>4, <1>5, <1>6, <2>2
  <2>3. CASE i # i0 /\ \A x \in InTree : x.index # i
    BY <1>4, <2>3 DEF PoolInv
  <2> QED BY <2>1, <2>2, <2>3
<1>9. /\ f \in Handles \ Live /\ f # Null
      /\ PoolInv' /\ Live' = Live \cup {f}
      /\ DOMAIN active' = DOMAIN active \cup {f.index}
      /\ active'[f.index] # Hole /\ generations'[f.index] = f.generation
      /\ \A i \in DOMAIN active : turns'[i] = turns[i]
      /\ \A i \in DOMAIN active :
           i # f.index => generations'[i] = generations[i] /\ (active'[i] = Hole <=> active[i] = Hole)
      /\ f.index \in DOMAIN active => active[f.index] = Hole /\ generations[f.index] = f.generation
  <2>1. DOMAIN A = DOMAIN active \cup {f.index} /\ A[f.index] \in Nodes
    BY <1>4 DEF i0
  <2>2. \A i \in DOMAIN active : /\ A[i] \in Nodes \cup {Hole}
                                 /\ i # f.index => (A[i] = Hole <=> active[i] = Hole)
    BY <1>8 DEF i0
  <2> QED BY <1>1, <1>7, <2>1, <2>2, NewFacts
<1>11. InTree' = InTree \cup {f} /\ f \notin InTree
  BY <1>1, <1>5, <1>9 DEF InTree, PoolInv
<1>14. Node(f)' = A[i0] /\ \A x \in Live : Node(x)' = A[x.index]
  <2>1. Node(f)' = A[i0]
    BY <1>1 DEF Node, i0
  <2>2. \A x \in Live : Node(x)' = A[x.index]
    BY <1>1 DEF Node
  <2> QED BY <2>1, <2>2
<1>15. Null' = Null /\ f # Null /\ Null \in InTree /\ Nx[Null] = Null /\ Pv[Null] = Null
  BY <1>2, <1>5 DEF Null, LinkInv, Forest
<1>t. \A x \in InTree : Node(x)' = A[x.index]
  BY <1>5, <1>14
<1>16. Par' = [x \in InTree' |-> IF x = f THEN p ELSE Par[x]]
  BY <1>4, <1>11, <1>14, <1>t DEF Par
<1>17. Ch' = [x \in InTree' |-> IF x = f THEN Null ELSE IF x = p /\ Ch[p] = Null THEN f ELSE Ch[x]]
  BY <1>4, <1>11, <1>14, <1>t DEF Ch
<1>18. En' = [x \in InTree' |-> IF x = f THEN Null ELSE IF x = p THEN f ELSE En[x]]
  BY <1>4, <1>11, <1>14, <1>t DEF En
<1>19. Nx' = [x \in InTree' |-> IF x = f THEN Null ELSE IF x # Null /\ x = En[p] THEN f ELSE Nx[x]]
  <2>1. Nx' = [x \in InTree' |-> IF x = Null THEN Null ELSE Node(x)'.next]
    BY <1>15 DEF Nx
  <2>2. \A x \in InTree' : (IF x = Null THEN Null ELSE Node(x)'.next) =
                          IF x = f THEN Null ELSE IF x # Null /\ x = En[p] THEN f ELSE Nx[x]
    BY <1>4, <1>11, <1>14, <1>15, <1>t
  <2> QED BY <2>1, <2>2
<1>20. Pv' = [x \in InTree' |-> IF x = f THEN En[p] ELSE Pv[x]]
  <2>1. Pv' = [x \in InTree' |-> IF x = Null THEN Null ELSE Node(x)'.prev]
    BY <1>15 DEF Pv
  <2>2. \A x \in InTree' : (IF x = Null THEN Null ELSE Node(x)'.prev) = IF x = f THEN En[p] ELSE Pv[x]
    BY <1>4, <1>11, <1>14, <1>15, <1>t
  <2> QED BY <2>1, <2>2
<1>21. LinkedWith(InTree, Par, Ch, En, Nx, Pv, f, p, InTree', Par', Ch', En', Nx', Pv')
  BY <1>11, <1>16, <1>17, <1>18, <1>19, <1>20 DEF LinkedWith
<1>22. LinkInv'
  <2>1. PICK rk : Forest(InTree, Par, Ch, En, Nx, Pv, rk)
    BY DEF LinkInv
  <2>2. \E rk2 : Forest(InTree', Par', Ch', En', Nx', Pv', rk2)
    BY <1>1, <1>11, <1>21, <2>1, ForestWith
  <2> QED BY <2>2 DEF LinkInv
<1>23. \A x \in Live : Node(x)'.kind = Node(x).kind
  <2> SUFFICES ASSUME NEW x \in Live PROVE A[x.index].kind = Node(x).kind
    BY <1>14
  <2>1. CASE x \in InTree
    BY <1>4, <2>1
  <2>2. CASE x \notin InTree
    <3>1. x.index # i0 /\ \A y \in InTree : y.index # x.index
      BY <1>2, <1>5, <2>2
    <3> QED BY <1>4, <1>5, <3>1
  <2> QED BY <2>1, <2>2
<1>24. Node(f)'.kind = kind
  BY <1>4, <1>14
<1> QED BY <1>1, <1>9, <1>11, <1>21, <1>22, <1>23, <1>24 DEF Made

(* What they do when the parent is no more. *)
LEMMA FailFacts ==
  ASSUME PoolInv, LinkInv, NEW kind \in Kinds, NEW p \in Handles, FailToAdd(kind, p),
         NEW f, f = FreshHandle
  PROVE  /\ Made(f) /\ LinkInv'
         /\ lost' = lost \cup {f} /\ InTree' = InTree
         /\ \A x \in InTree : Node(x)' = Node(x)
<1> DEFINE A == With(active, f.index, NewNode(kind))
<1>1. New /\ active' = A /\ lost' = lost \cup {f}
  BY DEF FailToAdd
<1>2. /\ DOMAIN A = DOMAIN active \cup {f.index} /\ A = [i \in DOMAIN A |-> A[i]]
      /\ A[f.index] = NewNode(kind)
      /\ \A i \in DOMAIN active : i # f.index => A[i] = active[i]
  BY DEF With
<1>3. NewNode(kind) \in Nodes
  BY NullIsHandle DEF NewNode, Nodes
<1> HIDE DEF A
<1>4. \A i \in DOMAIN active : /\ A[i] \in Nodes \cup {Hole}
                               /\ i # f.index => (A[i] = Hole <=> active[i] = Hole)
  BY <1>2, <1>3 DEF PoolInv
<1>5. /\ f \in Handles \ Live /\ f # Null
      /\ PoolInv' /\ Live' = Live \cup {f}
      /\ DOMAIN active' = DOMAIN active \cup {f.index}
      /\ active'[f.index] # Hole /\ generations'[f.index] = f.generation
      /\ \A i \in DOMAIN active : turns'[i] = turns[i]
      /\ \A i \in DOMAIN active :
           i # f.index => generations'[i] = generations[i] /\ (active'[i] = Hole <=> active[i] = Hole)
      /\ f.index \in DOMAIN active => active[f.index] = Hole /\ generations[f.index] = f.generation
  BY <1>1, <1>2, <1>3, <1>4, NewFacts
<1>6. InTree' = InTree
  BY <1>1, <1>5 DEF InTree
<1>7. \A x \in Live : Node(x)' = Node(x)
  <2> SUFFICES ASSUME NEW x \in Live PROVE A[x.index] = active[x.index]
    BY <1>1 DEF Node
  <2>1. x.index \in DOMAIN active /\ active[x.index] # Hole
    BY DEF Live, IsValid
  <2> QED BY <1>2, <1>5, <2>1
<1>8. InTree \subseteq Live /\ Null' = Null
  BY TreeFacts DEF Null
<1>9. Par' = Par /\ Ch' = Ch /\ En' = En
  BY <1>6, <1>7, <1>8 DEF Par, Ch, En
<1>10. Nx' = Nx /\ Pv' = Pv
  BY <1>6, <1>7, <1>8 DEF Nx, Pv
<1>11. LinkInv'
  BY <1>6, <1>9, <1>10 DEF LinkInv
<1> QED BY <1>1, <1>5, <1>6, <1>7, <1>8, <1>11 DEF Made

-----------------------------------------------------------------------------
(* Listeners and looks *)

States == {"Normal", "Hovered", "Pressed"}

Unused(h) ==
  \/ h.index \notin DOMAIN active
  \/ /\ turns[h.index] < Generations
     /\ \/ h.generation > generations[h.index]
        \/ h.generation = generations[h.index] /\ active[h.index] = Hole

Types ==
  /\ listeners \in [Handles -> Nat]
  /\ buttonState \in [Handles -> States]
  /\ layoutNodes \subseteq Handles /\ drawOrder \in Seq(Handles)
  /\ selected \in Handles \cup {Nobody} /\ lastSelected \in Handles \cup {Nobody}
  /\ ops \in 0 .. MaxOps
  /\ pc \in {"pump", "same", "over", "off", "draw", "panicked", "astray"}

NoListenersYet == \A h \in Handles : Unused(h) => listeners[h] = 0

ShownArePicked ==
  \A h \in Live : buttonState[h] # "Normal" =>
    /\ listeners[h] > 0 /\ Node(h).kind = "Button"
    /\ h = selected \/ (pc \in {"over", "panicked", "astray"} /\ h = lastSelected)

EventInv == Types /\ ListenersAreOwn /\ NoListenersYet /\ ShownArePicked

IInv == PoolInv /\ LinkInv /\ EventInv

LEMMA NobodyIsNoHandle == Nobody \notin Handles
BY NodesAssumption DEF Nobody, Handles, Indices

(* The root alone. *)
LEMMA InitFacts == Init => IInv
<1> SUFFICES ASSUME Init PROVE IInv
  OBVIOUS
<1>1. /\ active = [i \in {0} |-> NewNode("Slot")] /\ generations = [i \in {0} |-> 0] /\ dead = <<>>
      /\ lost = {} /\ turns = [i \in {0} |-> 0]
      /\ listeners = [h \in Handles |-> 0] /\ buttonState = [h \in Handles |-> "Normal"]
  BY DEF Init
<1>2. Null \in Handles /\ Null.index = 0 /\ Null.generation = 0 /\ \A h \in Handles : h.index = 0 /\ h.generation = 0 => h = Null
  BY NullIsHandle DEF Handles, Null
<1>3. NewNode("Slot") \in Nodes /\ NewNode("Slot") # Hole
  <2>1. NewNode("Slot") \in Nodes
    BY <1>2 DEF NewNode, Nodes
  <2> QED BY <2>1, NodesAreNoHoles
<1>4. /\ NewNode("Slot").kind = "Slot" /\ NewNode("Slot").parent = Null /\ NewNode("Slot").child = Null
      /\ NewNode("Slot").end = Null
  BY DEF NewNode
<1>l. Live = {Null}
  BY <1>1, <1>2, <1>3 DEF Live, IsValid
<1>5. InTree = {Null}
  BY <1>1, <1>l DEF InTree
<1>6. PoolInv
  <2>1. \E n \in 0 .. NumNodes : DOMAIN active = 0 .. n
    <3>1. {0} = 0 .. 0 /\ 0 \in 0 .. NumNodes
      BY NodesAssumption
    <3> QED BY <1>1, <3>1
  <2>2. generations \in [DOMAIN active -> 0 .. Generations - 1]
    BY <1>1, NodesAssumption
  <2>4. /\ turns \in [DOMAIN active -> Nat]
        /\ \A i \in DOMAIN active : turns[i] < Generations => generations[i] = turns[i]
    BY <1>1
  <2>3. DeadAreTheHoles /\ dead \in Seq(Indices)
    BY <1>1, <1>3 DEF DeadAreTheHoles, IsInjective, ToSet
  <2> QED BY <1>1, <1>3, <2>1, <2>2, <2>3, <2>4 DEF PoolInv
<1>7. LinkInv
  <2> DEFINE rk == [h \in InTree |-> 0]
  <2>1. Par = [h \in InTree |-> Null] /\ Ch = [h \in InTree |-> Null] /\ En = [h \in InTree |-> Null]
    BY <1>1, <1>2, <1>4, <1>5 DEF Par, Ch, En, Node
  <2>2. Nx = [h \in InTree |-> Null] /\ Pv = [h \in InTree |-> Null]
    BY <1>5 DEF Nx, Pv
  <2>3. Forest(InTree, Par, Ch, En, Nx, Pv, rk)
    BY <1>5, <2>1, <2>2 DEF Forest
  <2> QED BY <2>3 DEF LinkInv
<1>8. Types
  BY NodesAssumption DEF Init, Types, States
<1>9. ListenersAreOwn
  BY <1>1, <1>2, <1>4, <1>5, <1>l DEF ListenersAreOwn, Own, Node
<1>10. NoListenersYet
  BY <1>1 DEF NoListenersYet
<1>11. ShownArePicked
  BY <1>1, <1>2, <1>l DEF ShownArePicked
<1> QED BY <1>6, <1>7, <1>8, <1>9, <1>10, <1>11 DEF IInv, EventInv

(* The pool is left alone by every step but the game's. *)
LEMMA SamePool ==
  ASSUME UNCHANGED pool
  PROVE  /\ PoolInv => PoolInv'
         /\ LinkInv => LinkInv'
         /\ Live' = Live /\ InTree' = InTree /\ lost' = lost /\ turns' = turns
         /\ \A h : IsValid(h)' <=> IsValid(h)
         /\ \A h : Unused(h)' <=> Unused(h)
         /\ \A h : Node(h)' = Node(h)
<1>1. active' = active /\ generations' = generations /\ dead' = dead /\ lost' = lost /\ turns' = turns
  BY DEF pool
<1>3. /\ Live' = Live /\ InTree' = InTree
      /\ \A h : IsValid(h)' <=> IsValid(h)
      /\ \A h : Unused(h)' <=> Unused(h)
      /\ \A h : Node(h)' = Node(h)
  BY <1>1 DEF Live, IsValid, InTree, Unused, Node
<1>2. PoolInv => PoolInv'
  BY <1>1, <1>3 DEF PoolInv, DeadAreTheHoles, Null
<1>4. Par' = Par /\ Ch' = Ch /\ En' = En /\ Nx' = Nx /\ Pv' = Pv
  BY <1>1, <1>3 DEF Par, Ch, En, Nx, Pv, Node, Null
<1>5. LinkInv => LinkInv'
  BY <1>3, <1>4 DEF LinkInv
<1> QED BY <1>1, <1>2, <1>3, <1>5

(* Whose listeners change how a button looks: those of a button that is there. *)
Shown(g) == g \in Live /\ listeners[g] > 0 /\ Node(g).kind = "Button"

LEMMA ShowsFacts ==
  ASSUME Types, NEW g \in Handles \cup {Nobody}, NEW st \in States
  PROVE  /\ Shows(g, st) \in [Handles -> States]
         /\ \A h \in Handles : Shows(g, st)[h] = IF h = g /\ Shown(g) THEN st ELSE buttonState[h]
<1>1. buttonState \in [Handles -> States]
  BY DEF Types
<1>2. CASE g = Nobody
  BY <1>1, <1>2, NobodyIsNoHandle DEF Shows, Hears
<1>3. CASE g \in Handles
  <2>1. g # Nobody
    BY <1>3, NobodyIsNoHandle
  <2>2. Hears(g) /\ ~Misdirected(g) <=> Shown(g)
    BY <1>3, <2>1 DEF Hears, Misdirected, Shown, Live
  <2> QED BY <1>1, <1>3, <2>2 DEF Shows
<1> QED BY <1>2, <1>3

(* Handlers add a node, which may fail... *)
LEMMA AddKeepsEvents ==
  ASSUME IInv, NEW kind \in Kinds, NEW p \in Handles, AddNode(kind, p) \/ FailToAdd(kind, p)
  PROVE  ListenersAreOwn' /\ NoListenersYet' /\ ShownArePicked'
         /\ listeners' \in [Handles -> Nat] /\ buttonState' \in [Handles -> States]
<1>1. PICK f : f = FreshHandle
  OBVIOUS
<1>2. /\ f \in Handles \ Live
      /\ Live' = Live \cup {f}
      /\ \A x \in Live : Node(x)'.kind = Node(x).kind
      /\ DOMAIN active' = DOMAIN active \cup {f.index}
      /\ active'[f.index] # Hole /\ generations'[f.index] = f.generation
      /\ \A i \in DOMAIN active : turns'[i] = turns[i]
      /\ \A i \in DOMAIN active :
           i # f.index => generations'[i] = generations[i] /\ (active'[i] = Hole <=> active[i] = Hole)
      /\ f.index \in DOMAIN active => active[f.index] = Hole /\ generations[f.index] = f.generation
  BY <1>1, AddFacts, FailFacts DEF IInv, Made
<1>3. /\ selected' = selected /\ lastSelected' = lastSelected /\ pc' = pc
      /\ buttonState' = [buttonState EXCEPT ![f] = "Normal"]
  BY <1>1 DEF AddNode, FailToAdd, pick
<1>4. Types
  BY DEF IInv, EventInv
<1>5. Live \subseteq Handles /\ InTree \subseteq Live
  BY DEF Live, InTree
<1>6. /\ f.index \in DOMAIN active => turns'[f.index] = turns[f.index]
      /\ turns'[f.index] < Generations => listeners[f] = 0
  <2>1. turns'[f.index] < Generations => Unused(f)
    BY <1>2 DEF Unused
  <2> QED BY <1>2, <2>1 DEF IInv, EventInv, NoListenersYet
<1>7. /\ listeners'[f] = listeners[f] + Own(f)'
      /\ \A h \in Handles : h # f => listeners'[h] = listeners[h]
      /\ listeners' \in [Handles -> Nat]
  <2>1. CASE AddNode(kind, p)
    <3>1. listeners' = [listeners EXCEPT ![f] = IF kind = "Button" THEN @ + 1 ELSE @]
      BY <1>1, <2>1 DEF AddNode
    <3>2. Node(f)'.kind = kind /\ f \in InTree'
      BY <1>1, <2>1, AddFacts DEF IInv
    <3> QED BY <1>2, <1>4, <3>1, <3>2 DEF Own, Types
  <2>2. CASE FailToAdd(kind, p)
    <3>1. listeners' = listeners
      BY <2>2 DEF FailToAdd
    <3>2. f \notin InTree'
      BY <1>1, <1>2, <1>5, <2>2, FailFacts DEF IInv
    <3> QED BY <1>2, <1>4, <3>1, <3>2 DEF Own, Types
  <2> QED BY <2>1, <2>2
<1>o. \A h \in Live : h # f /\ Own(h)' = Own(h)
  <2>1. \A h \in Live : h # f /\ (h \in InTree' <=> h \in InTree)
    BY <1>1, <1>2, AddFacts, FailFacts DEF IInv
  <2> QED BY <1>2, <2>1 DEF Own
<1>8. /\ buttonState'[f] = "Normal"
      /\ \A h \in Handles : h # f => buttonState'[h] = buttonState[h]
      /\ buttonState' \in [Handles -> States]
  BY <1>2, <1>3, <1>4 DEF Types, States
<1>9. ListenersAreOwn'
  <2>1. \A h \in Live : /\ listeners'[h] >= Own(h)'
                        /\ turns'[h.index] < Generations => listeners'[h] = Own(h)'
    <3>1. \A h \in Live : h.index \in DOMAIN active /\ listeners'[h] = listeners[h]
      BY <1>5, <1>7, <1>o DEF Live, IsValid
    <3> QED BY <1>2, <1>o, <3>1 DEF IInv, EventInv, ListenersAreOwn
  <2>2. /\ listeners'[f] >= Own(f)'
        /\ turns'[f.index] < Generations => listeners'[f] = Own(f)'
    <3>1. listeners[f] \in Nat /\ Own(f)' \in Nat
      <4>1. Own(f)' \in Nat
        BY DEF Own
      <4> QED BY <1>2, <1>4, <4>1 DEF Types
    <3> QED BY <1>6, <1>7, <3>1
  <2> QED BY <1>2, <2>1, <2>2 DEF ListenersAreOwn
<1>10. NoListenersYet'
  <2> SUFFICES ASSUME NEW h \in Handles, Unused(h)' PROVE listeners'[h] = 0
    BY DEF NoListenersYet
  <2>1. h # f
    BY <1>2 DEF Unused, Handles
  <2>2. Unused(h)
    BY <1>2 DEF Unused
  <2> QED BY <1>7, <2>1, <2>2 DEF IInv, EventInv, NoListenersYet
<1>11. ShownArePicked'
  <2> SUFFICES ASSUME NEW h \in Live', buttonState'[h] # "Normal"
               PROVE  /\ listeners'[h] > 0 /\ Node(h)'.kind = "Button"
                      /\ h = selected' \/ (pc' \in {"over", "panicked", "astray"} /\ h = lastSelected')
    BY DEF ShownArePicked
  <2>1. h \in Live /\ h # f /\ buttonState[h] # "Normal"
    BY <1>2, <1>5, <1>8
  <2> QED BY <1>2, <1>3, <1>5, <1>7, <2>1 DEF IInv, EventInv, ShownArePicked
<1> QED BY <1>7, <1>8, <1>9, <1>10, <1>11

(* ... and remove one. *)
LEMMA RemoveKeepsEvents ==
  ASSUME IInv, NEW g \in Handles, RemoveNode(g)
  PROVE  ListenersAreOwn' /\ NoListenersYet' /\ ShownArePicked'
         /\ listeners' \in [Handles -> Nat] /\ buttonState' \in [Handles -> States]
<1> DEFINE K == ToSet(KillList(g))
<1>1. /\ g \in InTree /\ g # Null /\ g \in K /\ K \subseteq InTree
      /\ Live' = Live \ K /\ InTree' = InTree \ K
      /\ \A x \in Live' : Node(x)'.kind = Node(x).kind
      /\ DOMAIN active' = DOMAIN active
      /\ \A i \in DOMAIN active :
           IF \E x \in K : x.index = i
           THEN generations'[i] = NextGeneration(generations[i]) /\ turns'[i] = turns[i] + 1
           ELSE /\ active'[i] = Hole <=> active[i] = Hole
                /\ generations'[i] = generations[i] /\ turns'[i] = turns[i]
  BY RemoveFacts DEF IInv
<1>3. /\ listeners' = [listeners EXCEPT ![g] = 0]
      /\ buttonState' = [x \in Handles |-> IF x \in K THEN "Normal" ELSE buttonState[x]]
      /\ selected' = selected /\ lastSelected' = lastSelected /\ pc' = pc
  BY DEF RemoveNode, pick
<1> HIDE DEF K
<1>4. Types
  BY DEF IInv, EventInv
<1>5. Live \subseteq Handles /\ InTree \subseteq Live
  BY DEF Live, InTree
<1>6. /\ listeners' \in [Handles -> Nat] /\ listeners'[g] = 0
      /\ \A h \in Handles : h # g => listeners'[h] = listeners[h]
      /\ buttonState' \in [Handles -> States]
      /\ \A h \in Handles : h \notin K => buttonState'[h] = buttonState[h]
  BY <1>3, <1>4 DEF Types, States
<1>7. ListenersAreOwn'
  <2> SUFFICES ASSUME NEW h \in Live'
               PROVE  /\ listeners'[h] >= Own(h)'
                      /\ turns'[h.index] < Generations => listeners'[h] = Own(h)'
    BY DEF ListenersAreOwn
  <2>1. h \in Live /\ h \notin K /\ listeners'[h] = listeners[h]
    BY <1>1, <1>5, <1>6
  <2>2. Own(h)' = Own(h)
    BY <1>1, <2>1 DEF Own
  <2>3. turns'[h.index] = turns[h.index]
    <3>1. h.index \in DOMAIN active /\ \A x \in K : x.index # h.index
      BY <1>1, <1>5, <2>1, LiveFacts DEF IInv
    <3> QED BY <1>1, <3>1
  <2> QED BY <2>1, <2>2, <2>3 DEF IInv, EventInv, ListenersAreOwn
<1>8. NoListenersYet'
  <2> SUFFICES ASSUME NEW h \in Handles, Unused(h)' PROVE listeners'[h] = 0
    BY DEF NoListenersYet
  <2>1. \A i \in DOMAIN active : /\ generations[i] \in Nat /\ turns[i] \in Nat
                                 /\ turns[i] < Generations => generations[i] = turns[i]
    BY NodesAssumption DEF IInv, PoolInv
  <2>2. h.generation \in Nat /\ Generations \in Nat
    BY NodesAssumption DEF Handles
  <2>3. Unused(h)
    <3>1. CASE h.index \in DOMAIN active /\ \E x \in K : x.index = h.index
      <4>1. turns[h.index] + 1 < Generations
        BY <1>1, <3>1 DEF Unused
      <4>2. generations[h.index] < Generations - 1
        BY <2>1, <2>2, <3>1, <4>1
      <4>3. generations'[h.index] = generations[h.index] + 1
        BY <1>1, <2>1, <2>2, <3>1, <4>2 DEF NextGeneration
      <4>4. h.generation > generations[h.index]
        BY <1>1, <2>1, <2>2, <3>1, <4>3 DEF Unused
      <4> QED BY <2>1, <2>2, <3>1, <4>1, <4>4 DEF Unused
    <3>2. CASE ~(h.index \in DOMAIN active /\ \E x \in K : x.index = h.index)
      BY <1>1, <3>2 DEF Unused
    <3> QED BY <3>1, <3>2
  <2> QED BY <1>6, <2>3 DEF IInv, EventInv, NoListenersYet
<1>9. ShownArePicked'
  <2> SUFFICES ASSUME NEW h \in Live', buttonState'[h] # "Normal"
               PROVE  /\ listeners'[h] > 0 /\ Node(h)'.kind = "Button"
                      /\ h = selected' \/ (pc' \in {"over", "panicked", "astray"} /\ h = lastSelected')
    BY DEF ShownArePicked
  <2>1. h \in Live /\ h \notin K /\ h # g /\ buttonState[h] # "Normal"
    BY <1>1, <1>5, <1>6
  <2> QED BY <1>1, <1>3, <1>5, <1>6, <2>1 DEF IInv, EventInv, ShownArePicked
<1> QED BY <1>6, <1>7, <1>8, <1>9

(* What a step must keep when it leaves the pool and the listeners alone. *)
LEMMA KeepsIfShown ==
  ASSUME IInv, UNCHANGED pool, listeners' = listeners, Types', ShownArePicked'
  PROVE  IInv'
<1>1. /\ PoolInv' /\ LinkInv' /\ Live' = Live /\ InTree' = InTree /\ turns' = turns
      /\ \A h : Unused(h)' <=> Unused(h)
      /\ \A h : Node(h)' = Node(h)
  BY SamePool DEF IInv
<1>2. ListenersAreOwn'
  BY <1>1 DEF IInv, EventInv, ListenersAreOwn, Own
<1>3. NoListenersYet'
  BY <1>1 DEF IInv, EventInv, NoListenersYet
<1> QED BY <1>1, <1>2, <1>3 DEF IInv, EventInv

(* One step of each kind. *)
LEMMA GameStep ==
  ASSUME IInv, Game
  PROVE  IInv'
<1>1. GoAstray \/ \E h \in Handles : (\E kind \in Kinds : AddNode(kind, h) \/ FailToAdd(kind, h)) \/ RemoveNode(h)
  BY DEF Game, Kept, InTree, Live
<1>2. ops' \in 0 .. MaxOps
  BY NodesAssumption DEF Game, IInv, EventInv, Types
<1> DEFINE Held ==
             /\ PoolInv' /\ LinkInv' /\ ListenersAreOwn' /\ NoListenersYet' /\ ShownArePicked'
             /\ listeners' \in [Handles -> Nat] /\ buttonState' \in [Handles -> States]
             /\ UNCHANGED <<layout, pick, pc>>
<1>3. ASSUME NEW h \in Handles, NEW kind \in Kinds, AddNode(kind, h) \/ FailToAdd(kind, h)
      PROVE  Held
  <2>1. PICK f : f = FreshHandle
    OBVIOUS
  <2>2. PoolInv' /\ LinkInv'
    BY <1>3, <2>1, AddFacts, FailFacts DEF IInv, Made
  <2>3. UNCHANGED <<layout, pick, pc>>
    BY <1>3 DEF AddNode, FailToAdd
  <2> QED BY <1>3, <2>2, <2>3, AddKeepsEvents
<1>4. ASSUME NEW h \in Handles, RemoveNode(h)
      PROVE  Held
  <2>1. UNCHANGED <<layout, pick, pc>>
    BY <1>4 DEF RemoveNode
  <2> QED BY <1>4, <2>1, RemoveFacts, RemoveKeepsLinks, RemoveKeepsEvents DEF IInv
<1>5. CASE Held
  <2>1. Types'
    BY <1>2, <1>5 DEF IInv, EventInv, Types, layout, pick
  <2> QED BY <1>5, <2>1 DEF IInv, EventInv
<1>6. CASE GoAstray
  <2>1. /\ UNCHANGED <<pool, listeners, buttonState, layout, pick>>
        /\ pc' = "astray"
    BY <1>6 DEF GoAstray, events
  <2>2. Live' = Live /\ \A h : Node(h)' = Node(h)
    BY <2>1, SamePool
  <2>3. Types'
    BY <1>2, <2>1 DEF IInv, EventInv, Types, layout, pick
  <2>4. ShownArePicked'
    BY <2>1, <2>2 DEF IInv, EventInv, ShownArePicked, pick
  <2> QED BY <2>1, <2>3, <2>4, KeepsIfShown
<1> QED BY <1>1, <1>3, <1>4, <1>5, <1>6

-----------------------------------------------------------------------------
(* The steps and the theorems *)

LEMMA OnKeyStep ==
  ASSUME IInv, NEW state \in {"Pressed", "Hovered"}, OnKey(state)
  PROVE  IInv'
<1>1. /\ UNCHANGED pool /\ listeners' = listeners /\ UNCHANGED <<layout, pick, ops>>
      /\ pc = "pump" /\ selected # Nobody /\ pc' \in {"pump", "panicked"}
      /\ buttonState' = Shows(selected, state)
  BY DEF OnKey
<1>2. Types /\ ShownArePicked /\ state \in States
  BY DEF IInv, EventInv, States
<1>3. selected \in Handles
  BY <1>1, <1>2 DEF Types
<1>4. Live' = Live /\ Live \subseteq Handles /\ \A h : Node(h)' = Node(h)
  BY <1>1, SamePool DEF Live
<1>5. /\ buttonState' \in [Handles -> States]
      /\ \A h \in Handles : buttonState'[h] = IF h = selected /\ Shown(selected) THEN state ELSE buttonState[h]
  BY <1>1, <1>2, <1>3, ShowsFacts
<1>6. Types'
  BY <1>1, <1>2, <1>5 DEF Types, layout, pick
<1>7. ShownArePicked'
  BY <1>1, <1>2, <1>4, <1>5 DEF ShownArePicked, Shown, pick
<1> QED BY <1>1, <1>6, <1>7, KeepsIfShown

LEMMA PickStep ==
  ASSUME IInv, NEW target \in layoutNodes \cup {Nobody}, Pick(target)
  PROVE  IInv'
<1> DEFINE now == Valid(target)
<1>1. /\ UNCHANGED pool /\ listeners' = listeners /\ UNCHANGED <<layout, ops>>
      /\ pc = "pump" /\ selected' = now
      /\ lastSelected' = IF now \in {selected, Nobody} THEN Nobody ELSE selected
      /\ buttonState' = Shows(FirstTold(now), IF now = Nobody THEN "Normal" ELSE "Hovered")
      /\ pc' = IF Misdirected(FirstTold(now)) THEN "panicked" ELSE AfterFirst(now)
  BY DEF Pick
<1>2. Types /\ ShownArePicked /\ "Normal" \in States /\ "Hovered" \in States
  BY DEF IInv, EventInv, States
<1>3. selected \in Handles \cup {Nobody} /\ now \in Handles \cup {Nobody} /\ buttonState \in [Handles -> States]
  BY <1>2 DEF Types, Valid
<1>4. Live' = Live /\ Live = {h \in Handles : IsValid(h)} /\ \A h : Node(h)' = Node(h)
  BY <1>1, SamePool DEF Live
<1> HIDE DEF now
<1>f. FirstTold(now) \in Handles \cup {Nobody} /\ pc' \in {"same", "off", "over", "panicked"}
  BY <1>1, <1>3 DEF FirstTold, AfterFirst, Valid
<1>s. /\ buttonState' \in [Handles -> States]
      /\ \A h \in Handles : buttonState'[h] =
           IF h = FirstTold(now) /\ Shown(FirstTold(now))
           THEN IF now = Nobody THEN "Normal" ELSE "Hovered" ELSE buttonState[h]
  <2> DEFINE st == IF now = Nobody THEN "Normal" ELSE "Hovered"
  <2>1. st \in States
    BY <1>2
  <2> HIDE DEF st
  <2>2. buttonState' = Shows(FirstTold(now), st)
    BY <1>1 DEF st
  <2>3. /\ buttonState' \in [Handles -> States]
        /\ \A h \in Handles : buttonState'[h] =
             IF h = FirstTold(now) /\ Shown(FirstTold(now)) THEN st ELSE buttonState[h]
    BY <1>2, <1>f, <2>1, <2>2, ShowsFacts
  <2> QED BY <2>3 DEF st
<1>5. ShownArePicked'
  <2> SUFFICES ASSUME NEW h \in Live, buttonState'[h] # "Normal"
               PROVE  /\ listeners[h] > 0 /\ Node(h).kind = "Button"
                      /\ h = now \/ (pc' \in {"over", "panicked", "astray"} /\ h = lastSelected')
    BY <1>1, <1>4 DEF ShownArePicked
  <2>0. buttonState[h] # "Normal" => listeners[h] > 0 /\ Node(h).kind = "Button" /\ h = selected
    BY <1>1, <1>2 DEF ShownArePicked
  <2>h. h \in Handles /\ h # Nobody /\ IsValid(h)
    BY <1>4, NobodyIsNoHandle
  <2>1. CASE now = selected
    <3>1. FirstTold(now) = Nobody
      BY <2>1 DEF FirstTold
    <3> QED BY <1>s, <2>0, <2>1, <2>h, <3>1
  <2>2. CASE now # selected /\ now = Nobody
    <3>1. FirstTold(now) = Valid(selected)
      BY <2>2 DEF FirstTold
    <3>2. h = selected => Valid(selected) = h
      BY <2>h DEF Valid
    <3>3. buttonState[h] # "Normal" => Shown(h) /\ h = FirstTold(now)
      BY <2>0, <3>1, <3>2 DEF Shown
    <3> QED BY <1>s, <2>2, <2>h, <3>3
  <2>3. CASE now # selected /\ now # Nobody
    <3>1. FirstTold(now) = now /\ AfterFirst(now) = "over" /\ lastSelected' = selected
      BY <1>1, <2>3 DEF FirstTold, AfterFirst
    <3>2. pc' \in {"over", "panicked"}
      BY <1>1, <3>1
    <3>3. CASE h = now /\ Shown(now)
      BY <3>3 DEF Shown
    <3>4. CASE ~(h = now /\ Shown(now))
      BY <1>s, <2>0, <2>h, <3>1, <3>2, <3>4
    <3> QED BY <3>3, <3>4
  <2> QED BY <2>1, <2>2, <2>3
<1>6. Types'
  BY <1>1, <1>2, <1>3, <1>f, <1>s DEF Types, layout
<1> QED BY <1>1, <1>5, <1>6, KeepsIfShown

LEMMA LeaveLastStep ==
  ASSUME IInv, LeaveLast
  PROVE  IInv'
<1> DEFINE g == Valid(lastSelected)
<1>1. /\ UNCHANGED pool /\ listeners' = listeners /\ UNCHANGED <<layout, selected, ops>>
      /\ pc = "over" /\ pc' \in {"off", "panicked"} /\ lastSelected' = Nobody
      /\ buttonState' = Shows(g, "Normal")
  BY DEF LeaveLast
<1>2. Types /\ ShownArePicked /\ "Normal" \in States
  BY DEF IInv, EventInv, States
<1>3. g \in Handles \cup {Nobody}
  BY <1>2 DEF Types, Valid
<1>4. Live' = Live /\ Live = {h \in Handles : IsValid(h)} /\ \A h : Node(h)' = Node(h)
  BY <1>1, SamePool DEF Live
<1>g. \A h \in Live : h = lastSelected => h = g
  BY <1>4, NobodyIsNoHandle DEF Valid
<1> HIDE DEF g
<1>5. /\ buttonState' \in [Handles -> States]
      /\ \A h \in Handles : buttonState'[h] = IF h = g /\ Shown(g) THEN "Normal" ELSE buttonState[h]
  BY <1>1, <1>2, <1>3, ShowsFacts
<1>6. Types'
  BY <1>1, <1>2, <1>5 DEF Types, layout
<1>7. ShownArePicked'
  <2> SUFFICES ASSUME NEW h \in Live, buttonState'[h] # "Normal"
               PROVE  listeners[h] > 0 /\ Node(h).kind = "Button" /\ h = selected
    BY <1>1, <1>4 DEF ShownArePicked
  <2>1. buttonState[h] # "Normal" /\ ~(h = g /\ Shown(g))
    BY <1>4, <1>5
  <2>2. listeners[h] > 0 /\ Node(h).kind = "Button" /\ (h = selected \/ h = lastSelected)
    BY <1>2, <2>1 DEF ShownArePicked
  <2> QED BY <1>g, <2>1, <2>2 DEF Shown
<1> QED BY <1>1, <1>6, <1>7, KeepsIfShown

LEMMA TickDebugStep ==
  ASSUME IInv, TickDebug
  PROVE  IInv'
<1>1. /\ UNCHANGED <<pool, listeners, buttonState, layout, pick, ops>>
      /\ pc \in {"same", "off"} /\ pc' \in {"panicked", "draw"}
  BY DEF TickDebug, events
<1>2. Types /\ ShownArePicked
  BY DEF IInv, EventInv
<1>3. Live' = Live /\ \A h : Node(h)' = Node(h)
  BY <1>1, SamePool
<1>4. Types' /\ ShownArePicked'
  BY <1>1, <1>2, <1>3 DEF Types, ShownArePicked, layout, pick
<1> QED BY <1>1, <1>4, KeepsIfShown

LEMMA DrawStep ==
  ASSUME IInv, MakeDrawList \/ SkipDraw
  PROVE  IInv'
<1>1. /\ UNCHANGED <<pool, listeners, buttonState, pick, ops>>
      /\ pc = "draw" /\ pc' = "pump"
  BY DEF MakeDrawList, SkipDraw, events
<1>2. Types /\ ShownArePicked
  BY DEF IInv, EventInv
<1>3. Live' = Live /\ InTree \subseteq Handles /\ \A h : Node(h)' = Node(h)
  BY <1>1, SamePool DEF Live, InTree
<1>4. layoutNodes' \subseteq Handles /\ drawOrder' \in Seq(Handles)
  <2>1. CASE SkipDraw
    BY <1>2, <2>1 DEF SkipDraw, layout, Types
  <2>2. CASE MakeDrawList
    <3>1. PoolInv /\ LinkInv
      BY DEF IInv
    <3>2. Root \in InTree /\ Ch[Root] \in InTree /\ Ch[Root] = Node(Root).child
      BY <3>1, TreeFacts, LinksOfTree DEF Root, Ch
    <3>3. Walk[Node(Root).child] \in Seq(InTree)
      BY <3>1, <3>2, WalkIs DEF IsWalk
    <3>4. drawOrder' \in Seq(InTree)
      BY <2>2, <3>3 DEF MakeDrawList
    <3>5. drawOrder' \in Seq(Handles)
      BY <1>3, <3>4
    <3>6. ToSet(drawOrder') \subseteq Handles
      BY <3>5 DEF ToSet
    <3> QED BY <2>2, <3>5, <3>6 DEF MakeDrawList
  <2> QED BY <2>1, <2>2
<1>5. Types'
  BY <1>1, <1>2, <1>4 DEF Types, pick
<1>6. ShownArePicked'
  BY <1>1, <1>2, <1>3 DEF ShownArePicked, pick
<1> QED BY <1>1, <1>5, <1>6, KeepsIfShown

(* The inductive invariant: the pool, the links, the listeners and looks. *)
LEMMA Invariance == Spec => []IInv
<1>1. IInv /\ [Next]_vars => IInv'
  <2> SUFFICES ASSUME IInv, [Next]_vars PROVE IInv'
    OBVIOUS
  <2>1. CASE Game
    BY <2>1, GameStep
  <2>2. CASE \E state \in {"Pressed", "Hovered"} : OnKey(state)
    BY <2>2, OnKeyStep
  <2>3. CASE \E target \in layoutNodes \cup {Nobody} : Pick(target)
    BY <2>3, PickStep
  <2>4. CASE LeaveLast
    BY <2>4, LeaveLastStep
  <2>5. CASE TickDebug
    BY <2>5, TickDebugStep
  <2>6. CASE MakeDrawList \/ SkipDraw
    BY <2>6, DrawStep
  <2>7. CASE UNCHANGED vars
    <3>1. UNCHANGED <<pool, listeners, buttonState, layout, pick, ops, pc>>
      BY <2>7 DEF vars, events
    <3>2. Live' = Live /\ \A h : Node(h)' = Node(h)
      BY <3>1, SamePool
    <3>3. Types' /\ ShownArePicked'
      BY <3>1, <3>2 DEF IInv, EventInv, Types, ShownArePicked, layout, pick
    <3> QED BY <3>1, <3>3, KeepsIfShown
  <2> QED BY <2>1, <2>2, <2>3, <2>4, <2>5, <2>6, <2>7 DEF Next
<1> QED BY InitFacts, <1>1, PTL DEF Spec

(* At every state the pool holds nodes and holes whose links are handles, and *)
(* listeners, looks, layout and pick are of handles it may give out.          *)
THEOREM TypeCorrect == Spec => []TypeOK
<1>1. IInv => TypeOK
  <2> SUFFICES ASSUME IInv PROVE TypeOK
    OBVIOUS
  <2>1. DOMAIN active \subseteq Indices /\ DOMAIN generations = DOMAIN active
    <3>1. PICK n \in 0 .. NumNodes : DOMAIN active = 0 .. n
      BY DEF IInv, PoolInv
    <3> QED BY <3>1, NodesAssumption DEF IInv, PoolInv, Indices
  <2>2. \A i \in DOMAIN active :
          active[i] # Hole => active[i].kind \in Kinds \cup {"Slot"} /\ Links(active[i]) \subseteq Handles
    BY DEF IInv, PoolInv, Nodes, Links
  <2>3. /\ \A i \in DOMAIN generations : generations[i] \in 0 .. Generations - 1
        /\ dead \in Seq(Indices) /\ lost \subseteq Live /\ turns \in [DOMAIN active -> Nat]
    BY DEF IInv, PoolInv
  <2>4. Types
    BY DEF IInv, EventInv
  <2> QED BY <2>1, <2>2, <2>3, <2>4 DEF TypeOK, Types, States
<1> QED BY Invariance, <1>1, PTL

(* The indices to give out again are the holes of the pool, each once: no two *)
(* nodes are ever made at one index.                                          *)
THEOREM DeadAreHoles == Spec => []DeadAreTheHoles
<1>1. IInv => DeadAreTheHoles
  BY DEF IInv, PoolInv
<1> QED BY Invariance, <1>1, PTL

(* The children of every node of the tree are a doubly linked list, and no    *)
(* link leads to a node that was removed or that an add has failed to link,   *)
(* for any number of nodes and generations.                                   *)
THEOREM ChildrenStayLinked == Spec => []ChildrenAreLinked
<1>1. IInv => ChildrenAreLinked
  <2> SUFFICES ASSUME IInv, NEW h \in InTree
               PROVE  LET n == Node(h)
                      IN  /\ {n.parent, n.child, n.end} \subseteq InTree
                          /\ (n.child = Null) <=> (n.end = Null)
                          /\ n.child # Null => Node(n.child).prev = Null
                          /\ n.end # Null => Node(n.end).next = Null
                          /\ h # Root =>
                               /\ {n.next, n.prev} \subseteq InTree
                               /\ n.next # Null => Node(n.next).prev = h /\ Node(n.next).parent = n.parent
                               /\ n.next = Null => Node(n.parent).end = h
                               /\ n.prev = Null => Node(n.parent).child = h
    BY DEF ChildrenAreLinked
  <2>1. PICK rk : Forest(InTree, Par, Ch, En, Nx, Pv, rk)
    BY DEF IInv, LinkInv
  <2>2. /\ \A x \in InTree : Par[x] = Node(x).parent /\ Ch[x] = Node(x).child /\ En[x] = Node(x).end
        /\ \A x \in InTree : x # Null => Nx[x] = Node(x).next /\ Pv[x] = Node(x).prev
        /\ Root = Null
    BY DEF Par, Ch, En, Nx, Pv, Root
  <2>3. Par[h] \in InTree /\ Ch[h] \in InTree /\ En[h] \in InTree /\ Nx[h] \in InTree /\ Pv[h] \in InTree
    BY <2>1 DEF Forest
  <2>4. /\ (Ch[h] = Null) <=> (En[h] = Null)
        /\ Ch[h] # Null => Pv[Ch[h]] = Null
        /\ En[h] # Null => Nx[En[h]] = Null
        /\ h # Null =>
             /\ Nx[h] # Null => Pv[Nx[h]] = h /\ Par[Nx[h]] = Par[h]
             /\ Nx[h] = Null => En[Par[h]] = h
             /\ Pv[h] = Null => Ch[Par[h]] = h
    BY <2>1 DEF Forest
  <2> QED BY <2>2, <2>3, <2>4
<1> QED BY Invariance, <1>1, PTL

(* Every button of the tree has its own listeners, and until the generations  *)
(* of its index have come round, 256 removals there, no node has any others,  *)
(* whatever listeners removed nodes have left behind.                         *)
THEOREM OwnListeners == Spec => []ListenersAreOwn
<1>1. IInv => ListenersAreOwn
  BY DEF IInv, EventInv
<1> QED BY Invariance, <1>1, PTL

(* Once the mouse events of a tick are delivered no node but the one under    *)
(* the mouse looks hovered or pressed.                                        *)
THEOREM OneNodeShows == Spec => []OnlySelectedShows
<1>1. IInv => OnlySelectedShows
  BY DEF IInv, EventInv, ShownArePicked, OnlySelectedShows
<1> QED BY Invariance, <1>1, PTL

-----------------------------------------------------------------------------
(* Lists of siblings *)

(* s lists x and what follows it by next. *)
Chain(L, nx, x, s) ==
  /\ s \in Seq(L)
  /\ x = Null => s = <<>>
  /\ x # Null => s # <<>> /\ s[1] = x
  /\ \A k \in 1 .. Len(s) : s[k] # Null /\ nx[s[k]] = IF k < Len(s) THEN s[k + 1] ELSE Null

(* There is only one such list. *)
LEMMA ChainPrefix ==
  ASSUME NEW L, NEW nx, NEW x, NEW s, Chain(L, nx, x, s), NEW t, Chain(L, nx, x, t)
  PROVE  \A k \in 1 .. Len(s) : k <= Len(t) /\ s[k] = t[k]
<1> DEFINE T == {n \in Nat : n + 1 <= Len(s) => n + 1 <= Len(t) /\ s[n + 1] = t[n + 1]}
<1>1. s \in Seq(L) /\ t \in Seq(L) /\ Len(s) \in Nat /\ Len(t) \in Nat
  BY DEF Chain
<1>2. 0 \in T
  <2> SUFFICES ASSUME 1 <= Len(s) PROVE 1 <= Len(t) /\ s[1] = t[1]
    OBVIOUS
  <2>1. s # <<>>
    BY <1>1
  <2>2. x # Null /\ s[1] = x
    BY <2>1 DEF Chain
  <2>3. t # <<>> /\ t[1] = x
    BY <2>2 DEF Chain
  <2> QED BY <1>1, <2>2, <2>3
<1>3. ASSUME NEW n \in Nat, n \in T PROVE n + 1 \in T
  <2> SUFFICES ASSUME (n + 1) + 1 <= Len(s) PROVE (n + 1) + 1 <= Len(t) /\ s[(n + 1) + 1] = t[(n + 1) + 1]
    OBVIOUS
  <2>1. n + 1 \in 1 .. Len(s) /\ n + 1 < Len(s) /\ (n + 1) + 1 \in 1 .. Len(s)
    BY <1>1
  <2>2. nx[s[n + 1]] = s[(n + 1) + 1] /\ s[(n + 1) + 1] # Null
    BY <2>1 DEF Chain
  <2>3. n + 1 \in 1 .. Len(t) /\ s[n + 1] = t[n + 1]
    BY <1>1, <1>3, <2>1
  <2>4. nx[t[n + 1]] = IF n + 1 < Len(t) THEN t[(n + 1) + 1] ELSE Null
    BY <2>3 DEF Chain
  <2>5. n + 1 < Len(t) /\ t[(n + 1) + 1] = s[(n + 1) + 1]
    BY <2>2, <2>3, <2>4
  <2> QED BY <1>1, <2>5
<1> HIDE DEF T
<1>4. Nat \subseteq T
  BY <1>2, <1>3, Induction
<1>5. ASSUME NEW k \in 1 .. Len(s) PROVE k <= Len(t) /\ s[k] = t[k]
  <2>1. k - 1 \in T /\ (k - 1) + 1 = k /\ k <= Len(s)
    BY <1>1, <1>4
  <2> QED BY <2>1 DEF T
<1> QED BY <1>5

LEMMA ChainUnique ==
  ASSUME NEW L, NEW nx, NEW x, NEW s, Chain(L, nx, x, s), NEW t, Chain(L, nx, x, t)
  PROVE  s = t
<1>1. s \in Seq(L) /\ t \in Seq(L) /\ Len(s) \in Nat /\ Len(t) \in Nat
  BY DEF Chain
<1>2. \A k \in 1 .. Len(s) : k <= Len(t) /\ s[k] = t[k]
  BY ChainPrefix
<1>3. \A k \in 1 .. Len(t) : k <= Len(s)
  BY ChainPrefix
<1>4. Len(s) = Len(t)
  <2>1. Len(s) # 0 => Len(s) \in 1 .. Len(s)
    BY <1>1
  <2>2. Len(t) # 0 => Len(t) \in 1 .. Len(t)
    BY <1>1
  <2> QED BY <1>1, <1>2, <1>3, <2>1, <2>2
<1> QED BY <1>1, <1>2, <1>4

(* A node before the list of those after it. *)
LEMMA ChainPrepend ==
  ASSUME NEW L, NEW nx, NEW x \in L, x # Null, NEW t, Chain(L, nx, nx[x], t)
  PROVE  Chain(L, nx, x, <<x>> \o t)
<1> DEFINE s == <<x>> \o t
<1>1. t \in Seq(L) /\ Len(t) \in Nat
  BY DEF Chain
<1>2. /\ s \in Seq(L) /\ Len(s) = Len(t) + 1 /\ s[1] = x
      /\ \A k \in 1 .. Len(t) : s[k + 1] = t[k]
  BY <1>1
<1> HIDE DEF s
<1>3. nx[x] = IF 1 < Len(s) THEN s[2] ELSE Null
  <2>1. CASE nx[x] = Null
    <3>1. Len(t) = 0
      BY <1>1, <2>1 DEF Chain
    <3> QED BY <1>2, <2>1, <3>1
  <2>2. CASE nx[x] # Null
    <3>1. t # <<>> /\ t[1] = nx[x]
      BY <2>2 DEF Chain
    <3>2. 1 \in 1 .. Len(t)
      BY <1>1, <3>1
    <3>3. s[1 + 1] = t[1] /\ 1 < Len(s)
      BY <1>1, <1>2, <3>2
    <3> QED BY <3>1, <3>3
  <2> QED BY <2>1, <2>2
<1>4. ASSUME NEW k \in 1 .. Len(s) PROVE s[k] # Null /\ nx[s[k]] = IF k < Len(s) THEN s[k + 1] ELSE Null
  <2>1. CASE k = 1
    BY <1>2, <1>3, <2>1
  <2>2. CASE k # 1
    <3> DEFINE m == k - 1
    <3>1. m \in 1 .. Len(t) /\ m + 1 = k /\ (k < Len(s) <=> m < Len(t))
      BY <1>1, <1>2, <2>2
    <3>2. t[m] # Null /\ nx[t[m]] = IF m < Len(t) THEN t[m + 1] ELSE Null
      BY <3>1 DEF Chain
    <3>3. s[k] = t[m]
      BY <1>2, <3>1
    <3>4. m < Len(t) => m + 1 \in 1 .. Len(t) /\ s[k + 1] = t[m + 1]
      BY <1>1, <1>2, <3>1
    <3> HIDE DEF m
    <3> QED BY <3>1, <3>2, <3>3, <3>4
  <2> QED BY <2>1, <2>2
<1>5. s # <<>>
  BY <1>1, <1>2
<1>6. Chain(L, nx, x, s)
  BY <1>2, <1>4, <1>5 DEF Chain
<1> QED BY <1>6 DEF s

(* Lists of what follows each node. *)
IsList(L, nx, w) ==
  /\ w \in [L -> Seq(L)]
  /\ \A x \in L : w[x] = IF x = Null THEN <<>> ELSE <<x>> \o w[nx[x]]

LEMMA ListExists ==
  ASSUME NEW L, NEW par, NEW ch, NEW en, NEW nx, NEW pv, NEW rk, Forest(L, par, ch, en, nx, pv, rk)
  PROVE  \E w : IsList(L, nx, w)
<1> DEFINE none == [x \in L |-> Null]
<1>1. Null \in L /\ nx \in [L -> L] /\ rk \in [L -> Nat]
  BY DEF Forest
<1>2. \A x \in L : none[x] = Null
  OBVIOUS
<1>3. none \in [L -> L]
  BY <1>1
<1> HIDE DEF none
<1>4. Falls(L, none, nx, rk)
  BY <1>1, <1>2, <1>3, ForestFalls DEF Falls
<1>5. PICK w : IsWalk(L, none, nx, w)
  BY <1>4, WalkExists
<1>6. ASSUME NEW x \in L PROVE w[x] = IF x = Null THEN <<>> ELSE <<x>> \o w[nx[x]]
  <2>1. w[x] = IF x = Null THEN <<>> ELSE (<<x>> \o w[Null]) \o w[nx[x]]
    BY <1>2, <1>5 DEF IsWalk
  <2>2. w[Null] = <<>>
    BY <1>1, <1>5 DEF IsWalk
  <2>3. <<x>> \o << >> = <<x>>
    OBVIOUS
  <2> QED BY <2>1, <2>2, <2>3
<1>7. IsList(L, nx, w)
  BY <1>5, <1>6 DEF IsList, IsWalk
<1> QED BY <1>7

LEMMA ListIsChain ==
  ASSUME NEW L, NEW par, NEW ch, NEW en, NEW nx, NEW pv, NEW rk, Forest(L, par, ch, en, nx, pv, rk),
         NEW w, IsList(L, nx, w)
  PROVE  \A x \in L : Chain(L, nx, x, w[x])
<1> DEFINE Q == {x \in L : Chain(L, nx, x, w[x])}
<1>1. Null \in L /\ nx \in [L -> L] /\ rk \in [L -> Nat]
  BY DEF Forest
<1>2. Chain(L, nx, Null, w[Null])
  <2>1. w[Null] = <<>>
    BY <1>1 DEF IsList
  <2>2. << >> \in Seq(L) /\ Len(<< >>) = 0
    OBVIOUS
  <2> QED BY <2>1, <2>2 DEF Chain
<1>3. ASSUME NEW x \in L, \A y \in L : rk[y] < rk[x] => y \in Q PROVE x \in Q
  <2>1. CASE x = Null
    BY <1>2, <2>1
  <2>2. CASE x # Null
    <3>1. nx[x] \in L /\ (nx[x] = Null \/ rk[nx[x]] < rk[x])
      BY <1>1, <2>2, ForestFalls DEF Falls
    <3>2. Chain(L, nx, nx[x], w[nx[x]])
      BY <1>2, <1>3, <3>1
    <3>3. Chain(L, nx, x, <<x>> \o w[nx[x]])
      BY <2>2, <3>2, ChainPrepend
    <3> QED BY <2>2, <3>3 DEF IsList
  <2> QED BY <2>1, <2>2
<1> HIDE DEF Q
<1>4. L \subseteq Q
  BY <1>1, <1>3, RankInduction
<1> QED BY <1>4 DEF Q

(* Siblings have one parent; each is after the one before it. *)
LEMMA ChainMembers ==
  ASSUME NEW L, NEW par, NEW ch, NEW en, NEW nx, NEW pv, NEW rk, Forest(L, par, ch, en, nx, pv, rk),
         NEW x \in L, NEW s, Chain(L, nx, x, s)
  PROVE  /\ \A k \in 1 .. Len(s) : s[k] \in L \ {Null} /\ par[s[k]] = par[x]
         /\ \A j, k \in 1 .. Len(s) : j < k => rk[s[k]] < rk[s[j]]
         /\ IsInjective(s)
<1>1. s \in Seq(L) /\ Len(s) \in Nat /\ DOMAIN s = 1 .. Len(s)
  BY DEF Chain
<1>2. \A k \in 1 .. Len(s) : s[k] \in L \ {Null} /\ rk[s[k]] \in Nat
  BY <1>1 DEF Chain, Forest
<1>3. ASSUME NEW k \in 1 .. Len(s), k + 1 <= Len(s)
      PROVE  par[s[k + 1]] = par[s[k]] /\ rk[s[k + 1]] < rk[s[k]]
  <2>1. k < Len(s) /\ k + 1 \in 1 .. Len(s)
    BY <1>1, <1>3
  <2>2. nx[s[k]] = s[k + 1] /\ s[k + 1] # Null
    BY <2>1 DEF Chain
  <2>3. s[k] \in L /\ s[k] # Null
    BY <1>2
  <2> QED BY <2>2, <2>3 DEF Forest
<1>4. \A k \in 1 .. Len(s) : par[s[k]] = par[x]
  <2> DEFINE T == {n \in Nat : n + 1 <= Len(s) => par[s[n + 1]] = par[x]}
  <2>1. 0 \in T
    <3>1. 1 <= Len(s) => s[1] = x
      BY <1>1 DEF Chain
    <3> QED BY <3>1
  <2>2. ASSUME NEW n \in Nat, n \in T PROVE n + 1 \in T
    <3> SUFFICES ASSUME (n + 1) + 1 <= Len(s) PROVE par[s[(n + 1) + 1]] = par[x]
      OBVIOUS
    <3>1. n + 1 \in 1 .. Len(s)
      BY <1>1
    <3> QED BY <1>1, <1>3, <2>2, <3>1
  <2> HIDE DEF T
  <2>3. Nat \subseteq T
    BY <2>1, <2>2, Induction
  <2>4. ASSUME NEW k \in 1 .. Len(s) PROVE par[s[k]] = par[x]
    <3>1. k - 1 \in T /\ (k - 1) + 1 = k /\ k <= Len(s)
      BY <1>1, <2>3
    <3> QED BY <3>1 DEF T
  <2> QED BY <2>4
<1>5. \A j, k \in 1 .. Len(s) : j < k => rk[s[k]] < rk[s[j]]
  <2> SUFFICES ASSUME NEW j \in 1 .. Len(s) PROVE \A k \in 1 .. Len(s) : j < k => rk[s[k]] < rk[s[j]]
    OBVIOUS
  <2> DEFINE T == {n \in Nat : j + n + 1 <= Len(s) => rk[s[j + n + 1]] < rk[s[j]]}
  <2>1. 0 \in T
    BY <1>1, <1>3
  <2>2. ASSUME NEW n \in Nat, n \in T PROVE n + 1 \in T
    <3> SUFFICES ASSUME j + (n + 1) + 1 <= Len(s) PROVE rk[s[j + (n + 1) + 1]] < rk[s[j]]
      OBVIOUS
    <3> DEFINE m == j + n + 1
    <3>1. m \in 1 .. Len(s) /\ m + 1 \in 1 .. Len(s) /\ m + 1 = j + (n + 1) + 1 /\ m + 1 <= Len(s)
      BY <1>1
    <3>2. rk[s[m]] < rk[s[j]]
      BY <1>1, <2>2, <3>1
    <3> HIDE DEF m
    <3>3. rk[s[m + 1]] < rk[s[m]]
      BY <1>3, <3>1
    <3>4. rk[s[m + 1]] < rk[s[j]]
      BY <1>2, <3>1, <3>2, <3>3
    <3> QED BY <3>1, <3>4
  <2> HIDE DEF T
  <2>3. Nat \subseteq T
    BY <2>1, <2>2, Induction
  <2>4. ASSUME NEW k \in 1 .. Len(s), j < k PROVE rk[s[k]] < rk[s[j]]
    <3>1. k - j - 1 \in T /\ j + (k - j - 1) + 1 = k /\ k <= Len(s)
      BY <1>1, <2>3, <2>4
    <3> QED BY <3>1 DEF T
  <2> QED BY <2>4
<1>6. IsInjective(s)
  <2> SUFFICES ASSUME NEW j \in 1 .. Len(s), NEW k \in 1 .. Len(s), s[j] = s[k] PROVE j = k
    BY <1>1 DEF IsInjective
  <2>1. ~(j < k) /\ ~(k < j)
    BY <1>2, <1>5
  <2> QED BY <1>1, <2>1
<1> QED BY <1>2, <1>4, <1>5, <1>6

(* The list from a node's child holds all its children, its end last. *)
LEMMA ChildrenFacts ==
  ASSUME NEW L, NEW par, NEW ch, NEW en, NEW nx, NEW pv, NEW rk, Forest(L, par, ch, en, nx, pv, rk),
         NEW x \in L, NEW s, Chain(L, nx, ch[x], s)
  PROVE  /\ ToSet(s) = {y \in L \ {Null} : par[y] = x}
         /\ s # <<>> => s[Len(s)] = en[x]
         /\ IsInjective(s)
<1>1. s \in Seq(L) /\ Len(s) \in Nat /\ DOMAIN s = 1 .. Len(s)
  BY DEF Chain
<1>2. ch[x] \in L /\ rk \in [L -> Nat] /\ (ch[x] # Null => par[ch[x]] = x)
  BY DEF Forest
<1>3. /\ \A k \in 1 .. Len(s) : s[k] \in L \ {Null} /\ par[s[k]] = par[ch[x]]
      /\ IsInjective(s)
  BY <1>2, ChainMembers
<1>4. ch[x] = Null => Len(s) = 0
  BY DEF Chain
<1>5. \A k \in 1 .. Len(s) : par[s[k]] = x
  BY <1>2, <1>3, <1>4
<1> DEFINE M == {y \in L \ {Null} : par[y] = x}
           up == [y \in M |-> rk[x] - rk[y]]
           Q == {y \in M : y \in ToSet(s)}
<1>6. \A y \in M : rk[y] < rk[x] /\ rk[y] \in Nat /\ rk[x] \in Nat
  BY <1>2 DEF Forest
<1>7. up \in [M -> Nat]
  BY <1>6
<1>8. ASSUME NEW y \in M, \A z \in M : up[z] < up[y] => z \in Q PROVE y \in Q
  <2>1. y \in L /\ y # Null /\ par[y] = x
    OBVIOUS
  <2>2. CASE pv[y] = Null
    <3>1. ch[x] = y
      BY <2>1, <2>2 DEF Forest
    <3>2. s # <<>> /\ s[1] = y
      BY <2>1, <3>1 DEF Chain
    <3>3. 1 \in 1 .. Len(s)
      BY <1>1, <3>2
    <3> QED BY <1>1, <3>2, <3>3 DEF ToSet
  <2>3. CASE pv[y] # Null
    <3> DEFINE z == pv[y]
    <3>1. z \in L /\ nx[z] = y /\ par[z] = x /\ rk[y] < rk[z]
      BY <2>1, <2>3 DEF Forest
    <3>2. z \in M
      BY <2>3, <3>1
    <3> HIDE DEF z
    <3>3. up[z] < up[y]
      BY <1>6, <3>1, <3>2
    <3>4. z \in ToSet(s)
      BY <1>8, <3>2, <3>3
    <3>5. PICK k \in 1 .. Len(s) : s[k] = z
      BY <1>1, <3>4 DEF ToSet
    <3>6. k < Len(s) /\ s[k + 1] = y
      BY <2>1, <3>1, <3>5 DEF Chain
    <3>7. k + 1 \in DOMAIN s
      BY <1>1, <3>6
    <3> QED BY <3>6, <3>7 DEF ToSet
  <2> QED BY <2>2, <2>3
<1>9. M \subseteq Q
  <2> HIDE DEF M, up, Q
  <2> QED BY <1>7, <1>8, RankInduction
<1>10. ToSet(s) = M
  BY <1>1, <1>3, <1>5, <1>9 DEF ToSet
<1>11. ASSUME s # <<>> PROVE s[Len(s)] = en[x]
  <2>1. Len(s) \in 1 .. Len(s)
    BY <1>1, <1>11
  <2>2. nx[s[Len(s)]] = Null /\ s[Len(s)] \in L \ {Null} /\ par[s[Len(s)]] = x
    BY <1>1, <1>3, <1>5, <2>1 DEF Chain
  <2> QED BY <2>2 DEF Forest
<1> QED BY <1>3, <1>10, <1>11

(* A new last child comes at the end of its parent's list... *)
LEMMA ChildrenWith ==
  ASSUME NEW L, NEW par, NEW ch, NEW en, NEW nx, NEW pv, NEW rk, Forest(L, par, ch, en, nx, pv, rk),
         NEW f, f \notin L, NEW p \in L,
         NEW L2, NEW par2, NEW ch2, NEW en2, NEW nx2, NEW pv2,
         LinkedWith(L, par, ch, en, nx, pv, f, p, L2, par2, ch2, en2, nx2, pv2),
         NEW x \in L, NEW s, Chain(L, nx, ch[x], s)
  PROVE  Chain(L2, nx2, ch2[x], IF x = p THEN Append(s, f) ELSE s)
<1>1. s \in Seq(L) /\ Len(s) \in Nat /\ DOMAIN s = 1 .. Len(s)
  BY DEF Chain
<1>2. /\ ToSet(s) = {y \in L \ {Null} : par[y] = x}
      /\ s # <<>> => s[Len(s)] = en[x]
      /\ IsInjective(s)
  BY ChildrenFacts
<1>3. /\ L2 = L \cup {f} /\ f # Null
      /\ ch2[x] = IF x = p /\ ch[p] = Null THEN f ELSE ch[x]
      /\ nx2[f] = Null
      /\ \A y \in L : nx2[y] = IF y # Null /\ y = en[p] THEN f ELSE nx[y]
  BY DEF LinkedWith, Forest
<1>4. \A k \in 1 .. Len(s) : s[k] \in L \ {Null} /\ par[s[k]] = x
  BY <1>1, <1>2 DEF ToSet
<1>5. en[p] # Null => par[en[p]] = p
  BY DEF Forest
<1>6. s \in Seq(L2) /\ f \in L2
  <2>1. L \subseteq L2
    BY <1>3
  <2> QED BY <1>1, <1>3, <2>1
<1>7. CASE x # p
  <2>1. \A k \in 1 .. Len(s) : nx2[s[k]] = nx[s[k]]
    BY <1>3, <1>4, <1>5, <1>7
  <2> QED BY <1>3, <1>6, <1>7, <2>1 DEF Chain
<1>8. CASE x = p
  <2> DEFINE t == Append(s, f)
  <2>1. /\ t \in Seq(L2) /\ Len(t) = Len(s) + 1 /\ t[Len(s) + 1] = f
        /\ \A k \in 1 .. Len(s) : t[k] = s[k]
    BY <1>6
  <2> HIDE DEF t
  <2>2. ch2[x] # Null /\ t # <<>> /\ t[1] = ch2[x]
    <3>1. CASE ch[p] = Null
      <4>1. Len(s) = 0
        BY <1>8, <3>1 DEF Chain
      <4> QED BY <1>3, <1>8, <2>1, <3>1, <4>1
    <3>2. CASE ch[p] # Null
      <4>1. s # <<>> /\ s[1] = ch[p]
        BY <1>8, <3>2 DEF Chain
      <4>2. 1 \in 1 .. Len(s)
        BY <1>1, <4>1
      <4> QED BY <1>1, <1>3, <1>8, <2>1, <3>2, <4>1, <4>2
    <3> QED BY <3>1, <3>2
  <2>3. ASSUME NEW k \in 1 .. Len(t) PROVE t[k] # Null /\ nx2[t[k]] = IF k < Len(t) THEN t[k + 1] ELSE Null
    <3>1. CASE k = Len(s) + 1
      BY <1>3, <2>1, <3>1
    <3>2. CASE k # Len(s) + 1
      <4>1. k \in 1 .. Len(s) /\ t[k] = s[k] /\ k < Len(t)
        BY <1>1, <2>1, <3>2
      <4>2. s[k] \in L \ {Null}
        BY <1>4, <4>1
      <4>3. CASE k = Len(s)
        <5>1. s[k] = en[p]
          BY <1>1, <1>2, <1>8, <4>1, <4>3
        <5> QED BY <1>3, <2>1, <4>1, <4>2, <4>3, <5>1
      <4>4. CASE k # Len(s)
        <5> DEFINE n == Len(s)
        <5>0. n \in Nat /\ k \in 1 .. n /\ k # n
          BY <1>1, <4>1, <4>4
        <5>1. k < Len(s) /\ k + 1 \in 1 .. Len(s) /\ Len(s) \in 1 .. Len(s)
          <6> HIDE DEF n
          <6>1. k < n /\ k + 1 \in 1 .. n /\ n \in 1 .. n
            BY <5>0
          <6> QED BY <6>1 DEF n
        <5>2. s # <<>> /\ s[Len(s)] = en[p]
          BY <1>1, <1>2, <1>8, <5>1
        <5>3. s[k] # en[p]
          BY <1>1, <1>2, <4>1, <4>4, <5>1, <5>2 DEF IsInjective
        <5>4. nx[s[k]] = s[k + 1]
          BY <4>1, <5>1 DEF Chain
        <5> QED BY <1>3, <2>1, <4>1, <4>2, <5>1, <5>3, <5>4
      <4> QED BY <4>3, <4>4
    <3> QED BY <3>1, <3>2
  <2>4. Chain(L2, nx2, ch2[x], t)
    BY <2>1, <2>2, <2>3 DEF Chain
  <2> QED BY <1>8, <2>4 DEF t
<1> QED BY <1>7, <1>8

(* A sequence without one of its elements. *)
LEMMA RemoveAtFacts ==
  ASSUME NEW S, NEW s \in Seq(S), NEW m \in 1 .. Len(s)
  PROVE  /\ RemoveAt(s, m) \in Seq(S) /\ Len(RemoveAt(s, m)) = Len(s) - 1
         /\ \A k \in 1 .. Len(s) - 1 : RemoveAt(s, m)[k] = IF k < m THEN s[k] ELSE s[k + 1]
<1> DEFINE a == SubSeq(s, 1, m - 1)
           b == SubSeq(s, m + 1, Len(s))
<1>1. Len(s) \in Nat /\ m \in Nat /\ 1 <= m /\ m <= Len(s)
  OBVIOUS
<1>2. a \in Seq(S) /\ Len(a) = m - 1 /\ \A k \in 1 .. m - 1 : a[k] = s[k]
  BY <1>1
<1>3. b \in Seq(S) /\ Len(b) = Len(s) - m /\ \A k \in 1 .. Len(s) - m : b[k] = s[k + m]
  BY <1>1
<1>4. RemoveAt(s, m) = a \o b
  BY DEF RemoveAt
<1> HIDE DEF a, b
<1>5. a \o b \in Seq(S) /\ Len(a \o b) = Len(s) - 1
  <2>0. a \in Seq(S) /\ b \in Seq(S)
    BY <1>2, <1>3
  <2>1. a \o b \in Seq(S) /\ Len(a \o b) = Len(a) + Len(b)
    BY <2>0
  <2> DEFINE n == Len(s)
             i == Len(a)
             j == Len(b)
  <2>2. n \in Nat /\ m \in Nat /\ i = m - 1 /\ j = n - m
    BY <1>1, <1>2, <1>3
  <2>3. i + j = n - 1
    <3> HIDE DEF n, i, j
    <3> QED BY <2>2
  <2> QED BY <2>1, <2>3
<1>6. ASSUME NEW k \in 1 .. Len(s) - 1 PROVE (a \o b)[k] = IF k < m THEN s[k] ELSE s[k + 1]
  <2>1. CASE k < m
    BY <1>1, <1>2, <1>3, <2>1
  <2>2. CASE ~(k < m)
    <3>1. k - (m - 1) \in 1 .. Len(s) - m /\ (k - (m - 1)) + m = k + 1
      BY <1>1, <2>2
    <3>2. (a \o b)[k] = b[k - (m - 1)]
      BY <1>1, <1>2, <1>3, <2>2
    <3> QED BY <1>3, <2>2, <3>1, <3>2
  <2> QED BY <2>1, <2>2
<1> QED BY <1>4, <1>5, <1>6

(* ... and one that is taken away is missing from its own. *)
LEMMA ChildrenWithout ==
  ASSUME NEW L, NEW par, NEW ch, NEW en, NEW nx, NEW pv, NEW rk, Forest(L, par, ch, en, nx, pv, rk),
         NEW h \in L, h # Null, NEW K, TopOnly(L, par, ch, en, nx, pv, h, K),
         \A y \in K : y # h => par[y] \in K,
         NEW L2, NEW par2, NEW ch2, NEW en2, NEW nx2, NEW pv2,
         LinkedWithout(L, par, ch, en, nx, pv, h, K, L2, par2, ch2, en2, nx2, pv2),
         NEW x \in L2, NEW s, Chain(L, nx, ch[x], s)
  PROVE  Chain(L2, nx2, ch2[x], IF h \in ToSet(s) THEN RemoveAt(s, CHOOSE i \in DOMAIN s : s[i] = h) ELSE s)
<1>0. x \in L /\ x \notin K /\ L2 = L \ K /\ h \in K /\ K \subseteq L /\ Null \notin K
  BY DEF LinkedWithout, TopOnly
<1>1. s \in Seq(L) /\ Len(s) \in Nat /\ DOMAIN s = 1 .. Len(s)
  BY DEF Chain
<1>2. ToSet(s) = {y \in L \ {Null} : par[y] = x} /\ IsInjective(s)
  BY <1>0, ChildrenFacts
<1>3. /\ ch2[x] = IF x = par[h] /\ ch[x] = h THEN nx[h] ELSE ch[x]
      /\ \A y \in L2 : nx2[y] = IF y # Null /\ y = pv[h] THEN nx[h] ELSE nx[y]
  BY DEF LinkedWithout
<1>4. \A k \in 1 .. Len(s) : s[k] \in L \ {Null} /\ par[s[k]] = x
  BY <1>1, <1>2 DEF ToSet
<1>5. \A k \in 1 .. Len(s) : s[k] # h => s[k] \in L2
  BY <1>0, <1>4
<1>6. pv[h] # Null => par[pv[h]] = par[h] /\ nx[pv[h]] = h
  BY DEF Forest
<1>7. CASE h \notin ToSet(s)
  <2>1. x # par[h]
    BY <1>2, <1>7
  <2>2. \A k \in 1 .. Len(s) : s[k] \in L2 /\ nx2[s[k]] = nx[s[k]]
    <3>1. \A k \in 1 .. Len(s) : s[k] # h
      BY <1>1, <1>7 DEF ToSet
    <3> QED BY <1>3, <1>4, <1>5, <1>6, <2>1, <3>1
  <2>3. s \in Seq(L2)
    BY <1>1, <2>2
  <2>4. Chain(L2, nx2, ch2[x], s)
    BY <1>3, <2>1, <2>2, <2>3 DEF Chain
  <2> QED BY <1>7, <2>4
<1>8. CASE h \in ToSet(s)
  <2> DEFINE m == CHOOSE i \in DOMAIN s : s[i] = h
             t == RemoveAt(s, m)
  <2>1. m \in 1 .. Len(s) /\ s[m] = h
    BY <1>1, <1>8 DEF ToSet
  <2>2. x = par[h]
    BY <1>2, <1>8
  <2> HIDE DEF m
  <2>3. /\ t \in Seq(L) /\ Len(t) = Len(s) - 1
        /\ \A k \in 1 .. Len(s) - 1 : t[k] = IF k < m THEN s[k] ELSE s[k + 1]
    BY <1>1, <2>1, RemoveAtFacts
  <2> HIDE DEF t
  <2>4. nx[h] = IF m < Len(s) THEN s[m + 1] ELSE Null
    BY <2>1 DEF Chain
  <2>5. \A k \in 1 .. Len(s) : s[k] = h => k = m
    BY <1>1, <1>2, <2>1 DEF IsInjective
  <2>6. \A k \in 1 .. Len(t) : t[k] \in L2 \ {Null}
    <3> SUFFICES ASSUME NEW k \in 1 .. Len(t) PROVE t[k] \in L2 \ {Null}
      OBVIOUS
    <3>1. CASE k < m
      <4>1. k \in 1 .. Len(s) /\ t[k] = s[k] /\ k # m
        BY <1>1, <2>1, <2>3, <3>1
      <4> QED BY <1>4, <1>5, <2>5, <4>1
    <3>2. CASE ~(k < m)
      <4>1. k + 1 \in 1 .. Len(s) /\ t[k] = s[k + 1] /\ k + 1 # m
        BY <1>1, <2>1, <2>3, <3>2
      <4> QED BY <1>4, <1>5, <2>5, <4>1
    <3> QED BY <3>1, <3>2
  <2>7. t \in Seq(L2)
    BY <2>3, <2>6
  <2>8. \A k \in 1 .. Len(s) : s[k] = pv[h] <=> k + 1 = m
    <3> SUFFICES ASSUME NEW k \in 1 .. Len(s) PROVE s[k] = pv[h] <=> k + 1 = m
      OBVIOUS
    <3>1. nx[s[k]] = IF k < Len(s) THEN s[k + 1] ELSE Null
      BY DEF Chain
    <3>2. s[k] \in L /\ s[k] # Null
      BY <1>4
    <3>3. nx[s[k]] = h => pv[h] = s[k]
      BY <3>2 DEF Forest
    <3>4. ASSUME s[k] = pv[h] PROVE k + 1 = m
      <4>1. nx[s[k]] = h
        BY <1>6, <3>2, <3>4
      <4>2. k < Len(s) /\ s[k + 1] = h
        BY <3>1, <4>1
      <4>3. k + 1 \in 1 .. Len(s)
        BY <1>1, <4>2
      <4> QED BY <2>5, <4>2, <4>3
    <3>5. ASSUME k + 1 = m PROVE s[k] = pv[h]
      <4>1. k < Len(s) /\ s[k + 1] = h
        BY <1>1, <2>1, <3>5
      <4> QED BY <3>1, <3>3, <4>1
    <3> QED BY <3>4, <3>5
  <2>9. ASSUME NEW k \in 1 .. Len(t) PROVE nx2[t[k]] = IF k < Len(t) THEN t[k + 1] ELSE Null
    <3>1. t[k] \in L2 /\ t[k] # Null /\ nx2[t[k]] = IF t[k] = pv[h] THEN nx[h] ELSE nx[t[k]]
      BY <1>3, <2>6
    <3>2. CASE k + 1 < m
      <4>1. k \in 1 .. Len(s) /\ k < Len(s) /\ t[k] = s[k] /\ k < Len(t) /\ t[k + 1] = s[k + 1]
        BY <1>1, <2>1, <2>3, <3>2
      <4>2. s[k] # pv[h]
        BY <2>8, <3>2, <4>1
      <4>3. nx[s[k]] = s[k + 1]
        BY <4>1 DEF Chain
      <4> QED BY <3>1, <4>1, <4>2, <4>3
    <3>3. CASE k + 1 = m
      <4>1. k \in 1 .. Len(s) /\ t[k] = s[k] /\ (k < Len(t) <=> m < Len(s))
        BY <1>1, <2>1, <2>3, <3>3
      <4>2. k < Len(t) => t[k + 1] = s[m + 1]
        BY <1>1, <2>1, <2>3, <3>3
      <4>3. s[k] = pv[h]
        BY <2>8, <3>3, <4>1
      <4> QED BY <2>4, <3>1, <4>1, <4>2, <4>3
    <3>4. CASE k + 1 > m
      <4>1. k + 1 \in 1 .. Len(s) /\ t[k] = s[k + 1] /\ (k < Len(t) <=> k + 1 < Len(s)) /\ (k + 1) + 1 # m
        BY <1>1, <2>1, <2>3, <3>4
      <4>2. k < Len(t) => t[k + 1] = s[(k + 1) + 1]
        BY <1>1, <2>1, <2>3, <3>4
      <4>3. s[k + 1] # pv[h]
        BY <2>8, <4>1
      <4>4. nx[s[k + 1]] = IF k + 1 < Len(s) THEN s[(k + 1) + 1] ELSE Null
        BY <4>1 DEF Chain
      <4> QED BY <3>1, <4>1, <4>2, <4>3, <4>4
    <3> QED BY <1>1, <2>1, <2>3, <3>2, <3>3, <3>4
  <2>10. s # <<>> /\ s[1] = ch[x] /\ ch[x] # Null
    <3>1. s # <<>>
      BY <1>1, <2>1
    <3> QED BY <3>1 DEF Chain
  <2>11. /\ ch2[x] = Null => Len(t) = 0
         /\ ch2[x] # Null => Len(t) # 0 /\ t[1] = ch2[x]
    <3>1. CASE m = 1
      <4>1. ch2[x] = nx[h]
        BY <1>3, <2>1, <2>2, <2>10, <3>1
      <4>2. CASE 1 < Len(s)
        <5>1. s[2] # Null /\ nx[h] = s[2]
          BY <1>1, <1>4, <2>4, <3>1, <4>2
        <5> QED BY <1>1, <2>3, <3>1, <4>1, <4>2, <5>1
      <4>3. CASE ~(1 < Len(s))
        BY <1>1, <2>1, <2>3, <2>4, <3>1, <4>1, <4>3
      <4> QED BY <4>2, <4>3
    <3>2. CASE m # 1
      <4>1. 1 \in 1 .. Len(s) /\ 1 < m /\ Len(t) # 0 /\ t[1] = s[1]
        BY <1>1, <2>1, <2>3, <3>2
      <4>2. s[1] # h
        BY <2>5, <3>2, <4>1
      <4> QED BY <1>3, <2>10, <4>1, <4>2
    <3> QED BY <3>1, <3>2
  <2>12. Chain(L2, nx2, ch2[x], t)
    <3>1. Len(t) = 0 <=> t = <<>>
      BY <2>7
    <3> QED BY <2>6, <2>7, <2>9, <2>11, <3>1 DEF Chain
  <2> QED BY <1>8, <2>12 DEF t, m
<1> QED BY <1>7, <1>8

Inherits(L, par, S) == \A z \in L \ {Null} : par[z] \in S => z \in S

(* A set that has every node in it whose parent it has leaves out nothing a    *)
(* walk meets below its nodes.                                                 *)
LEMMA VisitsLeast ==
  ASSUME NEW L, NEW par, NEW ch, NEW en, NEW nx, NEW pv, NEW rk, Forest(L, par, ch, en, nx, pv, rk),
         NEW R, Visits(L, ch, nx, R),
         NEW S, Inherits(L, par, S)
  PROVE  \A x \in L : x # Null /\ par[x] \in S => R[x] \subseteq S
<1> DEFINE Q == {x \in L : x # Null /\ par[x] \in S => R[x] \subseteq S}
<1>1. rk \in [L -> Nat] /\ ch \in [L -> L] /\ nx \in [L -> L] /\ Null \in L
  BY DEF Forest
<1>2. \A x \in L : R[x] = IF x = Null THEN {} ELSE {x} \cup R[ch[x]] \cup R[nx[x]]
  BY DEF Visits
<1>3. ASSUME NEW x \in L, \A y \in L : rk[y] < rk[x] => y \in Q PROVE x \in Q
  <2> SUFFICES ASSUME x # Null, par[x] \in S PROVE R[x] \subseteq S
    OBVIOUS
  <2>1. x \in S
    BY DEF Inherits
  <2>2. /\ ch[x] \in L /\ (ch[x] # Null => par[ch[x]] = x /\ rk[ch[x]] < rk[x])
        /\ nx[x] \in L /\ (nx[x] # Null => par[nx[x]] = par[x] /\ rk[nx[x]] < rk[x])
    BY DEF Forest
  <2>3. R[Null] = {}
    BY <1>1, <1>2
  <2>4. R[ch[x]] \subseteq S
    BY <1>3, <2>1, <2>2, <2>3
  <2>5. R[nx[x]] \subseteq S
    BY <1>3, <2>2, <2>3
  <2>6. R[x] = {x} \cup R[ch[x]] \cup R[nx[x]]
    BY <1>2
  <2> HIDE DEF Q
  <2> QED BY <2>1, <2>4, <2>5, <2>6
<1> HIDE DEF Q
<1>4. L \subseteq Q
  BY <1>1, <1>3, RankInduction
<1> QED BY <1>4 DEF Q

(* What no set closed under children can leave out is what a walk meets. *)
LEMMA FamilyIs ==
  ASSUME NEW L, NEW par, NEW ch, NEW en, NEW nx, NEW pv, NEW rk, Forest(L, par, ch, en, nx, pv, rk),
         NEW R, Visits(L, ch, nx, R), NEW h \in L, h # Null,
         NEW kd, \A x \in L : kd[x] = {y \in L \ {Null} : par[y] = x}
  PROVE  {x \in L : \A S \in SUBSET L : h \in S /\ (\A y \in S : kd[y] \subseteq S) => x \in S}
           = {h} \cup R[ch[h]]
<1> DEFINE K == {h} \cup R[ch[h]]
<1>1. /\ ch[h] \in L /\ (ch[h] # Null => par[ch[h]] = h)
      /\ \A z \in L \ {Null} : par[z] \in L
      /\ Null \in L
  BY DEF Forest
<1>2. R[Null] = {} /\ R[ch[h]] \subseteq L
  BY <1>1 DEF Visits
<1>3. K \subseteq L /\ h \in K
  BY <1>2
<1>4. \A y \in K : kd[y] \subseteq K
  <2>1. TopOnly(L, par, ch, en, nx, pv, h, K)
    <3>1. K = {h} \cup R[ch[h]]
      OBVIOUS
    <3> HIDE DEF K
    <3> QED BY <3>1, RestRefersToTop
  <2> HIDE DEF K
  <2> QED BY <1>3, <2>1 DEF TopOnly
<1>5. ASSUME NEW S \in SUBSET L, h \in S, \A y \in S : kd[y] \subseteq S PROVE K \subseteq S
  <2>1. Inherits(L, par, S)
    BY <1>5 DEF Inherits
  <2> HIDE DEF K
  <2>2. \A x \in L : x # Null /\ par[x] \in S => R[x] \subseteq S
    BY <2>1, VisitsLeast
  <2>3. R[ch[h]] \subseteq S
    BY <1>1, <1>2, <1>5, <2>2
  <2> QED BY <1>5, <2>3 DEF K
<1> HIDE DEF K
<1>6. ASSUME NEW x \in L, \A S \in SUBSET L : h \in S /\ (\A y \in S : kd[y] \subseteq S) => x \in S
      PROVE  x \in K
  BY <1>3, <1>4, <1>6
<1>7. \A x \in K : x \in L /\ \A S \in SUBSET L : h \in S /\ (\A y \in S : kd[y] \subseteq S) => x \in S
  BY <1>3, <1>5
<1> QED BY <1>6, <1>7 DEF K

-----------------------------------------------------------------------------
(* Depth-first order *)

(* Every element of s is the first of a run of what B says it encloses. *)
Encloses(s, B) == \A i \in DOMAIN s : \E j \in i .. Len(s) : {s[k] : k \in i .. j} = B[s[i]]

LEMMA EnclosesConcat ==
  ASSUME NEW S, NEW s \in Seq(S), NEW t \in Seq(S), NEW B, Encloses(s, B), Encloses(t, B)
  PROVE  Encloses(s \o t, B)
<1> DEFINE u == s \o t
           m == Len(s)
           n == Len(t)
<1>1. /\ DOMAIN u = 1 .. m + n /\ Len(u) = m + n
      /\ \A i \in 1 .. m : u[i] = s[i]
      /\ \A i \in 1 .. n : u[m + i] = t[i]
  OBVIOUS
<1>2. DOMAIN s = 1 .. m /\ DOMAIN t = 1 .. n /\ m \in Nat /\ n \in Nat
  OBVIOUS
<1> HIDE DEF u, m, n
<1>3. ASSUME NEW i \in DOMAIN u PROVE \E j \in i .. Len(u) : {u[k] : k \in i .. j} = B[u[i]]
  <2>1. CASE i <= m
    <3>1. i \in 1 .. m
      BY <1>1, <1>2, <2>1
    <3>2. PICK j \in i .. m : {s[k] : k \in i .. j} = B[s[i]]
      BY <1>2, <3>1 DEF Encloses, m
    <3>3. j \in i .. Len(u) /\ \A k \in i .. j : k \in 1 .. m
      BY <1>1, <1>2, <3>1
    <3>4. {u[k] : k \in i .. j} = {s[k] : k \in i .. j}
      BY <1>1, <3>3
    <3> QED BY <1>1, <3>1, <3>2, <3>3, <3>4
  <2>2. CASE i > m
    <3> DEFINE a == i - m
    <3>1. a \in 1 .. n /\ m + a = i
      BY <1>1, <1>2, <2>2
    <3> HIDE DEF a
    <3>2. PICK b \in a .. n : {t[k] : k \in a .. b} = B[t[a]]
      BY <1>2, <3>1 DEF Encloses, n
    <3>3. m + b \in i .. Len(u)
      BY <1>1, <1>2, <3>1
    <3>4. \A k \in a .. b : k \in 1 .. n /\ m + k \in i .. m + b /\ u[m + k] = t[k]
      BY <1>1, <1>2, <3>1
    <3>5. \A k \in i .. m + b : k - m \in a .. b /\ m + (k - m) = k
      BY <1>1, <1>2, <3>1
    <3>6. {u[k] : k \in i .. m + b} = {t[k] : k \in a .. b}
      BY <3>4, <3>5
    <3> QED BY <1>1, <3>1, <3>2, <3>3, <3>6
  <2>3. i \in Nat
    BY <1>1, <1>2
  <2>4. i <= m \/ i > m
    BY <1>2, <2>3
  <2> QED BY <2>1, <2>2, <2>4
<1> QED BY <1>3 DEF Encloses, u

LEMMA EnclosesFirst ==
  ASSUME NEW S, NEW x \in S, NEW t \in Seq(S), NEW B, Encloses(t, B), B[x] = {x} \cup ToSet(t)
  PROVE  Encloses(<<x>> \o t, B)
<1> DEFINE u == <<x>> \o t
           n == Len(t)
<1>1. /\ DOMAIN u = 1 .. n + 1 /\ Len(u) = n + 1 /\ u[1] = x
      /\ \A i \in 1 .. n : u[i + 1] = t[i]
  OBVIOUS
<1>2. DOMAIN t = 1 .. n /\ n \in Nat
  OBVIOUS
<1> HIDE DEF u, n
<1>3. ASSUME NEW i \in DOMAIN u PROVE \E j \in i .. Len(u) : {u[k] : k \in i .. j} = B[u[i]]
  <2>1. CASE i = 1
    <3>1. \A k \in 1 .. n : k + 1 \in 1 .. n + 1 /\ u[k + 1] = t[k]
      BY <1>1, <1>2
    <3>2. \A k \in 1 .. n + 1 : k = 1 \/ (k - 1 \in 1 .. n /\ (k - 1) + 1 = k)
      BY <1>2
    <3>3. 1 \in 1 .. n + 1 /\ n + 1 \in 1 .. n + 1
      BY <1>2
    <3>4. ToSet(t) = {t[k] : k \in 1 .. n}
      BY <1>2 DEF ToSet
    <3>5. {u[k] : k \in 1 .. n + 1} = {x} \cup {t[k] : k \in 1 .. n}
      BY <1>1, <3>1, <3>2, <3>3
    <3> QED BY <1>1, <2>1, <3>3, <3>4, <3>5
  <2>2. CASE i # 1
    <3> DEFINE a == i - 1
    <3>1. a \in 1 .. n /\ a + 1 = i
      BY <1>1, <1>2, <2>2
    <3> HIDE DEF a
    <3>2. PICK b \in a .. n : {t[k] : k \in a .. b} = B[t[a]]
      BY <1>2, <3>1 DEF Encloses, n
    <3>3. b + 1 \in i .. Len(u)
      BY <1>1, <1>2, <3>1
    <3>4. \A k \in a .. b : k \in 1 .. n /\ k + 1 \in i .. b + 1 /\ u[k + 1] = t[k]
      BY <1>1, <1>2, <3>1
    <3>5. \A k \in i .. b + 1 : k - 1 \in a .. b /\ (k - 1) + 1 = k
      BY <1>1, <1>2, <3>1
    <3>6. {u[k] : k \in i .. b + 1} = {t[k] : k \in a .. b}
      BY <3>4, <3>5
    <3> QED BY <1>1, <3>1, <3>2, <3>3, <3>6
  <2> QED BY <2>1, <2>2
<1> QED BY <1>3 DEF Encloses, u

(* On a walk each node is followed at once by all that is below it. *)
LEMMA WalkEncloses ==
  ASSUME NEW L, NEW par, NEW ch, NEW en, NEW nx, NEW pv, NEW rk, Forest(L, par, ch, en, nx, pv, rk),
         NEW w, IsWalk(L, ch, nx, w),
         NEW B, \A x \in L \ {Null} : B[x] = {x} \cup ToSet(w[ch[x]])
  PROVE  \A x \in L : Encloses(w[x], B)
<1> DEFINE Q == {x \in L : Encloses(w[x], B)}
<1>1. rk \in [L -> Nat] /\ ch \in [L -> L] /\ nx \in [L -> L] /\ Null \in L
  BY DEF Forest
<1>2. Encloses(w[Null], B)
  <2>1. w[Null] = <<>>
    BY <1>1 DEF IsWalk
  <2> QED BY <2>1 DEF Encloses
<1>3. ASSUME NEW x \in L, \A y \in L : rk[y] < rk[x] => y \in Q PROVE x \in Q
  <2>1. CASE x = Null
    BY <1>2, <2>1
  <2>2. CASE x # Null
    <3> DEFINE below == w[ch[x]]
               after == w[nx[x]]
               v == <<x>> \o below
    <3>1. /\ ch[x] \in L /\ (ch[x] = Null \/ rk[ch[x]] < rk[x])
          /\ nx[x] \in L /\ (nx[x] = Null \/ rk[nx[x]] < rk[x])
      BY <1>1, <2>2, ForestFalls DEF Falls
    <3>2. Encloses(below, B) /\ Encloses(after, B)
      BY <1>2, <1>3, <3>1
    <3>3. below \in Seq(L) /\ after \in Seq(L)
      BY <3>1 DEF IsWalk
    <3>4. B[x] = {x} \cup ToSet(below)
      BY <2>2
    <3>5. w[x] = v \o after
      BY <2>2 DEF IsWalk
    <3> HIDE DEF below, after
    <3>6. Encloses(v, B)
      BY <3>2, <3>3, <3>4, EnclosesFirst
    <3>7. v \in Seq(L)
      BY <3>3
    <3> HIDE DEF v
    <3>8. Encloses(v \o after, B)
      BY <3>2, <3>3, <3>6, <3>7, EnclosesConcat
    <3> QED BY <3>5, <3>8
  <2> QED BY <2>1, <2>2
<1> HIDE DEF Q
<1>4. L \subseteq Q
  BY <1>1, <1>3, RankInduction
<1> QED BY <1>4 DEF Q

(* In s, what comes next after a node comes later. *)
Follows(s, nx) == \A i, j \in DOMAIN s : s[j] = nx[s[i]] => i < j

LEMMA FollowsConcat ==
  ASSUME NEW S, NEW s \in Seq(S), NEW t \in Seq(S), NEW nx, Follows(s, nx), Follows(t, nx),
         \A y \in ToSet(t) : nx[y] \notin ToSet(s)
  PROVE  Follows(s \o t, nx)
<1> DEFINE u == s \o t
           m == Len(s)
           n == Len(t)
<1>1. /\ DOMAIN u = 1 .. m + n
      /\ \A i \in 1 .. m : u[i] = s[i]
      /\ \A i \in 1 .. n : u[m + i] = t[i]
  OBVIOUS
<1>2. DOMAIN s = 1 .. m /\ DOMAIN t = 1 .. n /\ m \in Nat /\ n \in Nat
  OBVIOUS
<1> HIDE DEF u, m, n
<1>3. \A i \in DOMAIN u : i > m => i - m \in 1 .. n /\ u[i] = t[i - m]
  <2> SUFFICES ASSUME NEW i \in DOMAIN u, i > m PROVE i - m \in 1 .. n /\ u[i] = t[i - m]
    OBVIOUS
  <2>1. i - m \in 1 .. n /\ m + (i - m) = i
    BY <1>1, <1>2
  <2> QED BY <1>1, <2>1
<1>4. \A i \in DOMAIN u : i <= m => i \in 1 .. m /\ u[i] = s[i]
  BY <1>1, <1>2
<1>5. ASSUME NEW i \in DOMAIN u, NEW j \in DOMAIN u, u[j] = nx[u[i]] PROVE i < j
  <2>1. CASE i <= m /\ j <= m
    BY <1>2, <1>4, <1>5, <2>1 DEF Follows
  <2>2. CASE i <= m /\ j > m
    BY <1>1, <1>2, <2>2
  <2>3. CASE i > m /\ j <= m
    <3>1. u[i] \in ToSet(t) /\ u[j] \in ToSet(s)
      BY <1>2, <1>3, <1>4, <2>3 DEF ToSet
    <3> QED BY <1>5, <3>1
  <2>4. CASE i > m /\ j > m
    <3>1. i - m < j - m
      BY <1>2, <1>3, <1>5, <2>4 DEF Follows
    <3> QED BY <1>1, <1>2, <3>1
  <2> QED BY <1>1, <1>2, <2>1, <2>2, <2>3, <2>4
<1> QED BY <1>5 DEF Follows, u

(* On a walk a node comes before its next sibling. *)
LEMMA WalkFollows ==
  ASSUME NEW L, NEW par, NEW ch, NEW en, NEW nx, NEW pv, NEW rk, Forest(L, par, ch, en, nx, pv, rk),
         NEW w, IsWalk(L, ch, nx, w)
  PROVE  \A x \in L : Follows(w[x], nx)
<1> DEFINE Q == {x \in L : Follows(w[x], nx)}
           R == [x \in L |-> ToSet(w[x])]
<1>1. rk \in [L -> Nat] /\ ch \in [L -> L] /\ nx \in [L -> L] /\ Null \in L
  BY DEF Forest
<1>2. Follows(w[Null], nx)
  <2>1. w[Null] = <<>>
    BY <1>1 DEF IsWalk
  <2> QED BY <2>1 DEF Follows
<1>3. Visits(L, ch, nx, R)
  BY <1>1, WalkVisits
<1>4. \A x \in L : R[x] = ToSet(w[x])
  OBVIOUS
<1> HIDE DEF R
<1>5. \A x \in L : Closed(L, par, ch, nx, pv, rk, R, x)
  BY <1>3, VisitsClosed
<1>6. ASSUME NEW x \in L, \A y \in L : rk[y] < rk[x] => y \in Q PROVE x \in Q
  <2>1. CASE x = Null
    BY <1>2, <2>1
  <2>2. CASE x # Null
    <3> DEFINE one == <<x>>
               below == w[ch[x]]
               after == w[nx[x]]
               v == one \o below
    <3>1. /\ ch[x] \in L /\ (ch[x] = Null \/ rk[ch[x]] < rk[x])
          /\ nx[x] \in L /\ (nx[x] = Null \/ rk[nx[x]] < rk[x])
      BY <1>1, <2>2, ForestFalls DEF Falls
    <3>2. Follows(below, nx) /\ Follows(after, nx)
      BY <1>2, <1>6, <3>1
    <3>3. below \in Seq(L) /\ after \in Seq(L) /\ ToSet(below) = R[ch[x]] /\ ToSet(after) = R[nx[x]]
      BY <1>4, <3>1 DEF IsWalk
    <3>4. w[x] = v \o after
      BY <2>2 DEF IsWalk
    <3>5. one \in Seq(L) /\ ToSet(one) = {x}
      BY RangeOfOne
    <3>6. Follows(one, nx)
      <4>1. nx[x] # x
        BY <1>1, <2>2, <3>1
      <4> QED BY <4>1 DEF Follows
    <3>7. x \notin R[ch[x]] /\ x \notin R[nx[x]] /\ R[ch[x]] \cap R[nx[x]] = {}
      BY <1>3, <2>2, VisitsApart
    <3>8. /\ \A z \in R[ch[x]] : nx[z] \in R[ch[x]] \cup {Null}
          /\ \A z \in R[nx[x]] : nx[z] \in R[nx[x]] \cup {Null}
      BY <1>5, <3>1 DEF Closed
    <3>9. Null \notin R[ch[x]]
      BY <1>5, <3>1 DEF Closed
    <3> HIDE DEF one, below, after
    <3>10. Follows(v, nx)
      <4>1. \A y \in ToSet(below) : nx[y] \notin ToSet(one)
        BY <2>2, <3>3, <3>5, <3>7, <3>8
      <4> QED BY <3>2, <3>3, <3>5, <3>6, <4>1, FollowsConcat
    <3>11. v \in Seq(L) /\ ToSet(v) = {x} \cup R[ch[x]]
      BY <3>3, <3>5, RangeOfConcat
    <3> HIDE DEF v
    <3>12. Follows(v \o after, nx)
      <4>1. \A y \in ToSet(after) : nx[y] \notin ToSet(v)
        BY <2>2, <3>3, <3>7, <3>8, <3>9, <3>11
      <4> QED BY <3>2, <3>3, <3>10, <3>11, <4>1, FollowsConcat
    <3> QED BY <3>4, <3>12
  <2> QED BY <2>1, <2>2
<1> HIDE DEF Q
<1>7. L \subseteq Q
  BY <1>1, <1>6, RankInduction
<1> QED BY <1>7 DEF Q

(* A walk from the root's child meets every node but the root. *)
LEMMA WalkAll ==
  ASSUME NEW L, NEW par, NEW ch, NEW en, NEW nx, NEW pv, NEW rk, Forest(L, par, ch, en, nx, pv, rk),
         NEW R, Visits(L, ch, nx, R)
  PROVE  R[ch[Null]] = L \ {Null}
<1> DEFINE C == R[ch[Null]]
           M == L \ {Null}
           up == [y \in M |-> rk[Null] - rk[y]]
           Q == {y \in M : y \in C}
<1>1. rk \in [L -> Nat] /\ Null \in L /\ ch[Null] \in L /\ \A y \in L : rk[y] <= rk[Null]
  BY DEF Forest
<1>2. C \subseteq L
  BY <1>1 DEF Visits
<1>3. \A z \in C : z # Null /\ ch[z] \in C \cup {Null} /\ nx[z] \in C \cup {Null}
  BY <1>1, VisitsClosed DEF Closed
<1>4. ch[Null] # Null => ch[Null] \in C
  BY <1>1 DEF Visits
<1>5. up \in [M -> Nat]
  BY <1>1
<1>6. ASSUME NEW y \in M, \A z \in M : up[z] < up[y] => z \in Q PROVE y \in Q
  <2>1. y \in L /\ y # Null
    OBVIOUS
  <2>2. CASE pv[y] # Null
    <3> DEFINE z == pv[y]
    <3>1. z \in M /\ nx[z] = y /\ rk[y] < rk[z]
      BY <2>1, <2>2 DEF Forest
    <3> HIDE DEF z
    <3>2. up[z] < up[y]
      BY <1>1, <3>1
    <3> QED BY <1>3, <1>6, <3>1, <3>2
  <2>3. CASE pv[y] = Null
    <3> DEFINE z == par[y]
    <3>1. z \in L /\ ch[z] = y /\ rk[y] < rk[z]
      BY <2>1, <2>3 DEF Forest
    <3> HIDE DEF z
    <3>2. CASE z = Null
      BY <1>4, <3>1, <3>2
    <3>3. CASE z # Null
      <4>1. z \in M /\ up[z] < up[y]
        BY <1>1, <3>1, <3>3
      <4> QED BY <1>3, <1>6, <3>1, <4>1
    <3> QED BY <3>2, <3>3
  <2> QED BY <2>2, <2>3
<1>7. M \subseteq Q
  <2> HIDE DEF M, up, Q
  <2> QED BY <1>5, <1>6, RankInduction
<1> QED BY <1>2, <1>3, <1>7

-----------------------------------------------------------------------------
(* The links as a tree *)

Listed ==
  /\ Children \in [InTree -> Seq(InTree)]
  /\ \A x \in InTree : Chain(InTree, Nx, Ch[x], Children[x])

(* The model's Siblings is the list of what follows each node. *)
LEMMA SiblingsIs ==
  ASSUME PoolInv, LinkInv
  PROVE  IsList(InTree, Nx, Siblings)
<1>1. \A h \in InTree : (h.index = 0) <=> (h = Null)
  BY TreeFacts
<1>2. PICK rk : Forest(InTree, Par, Ch, En, Nx, Pv, rk)
  BY DEF LinkInv
<1>3. PICK w : IsList(InTree, Nx, w)
  BY <1>2, ListExists
<1>4. w = [h \in InTree |-> IF h.index = 0 THEN <<>> ELSE <<h>> \o w[Node(h).next]]
  BY <1>1, <1>3 DEF IsList, Nx
<1>5. Siblings = [h \in InTree |-> IF h.index = 0 THEN <<>> ELSE <<h>> \o Siblings[Node(h).next]]
  BY <1>4 DEF Siblings
<1> DEFINE W == Siblings
<1>6. W = [h \in InTree |-> IF h.index = 0 THEN <<>> ELSE <<h>> \o W[Node(h).next]]
  BY <1>5
<1> HIDE DEF W
<1>7. \A h \in InTree : W[h] = IF h = Null THEN <<>> ELSE <<h>> \o W[Nx[h]]
  BY <1>1, <1>6 DEF Nx
<1> DEFINE Q == {h \in InTree : W[h] = w[h]}
<1>8. rk \in [InTree -> Nat] /\ Nx \in [InTree -> InTree] /\ Null \in InTree
  BY <1>2 DEF Forest
<1>9. W[Null] = w[Null]
  BY <1>3, <1>7, <1>8 DEF IsList
<1>10. ASSUME NEW h \in InTree, \A y \in InTree : rk[y] < rk[h] => y \in Q PROVE h \in Q
  <2>1. CASE h = Null
    BY <1>9, <2>1
  <2>2. CASE h # Null
    <3>1. Nx[h] \in InTree /\ (Nx[h] = Null \/ rk[Nx[h]] < rk[h])
      BY <1>2, <1>8, <2>2, ForestFalls DEF Falls
    <3>2. W[Nx[h]] = w[Nx[h]]
      BY <1>9, <1>10, <3>1
    <3> QED BY <1>3, <1>7, <2>2, <3>2 DEF IsList
  <2> QED BY <2>1, <2>2
<1> HIDE DEF Q
<1>11. InTree \subseteq Q
  BY <1>8, <1>10, RankInduction
<1>12. W \in [InTree -> Seq(InTree)]
  <2>1. W = [h \in InTree |-> W[h]]
    BY <1>6
  <2>2. \A h \in InTree : W[h] \in Seq(InTree)
    BY <1>3, <1>11 DEF IsList, Q
  <2> QED BY <2>1, <2>2
<1>13. IsList(InTree, Nx, W)
  BY <1>7, <1>12 DEF IsList
<1> QED BY <1>13 DEF W

LEMMA ChildrenListed == PoolInv /\ LinkInv => Listed
<1> SUFFICES ASSUME PoolInv, LinkInv PROVE Listed
  OBVIOUS
<1>1. PICK rk : Forest(InTree, Par, Ch, En, Nx, Pv, rk)
  BY DEF LinkInv
<1>2. IsList(InTree, Nx, Siblings)
  BY SiblingsIs
<1>3. \A x \in InTree : Chain(InTree, Nx, x, Siblings[x])
  BY <1>1, <1>2, ListIsChain
<1>4. Ch \in [InTree -> InTree]
  BY <1>1 DEF Forest
<1>5. \A x \in InTree : Children[x] = Siblings[Ch[x]] /\ Ch[x] \in InTree
  BY <1>4 DEF Children, Ch
<1>6. Children = [x \in InTree |-> Children[x]]
  BY DEF Children
<1>7. \A x \in InTree : Chain(InTree, Nx, Ch[x], Children[x])
  BY <1>3, <1>5
<1>8. \A x \in InTree : Children[x] \in Seq(InTree)
  BY <1>7 DEF Chain
<1>9. Children \in [InTree -> Seq(InTree)]
  BY <1>6, <1>8
<1> QED BY <1>7, <1>9 DEF Listed

LEMMA ChildrenStayListed == (PoolInv /\ LinkInv)' => Listed'
BY ChildrenListed, PTL

(* The widgets of the tree are the nodes in it... *)
LEMMA WidgetsAreInTree == Tree!Widgets = InTree
BY DEF Tree!Widgets, Children

(* ... and what one contains is what removing it takes away. *)
LEMMA WithinIs ==
  ASSUME PoolInv, LinkInv, NEW h \in InTree, h # Null
  PROVE  Tree!Within(h) = ToSet(KillList(h))
<1>1. PICK rk : Forest(InTree, Par, Ch, En, Nx, Pv, rk)
  BY DEF LinkInv
<1>2. Listed
  BY ChildrenListed
<1> DEFINE R == [x \in InTree |-> ToSet(Walk[x])]
           kd == [x \in InTree |-> ToSet(Children[x])]
<1>3. Ch \in [InTree -> InTree] /\ Nx \in [InTree -> InTree]
  BY <1>1 DEF Forest
<1>4. Visits(InTree, Ch, Nx, R)
  BY <1>3, WalkIs, WalkVisits
<1>5. ToSet(KillList(h)) = {h} \cup R[Ch[h]]
  BY <1>3, KillListFacts
<1>6. \A x \in InTree : kd[x] = {y \in InTree \ {Null} : Par[y] = x}
  BY <1>1, <1>2, ChildrenFacts DEF Listed
<1>7. \A x \in InTree : kd[x] = Tree!ToSet(Children[x])
  BY DEF Tree!ToSet, ToSet
<1>8. Tree!Within(h) = {x \in InTree : \A S \in SUBSET InTree : h \in S /\ (\A y \in S : kd[y] \subseteq S) => x \in S}
  <2> HIDE DEF kd
  <2>1. \A S \in SUBSET InTree : (\A y \in S : kd[y] \subseteq S) <=> (\A y \in S : Tree!ToSet(Children[y]) \subseteq S)
    BY <1>7
  <2> QED BY <2>1, WidgetsAreInTree DEF Tree!Within
<1> HIDE DEF R, kd
<1>9. {x \in InTree : \A S \in SUBSET InTree : h \in S /\ (\A y \in S : kd[y] \subseteq S) => x \in S} = {h} \cup R[Ch[h]]
  BY <1>1, <1>4, <1>6, FamilyIs
<1> QED BY <1>5, <1>8, <1>9

(* Handlers add a node... *)
LEMMA AddIsTree ==
  ASSUME PoolInv, LinkInv, NEW kind \in Kinds, NEW p \in Handles, AddNode(kind, p)
  PROVE  Tree!AddWidget(FreshHandle, p)
<1> DEFINE f == FreshHandle
<1> HIDE DEF f
<1>1. /\ f \in Handles \ Live /\ PoolInv' /\ LinkInv' /\ lost' = lost
      /\ InTree' = InTree \cup {f} /\ p \in InTree
      /\ LinkedWith(InTree, Par, Ch, En, Nx, Pv, f, p, InTree', Par', Ch', En', Nx', Pv')
  BY AddFacts DEF f, Made
<1>0. f \in Handles \ (InTree \cup lost)
  BY <1>1, TreeFacts DEF PoolInv
<1>2. PICK rk : Forest(InTree, Par, Ch, En, Nx, Pv, rk)
  BY DEF LinkInv
<1>3. Listed /\ Listed'
  BY <1>1, ChildrenListed, ChildrenStayListed
<1>4. Children = [x \in InTree |-> Children[x]] /\ \A x \in InTree : Chain(InTree, Nx, Ch[x], Children[x])
  BY <1>3 DEF Listed
<1>5. Children' = [x \in InTree' |-> Children'[x]] /\ \A x \in InTree' : Chain(InTree', Nx', Ch'[x], Children'[x])
  BY <1>3 DEF Listed
<1>6. ASSUME NEW x \in InTree PROVE Children'[x] = IF x = p THEN Append(Children[x], f) ELSE Children[x]
  <2>1. Chain(InTree, Nx, Ch[x], Children[x])
    BY <1>4
  <2>2. Chain(InTree', Nx', Ch'[x], IF x = p THEN Append(Children[x], f) ELSE Children[x])
    BY <1>0, <1>1, <1>2, <2>1, ChildrenWith
  <2>3. Chain(InTree', Nx', Ch'[x], Children'[x])
    BY <1>1, <1>5
  <2> QED BY <2>2, <2>3, ChainUnique
<1>7. Children'[f] = <<>>
  <2>1. Ch'[f] = Null
    BY <1>1 DEF LinkedWith
  <2>2. Chain(InTree', Nx', Ch'[f], Children'[f])
    BY <1>1, <1>5
  <2> QED BY <2>1, <2>2 DEF Chain
<1>8. Children' = [x \in InTree \cup {f} |->
                     IF x = f THEN <<>> ELSE IF x = p THEN Append(Children[x], f) ELSE Children[x]]
  BY <1>1, <1>5, <1>6, <1>7
<1>9. drawOrder' = drawOrder
  BY DEF AddNode, layout
<1>10. Tree!AddWidget(f, p)
  BY <1>0, <1>1, <1>8, <1>9, WidgetsAreInTree DEF Tree!AddWidget
<1> QED BY <1>10 DEF f

(* What leaves the nodes of the tree and their links alone leaves their       *)
(* children alone.                                                            *)
LEMMA SameLinksSameChildren ==
  ASSUME PoolInv, LinkInv, PoolInv', LinkInv', InTree' = InTree, \A x \in InTree : Node(x)' = Node(x)
  PROVE  Children' = Children
<1>2. Listed /\ Listed'
  BY ChildrenListed, ChildrenStayListed
<1>3. Ch' = Ch /\ Nx' = Nx
  BY DEF Ch, Nx, Null
<1>4. Children = [x \in InTree |-> Children[x]] /\ \A x \in InTree : Chain(InTree, Nx, Ch[x], Children[x])
  BY <1>2 DEF Listed
<1>5. Children' = [x \in InTree' |-> Children'[x]] /\ \A x \in InTree' : Chain(InTree', Nx', Ch'[x], Children'[x])
  BY <1>2 DEF Listed
<1>6. ASSUME NEW x \in InTree PROVE Children'[x] = Children[x]
  <2>1. Chain(InTree, Nx, Ch[x], Children[x]) /\ Chain(InTree, Nx, Ch[x], Children'[x])
    BY <1>3, <1>4, <1>5
  <2> QED BY <2>1, ChainUnique
<1> QED BY <1>4, <1>5, <1>6

(* ... or fail to and lose a handle... *)
LEMMA FailIsTree ==
  ASSUME PoolInv, LinkInv, NEW kind \in Kinds, NEW p \in Handles, FailToAdd(kind, p)
  PROVE  Tree!FailToAdd(FreshHandle)
<1> DEFINE f == FreshHandle
<1> HIDE DEF f
<1>1. /\ f \in Handles \ Live /\ PoolInv' /\ LinkInv' /\ lost' = lost \cup {f}
      /\ InTree' = InTree /\ \A x \in InTree : Node(x)' = Node(x)
  BY FailFacts DEF f, Made
<1>2. f \in Handles \ (InTree \cup lost)
  BY <1>1, TreeFacts DEF PoolInv
<1>3. Children' = Children
  BY <1>1, SameLinksSameChildren
<1>4. drawOrder' = drawOrder
  BY DEF FailToAdd, layout
<1> QED BY <1>1, <1>2, <1>3, <1>4, WidgetsAreInTree DEF Tree!FailToAdd, f

(* ... or remove one with all below it. *)
LEMMA RemoveIsTree ==
  ASSUME PoolInv, LinkInv, NEW h \in Handles, RemoveNode(h)
  PROVE  Tree!RemoveWidget(h)
<1> DEFINE K == ToSet(KillList(h))
<1>1. /\ h \in InTree /\ h # Null
      /\ PoolInv'
      /\ h \in K /\ K \subseteq InTree \ {Null}
      /\ InTree' = InTree \ K
  BY RemoveFacts
<1>2. /\ LinkInv'
      /\ LinkedWithout(InTree, Par, Ch, En, Nx, Pv, h, K, InTree', Par', Ch', En', Nx', Pv')
  BY RemoveKeepsLinks
<1>3. PICK rk : Forest(InTree, Par, Ch, En, Nx, Pv, rk)
  BY DEF LinkInv
<1>4. TopOnly(InTree, Par, Ch, En, Nx, Pv, h, K) /\ \A y \in K : y # h => Par[y] \in K
  BY <1>1, KillListFacts
<1>5. Tree!Within(h) = K
  BY <1>1, WithinIs
<1> HIDE DEF K
<1>6. Listed /\ Listed'
  BY <1>1, <1>2, ChildrenListed, ChildrenStayListed
<1>7. Children = [x \in InTree |-> Children[x]] /\ \A x \in InTree : Chain(InTree, Nx, Ch[x], Children[x])
  BY <1>6 DEF Listed
<1>8. Children' = [x \in InTree' |-> Children'[x]] /\ \A x \in InTree' : Chain(InTree', Nx', Ch'[x], Children'[x])
  BY <1>6 DEF Listed
<1>9. ASSUME NEW x \in InTree' PROVE Children'[x] = Tree!Without(Children[x], h)
  <2> DEFINE s == Children[x]
             t == IF h \in ToSet(s) THEN RemoveAt(s, CHOOSE i \in DOMAIN s : s[i] = h) ELSE s
  <2>1. Chain(InTree, Nx, Ch[x], s)
    BY <1>1, <1>7
  <2> HIDE DEF s
  <2>2. Chain(InTree', Nx', Ch'[x], t)
    BY <1>1, <1>2, <1>3, <1>4, <2>1, ChildrenWithout
  <2>3. Tree!Without(s, h) = t
    BY DEF Tree!Without, Tree!ToSet, ToSet, Tree!RemoveAt, RemoveAt
  <2> HIDE DEF t
  <2>4. Chain(InTree', Nx', Ch'[x], Children'[x])
    BY <1>8
  <2>5. Children'[x] = t
    BY <2>2, <2>4, ChainUnique
  <2> QED BY <2>3, <2>5 DEF s
<1>10. Children' = [x \in InTree \ K |-> Tree!Without(Children[x], h)]
  BY <1>1, <1>8, <1>9
<1>11. lost' = lost
  BY DEF RemoveNode
<1>12. drawOrder' = drawOrder
  BY DEF RemoveNode, layout
<1>13. h \in InTree \ {Root}
  BY <1>1 DEF Root
<1> QED BY <1>5, <1>10, <1>11, <1>12, <1>13, WidgetsAreInTree DEF Tree!RemoveWidget

(* What leaves the pool alone leaves the tree alone. *)
LEMMA SamePoolSameTree ==
  ASSUME PoolInv, LinkInv, UNCHANGED pool
  PROVE  UNCHANGED <<Children, lost>>
BY SamePool, SameLinksSameChildren

(* A draw shows the tree depth first. *)
LEMMA DrawIsTree ==
  ASSUME PoolInv, LinkInv, MakeDrawList
  PROVE  Tree!Draw
<1> DEFINE order == Walk[Ch[Null]]
           R == [x \in InTree |-> ToSet(Walk[x])]
           B == [x \in InTree |-> {x} \cup ToSet(Walk[Ch[x]])]
<1>1. PICK rk : Forest(InTree, Par, Ch, En, Nx, Pv, rk)
  BY DEF LinkInv
<1>2. IsWalk(InTree, Ch, Nx, Walk)
  BY WalkIs
<1>3. Ch \in [InTree -> InTree] /\ Nx \in [InTree -> InTree] /\ Null \in InTree
  BY <1>1 DEF Forest
<1>4. Listed
  BY ChildrenListed
<1>5. order \in Seq(InTree)
  BY <1>2, <1>3 DEF IsWalk
<1>6. drawOrder' = order
  BY <1>3 DEF MakeDrawList, Root, Ch
<1>7. ToSet(order) = InTree \ {Null}
  <2>1. Visits(InTree, Ch, Nx, R)
    BY <1>2, <1>3, WalkVisits
  <2>2. ToSet(order) = R[Ch[Null]]
    BY <1>3
  <2> HIDE DEF R, order
  <2>3. R[Ch[Null]] = InTree \ {Null}
    BY <1>1, <2>1, WalkAll
  <2> QED BY <2>2, <2>3
<1>8. IsInjective(order)
  <2>1. \A x \in InTree : IsInjective(Walk[x])
    BY <1>1, <1>2, WalkInjective
  <2> QED BY <1>3, <2>1
<1>9. Encloses(order, B)
  <2>1. \A x \in InTree \ {Null} : B[x] = {x} \cup ToSet(Walk[Ch[x]])
    OBVIOUS
  <2> HIDE DEF B
  <2>2. \A x \in InTree : Encloses(Walk[x], B)
    BY <1>1, <1>2, <2>1, WalkEncloses
  <2> QED BY <1>3, <2>2
<1>10. Follows(order, Nx)
  <2>1. \A x \in InTree : Follows(Walk[x], Nx)
    BY <1>1, <1>2, WalkFollows
  <2> QED BY <1>3, <2>1
<1>11. \A x \in InTree \ {Null} : B[x] = Tree!Within(x)
  <2> SUFFICES ASSUME NEW x \in InTree, x # Null PROVE B[x] = Tree!Within(x)
    OBVIOUS
  <2>1. Tree!Within(x) = ToSet(KillList(x))
    BY WithinIs
  <2>2. ToSet(KillList(x)) = {x} \cup ToSet(Walk[Ch[x]])
    BY KillListFacts
  <2> QED BY <2>1, <2>2
<1> HIDE DEF order, R, B
<1>12. \A i \in DOMAIN order : order[i] \in InTree \ {Null}
  BY <1>7 DEF ToSet
<1>13. \A i \in DOMAIN order : \E j \in i .. Len(order) : {order[k] : k \in i .. j} = Tree!Within(order[i])
  BY <1>9, <1>11, <1>12 DEF Encloses
<1>14. ASSUME NEW h \in InTree, NEW k \in 1 .. Len(Children[h]) - 1, NEW i \in DOMAIN order, NEW j \in DOMAIN order,
              order[i] = Children[h][k], order[j] = Children[h][k + 1]
       PROVE  i < j
  <2>1. Chain(InTree, Nx, Ch[h], Children[h]) /\ Children[h] \in Seq(InTree)
    BY <1>4 DEF Listed
  <2>2. k \in 1 .. Len(Children[h]) /\ k < Len(Children[h])
    BY <2>1
  <2>3. Nx[Children[h][k]] = Children[h][k + 1]
    BY <2>1, <2>2 DEF Chain
  <2> QED BY <1>10, <1>14, <2>3 DEF Follows
<1>15. Tree!ToSet(order) = InTree \ {Root} /\ Tree!IsInjective(order)
  BY <1>7, <1>8 DEF Tree!ToSet, ToSet, Tree!IsInjective, IsInjective, Root
<1>16. Tree!DepthFirst(order)
  BY <1>13, <1>14, <1>15, WidgetsAreInTree DEF Tree!DepthFirst
<1>17. UNCHANGED <<Children, lost>>
  <2>1. UNCHANGED pool
    BY DEF MakeDrawList
  <2> QED BY <2>1, SamePoolSameTree
<1> QED BY <1>6, <1>16, <1>17 DEF Tree!Draw

(* The root alone. *)
LEMMA InitIsTree == Init => Tree!TreeInit
<1> SUFFICES ASSUME Init PROVE Tree!TreeInit
  OBVIOUS
<1>1. PoolInv /\ LinkInv
  BY InitFacts DEF IInv
<1>2. active = [i \in {0} |-> NewNode("Slot")] /\ generations = [i \in {0} |-> 0] /\ drawOrder = <<>>
  BY DEF Init
<1>3. InTree = {Null}
  <2>1. Null \in InTree
    BY <1>1, TreeFacts
  <2>2. ASSUME NEW h \in InTree PROVE h = Null
    <3>1. h.index \in DOMAIN active /\ (h.index = 0 <=> h = Null)
      BY <1>1, TreeFacts
    <3> QED BY <1>2, <3>1
  <2> QED BY <2>1, <2>2
<1>4. Listed
  BY <1>1, ChildrenListed
<1>5. Ch[Null] = Null
  BY <1>2, <1>3 DEF Ch, Node, NewNode, Null
<1>6. Children[Null] = <<>>
  BY <1>3, <1>4, <1>5 DEF Listed, Chain
<1>7. Children = [h \in {Null} |-> <<>>]
  BY <1>3, <1>4, <1>6 DEF Listed
<1>8. lost = {}
  BY DEF Init
<1> QED BY <1>2, <1>7, <1>8 DEF Tree!TreeInit, Root

(* Every step of the interface is one of the tree, or leaves it alone. *)
LEMMA StepIsTree ==
  ASSUME PoolInv, LinkInv, [Next]_vars
  PROVE  [Tree!TreeNext]_(Tree!treeVars)
<1>1. CASE Game
  <2>1. GoAstray \/ \E h \in Handles : (\E kind \in Kinds : AddNode(kind, h) \/ FailToAdd(kind, h)) \/ RemoveNode(h)
    BY <1>1 DEF Game, Kept, InTree, Live
  <2>2. ASSUME NEW h \in Handles, NEW kind \in Kinds, AddNode(kind, h) PROVE Tree!TreeNext
    <3>1. Tree!AddWidget(FreshHandle, h)
      BY <2>2, AddIsTree
    <3>2. FreshHandle \in Handles
      BY <2>2, AddFacts DEF Made
    <3> QED BY <3>1, <3>2 DEF Tree!TreeNext
  <2>3. ASSUME NEW h \in Handles, NEW kind \in Kinds, FailToAdd(kind, h) PROVE Tree!TreeNext
    <3>1. Tree!FailToAdd(FreshHandle)
      BY <2>3, FailIsTree
    <3>2. FreshHandle \in Handles
      BY <2>3, FailFacts DEF Made
    <3> QED BY <3>1, <3>2 DEF Tree!TreeNext
  <2>4. ASSUME NEW h \in Handles, RemoveNode(h) PROVE Tree!TreeNext
    BY <2>4, RemoveIsTree DEF Tree!TreeNext
  <2>5. CASE GoAstray
    <3>1. UNCHANGED <<Children, lost>> /\ drawOrder' = drawOrder
      BY <2>5, SamePoolSameTree DEF GoAstray, layout
    <3> QED BY <3>1 DEF Tree!treeVars
  <2> QED BY <2>1, <2>2, <2>3, <2>4, <2>5
<1>2. CASE MakeDrawList
  BY <1>2, DrawIsTree DEF Tree!TreeNext
<1>3. CASE UNCHANGED <<pool, drawOrder>>
  <2>1. UNCHANGED <<Children, lost>>
    BY <1>3, SamePoolSameTree
  <2> QED BY <1>3, <2>1 DEF Tree!treeVars
<1>4. Game \/ MakeDrawList \/ UNCHANGED <<pool, drawOrder>>
  BY DEF Next, OnKey, Pick, LeaveLast, TickDebug, SkipDraw, vars, layout
<1> QED BY <1>1, <1>2, <1>3, <1>4

(* The linked nodes implement the ordered tree: what is added comes last      *)
(* under its parent or is lost for good, what is removed takes all it         *)
(* contains with it and moves nothing else, and a draw shows the tree depth   *)
(* first.                                                                     *)
THEOREM ImplementsTree == Spec => RefinesTree
<1>1. Init => Tree!TreeInit
  BY InitIsTree
<1>2. IInv /\ [Next]_vars => [Tree!TreeNext]_(Tree!treeVars)
  BY StepIsTree DEF IInv
<1> QED BY <1>1, <1>2, Invariance, PTL DEF Spec, RefinesTree, Tree!TreeSpec
=============================================================================
