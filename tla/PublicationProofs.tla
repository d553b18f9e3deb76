-------------------------- MODULE PublicationProofs --------------------------
(***************************************************************************)
(* Theorems about Publication, for any messages, files, faults and         *)
(* tampering: a pass stays on its agenda and creates what is on it; no     *)
(* part is posted twice, although each pass knows of the others only by    *)
(* the receipts of their posts (Once); a thread is suspended over a        *)
(* conflict only for a cause from outside (Explained); what is posted is   *)
(* in order (Orderly); and files are said to be missing only after a loss  *)
(* or two faults (Quiet).                                                  *)
(***************************************************************************)
EXTENDS Publication, DataFacts

-----------------------------------------------------------------------------
(* Where the elements of a flattened sequence come from, and in what order. *)

Follows(ss, n, F) ==
    /\ \A k \in DOMAIN F : \E i \in 1..n : \E j \in DOMAIN ss[i] :
          /\ F[k] = ss[i][j]
          /\ \A h \in 1..n : \A g \in DOMAIN ss[h] :
                h < i \/ (h = i /\ g < j) => \E l \in 1..(k - 1) : F[l] = ss[h][g]
    /\ \A i \in 1..n : \A j \in DOMAIN ss[i] : \E k \in DOMAIN F : F[k] = ss[i][j]

LEMMA ConcatElements ==
    ASSUME NEW S, NEW A \in Seq(S), NEW B \in Seq(S)
    PROVE  /\ A \o B \in Seq(S) /\ Len(A) \in Nat /\ Len(B) \in Nat
           /\ DOMAIN (A \o B) = 1..(Len(A) + Len(B))
           /\ \A k \in 1..Len(A) : (A \o B)[k] = A[k]
           /\ \A k \in 1..Len(B) : (A \o B)[Len(A) + k] = B[k]
OBVIOUS

LEMMA FollowsOne ==
    ASSUME NEW S, NEW n \in Nat, NEW ss, ss \in [1..n -> Seq(S)], n # 0
    PROVE  Follows(ss, 1, ss[1])
<1>1. ss[1] \in Seq(S) /\ Len(ss[1]) \in Nat /\ DOMAIN ss[1] = 1..Len(ss[1])
  OBVIOUS
<1> DEFINE F == ss[1]
<1>2. ASSUME NEW k \in DOMAIN F
      PROVE  \E i \in 1..1 : \E j \in DOMAIN ss[i] :
                /\ F[k] = ss[i][j]
                /\ \A h \in 1..1 : \A g \in DOMAIN ss[h] :
                      h < i \/ (h = i /\ g < j) => \E l \in 1..(k - 1) : F[l] = ss[h][g]
  <2>1. \A h \in 1..1 : \A g \in DOMAIN ss[h] :
           h < 1 \/ (h = 1 /\ g < k) => \E l \in 1..(k - 1) : F[l] = ss[h][g]
    <3> SUFFICES ASSUME NEW g \in DOMAIN ss[1], g < k PROVE g \in 1..(k - 1)
      OBVIOUS
    <3> QED BY <1>1
  <2> QED BY <2>1
<1>3. \A i \in 1..1 : i = 1
  OBVIOUS
<1>4. \A i \in 1..1 : \A j \in DOMAIN ss[i] : \E k \in DOMAIN F : F[k] = ss[i][j]
  BY <1>3
<1> QED BY <1>1, <1>2, <1>4 DEF Follows

LEMMA FollowsMore ==
    ASSUME NEW S, NEW n \in Nat, NEW ss, ss \in [1..n -> Seq(S)], NEW m \in 1..(n - 1),
           NEW F \in Seq(S), Follows(ss, m, F)
    PROVE  Follows(ss, m + 1, F \o ss[m + 1])
<1> DEFINE B == ss[m + 1]
           G == F \o B
           Before(k, i, j) ==
               \A h \in 1..(m + 1) : \A g \in DOMAIN ss[h] :
                  h < i \/ (h = i /\ g < j) => \E l \in 1..(k - 1) : G[l] = ss[h][g]
<1>1. B \in Seq(S) /\ DOMAIN B = 1..Len(B) /\ Len(F) \in Nat /\ Len(B) \in Nat /\ DOMAIN F = 1..Len(F)
  OBVIOUS
<1>2. /\ DOMAIN G = 1..(Len(F) + Len(B))
      /\ \A k \in 1..Len(F) : G[k] = F[k]
      /\ \A k \in 1..Len(B) : G[Len(F) + k] = B[k]
  BY <1>1, ConcatElements
<1> HIDE DEF G
<1>3. \A i \in 1..m : \A j \in DOMAIN ss[i] : \E k \in 1..Len(F) : G[k] = ss[i][j]
  BY <1>1, <1>2 DEF Follows
<1>4. ASSUME NEW k \in 1..Len(F)
      PROVE  \E i \in 1..(m + 1) : \E j \in DOMAIN ss[i] : G[k] = ss[i][j] /\ Before(k, i, j)
  <2>1. PICK i \in 1..m : \E j \in DOMAIN ss[i] :
          /\ F[k] = ss[i][j]
          /\ \A h \in 1..m : \A g \in DOMAIN ss[h] :
                h < i \/ (h = i /\ g < j) => \E l \in 1..(k - 1) : F[l] = ss[h][g]
    <3>1. k \in DOMAIN F
      BY <1>1
    <3> QED BY <3>1 DEF Follows
  <2>2. PICK j \in DOMAIN ss[i] :
          /\ F[k] = ss[i][j]
          /\ \A h \in 1..m : \A g \in DOMAIN ss[h] :
                h < i \/ (h = i /\ g < j) => \E l \in 1..(k - 1) : F[l] = ss[h][g]
    BY <2>1
  <2>3. \A l \in 1..(k - 1) : G[l] = F[l]
    BY <1>1, <1>2
  <2>4. Before(k, i, j)
    BY <2>2, <2>3
  <2> HIDE DEF Before
  <2>5. G[k] = ss[i][j]
    BY <1>2, <2>2
  <2>6. i \in 1..(m + 1)
    OBVIOUS
  <2> QED BY <2>4, <2>5, <2>6
<1>5. ASSUME NEW b \in 1..Len(B)
      PROVE  Before(Len(F) + b, m + 1, b)
  <2> SUFFICES ASSUME NEW h \in 1..(m + 1), NEW g \in DOMAIN ss[h], h < m + 1 \/ (h = m + 1 /\ g < b)
               PROVE  \E l \in 1..(Len(F) + b - 1) : G[l] = ss[h][g]
    OBVIOUS
  <2>1. CASE h < m + 1
    <3>0. h \in 1..m
      BY <2>1
    <3>1. PICK l \in 1..Len(F) : G[l] = ss[h][g]
      BY <1>3, <3>0
    <3>2. l \in 1..(Len(F) + b - 1)
      BY <1>1
    <3> QED BY <3>1, <3>2
  <2>2. CASE h = m + 1 /\ g < b
    <3>1. g \in 1..Len(B) /\ G[Len(F) + g] = ss[h][g]
      BY <1>1, <1>2, <2>2
    <3>2. Len(F) + g \in 1..(Len(F) + b - 1)
      BY <1>1, <2>2, <3>1
    <3> QED BY <3>1, <3>2
  <2> QED BY <2>1, <2>2
<1>6. ASSUME NEW k \in DOMAIN G
      PROVE  \E i \in 1..(m + 1) : \E j \in DOMAIN ss[i] : G[k] = ss[i][j] /\ Before(k, i, j)
  <2>1. CASE k \in 1..Len(F)
    BY <1>4, <2>1
  <2>2. CASE k \notin 1..Len(F)
    <3> DEFINE b == k - Len(F)
    <3>0. k \in Nat /\ k > Len(F) /\ k <= Len(F) + Len(B)
      BY <1>1, <1>2, <2>2
    <3>1. b \in 1..Len(B) /\ k = Len(F) + b
      BY <1>1, <3>0
    <3> HIDE DEF b
    <3>2. G[k] = ss[m + 1][b] /\ b \in DOMAIN ss[m + 1] /\ m + 1 \in 1..(m + 1)
      BY <1>1, <1>2, <3>1
    <3>3. Before(k, m + 1, b)
      BY <1>5, <3>1
    <3> QED BY <3>2, <3>3
  <2> QED BY <2>1, <2>2
<1>7. ASSUME NEW i \in 1..(m + 1), NEW j \in DOMAIN ss[i]
      PROVE  \E k \in DOMAIN G : G[k] = ss[i][j]
  <2>0. i \in 1..m \/ i = m + 1
    OBVIOUS
  <2>1. CASE i \in 1..m
    <3>1. PICK k \in 1..Len(F) : G[k] = ss[i][j]
      BY <1>3, <2>1
    <3>2. k \in DOMAIN G
      BY <1>1, <1>2
    <3> QED BY <3>1, <3>2
  <2>2. CASE i = m + 1
    <3>1. j \in 1..Len(B) /\ G[Len(F) + j] = ss[i][j] /\ Len(F) + j \in DOMAIN G
      BY <1>1, <1>2, <2>2
    <3> QED BY <3>1
  <2> QED BY <2>0, <2>1, <2>2
<1> QED BY <1>6, <1>7 DEF Follows, G

(* FlattenSeq: its recursion has a solution, built up from the first sequence. *)
Flattening(ss) == CHOOSE f : f = [i \in 1..Len(ss) |-> IF i = 1 THEN ss[i] ELSE f[i - 1] \o ss[i]]

Flattens(ss, m, f) == \A i \in 1..m : f[i] = IF i = 1 THEN ss[i] ELSE f[i - 1] \o ss[i]

LEMMA FlatExists ==
    ASSUME NEW S, NEW n \in Nat, NEW ss, ss \in [1..n -> Seq(S)], n # 0
    PROVE  \E f \in [1..n -> Seq(S)] : Flattens(ss, n, f) /\ \A i \in 1..n : Follows(ss, i, f[i])
<1> DEFINE P(m) == \E f \in [1..m -> Seq(S)] : Flattens(ss, m, f) /\ \A i \in 1..m : Follows(ss, i, f[i])
           Bad == {m \in 1..n : ~P(m)}
<1>1. P(1)
  <2> DEFINE f == [i \in 1..1 |-> ss[1]]
  <2>1. f \in [1..1 -> Seq(S)] /\ f[1] = ss[1] /\ \A i \in 1..1 : i = 1
    OBVIOUS
  <2>2. Flattens(ss, 1, f)
    BY <2>1 DEF Flattens
  <2>3. Follows(ss, 1, ss[1])
    BY FollowsOne
  <2> QED BY <2>1, <2>2, <2>3
<1>2. ASSUME NEW m \in 1..(n - 1), P(m)
      PROVE  P(m + 1)
  <2>1. PICK f \in [1..m -> Seq(S)] : Flattens(ss, m, f) /\ \A i \in 1..m : Follows(ss, i, f[i])
    BY <1>2
  <2> DEFINE g == [i \in 1..(m + 1) |-> IF i = m + 1 THEN f[m] \o ss[m + 1] ELSE f[i]]
  <2>2. f[m] \in Seq(S) /\ ss[m + 1] \in Seq(S) /\ f[m] \o ss[m + 1] \in Seq(S)
    BY ConcatElements
  <2>3. /\ g \in [1..(m + 1) -> Seq(S)]
        /\ g[m + 1] = f[m] \o ss[m + 1]
        /\ \A i \in 1..m : g[i] = f[i]
    <3>1. /\ m + 1 \in 1..(m + 1)
          /\ \A i \in 1..(m + 1) : i # m + 1 => i \in 1..m
          /\ \A i \in 1..m : i # m + 1 /\ i \in 1..(m + 1)
      OBVIOUS
    <3>2. \A i \in 1..m : f[i] \in Seq(S)
      OBVIOUS
    <3> QED BY <2>2, <3>1, <3>2
  <2> HIDE DEF g
  <2>4. Flattens(ss, m + 1, g)
    <3> SUFFICES ASSUME NEW i \in 1..(m + 1)
                 PROVE  g[i] = IF i = 1 THEN ss[i] ELSE g[i - 1] \o ss[i]
      BY DEF Flattens
    <3>1. CASE i = m + 1
      <4>1. g[m] = f[m] /\ i # 1 /\ i - 1 = m
        BY <2>3, <3>1
      <4> QED BY <2>3, <3>1, <4>1
    <3>2. CASE i # m + 1
      <4>1. i \in 1..m /\ (i # 1 => i - 1 \in 1..m)
        BY <3>2
      <4>2. f[i] = IF i = 1 THEN ss[i] ELSE f[i - 1] \o ss[i]
        BY <2>1, <4>1 DEF Flattens
      <4> QED BY <2>3, <4>1, <4>2
    <3> QED BY <3>1, <3>2
  <2>5. ASSUME NEW i \in 1..(m + 1)
        PROVE  Follows(ss, i, g[i])
    <3>1. CASE i = m + 1
      <4>1. Follows(ss, m, f[m])
        BY <2>1
      <4>2. Follows(ss, m + 1, f[m] \o ss[m + 1])
        BY <2>2, <4>1, FollowsMore
      <4> QED BY <2>3, <3>1, <4>2
    <3>2. CASE i # m + 1
      <4>1. i \in 1..m
        BY <3>2
      <4> QED BY <2>1, <2>3, <4>1
    <3> QED BY <3>1, <3>2
  <2> QED BY <2>3, <2>4, <2>5
<1>3. Bad = {}
  <2> SUFFICES ASSUME Bad # {} PROVE FALSE
    OBVIOUS
  <2> DEFINE m == Min(Bad)
  <2>1. m \in Bad /\ \A y \in Bad : m <= y
    <3>1. Bad \subseteq Nat
      OBVIOUS
    <3> QED BY <3>1, MinOfNat
  <2> HIDE DEF m
  <2>2. m # 1 /\ m \in 1..n
    BY <1>1, <2>1
  <2>a. m - 1 \in 1..(n - 1) /\ m - 1 \in 1..n /\ ~(m <= m - 1)
    BY <2>2
  <2>3. m - 1 \in 1..(n - 1) /\ m - 1 \in 1..n /\ m - 1 \notin Bad
    <3> HIDE DEF Bad
    <3> QED BY <2>1, <2>a
  <2>4. P(m - 1)
    BY <2>3
  <2>5. P((m - 1) + 1)
    <3> DEFINE l == m - 1
    <3>1. l \in 1..(n - 1) /\ P(l)
      BY <2>3, <2>4
    <3> HIDE DEF l, P
    <3>2. P(l + 1)
      BY <1>2, <3>1
    <3> QED BY <3>2 DEF l
  <2>6. (m - 1) + 1 = m
    BY <2>2
  <2> HIDE DEF P
  <2>7. P(m)
    BY <2>5, <2>6
  <2> QED BY <2>1, <2>7
<1>4. n \in 1..n
  OBVIOUS
<1> HIDE DEF P
<1>5. P(n)
  BY <1>3, <1>4
<1> QED BY <1>5 DEF P

LEMMA Flattened ==
    ASSUME NEW S, NEW n \in Nat, NEW ss, ss \in [1..n -> Seq(S)]
    PROVE  /\ FlattenSeq(ss) \in Seq(S)
           /\ Follows(ss, n, FlattenSeq(ss))
<1>0. Len(ss) = n
  OBVIOUS
<1>1. CASE n = 0
  <2>1. ss = <<>> /\ FlattenSeq(ss) = ss
    BY <1>0, <1>1 DEF FlattenSeq
  <2>2. Follows(ss, 0, ss)
    <3>1. DOMAIN ss = {} /\ 1..0 = {}
      BY <2>1
    <3>2. \A k \in DOMAIN ss : FALSE
      BY <3>1
    <3>3. \A i \in 1..0 : FALSE
      BY <3>1
    <3> QED BY Zenon, <3>2, <3>3 DEF Follows
  <2>3. ss \in Seq(S)
    BY <2>1
  <2>4. FlattenSeq(ss) \in Seq(S)
    BY <2>1, <2>3
  <2>5. Follows(ss, n, FlattenSeq(ss))
    BY Zenon, <1>1, <2>1, <2>2
  <2> QED BY <2>4, <2>5
<1>2. CASE n # 0
  <2>1. PICK f \in [1..n -> Seq(S)] : Flattens(ss, n, f) /\ \A i \in 1..n : Follows(ss, i, f[i])
    BY <1>2, FlatExists
  <2>2. f = [i \in 1..n |-> IF i = 1 THEN ss[i] ELSE f[i - 1] \o ss[i]]
    BY <2>1 DEF Flattens
  <2> DEFINE g == Flattening(ss)
  <2>3. g = [i \in 1..n |-> IF i = 1 THEN ss[i] ELSE g[i - 1] \o ss[i]]
    BY <1>0, <2>2 DEF Flattening
  <2>4. FlattenSeq(ss) = g[n]
    BY <1>0, <1>2 DEF FlattenSeq, Flattening
  <2> HIDE DEF g
  <2> DEFINE Bad == {i \in 1..n : g[i] # f[i]}
  <2>5. Bad = {}
    <3> SUFFICES ASSUME Bad # {} PROVE FALSE
      OBVIOUS
    <3> DEFINE m == Min(Bad)
    <3>1. m \in Bad /\ \A y \in Bad : m <= y
      <4>1. Bad \subseteq Nat
        OBVIOUS
      <4> QED BY <4>1, MinOfNat
    <3> HIDE DEF m
    <3>2. m \in 1..n /\ g[m] # f[m]
      BY <3>1
    <3>3. m # 1
      BY <2>2, <2>3, <3>2
    <3>4. m - 1 \in 1..n /\ m - 1 \notin Bad
      BY <3>1, <3>2, <3>3
    <3>5. g[m - 1] = f[m - 1]
      BY <3>4
    <3>6. g[m] = g[m - 1] \o ss[m] /\ f[m] = f[m - 1] \o ss[m]
      BY <2>2, <2>3, <3>2, <3>3
    <3> QED BY <3>2, <3>5, <3>6
  <2>6. n \in 1..n
    BY <1>2
  <2>7. g[n] = f[n]
    BY <2>5, <2>6
  <2> QED BY <2>1, <2>4, <2>6, <2>7
<1> QED BY <1>1, <1>2

-----------------------------------------------------------------------------
(* The types of the state.                                                  *)

Active == {"look", "verify", "check", "owner", "create", "await"}
Modes == {"unit", "created", "repair", "notice", "again"}
Endings == {"no", "completed", "failed"}
Fixes == Files \cup {"none"}
Units == [mid : Mids, part : Nat, fix : Fixes, text : BOOLEAN, files : SUBSET Files]
Post == [mid : Mids, part : Nat, fix : Fixes, claims : SUBSET Files,
         held : SUBSET Files, live : BOOLEAN, intact : BOOLEAN, late : BOOLEAN]
Threads == UNION {[D -> Post] : D \in SUBSET Nat}
Passes ==
    [pc : Requests \cup {"idle", "look"}, ended : Endings, said : 0 .. Len(Messages), seen : Threads,
     known : Nat, stopped : BOOLEAN, skip : BOOLEAN, at : Nat, mode : Modes, fix : Fixes,
     todo : SUBSET Files, rest : SUBSET Files, reply : Nat]
Exported == [ready : BOOLEAN, files : SUBSET Files]

Types ==
    /\ said \in 0 .. Len(Messages) /\ ended \in Endings /\ export \in Exported
    /\ posts \in Seq(Post) /\ files \in [Files -> [up : BOOLEAN, post : Nat]] /\ late \subseteq Units
    /\ pass \in Passes
    /\ suspended \in BOOLEAN /\ faults \in Nat /\ tampers \in Nat

LEMMA PartsType ==
    ASSUME NEW i \in DOMAIN Messages, NEW carried \in SUBSET Files
    PROVE  LET n == IF Messages[i].parts = 0 THEN 1 ELSE Messages[i].parts
               q == PartsOf(Messages[i], carried)
           IN  /\ n \in Nat \ {0} /\ q \in Seq(Units) /\ DOMAIN q = 1 .. n
               /\ \A k \in 1 .. n :
                     q[k] = Unit(Messages[i].mid, k - 1, Messages[i].parts > 0, IF k = 1 THEN carried ELSE {})
<1> DEFINE n == IF Messages[i].parts = 0 THEN 1 ELSE Messages[i].parts
           q == PartsOf(Messages[i], carried)
<1>1. n \in Nat \ {0} /\ Messages[i].parts \in Nat
  BY MessagesAssumption
<1>2. q = [k \in 1 .. n |-> Unit(Messages[i].mid, k - 1, Messages[i].parts > 0, IF k = 1 THEN carried ELSE {})]
  BY DEF PartsOf
<1>3. \A k \in 1 .. n : Unit(Messages[i].mid, k - 1, Messages[i].parts > 0, IF k = 1 THEN carried ELSE {}) \in Units
  <2> TAKE k \in 1 .. n
  <2>1. k - 1 \in Nat /\ Messages[i].mid \in Mids /\ "none" \in Fixes /\ (Messages[i].parts > 0) \in BOOLEAN
    BY <1>1 DEF Mids, Fixes
  <2>2. (IF k = 1 THEN carried ELSE {}) \in SUBSET Files
    OBVIOUS
  <2> QED BY <2>1, <2>2 DEF Unit, Units
<1> HIDE DEF n, q
<1>4. q \in [1 .. n -> Units]
  BY <1>2, <1>3
<1>5. q \in Seq(Units) /\ DOMAIN q = 1 .. n
  BY <1>1, <1>4
<1>6. \A k \in 1 .. n :
         q[k] = Unit(Messages[i].mid, k - 1, Messages[i].parts > 0, IF k = 1 THEN carried ELSE {})
  BY <1>2
<1> QED BY <1>1, <1>5, <1>6 DEF n, q

LEMMA OptionalElements ==
    ASSUME NEW S, NEW c \in BOOLEAN, NEW u \in S
    PROVE  /\ Optional(c, u) \in Seq(S) /\ Len(Optional(c, u)) \in Nat
           /\ DOMAIN Optional(c, u) = 1 .. Len(Optional(c, u))
           /\ \A k \in 1 .. Len(Optional(c, u)) : c /\ Optional(c, u)[k] = u
           /\ c => 1 \in DOMAIN Optional(c, u) /\ Optional(c, u)[1] = u
<1>1. CASE c
  <2> DEFINE q == Optional(c, u)
  <2>1. q = <<u>>
    BY <1>1 DEF Optional
  <2> HIDE DEF q
  <2>2. q \in Seq(S) /\ Len(q) = 1 /\ q[1] = u
    BY <2>1
  <2>3. DOMAIN q = 1 .. 1
    BY <2>2, SeqElements
  <2>4. \A k \in 1 .. 1 : k = 1
    OBVIOUS
  <2>5. Len(q) \in Nat /\ 1 \in DOMAIN q /\ DOMAIN q = 1 .. Len(q)
    BY <2>2, <2>3
  <2>6. \A k \in 1 .. Len(q) : c /\ q[k] = u
    BY <1>1, <2>2, <2>4
  <2> QED BY <2>2, <2>5, <2>6 DEF q
<1>2. CASE ~c
  <2>1. Optional(c, u) = <<>>
    BY <1>2 DEF Optional
  <2> QED BY <1>2, <2>1
<1> QED BY <1>1, <1>2

(* The output of a run.                                                     *)
LEMMA OutputType ==
    ASSUME export \in Exported, NEW p \in Passes
    PROVE  Output(p) \in SUBSET Files /\ \A i : Carried(p, i) \in SUBSET Files
BY DEF Output, Carried, Exported

(* What the agenda of a pass is made of.                                    *)
Spoke(p, i) == IF Shown(p, i) THEN PartsOf(Messages[i], Carried(p, i)) ELSE <<>>

LEMMA SpokenType ==
    ASSUME export \in Exported, NEW p \in Passes
    PROVE  /\ [i \in 1 .. p.said |-> Spoke(p, i)] \in [1 .. p.said -> Seq(Units)]
           /\ Spoken(p) \in Seq(Units)
           /\ Follows([i \in 1 .. p.said |-> Spoke(p, i)], p.said, Spoken(p))
           /\ p.said \in Nat /\ 1 .. p.said \subseteq DOMAIN Messages
<1>1. p.said \in 0 .. Len(Messages) /\ Len(Messages) \in Nat /\ DOMAIN Messages = 1 .. Len(Messages)
  BY MessagesAssumption DEF Passes
<1>2. p.said \in Nat /\ 1 .. p.said \subseteq DOMAIN Messages
  BY <1>1
<1>3. ASSUME NEW i \in 1 .. p.said
      PROVE  Spoke(p, i) \in Seq(Units)
  <2>1. i \in DOMAIN Messages
    BY <1>2
  <2>2. Carried(p, i) \in SUBSET Files
    BY OutputType
  <2>3. PartsOf(Messages[i], Carried(p, i)) \in Seq(Units)
    BY <2>1, <2>2, PartsType
  <2>4. <<>> \in Seq(Units)
    OBVIOUS
  <2> QED BY <2>3, <2>4 DEF Spoke
<1> DEFINE ss == [i \in 1 .. p.said |-> Spoke(p, i)]
<1>4. ss \in [1 .. p.said -> Seq(Units)]
  BY <1>3
<1>5. Spoken(p) = FlattenSeq(ss)
  BY DEF Spoken, Spoke
<1> HIDE DEF ss
<1>6. FlattenSeq(ss) \in Seq(Units) /\ Follows(ss, p.said, FlattenSeq(ss))
  BY <1>2, <1>4, Flattened
<1> QED BY <1>2, <1>4, <1>5, <1>6 DEF ss

(* One unit of an agenda: the notice, a part of a message that is shown, the
   list of files, the failure, or the word that there is nothing.           *)
Part(p, u, i, k) ==
    /\ Shown(p, i)
    /\ u = Unit(Messages[i].mid, k - 1, Messages[i].parts > 0, IF k = 1 THEN Carried(p, i) ELSE {})
Parts(i) == 1 .. (IF Messages[i].parts = 0 THEN 1 ELSE Messages[i].parts)
Closing(p, u) ==
    \/ FilesOnly(p) /\ u = Unit("files", 0, FALSE, Output(p))
    \/ p.ended = "failed" /\ u = Unit("status", 0, TRUE, {})
    \/ p.ended = "completed" /\ u = Unit("empty", 0, TRUE, {})

LEMMA SpokenElements ==
    ASSUME export \in Exported, NEW p \in Passes, NEW l \in DOMAIN Spoken(p)
    PROVE  \E i \in 1 .. p.said : \E k \in Parts(i) :
              /\ Part(p, Spoken(p)[l], i, k)
              /\ \A h \in 1 .. p.said : \A g \in Parts(h) :
                    Shown(p, h) /\ (h < i \/ (h = i /\ g < k)) =>
                        \E j \in 1 .. (l - 1) : Part(p, Spoken(p)[j], h, g)
<1> DEFINE ss == [i \in 1 .. p.said |-> Spoke(p, i)]
<1>1. /\ Follows(ss, p.said, Spoken(p)) /\ p.said \in Nat /\ 1 .. p.said \subseteq DOMAIN Messages
  BY SpokenType
<1>2. ASSUME NEW i \in 1 .. p.said
      PROVE  /\ Shown(p, i) => DOMAIN ss[i] = Parts(i) /\ \A k \in Parts(i) : Part(p, ss[i][k], i, k)
             /\ ~Shown(p, i) => DOMAIN ss[i] = {}
  <2>1. ss[i] = Spoke(p, i) /\ i \in DOMAIN Messages /\ Carried(p, i) \in SUBSET Files
    BY <1>1, OutputType
  <2>2. CASE Shown(p, i)
    <3>1. ss[i] = PartsOf(Messages[i], Carried(p, i))
      BY <2>1, <2>2 DEF Spoke
    <3> HIDE DEF ss
    <3>2. DOMAIN ss[i] = Parts(i) /\ \A k \in Parts(i) : Part(p, ss[i][k], i, k)
      BY <2>1, <2>2, <3>1, PartsType DEF Parts, Part
    <3> QED BY <2>2, <3>2
  <2>3. CASE ~Shown(p, i)
    BY <2>1, <2>3 DEF Spoke
  <2> QED BY <2>2, <2>3
<1> HIDE DEF ss
<1>3. PICK i \in 1 .. p.said : \E k \in DOMAIN ss[i] :
         /\ Spoken(p)[l] = ss[i][k]
         /\ \A h \in 1 .. p.said : \A g \in DOMAIN ss[h] :
               h < i \/ (h = i /\ g < k) => \E j \in 1 .. (l - 1) : Spoken(p)[j] = ss[h][g]
  BY <1>1 DEF Follows
<1>4. PICK k \in DOMAIN ss[i] :
         /\ Spoken(p)[l] = ss[i][k]
         /\ \A h \in 1 .. p.said : \A g \in DOMAIN ss[h] :
               h < i \/ (h = i /\ g < k) => \E j \in 1 .. (l - 1) : Spoken(p)[j] = ss[h][g]
  BY <1>3
<1>5. k \in Parts(i) /\ Part(p, Spoken(p)[l], i, k)
  BY <1>2, <1>4
<1>6. ASSUME NEW h \in 1 .. p.said, NEW g \in Parts(h), Shown(p, h), h < i \/ (h = i /\ g < k)
      PROVE  \E j \in 1 .. (l - 1) : Part(p, Spoken(p)[j], h, g)
  <2>1. g \in DOMAIN ss[h] /\ Part(p, ss[h][g], h, g)
    BY <1>2, <1>6
  <2>2. PICK j \in 1 .. (l - 1) : Spoken(p)[j] = ss[h][g]
    BY <1>4, <1>6, <2>1
  <2> QED BY <2>1, <2>2
<1> QED BY <1>5, <1>6

LEMMA SpokenAll ==
    ASSUME export \in Exported, NEW p \in Passes,
           NEW h \in 1 .. p.said, NEW g \in Parts(h), Shown(p, h)
    PROVE  \E j \in DOMAIN Spoken(p) : Part(p, Spoken(p)[j], h, g)
<1> DEFINE ss == [i \in 1 .. p.said |-> Spoke(p, i)]
<1>1. /\ Follows(ss, p.said, Spoken(p)) /\ 1 .. p.said \subseteq DOMAIN Messages
  BY SpokenType
<1>2. ss[h] = PartsOf(Messages[h], Carried(p, h)) /\ h \in DOMAIN Messages /\ Carried(p, h) \in SUBSET Files
  BY <1>1, OutputType DEF Spoke
<1> HIDE DEF ss
<1>3. DOMAIN ss[h] = Parts(h) /\ Part(p, ss[h][g], h, g)
  BY <1>2, PartsType DEF Parts, Part
<1>4. \E j \in DOMAIN Spoken(p) : Spoken(p)[j] = ss[h][g]
  BY <1>1, <1>3 DEF Follows
<1> QED BY <1>3, <1>4

(* An agenda: at most the notice, what was spoken, what closes the run.      *)
LEMMA AgendaSections ==
    ASSUME export \in Exported, NEW p \in Passes
    PROVE  /\ Agenda(p) \in Seq(Units) /\ Len(Agenda(p)) \in Nat /\ DOMAIN Agenda(p) = 1 .. Len(Agenda(p))
           /\ \E a \in Nat :
                 /\ \A k \in DOMAIN Agenda(p) :
                       \/ k <= a /\ Unknown(p) /\ Agenda(p)[k] = Notice
                       \/ k - a \in DOMAIN Spoken(p) /\ Agenda(p)[k] = Spoken(p)[k - a]
                       \/ k > a + Len(Spoken(p)) /\ Closing(p, Agenda(p)[k])
                 /\ \A l \in DOMAIN Spoken(p) : a + l \in DOMAIN Agenda(p) /\ Agenda(p)[a + l] = Spoken(p)[l]
<1> DEFINE uF == Unit("files", 0, FALSE, Output(p))
           uS == Unit("status", 0, TRUE, {})
           uE == Unit("empty", 0, TRUE, {})
           cE == p.ended = "completed" /\ ~Answered(p) /\ ~p.stopped /\ export.ready
           A == Optional(Unknown(p), Notice)
           B == Spoken(p)
           C == Optional(FilesOnly(p), uF)
           D == Optional(p.ended = "failed", uS)
           E == Optional(cE, uE)
<1>1. Notice \in Units /\ uF \in Units /\ uS \in Units /\ uE \in Units
  <2>1. Output(p) \in SUBSET Files
    BY OutputType
  <2>2. {"notice", "files", "status", "empty"} \subseteq Mids /\ "none" \in Fixes /\ 0 \in Nat
    BY DEF Mids, Fixes
  <2> QED BY <2>1, <2>2 DEF Notice, Unit, Units
<1>2. B \in Seq(Units) /\ Len(B) \in Nat /\ DOMAIN B = 1 .. Len(B)
  <2>1. B \in Seq(Units)
    BY SpokenType
  <2> QED BY <2>1, SeqElements
<1>3. cE \in BOOLEAN /\ FilesOnly(p) \in BOOLEAN /\ Unknown(p) \in BOOLEAN /\ (p.ended = "failed") \in BOOLEAN
  BY DEF FilesOnly, Unknown
<1> DEFINE Opt(q, c, u) == /\ q \in Seq(Units) /\ Len(q) \in Nat /\ DOMAIN q = 1 .. Len(q)
                           /\ \A k \in 1 .. Len(q) : c /\ q[k] = u
<1>4. Opt(A, Unknown(p), Notice) /\ Opt(C, FilesOnly(p), uF) /\ Opt(D, p.ended = "failed", uS) /\ Opt(E, cE, uE)
  <2> HIDE DEF uF, uS, uE, cE
  <2> QED BY <1>1, <1>3, OptionalElements
<1>5. Agenda(p) = (((A \o B) \o C) \o D) \o E
  BY DEF Agenda
<1>6. cE => p.ended = "completed"
  OBVIOUS
<1> HIDE DEF A, B, C, D, E, cE
<1> DEFINE P1 == A \o B
           P2 == P1 \o C
           P3 == P2 \o D
           P4 == P3 \o E
<1> DEFINE Joined(P, X, Y) == /\ P \in Seq(Units) /\ Len(P) = Len(X) + Len(Y) /\ DOMAIN P = 1 .. (Len(X) + Len(Y))
                              /\ \A k \in 1 .. Len(X) : P[k] = X[k]
                              /\ \A k \in 1 .. Len(Y) : P[Len(X) + k] = Y[k]
<1>7. ASSUME NEW X \in Seq(Units), NEW Y \in Seq(Units)
      PROVE  Joined(X \o Y, X, Y)
  BY ConcatElements
<1> HIDE DEF Joined
<1>8. A \in Seq(Units) /\ C \in Seq(Units) /\ D \in Seq(Units) /\ E \in Seq(Units)
  BY <1>4
<1>9. Joined(P1, A, B)
  BY <1>2, <1>7, <1>8
<1>10. P1 \in Seq(Units)
  BY <1>9 DEF Joined
<1>11. Joined(P2, P1, C)
  BY <1>7, <1>8, <1>10
<1>12. P2 \in Seq(Units)
  BY <1>11 DEF Joined
<1>13. Joined(P3, P2, D)
  BY <1>7, <1>8, <1>12
<1>14. P3 \in Seq(Units)
  BY <1>13 DEF Joined
<1>15. Joined(P4, P3, E)
  BY <1>7, <1>8, <1>14
<1> HIDE DEF P1, P2, P3, P4
<1> DEFINE a == Len(A)
           b == Len(B)
           c == Len(C)
           d == Len(D)
           e == Len(E)
<1>16. a \in Nat /\ b \in Nat /\ c \in Nat /\ d \in Nat /\ e \in Nat
  BY <1>2, <1>4
<1>17. Len(P1) = a + b /\ Len(P2) = a + b + c /\ Len(P3) = a + b + c + d /\ DOMAIN P4 = 1 .. (a + b + c + d + e)
       /\ Len(P4) = a + b + c + d + e
  <2>1. Len(P1) = a + b
    BY <1>9 DEF Joined
  <2>2. Len(P2) = a + b + c
    BY <1>11, <2>1 DEF Joined
  <2>3. Len(P3) = a + b + c + d
    BY <1>13, <2>2 DEF Joined
  <2> QED BY <1>15, <2>1, <2>2, <2>3 DEF Joined
<1>18. /\ \A k \in 1 .. a : P1[k] = A[k]
       /\ \A k \in 1 .. b : P1[a + k] = B[k]
       /\ \A k \in 1 .. (a + b) : P2[k] = P1[k]
       /\ \A k \in 1 .. c : P2[a + b + k] = C[k]
       /\ \A k \in 1 .. (a + b + c) : P3[k] = P2[k]
       /\ \A k \in 1 .. d : P3[a + b + c + k] = D[k]
       /\ \A k \in 1 .. (a + b + c + d) : P4[k] = P3[k]
       /\ \A k \in 1 .. e : P4[a + b + c + d + k] = E[k]
  BY <1>9, <1>11, <1>13, <1>15, <1>17 DEF Joined
<1> HIDE DEF a, b, c, d, e
<1>19. \A k \in 1 .. (a + b) : P4[k] = P1[k]
  BY <1>16, <1>18
<1>20. ASSUME NEW k \in 1 .. (a + b + c + d + e)
       PROVE  \/ k <= a /\ Unknown(p) /\ P4[k] = Notice
              \/ k - a \in DOMAIN B /\ P4[k] = B[k - a]
              \/ k > a + b /\ Closing(p, P4[k])
  <2>1. CASE k \in 1 .. a
    <3>1. P4[k] = A[k] /\ k <= a
      BY <1>16, <1>18, <1>19, <2>1
    <3>2. Unknown(p) /\ A[k] = Notice
      BY <1>4, <2>1 DEF a
    <3> QED BY <3>1, <3>2
  <2>2. CASE k \in (a + 1) .. (a + b)
    <3>1. k - a \in 1 .. b /\ k \in 1 .. (a + b) /\ a + (k - a) = k
      BY <1>16, <2>2
    <3>2. P4[k] = B[k - a]
      BY <1>18, <1>19, <3>1
    <3> QED BY <1>2, <3>1, <3>2 DEF b
  <2>3. CASE k \in (a + b + 1) .. (a + b + c)
    <3>1. k - (a + b) \in 1 .. c /\ a + b + (k - (a + b)) = k /\ k > a + b /\ k \in 1 .. (a + b + c + d) /\ k \in 1 .. (a + b + c)
      BY <1>16, <2>3
    <3>2. P4[k] = C[k - (a + b)]
      BY <1>18, <3>1
    <3>3. FilesOnly(p) /\ C[k - (a + b)] = uF
      BY <1>4, <3>1 DEF c
    <3> QED BY <3>1, <3>2, <3>3 DEF Closing
  <2>4. CASE k \in (a + b + c + 1) .. (a + b + c + d)
    <3>1. k - (a + b + c) \in 1 .. d /\ a + b + c + (k - (a + b + c)) = k /\ k > a + b /\ k \in 1 .. (a + b + c + d)
      BY <1>16, <2>4
    <3>2. P4[k] = D[k - (a + b + c)]
      BY <1>18, <3>1
    <3>3. p.ended = "failed" /\ D[k - (a + b + c)] = uS
      BY <1>4, <3>1 DEF d
    <3> QED BY <3>1, <3>2, <3>3 DEF Closing
  <2>5. CASE k \in (a + b + c + d + 1) .. (a + b + c + d + e)
    <3>1. k - (a + b + c + d) \in 1 .. e /\ a + b + c + d + (k - (a + b + c + d)) = k /\ k > a + b
      BY <1>16, <2>5
    <3>2. P4[k] = E[k - (a + b + c + d)]
      BY <1>18, <3>1
    <3>3. cE /\ E[k - (a + b + c + d)] = uE
      BY <1>4, <3>1 DEF e
    <3> QED BY <1>6, <3>1, <3>2, <3>3 DEF Closing
  <2> QED BY <1>16, <2>1, <2>2, <2>3, <2>4, <2>5
<1>21. ASSUME NEW l \in 1 .. b
       PROVE  a + l \in 1 .. (a + b + c + d + e) /\ P4[a + l] = B[l]
  <2>1. a + l \in 1 .. (a + b) /\ a + l \in 1 .. (a + b + c + d + e)
    BY <1>16
  <2> QED BY <1>18, <1>19, <2>1
<1>22. Agenda(p) = P4
  BY <1>5 DEF P1, P2, P3, P4
<1>23. P4 \in Seq(Units) /\ Len(P4) \in Nat /\ DOMAIN P4 = 1 .. Len(P4)
  BY <1>15, <1>16, <1>17 DEF Joined
<1>24. DOMAIN B = 1 .. b
  BY <1>2 DEF b
<1> HIDE DEF Closing
<1>25. /\ \A k \in DOMAIN P4 :
             \/ k <= a /\ Unknown(p) /\ P4[k] = Notice
             \/ k - a \in DOMAIN B /\ P4[k] = B[k - a]
             \/ k > a + b /\ Closing(p, P4[k])
       /\ \A l \in DOMAIN B : a + l \in DOMAIN P4 /\ P4[a + l] = B[l]
  BY <1>17, <1>20, <1>21, <1>24
<1> QED BY <1>16, <1>22, <1>23, <1>25 DEF B, b

(* Where the units of an agenda come from.                                  *)
LEMMA AgendaUnits ==
    ASSUME export \in Exported, NEW p \in Passes, NEW k \in DOMAIN Agenda(p)
    PROVE  \/ Unknown(p) /\ Agenda(p)[k] = Notice
           \/ \E i \in 1 .. p.said : \E j \in Parts(i) : Part(p, Agenda(p)[k], i, j)
           \/ Closing(p, Agenda(p)[k])
<1>1. PICK a \in Nat :
         \A l \in DOMAIN Agenda(p) :
             \/ l <= a /\ Unknown(p) /\ Agenda(p)[l] = Notice
             \/ l - a \in DOMAIN Spoken(p) /\ Agenda(p)[l] = Spoken(p)[l - a]
             \/ l > a + Len(Spoken(p)) /\ Closing(p, Agenda(p)[l])
  BY AgendaSections
<1>2. CASE k - a \in DOMAIN Spoken(p) /\ Agenda(p)[k] = Spoken(p)[k - a]
  <2>1. \E i \in 1 .. p.said : \E j \in Parts(i) : Part(p, Spoken(p)[k - a], i, j)
    BY <1>2, SpokenElements
  <2> QED BY <1>2, <2>1
<1> QED BY <1>1, <1>2

(* An agenda depends on what the pass has read and on the output of the run. *)
Kept(p, q) ==
    q.said = p.said /\ q.ended = p.ended /\ q.stopped = p.stopped /\ q.seen = p.seen /\ q.known = p.known

LEMMA AgendaSame ==
    ASSUME NEW p, NEW q, q.said = p.said, q.ended = p.ended, q.stopped = p.stopped
    PROVE  /\ Agenda(q) = Agenda(p) /\ Output(q) = Output(p) /\ Unknown(q) = Unknown(p) /\ Ended(q) = Ended(p)
           /\ \A i : Shown(q, i) = Shown(p, i) /\ Carried(q, i) = Carried(p, i)
<1>1. Output(q) = Output(p) /\ Unknown(q) = Unknown(p) /\ Ended(q) = Ended(p)
  BY DEF Output, Unknown, Ended
<1>2. \A i : Carried(q, i) = Carried(p, i)
  BY <1>1 DEF Carried
<1>3. \A i : Shown(q, i) = Shown(p, i)
  BY <1>1, <1>2 DEF Shown
<1>4. Spoken(q) = Spoken(p)
  BY <1>2, <1>3 DEF Spoken
<1>5. FilesOnly(q) = FilesOnly(p)
  BY <1>1 DEF FilesOnly
<1>6. Answered(q) = Answered(p)
  BY <1>3, <1>5 DEF Answered
<1> QED BY <1>1, <1>2, <1>3, <1>4, <1>5, <1>6 DEF Agenda

LEMMA AgendaNext ==
    ASSUME export' = export
    PROVE  /\ Agenda(pass)' = Agenda(pass') /\ Cur(pass)' = Cur(pass')
           /\ Output(pass)' = Output(pass') /\ Unknown(pass)' = Unknown(pass') /\ FilesOnly(pass)' = FilesOnly(pass')
           /\ \A i : Shown(pass, i)' = Shown(pass', i) /\ Carried(pass, i)' = Carried(pass', i)
<1>1. Output(pass)' = Output(pass') /\ Unknown(pass)' = Unknown(pass')
  BY DEF Output, Unknown, Ended
<1>2. \A i : Carried(pass, i)' = Carried(pass', i)
  BY <1>1 DEF Carried
<1>3. \A i : Shown(pass, i)' = Shown(pass', i)
  BY <1>1, <1>2 DEF Shown, Ended
<1>4. Spoken(pass)' = Spoken(pass')
  BY <1>2, <1>3 DEF Spoken
<1>5. FilesOnly(pass)' = FilesOnly(pass')
  BY <1>1 DEF FilesOnly
<1>6. Answered(pass)' = Answered(pass')
  BY <1>3, <1>5 DEF Answered
<1>7. Agenda(pass)' = Agenda(pass')
  BY <1>1, <1>2, <1>3, <1>4, <1>5, <1>6 DEF Agenda
<1> QED BY <1>1, <1>2, <1>3, <1>5, <1>7 DEF Cur

(* The run that ends is one the pass has found active: it has no output yet.  *)
LEMMA AgendaWhileActive ==
    ASSUME pass' = pass, pass.ended = "no"
    PROVE  /\ Agenda(pass)' = Agenda(pass) /\ Cur(pass)' = Cur(pass)
           /\ Output(pass)' = Output(pass) /\ Unknown(pass)' = Unknown(pass) /\ FilesOnly(pass)' = FilesOnly(pass)
           /\ \A i : Shown(pass, i)' = Shown(pass, i) /\ Carried(pass, i)' = Carried(pass, i)
<1>1. Output(pass)' = Output(pass) /\ Unknown(pass)' = Unknown(pass)
  BY DEF Output, Unknown, Ended
<1>2. \A i : Carried(pass, i)' = Carried(pass, i)
  BY <1>1 DEF Carried
<1>3. \A i : Shown(pass, i)' = Shown(pass, i)
  BY <1>1, <1>2 DEF Shown, Ended
<1>4. Spoken(pass)' = Spoken(pass)
  BY <1>2, <1>3 DEF Spoken
<1>5. FilesOnly(pass)' = FilesOnly(pass)
  BY <1>1 DEF FilesOnly
<1>6. Answered(pass)' = Answered(pass)
  BY <1>3, <1>5 DEF Answered
<1>7. Agenda(pass)' = Agenda(pass)
  BY <1>1, <1>2, <1>3, <1>4, <1>5, <1>6 DEF Agenda
<1> QED BY <1>1, <1>2, <1>3, <1>5, <1>7 DEF Cur

-----------------------------------------------------------------------------
(* A pass and where it goes.                                                *)

OnAgenda(p) == IF p.pc \in Active THEN p.at \in 1 .. Len(Agenda(p)) ELSE p.at = 0
Mending(p) == p.mode = "repair" <=> p.fix # "none"
Busy(p) == p.pc \in {"verify", "check", "owner"} => p.todo # {}
Good(p) == p \in Passes /\ OnAgenda(p) /\ Mending(p) /\ Busy(p)

LEMMA FirstIn == ASSUME NEW S, S # {} PROVE First(S) \in S
BY DEF First

LEMMA NoPassGood ==
    ASSUME export \in Exported
    PROVE  Good(NoPass)
<1>1. <<>> \in Threads
  <2>1. <<>> \in [{} -> Post] /\ {} \in SUBSET Nat
    OBVIOUS
  <2> QED BY <2>1 DEF Threads
<1>2. NoPass \in Passes
  <2>1. Len(Messages) \in Nat /\ 0 \in 0 .. Len(Messages) /\ "none" \in Fixes
    BY MessagesAssumption DEF Fixes
  <2> QED BY <1>1, <2>1 DEF NoPass, Passes, Modes, Endings
<1> QED BY <1>2 DEF Good, NoPass, OnAgenda, Mending, Busy, Active

LEMMA AdvanceGood ==
    ASSUME export \in Exported, NEW p \in Passes, p.at \in 0 .. Len(Agenda(p)), p.fix = "none", NEW skip \in BOOLEAN
    PROVE  LET q == Advance(p, skip) IN
           /\ Good(q)
           /\ q = NoPass \/ (/\ Kept(p, q) /\ q.pc = "look" /\ q.at = p.at + 1 /\ q.mode = "unit"
                             /\ q.skip = skip /\ q.reply = 0 /\ q.fix = "none")
<1>1. CASE p.at >= Len(Agenda(p))
  BY <1>1, NoPassGood DEF Advance
<1>2. CASE ~(p.at >= Len(Agenda(p)))
  <2> DEFINE q == Advance(p, skip)
  <2>1. q = [p EXCEPT !.pc = "look", !.at = @ + 1, !.mode = "unit", !.todo = {}, !.reply = 0, !.skip = skip]
    BY <1>2 DEF Advance
  <2> HIDE DEF q
  <2>2. /\ Kept(p, q) /\ q.pc = "look" /\ q.at = p.at + 1 /\ q.mode = "unit" /\ q.skip = skip /\ q.reply = 0
        /\ q.fix = "none"
    BY <2>1 DEF Passes, Kept
  <2>a. p.at \in Nat /\ p.at + 1 \in Nat /\ {} \in SUBSET Files
    BY DEF Passes
  <2>b. q = [p EXCEPT !.pc = "look", !.at = p.at + 1, !.mode = "unit", !.todo = {}, !.reply = 0, !.skip = skip]
    BY <2>1
  <2>3. q \in Passes
    BY <2>a, <2>b DEF Passes, Modes
  <2>4. Agenda(q) = Agenda(p)
    BY <2>2, AgendaSame DEF Kept
  <2>5. p.at + 1 \in 1 .. Len(Agenda(p))
    <3>1. Len(Agenda(p)) \in Nat
      BY AgendaSections
    <3> QED BY <1>2, <3>1
  <2>6. Good(q)
    BY <2>2, <2>3, <2>4, <2>5 DEF Good, OnAgenda, Mending, Busy, Active
  <2> QED BY <2>2, <2>6 DEF q
<1> QED BY <1>1, <1>2

(* The five ways to go on when Publish has succeeded.                       *)
LEMMA DoneGood ==
    ASSUME export \in Exported, NEW p, Good(p), p.pc \in Active
    PROVE  LET q == Done(p)
               u == Agenda(p)[p.at]
           IN  /\ Good(q)
               /\ q = NoPass \/ (Kept(p, q) /\ q.reply = 0)
               /\ \/ q = NoPass
                  \/ /\ p.mode = "repair" /\ p.rest # {} /\ q.pc = "verify" /\ q.mode = "unit" /\ q.at = p.at
                     /\ q.todo = p.rest /\ q.skip = p.skip
                  \/ /\ q.pc = "look" /\ q.at = p.at + 1 /\ q.mode = "unit"
                     /\ q.skip = (p.skip \/ p.mode = "notice" \/ (p.mode # "repair" /\ u = Notice))
                     /\ p.mode = "notice" => ~u.text
                  \/ /\ p.mode = "notice" /\ u.text /\ q.pc = "look" /\ q.mode = "again" /\ q.at = p.at /\ q.skip
<1> DEFINE q == Done(p)
           u == Agenda(p)[p.at]
<1>0. p \in Passes /\ p.at \in 1 .. Len(Agenda(p)) /\ Len(Agenda(p)) \in Nat /\ Mending(p) /\ p.mode \in Modes
  BY AgendaSections DEF Good, OnAgenda, Passes
<1>1. p.at \in 0 .. Len(Agenda(p)) /\ p.at \in 1 .. Len(Agenda(p)) /\ p.skip \in BOOLEAN
  BY <1>0 DEF Passes
<1>2. CASE p.mode = "repair" /\ p.rest # {}
  <2>1. q = [p EXCEPT !.pc = "verify", !.mode = "unit", !.fix = "none", !.todo = p.rest, !.rest = {}, !.reply = 0]
    BY <1>2 DEF Done
  <2> HIDE DEF q
  <2>2. /\ Kept(p, q) /\ q.pc = "verify" /\ q.mode = "unit" /\ q.at = p.at /\ q.todo = p.rest /\ q.skip = p.skip
        /\ q.reply = 0 /\ q.fix = "none"
    BY <1>0, <2>1 DEF Passes, Kept
  <2>3. q \in Passes
    BY <1>0, <2>1 DEF Passes, Modes, Fixes, Requests
  <2>4. Agenda(q) = Agenda(p)
    BY <2>2, AgendaSame DEF Kept
  <2>5. Good(q)
    BY <1>1, <1>2, <2>2, <2>3, <2>4 DEF Good, OnAgenda, Mending, Busy, Active
  <2> QED BY <1>2, <2>2, <2>5 DEF q
<1>3. CASE p.mode = "repair" /\ p.rest = {}
  <2> DEFINE r == [p EXCEPT !.fix = "none"]
  <2>1. q = Advance(r, p.skip)
    BY <1>3 DEF Done
  <2>2. r \in Passes /\ Kept(p, r) /\ r.at = p.at /\ r.fix = "none"
    BY <1>0 DEF Passes, Fixes, Kept
  <2> HIDE DEF q, r
  <2>3. Agenda(r) = Agenda(p)
    BY <2>2, AgendaSame DEF Kept
  <2>4. /\ Good(q)
        /\ q = NoPass \/ (/\ Kept(r, q) /\ q.pc = "look" /\ q.at = r.at + 1 /\ q.mode = "unit"
                          /\ q.skip = p.skip /\ q.reply = 0 /\ q.fix = "none")
    BY <1>1, <2>1, <2>2, <2>3, AdvanceGood
  <2>5. Kept(r, q) => Kept(p, q)
    BY <2>2 DEF Kept
  <2> QED BY <1>1, <1>3, <2>2, <2>4, <2>5 DEF q
<1>4. p.mode # "repair" => p.fix = "none"
  BY <1>0 DEF Mending
<1>5. CASE p.mode = "notice" /\ u.text
  <2>1. q = [p EXCEPT !.pc = "look", !.mode = "again", !.skip = TRUE, !.reply = 0]
    BY <1>5 DEF Done
  <2> HIDE DEF q
  <2>2. /\ Kept(p, q) /\ q.pc = "look" /\ q.mode = "again" /\ q.at = p.at /\ q.skip /\ q.reply = 0
        /\ q.fix = "none"
    BY <1>0, <1>4, <1>5, <2>1 DEF Passes, Kept
  <2>3. q \in Passes
    BY <1>0, <2>1 DEF Passes, Modes
  <2>4. Agenda(q) = Agenda(p)
    BY <2>2, AgendaSame DEF Kept
  <2>5. Good(q)
    BY <1>1, <2>2, <2>3, <2>4 DEF Good, OnAgenda, Mending, Busy, Active
  <2> QED BY <1>5, <2>2, <2>5 DEF q
<1>6. CASE p.mode = "notice" /\ ~u.text
  <2>1. q = Advance(p, TRUE)
    BY <1>6 DEF Done
  <2> HIDE DEF q
  <2>2. /\ Good(q)
        /\ q = NoPass \/ (/\ Kept(p, q) /\ q.pc = "look" /\ q.at = p.at + 1 /\ q.mode = "unit"
                          /\ q.skip = TRUE /\ q.reply = 0 /\ q.fix = "none")
    BY <1>0, <1>1, <1>4, <1>6, <2>1, AdvanceGood
  <2> QED BY <1>6, <2>2 DEF q
<1>7. CASE p.mode \notin {"repair", "notice"}
  <2> DEFINE s == p.skip \/ u = Notice
  <2>1. q = Advance(p, s)
    BY <1>7 DEF Done
  <2>0. s \in BOOLEAN
    OBVIOUS
  <2>a. s = (p.skip \/ p.mode = "notice" \/ (p.mode # "repair" /\ u = Notice))
    BY <1>7
  <2> HIDE DEF q, s
  <2>2. /\ Good(q)
        /\ q = NoPass \/ (/\ Kept(p, q) /\ q.pc = "look" /\ q.at = p.at + 1 /\ q.mode = "unit"
                          /\ q.skip = s /\ q.reply = 0 /\ q.fix = "none")
    BY <1>0, <1>1, <1>4, <1>7, <2>0, <2>1, AdvanceGood
  <2> QED BY <1>7, <2>2, <2>a DEF q
<1> QED BY <1>2, <1>3, <1>5, <1>6, <1>7

LEMMA MissingGood ==
    ASSUME export \in Exported, NEW p, Good(p), p.pc \in Active
    PROVE  LET q == Missing(p) IN
           /\ Good(q) /\ Kept(p, q) /\ q.pc = "look" /\ q.mode = "notice" /\ q.at = p.at /\ q.skip = p.skip /\ q.reply = 0
<1> DEFINE q == Missing(p)
<1>0. p \in Passes /\ p.at \in 1 .. Len(Agenda(p))
  BY DEF Good, OnAgenda
<1>1. q = [p EXCEPT !.pc = "look", !.mode = "notice", !.fix = "none", !.todo = {}, !.rest = {}, !.reply = 0]
  BY DEF Missing
<1> HIDE DEF q
<1>2. /\ Kept(p, q) /\ q.pc = "look" /\ q.mode = "notice" /\ q.at = p.at /\ q.skip = p.skip /\ q.reply = 0 /\ q.fix = "none"
  BY <1>0, <1>1 DEF Passes, Kept
<1>3. q \in Passes
  BY <1>0, <1>1 DEF Passes, Modes, Fixes
<1>4. Agenda(q) = Agenda(p)
  BY <1>2, AgendaSame DEF Kept
<1>5. Good(q)
  BY <1>0, <1>2, <1>3, <1>4 DEF Good, OnAgenda, Mending, Busy, Active
<1> QED BY <1>2, <1>5 DEF q

LEMMA MendGood ==
    ASSUME export \in Exported, NEW p, Good(p), p.pc \in Active, NEW f \in Files
    PROVE  LET q == Mend(p, f) IN
           /\ Good(q) /\ Kept(p, q) /\ q.pc = "look" /\ q.at = p.at /\ q.skip = p.skip
           /\ \/ p.mode = "repair" /\ q.mode = "notice" /\ q.reply = 0
              \/ p.mode = "created" /\ q.mode = "unit" /\ q.reply = p.reply
              \/ p.mode \notin {"repair", "created"} /\ q.mode = "repair" /\ q.fix = f /\ q.rest = p.todo \ {f} /\ q.reply = 0
<1> DEFINE q == Mend(p, f)
<1>0. p \in Passes /\ p.at \in 1 .. Len(Agenda(p)) /\ Mending(p)
  BY DEF Good, OnAgenda
<1>1. CASE p.mode = "repair"
  BY <1>1, MissingGood DEF Mend
<1>2. CASE p.mode = "created"
  <2>1. q = [p EXCEPT !.pc = "look", !.mode = "unit", !.todo = {}]
    BY <1>2 DEF Mend
  <2> HIDE DEF q
  <2>2. /\ Kept(p, q) /\ q.pc = "look" /\ q.mode = "unit" /\ q.at = p.at /\ q.skip = p.skip /\ q.reply = p.reply
        /\ q.fix = "none"
    BY <1>0, <1>2, <2>1 DEF Passes, Kept, Mending
  <2>3. q \in Passes
    BY <1>0, <2>1 DEF Passes, Modes
  <2>4. Agenda(q) = Agenda(p)
    BY <2>2, AgendaSame DEF Kept
  <2>5. Good(q)
    BY <1>0, <2>2, <2>3, <2>4 DEF Good, OnAgenda, Mending, Busy, Active
  <2> QED BY <1>2, <2>2, <2>5 DEF q
<1>3. CASE p.mode \notin {"repair", "created"}
  <2>1. q = [p EXCEPT !.pc = "look", !.mode = "repair", !.fix = f, !.rest = p.todo \ {f}, !.todo = {}, !.reply = 0]
    BY <1>3 DEF Mend
  <2> HIDE DEF q
  <2>2. /\ Kept(p, q) /\ q.pc = "look" /\ q.mode = "repair" /\ q.at = p.at /\ q.skip = p.skip /\ q.reply = 0
        /\ q.fix = f /\ q.rest = p.todo \ {f}
    BY <1>0, <2>1 DEF Passes, Kept
  <2>a. p.todo \ {f} \in SUBSET Files /\ f \in Fixes /\ f # "none"
    BY <1>0, BoundAssumption DEF Passes, Fixes
  <2>3. q \in Passes
    BY <1>0, <2>1, <2>a DEF Passes, Modes
  <2>4. Agenda(q) = Agenda(p)
    BY <2>2, AgendaSame DEF Kept
  <2>5. Good(q)
    BY <1>0, <2>2, <2>3, <2>4, <2>a DEF Good, OnAgenda, Mending, Busy, Active
  <2> QED BY <1>3, <2>2, <2>5 DEF q
<1> QED BY <1>1, <1>2, <1>3

(* What a pass is about.                                                    *)
LEMMA CurType ==
    ASSUME export \in Exported, NEW p, Good(p), p.pc \in Active
    PROVE  /\ Cur(p) \in Units /\ Agenda(p)[p.at] \in Units /\ p.at \in DOMAIN Agenda(p)
           /\ p.mode = "notice" => Cur(p) = Notice
           /\ p.mode \notin {"notice", "repair"} => Cur(p) = Agenda(p)[p.at]
           /\ p.mode = "repair" => p.fix \in Files /\ Cur(p) = Repair(Agenda(p)[p.at], p.fix)
<1>1. p \in Passes /\ p.at \in 1 .. Len(Agenda(p)) /\ Mending(p)
  BY DEF Good, OnAgenda
<1>2. Agenda(p)[p.at] \in Units /\ p.at \in DOMAIN Agenda(p)
  <2>1. Agenda(p) \in Seq(Units) /\ DOMAIN Agenda(p) = 1 .. Len(Agenda(p))
    BY <1>1, AgendaSections
  <2> QED BY <1>1, <2>1, SeqElements
<1>3. CASE p.mode = "notice"
  <2>1. Notice \in Units
    BY DEF Notice, Unit, Units, Mids, Fixes
  <2> QED BY <1>2, <1>3, <2>1 DEF Cur
<1>4. CASE p.mode = "repair"
  <2>1. p.fix \in Files
    BY <1>1, <1>4 DEF Mending, Passes, Fixes
  <2>2. Cur(p) = Repair(Agenda(p)[p.at], p.fix)
    BY <1>4 DEF Cur
  <2>a. {p.fix} \in SUBSET Files /\ p.fix \in Fixes
    BY <2>1 DEF Fixes
  <2>b. ASSUME NEW u \in Units PROVE Repair(u, p.fix) \in Units
    BY <2>a DEF Repair, Units
  <2>3. Cur(p) \in Units
    BY <1>2, <2>2, <2>b
  <2> QED BY <1>2, <1>4, <2>1, <2>2, <2>3
<1>5. CASE p.mode \notin {"notice", "repair"}
  BY <1>2, <1>5 DEF Cur
<1> QED BY <1>3, <1>4, <1>5

LEMMA AskedType ==
    ASSUME export \in Exported, Good(pass), pass.pc \in Active
    PROVE  /\ Asked \in Units /\ SameKey(Asked, Cur(pass)) /\ Asked.text = Cur(pass).text
           /\ Asked.files = IF pass.skip THEN {} ELSE Cur(pass).files
<1>1. Cur(pass) \in Units
  BY CurType
<1> QED BY <1>1 DEF Asked, Units, SameKey

LEMMA GoodPrime ==
    ASSUME export' = export
    PROVE  Good(pass)' <=> Good(pass')
<1>1. Agenda(pass)' = Agenda(pass')
  BY AgendaNext
<1> QED BY <1>1 DEF Good, OnAgenda, Mending, Busy, Passes, Threads, Post, Fixes, Mids

-----------------------------------------------------------------------------
(* The invariant.                                                           *)

Reached ==
    /\ pass.pc = "idle" => pass = NoPass
    /\ pass.pc \notin Active => pass.mode = "unit"
    /\ pass.ended # "no" => pass.ended = ended
    /\ pass.pc \in Active \cup {"thread"} /\ pass.ended # "no" => pass.said = said
    /\ pass.said <= said
Replied ==
    pass.reply # 0 => pass.pc = "await" /\ pass.reply \in DOMAIN posts /\ SameKey(posts[pass.reply], Cur(pass))
Bindings ==
    /\ \A f \in Files : files[f].post \in 0 .. Len(posts)
    /\ \A i \in DOMAIN posts : posts[i].held = {f \in Files : files[f].post = i}

Sound == Types /\ Bindings /\ Good(pass) /\ Reached /\ Replied

(* A step of the pass that leaves the rest as it is.                        *)
LEMMA PassSound ==
    ASSUME Sound, UNCHANGED <<run, posts, files>>, late' \subseteq Units,
           suspended' \in BOOLEAN, faults' \in Nat, tampers' \in Nat,
           Good(pass'), pass' = NoPass \/ (pass.pc \in Active /\ pass'.pc \in Active /\ Kept(pass, pass') /\ pass'.reply = 0)
    PROVE  Sound'
<1>1. export' = export /\ said' = said /\ ended' = ended /\ posts' = posts /\ files' = files
  BY DEF run
<1>2. Types'
  BY <1>1 DEF Sound, Types, Good, Exported, Post, Fixes, Mids, Units, Passes, Threads
<1>3. Bindings'
  BY <1>1 DEF Sound, Bindings
<1>4. Good(pass)'
  BY <1>1, GoodPrime
<1>5. Reached'
  <2>1. CASE pass' = NoPass
    <3>1. said \in Nat
      BY MessagesAssumption DEF Sound, Types
    <3> QED BY <1>1, <2>1, <3>1 DEF Reached, NoPass, Active
  <2>2. CASE pass.pc \in Active /\ pass'.pc \in Active /\ Kept(pass, pass')
    BY <1>1, <2>2 DEF Sound, Reached, Kept, Active
  <2> QED BY <2>1, <2>2
<1>6. Replied'
  <2>1. pass'.reply = 0
    BY DEF NoPass
  <2> QED BY <2>1 DEF Replied
<1> QED BY <1>2, <1>3, <1>4, <1>5, <1>6 DEF Sound

(* The steps of a pass that decide where it goes next.                      *)
LEMMA LookGood ==
    ASSUME Sound, Look
    PROVE  \/ pass' = NoPass /\ suspended' = TRUE /\ UNCHANGED <<run, mattermost, bounds>> /\ Conflicts(Cur(pass))
           \/ /\ ~Conflicts(Cur(pass)) /\ Good(pass') /\ UNCHANGED <<run, mattermost, suspended, bounds>>
              /\ pass' = NoPass \/ (pass'.pc \in Active /\ Kept(pass, pass') /\ pass'.reply = 0)
              /\ \/ Matches(Cur(pass)) # {} /\ (pass.skip \/ Found(Cur(pass)).claims = {}) /\ pass' = Done(pass)
                 \/ /\ Matches(Cur(pass)) # {} /\ ~pass.skip /\ Found(Cur(pass)).claims # {}
                    /\ pass' = [pass EXCEPT !.pc = "verify", !.todo = Found(Cur(pass)).claims]
                 \/ /\ Matches(Cur(pass)) = {} /\ (pass.skip \/ Cur(pass).files = {})
                    /\ pass' = [pass EXCEPT !.pc = "create"]
                 \/ /\ Matches(Cur(pass)) = {} /\ ~pass.skip /\ Cur(pass).files # {}
                    /\ pass' = [pass EXCEPT !.pc = "check", !.todo = Cur(pass).files]
<1> DEFINE u == Cur(pass)
<1>0. /\ pass.pc = "look" /\ pass.pc \in Active /\ Good(pass) /\ export \in Exported /\ pass \in Passes
      /\ pass.at \in 1 .. Len(Agenda(pass)) /\ Mending(pass) /\ pass.reply = 0
  BY DEF Sound, Types, Look, At, Active, Good, OnAgenda, Replied
<1>1. CASE Conflicts(u)
  BY <1>1 DEF Look, Conflict
<1>2. CASE ~Conflicts(u)
  <2>1. ASSUME Matches(u) # {}, pass.skip \/ Found(u).claims = {}
        PROVE  pass' = Done(pass) /\ UNCHANGED <<run, mattermost, suspended, bounds>>
    BY <1>2, <2>1 DEF Look, Step
  <2>2. ASSUME Matches(u) # {}, ~pass.skip, Found(u).claims # {}
        PROVE  pass' = [pass EXCEPT !.pc = "verify", !.todo = Found(Cur(pass)).claims]
               /\ UNCHANGED <<run, mattermost, suspended, bounds>>
    BY <1>2, <2>2 DEF Look, Step
  <2>3. ASSUME Matches(u) = {}, pass.skip \/ u.files = {}
        PROVE  pass' = [pass EXCEPT !.pc = "create"] /\ UNCHANGED <<run, mattermost, suspended, bounds>>
    BY <1>2, <2>3 DEF Look, Step
  <2>4. ASSUME Matches(u) = {}, ~pass.skip, u.files # {}
        PROVE  pass' = [pass EXCEPT !.pc = "check", !.todo = Cur(pass).files]
               /\ UNCHANGED <<run, mattermost, suspended, bounds>>
    BY <1>2, <2>4 DEF Look, Step
  <2> DEFINE Moved == Good(pass') /\ (pass' = NoPass \/ (pass'.pc \in Active /\ Kept(pass, pass') /\ pass'.reply = 0))
  <2>5. ASSUME NEW pc \in {"verify", "check", "create"}, NEW S \in SUBSET Files,
               pass' = [pass EXCEPT !.pc = pc, !.todo = S], pc = "create" \/ S # {}
        PROVE  Moved
    <3> DEFINE q == pass'
    <3>1. /\ q.pc = pc /\ q.todo = S /\ Kept(pass, q) /\ q.at = pass.at /\ q.mode = pass.mode /\ q.fix = pass.fix
          /\ q.reply = 0
      BY <1>0, <2>5 DEF Passes, Kept
    <3>2. q \in Passes
      BY <1>0, <2>5 DEF Passes, Requests
    <3> HIDE DEF q
    <3>3. Agenda(q) = Agenda(pass)
      BY <3>1, AgendaSame DEF Kept
    <3>4. Good(q)
      BY <1>0, <2>5, <3>1, <3>2, <3>3 DEF Good, OnAgenda, Mending, Busy, Active
    <3>5. q.pc \in Active
      BY <3>1 DEF Active
    <3> QED BY <3>1, <3>4, <3>5 DEF q
  <2>6. ASSUME pass' = [pass EXCEPT !.pc = "create"]
        PROVE  Moved
    <3>1. pass.todo \in SUBSET Files /\ pass' = [pass EXCEPT !.pc = "create", !.todo = pass.todo]
      BY <1>0, <2>6 DEF Passes
    <3> QED BY <2>5, <3>1
  <2>7. ASSUME pass' = Done(pass)
        PROVE  Moved
    <3>1. Good(Done(pass)) /\ (Done(pass) = NoPass \/ (Kept(pass, Done(pass)) /\ Done(pass).reply = 0 /\ Done(pass).pc \in {"look", "verify"}))
      BY <1>0, DoneGood
    <3> QED BY <2>7, <3>1 DEF Active
  <2>8. Matches(u) # {} => Found(u).claims \in SUBSET Files
    <3> SUFFICES ASSUME Matches(u) # {} PROVE Found(u).claims \in SUBSET Files
      OBVIOUS
    <3>1. First(Matches(u)) \in DOMAIN pass.seen
      BY FirstIn DEF Matches
    <3>2. pass.seen \in Threads
      BY <1>0 DEF Passes
    <3>3. Found(u) \in Post
      BY <3>1, <3>2 DEF Found, Threads
    <3> QED BY <3>3 DEF Post
  <2>9. u.files \in SUBSET Files
    BY <1>0, CurType DEF Units
  <2> HIDE DEF Moved, u
  <2>10. CASE Matches(u) # {} /\ (pass.skip \/ Found(u).claims = {})
    <3>1. Moved
      BY <2>1, <2>7, <2>10
    <3> QED BY <1>2, <2>1, <2>10, <3>1 DEF Moved, u
  <2>11. CASE Matches(u) # {} /\ ~pass.skip /\ Found(u).claims # {}
    <3>1. pass' = [pass EXCEPT !.pc = "verify", !.todo = Found(u).claims]
      BY <2>2, <2>11 DEF u
    <3>2. Moved
      BY <2>5, <2>8, <2>11, <3>1
    <3> QED BY <1>2, <2>2, <2>11, <3>2 DEF Moved, u
  <2>12. CASE Matches(u) = {} /\ (pass.skip \/ u.files = {})
    <3>1. Moved
      BY <2>3, <2>6, <2>12
    <3> QED BY <1>2, <2>3, <2>12, <3>1 DEF Moved, u
  <2>13. CASE Matches(u) = {} /\ ~pass.skip /\ u.files # {}
    <3>1. pass' = [pass EXCEPT !.pc = "check", !.todo = u.files]
      BY <2>4, <2>13 DEF u
    <3>2. Moved
      BY <2>5, <2>9, <2>13, <3>1
    <3> QED BY <1>2, <2>4, <2>13, <3>2 DEF Moved, u
  <2> QED BY <2>10, <2>11, <2>12, <2>13
<1> QED BY <1>1, <1>2 DEF u

LEMMA VerifyGood ==
    ASSUME Sound, Verify
    PROVE  /\ Good(pass') /\ UNCHANGED <<run, mattermost, suspended, bounds>>
           /\ pass' = NoPass \/ (pass'.pc \in Active /\ Kept(pass, pass') /\ pass'.reply = 0)
           /\ \/ pass' = Done(pass)
              \/ \E f \in pass.todo : pass' = Mend(pass, f)
              \/ \E f \in pass.todo : pass.todo # {f} /\ pass' = [pass EXCEPT !.todo = @ \ {f}]
<1> DEFINE f == First(pass.todo)
<1>0. /\ pass.pc = "verify" /\ pass.pc \in Active /\ Good(pass) /\ export \in Exported /\ pass \in Passes
      /\ pass.at \in 1 .. Len(Agenda(pass)) /\ Mending(pass) /\ pass.reply = 0 /\ pass.todo # {}
  BY DEF Sound, Types, Verify, At, Active, Good, OnAgenda, Busy, Replied
<1>1. f \in pass.todo /\ f \in Files
  BY <1>0, FirstIn DEF Passes
<1>2. UNCHANGED <<run, mattermost, suspended, bounds>>
  BY DEF Verify, Step
<1>3. \/ pass' = Mend(pass, f)
      \/ pass' = Done(pass)
      \/ pass.todo # {f} /\ pass' = [pass EXCEPT !.todo = @ \ {f}]
  BY DEF Verify, Step
<1> HIDE DEF f
<1>4. CASE pass' = Mend(pass, f)
  <2>1. Good(pass') /\ pass'.pc = "look" /\ Kept(pass, pass') /\ pass'.reply = 0
    BY <1>0, <1>1, <1>4, MendGood
  <2> QED BY <1>1, <1>2, <1>4, <2>1 DEF Active
<1>5. CASE pass' = Done(pass)
  <2>1. Good(Done(pass)) /\ (Done(pass) = NoPass \/ (Kept(pass, Done(pass)) /\ Done(pass).reply = 0 /\ Done(pass).pc \in {"look", "verify"}))
    BY <1>0, DoneGood
  <2> QED BY <1>2, <1>5, <2>1 DEF Active
<1>6. CASE pass.todo # {f} /\ pass' = [pass EXCEPT !.todo = @ \ {f}]
  <2> DEFINE q == pass'
  <2>1. pass.todo \ {f} \in SUBSET Files /\ pass.todo \ {f} # {}
    BY <1>0, <1>1, <1>6 DEF Passes
  <2>2. /\ q.pc = "verify" /\ q.todo = pass.todo \ {f} /\ Kept(pass, q) /\ q.at = pass.at /\ q.mode = pass.mode
        /\ q.fix = pass.fix /\ q.reply = 0
    BY <1>0, <1>6 DEF Passes, Kept
  <2>3. q \in Passes
    BY <1>0, <1>6, <2>1 DEF Passes
  <2> HIDE DEF q
  <2>4. Agenda(q) = Agenda(pass)
    BY <2>2, AgendaSame DEF Kept
  <2>5. Good(q)
    BY <1>0, <2>1, <2>2, <2>3, <2>4 DEF Good, OnAgenda, Mending, Busy, Active
  <2> QED BY <1>1, <1>2, <1>6, <2>2, <2>5 DEF q, Active
<1> QED BY <1>3, <1>4, <1>5, <1>6

LEMMA CheckGood ==
    ASSUME Sound, Check
    PROVE  /\ Good(pass') /\ UNCHANGED <<run, mattermost, suspended, bounds>>
           /\ pass'.pc \in Active /\ Kept(pass, pass') /\ pass'.reply = 0
           /\ \/ pass' = Missing(pass)
              \/ /\ files[First(pass.todo)].post \notin DOMAIN pass.seen /\ files[First(pass.todo)].post # 0
                 /\ pass' = [pass EXCEPT !.pc = "owner"]
              \/ \E f \in pass.todo :
                    pass' = [pass EXCEPT !.todo = @ \ {f}, !.pc = IF pass.todo = {f} THEN "create" ELSE "check"]
<1> DEFINE f == First(pass.todo)
<1>0. /\ pass.pc = "check" /\ pass.pc \in Active /\ Good(pass) /\ export \in Exported /\ pass \in Passes
      /\ pass.at \in 1 .. Len(Agenda(pass)) /\ Mending(pass) /\ pass.reply = 0 /\ pass.todo # {}
  BY DEF Sound, Types, Check, At, Active, Good, OnAgenda, Busy, Replied
<1>1. f \in pass.todo /\ f \in Files
  BY <1>0, FirstIn DEF Passes
<1>2. UNCHANGED <<run, mattermost, suspended, bounds>>
  BY DEF Check, Step
<1>3. \/ pass' = Missing(pass)
      \/ /\ files[f].post \notin DOMAIN pass.seen /\ files[f].post # 0 /\ pass' = [pass EXCEPT !.pc = "owner"]
      \/ pass' = [pass EXCEPT !.todo = @ \ {f}, !.pc = IF pass.todo = {f} THEN "create" ELSE "check"]
  BY DEF Check, Step
<1>4. CASE pass' = Missing(pass)
  <2>1. Good(pass') /\ pass'.pc = "look" /\ Kept(pass, pass') /\ pass'.reply = 0
    BY <1>0, <1>4, MissingGood
  <2> QED BY <1>2, <1>4, <2>1 DEF Active
<1>5. ASSUME NEW pc \in {"owner", "create", "check"}, NEW S \in SUBSET Files,
             pass' = [pass EXCEPT !.todo = S, !.pc = pc], pc = "create" \/ S # {}
      PROVE  Good(pass') /\ pass'.pc \in Active /\ Kept(pass, pass') /\ pass'.reply = 0
  <2> DEFINE q == pass'
  <2>1. /\ q.pc = pc /\ q.todo = S /\ Kept(pass, q) /\ q.at = pass.at /\ q.mode = pass.mode
        /\ q.fix = pass.fix /\ q.reply = 0
    BY <1>0, <1>5 DEF Passes, Kept
  <2>2. q \in Passes
    BY <1>0, <1>5 DEF Passes, Requests
  <2> HIDE DEF q
  <2>3. Agenda(q) = Agenda(pass)
    BY <2>1, AgendaSame DEF Kept
  <2>4. Good(q)
    BY <1>0, <1>5, <2>1, <2>2, <2>3 DEF Good, OnAgenda, Mending, Busy, Active
  <2> QED BY <2>1, <2>4 DEF q, Active
<1> HIDE DEF f
<1>6. CASE /\ files[f].post \notin DOMAIN pass.seen /\ files[f].post # 0 /\ pass' = [pass EXCEPT !.pc = "owner"]
  <2>1. pass.todo \in SUBSET Files /\ pass' = [pass EXCEPT !.todo = pass.todo, !.pc = "owner"]
    BY <1>0, <1>6 DEF Passes
  <2>2. Good(pass') /\ pass'.pc \in Active /\ Kept(pass, pass') /\ pass'.reply = 0
    BY <1>0, <1>5, <2>1
  <2> QED BY <1>2, <1>6, <2>2 DEF f
<1>7. CASE pass' = [pass EXCEPT !.todo = @ \ {f}, !.pc = IF pass.todo = {f} THEN "create" ELSE "check"]
  <2> DEFINE pc == IF pass.todo = {f} THEN "create" ELSE "check"
             S == pass.todo \ {f}
  <2>1. S \in SUBSET Files /\ pc \in {"owner", "create", "check"} /\ (pc = "create" \/ S # {})
    BY <1>0, <1>1 DEF Passes
  <2>2. pass' = [pass EXCEPT !.todo = S, !.pc = pc]
    BY <1>7
  <2> HIDE DEF pc, S
  <2>3. Good(pass') /\ pass'.pc \in Active /\ Kept(pass, pass') /\ pass'.reply = 0
    BY <1>5, <2>1, <2>2
  <2> QED BY <1>1, <1>2, <1>7, <2>3
<1> QED BY <1>3, <1>4, <1>6, <1>7

LEMMA OwnerGood ==
    ASSUME Sound, Owner
    PROVE  /\ UNCHANGED <<run, mattermost, bounds>>
           /\ \/ pass' = NoPass /\ suspended' = TRUE /\ posts[files[First(pass.todo)].post].live
              \/ /\ pass' = Missing(pass) /\ UNCHANGED suspended
                 /\ Good(pass') /\ pass'.pc \in Active /\ Kept(pass, pass') /\ pass'.reply = 0
<1>0. pass.pc \in Active /\ Good(pass) /\ export \in Exported
  BY DEF Sound, Types, Owner, At, Active
<1>1. CASE posts[files[First(pass.todo)].post].live
  BY <1>1 DEF Owner, Conflict
<1>2. CASE ~posts[files[First(pass.todo)].post].live
  <2>1. pass' = Missing(pass) /\ UNCHANGED <<run, mattermost, suspended, bounds>>
    BY <1>2 DEF Owner, Step
  <2>2. Good(pass') /\ pass'.pc = "look" /\ Kept(pass, pass') /\ pass'.reply = 0
    BY <1>0, <2>1, MissingGood
  <2> QED BY <2>1, <2>2 DEF Active
<1> QED BY <1>1, <1>2

LEMMA CreateGood ==
    ASSUME Sound, Create
    PROVE  /\ UNCHANGED <<run, mattermost, suspended, bounds>>
           /\ pass' = [pass EXCEPT !.pc = "await"]
           /\ Good(pass') /\ pass'.pc = "await" /\ Kept(pass, pass') /\ pass'.reply = 0
<1>0. /\ pass.pc = "create" /\ pass.pc \in Active /\ Good(pass) /\ export \in Exported /\ pass \in Passes
      /\ pass.at \in 1 .. Len(Agenda(pass)) /\ Mending(pass) /\ pass.reply = 0
  BY DEF Sound, Types, Create, At, Active, Good, OnAgenda, Replied
<1>1. pass' = [pass EXCEPT !.pc = "await"] /\ UNCHANGED <<run, mattermost, suspended, bounds>>
  BY DEF Create, Step
<1> DEFINE q == pass'
<1>2. /\ q.pc = "await" /\ Kept(pass, q) /\ q.at = pass.at /\ q.mode = pass.mode /\ q.fix = pass.fix /\ q.reply = 0
  BY <1>0, <1>1 DEF Passes, Kept
<1>3. q \in Passes
  BY <1>0, <1>1 DEF Passes, Requests
<1> HIDE DEF q
<1>4. Agenda(q) = Agenda(pass)
  BY <1>2, AgendaSame DEF Kept
<1>5. Good(q)
  BY <1>0, <1>2, <1>3, <1>4 DEF Good, OnAgenda, Mending, Busy, Active
<1> QED BY <1>1, <1>2, <1>5 DEF q

LEMMA CurKept ==
    ASSUME NEW p, NEW q, q.said = p.said, q.ended = p.ended, q.stopped = p.stopped, q.at = p.at, q.fix = p.fix,
           q.mode = p.mode \/ {p.mode, q.mode} \subseteq {"unit", "created", "again"}
    PROVE  Cur(q) = Cur(p)
<1>1. Agenda(q) = Agenda(p)
  BY AgendaSame
<1>2. CASE q.mode = p.mode
  BY <1>1, <1>2 DEF Cur
<1>3. CASE {p.mode, q.mode} \subseteq {"unit", "created", "again"}
  <2>1. p.mode \notin {"notice", "repair"} /\ q.mode \notin {"notice", "repair"}
    BY <1>3
  <2> QED BY <1>1, <2>1 DEF Cur
<1> QED BY <1>2, <1>3

(* The pass reads the run, then its messages, then the thread.              *)
LEMMA ReadSound ==
    ASSUME Sound, Start \/ ReadRun \/ ReadHistory
    PROVE  Sound' /\ UNCHANGED <<run, mattermost, suspended, bounds>>
           /\ pass'.pc \notin Active /\ pass'.seen = pass.seen /\ pass'.known = pass.known /\ pass'.skip = pass.skip
           /\ pass'.stopped = pass.stopped /\ pass'.mode = pass.mode /\ pass'.reply = 0 /\ pass.pc \notin Active
<1>0. /\ pass.pc \notin Active /\ pass.reply = 0 /\ pass \in Passes /\ pass.at = 0 /\ Mending(pass)
      /\ said \in 0 .. Len(Messages) /\ ended \in Endings /\ export \in Exported
  BY DEF Sound, Types, Start, ReadRun, ReadHistory, At, Active, Good, OnAgenda, Replied
<1>1. UNCHANGED <<run, mattermost, suspended, bounds>>
  BY DEF Start, ReadRun, ReadHistory, Step
<1>2. /\ pass'.pc \in {"run", "history", "thread"} /\ pass' \in Passes /\ pass'.reply = 0 /\ pass'.at = 0
      /\ pass'.mode = pass.mode /\ pass'.fix = pass.fix
      /\ pass'.seen = pass.seen /\ pass'.known = pass.known /\ pass'.skip = pass.skip /\ pass'.stopped = pass.stopped
      /\ pass'.ended # "no" => pass'.ended = ended
      /\ pass'.pc = "thread" => pass'.said = said
      /\ pass'.said <= said
  <2>1. CASE Start
    <3>1. pass' = [NoPass EXCEPT !.pc = "run"]
      BY <2>1 DEF Start, Step
    <3>2. NoPass \in Passes
      BY <1>0, NoPassGood DEF Good
    <3>3. pass' \in Passes
      BY <3>1, <3>2 DEF Passes, Requests
    <3>4. pass = NoPass
      BY <2>1 DEF Start, At, Sound, Reached
    <3> QED BY <1>0, <3>1, <3>3, <3>4 DEF NoPass
  <2>2. CASE ReadRun
    <3>1. pass' = [pass EXCEPT !.pc = "history", !.ended = ended]
      BY <2>2 DEF ReadRun, Step
    <3>2. pass' \in Passes
      BY <1>0, <3>1 DEF Passes, Requests
    <3> QED BY <1>0, <3>1, <3>2 DEF Passes, Sound, Reached
  <2>3. CASE ReadHistory
    <3>1. pass' = [pass EXCEPT !.pc = "thread", !.said = said]
      BY <2>3 DEF ReadHistory, Step
    <3>2. pass' \in Passes
      BY <1>0, <3>1 DEF Passes, Requests
    <3>3. said <= said
      BY <1>0, MessagesAssumption
    <3> QED BY <1>0, <3>1, <3>2, <3>3 DEF Passes, Sound, Reached
  <2> QED BY <2>1, <2>2, <2>3
<1>3. Good(pass')
  BY <1>0, <1>2 DEF Good, OnAgenda, Mending, Busy, Active
<1>4. Good(pass)'
  BY <1>1, <1>3, GoodPrime DEF run
<1>5. Types'
  BY <1>1, <1>2 DEF Sound, Types, run, mattermost, bounds, Good, Exported, Post, Fixes, Mids, Units, Passes, Threads
<1>6. Bindings'
  BY <1>1 DEF Sound, Bindings, mattermost
<1>a. pass'.mode = "unit"
  BY <1>0, <1>2 DEF Sound, Reached
<1>7. Reached' /\ Replied'
  BY <1>1, <1>2, <1>a DEF Reached, Replied, run, Active
<1> QED BY <1>0, <1>1, <1>2, <1>4, <1>5, <1>6, <1>7 DEF Sound, Active

(* A post of the thread, as it is read.                                     *)
LEMMA SeenTypes ==
    ASSUME NEW D \in SUBSET Nat, NEW q, q = [i \in D |-> q[i]], \A i \in D : q[i] \in Post
    PROVE  q \in Threads
<1>1. q \in [D -> Post]
  OBVIOUS
<1> QED BY <1>1 DEF Threads

LEMMA SeenElements ==
    ASSUME NEW p \in Passes
    PROVE  DOMAIN p.seen \subseteq Nat /\ \A i \in DOMAIN p.seen : p.seen[i] \in Post
<1>1. p.seen \in Threads
  BY DEF Passes
<1> QED BY <1>1 DEF Threads

LEMMA PostElements ==
    ASSUME posts \in Seq(Post)
    PROVE  /\ Len(posts) \in Nat /\ DOMAIN posts = 1 .. Len(posts) /\ DOMAIN posts \subseteq Nat
           /\ \A i \in DOMAIN posts : posts[i] \in Post
           /\ Live \subseteq DOMAIN posts
BY SeqElements DEF Live

LEMMA ThreadSound ==
    ASSUME Sound, ReadThread
    PROVE  /\ Sound' /\ UNCHANGED <<run, mattermost, suspended, bounds>> /\ pass.pc \notin Active
           /\ pass' = NoPass \/
                 LET seen == [i \in Live |-> posts[i]] IN
                 /\ pass'.pc = "look" /\ pass'.mode = "unit" /\ pass'.seen = seen /\ pass'.known = Len(posts)
                 /\ pass'.stopped = NoticeExists(seen) /\ pass'.skip = NoticeExists(seen)
                 /\ pass'.at = 1 /\ pass'.reply = 0
<1> DEFINE seen == [i \in Live |-> posts[i]]
           p == [pass EXCEPT !.seen = seen, !.known = Len(posts), !.stopped = NoticeExists(seen)]
<1>0. /\ pass.pc = "thread" /\ pass.pc \notin Active /\ pass \in Passes /\ pass.at = 0 /\ Mending(pass)
      /\ said \in 0 .. Len(Messages) /\ ended \in Endings /\ export \in Exported /\ posts \in Seq(Post)
  BY DEF Sound, Types, ReadThread, At, Active, Good, OnAgenda, Mending
<1>1. seen \in Threads
  <2>1. Live \in SUBSET Nat /\ \A i \in Live : posts[i] \in Post
    BY <1>0, PostElements
  <2>2. seen \in [Live -> Post]
    BY <2>1
  <2> QED BY <2>1, <2>2 DEF Threads
<1>2. UNCHANGED <<run, mattermost, suspended, bounds>> /\ pass' = Advance(p, p.stopped)
  BY DEF ReadThread, Step
<1>3. NoticeExists(seen) \in BOOLEAN /\ Len(posts) \in Nat
  BY <1>0, PostElements DEF NoticeExists
<1>4. p.fix = "none"
  <2>1. pass.fix = "none"
    BY <1>0 DEF Sound, Reached, Mending
  <2> QED BY <1>0, <2>1 DEF Passes
<1>5. p \in Passes /\ p.at = 0 /\ p.said = pass.said /\ p.ended = pass.ended /\ p.seen = seen /\ p.known = Len(posts)
      /\ p.stopped = NoticeExists(seen)
  <2> HIDE DEF seen
  <2> QED BY <1>0, <1>1, <1>3 DEF Passes
<1> HIDE DEF p, seen
<1>6. Len(Agenda(p)) \in Nat
  BY <1>0, <1>5, AgendaSections
<1>7. /\ Good(pass')
      /\ pass' = NoPass \/ (/\ Kept(p, pass') /\ pass'.pc = "look" /\ pass'.at = p.at + 1 /\ pass'.mode = "unit"
                            /\ pass'.skip = p.stopped /\ pass'.reply = 0 /\ pass'.fix = "none")
  <2>1. p.at \in 0 .. Len(Agenda(p)) /\ p.stopped \in BOOLEAN
    BY <1>3, <1>5, <1>6
  <2> QED BY <1>0, <1>2, <1>4, <1>5, <2>1, AdvanceGood
<1>8. Good(pass)'
  BY <1>2, <1>7, GoodPrime DEF run
<1>9. Types'
  BY <1>2, <1>7 DEF Sound, Types, run, mattermost, bounds, Good, Exported, Post, Fixes, Mids, Units, Passes, Threads
<1>10. Bindings'
  BY <1>2 DEF Sound, Bindings, mattermost
<1>11. Reached'
  <2>1. CASE pass' = NoPass
    <3>1. said \in Nat
      BY <1>0, MessagesAssumption
    <3> QED BY <1>2, <2>1, <3>1 DEF Reached, NoPass, Active, run
  <2>2. CASE Kept(p, pass') /\ pass'.pc = "look"
    BY <1>0, <1>2, <1>5, <2>2 DEF Sound, Reached, Kept, Active, run
  <2> QED BY <1>7, <2>1, <2>2
<1>12. Replied'
  BY <1>7 DEF Replied, NoPass
<1> QED BY <1>0, <1>2, <1>5, <1>7, <1>8, <1>9, <1>10, <1>11, <1>12 DEF Sound, Kept, seen

-----------------------------------------------------------------------------
(* What happens to posts: new ones are added, and those there are keep their
   receipts.                                                                *)
Later ==
    /\ DOMAIN posts \subseteq DOMAIN posts' /\ Len(posts) <= Len(posts')
    /\ \A i \in DOMAIN posts :
          /\ SameKey(posts'[i], posts[i]) /\ posts'[i].claims = posts[i].claims /\ posts'[i].late = posts[i].late
          /\ posts'[i].intact => posts[i].intact
          /\ posts'[i].live => posts[i].live

LEMMA SamePosts ==
    ASSUME Sound, posts' = posts
    PROVE  Later
BY PostElements DEF Later, SameKey, Sound, Types

Committed(u, held, given) ==
    /\ posts' \in Seq(Post) /\ Len(posts') = Len(posts) + 1 /\ DOMAIN posts' = DOMAIN posts \cup {Len(posts) + 1}
    /\ \A i \in DOMAIN posts : posts'[i] = posts[i] /\ i <= Len(posts)
    /\ posts'[Len(posts) + 1] = PostOf(u, held, given)
    /\ files' \in [Files -> [up : BOOLEAN, post : Nat]]

LEMMA CommitSound ==
    ASSUME Sound, NEW u \in Units, NEW held \in SUBSET Files, held \subseteq Attachable(u.files), NEW given \in BOOLEAN,
           Commit(u, held, given)
    PROVE  /\ Committed(u, held, given) /\ Later /\ Bindings'
           /\ \A f \in Files : files[f].post # 0 => files'[f] = files[f]
<1>0. posts \in Seq(Post) /\ files \in [Files -> [up : BOOLEAN, post : Nat]]
  BY DEF Sound, Types
<1> DEFINE a == PostOf(u, held, given)
           n == Len(posts)
<1>1. a \in Post /\ a.held = held /\ a.mid = u.mid
  BY DEF PostOf, Post, Units
<1>2. posts' = Append(posts, a)
  BY DEF Commit
<1>3. files' = [f \in Files |-> IF f \in held THEN [files[f] EXCEPT !.post = n + 1] ELSE files[f]]
  BY DEF Commit
<1>4. n \in Nat /\ DOMAIN posts = 1 .. n
  BY <1>0, PostElements
<1> HIDE DEF a, n
<1>5. /\ posts' \in Seq(Post) /\ Len(posts') = n + 1 /\ DOMAIN posts' = DOMAIN posts \cup {n + 1}
      /\ \A i \in DOMAIN posts : posts'[i] = posts[i] 
      /\ posts'[n + 1] = a
  BY <1>0, <1>1, <1>2, AppendElements DEF n
<1>6. files' \in [Files -> [up : BOOLEAN, post : Nat]]
  BY <1>0, <1>3, <1>4
<1>7. \A f \in Files : files'[f].post = IF f \in held THEN n + 1 ELSE files[f].post
  BY <1>0, <1>3
<1>8. Committed(u, held, given)
  BY <1>4, <1>5, <1>6 DEF Committed, a, n
<1>9. Later
  <2>1. Len(posts) <= Len(posts')
    BY <1>4, <1>5 DEF n
  <2> QED BY <1>5, <2>1 DEF Later, SameKey
<1>10. \A f \in held : files[f].post = 0
  BY DEF Attachable
<1>11. \A f \in Files : files'[f].post \in 0 .. n + 1 /\ files[f].post \in 0 .. n
  BY <1>4, <1>7 DEF Sound, Bindings, n
<1>12. ASSUME NEW i \in DOMAIN posts'
       PROVE  posts'[i].held = {f \in Files : files'[f].post = i}
  <2>1. CASE i \in DOMAIN posts
    <3>1. posts'[i].held = {f \in Files : files[f].post = i}
      BY <1>5, <2>1 DEF Sound, Bindings
    <3>2. \A f \in Files : files'[f].post = i <=> files[f].post = i
      BY <1>4, <1>7, <1>10, <2>1
    <3> QED BY <3>1, <3>2
  <2>2. CASE i = n + 1
    <3>1. \A f \in Files : files'[f].post = i <=> f \in held
      BY <1>4, <1>7, <1>11, <2>2
    <3>2. posts'[i].held = held
      BY <1>1, <1>5, <2>2
    <3> QED BY <3>1, <3>2
  <2> QED BY <1>5, <2>1, <2>2
<1>13. Bindings'
  BY <1>5, <1>11, <1>12 DEF Bindings
<1>14. \A f \in Files : files[f].post # 0 => files'[f] = files[f]
  BY <1>3, <1>10
<1> QED BY <1>8, <1>9, <1>13, <1>14

(* A step of the others leaves the pass where it is.                        *)
LEMMA OthersSound ==
    ASSUME Sound, pass' = pass, said' \in Nat, said <= said', pass.ended # "no" => said' = said /\ ended' = ended,
           export' = export \/ pass.ended = "no", Later
    PROVE  Good(pass)' /\ Reached' /\ Replied' /\ Cur(pass)' = Cur(pass)
<1>1. Agenda(pass)' = Agenda(pass) /\ Cur(pass)' = Cur(pass)
  <2>1. CASE export' = export
    BY <2>1, AgendaNext
  <2>2. CASE pass.ended = "no"
    BY <2>2, AgendaWhileActive
  <2> QED BY <2>1, <2>2
<1>2. Good(pass)'
  BY <1>1 DEF Sound, Good, OnAgenda, Mending, Busy, Passes, Threads, Post, Fixes, Mids
<1>3. Reached'
  <2>1. pass.said \in Nat /\ said \in Nat /\ pass.said <= said
    BY MessagesAssumption DEF Sound, Types, Passes, Reached
  <2>2. pass.said <= said'
    BY <2>1
  <2> QED BY <2>2 DEF Sound, Reached
<1>4. Replied'
  <2>1. SameKey(posts[pass.reply], Cur(pass)) /\ pass.reply \in DOMAIN posts => SameKey(posts'[pass.reply], Cur(pass)')
    BY <1>1 DEF Later, SameKey
  <2>2. pass'.reply # 0 => pass'.pc = "await" /\ pass'.reply \in DOMAIN posts' /\ SameKey(posts'[pass'.reply], Cur(pass)')
    BY <2>1 DEF Sound, Replied, Later
  <2> QED BY <2>2 DEF Replied, SameKey
<1> QED BY <1>1, <1>2, <1>3, <1>4

(* The server answers: with the post it knows, or with a new one.           *)
LEMMA ServeSound ==
    ASSUME Sound, NEW held \in SUBSET Files, Serve(held)
    PROVE  /\ Sound' /\ Later /\ pass.pc = "await" /\ pass'.reply \in DOMAIN posts'
           /\ pass' = [pass EXCEPT !.reply = pass'.reply] /\ Cur(pass)' = Cur(pass) /\ Cur(pass') = Cur(pass)
           /\ UNCHANGED <<run, late, suspended>>
           /\ \/ pass'.reply \in Recognised(Asked, pass.known) /\ posts' = posts /\ files' = files
              \/ /\ Recognised(Asked, pass.known) = {} /\ pass'.reply = Len(posts) + 1
                 /\ Committed(Asked, held, FALSE)
<1>0. /\ pass.pc = "await" /\ pass.reply = 0 /\ pass.pc \in Active /\ Good(pass) /\ export \in Exported /\ pass \in Passes
      /\ pass.at \in 1 .. Len(Agenda(pass)) /\ Mending(pass) /\ posts \in Seq(Post)
  BY DEF Sound, Types, Serve, At, Active, Good, OnAgenda
<1>1. Asked \in Units /\ SameKey(Asked, Cur(pass))
  BY <1>0, AskedType
<1>2. UNCHANGED <<run, late, suspended>> /\ held \subseteq Attachable(Asked.files)
  BY DEF Serve
<1>3. faults' \in Nat /\ tampers' \in Nat
  <2>1. UNCHANGED bounds \/ (faults' = faults + 1 /\ UNCHANGED tampers)
    BY DEF Serve
  <2>2. faults \in Nat /\ tampers \in Nat
    BY DEF Sound, Types
  <2> QED BY <2>1, <2>2 DEF bounds
<1>4. ASSUME NEW r, pass' = [pass EXCEPT !.reply = r], r \in DOMAIN posts', r \in Nat, SameKey(posts'[r], Cur(pass)), Later,
             posts' \in Seq(Post), files' \in [Files -> [up : BOOLEAN, post : Nat]], Bindings'
      PROVE  /\ Sound' /\ Cur(pass)' = Cur(pass) /\ Cur(pass') = Cur(pass)
             /\ pass' = [pass EXCEPT !.reply = pass'.reply] /\ pass'.reply = r
  <2> DEFINE q == pass'
  <2>1. q \in Passes /\ q.reply = r /\ q.pc = "await" /\ q.at = pass.at /\ q.mode = pass.mode /\ q.fix = pass.fix
        /\ Kept(pass, q) /\ q.todo = pass.todo
    BY <1>0, <1>4 DEF Passes, Kept
  <2> HIDE DEF q
  <2>2. Agenda(q) = Agenda(pass) /\ Cur(q) = Cur(pass)
    BY <2>1, AgendaSame, CurKept DEF Kept
  <2>3. Good(q)
    BY <1>0, <2>1, <2>2 DEF Good, OnAgenda, Mending, Busy, Active
  <2>4. export' = export /\ said' = said /\ ended' = ended
    BY <1>2 DEF run
  <2>5. Good(pass)' /\ Cur(pass)' = Cur(q)
    BY <2>3, <2>4, GoodPrime, AgendaNext DEF q
  <2>6. Types'
    BY <1>2, <1>3, <1>4, <2>1, <2>4 DEF q, Sound, Types, Exported, Post, Fixes, Mids, Units, Passes, Threads
  <2>7. Reached'
    BY <1>0, <2>1, <2>4 DEF q, Sound, Reached, Kept, Active
  <2>8. Replied'
    <3>1. SameKey(posts'[pass'.reply], Cur(pass)')
      BY <1>4, <2>1, <2>2, <2>5 DEF q
    <3> QED BY <1>4, <2>1, <3>1 DEF q, Replied, SameKey
  <2> QED BY <1>4, <2>1, <2>2, <2>5, <2>6, <2>7, <2>8 DEF q, Sound
<1>5. CASE Recognised(Asked, pass.known) # {}
  <2> DEFINE r == First(Recognised(Asked, pass.known))
  <2>1. r \in Recognised(Asked, pass.known) /\ pass' = [pass EXCEPT !.reply = r] /\ UNCHANGED <<posts, files, bounds>>
    BY <1>5, FirstIn DEF Serve
  <2> HIDE DEF r
  <2>2. r \in DOMAIN posts /\ SameKey(posts[r], Asked) /\ r \in Nat
    BY <1>0, <2>1, PostElements DEF Recognised, Live
  <2>3. SameKey(posts[r], Cur(pass))
    BY <1>1, <2>2 DEF SameKey
  <2>4. Later /\ Bindings'
    BY <2>1, SamePosts DEF Sound, Bindings
  <2>5. posts' \in Seq(Post) /\ files' \in [Files -> [up : BOOLEAN, post : Nat]]
    BY <2>1 DEF Sound, Types
  <2>6. SameKey(posts'[r], Cur(pass)) /\ r \in DOMAIN posts'
    BY <2>1, <2>2, <2>3
  <2>7. /\ Sound' /\ Cur(pass)' = Cur(pass) /\ Cur(pass') = Cur(pass)
        /\ pass' = [pass EXCEPT !.reply = pass'.reply] /\ pass'.reply = r
    BY <1>4, <2>1, <2>2, <2>4, <2>5, <2>6
  <2> QED BY <1>0, <1>2, <2>1, <2>4, <2>6, <2>7
<1>6. CASE Recognised(Asked, pass.known) = {}
  <2>1. pass' = [pass EXCEPT !.reply = Len(posts) + 1] /\ Commit(Asked, held, FALSE)
    BY <1>6 DEF Serve
  <2>2. Committed(Asked, held, FALSE) /\ Later /\ Bindings'
    BY <1>1, <1>2, <2>1, CommitSound
  <2>3. Len(posts) + 1 \in DOMAIN posts' /\ Len(posts) + 1 \in Nat
    BY <1>0, <2>2, PostElements DEF Committed
  <2>4. SameKey(posts'[Len(posts) + 1], Cur(pass))
    BY <1>1, <2>2 DEF Committed, PostOf, SameKey
  <2>5. posts' \in Seq(Post) /\ files' \in [Files -> [up : BOOLEAN, post : Nat]]
    BY <2>2 DEF Committed
  <2>6. /\ Sound' /\ Cur(pass)' = Cur(pass) /\ Cur(pass') = Cur(pass)
        /\ pass' = [pass EXCEPT !.reply = pass'.reply] /\ pass'.reply = Len(posts) + 1
    BY <1>4, <2>1, <2>2, <2>3, <2>4, <2>5
  <2> QED BY <1>0, <1>2, <1>6, <2>2, <2>3, <2>6
<1> QED BY <1>5, <1>6

LEMMA ReceiveSound ==
    ASSUME Sound, Receive
    PROVE  /\ Sound' /\ Later /\ pass.pc = "await" /\ pass.reply \in DOMAIN posts /\ SameKey(posts[pass.reply], Cur(pass))
           /\ UNCHANGED <<run, mattermost, suspended, bounds>>
           /\ pass'.seen = [i \in DOMAIN pass.seen \cup {pass.reply} |-> IF i = pass.reply THEN posts[i] ELSE pass.seen[i]]
           /\ Cur(pass') = Cur(pass) /\ pass'.pc = "look" /\ pass'.at = pass.at
           /\ pass'.mode = IF pass.mode = "unit" THEN "created" ELSE pass.mode
           /\ pass'.skip = pass.skip /\ pass'.known = pass.known /\ pass'.stopped = pass.stopped /\ pass'.reply = 0
           /\ pass'.rest = pass.rest /\ pass'.said = pass.said /\ pass'.ended = pass.ended
<1> DEFINE seen == [i \in DOMAIN pass.seen \cup {pass.reply} |-> IF i = pass.reply THEN posts[i] ELSE pass.seen[i]]
           mode == IF pass.mode = "unit" THEN "created" ELSE pass.mode
<1>0. /\ pass.pc = "await" /\ pass.reply # 0 /\ pass.pc \in Active /\ Good(pass) /\ export \in Exported /\ pass \in Passes
      /\ pass.at \in 1 .. Len(Agenda(pass)) /\ Mending(pass) /\ posts \in Seq(Post)
      /\ pass.reply \in DOMAIN posts /\ SameKey(posts[pass.reply], Cur(pass))
  BY DEF Sound, Types, Receive, At, Active, Good, OnAgenda, Replied
<1>1. UNCHANGED <<run, mattermost, suspended, bounds>> /\ pass' = [pass EXCEPT !.pc = "look", !.reply = 0, !.mode = mode, !.seen = seen]
  BY DEF Receive, Step
<1>2. seen \in Threads
  <2>1. DOMAIN pass.seen \cup {pass.reply} \in SUBSET Nat
    BY <1>0, SeenElements, PostElements
  <2>2. \A i \in DOMAIN pass.seen \cup {pass.reply} : (IF i = pass.reply THEN posts[i] ELSE pass.seen[i]) \in Post
    BY <1>0, SeenElements, PostElements
  <2>3. seen \in [DOMAIN pass.seen \cup {pass.reply} -> Post]
    BY <2>2
  <2> QED BY <2>1, <2>3 DEF Threads
<1>3. mode \in Modes /\ (mode = "repair" <=> pass.mode = "repair") /\ (mode = "notice" <=> pass.mode = "notice")
      /\ (mode = pass.mode \/ {pass.mode, mode} \subseteq {"unit", "created", "again"})
  BY <1>0 DEF Passes, Modes
<1>a. pass'.mode = IF pass.mode = "unit" THEN "created" ELSE pass.mode
  BY <1>0, <1>1 DEF Passes
<1> HIDE DEF seen, mode
<1> DEFINE q == pass'
<1>4. q \in Passes /\ q.pc = "look" /\ q.reply = 0 /\ q.mode = mode /\ q.seen = seen /\ q.at = pass.at /\ q.fix = pass.fix
      /\ q.skip = pass.skip /\ q.known = pass.known /\ q.stopped = pass.stopped /\ q.said = pass.said /\ q.ended = pass.ended
      /\ q.rest = pass.rest
  BY <1>0, <1>1, <1>2, <1>3 DEF Passes
<1> HIDE DEF q
<1>5. Agenda(q) = Agenda(pass) /\ Cur(q) = Cur(pass)
  BY <1>3, <1>4, AgendaSame, CurKept
<1>6. Good(q)
  BY <1>0, <1>3, <1>4, <1>5 DEF Good, OnAgenda, Mending, Busy, Active
<1>7. export' = export /\ said' = said /\ ended' = ended /\ posts' = posts /\ files' = files
  BY <1>1 DEF run, mattermost
<1>8. Good(pass)'
  BY <1>6, <1>7, GoodPrime DEF q
<1>9. Types'
  BY <1>1, <1>4 DEF q, Sound, Types, run, mattermost, bounds, Exported, Post, Fixes, Mids, Units, Passes, Threads
<1>10. Bindings' /\ Later
  BY <1>7, SamePosts DEF Sound, Bindings
<1>11. Reached' /\ Replied'
  BY <1>0, <1>4, <1>7 DEF q, Sound, Reached, Replied, Active
<1> QED BY <1>0, <1>1, <1>4, <1>5, <1>8, <1>9, <1>10, <1>11, <1>a DEF Sound, q, seen

LEMMA FailSound ==
    ASSUME Sound, Fail
    PROVE  /\ Sound' /\ Later /\ pass' = NoPass /\ UNCHANGED <<run, posts, files, suspended>>
           /\ late' = late \/ (pass.pc = "await" /\ late' = late \cup {Asked})
<1>1. /\ pass' = NoPass /\ UNCHANGED <<run, posts, files, suspended, tampers>> /\ faults' = faults + 1
      /\ late' = late \/ (pass.pc = "await" /\ late' = late \cup {Asked})
  BY DEF Fail, At
<1>2. pass.pc = "await" => Asked \in Units
  BY AskedType DEF Sound, Types, Active
<1>3. late' \subseteq Units /\ suspended' \in BOOLEAN /\ faults' \in Nat /\ tampers' \in Nat
  BY <1>1, <1>2 DEF Sound, Types
<1>4. Good(pass')
  BY <1>1, NoPassGood DEF Sound, Types
<1>5. Sound'
  BY <1>1, <1>3, <1>4, PassSound
<1> QED BY <1>1, <1>5, SamePosts

LEMMA ServeLateSound ==
    ASSUME Sound, NEW u \in late, ServeLate(u)
    PROVE  /\ Sound' /\ Later /\ Cur(pass)' = Cur(pass) /\ UNCHANGED <<run, pass, suspended>> /\ late' \subseteq late
           /\ u \in Units
           /\ \/ posts' = posts /\ files' = files
              \/ Recognised(u, 0) = {} /\ Committed(u, Attachable(u.files), TRUE)
<1>1. late' = late \ {u} /\ UNCHANGED <<run, pass, suspended, bounds>>
  BY DEF ServeLate
<1>2. u \in Units /\ posts \in Seq(Post) /\ files \in [Files -> [up : BOOLEAN, post : Nat]]
  BY DEF Sound, Types
<1>3. Attachable(u.files) \in SUBSET Files /\ TRUE \in BOOLEAN
  BY <1>2 DEF Attachable, Units
<1>4. /\ posts' \in Seq(Post) /\ files' \in [Files -> [up : BOOLEAN, post : Nat]] /\ Later /\ Bindings'
      /\ \/ posts' = posts /\ files' = files
         \/ Recognised(u, 0) = {} /\ Committed(u, Attachable(u.files), TRUE)
  <2>1. CASE Recognised(u, 0) # {}
    <3>1. posts' = posts /\ files' = files
      BY <2>1 DEF ServeLate
    <3> QED BY <1>2, <3>1, SamePosts DEF Sound, Bindings
  <2>2. CASE Recognised(u, 0) = {}
    <3>1. Commit(u, Attachable(u.files), TRUE)
      BY <2>2 DEF ServeLate
    <3>2. Committed(u, Attachable(u.files), TRUE) /\ Later /\ Bindings'
      BY <1>2, <1>3, <3>1, CommitSound
    <3> QED BY <2>2, <3>2 DEF Committed
  <2> QED BY <2>1, <2>2
<1>5. said' = said /\ ended' = ended /\ export' = export /\ said \in Nat /\ said <= said
  BY <1>1, MessagesAssumption DEF run, Sound, Types
<1>6. Good(pass)' /\ Reached' /\ Replied' /\ Cur(pass)' = Cur(pass)
  BY <1>1, <1>4, <1>5, OthersSound
<1>7. Types'
  BY <1>1, <1>4, <1>5 DEF Sound, Types, bounds, Exported, Post, Fixes, Mids, Units, Passes, Threads
<1> QED BY <1>1, <1>2, <1>4, <1>6, <1>7 DEF Sound

(* Users.                                                                   *)
LEMMA UsersSound ==
    ASSUME Sound, Users
    PROVE  /\ Sound' /\ Later /\ Cur(pass)' = Cur(pass) /\ UNCHANGED <<run, late, pass, suspended>>
           /\ Len(posts') = Len(posts) /\ DOMAIN posts' = DOMAIN posts
           /\ \A f \in Files : files'[f].post = files[f].post
<1>0. posts \in Seq(Post) /\ files \in [Files -> [up : BOOLEAN, post : Nat]] /\ faults \in Nat /\ tampers \in Nat
  BY DEF Sound, Types
<1>1. ASSUME UNCHANGED <<run, late, pass, suspended>>, Tamper, Later,
             posts' \in Seq(Post), files' \in [Files -> [up : BOOLEAN, post : Nat]],
             Len(posts') = Len(posts), DOMAIN posts' = DOMAIN posts,
             \A i \in DOMAIN posts : posts'[i].held = posts[i].held,
             \A f \in Files : files'[f].post = files[f].post
      PROVE  Sound' /\ Cur(pass)' = Cur(pass)
  <2>1. faults' \in Nat /\ tampers' \in Nat
    BY <1>0, <1>1 DEF Tamper
  <2>2. said' = said /\ ended' = ended /\ export' = export /\ said \in Nat /\ said <= said
    BY <1>1, MessagesAssumption DEF run, Sound, Types
  <2>3. Good(pass)' /\ Reached' /\ Replied' /\ Cur(pass)' = Cur(pass)
    BY <1>1, <2>2, OthersSound
  <2>4. Types'
    BY <1>1, <2>1, <2>2 DEF Sound, Types, Exported, Post, Fixes, Mids, Units, Passes, Threads
  <2>5. Bindings'
    <3>1. \A i \in DOMAIN posts : {f \in Files : files'[f].post = i} = {f \in Files : files[f].post = i}
      BY <1>1
    <3> QED BY <1>1, <3>1 DEF Sound, Bindings
  <2> QED BY <2>3, <2>4, <2>5 DEF Sound
<1>2. ASSUME NEW i \in DOMAIN posts, NEW a \in Post, a.mid = posts[i].mid, a.part = posts[i].part, a.fix = posts[i].fix,
             a.claims = posts[i].claims, a.late = posts[i].late, a.held = posts[i].held,
             a.intact => posts[i].intact, a.live => posts[i].live,
             posts' = [posts EXCEPT ![i] = a]
      PROVE  /\ posts' \in Seq(Post) /\ Len(posts') = Len(posts) /\ DOMAIN posts' = DOMAIN posts /\ Later
             /\ \A j \in DOMAIN posts : posts'[j].held = posts[j].held
  <2>1. /\ posts' \in Seq(Post) /\ Len(posts') = Len(posts) /\ DOMAIN posts' = DOMAIN posts
        /\ posts'[i] = a /\ \A j \in DOMAIN posts : j # i => posts'[j] = posts[j]
    BY <1>0, <1>2, ExceptElements
  <2>2. Len(posts) <= Len(posts')
    BY <1>0, <2>1, PostElements
  <2>3. ASSUME NEW j \in DOMAIN posts
        PROVE  /\ SameKey(posts'[j], posts[j]) /\ posts'[j].claims = posts[j].claims /\ posts'[j].late = posts[j].late
               /\ posts'[j].intact => posts[j].intact
               /\ posts'[j].live => posts[j].live
               /\ posts'[j].held = posts[j].held
    <3>1. CASE j = i
      BY <1>2, <2>1, <3>1 DEF SameKey
    <3>2. CASE j # i
      BY <2>1, <3>2 DEF SameKey
    <3> QED BY <3>1, <3>2
  <2> QED BY <2>1, <2>2, <2>3 DEF Later
<1>3. ASSUME NEW i \in DOMAIN posts, EditPost(i)
      PROVE  /\ Sound' /\ Later /\ Cur(pass)' = Cur(pass) /\ UNCHANGED <<run, late, pass, suspended>>
             /\ Len(posts') = Len(posts) /\ DOMAIN posts' = DOMAIN posts
             /\ \A f \in Files : files'[f].post = files[f].post
  <2> DEFINE a == [posts[i] EXCEPT !.intact = FALSE]
  <2>0. posts[i] \in Post
    BY <1>0, PostElements
  <2>1. a \in Post /\ a.mid = posts[i].mid /\ a.part = posts[i].part /\ a.fix = posts[i].fix
        /\ a.claims = posts[i].claims /\ a.late = posts[i].late /\ a.held = posts[i].held /\ a.live = posts[i].live /\ ~a.intact
    BY <2>0 DEF Post
  <2>2. posts' = [posts EXCEPT ![i] = a] /\ Tamper /\ UNCHANGED <<run, files, late, pass, suspended>>
    BY <1>3 DEF EditPost
  <2> HIDE DEF a
  <2>3. /\ posts' \in Seq(Post) /\ Len(posts') = Len(posts) /\ DOMAIN posts' = DOMAIN posts /\ Later
        /\ \A j \in DOMAIN posts : posts'[j].held = posts[j].held
    BY <1>2, <2>1, <2>2
  <2>4. files' \in [Files -> [up : BOOLEAN, post : Nat]] /\ \A f \in Files : files'[f].post = files[f].post
    BY <1>0, <2>2
  <2> QED BY <1>1, <2>2, <2>3, <2>4
<1>4. ASSUME NEW i \in DOMAIN posts, NEW gone \in SUBSET posts[i].held, DeletePost(i, gone)
      PROVE  /\ Sound' /\ Later /\ Cur(pass)' = Cur(pass) /\ UNCHANGED <<run, late, pass, suspended>>
             /\ Len(posts') = Len(posts) /\ DOMAIN posts' = DOMAIN posts
             /\ \A f \in Files : files'[f].post = files[f].post
  <2> DEFINE a == [posts[i] EXCEPT !.live = FALSE]
  <2>0. posts[i] \in Post
    BY <1>0, PostElements
  <2>1. a \in Post /\ a.mid = posts[i].mid /\ a.part = posts[i].part /\ a.fix = posts[i].fix
        /\ a.claims = posts[i].claims /\ a.late = posts[i].late /\ a.held = posts[i].held /\ a.intact = posts[i].intact /\ ~a.live
    BY <2>0 DEF Post
  <2>2. posts' = [posts EXCEPT ![i] = a] /\ Tamper /\ UNCHANGED <<run, late, pass, suspended>>
        /\ files' = [f \in Files |-> IF f \in gone THEN [files[f] EXCEPT !.up = FALSE] ELSE files[f]]
    BY <1>4 DEF DeletePost
  <2> HIDE DEF a
  <2>3. /\ posts' \in Seq(Post) /\ Len(posts') = Len(posts) /\ DOMAIN posts' = DOMAIN posts /\ Later
        /\ \A j \in DOMAIN posts : posts'[j].held = posts[j].held
    BY <1>2, <2>1, <2>2
  <2>4. files' \in [Files -> [up : BOOLEAN, post : Nat]] /\ \A f \in Files : files'[f].post = files[f].post
    BY <1>0, <2>2
  <2> QED BY <1>1, <2>2, <2>3, <2>4
<1>5. ASSUME NEW f \in Files, LoseFile(f)
      PROVE  /\ Sound' /\ Later /\ Cur(pass)' = Cur(pass) /\ UNCHANGED <<run, late, pass, suspended>>
             /\ Len(posts') = Len(posts) /\ DOMAIN posts' = DOMAIN posts
             /\ \A g \in Files : files'[g].post = files[g].post
  <2>1. Tamper /\ UNCHANGED <<run, posts, late, pass, suspended>> /\ files' = [files EXCEPT ![f].up = FALSE]
    BY <1>5 DEF LoseFile
  <2>2. files' \in [Files -> [up : BOOLEAN, post : Nat]] /\ \A g \in Files : files'[g].post = files[g].post
    BY <1>0, <2>1
  <2>3. Later /\ posts' \in Seq(Post)
    BY <1>0, <2>1, SamePosts
  <2> QED BY <1>1, <2>1, <2>2, <2>3
<1> QED BY <1>3, <1>4, <1>5 DEF Users

(* The run.                                                                 *)
LEMMA RunSound ==
    ASSUME Sound, Orpheus
    PROVE  /\ Sound' /\ Later /\ Cur(pass)' = Cur(pass) /\ UNCHANGED <<mattermost, pass, suspended>> /\ ended = "no" /\ pass.ended = "no"
           /\ said <= said' /\ said' \in 0 .. Len(Messages)
           /\ \/ said' = said + 1 /\ ended' = "no" /\ export' = export
              \/ said' = said /\ ended' # "no"
<1>0. said \in 0 .. Len(Messages) /\ export \in Exported /\ Len(Messages) \in Nat /\ faults \in Nat /\ tampers \in Nat
  BY MessagesAssumption DEF Sound, Types
<1>1. UNCHANGED <<mattermost, pass, suspended, bounds>> /\ ended = "no"
  BY DEF Orpheus, Say, End
<1>2. pass.ended = "no"
  BY <1>1 DEF Sound, Reached
<1>3. /\ said' \in 0 .. Len(Messages) /\ said <= said' /\ said' \in Nat /\ ended' \in Endings /\ export' \in Exported
      /\ \/ said' = said + 1 /\ ended' = "no" /\ export' = export
         \/ said' = said /\ ended' # "no"
  <2>1. CASE Say
    BY <1>0, <1>1, <2>1 DEF Say, Endings
  <2>2. ASSUME NEW how \in {"completed", "failed"}, NEW ready \in BOOLEAN, NEW exported \in Exports, End(how, ready, exported)
        PROVE  /\ said' \in 0 .. Len(Messages) /\ said <= said' /\ said' \in Nat /\ ended' \in Endings /\ export' \in Exported
               /\ said' = said /\ ended' # "no"
    <3>1. said' = said /\ ended' = how /\ export' = [ready |-> ready, files |-> IF ready THEN exported ELSE {}]
      BY <2>2 DEF End
    <3>2. exported \in SUBSET Files /\ {} \in SUBSET Files
      BY BoundAssumption
    <3>3. export' \in Exported
      BY <3>1, <3>2 DEF Exported
    <3> QED BY <1>0, <3>1, <3>3 DEF Endings
  <2> QED BY <2>1, <2>2 DEF Orpheus
<1>4. Later
  BY <1>1, SamePosts DEF mattermost
<1>5. Good(pass)' /\ Reached' /\ Replied' /\ Cur(pass)' = Cur(pass)
  BY <1>1, <1>2, <1>3, <1>4, OthersSound
<1>6. Types'
  BY <1>1, <1>3 DEF Sound, Types, mattermost, bounds, Exported, Post, Fixes, Mids, Units, Passes, Threads, Endings
<1>7. Bindings'
  BY <1>1 DEF Sound, Bindings, mattermost
<1> QED BY <1>1, <1>2, <1>3, <1>4, <1>5, <1>6, <1>7 DEF Sound

LEMMA RestSound ==
    ASSUME Sound, Resume \/ UNCHANGED vars
    PROVE  /\ Sound' /\ Later /\ Cur(pass)' = Cur(pass) /\ UNCHANGED <<run, mattermost, pass>>
           /\ suspended' => suspended
<1>1. UNCHANGED <<run, mattermost, pass, bounds>> /\ suspended' \in BOOLEAN /\ (suspended' => suspended)
  <2>1. CASE Resume
    BY <2>1 DEF Resume
  <2>2. CASE UNCHANGED vars
    BY <2>2 DEF vars, Sound, Types
  <2> QED BY <2>1, <2>2
<1>2. Later
  BY <1>1, SamePosts DEF mattermost
<1>3. said' = said /\ ended' = ended /\ export' = export /\ said \in Nat /\ said <= said
  BY <1>1, MessagesAssumption DEF run, Sound, Types
<1>4. Good(pass)' /\ Reached' /\ Replied' /\ Cur(pass)' = Cur(pass)
  BY <1>1, <1>2, <1>3, OthersSound
<1>5. Types'
  BY <1>1, <1>3 DEF Sound, Types, mattermost, bounds, Exported, Post, Fixes, Mids, Units, Passes, Threads, Endings
<1>6. Bindings'
  BY <1>1 DEF Sound, Bindings, mattermost
<1> QED BY <1>1, <1>2, <1>4, <1>5, <1>6 DEF Sound

(* What Next is made of.                                                    *)
LEMMA Steps ==
    ASSUME [Next]_vars
    PROVE  \/ Start \/ ReadRun \/ ReadHistory
           \/ ReadThread
           \/ Look
           \/ Verify
           \/ Check
           \/ Owner
           \/ Create
           \/ \E held \in SUBSET Files : Serve(held)
           \/ Receive
           \/ Fail
           \/ \E u \in late : ServeLate(u)
           \/ Users
           \/ Orpheus
           \/ Resume \/ UNCHANGED vars
BY DEF Next, Publish

(* The steps of a pass that only look at what is there.                     *)
Looking == Look \/ Verify \/ Check \/ Owner \/ Create

LEMMA LookingSound ==
    ASSUME Sound, Looking
    PROVE  /\ Sound' /\ Later /\ UNCHANGED <<run, mattermost, bounds>> /\ pass.pc \in Active
           /\ pass' = NoPass \/ (pass'.pc \in Active /\ Kept(pass, pass') /\ pass'.reply = 0)
           /\ suspended' = suspended \/ pass' = NoPass
<1>1. pass.pc \in Active
  BY DEF Looking, Look, Verify, Check, Owner, Create, At, Active
<1>2. Good(NoPass)
  BY NoPassGood DEF Sound, Types
<1>3. /\ UNCHANGED <<run, mattermost, bounds>> /\ suspended' \in BOOLEAN
      /\ Good(pass')
      /\ pass' = NoPass \/ (pass'.pc \in Active /\ Kept(pass, pass') /\ pass'.reply = 0)
      /\ suspended' = suspended \/ pass' = NoPass
  <2>0. suspended \in BOOLEAN
    BY DEF Sound, Types
  <2>1. CASE Look
    BY <1>2, <2>0, <2>1, LookGood
  <2>2. CASE Verify
    BY <2>0, <2>2, VerifyGood
  <2>3. CASE Check
    BY <2>0, <2>3, CheckGood
  <2>4. CASE Owner
    BY <1>2, <2>0, <2>4, OwnerGood
  <2>5. CASE Create
    BY <2>0, <2>5, CreateGood DEF Active
  <2> QED BY <2>1, <2>2, <2>3, <2>4, <2>5 DEF Looking
<1>4. UNCHANGED <<run, posts, files>> /\ late' \subseteq Units /\ faults' \in Nat /\ tampers' \in Nat
  BY <1>3 DEF mattermost, bounds, Sound, Types
<1>5. Sound'
  BY <1>1, <1>3, <1>4, PassSound
<1> QED BY <1>1, <1>3, <1>4, <1>5, SamePosts

LEMMA SoundNext == Sound /\ [Next]_vars => Sound' /\ Later
<1> SUFFICES ASSUME Sound, [Next]_vars PROVE Sound' /\ Later
  OBVIOUS
<1>1. CASE Start \/ ReadRun \/ ReadHistory
  BY <1>1, ReadSound, SamePosts DEF mattermost
<1>2. CASE ReadThread
  BY <1>2, ThreadSound, SamePosts DEF mattermost
<1>3. CASE Looking
  BY <1>3, LookingSound
<1>4. CASE \E held \in SUBSET Files : Serve(held)
  BY <1>4, ServeSound
<1>5. CASE Receive
  BY <1>5, ReceiveSound
<1>6. CASE Fail
  BY <1>6, FailSound
<1>7. CASE \E u \in late : ServeLate(u)
  BY <1>7, ServeLateSound
<1>8. CASE Users
  BY <1>8, UsersSound
<1>9. CASE Orpheus
  BY <1>9, RunSound
<1>10. CASE Resume \/ UNCHANGED vars
  BY <1>10, RestSound
<1> QED BY <1>1, <1>2, <1>3, <1>4, <1>5, <1>6, <1>7, <1>8, <1>9, <1>10, Steps DEF Looking

LEMMA SoundInit == Init => Sound
<1> SUFFICES ASSUME Init PROVE Sound
  OBVIOUS
<1>1. Len(Messages) \in Nat
  BY MessagesAssumption
<1>2. export \in Exported
  BY DEF Init, Exported
<1>3. Good(pass)
  BY <1>2, NoPassGood DEF Init
<1>4. posts \in Seq(Post) /\ Len(posts) = 0 /\ DOMAIN posts = {}
  BY DEF Init
<1>5. files \in [Files -> [up : BOOLEAN, post : Nat]] /\ \A f \in Files : files[f].post = 0
  BY DEF Init
<1>6. Types
  <2>1. said \in 0 .. Len(Messages) /\ ended \in Endings
    BY <1>1 DEF Init, Endings
  <2>2. late \subseteq Units /\ suspended \in BOOLEAN /\ faults \in Nat /\ tampers \in Nat
    BY DEF Init
  <2>3. pass \in Passes
    BY <1>3 DEF Good
  <2> QED BY <1>2, <1>4, <1>5, <2>1, <2>2, <2>3 DEF Types
<1>7. Bindings
  BY <1>4, <1>5 DEF Bindings
<1>8. Reached /\ Replied
  BY <1>1 DEF Init, Reached, Replied, NoPass, Active
<1> QED BY <1>3, <1>6, <1>7, <1>8 DEF Sound

(* Types, for any messages, files and faults: a pass stays on its agenda, a
   post that is created has the receipt of a unit, a bound file and its post
   agree.                                                                    *)
THEOREM TypeCorrect == Spec => []TypeOK
<1>1. Sound => TypeOK
  <2> SUFFICES ASSUME Sound PROVE TypeOK
    OBVIOUS
  <2>1. pass \in Passes /\ pass.at \in 0 .. Len(Agenda(pass))
    <3>1. Len(Agenda(pass)) \in Nat
      BY AgendaSections DEF Sound, Types
    <3> QED BY <3>1 DEF Sound, Good, OnAgenda
  <2>2. pass.reply \in 0 .. Len(posts)
    BY <2>1, PostElements DEF Sound, Types, Replied, Passes
  <2>3. pass.pc \in Requests \cup {"idle", "look"} /\ pass.mode \in Modes /\ pass.todo \cup pass.rest \subseteq Files
    BY <2>1 DEF Passes
  <2> QED BY <2>1, <2>2, <2>3 DEF TypeOK, Sound, Types, Bindings, Endings, Exported, Post, Fixes, Modes
<1> QED BY <1>1, SoundInit, SoundNext, PTL DEF Spec

-----------------------------------------------------------------------------
(* No part is posted twice.  What the pass has read covers the live posts up
   to the last one it knows of, and what it is about to create is not among
   them; the server knows the posts after that.                             *)

Agrees ==
    \A i \in DOMAIN pass.seen :
        /\ i \in DOMAIN posts /\ SameKey(pass.seen[i], posts[i]) /\ pass.seen[i].claims = posts[i].claims
        /\ posts[i].intact => pass.seen[i].intact
Covers == pass.pc \in Active => \A i \in Live : i <= pass.known => i \in DOMAIN pass.seen
SeenOnce == \A i, j \in DOMAIN pass.seen : SameKey(pass.seen[i], pass.seen[j]) => i = j
Reading == pass.known <= Len(posts) /\ Agrees /\ Covers /\ SeenOnce

Unseen(p) ==
    p.pc \in {"check", "owner", "create", "await"} => \A i \in DOMAIN p.seen : ~SameKey(p.seen[i], Cur(p))

Once == Sound /\ Reading /\ Unseen(pass) /\ PartOnce

LEMMA KeyEqual ==
    ASSUME NEW a, NEW b, NEW c
    PROVE  /\ SameKey(a, a) /\ (SameKey(a, b) => SameKey(b, a))
           /\ SameKey(a, b) /\ SameKey(b, c) => SameKey(a, c)
BY DEF SameKey

LEMMA ReadingKept ==
    ASSUME Sound, Reading, Later, Sound',
           pass' = NoPass \/ (/\ pass'.seen = pass.seen /\ pass'.known = pass.known
                              /\ pass.pc \in Active \/ pass'.pc \notin Active)
    PROVE  Reading'
<1>0. posts \in Seq(Post) /\ posts' \in Seq(Post) /\ pass \in Passes
  BY DEF Sound, Types, Post, Fixes, Mids
<1>1. Len(posts) \in Nat /\ Len(posts') \in Nat /\ Len(posts) <= Len(posts') /\ DOMAIN posts \subseteq DOMAIN posts'
      /\ DOMAIN posts = 1 .. Len(posts) /\ DOMAIN posts' = 1 .. Len(posts')
  BY <1>0, PostElements, SeqElements DEF Later
<1>2. CASE pass' = NoPass
  <2>1. DOMAIN pass'.seen = {} /\ pass'.known = 0 /\ pass'.pc \notin Active
    BY <1>2 DEF NoPass, Active
  <2>2. pass'.known <= Len(posts')
    BY <1>1, <2>1
  <2> QED BY <2>1, <2>2 DEF Reading, Agrees, Covers, SeenOnce
<1>3. CASE pass'.seen = pass.seen /\ pass'.known = pass.known /\ (pass.pc \in Active \/ pass'.pc \notin Active)
  <2>1. pass'.known <= Len(posts')
    <3>1. pass.known \in Nat /\ pass.known <= Len(posts)
      BY <1>0 DEF Reading, Passes
    <3> QED BY <1>1, <1>3, <3>1
  <2>2. Agrees'
    <3> SUFFICES ASSUME NEW i \in DOMAIN pass.seen
                 PROVE  /\ i \in DOMAIN posts' /\ SameKey(pass.seen[i], posts'[i]) /\ pass.seen[i].claims = posts'[i].claims
                        /\ posts'[i].intact => pass.seen[i].intact
      BY <1>3 DEF Agrees, SameKey
    <3>1. /\ i \in DOMAIN posts /\ SameKey(pass.seen[i], posts[i]) /\ pass.seen[i].claims = posts[i].claims
          /\ posts[i].intact => pass.seen[i].intact
      BY DEF Reading, Agrees
    <3>2. SameKey(posts'[i], posts[i]) /\ posts'[i].claims = posts[i].claims /\ (posts'[i].intact => posts[i].intact)
      BY <3>1 DEF Later
    <3>3. SameKey(pass.seen[i], posts'[i])
      BY <3>1, <3>2 DEF SameKey
    <3> QED BY <1>1, <3>1, <3>2, <3>3
  <2>3. Covers'
    <3> SUFFICES ASSUME pass'.pc \in Active, NEW i \in Live', i <= pass.known
                 PROVE  i \in DOMAIN pass.seen
      BY <1>3 DEF Covers, Active
    <3>1. i \in DOMAIN posts' /\ posts'[i].live
      BY DEF Live
    <3>2. pass.known \in Nat /\ pass.known <= Len(posts)
      BY <1>0 DEF Reading, Passes
    <3>3. i \in DOMAIN posts
      BY <1>1, <3>1, <3>2
    <3>4. i \in Live
      BY <3>1, <3>3 DEF Later, Live
    <3> QED BY <1>3, <3>4 DEF Reading, Covers
  <2>4. SeenOnce'
    BY <1>3 DEF Reading, SeenOnce, SameKey
  <2> QED BY <2>1, <2>2, <2>3, <2>4 DEF Reading
<1> QED BY <1>2, <1>3

LEMMA OnceLater ==
    ASSUME PartOnce, Later, DOMAIN posts' = DOMAIN posts
    PROVE  PartOnce'
<1> SUFFICES ASSUME NEW i \in Live', NEW j \in Live', SameKey(posts'[i], posts'[j]) PROVE i = j
  BY DEF PartOnce, SameKey
<1>1. i \in Live /\ j \in Live /\ SameKey(posts'[i], posts[i]) /\ SameKey(posts'[j], posts[j])
  BY DEF Live, Later
<1>2. SameKey(posts[i], posts[j])
  BY <1>1 DEF SameKey
<1> QED BY <1>1, <1>2 DEF PartOnce

LEMMA OnceCommitted ==
    ASSUME PartOnce, NEW u, NEW held, NEW given, Committed(u, held, given), \A i \in Live : ~SameKey(posts[i], u)
    PROVE  PartOnce'
<1> DEFINE n == Len(posts) + 1
<1>1. /\ DOMAIN posts' = DOMAIN posts \cup {n} /\ \A i \in DOMAIN posts : posts'[i] = posts[i]
      /\ SameKey(posts'[n], u)
  BY DEF Committed, PostOf, SameKey
<1> HIDE DEF n
<1> SUFFICES ASSUME NEW i \in Live', NEW j \in Live', SameKey(posts'[i], posts'[j]) PROVE i = j
  BY DEF PartOnce, SameKey
<1>2. /\ i = n \/ (i \in Live /\ posts'[i] = posts[i])
      /\ j = n \/ (j \in Live /\ posts'[j] = posts[j])
  BY <1>1 DEF Live
<1>3. CASE i = n /\ j \in Live /\ posts'[j] = posts[j]
  <2>1. SameKey(posts[j], u)
    BY <1>1, <1>3 DEF SameKey
  <2> QED BY <1>3, <2>1
<1>4. CASE j = n /\ i \in Live /\ posts'[i] = posts[i]
  <2>1. SameKey(posts[i], u)
    BY <1>1, <1>4 DEF SameKey
  <2> QED BY <1>4, <2>1
<1>5. CASE i \in Live /\ posts'[i] = posts[i] /\ j \in Live /\ posts'[j] = posts[j]
  BY <1>5 DEF PartOnce
<1> QED BY <1>2, <1>3, <1>4, <1>5

(* A pass on the way to a post that is not there.                           *)
LEMMA UnseenKept ==
    ASSUME Unseen(pass), NEW q, q.seen = pass.seen, Cur(q) = Cur(pass), pass.pc \in {"check", "owner", "create", "await"}
    PROVE  Unseen(q)
BY DEF Unseen

LEMMA UnseenPrime ==
    ASSUME UNCHANGED run
    PROVE  Unseen(pass)' <=> Unseen(pass')
<1>1. Cur(pass)' = Cur(pass')
  BY AgendaNext DEF run
<1> QED BY <1>1 DEF Unseen, SameKey

LEMMA LookingUnseen ==
    ASSUME Sound, Unseen(pass), Looking
    PROVE  Unseen(pass')
<1>0. pass \in Passes
  BY DEF Sound, Types
<1>1. pass'.pc \in {"look", "verify", "idle"} => Unseen(pass')
  BY DEF Unseen
<1>2. NoPass.pc = "idle"
  BY DEF NoPass
<1>3. pass.pc \in Active /\ Good(pass) /\ export \in Exported
  BY LookingSound DEF Sound, Types
<1>4. Done(pass).pc \in {"look", "verify", "idle"}
  BY <1>2, <1>3, DoneGood
<1>5. Missing(pass).pc = "look"
  BY <1>3, MissingGood
<1>6. CASE Look
  <2>1. CASE pass' = NoPass \/ pass' = Done(pass)
    BY <1>1, <1>2, <1>4, <2>1
  <2>2. CASE pass' = [pass EXCEPT !.pc = "verify", !.todo = Found(Cur(pass)).claims]
    BY <1>0, <1>1, <2>2 DEF Passes
  <2>3. ASSUME Matches(Cur(pass)) = {}, pass'.seen = pass.seen, Cur(pass') = Cur(pass)
        PROVE  Unseen(pass')
    BY <2>3 DEF Unseen, Matches
  <2>4. CASE Matches(Cur(pass)) = {} /\ (\/ pass' = [pass EXCEPT !.pc = "create"]
                                         \/ pass' = [pass EXCEPT !.pc = "check", !.todo = Cur(pass).files])
    <3> DEFINE q == pass'
    <3>1. q.seen = pass.seen /\ q.said = pass.said /\ q.ended = pass.ended /\ q.stopped = pass.stopped /\ q.at = pass.at
          /\ q.fix = pass.fix /\ q.mode = pass.mode
      BY <1>0, <2>4 DEF Passes
    <3> HIDE DEF q
    <3>2. Cur(q) = Cur(pass)
      BY <3>1, CurKept
    <3> QED BY <2>3, <2>4, <3>1, <3>2 DEF q
  <2> QED BY <1>6, <2>1, <2>2, <2>4, LookGood
<1>7. CASE Verify
  <2>1. pass.pc = "verify"
    BY <1>7 DEF Verify, At
  <2>2. \A f \in pass.todo : Mend(pass, f).pc = "look"
    BY <1>0, <1>3, MendGood DEF Passes
  <2>3. CASE \E f \in pass.todo : pass.todo # {f} /\ pass' = [pass EXCEPT !.todo = @ \ {f}]
    <3>1. pass'.pc = "verify"
      BY <1>0, <2>1, <2>3 DEF Passes
    <3> QED BY <1>1, <3>1
  <2> QED BY <1>1, <1>4, <1>7, <2>2, <2>3, VerifyGood
<1>8. ASSUME pass'.seen = pass.seen, pass'.said = pass.said, pass'.ended = pass.ended, pass'.stopped = pass.stopped,
             pass'.at = pass.at, pass'.fix = pass.fix, pass'.mode = pass.mode, pass.pc \in {"check", "owner", "create", "await"}
      PROVE  Unseen(pass')
  <2>1. Cur(pass') = Cur(pass)
    BY <1>8, CurKept
  <2> QED BY <1>8, <2>1, UnseenKept
<1>9. CASE Check
  <2>1. pass.pc = "check"
    BY <1>9 DEF Check, At
  <2>2. CASE pass' = [pass EXCEPT !.pc = "owner"]
    BY <1>0, <1>8, <2>1, <2>2 DEF Passes
  <2>3. ASSUME NEW f \in pass.todo,
               pass' = [pass EXCEPT !.todo = @ \ {f}, !.pc = IF pass.todo = {f} THEN "create" ELSE "check"]
        PROVE  Unseen(pass')
    BY <1>0, <1>8, <2>1, <2>3 DEF Passes
  <2> QED BY <1>1, <1>5, <1>9, <2>2, <2>3, CheckGood
<1>10. CASE Owner
  BY <1>1, <1>2, <1>5, <1>10, OwnerGood
<1>11. CASE Create
  <2>1. pass.pc = "create"
    BY <1>11 DEF Create, At
  <2>2. pass' = [pass EXCEPT !.pc = "await"]
    BY <1>11, CreateGood
  <2> QED BY <1>0, <1>8, <2>1, <2>2 DEF Passes
<1> QED BY <1>6, <1>7, <1>9, <1>10, <1>11 DEF Looking

(* A step of the others: the pass has read what it has read.                *)
LEMMA OthersRead ==
    ASSUME Once, Sound', Later, pass' = pass, Cur(pass)' = Cur(pass)
    PROVE  Reading' /\ Unseen(pass)'
<1>1. Reading'
  BY ReadingKept DEF Once
<1>2. Unseen(pass)'
  BY DEF Once, Unseen, SameKey
<1> QED BY <1>1, <1>2

LEMMA ServeOnce ==
    ASSUME Once, NEW held \in SUBSET Files, Serve(held)
    PROVE  Once'
<1>0. pass \in Passes /\ posts \in Seq(Post) /\ Good(pass) /\ export \in Exported /\ pass.pc = "await" /\ pass.pc \in Active
  BY ServeSound DEF Once, Sound, Types, Active
<1>1. /\ Sound' /\ Later /\ UNCHANGED run /\ Cur(pass') = Cur(pass)
      /\ pass' = [pass EXCEPT !.reply = pass'.reply]
      /\ posts' = posts \/ (Recognised(Asked, pass.known) = {} /\ Committed(Asked, held, FALSE))
  BY ServeSound DEF Once
<1>2. pass'.seen = pass.seen /\ pass'.known = pass.known
  BY <1>0, <1>1 DEF Passes
<1>3. Reading'
  BY <1>0, <1>1, <1>2, ReadingKept DEF Once
<1>4. Unseen(pass')
  BY <1>0, <1>1, <1>2, UnseenKept DEF Once
<1>5. Unseen(pass)'
  BY <1>1, <1>4, UnseenPrime
<1>6. PartOnce'
  <2>1. CASE posts' = posts
    BY <1>1, <2>1, OnceLater DEF Once
  <2>2. CASE Recognised(Asked, pass.known) = {} /\ Committed(Asked, held, FALSE)
    <3>1. ASSUME NEW i \in Live, SameKey(posts[i], Asked)
          PROVE  FALSE
      <4>1. i \in Nat /\ pass.known \in Nat
        BY <1>0, PostElements DEF Passes
      <4>2. ~(i > pass.known)
        BY <2>2, <3>1 DEF Recognised
      <4>3. i \in DOMAIN pass.seen /\ SameKey(pass.seen[i], posts[i])
        BY <1>0, <4>1, <4>2 DEF Once, Reading, Covers, Agrees
      <4>4. SameKey(Asked, Cur(pass))
        BY <1>0, AskedType
      <4>5. SameKey(pass.seen[i], Cur(pass))
        BY <3>1, <4>3, <4>4 DEF SameKey
      <4> QED BY <1>0, <4>3, <4>5 DEF Once, Unseen
    <3> QED BY <2>2, <3>1, OnceCommitted DEF Once
  <2> QED BY <1>1, <2>1, <2>2
<1> QED BY <1>1, <1>3, <1>5, <1>6 DEF Once

LEMMA ReceiveOnce ==
    ASSUME Once, Receive
    PROVE  Once'
<1>0. pass \in Passes /\ posts \in Seq(Post) /\ pass.pc = "await" /\ pass.pc \in Active
  BY ReceiveSound DEF Once, Sound, Types, Active
<1>1. /\ Sound' /\ Later /\ UNCHANGED <<run, mattermost>>
      /\ pass.reply \in DOMAIN posts /\ SameKey(posts[pass.reply], Cur(pass))
      /\ pass'.seen = [i \in DOMAIN pass.seen \cup {pass.reply} |-> IF i = pass.reply THEN posts[i] ELSE pass.seen[i]]
      /\ pass'.pc = "look" /\ pass'.known = pass.known
  BY ReceiveSound DEF Once
<1>2. posts' = posts /\ DOMAIN pass'.seen = DOMAIN pass.seen \cup {pass.reply}
  BY <1>1 DEF mattermost
<1> DEFINE r == pass.reply
<1>3. pass'.seen[r] = posts[r] /\ \A i \in DOMAIN pass.seen : i # r => pass'.seen[i] = pass.seen[i]
  BY <1>1
<1>4. Agrees'
  <2> SUFFICES ASSUME NEW i \in DOMAIN pass'.seen
               PROVE  /\ i \in DOMAIN posts /\ SameKey(pass'.seen[i], posts[i]) /\ pass'.seen[i].claims = posts[i].claims
                      /\ posts[i].intact => pass'.seen[i].intact
    BY <1>2 DEF Agrees, SameKey
  <2>1. CASE i = r
    BY <1>1, <1>3, <2>1 DEF SameKey
  <2>2. CASE i # r
    <3>1. i \in DOMAIN pass.seen /\ pass'.seen[i] = pass.seen[i]
      BY <1>2, <1>3, <2>2
    <3> QED BY <3>1 DEF Once, Reading, Agrees
  <2> QED BY <2>1, <2>2
<1>5. Covers'
  BY <1>0, <1>1, <1>2 DEF Once, Reading, Covers, Live
<1>6. SeenOnce'
  <2>1. \A i \in DOMAIN pass.seen : ~SameKey(pass.seen[i], posts[r])
    <3> SUFFICES ASSUME NEW i \in DOMAIN pass.seen, SameKey(pass.seen[i], posts[r]) PROVE FALSE
      OBVIOUS
    <3>1. SameKey(pass.seen[i], Cur(pass))
      BY <1>1 DEF SameKey
    <3> QED BY <1>0, <3>1 DEF Once, Unseen
  <2> SUFFICES ASSUME NEW i \in DOMAIN pass'.seen, NEW j \in DOMAIN pass'.seen, SameKey(pass'.seen[i], pass'.seen[j])
               PROVE  i = j
    BY DEF SeenOnce, SameKey
  <2>2. CASE i = r /\ j # r
    <3>1. j \in DOMAIN pass.seen /\ SameKey(pass.seen[j], posts[r])
      BY <1>2, <1>3, <2>2 DEF SameKey
    <3> QED BY <2>1, <3>1
  <2>3. CASE j = r /\ i # r
    <3>1. i \in DOMAIN pass.seen /\ SameKey(pass.seen[i], posts[r])
      BY <1>2, <1>3, <2>3 DEF SameKey
    <3> QED BY <2>1, <3>1
  <2>4. CASE i # r /\ j # r
    <3>1. i \in DOMAIN pass.seen /\ j \in DOMAIN pass.seen /\ SameKey(pass.seen[i], pass.seen[j])
      BY <1>2, <1>3, <2>4
    <3> QED BY <3>1 DEF Once, Reading, SeenOnce
  <2> QED BY <2>2, <2>3, <2>4
<1>7. Unseen(pass)'
  BY <1>1 DEF Unseen
<1>8. PartOnce'
  BY <1>1, <1>2, OnceLater DEF Once
<1>9. pass'.known <= Len(posts')
  BY <1>1, <1>2 DEF Once, Reading
<1> QED BY <1>1, <1>4, <1>5, <1>6, <1>7, <1>8, <1>9 DEF Once, Reading

LEMMA ThreadOnce ==
    ASSUME Once, ReadThread
    PROVE  Once'
<1>0. posts \in Seq(Post) /\ Len(posts) \in Nat /\ DOMAIN posts = 1 .. Len(posts) /\ Live \subseteq DOMAIN posts
  BY PostElements DEF Once, Sound, Types
<1>1. /\ Sound' /\ UNCHANGED <<run, mattermost, suspended, bounds>>
      /\ pass' = NoPass \/ (/\ pass'.pc = "look" /\ pass'.seen = [i \in Live |-> posts[i]] /\ pass'.known = Len(posts))
  BY ThreadSound DEF Once
<1>2. posts' = posts /\ Later
  BY <1>1, SamePosts DEF mattermost, Once
<1>3. Reading'
  <2>1. CASE pass' = NoPass
    BY <1>1, <1>2, <2>1, ReadingKept DEF Once
  <2>2. CASE pass'.pc = "look" /\ pass'.seen = [i \in Live |-> posts[i]] /\ pass'.known = Len(posts)
    <3>1. DOMAIN pass'.seen = Live /\ \A i \in Live : pass'.seen[i] = posts[i]
      BY <2>2
    <3>2. Agrees'
      BY <1>0, <1>2, <3>1 DEF Agrees, SameKey
    <3>3. Live' = Live
      BY <1>2 DEF Live
    <3>4. Covers'
      BY <3>1, <3>3 DEF Covers
    <3>5. SeenOnce'
      BY <3>1 DEF Once, PartOnce, SeenOnce, SameKey
    <3>6. pass'.known <= Len(posts')
      BY <1>0, <1>2, <2>2
    <3> QED BY <3>2, <3>4, <3>5, <3>6 DEF Reading
  <2> QED BY <1>1, <2>1, <2>2
<1>4. Unseen(pass)'
  BY <1>1 DEF Unseen, NoPass
<1>5. PartOnce'
  BY <1>2, OnceLater DEF Once
<1> QED BY <1>1, <1>3, <1>4, <1>5 DEF Once

LEMMA OnceNext == Once /\ [Next]_vars => Once'
<1> SUFFICES ASSUME Once, [Next]_vars PROVE Once'
  OBVIOUS
<1>0. Sound /\ Sound' /\ Later
  BY SoundNext DEF Once
<1>1. CASE Start \/ ReadRun \/ ReadHistory
  <2>1. /\ UNCHANGED <<run, mattermost>> /\ pass'.pc \notin Active /\ pass'.seen = pass.seen /\ pass'.known = pass.known
    BY <1>0, <1>1, ReadSound
  <2>2. posts' = posts
    BY <2>1 DEF mattermost
  <2>3. Reading'
    BY <1>0, <2>1, ReadingKept DEF Once
  <2>4. Unseen(pass)'
    BY <2>1 DEF Unseen, Active
  <2> QED BY <1>0, <2>2, <2>3, <2>4, OnceLater DEF Once
<1>2. CASE ReadThread
  BY <1>2, ThreadOnce
<1>3. CASE Looking
  <2>1. /\ UNCHANGED <<run, mattermost>> /\ pass.pc \in Active
        /\ pass' = NoPass \/ (pass'.pc \in Active /\ Kept(pass, pass'))
    BY <1>0, <1>3, LookingSound
  <2>2. posts' = posts
    BY <2>1 DEF mattermost
  <2>3. Reading'
    BY <1>0, <2>1, ReadingKept DEF Once, Kept
  <2>4. Unseen(pass)'
    BY <1>3, <2>1, LookingUnseen, UnseenPrime DEF Once
  <2> QED BY <1>0, <2>2, <2>3, <2>4, OnceLater DEF Once
<1>4. CASE \E held \in SUBSET Files : Serve(held)
  BY <1>4, ServeOnce
<1>5. CASE Receive
  BY <1>5, ReceiveOnce
<1>6. CASE Fail
  <2>1. pass' = NoPass /\ posts' = posts
    BY <1>0, <1>6, FailSound
  <2>2. Reading'
    BY <1>0, <2>1, ReadingKept DEF Once
  <2>3. Unseen(pass)'
    BY <2>1 DEF Unseen, NoPass
  <2> QED BY <1>0, <2>1, <2>2, <2>3, OnceLater DEF Once
<1>7. ASSUME NEW u \in late, ServeLate(u)
      PROVE  Once'
  <2>1. /\ pass' = pass /\ Cur(pass)' = Cur(pass)
        /\ posts' = posts \/ (Recognised(u, 0) = {} /\ Committed(u, Attachable(u.files), TRUE))
    BY <1>0, <1>7, ServeLateSound
  <2>2. Reading' /\ Unseen(pass)'
    BY <1>0, <2>1, OthersRead
  <2>3. PartOnce'
    <3>1. CASE posts' = posts
      BY <1>0, <3>1, OnceLater DEF Once
    <3>2. CASE Recognised(u, 0) = {} /\ Committed(u, Attachable(u.files), TRUE)
      <4>1. \A i \in Live : i > 0
        BY <1>0, PostElements DEF Sound, Types
      <4>2. \A i \in Live : ~SameKey(posts[i], u)
        BY <3>2, <4>1 DEF Recognised
      <4> QED BY <3>2, <4>2, OnceCommitted DEF Once
    <3> QED BY <2>1, <3>1, <3>2
  <2> QED BY <1>0, <2>2, <2>3 DEF Once
<1>8. CASE Users
  <2>1. pass' = pass /\ Cur(pass)' = Cur(pass) /\ DOMAIN posts' = DOMAIN posts
    BY <1>0, <1>8, UsersSound
  <2> QED BY <1>0, <2>1, OthersRead, OnceLater DEF Once
<1>9. CASE Orpheus
  <2>1. pass' = pass /\ Cur(pass)' = Cur(pass) /\ posts' = posts
    BY <1>0, <1>9, RunSound DEF mattermost
  <2> QED BY <1>0, <2>1, OthersRead, OnceLater DEF Once
<1>10. CASE Resume \/ UNCHANGED vars
  <2>1. pass' = pass /\ Cur(pass)' = Cur(pass) /\ posts' = posts
    BY <1>0, <1>10, RestSound DEF mattermost
  <2> QED BY <1>0, <2>1, OthersRead, OnceLater DEF Once
<1> QED BY <1>1, <1>2, <1>3, <1>4, <1>5, <1>6, <1>7, <1>8, <1>9, <1>10, Steps DEF Looking

LEMMA OnceInit == Init => Once
<1> SUFFICES ASSUME Init PROVE Once
  OBVIOUS
<1>1. Sound
  BY SoundInit
<1>2. DOMAIN posts = {} /\ Len(posts) = 0 /\ DOMAIN pass.seen = {} /\ pass.known = 0 /\ pass.pc = "idle"
  BY DEF Init, NoPass
<1>3. Reading
  BY <1>2 DEF Reading, Agrees, Covers, SeenOnce, Live
<1>4. Unseen(pass) /\ PartOnce
  BY <1>2 DEF Unseen, PartOnce, Live
<1> QED BY <1>1, <1>3, <1>4 DEF Once

LEMMA AlwaysOnce == Spec => []Once
BY OnceInit, OnceNext, PTL DEF Spec

(* Nothing of a run is in its thread twice, whatever requests fail or are
   answered late, and although only the thread says what was posted before.  *)
THEOREM NoRepeats == Spec => []PartOnce
<1>1. Once => PartOnce
  BY DEF Once
<1> QED BY <1>1, AlwaysOnce, PTL

-----------------------------------------------------------------------------
(* Why a thread is suspended.  Until somebody edits a post, deletes the notice
   or a late request makes a post, receipts and runs agree: a post claims the
   files that are due with it, or a notice says that files are missing and the
   pass that finds it claims none.                                          *)

Excused ==
    Edited \/ \E i \in DOMAIN posts : posts[i].late \/ (posts[i].mid = "notice" /\ ~posts[i].live)
Noticed == \E i \in DOMAIN posts : posts[i].mid = "notice"

(* The files that are due with a part of a message.                         *)
Carries(a) ==
    a.part = 0 /\ IF Final(said) = 0 THEN a.mid = "files" ELSE a.mid = Messages[Final(said)].mid
Due(a) == IF a.fix # "none" THEN {a.fix} ELSE IF Carries(a) THEN export.files ELSE {}
Early(mid) == \E i \in DOMAIN Messages : Messages[i].kind = "progress" /\ Messages[i].mid = mid

Consistent ==
    /\ pass.pc = "verify" => Cur(pass).mid # "notice"
    /\ pass.mode = "repair" => Agenda(pass)[pass.at].mid # "notice"
    /\ pass.ended = "no" => pass.mode \in {"unit", "created"} /\ pass.pc \notin {"verify", "check", "owner"}
    /\ pass.stopped => pass.skip
    /\ pass.pc \notin Active => ~pass.skip /\ ~pass.stopped

Claimed ==
    /\ ended = "no" => export.files = {} /\ \A i \in DOMAIN posts : Early(posts[i].mid)
    /\ \A i \in DOMAIN posts : posts[i].mid = "notice" => posts[i].claims = {}
    /\ pass.skip => Noticed
    /\ Noticed \/ \A i \in DOMAIN posts : posts[i].claims = Due(posts[i])

Known == pass.pc \in Active => \A i \in DOMAIN posts : i > pass.known => i \in DOMAIN pass.seen \cup {pass.reply}
Announced ==
    pass.pc \in Active /\ ~pass.skip =>
        \A i \in DOMAIN pass.seen : pass.seen[i].mid = "notice" => Cur(pass).mid = "notice"
Foreign ==
    pass.pc = "owner" => files[First(pass.todo)].post \in DOMAIN posts \ DOMAIN pass.seen

Trusted == ~suspended /\ Consistent /\ Claimed /\ Known /\ Announced /\ Foreign

Explained == Once /\ (Excused \/ Trusted)

LEMMA FinalIn ==
    ASSUME NEW n \in 0 .. Len(Messages)
    PROVE  /\ Final(n) = 0 \/ (Final(n) \in 1 .. n /\ Messages[Final(n)].kind = "answer")
           /\ 1 .. n \subseteq DOMAIN Messages
<1>1. Len(Messages) \in Nat /\ DOMAIN Messages = 1 .. Len(Messages) /\ n \in Nat
  BY MessagesAssumption
<1> DEFINE answers == {i \in 1 .. n : Messages[i].kind = "answer"}
<1>2. CASE answers = {}
  BY <1>1, <1>2 DEF Final
<1>3. CASE answers # {}
  <2>1. Final(n) = CHOOSE i \in answers : \A j \in answers : j <= i
    BY <1>3 DEF Final
  <2>2. answers \subseteq 0 .. n
    OBVIOUS
  <2> HIDE DEF answers
  <2>3. \E i \in answers : \A j \in answers : j <= i
    BY <1>1, <1>3, <2>2, GreatestOfBounded
  <2>4. Final(n) \in answers
    BY <2>1, <2>3
  <2> QED BY <1>1, <2>4 DEF answers
<1> QED BY <1>2, <1>3

LEMMA MidsDiffer ==
    ASSUME NEW i \in DOMAIN Messages
    PROVE  /\ Messages[i].mid \notin {"notice", "files", "status", "empty"}
           /\ \A j \in DOMAIN Messages : Messages[i].mid = Messages[j].mid => i = j
           /\ Messages[i].kind \in {"progress", "answer"} /\ Messages[i].parts \in Nat
BY MessagesAssumption

(* A unit on the agenda.                                                    *)
LEMMA UnitFacts ==
    ASSUME export \in Exported, NEW p \in Passes, NEW k \in DOMAIN Agenda(p)
    PROVE  LET u == Agenda(p)[k] IN
           /\ u.mid = "notice" => u = Notice
           /\ p.ended = "no" => u.files = {} /\ Early(u.mid)
           /\ u.fix = "none"
<1> DEFINE u == Agenda(p)[k]
<1>0. 1 .. p.said \subseteq DOMAIN Messages
  BY SpokenType
<1>1. CASE Unknown(p) /\ u = Notice
  BY <1>1 DEF Unknown, Ended, Notice, Unit
<1>2. ASSUME NEW i \in 1 .. p.said, NEW j \in Parts(i), Part(p, u, i, j)
      PROVE  /\ u.mid # "notice" /\ u.fix = "none"
             /\ p.ended = "no" => u.files = {} /\ Early(u.mid)
  <2>1. i \in DOMAIN Messages /\ Messages[i].mid # "notice"
    BY <1>0, MidsDiffer
  <2>2. u.mid = Messages[i].mid /\ u.files = (IF j = 1 THEN Carried(p, i) ELSE {}) /\ Shown(p, i) /\ u.fix = "none"
    BY <1>2 DEF Part, Unit
  <2>3. ASSUME p.ended = "no"
        PROVE  u.files = {} /\ Early(u.mid)
    <3>1. Carried(p, i) = {}
      BY <2>3 DEF Carried, Output, Ended
    <3>2. Messages[i].kind = "progress"
      BY <2>1, <2>2, <2>3, MidsDiffer DEF Shown, Ended
    <3> QED BY <2>1, <2>2, <3>1, <3>2 DEF Early
  <2> QED BY <2>1, <2>2, <2>3
<1>3. CASE Closing(p, u)
  <2>1. p.ended # "no"
    BY <1>3 DEF Closing, FilesOnly, Output, Ended
  <2> QED BY <1>3, <2>1 DEF Closing, Unit
<1> HIDE DEF u
<1>4. \/ Unknown(p) /\ u = Notice
      \/ \E i \in 1 .. p.said : \E j \in Parts(i) : Part(p, u, i, j)
      \/ Closing(p, u)
  BY AgendaUnits DEF u
<1>5. CASE \E i \in 1 .. p.said : \E j \in Parts(i) : Part(p, u, i, j)
  BY <1>2, <1>5 DEF u
<1> QED BY <1>1, <1>3, <1>4, <1>5 DEF u

LEMMA DueUnit ==
    ASSUME Sound, pass.pc \in Active, ~pass.stopped
    PROVE  Agenda(pass)[pass.at].files = Due(Agenda(pass)[pass.at])
<1> DEFINE u == Agenda(pass)[pass.at]
           p == pass
<1>0. /\ export \in Exported /\ p \in Passes /\ said \in 0 .. Len(Messages) /\ p.said \in 0 .. Len(Messages)
      /\ Good(p)
  BY DEF Sound, Types, Passes
<1>1. p.at \in DOMAIN Agenda(p)
  BY <1>0, CurType
<1>2. u.fix = "none"
  BY <1>0, <1>1, UnitFacts
<1>3. p.ended # "no" => p.said = said /\ Output(p) = export.files
  BY DEF Sound, Reached, Output, Ended
<1>4. p.ended = "no" => Output(p) = {}
  BY DEF Output, Ended
<1>5. Final(said) = 0 \/ (Final(said) \in DOMAIN Messages /\ Messages[Final(said)].kind = "answer")
  BY <1>0, FinalIn
<1>6. 1 .. p.said \subseteq DOMAIN Messages /\ p.said \in Nat
  BY <1>0, SpokenType
<1>7. CASE Unknown(p) /\ u = Notice
  <2>1. u.mid = "notice" /\ u.files = {}
    BY <1>7 DEF Notice, Unit
  <2>2. ~Carries(u)
    BY <1>5, <2>1, MidsDiffer DEF Carries
  <2> QED BY <1>2, <2>1, <2>2 DEF Due
<1>8. ASSUME NEW i \in 1 .. p.said, NEW j \in Parts(i), Part(p, u, i, j)
      PROVE  u.files = Due(u)
  <2>1. /\ u.mid = Messages[i].mid /\ u.files = (IF j = 1 THEN Carried(p, i) ELSE {}) /\ Shown(p, i) /\ u.part = j - 1
    BY <1>8 DEF Part, Unit
  <2>2. i \in DOMAIN Messages /\ i # 0 /\ j \in Nat
    BY <1>6, MidsDiffer DEF Parts
  <2>3. u.mid \notin {"files", "notice"} /\ (Final(said) # 0 => (u.mid = Messages[Final(said)].mid <=> i = Final(said)))
    BY <1>5, <2>1, <2>2, MidsDiffer
  <2>4. CASE p.ended = "no"
    <3>1. Messages[i].kind = "progress" /\ Carried(p, i) = {}
      BY <1>4, <2>1, <2>2, <2>4, MidsDiffer DEF Shown, Ended, Carried
    <3>2. ~Carries(u)
      BY <1>5, <2>3, <3>1 DEF Carries
    <3> QED BY <1>2, <2>1, <3>1, <3>2 DEF Due
  <2>5. CASE p.ended # "no"
    <3>1. Carried(p, i) = IF i = Final(said) THEN export.files ELSE {}
      BY <1>3, <2>5 DEF Carried
    <3>2. Carries(u) <=> j = 1 /\ i = Final(said)
      BY <2>1, <2>2, <2>3 DEF Carries
    <3> QED BY <1>2, <2>1, <3>1, <3>2 DEF Due
  <2> QED BY <2>4, <2>5
<1>9. CASE Closing(p, u)
  <2>1. ASSUME FilesOnly(p), u = Unit("files", 0, FALSE, Output(p))
        PROVE  u.files = Due(u)
    <3>1. p.ended # "no" /\ Final(said) = 0
      BY <1>3, <1>4, <2>1 DEF FilesOnly
    <3>2. u.mid = "files" /\ u.part = 0 /\ u.files = export.files
      BY <1>3, <2>1, <3>1 DEF Unit
    <3> QED BY <1>2, <3>1, <3>2 DEF Due, Carries
  <2>2. ASSUME u.mid \in {"status", "empty"}, u.files = {}
        PROVE  u.files = Due(u)
    <3>1. ~Carries(u)
      BY <1>5, <2>2, MidsDiffer DEF Carries
    <3> QED BY <1>2, <2>2, <3>1 DEF Due
  <2> QED BY <1>9, <2>1, <2>2 DEF Closing, Unit
<1> HIDE DEF u
<1>10. \/ Unknown(p) /\ u = Notice
       \/ \E i \in 1 .. p.said : \E j \in Parts(i) : Part(p, u, i, j)
       \/ Closing(p, u)
  BY <1>0, <1>1, AgendaUnits DEF u
<1> QED BY <1>7, <1>8, <1>9, <1>10 DEF u

LEMMA DueCur ==
    ASSUME Sound, pass.pc \in Active, ~pass.stopped
    PROVE  Cur(pass).files = Due(Cur(pass))
<1>0. export \in Exported /\ Good(pass) /\ pass \in Passes /\ said \in 0 .. Len(Messages)
  BY DEF Sound, Types
<1>1. CASE pass.mode = "notice"
  <2>1. Cur(pass).mid = "notice" /\ Cur(pass).files = {} /\ Cur(pass).fix = "none"
    BY <1>1 DEF Cur, Notice, Unit
  <2>2. Final(said) = 0 \/ Final(said) \in DOMAIN Messages
    BY <1>0, FinalIn
  <2>3. ~Carries(Cur(pass))
    BY <2>1, <2>2, MidsDiffer DEF Carries
  <2> QED BY <2>1, <2>3 DEF Due
<1>2. CASE pass.mode = "repair"
  <2>1. Agenda(pass)[pass.at] \in Units /\ pass.fix \in Files /\ Cur(pass) = Repair(Agenda(pass)[pass.at], pass.fix)
    BY <1>0, <1>2, CurType
  <2>2. Cur(pass).files = {pass.fix} /\ Cur(pass).fix = pass.fix /\ pass.fix # "none"
    BY <2>1, BoundAssumption DEF Repair, Units
  <2> QED BY <2>2 DEF Due
<1>3. CASE pass.mode \notin {"notice", "repair"}
  <2>1. Cur(pass) = Agenda(pass)[pass.at]
    BY <1>0, <1>3, CurType
  <2> QED BY <2>1, DueUnit
<1> QED BY <1>1, <1>2, <1>3

LEMMA ExcusedLater ==
    ASSUME Later
    PROVE  (Excused => Excused') /\ (Noticed => Noticed')
<1>1. Edited => Edited'
  BY DEF Edited, Later
<1>2. \A i \in DOMAIN posts : i \in DOMAIN posts' /\ posts'[i].mid = posts[i].mid /\ posts'[i].late = posts[i].late
                              /\ (posts'[i].live => posts[i].live)
  BY DEF Later, SameKey
<1> QED BY <1>1, <1>2 DEF Excused, Noticed

LEMMA CurNotice ==
    ASSUME Sound, pass.pc \in Active, Cur(pass).mid = "notice",
           pass.mode = "repair" => Agenda(pass)[pass.at].mid # "notice"
    PROVE  Cur(pass) = Notice /\ Cur(pass).files = {}
<1>0. export \in Exported /\ Good(pass) /\ pass \in Passes
  BY DEF Sound, Types
<1>1. Notice.files = {}
  BY DEF Notice, Unit
<1>2. CASE pass.mode = "notice"
  BY <1>0, <1>1, <1>2, CurType
<1>3. CASE pass.mode = "repair"
  <2>1. Agenda(pass)[pass.at] \in Units /\ Cur(pass) = Repair(Agenda(pass)[pass.at], pass.fix)
    BY <1>0, <1>3, CurType
  <2>2. Cur(pass).mid = Agenda(pass)[pass.at].mid
    BY <2>1 DEF Repair, Units
  <2> QED BY <1>3, <2>2
<1>4. CASE pass.mode \notin {"notice", "repair"}
  <2>1. Cur(pass) = Agenda(pass)[pass.at] /\ pass.at \in DOMAIN Agenda(pass)
    BY <1>0, <1>4, CurType
  <2> QED BY <1>0, <1>1, <2>1, UnitFacts
<1> QED BY <1>2, <1>3, <1>4

(* What Publisher.find finds is what the pass wants to post.                *)
LEMMA NoConflict ==
    ASSUME Once, ~Excused, Trusted, pass.pc \in Active, pass.reply = 0
    PROVE  ~Conflicts(Cur(pass))
<1> DEFINE u == Cur(pass)
<1>0. Sound /\ posts \in Seq(Post) /\ pass \in Passes
  BY DEF Once, Sound, Types
<1>1. \A i \in Matches(u) : i \in DOMAIN pass.seen /\ SameKey(pass.seen[i], u)
  BY DEF Matches
<1>2. ASSUME NEW i \in Matches(u)
      PROVE  /\ i \in DOMAIN posts /\ SameKey(posts[i], u) /\ pass.seen[i].claims = posts[i].claims /\ pass.seen[i].intact
  <2>1. /\ i \in DOMAIN posts /\ SameKey(pass.seen[i], posts[i]) /\ pass.seen[i].claims = posts[i].claims
        /\ posts[i].intact => pass.seen[i].intact
    BY <1>1 DEF Once, Reading, Agrees
  <2>2. posts[i].intact
    BY <2>1 DEF Excused, Edited
  <2>3. SameKey(posts[i], u)
    BY <1>1, <2>1 DEF SameKey
  <2> QED BY <2>1, <2>2, <2>3
<1>3. ~(Cardinality(Matches(u)) > 1)
  <2>1. ASSUME NEW i \in Matches(u), NEW j \in Matches(u)
        PROVE  i = j
    <3>1. SameKey(pass.seen[i], pass.seen[j])
      BY <1>1 DEF SameKey
    <3> QED BY <1>1, <3>1 DEF Once, Reading, SeenOnce
  <2> HIDE DEF u
  <2>2. CASE Matches(u) = {}
    <3>1. Cardinality(Matches(u)) = 0
      BY <2>2, FS_EmptySet
    <3> QED BY <3>1
  <2>3. CASE Matches(u) # {}
    <3>1. PICK i \in Matches(u) : TRUE
      BY <2>3
    <3>2. Matches(u) = {i}
      BY <2>1, <3>1
    <3>3. Cardinality(Matches(u)) = 1
      BY <3>2, FS_Singleton
    <3> QED BY <3>3
  <2> QED BY <2>2, <2>3
<1>4. ASSUME NEW i \in Matches(u), ~pass.skip
      PROVE  pass.seen[i].claims = u.files
  <2>1. i \in DOMAIN posts /\ SameKey(posts[i], u) /\ pass.seen[i].claims = posts[i].claims
    BY <1>2
  <2>2. CASE Noticed
    <3>1. PICK j \in DOMAIN posts : posts[j].mid = "notice"
      BY <2>2 DEF Noticed
    <3>2. j \in Live
      BY <3>1 DEF Excused, Live
    <3>3. j \in DOMAIN pass.seen
      <4>1. j \in Nat /\ pass.known \in Nat
        BY <1>0, <3>1, PostElements DEF Passes
      <4>2. CASE j <= pass.known
        BY <3>2, <4>2 DEF Once, Reading, Covers
      <4>3. CASE j > pass.known
        BY <3>1, <4>1, <4>3 DEF Trusted, Known
      <4> QED BY <4>1, <4>2, <4>3
    <3>4. pass.seen[j].mid = "notice"
      BY <3>1, <3>3 DEF Once, Reading, Agrees, SameKey
    <3>5. u.mid = "notice"
      BY <1>4, <3>3, <3>4 DEF Trusted, Announced
    <3>6. u.files = {}
      BY <1>0, <3>5, CurNotice DEF Trusted, Consistent
    <3>7. posts[i].mid = "notice"
      BY <2>1, <3>5 DEF SameKey
    <3> QED BY <2>1, <3>6, <3>7 DEF Trusted, Claimed
  <2>3. CASE ~Noticed
    <3>1. posts[i].claims = Due(posts[i])
      BY <2>1, <2>3 DEF Trusted, Claimed
    <3>2. ~pass.stopped
      BY <1>4 DEF Trusted, Consistent
    <3>3. u.files = Due(u)
      BY <1>0, <3>2, DueCur
    <3>4. Due(posts[i]) = Due(u)
      BY <2>1 DEF Due, Carries, SameKey
    <3> QED BY <2>1, <3>1, <3>3, <3>4
  <2> QED BY <2>2, <2>3
<1> QED BY <1>2, <1>3, <1>4 DEF Conflicts

(* A file of the run is not bound to a post of others.                      *)
LEMMA NoOwner ==
    ASSUME Once, ~Excused, Trusted, pass.pc = "owner"
    PROVE  ~posts[files[First(pass.todo)].post].live
<1> DEFINE j == files[First(pass.todo)].post
<1>0. posts \in Seq(Post) /\ pass \in Passes /\ pass.pc \in Active /\ pass.reply = 0
  BY DEF Once, Sound, Types, Active, Replied
<1>1. j \in DOMAIN posts \ DOMAIN pass.seen
  BY DEF Trusted, Foreign
<1> HIDE DEF j
<1>2. j \in Nat /\ pass.known \in Nat /\ j # 0
  BY <1>0, <1>1, PostElements DEF Passes
<1>3. j <= pass.known
  BY <1>0, <1>1, <1>2 DEF Trusted, Known
<1>4. j \notin Live
  BY <1>0, <1>1, <1>3 DEF Once, Reading, Covers
<1> QED BY <1>1, <1>4 DEF Live, j

Turn(q) ==
    /\ q.pc = "verify" => Cur(q).mid # "notice"
    /\ q.mode = "repair" => Agenda(q)[q.at].mid # "notice"
    /\ q.ended = "no" => q.mode \in {"unit", "created"} /\ q.pc \notin {"verify", "check", "owner"}
    /\ q.stopped => q.skip
    /\ q.skip => Noticed
    /\ ~q.skip => \A i \in DOMAIN q.seen : q.seen[i].mid = "notice" => Cur(q).mid = "notice"
    /\ q.pc = "owner" => files[First(q.todo)].post \in DOMAIN posts \ DOMAIN q.seen

LEMMA TrustedTurn ==
    ASSUME Trusted, ~suspended', UNCHANGED <<run, posts, files>>,
           \/ pass' = NoPass
           \/ /\ pass'.pc \in Active /\ Turn(pass')
              /\ \A i \in DOMAIN posts : i > pass'.known => i \in DOMAIN pass'.seen \cup {pass'.reply}
    PROVE  Trusted'
<1>0. export' = export /\ said' = said /\ ended' = ended /\ posts' = posts /\ files' = files
  BY DEF run
<1>1. Agenda(pass)' = Agenda(pass') /\ Cur(pass)' = Cur(pass') /\ (Noticed' <=> Noticed)
  BY <1>0, AgendaNext DEF Noticed
<1>2. \A a : Due(a)' = Due(a)
  BY <1>0 DEF Due, Carries
<1>3. (pass'.skip => Noticed) => Claimed'
  <2>1. \A i \in DOMAIN posts : posts'[i].claims = posts[i].claims /\ Due(posts[i])' = Due(posts[i])
    BY <1>0 DEF Due, Carries
  <2> QED BY <1>0, <1>1, <2>1 DEF Trusted, Claimed, Early
<1>4. CASE pass' = NoPass
  <2>1. Consistent' /\ Known' /\ Announced' /\ Foreign' /\ ~pass'.skip
    BY <1>4 DEF NoPass, Consistent, Known, Announced, Foreign, Active
  <2> QED BY <1>3, <2>1 DEF Trusted
<1>5. CASE /\ pass'.pc \in Active /\ Turn(pass')
           /\ \A i \in DOMAIN posts : i > pass'.known => i \in DOMAIN pass'.seen \cup {pass'.reply}
  <2>1. Consistent'
    BY <1>1, <1>5 DEF Turn, Consistent
  <2>2. Known' /\ Announced'
    BY <1>0, <1>1, <1>5 DEF Turn, Known, Announced, Active
  <2>3. Foreign'
    <3>1. First(pass.todo)' = First(pass'.todo)
      BY DEF First
    <3> QED BY <1>0, <1>5, <3>1 DEF Turn, Foreign
  <2> QED BY <1>3, <1>5, <2>1, <2>2, <2>3 DEF Trusted, Turn
<1> QED BY <1>4, <1>5

(* Where a pass goes, and what it may conclude there.                       *)
LEMMA SameUnitTurn ==
    ASSUME Once, Trusted, pass.pc \in Active,
           NEW q, q.seen = pass.seen, q.said = pass.said, q.ended = pass.ended, q.stopped = pass.stopped, q.skip = pass.skip,
           q.at = pass.at, q.mode = pass.mode, q.fix = pass.fix,
           q.pc \in {"verify", "check", "owner"} => pass.ended # "no",
           q.pc = "verify" => Cur(pass).mid # "notice",
           q.pc = "owner" => files[First(q.todo)].post \in DOMAIN posts \ DOMAIN q.seen
    PROVE  Turn(q)
<1>1. Cur(q) = Cur(pass) /\ Agenda(q) = Agenda(pass)
  BY CurKept, AgendaSame
<1> QED BY <1>1 DEF Turn, Trusted, Consistent, Claimed, Announced

LEMMA DoneTurn ==
    ASSUME Once, Trusted, pass.pc \in Active, NEW q, q = Done(pass), q # NoPass,
           \/ pass.pc = "verify"
           \/ Matches(Cur(pass)) # {}
    PROVE  Turn(q)
<1> DEFINE u == Agenda(pass)[pass.at]
<1>0. Sound /\ Good(pass) /\ export \in Exported /\ pass \in Passes
  BY DEF Once, Sound, Types
<1>1. /\ Kept(pass, q) /\ Good(q)
      /\ \/ /\ pass.mode = "repair" /\ pass.rest # {} /\ q.pc = "verify" /\ q.mode = "unit" /\ q.at = pass.at
            /\ q.skip = pass.skip
         \/ /\ q.pc = "look" /\ q.at = pass.at + 1 /\ q.mode = "unit"
            /\ q.skip = (pass.skip \/ pass.mode = "notice" \/ (pass.mode # "repair" /\ u = Notice))
         \/ /\ pass.mode = "notice" /\ q.pc = "look" /\ q.mode = "again" /\ q.at = pass.at /\ q.skip
  BY <1>0, DoneGood
<1>2. /\ pass.mode = "notice" => Cur(pass) = Notice
      /\ pass.mode \notin {"notice", "repair"} => Cur(pass) = u
      /\ pass.mode = "repair" => Cur(pass) = Repair(u, pass.fix) /\ Cur(pass).mid = u.mid /\ u.mid # "notice"
  <2>1. pass.mode = "repair" => Cur(pass) = Repair(u, pass.fix) /\ u \in Units
    BY <1>0, CurType
  <2>2. pass.mode = "repair" => Cur(pass).mid = u.mid
    BY <2>1 DEF Repair, Units
  <2> QED BY <1>0, <2>1, <2>2, CurType DEF Trusted, Consistent
<1>3. ASSUME Cur(pass).mid = "notice"
      PROVE  Noticed
  <2>1. Matches(Cur(pass)) # {}
    BY <1>3 DEF Trusted, Consistent
  <2>2. PICK i \in DOMAIN pass.seen : SameKey(pass.seen[i], Cur(pass))
    BY <2>1 DEF Matches
  <2>3. i \in DOMAIN posts /\ SameKey(pass.seen[i], posts[i])
    BY DEF Once, Reading, Agrees
  <2> QED BY <1>3, <2>2, <2>3 DEF Noticed, SameKey
<1>4. Notice.mid = "notice"
  BY DEF Notice, Unit
<1>5. ASSUME ~pass.skip, NEW i \in DOMAIN pass.seen, pass.seen[i].mid = "notice"
      PROVE  Cur(pass).mid = "notice" /\ pass.mode # "repair"
  <2>1. Cur(pass).mid = "notice"
    BY <1>5 DEF Trusted, Announced
  <2> QED BY <1>2, <2>1
<1>6. Agenda(q) = Agenda(pass)
  BY <1>1, AgendaSame DEF Kept
<1>7. q.seen = pass.seen /\ q.stopped = pass.stopped /\ q.ended = pass.ended
  BY <1>1 DEF Kept
<1>8. q.mode \notin {"notice", "repair"} => Cur(q) = Agenda(pass)[q.at]
  BY <1>6 DEF Cur
<1>9. CASE pass.mode = "repair" /\ q.pc = "verify" /\ q.mode = "unit" /\ q.at = pass.at /\ q.skip = pass.skip
  <2>1. Cur(q).mid = Cur(pass).mid /\ Cur(q).mid # "notice"
    BY <1>2, <1>8, <1>9
  <2>2. ~q.skip => \A i \in DOMAIN q.seen : q.seen[i].mid = "notice" => Cur(q).mid = "notice"
    BY <1>5, <1>7, <1>9
  <2>3. q.ended # "no"
    BY <1>7, <1>9 DEF Trusted, Consistent
  <2>4. (q.stopped => q.skip) /\ (q.skip => Noticed)
    BY <1>7, <1>9 DEF Trusted, Consistent, Claimed
  <2> QED BY <1>9, <2>1, <2>2, <2>3, <2>4 DEF Turn
<1>10. CASE /\ q.pc = "look" /\ q.at = pass.at + 1 /\ q.mode = "unit"
            /\ q.skip = (pass.skip \/ pass.mode = "notice" \/ (pass.mode # "repair" /\ u = Notice))
  <2>1. q.skip => Noticed
    BY <1>2, <1>3, <1>4, <1>10 DEF Trusted, Claimed
  <2>2. ~q.skip => \A i \in DOMAIN q.seen : q.seen[i].mid # "notice"
    <3> SUFFICES ASSUME ~q.skip, NEW i \in DOMAIN q.seen, q.seen[i].mid = "notice" PROVE FALSE
      OBVIOUS
    <3>1. ~pass.skip /\ pass.mode # "notice" /\ (pass.mode = "repair" \/ u # Notice)
      BY <1>10
    <3>2. Cur(pass).mid = "notice" /\ pass.mode # "repair"
      BY <1>5, <1>7, <3>1
    <3>3. Cur(pass) = u
      BY <1>2, <3>1, <3>2
    <3>4. Cur(pass) = Notice
      BY <1>0, <3>2, CurNotice DEF Trusted, Consistent
    <3> QED BY <3>1, <3>2, <3>3, <3>4
  <2>3. q.stopped => q.skip
    BY <1>7, <1>10 DEF Trusted, Consistent
  <2> QED BY <1>10, <2>1, <2>2, <2>3 DEF Turn
<1>11. CASE pass.mode = "notice" /\ q.pc = "look" /\ q.mode = "again" /\ q.at = pass.at /\ q.skip
  <2>1. Noticed
    BY <1>2, <1>3, <1>4, <1>11
  <2>2. q.ended # "no"
    BY <1>7, <1>11 DEF Trusted, Consistent
  <2> QED BY <1>11, <2>1, <2>2 DEF Turn
<1> QED BY <1>1, <1>9, <1>10, <1>11

LEMMA MissingTurn ==
    ASSUME Once, Trusted, pass.pc \in Active, pass.ended # "no", NEW q, q = Missing(pass)
    PROVE  Turn(q)
<1>0. Sound /\ Good(pass) /\ export \in Exported /\ pass \in Passes
  BY DEF Once, Sound, Types
<1>1. Kept(pass, q) /\ q.pc = "look" /\ q.mode = "notice" /\ q.at = pass.at /\ q.skip = pass.skip
  BY <1>0, MissingGood
<1>2. Cur(q).mid = "notice"
  BY <1>1 DEF Cur, Notice, Unit
<1>3. q.ended # "no" /\ (q.stopped => q.skip) /\ (q.skip => Noticed)
  BY <1>1 DEF Kept, Trusted, Consistent, Claimed
<1> QED BY <1>1, <1>2, <1>3 DEF Turn

LEMMA MendTurn ==
    ASSUME Once, Trusted, pass.pc = "verify", NEW f \in pass.todo, NEW q, q = Mend(pass, f)
    PROVE  Turn(q)
<1>0. Sound /\ Good(pass) /\ export \in Exported /\ pass \in Passes /\ pass.pc \in Active
  BY DEF Once, Sound, Types, Active
<1>1. f \in Files
  BY <1>0 DEF Passes
<1>2. /\ Kept(pass, q) /\ q.pc = "look" /\ q.at = pass.at /\ q.skip = pass.skip
      /\ \/ pass.mode = "repair" /\ q.mode = "notice"
         \/ pass.mode = "created" /\ q.mode = "unit"
         \/ pass.mode \notin {"repair", "created"} /\ q.mode = "repair"
  BY <1>0, <1>1, MendGood
<1>3. Cur(pass).mid # "notice" /\ pass.ended # "no" /\ (pass.stopped => pass.skip) /\ (pass.skip => Noticed)
  BY DEF Trusted, Consistent, Claimed
<1>4. ~q.skip => \A i \in DOMAIN q.seen : q.seen[i].mid # "notice"
  BY <1>0, <1>2, <1>3 DEF Trusted, Announced, Kept
<1>5. q.mode = "repair" => Agenda(q)[q.at].mid # "notice"
  <2> SUFFICES ASSUME q.mode = "repair" PROVE Agenda(q)[q.at].mid # "notice"
    OBVIOUS
  <2>1. pass.mode \notin {"repair", "created"}
    BY <1>2
  <2>2. pass.mode # "notice"
    <3>1. Notice.mid = "notice"
      BY DEF Notice, Unit
    <3> QED BY <1>0, <1>3, <3>1, CurType
  <2>3. Cur(pass) = Agenda(pass)[pass.at]
    BY <1>0, <2>1, <2>2, CurType
  <2>4. Agenda(q) = Agenda(pass)
    BY <1>2, AgendaSame DEF Kept
  <2> QED BY <1>2, <1>3, <2>3, <2>4
<1>6. q.ended # "no" /\ (q.stopped => q.skip) /\ (q.skip => Noticed)
  BY <1>2, <1>3 DEF Kept
<1> QED BY <1>2, <1>4, <1>5, <1>6 DEF Turn

LEMMA LookingTurn ==
    ASSUME Once, ~Excused, Trusted, Looking
    PROVE  ~suspended' /\ (pass' = NoPass \/ (pass'.pc \in Active /\ Turn(pass')))
<1>0. /\ Sound /\ pass.pc \in Active /\ Good(pass) /\ export \in Exported /\ pass \in Passes /\ ~suspended
      /\ pass' = NoPass \/ (pass'.pc \in Active /\ Kept(pass, pass') /\ pass'.reply = 0)
  BY LookingSound DEF Once, Sound, Types, Trusted
<1>1. pass.ended = "no" => pass.mode \in {"unit", "created"} /\ pass.pc \notin {"verify", "check", "owner"}
  BY DEF Trusted, Consistent
<1>2. CASE Look
  <2>0. pass.pc = "look" /\ pass.reply = 0
    BY <1>0, <1>2 DEF Look, At, Sound, Replied
  <2>1. ~Conflicts(Cur(pass))
    BY <1>0, <2>0, NoConflict
  <2>2. suspended' = suspended
    BY <1>0, <1>2, <2>1, LookGood
  <2>3. ASSUME pass.ended = "no"
        PROVE  Cur(pass).files = {}
    <3>1. Cur(pass) = Agenda(pass)[pass.at] /\ pass.at \in DOMAIN Agenda(pass)
      BY <1>0, <1>1, <2>3, CurType
    <3> QED BY <1>0, <2>3, <3>1, UnitFacts
  <2>4. CASE Matches(Cur(pass)) # {} /\ pass' = Done(pass)
    BY <1>0, <2>2, <2>4, DoneTurn
  <2>5. CASE /\ Matches(Cur(pass)) # {} /\ ~pass.skip /\ Found(Cur(pass)).claims # {}
             /\ pass' = [pass EXCEPT !.pc = "verify", !.todo = Found(Cur(pass)).claims]
    <3>1. Found(Cur(pass)).claims = Cur(pass).files
      <4>1. First(Matches(Cur(pass))) \in Matches(Cur(pass))
        BY <2>5, FirstIn
      <4> QED BY <2>1, <2>5, <4>1 DEF Conflicts, Found
    <3>2. pass.ended # "no" /\ Cur(pass).mid # "notice"
      BY <1>0, <2>3, <2>5, <3>1, CurNotice DEF Trusted, Consistent
    <3> DEFINE q == pass'
    <3>3. /\ q.seen = pass.seen /\ q.said = pass.said /\ q.ended = pass.ended /\ q.stopped = pass.stopped
          /\ q.skip = pass.skip /\ q.at = pass.at /\ q.mode = pass.mode /\ q.fix = pass.fix /\ q.pc = "verify"
      BY <1>0, <2>5 DEF Passes
    <3> HIDE DEF q
    <3>4. Turn(q)
      BY <1>0, <3>2, <3>3, SameUnitTurn
    <3> QED BY <1>0, <2>2, <3>4, <3>3 DEF q, Active
  <2>6. CASE Matches(Cur(pass)) = {} /\ pass' = [pass EXCEPT !.pc = "create"]
    <3> DEFINE q == pass'
    <3>3. /\ q.seen = pass.seen /\ q.said = pass.said /\ q.ended = pass.ended /\ q.stopped = pass.stopped
          /\ q.skip = pass.skip /\ q.at = pass.at /\ q.mode = pass.mode /\ q.fix = pass.fix /\ q.pc = "create"
      BY <1>0, <2>6 DEF Passes
    <3> HIDE DEF q
    <3>4. Turn(q)
      BY <1>0, <3>3, SameUnitTurn
    <3> QED BY <1>0, <2>2, <3>4, <3>3 DEF q, Active
  <2>7. CASE Cur(pass).files # {} /\ pass' = [pass EXCEPT !.pc = "check", !.todo = Cur(pass).files]
    <3>2. pass.ended # "no"
      BY <2>3, <2>7
    <3> DEFINE q == pass'
    <3>3. /\ q.seen = pass.seen /\ q.said = pass.said /\ q.ended = pass.ended /\ q.stopped = pass.stopped
          /\ q.skip = pass.skip /\ q.at = pass.at /\ q.mode = pass.mode /\ q.fix = pass.fix /\ q.pc = "check"
      BY <1>0, <2>7 DEF Passes
    <3> HIDE DEF q
    <3>4. Turn(q)
      BY <1>0, <3>2, <3>3, SameUnitTurn
    <3> QED BY <1>0, <2>2, <3>4, <3>3 DEF q, Active
  <2> QED BY <1>0, <1>2, <2>1, <2>4, <2>5, <2>6, <2>7, LookGood
<1>3. CASE Verify
  <2>0. pass.pc = "verify" /\ pass.ended # "no" /\ Cur(pass).mid # "notice"
    BY <1>1, <1>3 DEF Verify, At, Trusted, Consistent
  <2>1. suspended' = suspended
    BY <1>0, <1>3, VerifyGood
  <2>2. CASE pass' = Done(pass)
    BY <1>0, <2>0, <2>1, <2>2, DoneTurn
  <2>3. CASE \E f \in pass.todo : pass' = Mend(pass, f)
    <3>1. Turn(pass')
      BY <2>0, <2>3, MendTurn
    <3> QED BY <1>0, <2>1, <3>1
  <2>4. ASSUME NEW f \in pass.todo, pass' = [pass EXCEPT !.todo = @ \ {f}]
        PROVE  Turn(pass')
    <3> DEFINE q == pass'
    <3>3. /\ q.seen = pass.seen /\ q.said = pass.said /\ q.ended = pass.ended /\ q.stopped = pass.stopped
          /\ q.skip = pass.skip /\ q.at = pass.at /\ q.mode = pass.mode /\ q.fix = pass.fix /\ q.pc = "verify"
      BY <1>0, <2>0, <2>4 DEF Passes
    <3> HIDE DEF q
    <3>4. Turn(q)
      BY <1>0, <2>0, <3>3, SameUnitTurn
    <3> QED BY <3>4 DEF q
  <2> QED BY <1>0, <1>3, <2>1, <2>2, <2>3, <2>4, VerifyGood
<1>4. CASE Check
  <2>0. pass.pc = "check" /\ pass.ended # "no" /\ pass.todo # {}
    BY <1>0, <1>1, <1>4 DEF Check, At, Good, Busy
  <2>1. suspended' = suspended
    BY <1>0, <1>4, CheckGood
  <2>2. CASE pass' = Missing(pass)
    BY <1>0, <2>0, <2>1, <2>2, MissingTurn
  <2>3. CASE /\ files[First(pass.todo)].post \notin DOMAIN pass.seen /\ files[First(pass.todo)].post # 0
             /\ pass' = [pass EXCEPT !.pc = "owner"]
    <3> DEFINE q == pass'
    <3>3. /\ q.seen = pass.seen /\ q.said = pass.said /\ q.ended = pass.ended /\ q.stopped = pass.stopped
          /\ q.skip = pass.skip /\ q.at = pass.at /\ q.mode = pass.mode /\ q.fix = pass.fix /\ q.pc = "owner"
          /\ q.todo = pass.todo
      BY <1>0, <2>3 DEF Passes
    <3> HIDE DEF q
    <3>4. First(pass.todo) \in Files
      BY <1>0, <2>0, FirstIn DEF Passes
    <3>5. files[First(pass.todo)].post \in 0 .. Len(posts) /\ DOMAIN posts = 1 .. Len(posts) /\ Len(posts) \in Nat
      BY <1>0, <3>4, PostElements DEF Sound, Bindings, Types
    <3>6. files[First(pass.todo)].post \in DOMAIN posts \ DOMAIN pass.seen
      BY <2>3, <3>5
    <3>7. Turn(q)
      BY <1>0, <2>0, <3>3, <3>6, SameUnitTurn
    <3> QED BY <1>0, <2>1, <3>3, <3>7 DEF q, Active
  <2>4. ASSUME NEW f \in pass.todo,
               pass' = [pass EXCEPT !.todo = @ \ {f}, !.pc = IF pass.todo = {f} THEN "create" ELSE "check"]
        PROVE  Turn(pass')
    <3> DEFINE q == pass'
    <3>3. /\ q.seen = pass.seen /\ q.said = pass.said /\ q.ended = pass.ended /\ q.stopped = pass.stopped
          /\ q.skip = pass.skip /\ q.at = pass.at /\ q.mode = pass.mode /\ q.fix = pass.fix /\ q.pc \in {"create", "check"}
      BY <1>0, <2>4 DEF Passes
    <3> HIDE DEF q
    <3>4. Turn(q)
      BY <1>0, <2>0, <3>3, SameUnitTurn
    <3> QED BY <3>4 DEF q
  <2> QED BY <1>0, <1>4, <2>1, <2>2, <2>3, <2>4, CheckGood
<1>5. CASE Owner
  <2>0. pass.pc = "owner" /\ pass.ended # "no"
    BY <1>1, <1>5 DEF Owner, At
  <2>1. pass' = Missing(pass) /\ suspended' = suspended
    BY <1>0, <1>5, <2>0, NoOwner, OwnerGood
  <2>2. Turn(pass')
    BY <1>0, <2>0, <2>1, MissingTurn
  <2> QED BY <1>0, <2>1, <2>2
<1>6. CASE Create
  <2>1. pass' = [pass EXCEPT !.pc = "await"] /\ suspended' = suspended
    BY <1>0, <1>6, CreateGood
  <2> DEFINE q == pass'
  <2>2. /\ q.seen = pass.seen /\ q.said = pass.said /\ q.ended = pass.ended /\ q.stopped = pass.stopped
        /\ q.skip = pass.skip /\ q.at = pass.at /\ q.mode = pass.mode /\ q.fix = pass.fix /\ q.pc = "await"
    BY <1>0, <2>1 DEF Passes
  <2> HIDE DEF q
  <2>3. Turn(q)
    BY <1>0, <2>2, SameUnitTurn
  <2> QED BY <1>0, <2>1, <2>2, <2>3 DEF q, Active
<1> QED BY <1>2, <1>3, <1>4, <1>5, <1>6 DEF Looking

(* The steps of the others.                                                 *)
LEMMA EarlyMid ==
    ASSUME NEW mid, Early(mid), NEW n \in 0 .. Len(Messages)
    PROVE  IF Final(n) = 0 THEN mid # "files" ELSE mid # Messages[Final(n)].mid
<1>1. PICK i \in DOMAIN Messages : Messages[i].kind = "progress" /\ Messages[i].mid = mid
  BY DEF Early
<1>2. mid # "files" /\ \A j \in DOMAIN Messages : Messages[j].mid = mid => j = i
  BY <1>1, MidsDiffer
<1>3. Final(n) = 0 \/ (Final(n) \in DOMAIN Messages /\ Messages[Final(n)].kind = "answer")
  BY FinalIn
<1> QED BY <1>1, <1>2, <1>3

LEMMA SameReceipts ==
    ASSUME Later
    PROVE  \A i \in DOMAIN posts : /\ posts'[i].mid = posts[i].mid /\ posts'[i].claims = posts[i].claims
                                   /\ export' = export /\ said' = said => Due(posts[i])' = Due(posts[i])
<1>1. \A i \in DOMAIN posts :
         /\ posts'[i].mid = posts[i].mid /\ posts'[i].part = posts[i].part /\ posts'[i].fix = posts[i].fix
         /\ posts'[i].claims = posts[i].claims
  BY DEF Later, SameKey
<1> QED BY <1>1 DEF Due, Carries

LEMMA OthersTrusted ==
    ASSUME Once, Trusted, pass' = pass, ~suspended', Cur(pass)' = Cur(pass), Later, DOMAIN posts' = DOMAIN posts,
           \A f \in Files : files'[f].post = files[f].post,
           UNCHANGED run \/ (pass.ended = "no" /\ Claimed')
    PROVE  Trusted'
<1>0. pass \in Passes /\ Good(pass)
  BY DEF Once, Sound, Types
<1>1. Agenda(pass)' = Agenda(pass)
  <2>1. CASE UNCHANGED run
    BY <2>1, AgendaNext DEF run
  <2>2. CASE pass.ended = "no"
    BY <2>2, AgendaWhileActive
  <2> QED BY <2>1, <2>2
<1>2. \A i \in DOMAIN posts : posts'[i].mid = posts[i].mid
  BY SameReceipts
<1>3. Noticed' <=> Noticed
  BY <1>2 DEF Noticed
<1>4. Claimed'
  <2>1. CASE UNCHANGED run
    <3>1. export' = export /\ said' = said /\ ended' = ended
      BY <2>1 DEF run
    <3>2. \A i \in DOMAIN posts : posts'[i].claims = posts[i].claims /\ Due(posts[i])' = Due(posts[i])
      BY <3>1, SameReceipts
    <3>3. (Noticed \/ \A i \in DOMAIN posts : posts[i].claims = Due(posts[i])) /\ (pass.skip => Noticed)
      BY DEF Trusted, Claimed
    <3>4. Noticed' \/ \A i \in DOMAIN posts' : posts'[i].claims = Due(posts[i])'
      BY <1>3, <3>2, <3>3
    <3>5. /\ ended = "no" => export.files = {} /\ \A i \in DOMAIN posts : Early(posts[i].mid)
          /\ \A i \in DOMAIN posts : posts[i].mid = "notice" => posts[i].claims = {}
      BY DEF Trusted, Claimed
    <3>6. /\ ended' = "no" => export'.files = {} /\ \A i \in DOMAIN posts' : Early(posts'[i].mid)
          /\ \A i \in DOMAIN posts' : posts'[i].mid = "notice" => posts'[i].claims = {}
      BY <1>2, <3>1, <3>2, <3>5
    <3>7. pass'.skip => Noticed'
      BY <1>3, <3>3
    <3> QED BY <3>4, <3>6, <3>7 DEF Claimed
  <2>2. CASE Claimed'
    BY <2>2
  <2> QED BY <2>1, <2>2
<1>5. Consistent'
  BY <1>1 DEF Trusted, Consistent
<1>6. Known' /\ Announced'
  BY DEF Trusted, Known, Announced
<1>7. Foreign'
  <2>1. pass.pc = "owner" => First(pass.todo) \in Files
    BY <1>0, FirstIn DEF Good, Busy, Passes
  <2>2. First(pass.todo)' = First(pass.todo)
    BY DEF First
  <2> QED BY <2>1, <2>2 DEF Trusted, Foreign
<1> QED BY <1>4, <1>5, <1>6, <1>7 DEF Trusted

(* A run that ends has not been answered yet: what it exports is due with a
   message that has no post.                                                *)
LEMMA RunTrusted ==
    ASSUME Once, Trusted, Orpheus
    PROVE  Trusted'
<1>1. /\ Later /\ Cur(pass)' = Cur(pass) /\ UNCHANGED <<mattermost, pass, suspended>> /\ ended = "no" /\ pass.ended = "no"
      /\ said' \in 0 .. Len(Messages) /\ said \in 0 .. Len(Messages)
      /\ \/ ended' = "no" /\ export' = export
         \/ ended' # "no"
  BY RunSound DEF Once, Sound, Types
<1>2. posts' = posts /\ files' = files /\ suspended' = suspended /\ pass' = pass
  BY <1>1 DEF mattermost
<1>3. \A i \in DOMAIN posts : Early(posts[i].mid)
  BY <1>1 DEF Trusted, Claimed
<1>4. \A i \in DOMAIN posts : Due(posts[i])' = Due(posts[i])
  <2> SUFFICES ASSUME NEW i \in DOMAIN posts PROVE Due(posts[i])' = Due(posts[i])
    OBVIOUS
  <2>1. IF Final(said) = 0 THEN posts[i].mid # "files" ELSE posts[i].mid # Messages[Final(said)].mid
    BY <1>1, <1>3, EarlyMid
  <2>2. IF Final(said') = 0 THEN posts[i].mid # "files" ELSE posts[i].mid # Messages[Final(said')].mid
    BY <1>1, <1>3, EarlyMid
  <2>3. Final(said)' = Final(said')
    BY DEF Final
  <2>4. ~Carries(posts[i]) /\ ~Carries(posts[i])'
    BY <1>2, <2>1, <2>2, <2>3 DEF Carries
  <2> QED BY <1>2, <2>4 DEF Due
<1>5. Claimed'
  <2>1. Noticed' <=> Noticed
    BY <1>2 DEF Noticed
  <2>2. Noticed \/ \A i \in DOMAIN posts : posts[i].claims = Due(posts[i])
    BY DEF Trusted, Claimed
  <2>3. Noticed' \/ \A i \in DOMAIN posts' : posts'[i].claims = Due(posts[i])'
    BY <1>2, <1>4, <2>1, <2>2
  <2>4. ended' = "no" => export'.files = {}
    BY <1>1 DEF Trusted, Claimed
  <2>5. /\ \A i \in DOMAIN posts' : posts'[i].mid = "notice" => posts'[i].claims = {}
        /\ pass'.skip => Noticed'
    BY <1>2, <2>1 DEF Trusted, Claimed
  <2> QED BY <1>2, <1>3, <2>3, <2>4, <2>5 DEF Claimed
<1> QED BY <1>1, <1>2, <1>5, OthersTrusted DEF Trusted

(* The pass reads the run and the thread.                                   *)
LEMMA ReadTrusted ==
    ASSUME Once, Trusted, Start \/ ReadRun \/ ReadHistory
    PROVE  Trusted'
<1>1. /\ UNCHANGED <<run, mattermost, suspended>> /\ pass'.pc \notin Active /\ pass'.skip = pass.skip
      /\ pass'.stopped = pass.stopped /\ pass'.mode = pass.mode /\ pass.pc \notin Active
  BY ReadSound DEF Once
<1>2. posts' = posts /\ files' = files /\ ~suspended' /\ export' = export /\ said' = said /\ ended' = ended
  BY <1>1 DEF mattermost, run, Trusted
<1>3. pass.mode = "unit" /\ ~pass.skip /\ ~pass.stopped
  BY <1>1 DEF Once, Sound, Reached, Trusted, Consistent
<1>4. Consistent'
  BY <1>1, <1>3 DEF Consistent, Active
<1>5. Claimed'
  <2>1. \A i \in DOMAIN posts : Due(posts[i])' = Due(posts[i])
    BY <1>2 DEF Due, Carries
  <2>2. (Noticed' <=> Noticed) /\ (Noticed \/ \A i \in DOMAIN posts : posts[i].claims = Due(posts[i]))
    BY <1>2 DEF Noticed, Trusted, Claimed
  <2>3. Noticed' \/ \A i \in DOMAIN posts' : posts'[i].claims = Due(posts[i])'
    BY <1>2, <2>1, <2>2
  <2>4. /\ ended = "no" => export.files = {} /\ \A i \in DOMAIN posts : Early(posts[i].mid)
        /\ \A i \in DOMAIN posts : posts[i].mid = "notice" => posts[i].claims = {}
    BY DEF Trusted, Claimed
  <2> QED BY <1>1, <1>2, <1>3, <2>3, <2>4 DEF Claimed
<1>6. Known' /\ Announced' /\ Foreign'
  BY <1>1 DEF Known, Announced, Foreign, Active
<1> QED BY <1>2, <1>4, <1>5, <1>6 DEF Trusted

LEMMA ThreadTrusted ==
    ASSUME Once, ~Excused, Trusted, ReadThread
    PROVE  Trusted'
<1>0. Sound /\ posts \in Seq(Post) /\ pass \in Passes
  BY DEF Once, Sound, Types
<1>1. /\ UNCHANGED <<run, posts, files>> /\ ~suspended'
      /\ pass' = NoPass \/
            LET seen == [i \in Live |-> posts[i]] IN
            /\ pass'.pc = "look" /\ pass'.mode = "unit" /\ pass'.seen = seen /\ pass'.known = Len(posts)
            /\ pass'.stopped = NoticeExists(seen) /\ pass'.skip = NoticeExists(seen)
  BY <1>0, ThreadSound DEF mattermost, Trusted
<1>2. CASE pass' = NoPass
  BY <1>1, <1>2, TrustedTurn
<1>3. ASSUME NEW seen, seen = [i \in Live |-> posts[i]],
             pass'.pc = "look", pass'.mode = "unit", pass'.seen = seen, pass'.known = Len(posts),
             pass'.stopped = NoticeExists(seen), pass'.skip = NoticeExists(seen)
      PROVE  Trusted'
  <2>1. DOMAIN seen = Live /\ Live \subseteq DOMAIN posts /\ \A i \in Live : seen[i] = posts[i]
    BY <1>0, <1>3, PostElements
  <2>2. pass'.skip => Noticed
    BY <1>3, <2>1 DEF NoticeExists, Noticed
  <2>3. ASSUME ~pass'.skip, NEW i \in DOMAIN pass'.seen, pass'.seen[i].mid = "notice"
        PROVE  FALSE
    <3>1. i \in DOMAIN seen /\ i \in DOMAIN posts /\ seen[i] = posts[i] /\ seen[i].mid = "notice"
      BY <1>3, <2>1, <2>3
    <3>2. seen[i].intact
      BY <3>1 DEF Excused, Edited
    <3> QED BY <1>3, <2>3, <3>1, <3>2 DEF NoticeExists
  <2>4. Turn(pass')
    <3>1. pass'.stopped = pass'.skip
      BY <1>3
    <3> QED BY <1>3, <2>2, <2>3, <3>1 DEF Turn
  <2>5. \A i \in DOMAIN posts : ~(i > pass'.known)
    BY <1>0, <1>3, PostElements
  <2>6. pass'.pc \in Active
    BY <1>3 DEF Active
  <2> QED BY <1>1, <2>4, <2>5, <2>6, TrustedTurn
<1> QED BY <1>1, <1>2, <1>3

(* A post that is created claims what is due with it, unless a notice has been
   posted.                                                                  *)
LEMMA ServeTrusted ==
    ASSUME Once, ~Excused, Trusted, NEW held \in SUBSET Files, Serve(held)
    PROVE  Trusted'
<1>0. /\ Sound /\ posts \in Seq(Post) /\ pass \in Passes /\ pass.pc = "await" /\ pass.pc \in Active /\ Good(pass)
      /\ export \in Exported /\ pass.reply = 0 /\ ~suspended
  BY ServeSound DEF Once, Sound, Types, Active, Serve, Trusted
<1>1. /\ UNCHANGED run /\ suspended' = suspended /\ Later /\ Cur(pass)' = Cur(pass) /\ Cur(pass') = Cur(pass)
      /\ pass' = [pass EXCEPT !.reply = pass'.reply]
      /\ \/ posts' = posts /\ files' = files
         \/ pass'.reply = Len(posts) + 1 /\ Committed(Asked, held, FALSE)
  BY <1>0, ServeSound
<1>2. /\ pass'.pc = "await" /\ pass'.pc \in Active /\ pass'.mode = pass.mode /\ pass'.skip = pass.skip /\ pass'.stopped = pass.stopped
      /\ pass'.seen = pass.seen /\ pass'.known = pass.known /\ pass'.ended = pass.ended /\ pass'.said = pass.said
      /\ pass'.at = pass.at /\ pass'.fix = pass.fix
  BY <1>0, <1>1 DEF Passes, Active
<1>3. \A i \in DOMAIN posts : i # 0 /\ (i > pass.known => i \in DOMAIN pass.seen)
  BY <1>0, PostElements DEF Trusted, Known
<1>4. CASE posts' = posts /\ files' = files
  <2> DEFINE q == pass'
  <2>1. /\ q.seen = pass.seen /\ q.said = pass.said /\ q.ended = pass.ended /\ q.stopped = pass.stopped
        /\ q.skip = pass.skip /\ q.at = pass.at /\ q.mode = pass.mode /\ q.fix = pass.fix /\ q.pc = "await"
    BY <1>2
  <2> HIDE DEF q
  <2>2. Turn(q)
    BY <1>0, <2>1, SameUnitTurn
  <2>3. Turn(pass')
    BY <2>2 DEF q
  <2>4. ~suspended' /\ \A i \in DOMAIN posts : i > pass'.known => i \in DOMAIN pass'.seen \cup {pass'.reply}
    BY <1>0, <1>1, <1>2, <1>3
  <2> QED BY <1>1, <1>2, <1>4, <2>3, <2>4, TrustedTurn
<1>5. ASSUME NEW n, n = Len(posts) + 1, pass'.reply = n, Committed(Asked, held, FALSE)
      PROVE  Trusted'
  <2> DEFINE a == posts'[n]
  <2>1. /\ DOMAIN posts' = DOMAIN posts \cup {n} /\ \A i \in DOMAIN posts : posts'[i] = posts[i]
        /\ a = PostOf(Asked, held, FALSE) /\ pass'.reply = n
    BY <1>5 DEF Committed
  <2>2. Cur(pass) \in Units
    BY <1>0, CurType
  <2>3. /\ a.mid = Cur(pass).mid /\ a.part = Cur(pass).part /\ a.fix = Cur(pass).fix
        /\ a.claims = IF pass.skip THEN {} ELSE Cur(pass).files
    BY <2>1, <2>2 DEF PostOf, Asked, Units
  <2> HIDE DEF a
  <2>4. export' = export /\ said' = said /\ ended' = ended
    BY <1>1 DEF run
  <2>5. /\ \A i \in DOMAIN posts : Due(posts[i])' = Due(posts[i])
        /\ Due(posts[n])' = Due(Cur(pass))
    <3>1. \A i \in DOMAIN posts : posts'[i] = posts[i]
      BY <2>1
    <3>2. /\ posts'[n].mid = Cur(pass).mid /\ posts'[n].part = Cur(pass).part /\ posts'[n].fix = Cur(pass).fix
      BY <2>3 DEF a
    <3> QED BY <2>4, <3>1, <3>2 DEF Due, Carries
  <2>6. ASSUME ended' = "no"
        PROVE  export'.files = {} /\ \A i \in DOMAIN posts' : Early(posts'[i].mid)
    <3>1. pass.ended = "no"
      BY <1>0, <2>4, <2>6 DEF Sound, Reached
    <3>2. pass.mode \notin {"notice", "repair"}
      BY <3>1 DEF Trusted, Consistent
    <3>3. Cur(pass) = Agenda(pass)[pass.at] /\ pass.at \in DOMAIN Agenda(pass)
      BY <1>0, <3>2, CurType
    <3>4. Early(a.mid)
      BY <1>0, <2>3, <3>1, <3>3, UnitFacts
    <3>5. export.files = {} /\ \A i \in DOMAIN posts : Early(posts[i].mid)
      BY <2>4, <2>6 DEF Trusted, Claimed
    <3> QED BY <2>1, <2>4, <3>4, <3>5 DEF a
  <2>7. \A i \in DOMAIN posts' : posts'[i].mid = "notice" => posts'[i].claims = {}
    <3>1. a.mid = "notice" => a.claims = {}
      BY <1>0, <2>3, CurNotice DEF Trusted, Consistent
    <3> QED BY <2>1, <3>1 DEF Trusted, Claimed, a
  <2>8. Noticed => Noticed'
    BY <1>1, ExcusedLater
  <2>9. Noticed' \/ \A i \in DOMAIN posts' : posts'[i].claims = Due(posts[i])'
    <3> SUFFICES ASSUME ~Noticed' PROVE \A i \in DOMAIN posts' : posts'[i].claims = Due(posts[i])'
      OBVIOUS
    <3>1. ~Noticed /\ ~pass.skip /\ ~pass.stopped
      BY <2>8 DEF Trusted, Claimed, Consistent
    <3>2. a.claims = Due(Cur(pass))
      BY <1>0, <2>3, <3>1, DueCur
    <3>3. \A i \in DOMAIN posts : posts[i].claims = Due(posts[i])
      BY <3>1 DEF Trusted, Claimed
    <3> QED BY <2>1, <2>5, <3>2, <3>3 DEF a
  <2>10. Claimed'
    <3>1. pass'.skip => Noticed'
      BY <1>2, <2>8 DEF Trusted, Claimed
    <3> QED BY <2>6, <2>7, <2>9, <3>1 DEF Claimed
  <2>11. Agenda(pass)' = Agenda(pass)
    <3> DEFINE q == pass'
    <3>1. q.said = pass.said /\ q.ended = pass.ended /\ q.stopped = pass.stopped
      BY <1>2
    <3> HIDE DEF q
    <3>2. Agenda(q) = Agenda(pass)
      BY <3>1, AgendaSame
    <3> QED BY <2>4, <3>2, AgendaNext DEF q
  <2>12. Consistent'
    BY <1>0, <1>2, <2>11 DEF Trusted, Consistent
  <2>13. Known'
    BY <1>2, <1>3, <2>1 DEF Known
  <2>14. Announced' /\ Foreign'
    BY <1>0, <1>1, <1>2 DEF Trusted, Announced, Foreign
  <2> QED BY <1>0, <1>1, <2>10, <2>12, <2>13, <2>14 DEF Trusted
<1> QED BY <1>1, <1>4, <1>5

LEMMA ReceiveTrusted ==
    ASSUME Once, Trusted, Receive
    PROVE  Trusted'
<1>0. Sound /\ pass.pc = "await" /\ pass.pc \in Active
  BY ReceiveSound DEF Once, Active
<1>1. /\ pass.reply \in DOMAIN posts /\ SameKey(posts[pass.reply], Cur(pass))
      /\ UNCHANGED <<run, posts, files>> /\ ~suspended'
      /\ pass'.seen = [i \in DOMAIN pass.seen \cup {pass.reply} |-> IF i = pass.reply THEN posts[i] ELSE pass.seen[i]]
      /\ Cur(pass') = Cur(pass) /\ pass'.pc = "look" /\ pass'.at = pass.at
      /\ pass'.mode = IF pass.mode = "unit" THEN "created" ELSE pass.mode
      /\ pass'.skip = pass.skip /\ pass'.known = pass.known /\ pass'.stopped = pass.stopped
      /\ pass'.said = pass.said /\ pass'.ended = pass.ended
  BY <1>0, ReceiveSound DEF mattermost, Trusted
<1> DEFINE q == pass'
<1>2. Agenda(q) = Agenda(pass)
  <2>1. q.said = pass.said /\ q.ended = pass.ended /\ q.stopped = pass.stopped
    BY <1>1
  <2> HIDE DEF q
  <2> QED BY <2>1, AgendaSame
<1>3. ASSUME ~q.skip, NEW i \in DOMAIN q.seen, q.seen[i].mid = "notice"
      PROVE  Cur(q).mid = "notice"
  <2>1. CASE i = pass.reply
    BY <1>1, <1>3, <2>1 DEF SameKey
  <2>2. CASE i # pass.reply
    <3>1. i \in DOMAIN pass.seen /\ pass.seen[i].mid = "notice" /\ ~pass.skip
      BY <1>1, <1>3, <2>2
    <3> QED BY <1>0, <1>1, <3>1 DEF Trusted, Announced
  <2> QED BY <2>1, <2>2
<1>4. /\ q.mode = "repair" => Agenda(q)[q.at].mid # "notice"
      /\ q.ended = "no" => q.mode \in {"unit", "created"}
      /\ q.stopped => q.skip
      /\ q.skip => Noticed
      /\ q.pc = "look"
  BY <1>1, <1>2 DEF Trusted, Consistent, Claimed
<1>5. \A i \in DOMAIN posts : i > q.known => i \in DOMAIN q.seen \cup {q.reply}
  BY <1>0, <1>1 DEF Trusted, Known
<1>6. Turn(q) /\ q.pc \in Active
  <2> HIDE DEF q
  <2> QED BY <1>3, <1>4 DEF Turn, Active
<1> QED BY <1>1, <1>5, <1>6, TrustedTurn

LEMMA TrustedNext ==
    ASSUME Once, Trusted, ~Excused, ~Excused', [Next]_vars
    PROVE  Trusted'
<1>0. Sound /\ Sound' /\ Later
  BY SoundNext DEF Once
<1>1. CASE Start \/ ReadRun \/ ReadHistory
  BY <1>1, ReadTrusted
<1>2. CASE ReadThread
  BY <1>2, ThreadTrusted
<1>3. CASE Looking
  <2>1. ~suspended' /\ (pass' = NoPass \/ (pass'.pc \in Active /\ Turn(pass')))
    BY <1>3, LookingTurn
  <2>2. /\ UNCHANGED <<run, posts, files>> /\ pass.pc \in Active
        /\ pass' = NoPass \/ (pass'.seen = pass.seen /\ pass'.known = pass.known)
    BY <1>0, <1>3, LookingSound DEF Kept, mattermost
  <2>3. CASE pass' = NoPass
    BY <2>1, <2>2, <2>3, TrustedTurn
  <2>4. CASE pass' # NoPass
    <3>1. pass.pc # "await"
      BY <1>3 DEF Looking, Look, Verify, Check, Owner, Create, At
    <3>2. pass.reply = 0
      BY <1>0, <3>1 DEF Sound, Replied
    <3>3. \A i \in DOMAIN posts : i # 0
      BY <1>0, PostElements DEF Sound, Types
    <3>4. \A i \in DOMAIN posts : i > pass'.known => i \in DOMAIN pass'.seen \cup {pass'.reply}
      BY <2>2, <2>4, <3>2, <3>3 DEF Trusted, Known
    <3> QED BY <2>1, <2>2, <2>4, <3>4, TrustedTurn
  <2> QED BY <2>3, <2>4
<1>4. CASE \E held \in SUBSET Files : Serve(held)
  BY <1>4, ServeTrusted
<1>5. CASE Receive
  BY <1>5, ReceiveTrusted
<1>6. CASE Fail
  <2>1. pass' = NoPass /\ UNCHANGED <<run, posts, files, suspended>>
    BY <1>0, <1>6, FailSound
  <2> QED BY <2>1, TrustedTurn DEF Trusted
<1>7. ASSUME NEW u \in late, ServeLate(u)
      PROVE  Trusted'
  <2>1. /\ pass' = pass /\ Cur(pass)' = Cur(pass) /\ UNCHANGED <<run, suspended>>
        /\ \/ posts' = posts /\ files' = files
           \/ Committed(u, Attachable(u.files), TRUE)
    BY <1>0, <1>7, ServeLateSound
  <2>2. CASE Committed(u, Attachable(u.files), TRUE)
    <3>1. \E i \in DOMAIN posts' : posts'[i].late
      BY <2>2 DEF Committed, PostOf
    <3> QED BY <3>1 DEF Excused
  <2>3. CASE posts' = posts /\ files' = files
    BY <1>0, <2>1, <2>3, OthersTrusted DEF Trusted
  <2> QED BY <2>1, <2>2, <2>3
<1>8. CASE Users
  <2>1. pass' = pass /\ Cur(pass)' = Cur(pass) /\ DOMAIN posts' = DOMAIN posts /\ UNCHANGED <<run, suspended>>
        /\ \A f \in Files : files'[f].post = files[f].post
    BY <1>0, <1>8, UsersSound
  <2> QED BY <1>0, <2>1, OthersTrusted DEF Trusted
<1>9. CASE Orpheus
  BY <1>9, RunTrusted
<1>10. CASE Resume \/ UNCHANGED vars
  <2>1. pass' = pass /\ Cur(pass)' = Cur(pass) /\ UNCHANGED <<run, posts, files>> /\ (suspended' => suspended)
    BY <1>0, <1>10, RestSound DEF mattermost
  <2> QED BY <1>0, <2>1, OthersTrusted DEF Trusted
<1> QED BY <1>1, <1>2, <1>3, <1>4, <1>5, <1>6, <1>7, <1>8, <1>9, <1>10, Steps DEF Looking

LEMMA ExplainedNext == Explained /\ [Next]_vars => Explained'
<1> SUFFICES ASSUME Explained, [Next]_vars PROVE Explained'
  OBVIOUS
<1>1. Once' /\ Later
  BY OnceNext, SoundNext DEF Explained, Once
<1>2. Excused => Excused'
  BY <1>1, ExcusedLater
<1>3. Excused' \/ Trusted'
  BY <1>2, TrustedNext DEF Explained
<1> QED BY <1>1, <1>3 DEF Explained

LEMMA ExplainedInit == Init => Explained
<1> SUFFICES ASSUME Init PROVE Explained
  OBVIOUS
<1>1. DOMAIN posts = {} /\ pass.pc = "idle" /\ pass.mode = "unit" /\ ~pass.skip /\ ~pass.stopped /\ ~suspended
      /\ export.files = {}
  BY DEF Init, NoPass
<1>2. Consistent /\ Known /\ Announced /\ Foreign
  BY <1>1 DEF Consistent, Known, Announced, Foreign, Active
<1>3. Claimed
  BY <1>1 DEF Claimed
<1> QED BY <1>1, <1>2, <1>3, OnceInit DEF Explained, Trusted

(* A thread is never suspended over a conflict by lost answers, posts made
   without their files, lost uploads and deleted posts other than the notice,
   whatever the messages, the files and the number of faults.                *)
THEOREM ConflictsExplained == Spec => []ConflictExplained
<1>1. Explained => ConflictExplained
  BY DEF Explained, Excused, Trusted, ConflictExplained
<1> QED BY <1>1, ExplainedInit, ExplainedNext, PTL DEF Spec

-----------------------------------------------------------------------------
(* The order of what is posted.  A pass goes on to the next unit of its agenda
   only when there is a post of the one before, unless that is a list of files
   that are missing (Placed), and an agenda has all that comes before a unit
   before it; late requests and repairs only repeat what had its place.      *)

Heads(b, a) == b.mid = a.mid /\ b.fix = "none" /\ b.part = IF a.fix = "none" THEN a.part - 1 ELSE b.part
Closes(b, m) == b.mid = Messages[m].mid /\ b.part = Messages[m].parts - 1
Follow(a, m) ==
    /\ Messages[m].parts > 0 /\ (Messages[m].kind = "answer" \/ Commentary)
    /\ a.mid = "status" \/ Messages[Position(a)].kind \in {"answer", Messages[m].kind}

(* All that comes before a is among the first n posts.                      *)
Led(a, n) ==
    a.mid \notin {"notice", "files", "empty"} =>
        /\ a.mid = "status" => ended # "no"
        /\ a.part > 0 \/ a.fix # "none" => \E j \in 1 .. n : Heads(posts[j], a)
        /\ \A m \in 1 .. Position(a) - 1 :
              Follow(a, m) /\ (a.mid = "status" => m <= said) => \E j \in 1 .. n : Closes(posts[j], m)

Ordered ==
    /\ \A i \in DOMAIN posts : Led(posts[i], i - 1)
    /\ \A u \in late : Led(u, Len(posts))

LEMMA PositionOf ==
    ASSUME NEW a, NEW i \in DOMAIN Messages, a.mid = Messages[i].mid
    PROVE  Position(a) = i /\ a.mid \notin {"notice", "files", "status", "empty"}
<1>1. a.mid \notin {"notice", "files", "status", "empty"}
  BY MidsDiffer
<1>2. \A j \in DOMAIN Messages : Messages[j].mid = a.mid => j = i
  BY MidsDiffer
<1> DEFINE c == CHOOSE j \in DOMAIN Messages : Messages[j].mid = a.mid
<1>3. c \in DOMAIN Messages /\ Messages[c].mid = a.mid
  OBVIOUS
<1> HIDE DEF c
<1>4. c = i
  BY <1>2, <1>3
<1> QED BY <1>1, <1>4 DEF Position, c

LEMMA PositionIn ==
    ASSUME NEW a, a.mid \in Mids \ {"notice", "files", "empty"}
    PROVE  /\ Len(Messages) \in Nat
           /\ a.mid = "status" => Position(a) = Len(Messages) + 1
           /\ a.mid # "status" => Position(a) \in 1 .. Len(Messages)
<1>1. CASE a.mid = "status"
  BY <1>1, MessagesAssumption DEF Position
<1>2. CASE a.mid # "status"
  <2>1. PICK i \in DOMAIN Messages : a.mid = Messages[i].mid
    BY <1>2 DEF Mids
  <2> QED BY <1>2, <2>1, PositionOf, MessagesAssumption
<1> QED BY <1>1, <1>2

LEMMA PositionSame ==
    ASSUME NEW a, NEW b, a.mid = b.mid
    PROVE  Position(a) = Position(b) /\ \A m : Follow(a, m) <=> Follow(b, m)
BY DEF Position, Follow

(* An agenda is in order.                                                   *)
LEMMA AgendaLed ==
    ASSUME export \in Exported, NEW p \in Passes, NEW k \in DOMAIN Agenda(p),
           Agenda(p)[k].mid \notin {"notice", "files", "empty"}
    PROVE  LET u == Agenda(p)[k] IN
           /\ u.mid = "status" => p.ended = "failed"
           /\ u.mid # "status" => Position(u) <= p.said
           /\ u.part > 0 => \E l \in 1 .. (k - 1) : Agenda(p)[l].text /\ Heads(Agenda(p)[l], u)
           /\ \A m \in 1 .. p.said :
                 m < Position(u) /\ Follow(u, m) => \E l \in 1 .. (k - 1) : Agenda(p)[l].text /\ Closes(Agenda(p)[l], m)
<1> DEFINE u == Agenda(p)[k]
           A == Agenda(p)
           B == Spoken(p)
<1>0. 1 .. p.said \subseteq DOMAIN Messages /\ p.said \in Nat /\ B \in Seq(Units)
  BY SpokenType
<1>a. Len(B) \in Nat /\ DOMAIN B = 1 .. Len(B) /\ DOMAIN A = 1 .. Len(A) /\ Len(A) \in Nat
  BY <1>0, AgendaSections, SeqElements
<1>b. k \in DOMAIN A /\ k \in Nat
  BY <1>a
<1>1. PICK a \in Nat :
         /\ \A l \in DOMAIN A :
               \/ l <= a /\ Unknown(p) /\ A[l] = Notice
               \/ l - a \in DOMAIN B /\ A[l] = B[l - a]
               \/ l > a + Len(B) /\ Closing(p, A[l])
         /\ \A l \in DOMAIN B : a + l \in DOMAIN A /\ A[a + l] = B[l]
  BY AgendaSections
<1>2. ASSUME NEW h \in 1 .. p.said, NEW g \in Parts(h), NEW v, Part(p, v, h, g)
      PROVE  /\ v.mid = Messages[h].mid /\ v.part = g - 1 /\ v.text = (Messages[h].parts > 0) /\ v.fix = "none"
             /\ h \in DOMAIN Messages /\ Shown(p, h)
  BY <1>0, <1>2 DEF Part, Unit
<1>3. ASSUME NEW m \in 1 .. p.said, Messages[m].parts > 0
      PROVE  /\ Messages[m].parts \in Parts(m) /\ Messages[m].parts \in Nat /\ m \in DOMAIN Messages
             /\ \A v : Part(p, v, m, Messages[m].parts) => v.text /\ Closes(v, m)
  <2>1. m \in DOMAIN Messages /\ Messages[m].parts \in Nat
    BY <1>0, MidsDiffer
  <2>2. Messages[m].parts \in Parts(m)
    BY <1>3, <2>1 DEF Parts
  <2> QED BY <1>2, <1>3, <2>1, <2>2 DEF Closes
<1>4. ASSUME NEW m \in 1 .. p.said, Messages[m].parts > 0, Messages[m].kind = "answer" => p.ended # "no",
             Messages[m].kind = "answer" \/ Commentary
      PROVE  Shown(p, m)
  <2>1. Messages[m].kind \in {"progress", "answer"}
    BY <1>0, MidsDiffer
  <2>2. CASE Messages[m].kind = "progress"
    BY <1>4, <2>2 DEF Shown
  <2>3. CASE Messages[m].kind = "answer"
    BY <1>4, <2>3 DEF Shown, Ended
  <2> QED BY <2>1, <2>2, <2>3
<1> HIDE DEF A, B
<1>5. CASE k <= a /\ Unknown(p) /\ A[k] = Notice
  <2>1. A[k].mid = "notice"
    BY <1>5 DEF Notice, Unit
  <2> QED BY <2>1 DEF A
<1>6. CASE k > a + Len(B) /\ Closing(p, A[k])
  <2>1. A[k].mid = "status" /\ p.ended = "failed" /\ A[k].part = 0
    <3>1. A[k].mid \notin {"notice", "files", "empty"}
      BY DEF A
    <3> QED BY <1>6, <3>1 DEF Closing, Unit
  <2>2. ASSUME NEW m \in 1 .. p.said, Follow(A[k], m)
        PROVE  \E l \in 1 .. (k - 1) : A[l].text /\ Closes(A[l], m)
    <3>1. Messages[m].parts > 0 /\ (Messages[m].kind = "answer" \/ Commentary)
      BY <2>2 DEF Follow
    <3>2. Shown(p, m)
      BY <1>4, <2>1, <3>1
    <3>3. PICK j \in DOMAIN B : Part(p, B[j], m, Messages[m].parts)
      BY <1>3, <3>1, <3>2, SpokenAll DEF B
    <3>4. A[a + j] = B[j] /\ a + j \in 1 .. (k - 1)
      BY <1>a, <1>1, <1>6
    <3> QED BY <1>3, <3>1, <3>3, <3>4
  <2> QED BY <2>1, <2>2 DEF A
<1>7. CASE k - a \in DOMAIN B /\ A[k] = B[k - a]
  <2>1. PICK i \in 1 .. p.said : \E j \in Parts(i) :
              /\ Part(p, B[k - a], i, j)
              /\ \A h \in 1 .. p.said : \A g \in Parts(h) :
                    Shown(p, h) /\ (h < i \/ (h = i /\ g < j)) =>
                        \E l \in 1 .. (k - a - 1) : Part(p, B[l], h, g)
    BY <1>7, SpokenElements DEF B
  <2>2. PICK j \in Parts(i) :
              /\ Part(p, B[k - a], i, j)
              /\ \A h \in 1 .. p.said : \A g \in Parts(h) :
                    Shown(p, h) /\ (h < i \/ (h = i /\ g < j)) =>
                        \E l \in 1 .. (k - a - 1) : Part(p, B[l], h, g)
    BY <2>1
  <2>3. /\ A[k].mid = Messages[i].mid /\ A[k].part = j - 1 /\ A[k].fix = "none" /\ i \in DOMAIN Messages /\ Shown(p, i)
        /\ Part(p, A[k], i, j)
    BY <1>2, <1>7, <2>2
  <2>4. Position(A[k]) = i /\ A[k].mid # "status"
    BY <2>3, PositionOf
  <2>5. ASSUME NEW h \in 1 .. p.said, NEW g \in Parts(h), Shown(p, h), h < i \/ (h = i /\ g < j)
        PROVE  \E l \in 1 .. (k - 1) : Part(p, A[l], h, g)
    <3>1. PICK l \in 1 .. (k - a - 1) : Part(p, B[l], h, g)
      BY <2>2, <2>5
    <3>2. l \in DOMAIN B /\ a + l \in 1 .. (k - 1)
      BY <1>a, <1>b, <1>7
    <3>3. A[a + l] = B[l]
      BY <1>1, <3>2
    <3> QED BY <3>1, <3>2, <3>3
  <2>6. ASSUME A[k].part > 0
        PROVE  \E l \in 1 .. (k - 1) : A[l].text /\ Heads(A[l], A[k])
    <3>1. j \in Nat /\ j > 1 /\ j - 1 \in Parts(i) /\ Messages[i].parts > 0
      <4>1. Messages[i].parts \in Nat
        BY <2>3, MidsDiffer
      <4> QED BY <2>3, <2>6, <4>1 DEF Parts
    <3>2. PICK l \in 1 .. (k - 1) : Part(p, A[l], i, j - 1)
      BY <2>3, <2>5, <3>1
    <3>3. A[l].mid = A[k].mid /\ A[l].part = j - 1 - 1 /\ A[l].text /\ A[l].fix = "none"
      <4>1. /\ A[l].mid = Messages[i].mid /\ A[l].part = j - 1 - 1 /\ A[l].fix = "none"
            /\ A[l].text = (Messages[i].parts > 0)
        BY <3>2 DEF Part, Unit
      <4> QED BY <2>3, <3>1, <4>1
    <3> QED BY <2>3, <3>3 DEF Heads
  <2>7. ASSUME NEW m \in 1 .. p.said, m < Position(A[k]), Follow(A[k], m)
        PROVE  \E l \in 1 .. (k - 1) : A[l].text /\ Closes(A[l], m)
    <3>1. /\ Messages[m].parts > 0 /\ (Messages[m].kind = "answer" \/ Commentary)
          /\ Messages[i].kind \in {"answer", Messages[m].kind}
      BY <2>4, <2>7 DEF Follow
    <3>2. Messages[m].kind = "answer" => p.ended # "no"
      BY <2>3, <3>1 DEF Shown, Ended
    <3>3. Shown(p, m)
      BY <1>4, <3>1, <3>2
    <3>4. PICK l \in 1 .. (k - 1) : Part(p, A[l], m, Messages[m].parts)
      BY <1>3, <2>4, <2>5, <2>7, <3>1, <3>3
    <3> QED BY <1>3, <3>1, <3>4
  <2> QED BY <2>4, <2>6, <2>7 DEF A
<1> QED BY <1>1, <1>5, <1>6, <1>7 DEF A

Onward == ended # "no" => ended' # "no" /\ said' = said

LEMMA LedKept ==
    ASSUME posts \in Seq(Post), Later, Onward, NEW a, NEW b, SameKey(b, a), NEW n \in 0 .. Len(posts), NEW r \in Nat, n <= r,
           Led(a, n)
    PROVE  Led(b, r)'
<1>1. b.mid = a.mid /\ b.part = a.part /\ b.fix = a.fix
  BY DEF SameKey
<1>2. Position(b) = Position(a) /\ \A m : Follow(b, m) <=> Follow(a, m)
  BY <1>1, PositionSame
<1>3. DOMAIN posts = 1 .. Len(posts) /\ Len(posts) \in Nat
  BY PostElements
<1>4. \A j \in 1 .. n : /\ j \in 1 .. r /\ j \in DOMAIN posts
                        /\ posts'[j].mid = posts[j].mid /\ posts'[j].part = posts[j].part /\ posts'[j].fix = posts[j].fix
  BY <1>3 DEF Later, SameKey
<1> SUFFICES ASSUME b.mid \notin {"notice", "files", "empty"}
             PROVE  /\ b.mid = "status" => ended' # "no"
                    /\ b.part > 0 \/ b.fix # "none" => \E j \in 1 .. r : Heads(posts'[j], b)
                    /\ \A m \in 1 .. Position(b) - 1 :
                          Follow(b, m) /\ (b.mid = "status" => m <= said') => \E j \in 1 .. r : Closes(posts'[j], m)
  BY DEF Led, Heads, Closes, Follow, Position
<1>5. /\ a.mid = "status" => ended # "no"
      /\ a.part > 0 \/ a.fix # "none" => \E j \in 1 .. n : Heads(posts[j], a)
      /\ \A m \in 1 .. Position(a) - 1 :
            Follow(a, m) /\ (a.mid = "status" => m <= said) => \E j \in 1 .. n : Closes(posts[j], m)
  BY <1>1 DEF Led
<1>6. b.mid = "status" => ended' # "no" /\ said' = said
  BY <1>1, <1>5 DEF Onward
<1>7. ASSUME b.part > 0 \/ b.fix # "none"
      PROVE  \E j \in 1 .. r : Heads(posts'[j], b)
  <2>1. PICK j \in 1 .. n : Heads(posts[j], a)
    BY <1>1, <1>5, <1>7
  <2>2. Heads(posts'[j], b)
    BY <1>1, <1>4, <2>1 DEF Heads
  <2> QED BY <1>4, <2>2
<1>8. ASSUME NEW m \in 1 .. Position(b) - 1, Follow(b, m), b.mid = "status" => m <= said'
      PROVE  \E j \in 1 .. r : Closes(posts'[j], m)
  <2>1. m \in 1 .. Position(a) - 1 /\ Follow(a, m) /\ (a.mid = "status" => m <= said)
    BY <1>1, <1>2, <1>6, <1>8
  <2>2. PICK j \in 1 .. n : Closes(posts[j], m)
    BY <1>5, <2>1
  <2>3. Closes(posts'[j], m)
    BY <1>4, <2>2 DEF Closes
  <2> QED BY <1>4, <2>3
<1> QED BY <1>6, <1>7, <1>8

LEMMA LedPost ==
    ASSUME NEW i, NEW b, b = posts'[i], NEW n, Led(b, n)'
    PROVE  Led(posts[i], n)'
BY DEF Led, Heads, Closes, Follow, Position

(* What was in order stays so, and a post in its place joins it.             *)
LEMMA OrderedKept ==
    ASSUME Sound, Later, Onward, Ordered, DOMAIN posts' = DOMAIN posts, Len(posts') = Len(posts),
           \A u \in late' : u \in late \/ Led(u, Len(posts))
    PROVE  Ordered'
<1>0. posts \in Seq(Post) /\ DOMAIN posts = 1 .. Len(posts) /\ Len(posts) \in Nat
  BY PostElements DEF Sound, Types
<1>1. ASSUME NEW i \in DOMAIN posts
      PROVE  Led(posts[i], i - 1)'
  <2>1. i - 1 \in 0 .. Len(posts) /\ i - 1 \in Nat /\ i - 1 <= i - 1
    BY <1>0
  <2>2. \A a, b : SameKey(b, a) /\ Led(a, i - 1) => Led(b, i - 1)'
    BY <1>0, <2>1, LedKept
  <2>3. Led(posts[i], i - 1) /\ SameKey(posts'[i], posts[i])
    BY DEF Ordered, Later
  <2>4. \A b : b = posts'[i] => Led(b, i - 1)'
    BY <2>2, <2>3
  <2>5. PICK b : b = posts'[i]
    OBVIOUS
  <2>6. Led(b, i - 1)'
    BY <2>4, <2>5
  <2> QED BY <2>5, <2>6, LedPost
<1>2. ASSUME NEW u \in late'
      PROVE  Led(u, Len(posts))'
  <2>1. Led(u, Len(posts))
    BY DEF Ordered
  <2>2. SameKey(u, u) /\ Len(posts) \in 0 .. Len(posts) /\ Len(posts) <= Len(posts)
    BY <1>0 DEF SameKey
  <2>3. PICK r : r = Len(posts)
    OBVIOUS
  <2>4. Led(u, r)'
    BY <1>0, <2>1, <2>2, <2>3, LedKept
  <2>5. r = Len(posts')
    BY <2>3
  <2> QED BY <2>4, <2>5 DEF Led
<1> QED BY <1>1, <1>2 DEF Ordered

LEMMA OrderedCommitted ==
    ASSUME Sound, Later, Onward, Ordered, NEW u, NEW held, NEW given, Committed(u, held, given), Led(u, Len(posts)),
           late' \subseteq late
    PROVE  Ordered'
<1>0. posts \in Seq(Post) /\ DOMAIN posts = 1 .. Len(posts) /\ Len(posts) \in Nat
  BY PostElements DEF Sound, Types
<1>1. PICK n : n = Len(posts)
  OBVIOUS
<1>2. /\ n \in Nat /\ Len(posts') = n + 1 /\ DOMAIN posts' = DOMAIN posts \cup {n + 1}
      /\ SameKey(posts'[n + 1], u)
  BY <1>0, <1>1 DEF Committed, PostOf, SameKey
<1>3. ASSUME NEW i \in DOMAIN posts'
      PROVE  Led(posts[i], i - 1)'
  <2>1. PICK b : b = posts'[i]
    OBVIOUS
  <2>2. CASE i \in DOMAIN posts
    <3>1. i - 1 \in 0 .. Len(posts) /\ i - 1 \in Nat /\ i - 1 <= i - 1
      BY <1>0, <2>2
    <3>2. PICK a : a = posts[i]
      OBVIOUS
    <3>3. Led(a, i - 1) /\ SameKey(b, a)
      BY <2>1, <2>2, <3>2 DEF Ordered, Later
    <3>4. Led(b, i - 1)'
      BY <1>0, <3>1, <3>3, LedKept
    <3> QED BY <2>1, <3>4, LedPost
  <2>3. CASE i = n + 1
    <3>1. i - 1 = n /\ n \in 0 .. Len(posts) /\ n <= n
      BY <1>1, <1>2, <2>3
    <3>2. SameKey(b, u) /\ Led(u, n)
      BY <1>1, <1>2, <2>1, <2>3
    <3>3. Led(b, n)'
      BY <1>0, <1>2, <3>1, <3>2, LedKept
    <3>4. Led(posts[i], n)'
      BY <2>1, <3>3, LedPost
    <3> QED BY <3>1, <3>4
  <2> QED BY <1>2, <2>2, <2>3
<1>4. ASSUME NEW v \in late'
      PROVE  Led(v, Len(posts))'
  <2>1. Led(v, n) /\ SameKey(v, v) /\ n \in 0 .. Len(posts) /\ n <= n + 1 /\ n + 1 \in Nat
    BY <1>1, <1>2 DEF Ordered, SameKey
  <2>2. Led(v, n + 1)'
    BY <1>0, <2>1, LedKept
  <2> QED BY <1>2, <2>2 DEF Led
<1> QED BY <1>3, <1>4 DEF Ordered

-----------------------------------------------------------------------------
(* A pass on its way through its agenda.                                    *)

Placed(q) ==
    q.pc \in Active =>
        \A k \in 1 .. q.at - 1 : Agenda(q)[k].text => \E j \in DOMAIN posts : SameKey(posts[j], Agenda(q)[k])
Rooted(q) ==
    q.pc = "verify" \/ q.mode = "repair" => \E j \in DOMAIN posts : SameKey(posts[j], Agenda(q)[q.at])
Plain(q) ==
    /\ q.pc = "verify" => Cur(q).mid # "notice"
    /\ q.mode = "repair" => Agenda(q)[q.at].mid # "notice"
OnPath(q) == Placed(q) /\ Rooted(q) /\ Plain(q)

(* A notice carries no files.                                               *)
Bare ==
    /\ \A i \in DOMAIN posts : posts[i].mid = "notice" => posts[i].claims = {}
    /\ \A u \in late : u.mid = "notice" => u.files = {}

Orderly == Once /\ Ordered /\ Bare /\ OnPath(pass)

LEMMA OffPath ==
    ASSUME NEW q, q.pc \notin Active, q.mode # "repair"
    PROVE  OnPath(q)
BY DEF OnPath, Placed, Rooted, Plain, Active

LEMMA PathPrime ==
    ASSUME Later, NEW q, q = pass', OnPath(q), Agenda(pass)' = Agenda(q), Cur(pass)' = Cur(q)
    PROVE  OnPath(pass)'
<1>1. \A u : (\E j \in DOMAIN posts : SameKey(posts[j], u)) => \E j \in DOMAIN posts' : SameKey(posts'[j], u)
  BY DEF Later, SameKey
<1>2. /\ q.pc \in Active =>
            \A k \in 1 .. q.at - 1 : Agenda(q)[k].text => \E j \in DOMAIN posts' : SameKey(posts'[j], Agenda(q)[k])
      /\ q.pc = "verify" \/ q.mode = "repair" => \E j \in DOMAIN posts' : SameKey(posts'[j], Agenda(q)[q.at])
  BY <1>1 DEF OnPath, Placed, Rooted
<1>3. Placed(pass)'
  BY <1>2 DEF Placed, SameKey
<1>4. Rooted(pass)'
  BY <1>2 DEF Rooted, SameKey
<1>5. Plain(pass)'
  BY DEF OnPath, Plain
<1> QED BY <1>3, <1>4, <1>5 DEF OnPath

(* What a pass is about has its place.                                      *)
LEMMA LedUnit ==
    ASSUME Sound, pass.pc \in Active, Placed(pass)
    PROVE  Led(Agenda(pass)[pass.at], Len(posts))
<1> DEFINE u == Agenda(pass)[pass.at]
           k == pass.at
           p == pass
<1>0. /\ export \in Exported /\ p \in Passes /\ Good(p) /\ posts \in Seq(Post) /\ said \in 0 .. Len(Messages)
      /\ DOMAIN posts = 1 .. Len(posts) /\ p.said \in Nat /\ said \in Nat /\ p.said <= said /\ Len(Messages) \in Nat
  BY PostElements, MessagesAssumption DEF Sound, Types, Passes, Reached
<1>1. k \in DOMAIN Agenda(p) /\ u \in Units /\ u.fix = "none"
  BY <1>0, CurType, UnitFacts
<1> SUFFICES ASSUME u.mid \notin {"notice", "files", "empty"}
             PROVE  Led(u, Len(posts))
  BY DEF Led
<1>2. /\ u.mid = "status" => p.ended = "failed"
      /\ u.mid # "status" => Position(u) <= p.said
      /\ u.part > 0 => \E l \in 1 .. (k - 1) : Agenda(p)[l].text /\ Heads(Agenda(p)[l], u)
      /\ \A m \in 1 .. p.said :
            m < Position(u) /\ Follow(u, m) => \E l \in 1 .. (k - 1) : Agenda(p)[l].text /\ Closes(Agenda(p)[l], m)
  BY <1>0, <1>1, AgendaLed
<1>3. \A l \in 1 .. (k - 1) : Agenda(p)[l].text => \E j \in 1 .. Len(posts) : SameKey(posts[j], Agenda(p)[l])
  BY <1>0 DEF Placed
<1> HIDE DEF u, k, p
<1>4. u.mid = "status" => ended # "no" /\ p.said = said
  BY <1>2 DEF p, Sound, Reached
<1>5. ASSUME u.part > 0
      PROVE  \E j \in 1 .. Len(posts) : Heads(posts[j], u)
  <2>1. PICK l \in 1 .. (k - 1) : Agenda(p)[l].text /\ Heads(Agenda(p)[l], u)
    BY <1>2, <1>5
  <2>2. PICK j \in 1 .. Len(posts) : SameKey(posts[j], Agenda(p)[l])
    BY <1>3, <2>1
  <2>3. Heads(posts[j], u)
    BY <2>1, <2>2 DEF Heads, SameKey
  <2> QED BY <2>3
<1>6. ASSUME NEW m \in 1 .. Position(u) - 1, Follow(u, m), u.mid = "status" => m <= said
      PROVE  \E j \in 1 .. Len(posts) : Closes(posts[j], m)
  <2>1. Position(u) \in Nat
    BY <1>1, PositionIn DEF Units
  <2>2. m \in 1 .. p.said /\ m < Position(u)
    BY <1>0, <1>2, <1>4, <1>6, <2>1 DEF p
  <2>3. PICK l \in 1 .. (k - 1) : Agenda(p)[l].text /\ Closes(Agenda(p)[l], m)
    BY <1>2, <1>6, <2>2
  <2>4. PICK j \in 1 .. Len(posts) : SameKey(posts[j], Agenda(p)[l])
    BY <1>3, <2>3
  <2>5. Closes(posts[j], m)
    BY <2>3, <2>4 DEF Closes, SameKey
  <2> QED BY <2>5
<1> QED BY <1>1, <1>4, <1>5, <1>6 DEF Led, u

LEMMA LedCur ==
    ASSUME Sound, pass.pc \in Active, OnPath(pass)
    PROVE  Led(Cur(pass), Len(posts)) /\ Led(Asked, Len(posts))
<1> DEFINE u == Agenda(pass)[pass.at]
           c == Cur(pass)
<1>0. /\ export \in Exported /\ pass \in Passes /\ Good(pass) /\ posts \in Seq(Post)
      /\ DOMAIN posts = 1 .. Len(posts)
  BY PostElements DEF Sound, Types
<1>1. Led(u, Len(posts)) /\ u \in Units /\ u.fix = "none"
  BY <1>0, LedUnit, CurType, UnitFacts DEF OnPath
<1>2. Led(c, Len(posts))
  <2>1. CASE pass.mode = "notice"
    <3>1. c.mid = "notice"
      BY <2>1 DEF Cur, Notice, Unit
    <3> QED BY <3>1 DEF Led
  <2>2. CASE pass.mode \notin {"notice", "repair"}
    <3>1. c = u
      BY <1>0, <2>2, CurType
    <3> QED BY <1>1, <3>1
  <2>3. CASE pass.mode = "repair"
    <3>1. c = Repair(u, pass.fix) /\ pass.fix \in Files /\ pass.fix # "none"
      BY <1>0, <2>3, CurType, BoundAssumption
    <3>2. c.mid = u.mid /\ c.part = 0 /\ c.fix = pass.fix
      BY <1>1, <3>1 DEF Repair, Units
    <3>3. PICK j \in DOMAIN posts : SameKey(posts[j], u)
      BY <2>3 DEF OnPath, Rooted
    <3> HIDE DEF u, c
    <3>4. Heads(posts[j], c)
      BY <1>1, <3>1, <3>2, <3>3 DEF Heads, SameKey
    <3>5. Position(c) = Position(u) /\ \A m : Follow(c, m) <=> Follow(u, m)
      BY <3>2, PositionSame
    <3>6. ASSUME c.mid \notin {"notice", "files", "empty"}
          PROVE  /\ c.mid = "status" => ended # "no"
                 /\ \A m \in 1 .. Position(c) - 1 :
                       Follow(c, m) /\ (c.mid = "status" => m <= said) => \E l \in 1 .. Len(posts) : Closes(posts[l], m)
      BY <1>1, <3>2, <3>5, <3>6 DEF Led
    <3> QED BY <1>0, <3>4, <3>6 DEF Led
  <2> QED BY <2>1, <2>2, <2>3
<1>3. SameKey(Asked, c)
  BY <1>0, AskedType
<1>4. Led(Asked, Len(posts))
  <2> HIDE DEF c
  <2>1. Position(Asked) = Position(c) /\ (\A m : Follow(Asked, m) <=> Follow(c, m)) /\ Asked.mid = c.mid
        /\ (\A b : Heads(b, Asked) <=> Heads(b, c)) /\ Asked.part = c.part /\ Asked.fix = c.fix
    BY <1>3, PositionSame DEF SameKey, Heads
  <2> QED BY <1>2, <2>1 DEF Led
<1> QED BY <1>2, <1>4

(* Where a pass goes.                                                       *)
LEMMA SameUnitPath ==
    ASSUME Once, OnPath(pass), pass.pc \in Active,
           NEW q, q.said = pass.said, q.ended = pass.ended, q.stopped = pass.stopped,
           q.at = pass.at, q.fix = pass.fix, q.mode = pass.mode \/ (pass.mode = "unit" /\ q.mode = "created"),
           q.pc # "verify" \/ pass.pc = "verify"
    PROVE  OnPath(q)
<1>1. Agenda(q) = Agenda(pass)
  BY AgendaSame
<1>2. Cur(q) = Cur(pass)
  BY CurKept
<1>3. Placed(q)
  BY <1>1 DEF OnPath, Placed
<1>4. Rooted(q) /\ Plain(q)
  BY <1>1, <1>2 DEF OnPath, Rooted, Plain
<1> QED BY <1>3, <1>4 DEF OnPath

(* What is found is posted.                                                 *)
LEMMA MatchPosted ==
    ASSUME Once, Matches(Cur(pass)) # {}
    PROVE  /\ \E j \in DOMAIN posts : SameKey(posts[j], Cur(pass)) /\ posts[j].claims = Found(Cur(pass)).claims
<1>1. First(Matches(Cur(pass))) \in Matches(Cur(pass))
  BY FirstIn
<1>2. PICK i \in DOMAIN pass.seen : i = First(Matches(Cur(pass))) /\ SameKey(pass.seen[i], Cur(pass))
  BY <1>1 DEF Matches
<1>3. i \in DOMAIN posts /\ SameKey(pass.seen[i], posts[i]) /\ posts[i].claims = pass.seen[i].claims
  BY DEF Once, Reading, Agrees
<1>4. SameKey(posts[i], Cur(pass))
  BY <1>2, <1>3 DEF SameKey
<1> QED BY <1>2, <1>3, <1>4 DEF Found

LEMMA DonePath ==
    ASSUME Once, OnPath(pass), pass.pc \in Active, NEW q, q = Done(pass),
           pass.pc = "verify" \/ Matches(Cur(pass)) # {}
    PROVE  OnPath(q)
<1> DEFINE u == Agenda(pass)[pass.at]
<1>0. Sound /\ Good(pass) /\ export \in Exported /\ pass \in Passes /\ pass.at \in Nat
  BY DEF Once, Sound, Types, Passes
<1>1. \/ q = NoPass
      \/ /\ Kept(pass, q)
         /\ \/ /\ pass.mode = "repair" /\ pass.rest # {} /\ q.pc = "verify" /\ q.mode = "unit" /\ q.at = pass.at
            \/ /\ q.pc = "look" /\ q.at = pass.at + 1 /\ q.mode = "unit" /\ (pass.mode = "notice" => ~u.text)
            \/ /\ pass.mode = "notice" /\ q.pc = "look" /\ q.mode = "again" /\ q.at = pass.at
  BY <1>0, DoneGood
<1>2. CASE q = NoPass
  BY <1>2, OffPath DEF NoPass, Active
<1>3. ASSUME Kept(pass, q)
      PROVE  Agenda(q) = Agenda(pass) /\ (q.mode = "unit" => Cur(q) = Agenda(pass)[q.at])
  <2>1. Agenda(q) = Agenda(pass)
    BY <1>3, AgendaSame DEF Kept
  <2> QED BY <2>1 DEF Cur
<1>4. CASE Kept(pass, q) /\ pass.mode = "repair" /\ q.pc = "verify" /\ q.mode = "unit" /\ q.at = pass.at
  <2>1. Placed(q)
    BY <1>3, <1>4 DEF OnPath, Placed
  <2>2. Rooted(q) /\ Plain(q)
    BY <1>3, <1>4 DEF OnPath, Rooted, Plain
  <2> QED BY <2>1, <2>2 DEF OnPath
<1>5. CASE Kept(pass, q) /\ q.pc = "look" /\ q.mode = "again" /\ q.at = pass.at
  <2>1. Placed(q)
    BY <1>3, <1>5 DEF OnPath, Placed
  <2> QED BY <1>5, <2>1 DEF OnPath, Rooted, Plain
<1>6. CASE Kept(pass, q) /\ q.pc = "look" /\ q.at = pass.at + 1 /\ q.mode = "unit" /\ (pass.mode = "notice" => ~u.text)
  <2>1. u.text => \E j \in DOMAIN posts : SameKey(posts[j], u)
    <3>1. CASE pass.mode = "notice"
      BY <1>6, <3>1
    <3>2. CASE pass.mode = "repair" \/ pass.pc = "verify"
      BY <3>2 DEF OnPath, Rooted
    <3>3. CASE pass.mode \notin {"notice", "repair"} /\ Matches(Cur(pass)) # {}
      <4>1. Cur(pass) = u
        BY <1>0, <3>3, CurType
      <4> QED BY <3>3, <4>1, MatchPosted
    <3> QED BY <3>1, <3>2, <3>3
  <2>2. \A k \in 1 .. q.at - 1 : k = pass.at \/ k \in 1 .. pass.at - 1
    BY <1>0, <1>6
  <2>3. Placed(q)
    BY <1>3, <1>6, <2>1, <2>2 DEF OnPath, Placed
  <2> QED BY <1>6, <2>3 DEF OnPath, Rooted, Plain
<1> QED BY <1>1, <1>2, <1>4, <1>5, <1>6

LEMMA MissingPath ==
    ASSUME Once, OnPath(pass), pass.pc \in Active, NEW q, q = Missing(pass)
    PROVE  OnPath(q)
<1>0. Good(pass) /\ export \in Exported
  BY DEF Once, Sound, Types
<1>1. Kept(pass, q) /\ q.pc = "look" /\ q.mode = "notice" /\ q.at = pass.at
  BY <1>0, MissingGood
<1>2. Agenda(q) = Agenda(pass)
  BY <1>1, AgendaSame DEF Kept
<1>3. Placed(q)
  BY <1>1, <1>2 DEF OnPath, Placed
<1> QED BY <1>1, <1>3 DEF OnPath, Rooted, Plain

LEMMA MendPath ==
    ASSUME Once, OnPath(pass), pass.pc = "verify", NEW f \in pass.todo, NEW q, q = Mend(pass, f)
    PROVE  OnPath(q)
<1>0. Sound /\ Good(pass) /\ export \in Exported /\ pass \in Passes /\ pass.pc \in Active
  BY DEF Once, Sound, Types, Active
<1>1. f \in Files
  BY <1>0 DEF Passes
<1>2. /\ Kept(pass, q) /\ q.pc = "look" /\ q.at = pass.at
      /\ \/ q.mode \in {"notice", "unit"}
         \/ pass.mode \notin {"repair", "created"} /\ q.mode = "repair"
  BY <1>0, <1>1, MendGood
<1>3. Agenda(q) = Agenda(pass)
  BY <1>2, AgendaSame DEF Kept
<1>4. Placed(q) /\ Rooted(q)
  <2>1. Placed(q)
    BY <1>0, <1>2, <1>3 DEF OnPath, Placed
  <2> QED BY <1>2, <1>3, <2>1 DEF OnPath, Rooted
<1>5. Plain(q)
  <2>1. CASE q.mode # "repair"
    BY <1>2, <2>1 DEF Plain
  <2>2. CASE q.mode = "repair"
    <3>1. Cur(pass).mid # "notice" /\ pass.mode # "repair"
      BY <1>2, <2>2 DEF OnPath, Plain
    <3>2. pass.mode # "notice"
      BY <3>1 DEF Cur, Notice, Unit
    <3>3. Cur(pass) = Agenda(pass)[pass.at]
      BY <1>0, <3>1, <3>2, CurType
    <3> QED BY <1>2, <1>3, <3>1, <3>3 DEF Plain
  <2> QED BY <2>1, <2>2
<1> QED BY <1>4, <1>5 DEF OnPath

LEMMA LookingPath ==
    ASSUME Once, Bare, OnPath(pass), Looking
    PROVE  OnPath(pass')
<1>0. Sound /\ pass.pc \in Active /\ Good(pass) /\ export \in Exported /\ pass \in Passes
  BY LookingSound DEF Once, Sound, Types
<1>1. OnPath(NoPass)
  BY OffPath DEF NoPass, Active
<1>2. ASSUME NEW q, q = pass', q.said = pass.said, q.ended = pass.ended, q.stopped = pass.stopped,
             q.at = pass.at, q.fix = pass.fix, q.mode = pass.mode, q.pc # "verify" \/ pass.pc = "verify"
      PROVE  OnPath(pass')
  <2>1. OnPath(q)
    BY <1>0, <1>2, SameUnitPath
  <2> QED BY <1>2, <2>1
<1>3. ASSUME pass' = Done(pass), pass.pc = "verify" \/ Matches(Cur(pass)) # {}
      PROVE  OnPath(pass')
  BY <1>0, <1>3, DonePath
<1>4. ASSUME pass' = Missing(pass)
      PROVE  OnPath(pass')
  BY <1>0, <1>4, MissingPath
<1>5. PICK q : q = pass'
  OBVIOUS
<1>6. CASE Look
  <2>1. CASE Matches(Cur(pass)) # {} /\ pass' = Done(pass)
    BY <1>3, <2>1
  <2>2. CASE pass' = [pass EXCEPT !.pc = "create"] \/ pass' = [pass EXCEPT !.pc = "check", !.todo = Cur(pass).files]
    <3>1. /\ q.said = pass.said /\ q.ended = pass.ended /\ q.stopped = pass.stopped
          /\ q.at = pass.at /\ q.fix = pass.fix /\ q.mode = pass.mode /\ q.pc # "verify"
      BY <1>0, <1>5, <2>2 DEF Passes
    <3> QED BY <1>2, <1>5, <3>1
  <2>3. CASE /\ Matches(Cur(pass)) # {} /\ Found(Cur(pass)).claims # {}
             /\ pass' = [pass EXCEPT !.pc = "verify", !.todo = Found(Cur(pass)).claims]
    <3>1. /\ q.said = pass.said /\ q.ended = pass.ended /\ q.stopped = pass.stopped
          /\ q.at = pass.at /\ q.fix = pass.fix /\ q.mode = pass.mode /\ q.pc = "verify"
      BY <1>0, <1>5, <2>3 DEF Passes
    <3>2. Agenda(q) = Agenda(pass) /\ Cur(q) = Cur(pass)
      BY <3>1, AgendaSame, CurKept
    <3>3. PICK j \in DOMAIN posts : SameKey(posts[j], Cur(pass)) /\ posts[j].claims # {}
      BY <2>3, MatchPosted
    <3>4. Cur(pass).mid # "notice"
      BY <3>3 DEF Bare, SameKey
    <3>5. pass.mode # "notice"
      BY <3>4 DEF Cur, Notice, Unit
    <3>6. Rooted(q)
      <4>1. CASE pass.mode = "repair"
        BY <3>1, <3>2, <4>1 DEF OnPath, Rooted
      <4>2. CASE pass.mode # "repair"
        <5>1. Cur(pass) = Agenda(pass)[pass.at]
          BY <1>0, <3>5, <4>2, CurType
        <5> QED BY <3>1, <3>2, <3>3, <5>1 DEF Rooted
      <4> QED BY <4>1, <4>2
    <3>7. Placed(q)
      BY <1>0, <3>1, <3>2 DEF OnPath, Placed
    <3>8. Plain(q)
      BY <3>1, <3>2, <3>4 DEF OnPath, Plain
    <3> QED BY <1>5, <3>6, <3>7, <3>8 DEF OnPath
  <2> QED BY <1>0, <1>1, <1>6, <2>1, <2>2, <2>3, LookGood
<1>7. CASE Verify
  <2>1. pass.pc = "verify"
    BY <1>7 DEF Verify, At
  <2>2. CASE \E f \in pass.todo : pass' = Mend(pass, f)
    BY <2>1, <2>2, MendPath
  <2>3. CASE \E f \in pass.todo : pass' = [pass EXCEPT !.todo = @ \ {f}]
    <3>1. /\ q.said = pass.said /\ q.ended = pass.ended /\ q.stopped = pass.stopped
          /\ q.at = pass.at /\ q.fix = pass.fix /\ q.mode = pass.mode
      BY <1>0, <1>5, <2>3 DEF Passes
    <3> QED BY <1>2, <1>5, <2>1, <3>1
  <2> QED BY <1>0, <1>3, <1>7, <2>1, <2>2, <2>3, VerifyGood
<1>8. CASE Check
  <2>1. CASE \/ pass' = [pass EXCEPT !.pc = "owner"]
             \/ \E f \in pass.todo :
                   pass' = [pass EXCEPT !.todo = @ \ {f}, !.pc = IF pass.todo = {f} THEN "create" ELSE "check"]
    <3>1. /\ q.said = pass.said /\ q.ended = pass.ended /\ q.stopped = pass.stopped
          /\ q.at = pass.at /\ q.fix = pass.fix /\ q.mode = pass.mode /\ q.pc # "verify"
      BY <1>0, <1>5, <2>1 DEF Passes
    <3> QED BY <1>2, <1>5, <3>1
  <2> QED BY <1>0, <1>4, <1>8, <2>1, CheckGood
<1>9. CASE Owner
  BY <1>0, <1>1, <1>4, <1>9, OwnerGood
<1>10. CASE Create
  <2>1. pass' = [pass EXCEPT !.pc = "await"]
    BY <1>0, <1>10, CreateGood
  <2>2. /\ q.said = pass.said /\ q.ended = pass.ended /\ q.stopped = pass.stopped
        /\ q.at = pass.at /\ q.fix = pass.fix /\ q.mode = pass.mode /\ q.pc # "verify"
    BY <1>0, <1>5, <2>1 DEF Passes
  <2> QED BY <1>2, <1>5, <2>2
<1> QED BY <1>6, <1>7, <1>8, <1>9, <1>10 DEF Looking

(* The server creates what the pass is about.                               *)
LEMMA AskedBare ==
    ASSUME Sound, OnPath(pass), pass.pc \in Active
    PROVE  Asked.mid = "notice" => Asked.files = {}
<1>0. export \in Exported /\ Good(pass)
  BY DEF Sound, Types
<1>1. Asked.mid = Cur(pass).mid /\ (Asked.files = {} \/ Asked.files = Cur(pass).files)
  BY <1>0, AskedType DEF SameKey
<1>2. Cur(pass).mid = "notice" => Cur(pass).files = {}
  BY CurNotice DEF OnPath, Plain
<1> QED BY <1>1, <1>2

LEMMA BareKept ==
    ASSUME Later, Bare, DOMAIN posts' = DOMAIN posts, \A u \in late' : u \in late \/ (u.mid = "notice" => u.files = {})
    PROVE  Bare'
BY DEF Bare, Later, SameKey

LEMMA BareCommitted ==
    ASSUME Later, Bare, NEW u, NEW held, NEW given, Committed(u, held, given), u.mid = "notice" => u.files = {},
           late' \subseteq late
    PROVE  Bare'
<1>1. PICK n : n = Len(posts) + 1
  OBVIOUS
<1>2. /\ DOMAIN posts' = DOMAIN posts \cup {n} /\ \A i \in DOMAIN posts : posts'[i] = posts[i]
      /\ posts'[n].mid = u.mid /\ posts'[n].claims = u.files
  BY <1>1 DEF Committed, PostOf
<1> QED BY <1>2 DEF Bare

LEMMA OthersPath ==
    ASSUME Later, OnPath(pass), pass' = pass, Cur(pass)' = Cur(pass), Agenda(pass)' = Agenda(pass)
    PROVE  OnPath(pass)'
<1>1. PICK q : q = pass
  OBVIOUS
<1>2. OnPath(q) /\ q = pass' /\ Agenda(pass)' = Agenda(q) /\ Cur(pass)' = Cur(q)
  BY <1>1
<1> QED BY <1>2, PathPrime

LEMMA RunPath ==
    ASSUME Later, UNCHANGED run, OnPath(pass')
    PROVE  OnPath(pass)'
<1>1. PICK q : q = pass'
  OBVIOUS
<1>2. Agenda(pass)' = Agenda(pass') /\ Cur(pass)' = Cur(pass')
  BY AgendaNext DEF run
<1> QED BY <1>1, <1>2, PathPrime

(* The posts and what is late stay the same, and so does their order.        *)
LEMMA StillOrdered ==
    ASSUME Orderly, Later, Onward, UNCHANGED <<posts, late>>
    PROVE  Ordered' /\ Bare'
<1>1. DOMAIN posts' = DOMAIN posts /\ Len(posts') = Len(posts) /\ late' = late /\ Sound /\ Ordered /\ Bare
  BY DEF Orderly, Once
<1> QED BY <1>1, OrderedKept, BareKept

(* A post of what the pass is about joins the thread.                        *)
LEMMA ServePath ==
    ASSUME Orderly, Later, NEW held \in SUBSET Files, Serve(held)
    PROVE  Ordered' /\ Bare' /\ OnPath(pass)'
<1>0. Once /\ Sound /\ Ordered /\ Bare /\ OnPath(pass)
  BY DEF Orderly, Once
<1>1. /\ pass.pc = "await" /\ pass' = [pass EXCEPT !.reply = pass'.reply] /\ UNCHANGED <<run, late>>
      /\ posts' = posts \/ Committed(Asked, held, FALSE)
  BY <1>0, ServeSound
<1>2. pass \in Passes /\ pass.pc \in Active
  BY <1>0, <1>1 DEF Sound, Types, Active
<1>3. Onward
  BY <1>1 DEF run, Onward
<1>4. Ordered' /\ Bare'
  <2>1. CASE posts' = posts
    BY <1>1, <1>3, <2>1, StillOrdered
  <2>2. CASE Committed(Asked, held, FALSE)
    <3>1. Led(Asked, Len(posts)) /\ (Asked.mid = "notice" => Asked.files = {}) /\ late' \subseteq late
      BY <1>0, <1>1, <1>2, LedCur, AskedBare
    <3> QED BY <1>0, <1>3, <2>2, <3>1, OrderedCommitted, BareCommitted
  <2> QED BY <1>1, <2>1, <2>2
<1>5. OnPath(pass)'
  <2>1. PICK q : q = pass'
    OBVIOUS
  <2>2. /\ q.said = pass.said /\ q.ended = pass.ended /\ q.stopped = pass.stopped
        /\ q.at = pass.at /\ q.fix = pass.fix /\ q.mode = pass.mode /\ q.pc # "verify"
    BY <1>1, <1>2, <2>1 DEF Passes
  <2>3. OnPath(q)
    BY <1>0, <1>2, <2>2, SameUnitPath
  <2> QED BY <1>1, <2>1, <2>3, RunPath
<1> QED BY <1>4, <1>5

LEMMA ReceivePath ==
    ASSUME Orderly, Later, Receive
    PROVE  OnPath(pass)'
<1>0. Once /\ Sound /\ OnPath(pass) /\ pass \in Passes
  BY DEF Orderly, Once, Sound, Types
<1>1. pass.pc = "await" /\ pass.pc \in Active /\ UNCHANGED run
  BY <1>0, ReceiveSound DEF Active
<1>2. PICK q : q = pass'
  OBVIOUS
<1>3. /\ q.said = pass.said /\ q.ended = pass.ended /\ q.stopped = pass.stopped
      /\ q.at = pass.at /\ q.fix = pass.fix /\ q.pc # "verify"
      /\ q.mode = pass.mode \/ (pass.mode = "unit" /\ q.mode = "created")
  BY <1>0, <1>2 DEF Receive, Step, Passes
<1>4. OnPath(q)
  BY <1>0, <1>1, <1>3, SameUnitPath
<1> QED BY <1>1, <1>2, <1>4, RunPath

(* A request that was given up is late in its place.                         *)
LEMMA FailPath ==
    ASSUME Orderly, Later, Fail
    PROVE  Ordered' /\ Bare' /\ OnPath(pass)'
<1>0. Once /\ Sound /\ Ordered /\ Bare /\ OnPath(pass)
  BY DEF Orderly, Once
<1>1. /\ pass' = NoPass /\ UNCHANGED <<run, posts>>
      /\ late' = late \/ (pass.pc = "await" /\ late' = late \cup {Asked})
  BY <1>0, FailSound
<1>2. ASSUME pass.pc = "await"
      PROVE  Led(Asked, Len(posts)) /\ (Asked.mid = "notice" => Asked.files = {})
  <2>1. pass.pc \in Active
    BY <1>2 DEF Active
  <2> QED BY <1>0, <2>1, LedCur, AskedBare
<1>3. \A u \in late' : u \in late \/ (Led(u, Len(posts)) /\ (u.mid = "notice" => u.files = {}))
  BY <1>1, <1>2
<1>4. Onward /\ DOMAIN posts' = DOMAIN posts /\ Len(posts') = Len(posts)
  BY <1>1 DEF run, Onward
<1>5. Ordered' /\ Bare'
  BY <1>0, <1>3, <1>4, OrderedKept, BareKept
<1>6. OnPath(pass')
  BY <1>1, OffPath DEF NoPass, Active
<1> QED BY <1>1, <1>5, <1>6, RunPath

LEMMA ServeLatePath ==
    ASSUME Orderly, Later, NEW u \in late, ServeLate(u)
    PROVE  Ordered' /\ Bare' /\ OnPath(pass)'
<1>0. Once /\ Sound /\ Ordered /\ Bare /\ OnPath(pass)
  BY DEF Orderly, Once
<1>1. /\ Cur(pass)' = Cur(pass) /\ UNCHANGED <<run, pass>> /\ late' \subseteq late
      /\ posts' = posts \/ Committed(u, Attachable(u.files), TRUE)
  BY <1>0, ServeLateSound
<1>2. Onward
  BY <1>1 DEF run, Onward
<1>3. Led(u, Len(posts)) /\ (u.mid = "notice" => u.files = {})
  BY <1>0 DEF Ordered, Bare
<1>4. Ordered' /\ Bare'
  <2>1. CASE posts' = posts
    <3>1. DOMAIN posts' = DOMAIN posts /\ Len(posts') = Len(posts)
      BY <2>1
    <3> QED BY <1>0, <1>1, <1>2, <3>1, OrderedKept, BareKept
  <2>2. CASE Committed(u, Attachable(u.files), TRUE)
    BY <1>0, <1>1, <1>2, <1>3, <2>2, OrderedCommitted, BareCommitted
  <2> QED BY <1>1, <2>1, <2>2
<1>5. OnPath(pass)'
  BY <1>0, <1>1, RunPath
<1> QED BY <1>4, <1>5

LEMMA OrderlyNext == Orderly /\ [Next]_vars => Orderly'
<1> SUFFICES ASSUME Orderly, [Next]_vars PROVE Orderly'
  OBVIOUS
<1>0. Once /\ Sound /\ Ordered /\ Bare /\ OnPath(pass) /\ Once' /\ Later
  BY OnceNext, SoundNext DEF Orderly, Once
<1>1. ASSUME UNCHANGED <<run, posts, late>>, OnPath(pass')
      PROVE  Orderly'
  <2>1. Onward
    BY <1>1 DEF run, Onward
  <2>2. Ordered' /\ Bare'
    BY <1>0, <1>1, <2>1, StillOrdered
  <2> QED BY <1>0, <1>1, <2>2, RunPath DEF Orderly
<1>2. CASE Start \/ ReadRun \/ ReadHistory
  <2>1. /\ UNCHANGED <<run, mattermost>> /\ pass'.pc \notin Active /\ pass'.mode = pass.mode /\ pass.pc \notin Active
    BY <1>0, <1>2, ReadSound
  <2>2. pass'.mode # "repair"
    BY <1>0, <2>1 DEF Sound, Reached
  <2> QED BY <1>1, <2>1, <2>2, OffPath DEF mattermost
<1>3. CASE ReadThread
  <2>1. /\ UNCHANGED <<run, mattermost>>
        /\ pass' = NoPass \/ (pass'.pc = "look" /\ pass'.mode = "unit" /\ pass'.at = 1)
    BY <1>0, <1>3, ThreadSound
  <2>2. OnPath(pass')
    <3>1. CASE pass' = NoPass
      BY <3>1, OffPath DEF NoPass, Active
    <3>2. CASE pass'.pc = "look" /\ pass'.mode = "unit" /\ pass'.at = 1
      BY <3>2 DEF OnPath, Placed, Rooted, Plain
    <3> QED BY <2>1, <3>1, <3>2
  <2> QED BY <1>1, <2>1, <2>2 DEF mattermost
<1>4. CASE Looking
  <2>1. UNCHANGED <<run, mattermost>>
    BY <1>0, <1>4, LookingSound
  <2>2. OnPath(pass')
    BY <1>0, <1>4, LookingPath
  <2> QED BY <1>1, <2>1, <2>2 DEF mattermost
<1>5. CASE \E held \in SUBSET Files : Serve(held)
  BY <1>0, <1>5, ServePath DEF Orderly
<1>6. CASE Receive
  <2>1. UNCHANGED <<run, mattermost>>
    BY <1>0, <1>6, ReceiveSound
  <2>2. Onward /\ UNCHANGED <<posts, late>>
    BY <2>1 DEF run, mattermost, Onward
  <2> QED BY <1>0, <1>6, <2>2, StillOrdered, ReceivePath DEF Orderly
<1>7. CASE Fail
  BY <1>0, <1>7, FailPath DEF Orderly
<1>8. CASE \E u \in late : ServeLate(u)
  BY <1>0, <1>8, ServeLatePath DEF Orderly
<1>9. CASE Users
  <2>1. UNCHANGED <<run, late, pass>> /\ Len(posts') = Len(posts) /\ DOMAIN posts' = DOMAIN posts
    BY <1>0, <1>9, UsersSound
  <2>2. Onward /\ late' = late
    BY <2>1 DEF run, Onward
  <2>3. Ordered' /\ Bare'
    BY <1>0, <2>1, <2>2, OrderedKept, BareKept
  <2>4. OnPath(pass)'
    BY <1>0, <2>1, RunPath
  <2> QED BY <1>0, <2>3, <2>4 DEF Orderly
<1>10. CASE Orpheus
  <2>1. Cur(pass)' = Cur(pass) /\ UNCHANGED <<mattermost, pass>> /\ ended = "no" /\ pass.ended = "no"
    BY <1>0, <1>10, RunSound
  <2>2. Onward /\ UNCHANGED <<posts, late>> /\ pass' = pass
    BY <2>1 DEF mattermost, Onward
  <2>3. Ordered' /\ Bare'
    BY <1>0, <2>2, StillOrdered
  <2>4. Agenda(pass)' = Agenda(pass)
    BY <2>1, AgendaWhileActive
  <2>5. OnPath(pass)'
    BY <1>0, <2>1, <2>2, <2>4, OthersPath
  <2> QED BY <1>0, <2>3, <2>5 DEF Orderly
<1>11. CASE Resume \/ UNCHANGED vars
  <2>1. UNCHANGED <<run, mattermost, pass>>
    BY <1>0, <1>11, RestSound
  <2> QED BY <1>0, <1>1, <2>1 DEF mattermost
<1> QED BY <1>2, <1>3, <1>4, <1>5, <1>6, <1>7, <1>8, <1>9, <1>10, <1>11, Steps DEF Looking

LEMMA OrderlyInit == Init => Orderly
<1> SUFFICES ASSUME Init PROVE Orderly
  OBVIOUS
<1>1. DOMAIN posts = {} /\ late = {} /\ pass = NoPass
  BY DEF Init
<1>2. OnPath(pass)
  BY <1>1, OffPath DEF NoPass, Active
<1> QED BY <1>1, <1>2, OnceInit DEF Orderly, Ordered, Bare

LEMMA OrderedInOrder == Ordered => InOrder
<1> SUFFICES ASSUME Ordered, NEW i \in DOMAIN posts, posts[i].mid \notin {"notice", "files", "empty"}
             PROVE  /\ posts[i].part > 0 \/ posts[i].fix # "none" => \E j \in 1 .. i - 1 : Heads(posts[j], posts[i])
                    /\ \A m \in 1 .. Position(posts[i]) - 1 :
                          m <= said /\ Follow(posts[i], m) => \E j \in 1 .. i - 1 : Closes(posts[j], m)
  BY DEF InOrder, Heads, Closes, Follow
<1> QED BY DEF Ordered, Led

(* Readers see the parts of a message, and the messages of a run, in their
   order, whatever was lost, deleted, repaired or answered late: when something
   is posted for the first time all that comes before it has been.           *)
THEOREM KeptInOrder == Spec => []InOrder
<1>1. Orderly => InOrder
  BY OrderedInOrder DEF Orderly
<1> QED BY <1>1, OrderlyInit, OrderlyNext, PTL DEF Spec

-----------------------------------------------------------------------------
(* The notice.  It is posted only after something was lost: a file, a post,
   the list of files, or the file of a repair post, which takes a second
   fault (Lost).  Until then receipts, runs and the files of posts agree: a
   post lacks a file only after a fault, and there is a repair only of a file
   that a post lacks (Honest); and a pass has no cause to give up files
   (Going).                                                                 *)

Unrepaired == \E i \in DOMAIN posts : posts[i].fix # "none" /\ posts[i].held # posts[i].claims
Lost ==
    \/ ended # "no" /\ ~export.ready
    \/ \E f \in export.files : ~files[f].up
    \/ \E i \in DOMAIN posts : ~posts[i].live
    \/ faults > 1 /\ Unrepaired

(* A repair has a post to repair.                                           *)
Lacks(i, a) ==
    /\ posts[i].mid = a.mid /\ posts[i].part = a.part /\ posts[i].fix = "none" /\ Carries(posts[i])
    /\ a.fix \in posts[i].claims \ posts[i].held
Caused(a, D) == a.fix # "none" => \E i \in D : Lacks(i, a)

Receipted(a) ==
    /\ a.mid # "notice" /\ a.claims = Due(a) /\ a.held \subseteq a.claims /\ Caused(a, DOMAIN posts)
    /\ a.held # a.claims => a.fix = "none" /\ faults > 0
    /\ ended = "no" => Early(a.mid)
Meant(u) ==
    /\ u.mid # "notice" /\ u.files = Due(u) /\ Caused(u, DOMAIN posts)
    /\ ended = "no" => Early(u.mid)
Honest == (\A i \in DOMAIN posts : Receipted(posts[i])) /\ (\A u \in late : Meant(u))

Going(q) ==
    /\ q.mode \notin {"notice", "again"} /\ ~q.skip /\ ~q.stopped
    /\ \A i \in DOMAIN q.seen : q.seen[i].held = posts[i].held /\ Caused(posts[i], DOMAIN q.seen)
    /\ q.mode = "repair" =>
          Carries(Agenda(q)[q.at]) /\ q.rest \subseteq export.files /\ Caused(Cur(q), DOMAIN q.seen)
    /\ q.pc \in {"verify", "check", "owner"} => q.todo \subseteq Cur(q).files
    /\ q.pc = "verify" => \E i \in DOMAIN q.seen : SameKey(q.seen[i], Cur(q))
    /\ q.pc = "owner" => files[First(q.todo)].post # 0

Unexported == ended = "no" => export.files = {}
Calm == Honest /\ Going(pass)
Quiet == Once /\ Unexported /\ (Lost \/ Calm)

(* What only grows.                                                         *)
Counted == faults' \in Nat /\ faults <= faults' /\ (faults <= MaxFaults => faults' <= MaxFaults)
Grown ==
    /\ ended # "no" => said' = said /\ ended' = ended /\ export' = export
    /\ ended' = "no" => export' = export
    /\ \A f \in Files : (files'[f].up => files[f].up) /\ (files[f].post # 0 => files'[f].post = files[f].post)
    /\ \A i \in DOMAIN posts : posts'[i].held = posts[i].held
    /\ Counted

LEMMA CommitGrown ==
    ASSUME Sound, UNCHANGED run, Counted, NEW u \in Units, NEW held \in SUBSET Files,
           held \subseteq Attachable(u.files), NEW given \in BOOLEAN, Commit(u, held, given)
    PROVE  Grown
<1>1. Committed(u, held, given) /\ \A f \in Files : files[f].post # 0 => files'[f] = files[f]
  BY CommitSound
<1>2. \A i \in DOMAIN posts : posts'[i] = posts[i]
  BY <1>1 DEF Committed
<1>3. files \in [Files -> [up : BOOLEAN, post : Nat]]
  BY DEF Sound, Types
<1>4. \A f \in Files : files'[f] = IF f \in held THEN [files[f] EXCEPT !.post = Len(posts) + 1] ELSE files[f]
  BY DEF Commit
<1>5. \A f \in Files : files'[f].up = files[f].up
  <2> TAKE f \in Files
  <2>1. files[f] \in [up : BOOLEAN, post : Nat]
    BY <1>3
  <2> QED BY <1>4, <2>1
<1> QED BY <1>1, <1>2, <1>5 DEF Grown, run

LEMMA SameGrown ==
    ASSUME Sound, UNCHANGED <<posts, files>>, Counted,
           UNCHANGED run \/ (ended = "no" /\ (ended' = "no" => export' = export))
    PROVE  Grown
<1>1. posts' = posts /\ files' = files
  OBVIOUS
<1> QED BY <1>1 DEF Grown, run

LEMMA UsersGrown ==
    ASSUME Sound, Users
    PROVE  Grown
<1>1. /\ Sound' /\ UNCHANGED run /\ DOMAIN posts' = DOMAIN posts
      /\ \A f \in Files : files'[f].post = files[f].post
  BY UsersSound
<1>2. files \in [Files -> [up : BOOLEAN, post : Nat]] /\ faults \in Nat
  BY DEF Sound, Types
<1>3. Counted
  <2>1. faults' = faults
    BY DEF Users, EditPost, DeletePost, LoseFile, Tamper
  <2> QED BY <1>2, <2>1 DEF Counted
<1>4. ASSUME NEW i \in DOMAIN posts
      PROVE  posts'[i].held = posts[i].held
  <2>1. posts[i].held = {f \in Files : files[f].post = i}
    BY DEF Sound, Bindings
  <2>2. posts'[i].held = {f \in Files : files'[f].post = i}
    BY <1>1 DEF Sound, Bindings
  <2> QED BY <1>1, <2>1, <2>2
<1>5. ASSUME NEW f \in Files
      PROVE  files'[f].up => files[f].up
  <2>0. files[f] \in [up : BOOLEAN, post : Nat]
    BY <1>2
  <2>1. ASSUME NEW i \in DOMAIN posts, EditPost(i)
        PROVE  files'[f] = files[f]
    BY <2>1 DEF EditPost
  <2>2. ASSUME NEW i \in DOMAIN posts, NEW gone \in SUBSET posts[i].held, DeletePost(i, gone)
        PROVE  files'[f].up => files[f].up
    <3>1. files'[f] = IF f \in gone THEN [files[f] EXCEPT !.up = FALSE] ELSE files[f]
      BY <2>2 DEF DeletePost
    <3> QED BY <2>0, <3>1
  <2>3. ASSUME NEW g \in Files, LoseFile(g)
        PROVE  files'[f].up => files[f].up
    <3>1. files' = [files EXCEPT ![g].up = FALSE]
      BY <2>3 DEF LoseFile
    <3> QED BY <1>2, <2>0, <3>1
  <2> QED BY <2>1, <2>2, <2>3 DEF Users
<1> QED BY <1>1, <1>2, <1>3, <1>4, <1>5 DEF Grown, run

LEMMA AlwaysGrown ==
    ASSUME Sound, [Next]_vars
    PROVE  Grown
<1>0. faults \in Nat /\ MaxFaults \in Nat /\ (faults' = faults => Counted)
  BY BoundAssumption DEF Sound, Types, Counted
<1>1. CASE Start \/ ReadRun \/ ReadHistory
  BY <1>0, <1>1, ReadSound, SameGrown DEF mattermost, bounds
<1>2. CASE ReadThread
  BY <1>0, <1>2, ThreadSound, SameGrown DEF mattermost, bounds
<1>3. CASE Looking
  BY <1>0, <1>3, LookingSound, SameGrown DEF mattermost, bounds
<1>4. ASSUME NEW held \in SUBSET Files, Serve(held)
      PROVE  Grown
  <2>1. UNCHANGED run /\ pass.pc \in Active /\ Good(pass) /\ export \in Exported
    BY <1>4, ServeSound DEF Active, Sound, Types
  <2>2. Asked \in Units
    BY <2>1, AskedType
  <2>3. held \subseteq Attachable(Asked.files)
    BY <1>4 DEF Serve
  <2>4. Counted
    <3>1. UNCHANGED bounds \/ (faults < MaxFaults /\ faults' = faults + 1)
      BY <1>4 DEF Serve
    <3> QED BY <1>0, <3>1 DEF bounds, Counted
  <2>5. UNCHANGED <<posts, files>> \/ Commit(Asked, held, FALSE)
    BY <1>4 DEF Serve
  <2> QED BY <2>1, <2>2, <2>3, <2>4, <2>5, CommitGrown, SameGrown
<1>5. CASE Receive
  BY <1>0, <1>5, ReceiveSound, SameGrown DEF mattermost, bounds
<1>6. CASE Fail
  <2>1. Counted
    BY <1>0, <1>6 DEF Fail, Counted
  <2> QED BY <1>6, <2>1, FailSound, SameGrown
<1>7. ASSUME NEW u \in late, ServeLate(u)
      PROVE  Grown
  <2>1. UNCHANGED run /\ u \in Units
    BY <1>7, ServeLateSound
  <2>2. faults' = faults /\ (UNCHANGED <<posts, files>> \/ Commit(u, Attachable(u.files), TRUE))
    BY <1>7 DEF ServeLate, bounds
  <2>3. Attachable(u.files) \in SUBSET Files
    BY <2>1 DEF Attachable, Units
  <2> QED BY <1>0, <2>1, <2>2, <2>3, CommitGrown, SameGrown
<1>8. CASE Users
  BY <1>8, UsersGrown
<1>9. CASE Orpheus
  <2>1. ended = "no" /\ UNCHANGED mattermost /\ (ended' = "no" => export' = export)
    BY <1>9, RunSound
  <2>2. faults' = faults
    BY <1>9 DEF Orpheus, Say, End, bounds
  <2> QED BY <1>0, <2>1, <2>2, SameGrown DEF mattermost
<1>10. CASE Resume \/ UNCHANGED vars
  <2>1. faults' = faults
    BY <1>10 DEF Resume, vars, bounds
  <2> QED BY <1>0, <1>10, <2>1, RestSound, SameGrown DEF mattermost
<1> QED BY <1>1, <1>2, <1>3, <1>4, <1>5, <1>6, <1>7, <1>8, <1>9, <1>10, Steps DEF Looking

LEMMA UnexportedLater ==
    ASSUME Grown, Unexported
    PROVE  Unexported'
BY DEF Grown, Unexported

(* What is lost stays lost.                                                 *)
LEMMA LostLater ==
    ASSUME Sound, Later, Grown, Unexported, Lost
    PROVE  Lost'
<1>1. CASE ended # "no" /\ ~export.ready
  BY <1>1 DEF Grown, Lost
<1>2. CASE \E f \in export.files : ~files[f].up
  <2>1. ended # "no" /\ export.files \subseteq Files
    BY <1>2 DEF Unexported, Sound, Types, Exported
  <2> QED BY <1>2, <2>1 DEF Grown, Lost
<1>3. CASE \E i \in DOMAIN posts : ~posts[i].live
  BY <1>3 DEF Later, Lost
<1>4. CASE faults > 1 /\ Unrepaired
  <2>1. PICK i \in DOMAIN posts : posts[i].fix # "none" /\ posts[i].held # posts[i].claims
    BY <1>4 DEF Unrepaired
  <2>2. i \in DOMAIN posts' /\ posts'[i].fix # "none" /\ posts'[i].held # posts'[i].claims
    BY <2>1 DEF Later, Grown, SameKey
  <2>3. faults' > 1
    BY <1>4 DEF Grown, Counted, Sound, Types
  <2> QED BY <2>2, <2>3 DEF Lost, Unrepaired
<1> QED BY <1>1, <1>2, <1>3, <1>4 DEF Lost

LEMMA SameDue ==
    ASSUME export' = export, said' = said
    PROVE  \A a : (Due(a)' = Due(a')) /\ (Carries(a)' <=> Carries(a'))
BY DEF Due, Carries

(* The part that carries the files is one.                                  *)
LEMMA CarrierKey ==
    ASSUME NEW a, NEW b, Carries(a), Carries(b), a.fix = b.fix
    PROVE  SameKey(a, b)
BY DEF Carries, SameKey

(* Files that a pass or a late request may attach are free: one that is bound
   is bound to a post that has been found.                                  *)
LEMMA FreeFile ==
    ASSUME Sound, PartOnce, Honest, ~Lost, NEW D \in SUBSET DOMAIN posts,
           \A i \in D : Caused(posts[i], D),
           NEW u, u.files = Due(u), Caused(u, D),
           \A i \in D : ~SameKey(posts[i], u),
           NEW f \in u.files, f \in Files
    PROVE  files[f].post \notin D
<1> SUFFICES ASSUME NEW k \in D, files[f].post = k PROVE FALSE
  OBVIOUS
<1>0. k \in DOMAIN posts /\ \A i \in DOMAIN posts : i \in Live
  BY DEF Lost, Live
<1>1. f \in posts[k].held
  BY <1>0 DEF Sound, Bindings
<1>2. f \in Due(posts[k])
  BY <1>0, <1>1 DEF Honest, Receipted
<1>3. u.fix = "none" => Carries(u)
  BY DEF Due
<1>4. u.fix # "none" => u.fix = f
  BY DEF Due
<1>5. CASE posts[k].fix # "none"
  <2>1. posts[k].fix = f
    BY <1>2, <1>5 DEF Due
  <2>2. PICK j \in D : Lacks(j, posts[k])
    BY <1>5 DEF Caused
  <2>3. CASE u.fix = "none"
    <3>1. SameKey(posts[j], u)
      BY <1>3, <2>2, <2>3, CarrierKey DEF Lacks
    <3> QED BY <3>1
  <2>4. CASE u.fix # "none"
    <3>1. PICK i \in D : Lacks(i, u)
      BY <2>4 DEF Caused
    <3>2. u.mid = posts[k].mid /\ u.part = posts[k].part
      <4>1. SameKey(posts[i], posts[j])
        BY <2>2, <3>1, CarrierKey DEF Lacks
      <4> QED BY <2>2, <3>1, <4>1 DEF Lacks, SameKey
    <3>3. SameKey(posts[k], u)
      BY <1>4, <2>1, <2>4, <3>2 DEF SameKey
    <3> QED BY <3>3
  <2> QED BY <2>3, <2>4
<1>6. CASE posts[k].fix = "none"
  <2>1. Carries(posts[k])
    BY <1>2, <1>6 DEF Due
  <2>2. CASE u.fix = "none"
    <3>1. SameKey(posts[k], u)
      BY <1>3, <1>6, <2>1, <2>2, CarrierKey
    <3> QED BY <3>1
  <2>3. CASE u.fix # "none"
    <3>1. PICK i \in D : Lacks(i, u)
      BY <2>3 DEF Caused
    <3>2. SameKey(posts[i], posts[k])
      BY <1>6, <2>1, <3>1, CarrierKey DEF Lacks
    <3>3. i = k
      BY <1>0, <3>2 DEF PartOnce
    <3> QED BY <1>1, <1>4, <2>3, <3>1, <3>3 DEF Lacks
  <2> QED BY <2>2, <2>3
<1> QED BY <1>5, <1>6

(* What is due is exported.                                                 *)
LEMMA DueExported ==
    ASSUME Sound, Honest, NEW D \in SUBSET DOMAIN posts, NEW u, u.files = Due(u), Caused(u, D)
    PROVE  u.files \subseteq export.files /\ u.files \subseteq Files
<1>1. export.files \subseteq Files
  BY DEF Sound, Types, Exported
<1>2. CASE u.fix = "none"
  BY <1>1, <1>2 DEF Due
<1>3. CASE u.fix # "none"
  <2>1. PICK i \in D : Lacks(i, u)
    BY <1>3 DEF Caused
  <2>2. u.fix \in Due(posts[i]) /\ posts[i].fix = "none" /\ Carries(posts[i])
    BY <2>1 DEF Lacks, Honest, Receipted
  <2> QED BY <1>1, <1>3, <2>2 DEF Due
<1> QED BY <1>2, <1>3

LEMMA AllAttachable ==
    ASSUME Sound, PartOnce, Honest, ~Lost, NEW u, Meant(u), \A i \in Live : ~SameKey(posts[i], u)
    PROVE  Attachable(u.files) = u.files
<1>1. \A i \in DOMAIN posts : i \in Live /\ Caused(posts[i], DOMAIN posts)
  BY DEF Lost, Live, Honest, Receipted
<1>2. u.files \subseteq export.files /\ u.files \subseteq Files
  BY DueExported DEF Meant
<1>3. ASSUME NEW f \in u.files
      PROVE  files[f].up /\ files[f].post = 0
  <2>1. f \in Files /\ f \in export.files
    BY <1>2
  <2>2. files[f].post \notin DOMAIN posts
    BY <1>1, <2>1, FreeFile DEF Meant
  <2>3. files[f].post \in 0 .. Len(posts) /\ DOMAIN posts = 1 .. Len(posts) /\ Len(posts) \in Nat
    BY <2>1, PostElements DEF Sound, Bindings, Types
  <2> QED BY <2>1, <2>2, <2>3 DEF Lost
<1> QED BY <1>3 DEF Attachable

(* The posts and late requests stay what they are.                          *)
LackLater(b, i) ==
    /\ posts'[i].mid = b.mid /\ posts'[i].part = b.part /\ posts'[i].fix = "none" /\ Carries(posts'[i])
    /\ b.fix \in posts'[i].claims \ posts'[i].held

LEMMA CausedLater ==
    ASSUME Later, Grown, NEW D \in SUBSET DOMAIN posts, NEW E, D \subseteq E,
           NEW a, NEW b, b.mid = a.mid, b.part = a.part, b.fix = a.fix, Caused(a, D)
    PROVE  b.fix # "none" => \E i \in E : LackLater(b, i)
<1> SUFFICES ASSUME b.fix # "none"
             PROVE  \E i \in E : LackLater(b, i)
  OBVIOUS
<1>1. PICK i \in D : Lacks(i, a)
  BY DEF Caused
<1>2. posts'[i].mid = posts[i].mid /\ posts'[i].part = posts[i].part /\ posts'[i].fix = posts[i].fix
      /\ posts'[i].claims = posts[i].claims /\ posts'[i].held = posts[i].held
  BY DEF Later, Grown, SameKey
<1>3. Carries(posts'[i])
  BY <1>1, <1>2 DEF Lacks, Carries
<1> QED BY <1>1, <1>2, <1>3 DEF Lacks, LackLater

LEMMA HonestKept ==
    ASSUME Honest, Later, Grown, UNCHANGED run, faults \in Nat, DOMAIN posts' = DOMAIN posts,
           \A u \in late' : u \in late \/ Meant(u)
    PROVE  Honest'
<1>0. said' = said /\ export' = export /\ ended' = ended
  BY DEF run
<1>1. ASSUME NEW i \in DOMAIN posts
      PROVE  Receipted(posts[i])'
  <2>1. Receipted(posts[i])
    BY DEF Honest
  <2>2. /\ posts'[i].mid = posts[i].mid /\ posts'[i].part = posts[i].part /\ posts'[i].fix = posts[i].fix
        /\ posts'[i].claims = posts[i].claims /\ posts'[i].held = posts[i].held
    BY DEF Later, Grown, SameKey
  <2>3. Caused(posts[i], DOMAIN posts)'
    <3>1. posts'[i].fix # "none" => \E k \in DOMAIN posts : LackLater(posts'[i], k)
      BY <2>1, <2>2, CausedLater DEF Receipted
    <3> QED BY <1>0, <3>1 DEF Caused, Lacks, LackLater, Carries
  <2>4. Due(posts[i])' = Due(posts[i])
    BY <1>0, <2>2 DEF Due, Carries
  <2>5. faults > 0 => faults' > 0
    BY DEF Grown, Counted
  <2> QED BY <1>0, <2>1, <2>2, <2>3, <2>4, <2>5 DEF Receipted, Early
<1>2. ASSUME NEW u \in late'
      PROVE  u.mid # "notice" /\ u.files = Due(u)' /\ Caused(u, DOMAIN posts)' /\ (ended' = "no" => Early(u.mid))
  <2>1. Meant(u)
    BY <1>2 DEF Honest
  <2>2. \A a : Due(a)' = Due(a')
    BY <1>0, SameDue
  <2>3. Caused(u, DOMAIN posts)'
    <3>1. u.fix # "none" => \E k \in DOMAIN posts : LackLater(u, k)
      BY <2>1, CausedLater DEF Meant
    <3> QED BY <1>0, <3>1 DEF Caused, Lacks, LackLater, Carries
  <2>4. Due(u)' = Due(u)
    BY <1>0 DEF Due, Carries
  <2> QED BY <1>0, <2>1, <2>3, <2>4 DEF Meant
<1> QED BY <1>1, <1>2 DEF Honest, Meant, Early

(* A post that is made has all its files, or a fault is counted; for a repair
   that is the second, as the post it repairs took the first.                *)
LEMMA CommitHonest ==
    ASSUME Sound, Honest, Later, Grown, UNCHANGED run, NEW u, Meant(u), NEW held, NEW given,
           Committed(u, held, given), held \subseteq u.files, held # u.files => faults' > faults, late' \subseteq late
    PROVE  Honest' \/ Lost'
<1>0. said' = said /\ export' = export /\ ended' = ended /\ faults \in Nat /\ faults' \in Nat /\ faults <= faults'
  BY DEF run, Sound, Types, Grown, Counted
<1>1. PICK n : n = Len(posts) + 1
  OBVIOUS
<1>2. PICK a : a = posts'[n]
  OBVIOUS
<1>3. /\ DOMAIN posts' = DOMAIN posts \cup {n} /\ \A i \in DOMAIN posts : posts'[i] = posts[i]
      /\ a.mid = u.mid /\ a.part = u.part /\ a.fix = u.fix /\ a.claims = u.files /\ a.held = held
  BY <1>1, <1>2 DEF Committed, PostOf
<1>4. CASE held # u.files /\ u.fix # "none"
  <2>1. PICK i \in DOMAIN posts : Lacks(i, u)
    BY <1>4 DEF Meant, Caused
  <2>2. posts[i].held # posts[i].claims
    BY <2>1 DEF Lacks
  <2>3. faults > 0
    BY <2>2 DEF Honest, Receipted
  <2>4. faults' > 1
    BY <1>0, <1>4, <2>3
  <2>5. Unrepaired'
    BY <1>2, <1>3, <1>4 DEF Unrepaired
  <2> QED BY <2>4, <2>5 DEF Lost
<1>5. CASE held = u.files \/ u.fix = "none"
  <2>1. ASSUME NEW i \in DOMAIN posts
        PROVE  Receipted(posts[i])'
    <3>1. Receipted(posts[i]) /\ posts'[i] = posts[i]
      BY <1>3 DEF Honest
    <3>2. Caused(posts[i], DOMAIN posts)'
      <4>1. posts'[i].fix # "none" => \E k \in DOMAIN posts' : LackLater(posts'[i], k)
        BY <1>3, <3>1, CausedLater DEF Receipted
      <4> QED BY <1>0, <4>1 DEF Caused, Lacks, LackLater, Carries
    <3>3. Due(posts[i])' = Due(posts[i])
      BY <1>0, <3>1 DEF Due, Carries
    <3>4. faults > 0 => faults' > 0
      BY <1>0
    <3> QED BY <1>0, <3>1, <3>2, <3>3, <3>4 DEF Receipted, Early
  <2>2. Receipted(posts[n])'
    <3>1. posts'[n].mid = u.mid /\ posts'[n].part = u.part /\ posts'[n].fix = u.fix /\ posts'[n].claims = u.files
          /\ posts'[n].held = held /\ n' = n
      BY <1>2, <1>3
    <3>2. Due(posts[n])' = Due(u)
      BY <1>0, <3>1 DEF Due, Carries
    <3>3. Caused(posts[n], DOMAIN posts)'
      <4>1. posts'[n].fix # "none" => \E k \in DOMAIN posts' : LackLater(posts'[n], k)
        BY <1>3, <3>1, CausedLater DEF Meant
      <4> QED BY <1>0, <3>1, <4>1 DEF Caused, Lacks, LackLater, Carries
    <3>4. held # u.files => u.fix = "none" /\ faults' > 0
      BY <1>0, <1>5
    <3> QED BY <1>0, <3>1, <3>2, <3>3, <3>4 DEF Receipted, Meant, Early
  <2>3. ASSUME NEW v \in late'
        PROVE  Meant(v)'
    <3>1. Meant(v) /\ v' = v
      BY <2>3 DEF Honest
    <3>2. Caused(v, DOMAIN posts)'
      <4>1. v.fix # "none" => \E k \in DOMAIN posts' : LackLater(v, k)
        BY <1>3, <3>1, CausedLater DEF Meant
      <4> QED BY <1>0, <4>1 DEF Caused, Lacks, LackLater, Carries
    <3>3. Due(v)' = Due(v)
      BY <1>0 DEF Due, Carries
    <3> QED BY <1>0, <3>1, <3>2, <3>3 DEF Meant, Early
  <2>4. \A i \in DOMAIN posts' : i \in DOMAIN posts \/ i = n
    BY <1>3
  <2>5. Honest'
    <3>1. \A i \in DOMAIN posts' : Receipted(posts[i])'
      BY <2>1, <2>2, <2>4
    <3> QED BY <2>3, <3>1 DEF Honest
  <2> QED BY <2>5
<1> QED BY <1>4, <1>5

-----------------------------------------------------------------------------
(* A pass that goes on.                                                     *)

LEMMA SeenPosts ==
    ASSUME Once
    PROVE  DOMAIN pass.seen \in SUBSET DOMAIN posts /\ \A i \in DOMAIN pass.seen : SameKey(pass.seen[i], posts[i])
BY DEF Once, Reading, Agrees

(* There is no notice on the agenda of a run whose files are known.         *)
LEMMA CurMeant ==
    ASSUME Once, Honest, Going(pass), ~Lost, pass.pc \in Active
    PROVE  /\ Meant(Cur(pass)) /\ Meant(Asked) /\ Asked \in Units /\ Asked.files = Cur(pass).files
           /\ SameKey(Asked, Cur(pass)) /\ Caused(Cur(pass), DOMAIN pass.seen) /\ pass.mode \in {"unit", "created", "repair"}
           /\ pass.mode # "repair" => Cur(pass) = Agenda(pass)[pass.at] /\ Cur(pass).fix = "none"
           /\ pass.mode = "repair" => Cur(pass) = Repair(Agenda(pass)[pass.at], pass.fix) /\ Cur(pass).fix = pass.fix
                                      /\ Cur(pass).files = {pass.fix}
           /\ pass.ended = "no" => Early(Cur(pass).mid)
<1> DEFINE u == Agenda(pass)[pass.at]
<1>0. Sound /\ Good(pass) /\ export \in Exported /\ pass \in Passes /\ pass.mode \in Modes
  BY DEF Once, Sound, Types, Passes
<1>1. pass.mode \in {"unit", "created", "repair"} /\ ~pass.skip /\ ~pass.stopped
  BY <1>0 DEF Going, Modes
<1>2. pass.at \in DOMAIN Agenda(pass) /\ u \in Units /\ Cur(pass) \in Units
  BY <1>0, CurType
<1>3. u.fix = "none" /\ (pass.ended = "no" => Early(u.mid))
  BY <1>0, <1>2, UnitFacts
<1>4. u.mid # "notice"
  <2>1. ~Unknown(pass)
    BY <1>0 DEF Unknown, Ended, Lost, Sound, Reached
  <2>2. \/ \E i \in 1 .. pass.said : \E j \in Parts(i) : Part(pass, u, i, j)
        \/ Closing(pass, u)
    BY <1>0, <1>2, <2>1, AgendaUnits
  <2> HIDE DEF u
  <2>3. ASSUME NEW i \in 1 .. pass.said, NEW j \in Parts(i), Part(pass, u, i, j)
        PROVE  u.mid # "notice"
    <3>1. i \in DOMAIN Messages
      BY <1>0, SpokenType
    <3> QED BY <2>3, <3>1, MidsDiffer DEF Part, Unit
  <2>4. CASE Closing(pass, u)
    BY <2>4 DEF Closing, Unit
  <2> QED BY <2>2, <2>3, <2>4
<1>5. pass.mode = "repair" => Cur(pass) = Repair(u, pass.fix)
  BY <1>0, CurType
<1>6. pass.mode # "repair" => Cur(pass) = u
  BY <1>0, <1>1, CurType
<1> HIDE DEF u
<1>7. pass.mode = "repair" => Cur(pass).mid = u.mid /\ Cur(pass).fix = pass.fix /\ Cur(pass).files = {pass.fix}
  BY <1>2, <1>5 DEF Repair, Units
<1>8. Cur(pass).mid = u.mid
  BY <1>6, <1>7, <1>1
<1>9. Cur(pass).files = Due(Cur(pass))
  BY <1>0, <1>1, DueCur
<1>10. Caused(Cur(pass), DOMAIN pass.seen)
  BY <1>3, <1>6 DEF Going, Caused
<1>11. Caused(Cur(pass), DOMAIN posts)
  BY <1>10, SeenPosts DEF Caused
<1>12. ended = "no" => pass.ended = "no"
  BY <1>0 DEF Sound, Reached
<1>13. Meant(Cur(pass))
  BY <1>3, <1>4, <1>8, <1>9, <1>11, <1>12 DEF Meant
<1>14. Asked \in Units /\ SameKey(Asked, Cur(pass)) /\ Asked.files = Cur(pass).files
  BY <1>0, <1>1, AskedType
<1>15. Meant(Asked)
  BY <1>13, <1>14 DEF Meant, SameKey, Due, Carries, Caused, Lacks
<1> QED BY <1>1, <1>3, <1>5, <1>6, <1>7, <1>8, <1>10, <1>13, <1>14, <1>15 DEF u

LEMMA GoingPrime ==
    ASSUME Later, Grown, UNCHANGED run, NEW q, q = pass', Going(q), DOMAIN q.seen \in SUBSET DOMAIN posts,
           q.pc = "owner" => First(q.todo) \in Files
    PROVE  Going(pass)'
<1>0. said' = said /\ export' = export
  BY DEF run
<1>1. Cur(pass)' = Cur(q) /\ Agenda(pass)' = Agenda(q)
  BY <1>0, AgendaNext
<1>2. ASSUME NEW i \in DOMAIN q.seen
      PROVE  q.seen[i].held = posts'[i].held /\ Caused(posts[i], DOMAIN pass.seen)'
  <2>1. i \in DOMAIN posts /\ q.seen[i].held = posts[i].held /\ Caused(posts[i], DOMAIN q.seen)
    BY DEF Going
  <2>2. /\ posts'[i].mid = posts[i].mid /\ posts'[i].part = posts[i].part /\ posts'[i].fix = posts[i].fix
        /\ posts'[i].held = posts[i].held
    BY <2>1 DEF Later, Grown, SameKey
  <2>3. posts'[i].fix # "none" => \E k \in DOMAIN q.seen : LackLater(posts'[i], k)
    BY <2>1, <2>2, CausedLater
  <2> QED BY <1>0, <2>1, <2>2, <2>3 DEF Caused, Lacks, LackLater, Carries
<1>3. ASSUME q.mode = "repair"
      PROVE  Carries(Agenda(pass)[pass.at])' /\ q.rest \subseteq export'.files /\ Caused(Cur(pass), DOMAIN pass.seen)'
  <2>1. Carries(Agenda(q)[q.at]) /\ q.rest \subseteq export.files /\ Caused(Cur(q), DOMAIN q.seen)
    BY <1>3 DEF Going
  <2>2. PICK b : b = Cur(q)
    OBVIOUS
  <2>3. b.fix # "none" => \E k \in DOMAIN q.seen : LackLater(b, k)
    BY <2>1, <2>2, CausedLater
  <2>4. Caused(Cur(pass), DOMAIN pass.seen)'
    BY <1>0, <1>1, <2>2, <2>3 DEF Caused, Lacks, LackLater, Carries
  <2> QED BY <1>0, <1>1, <2>1, <2>4 DEF Carries
<1>4. q.pc = "owner" => files'[First(pass'.todo)].post # 0
  BY DEF Going, Grown
<1>5. First(pass.todo)' = First(pass'.todo)
  BY DEF First
<1> QED BY <1>0, <1>1, <1>2, <1>3, <1>4, <1>5 DEF Going, SameKey

LEMMA SameUnitGoing ==
    ASSUME Going(pass), NEW q,
           q.seen = pass.seen, q.said = pass.said, q.ended = pass.ended, q.stopped = pass.stopped, q.skip = pass.skip,
           q.at = pass.at, q.mode = pass.mode, q.fix = pass.fix, q.rest = pass.rest,
           q.pc \in {"verify", "check", "owner"} => q.todo \subseteq Cur(pass).files,
           q.pc = "verify" => \E i \in DOMAIN pass.seen : SameKey(pass.seen[i], Cur(pass)),
           q.pc = "owner" => files[First(q.todo)].post # 0
    PROVE  Going(q)
<1>1. Cur(q) = Cur(pass) /\ Agenda(q) = Agenda(pass)
  BY CurKept, AgendaSame
<1> QED BY <1>1 DEF Going

(* What a pass finds is a post of the unit, with the files that are due.     *)
LEMMA CurFound ==
    ASSUME Once, Honest, Going(pass), ~Lost, pass.pc \in Active, NEW i \in DOMAIN pass.seen, SameKey(pass.seen[i], Cur(pass))
    PROVE  /\ i \in DOMAIN posts /\ SameKey(posts[i], Cur(pass)) /\ First(Matches(Cur(pass))) = i
           /\ pass.seen[i].claims = Cur(pass).files /\ posts[i].claims = Cur(pass).files
           /\ pass.seen[i].held = posts[i].held
<1>1. i \in DOMAIN posts /\ SameKey(pass.seen[i], posts[i]) /\ pass.seen[i].claims = posts[i].claims
  BY DEF Once, Reading, Agrees
<1>2. SameKey(posts[i], Cur(pass))
  BY <1>1 DEF SameKey
<1>3. posts[i].claims = Due(posts[i]) /\ Due(posts[i]) = Due(Cur(pass)) /\ Cur(pass).files = Due(Cur(pass))
  <2>1. Meant(Cur(pass))
    BY CurMeant
  <2>2. Due(posts[i]) = Due(Cur(pass))
    BY <1>2 DEF Due, Carries, SameKey
  <2> QED BY <1>1, <2>1, <2>2 DEF Honest, Receipted, Meant
<1>4. First(Matches(Cur(pass))) = i
  <2>1. i \in Matches(Cur(pass))
    BY DEF Matches
  <2>2. PICK k : k = First(Matches(Cur(pass)))
    OBVIOUS
  <2>3. k \in Matches(Cur(pass))
    BY <2>1, <2>2, FirstIn
  <2>4. k \in DOMAIN pass.seen /\ SameKey(pass.seen[k], Cur(pass))
    BY <2>3 DEF Matches
  <2>5. SameKey(pass.seen[k], pass.seen[i])
    BY <2>4 DEF SameKey
  <2> QED BY <2>2, <2>4, <2>5 DEF Once, Reading, SeenOnce
<1> QED BY <1>1, <1>2, <1>3, <1>4 DEF Going

LEMMA DoneGoing ==
    ASSUME Once, Honest, Going(pass), ~Lost, pass.pc \in Active, NEW q, q = Done(pass), q # NoPass
    PROVE  Going(q)
<1> DEFINE u == Agenda(pass)[pass.at]
<1>0. Sound /\ Good(pass) /\ export \in Exported /\ pass \in Passes /\ ~pass.skip /\ ~pass.stopped
      /\ pass.mode \in {"unit", "created", "repair"}
  BY CurMeant DEF Once, Sound, Types, Going
<1>1. /\ Kept(pass, q) /\ Good(q)
      /\ \/ /\ pass.mode = "repair" /\ pass.rest # {} /\ q.pc = "verify" /\ q.mode = "unit" /\ q.at = pass.at
            /\ q.todo = pass.rest /\ q.skip = pass.skip
         \/ /\ q.pc = "look" /\ q.at = pass.at + 1 /\ q.mode = "unit"
            /\ q.skip = (pass.skip \/ pass.mode = "notice" \/ (pass.mode # "repair" /\ u = Notice))
  BY <1>0, DoneGood
<1>2. pass.mode # "repair" => u # Notice
  <2>1. Notice.mid = "notice"
    BY DEF Notice, Unit
  <2> QED BY <2>1, CurMeant DEF Meant
<1>3. q.seen = pass.seen /\ q.stopped = pass.stopped /\ ~q.skip /\ q.mode = "unit" /\ Agenda(q) = Agenda(pass)
  BY <1>0, <1>1, <1>2, AgendaSame DEF Kept
<1>4. ASSUME q.pc = "verify"
      PROVE  q.todo \subseteq Cur(q).files /\ \E i \in DOMAIN q.seen : SameKey(q.seen[i], Cur(q))
  <2>1. pass.mode = "repair" /\ q.todo = pass.rest /\ q.at = pass.at
    BY <1>1, <1>4
  <2>2. Cur(q) = u
    BY <1>3, <2>1 DEF Cur
  <2>3. Carries(u) /\ pass.rest \subseteq export.files /\ Caused(Cur(pass), DOMAIN pass.seen)
    BY <2>1 DEF Going
  <2>4. u.fix = "none" /\ u.files = Due(u)
    <3>1. pass.at \in DOMAIN Agenda(pass)
      BY <1>0, CurType
    <3> QED BY <1>0, <3>1, UnitFacts, DueUnit
  <2>5. Cur(pass).fix # "none"
    BY <1>0, <2>1, CurMeant DEF Good, Mending
  <2>6. PICK i \in DOMAIN pass.seen : Lacks(i, Cur(pass))
    BY <2>3, <2>5 DEF Caused
  <2>7. SameKey(posts[i], u)
    BY <2>3, <2>4, <2>6, CarrierKey DEF Lacks
  <2>8. SameKey(pass.seen[i], u)
    BY <2>7, SeenPosts DEF SameKey
  <2> QED BY <1>3, <2>1, <2>2, <2>3, <2>4, <2>8 DEF Due
<1>5. q.pc \in {"verify", "look"} /\ ~q.stopped
  BY <1>0, <1>1, <1>3
<1> HIDE DEF u
<1> QED BY <1>3, <1>4, <1>5 DEF Going

(* A file that a post lacks is repaired; a repair post lacks none.           *)
LEMMA MendGoing ==
    ASSUME Once, Honest, Going(pass), ~Lost, pass.pc = "verify", NEW f \in pass.todo,
           ~Verified(First(Matches(Cur(pass))), f), NEW q, q = Mend(pass, f)
    PROVE  Going(q)
<1>0. Sound /\ Good(pass) /\ export \in Exported /\ pass \in Passes /\ pass.pc \in Active /\ ~pass.skip /\ ~pass.stopped
  BY DEF Once, Sound, Types, Active, Going
<1>1. f \in Files /\ f \in Cur(pass).files
  BY <1>0 DEF Passes, Going
<1>2. PICK i \in DOMAIN pass.seen : SameKey(pass.seen[i], Cur(pass))
  BY DEF Going
<1>3. /\ i \in DOMAIN posts /\ SameKey(posts[i], Cur(pass)) /\ First(Matches(Cur(pass))) = i
      /\ posts[i].claims = Cur(pass).files /\ pass.seen[i].held = posts[i].held
  BY <1>0, <1>2, CurFound
<1>4. f \notin posts[i].held
  <2>1. f \in posts[i].held => files[f].post = i
    BY <1>1, <1>3 DEF Once, Sound, Bindings
  <2>2. files[f].up
    <3>1. f \in export.files
      BY <1>0, <1>1, SeenPosts, CurMeant, DueExported DEF Meant
    <3> QED BY <3>1 DEF Lost
  <2> QED BY <1>3, <2>1, <2>2 DEF Verified
<1>5. posts[i].fix = "none"
  BY <1>1, <1>3, <1>4 DEF Honest, Receipted
<1>6. pass.mode # "repair" /\ Cur(pass) = Agenda(pass)[pass.at] /\ pass.mode \in {"unit", "created", "repair"}
  <2>1. Cur(pass).fix = "none"
    BY <1>3, <1>5 DEF SameKey
  <2>2. pass.mode # "repair"
    BY <1>0, <2>1, CurMeant DEF Good, Mending
  <2> QED BY <1>0, <2>2, CurMeant
<1>7. /\ Kept(pass, q) /\ q.pc = "look" /\ q.at = pass.at /\ q.skip = pass.skip /\ Good(q)
      /\ \/ pass.mode = "created" /\ q.mode = "unit"
         \/ q.mode = "repair" /\ q.fix = f /\ q.rest = pass.todo \ {f}
  BY <1>0, <1>1, <1>6, MendGood
<1>8. Agenda(q) = Agenda(pass) /\ q.seen = pass.seen /\ q.stopped = pass.stopped
  BY <1>7, AgendaSame DEF Kept
<1>9. ASSUME q.mode = "repair"
      PROVE  Carries(Agenda(q)[q.at]) /\ q.rest \subseteq export.files /\ Caused(Cur(q), DOMAIN q.seen)
  <2>1. q.fix = f /\ q.rest \subseteq Cur(pass).files
    BY <1>7, <1>9 DEF Going
  <2>2. Carries(posts[i])
    BY <1>1, <1>3, <1>5 DEF Honest, Receipted, Due
  <2>3. Carries(Cur(pass))
    BY <1>3, <2>2 DEF Carries, SameKey
  <2>4. Cur(pass).files \subseteq export.files
    BY <1>0, SeenPosts, CurMeant, DueExported DEF Meant
  <2>5. Cur(q) = Repair(Cur(pass), f)
    BY <1>6, <1>7, <1>8, <1>9, <2>1 DEF Cur
  <2>6. Cur(pass) \in Units
    BY <1>0, CurType
  <2>7. Cur(q).mid = Cur(pass).mid /\ Cur(q).part = 0 /\ Cur(q).fix = f
    BY <2>5, <2>6 DEF Repair, Units
  <2>8. posts[i].mid = Cur(pass).mid /\ posts[i].part = 0
    BY <1>3, <2>2 DEF SameKey, Carries
  <2>9. Lacks(i, Cur(q))
    BY <1>1, <1>3, <1>4, <1>5, <2>2, <2>7, <2>8 DEF Lacks
  <2> QED BY <1>2, <1>6, <1>7, <1>8, <2>1, <2>3, <2>4, <2>9 DEF Caused
<1>10. q.mode \in {"unit", "repair"} /\ ~q.skip /\ ~q.stopped
  BY <1>0, <1>7, <1>8
<1> QED BY <1>7, <1>8, <1>9, <1>10 DEF Going

(* A pass that looks, verifies and checks finds no file to be lost.          *)
LEMMA LookingGoing ==
    ASSUME Once, Honest, Going(pass), ~Lost, Looking, pass' # NoPass
    PROVE  Going(pass')
<1>0. /\ Sound /\ pass.pc \in Active /\ Good(pass) /\ pass \in Passes /\ ~pass.skip
      /\ Meant(Cur(pass)) /\ Caused(Cur(pass), DOMAIN pass.seen)
  BY LookingSound, CurMeant DEF Once, Sound, Types, Going
<1>1. PICK q : q = pass'
  OBVIOUS
<1>2. CASE Look
  <2>1. ASSUME q = [pass EXCEPT !.pc = "verify", !.todo = Found(Cur(pass)).claims], Matches(Cur(pass)) # {}
        PROVE  Going(q)
    <3>1. PICK i : i = First(Matches(Cur(pass)))
      OBVIOUS
    <3>2. i \in Matches(Cur(pass))
      BY <2>1, <3>1, FirstIn
    <3>3. i \in DOMAIN pass.seen /\ SameKey(pass.seen[i], Cur(pass))
      BY <3>2 DEF Matches
    <3>4. Found(Cur(pass)).claims = Cur(pass).files
      BY <1>0, <3>1, <3>3, CurFound DEF Found
    <3>5. /\ q.seen = pass.seen /\ q.said = pass.said /\ q.ended = pass.ended /\ q.stopped = pass.stopped
          /\ q.skip = pass.skip /\ q.at = pass.at /\ q.mode = pass.mode /\ q.fix = pass.fix /\ q.rest = pass.rest
          /\ q.pc = "verify" /\ q.todo = Cur(pass).files
      BY <1>0, <2>1, <3>4 DEF Passes
    <3> QED BY <3>3, <3>5, SameUnitGoing
  <2>2. ASSUME q = [pass EXCEPT !.pc = "create"]
        PROVE  Going(q)
    <3>1. /\ q.seen = pass.seen /\ q.said = pass.said /\ q.ended = pass.ended /\ q.stopped = pass.stopped
          /\ q.skip = pass.skip /\ q.at = pass.at /\ q.mode = pass.mode /\ q.fix = pass.fix /\ q.rest = pass.rest
          /\ q.pc = "create"
      BY <1>0, <2>2 DEF Passes
    <3> QED BY <3>1, SameUnitGoing
  <2>3. ASSUME q = [pass EXCEPT !.pc = "check", !.todo = Cur(pass).files]
        PROVE  Going(q)
    <3>1. /\ q.seen = pass.seen /\ q.said = pass.said /\ q.ended = pass.ended /\ q.stopped = pass.stopped
          /\ q.skip = pass.skip /\ q.at = pass.at /\ q.mode = pass.mode /\ q.fix = pass.fix /\ q.rest = pass.rest
          /\ q.pc = "check" /\ q.todo = Cur(pass).files
      BY <1>0, <2>3 DEF Passes
    <3> QED BY <3>1, SameUnitGoing
  <2> QED BY <1>0, <1>1, <1>2, <2>1, <2>2, <2>3, LookGood, DoneGoing
<1>3. CASE Verify
  <2>0. pass.pc = "verify" /\ pass.todo # {}
    BY <1>3, <1>0 DEF Verify, At, Good, Busy
  <2>1. PICK f : f = First(pass.todo) /\ f \in pass.todo
    BY <2>0, FirstIn
  <2>2. \/ ~Verified(First(Matches(Cur(pass))), f) /\ q = Mend(pass, f)
        \/ q = Done(pass)
        \/ q = [pass EXCEPT !.todo = @ \ {f}]
    BY <1>1, <1>3, <2>1 DEF Verify, Step
  <2>3. ASSUME q = [pass EXCEPT !.todo = @ \ {f}]
        PROVE  Going(q)
    <3>1. /\ q.seen = pass.seen /\ q.said = pass.said /\ q.ended = pass.ended /\ q.stopped = pass.stopped
          /\ q.skip = pass.skip /\ q.at = pass.at /\ q.mode = pass.mode /\ q.fix = pass.fix /\ q.rest = pass.rest
          /\ q.pc = "verify" /\ q.todo \subseteq pass.todo
      BY <1>0, <2>0, <2>3 DEF Passes
    <3>2. pass.todo \subseteq Cur(pass).files /\ \E i \in DOMAIN pass.seen : SameKey(pass.seen[i], Cur(pass))
      BY <2>0 DEF Going
    <3>3. q.todo \subseteq Cur(pass).files
      BY <3>1, <3>2
    <3> QED BY <3>1, <3>2, <3>3, SameUnitGoing
  <2> QED BY <1>0, <1>1, <2>0, <2>1, <2>2, <2>3, MendGoing, DoneGoing
<1>4. CASE Check
  <2>0. pass.pc = "check" /\ pass.todo # {} /\ pass.todo \subseteq Cur(pass).files
    BY <1>4, <1>0 DEF Check, At, Good, Busy, Going
  <2>1. PICK f : f = First(pass.todo) /\ f \in pass.todo
    BY <2>0, FirstIn
  <2>2. f \in Cur(pass).files /\ f \in Files /\ f \in export.files
    BY <1>0, <2>0, <2>1, SeenPosts, DueExported DEF Meant
  <2>3. files[f].post \notin DOMAIN pass.seen
    <3> DEFINE D == DOMAIN pass.seen
    <3>1. D \in SUBSET DOMAIN posts /\ \A i \in D : Caused(posts[i], D)
      BY SeenPosts DEF Going
    <3>2. \A i \in D : ~SameKey(posts[i], Cur(pass))
      BY <2>0, SeenPosts DEF Once, Unseen, SameKey
    <3>3. Caused(Cur(pass), D) /\ Cur(pass).files = Due(Cur(pass))
      BY <1>0 DEF Meant
    <3> HIDE DEF D
    <3>4. files[f].post \notin D
      BY <1>0, <2>2, <3>1, <3>2, <3>3, FreeFile DEF Once
    <3> QED BY <3>4 DEF D
  <2>4. files[f].up
    BY <2>2 DEF Lost
  <2>5. \/ files[f].post # 0 /\ q = [pass EXCEPT !.pc = "owner"]
        \/ q = [pass EXCEPT !.todo = @ \ {f}, !.pc = IF pass.todo = {f} THEN "create" ELSE "check"]
    BY <1>1, <1>4, <2>1, <2>3, <2>4 DEF Check, Step
  <2>6. /\ q.seen = pass.seen /\ q.said = pass.said /\ q.ended = pass.ended /\ q.stopped = pass.stopped
        /\ q.skip = pass.skip /\ q.at = pass.at /\ q.mode = pass.mode /\ q.fix = pass.fix /\ q.rest = pass.rest
        /\ \/ q.pc = "owner" /\ q.todo = pass.todo /\ files[First(q.todo)].post # 0
           \/ q.pc \in {"create", "check"} /\ q.todo \subseteq pass.todo
    <3>1. CASE files[f].post # 0 /\ q = [pass EXCEPT !.pc = "owner"]
      BY <1>0, <2>1, <3>1 DEF Passes
    <3>2. CASE q = [pass EXCEPT !.todo = @ \ {f}, !.pc = IF pass.todo = {f} THEN "create" ELSE "check"]
      BY <1>0, <3>2 DEF Passes
    <3> QED BY <2>5, <3>1, <3>2
  <2>7. q.todo \subseteq Cur(pass).files /\ q.pc # "verify"
    BY <2>0, <2>6
  <2> QED BY <1>1, <2>6, <2>7, SameUnitGoing
<1>5. CASE Owner
  <2>1. pass.pc = "owner" /\ pass.todo # {}
    BY <1>5, <1>0 DEF Owner, At, Good, Busy
  <2>2. PICK f : f = First(pass.todo) /\ f \in pass.todo
    BY <2>1, FirstIn
  <2>3. files[f].post # 0 /\ files[f].post \in 0 .. Len(posts) /\ DOMAIN posts = 1 .. Len(posts) /\ Len(posts) \in Nat
    BY <1>0, <2>1, <2>2, PostElements DEF Going, Sound, Bindings, Types, Passes
  <2>4. posts[files[f].post].live
    <3>1. files[f].post \in DOMAIN posts
      BY <2>3
    <3> QED BY <3>1 DEF Lost
  <2> QED BY <1>5, <2>2, <2>4 DEF Owner, Conflict
<1>6. CASE Create
  <2>1. q = [pass EXCEPT !.pc = "await"]
    BY <1>0, <1>1, <1>6, CreateGood
  <2>2. /\ q.seen = pass.seen /\ q.said = pass.said /\ q.ended = pass.ended /\ q.stopped = pass.stopped
        /\ q.skip = pass.skip /\ q.at = pass.at /\ q.mode = pass.mode /\ q.fix = pass.fix /\ q.rest = pass.rest
        /\ q.pc = "await"
    BY <1>0, <2>1 DEF Passes
  <2> QED BY <1>1, <2>2, SameUnitGoing
<1> QED BY <1>2, <1>3, <1>4, <1>5, <1>6 DEF Looking

LEMMA RestGoing ==
    ASSUME NEW q, q.mode = "unit", ~q.skip, ~q.stopped, DOMAIN q.seen = {}, q.pc \notin Active
    PROVE  Going(q)
BY DEF Going, Active

LEMMA NoPassGoing == Going(NoPass)
<1>1. DOMAIN NoPass.seen = {}
  BY DEF NoPass
<1> QED BY <1>1, RestGoing DEF NoPass, Active

(* A pass reads a thread without a notice.                                  *)
LEMMA ThreadGoing ==
    ASSUME Once, Honest, ~Lost, ReadThread
    PROVE  Going(pass')
<1>0. Sound /\ posts \in Seq(Post)
  BY DEF Once, Sound, Types
<1>1. PICK q : q = pass'
  OBVIOUS
<1>2. PICK seen : seen = [i \in Live |-> posts[i]]
  OBVIOUS
<1>3. DOMAIN seen = DOMAIN posts /\ \A i \in DOMAIN posts : seen[i] = posts[i]
  BY <1>2 DEF Live, Lost
<1>4. ~NoticeExists(seen)
  BY <1>3 DEF NoticeExists, Honest, Receipted
<1>5. q = NoPass \/ (q.pc = "look" /\ q.mode = "unit" /\ q.seen = seen /\ ~q.stopped /\ ~q.skip)
  BY <1>0, <1>1, <1>2, <1>4, ThreadSound
<1>6. ASSUME q.pc = "look", q.mode = "unit", q.seen = seen, ~q.stopped, ~q.skip
      PROVE  Going(q)
  BY <1>3, <1>6 DEF Going, Honest, Receipted
<1> QED BY <1>1, <1>5, <1>6, NoPassGoing

(* The post that answers a request has its files.                           *)
LEMMA ServeQuiet ==
    ASSUME Once, Honest, Going(pass), ~Lost, Later, Grown, NEW held \in SUBSET Files, Serve(held)
    PROVE  Lost' \/ (Honest' /\ Going(pass)')
<1>0. /\ Sound /\ PartOnce /\ posts \in Seq(Post) /\ pass \in Passes /\ pass.pc = "await" /\ pass.pc \in Active
      /\ faults \in Nat
  BY ServeSound DEF Once, Sound, Types, Active
<1>1. /\ UNCHANGED <<run, late>> /\ pass' = [pass EXCEPT !.reply = pass'.reply]
      /\ \/ posts' = posts
         \/ Recognised(Asked, pass.known) = {} /\ Committed(Asked, held, FALSE)
  BY <1>0, ServeSound
<1>2. Meant(Asked) /\ Asked.files = Cur(pass).files /\ SameKey(Asked, Cur(pass))
  BY <1>0, CurMeant
<1>3. Going(pass)'
  <2>1. PICK q : q = pass'
    OBVIOUS
  <2>2. /\ q.seen = pass.seen /\ q.said = pass.said /\ q.ended = pass.ended /\ q.stopped = pass.stopped
        /\ q.skip = pass.skip /\ q.at = pass.at /\ q.mode = pass.mode /\ q.fix = pass.fix /\ q.rest = pass.rest
        /\ q.pc = "await"
    BY <1>0, <1>1, <2>1 DEF Passes
  <2>3. Going(q)
    BY <2>2, SameUnitGoing
  <2> QED BY <1>1, <2>1, <2>2, <2>3, SeenPosts, GoingPrime
<1>4. CASE posts' = posts
  <2>1. DOMAIN posts' = DOMAIN posts /\ late' = late
    BY <1>1, <1>4
  <2> QED BY <1>0, <1>1, <1>3, <2>1, HonestKept
<1>5. CASE Recognised(Asked, pass.known) = {} /\ Committed(Asked, held, FALSE)
  <2>1. ASSUME NEW i \in Live, SameKey(posts[i], Asked)
        PROVE  FALSE
    <3>1. i \in Nat /\ pass.known \in Nat
      BY <1>0, PostElements DEF Passes
    <3>2. ~(i > pass.known)
      BY <1>5, <2>1 DEF Recognised
    <3>3. i \in DOMAIN pass.seen /\ SameKey(pass.seen[i], posts[i])
      BY <1>0, <3>1, <3>2 DEF Once, Reading, Covers, Agrees
    <3>4. SameKey(pass.seen[i], Cur(pass))
      BY <1>2, <2>1, <3>3 DEF SameKey
    <3> QED BY <1>0, <3>3, <3>4 DEF Once, Unseen
  <2>2. Attachable(Asked.files) = Asked.files
    BY <1>0, <1>2, <2>1, AllAttachable
  <2>3. held \subseteq Asked.files /\ (held # Asked.files => faults' > faults)
    <3>1. Recognised(Asked, pass.known) = {} => held = Attachable(Asked.files) \/ faults' = faults + 1
      BY DEF Serve
    <3>2. held \subseteq Attachable(Asked.files)
      BY DEF Serve
    <3> QED BY <1>0, <1>5, <2>2, <3>1, <3>2
  <2>4. Honest' \/ Lost'
    BY <1>0, <1>1, <1>2, <1>5, <2>3, CommitHonest
  <2> QED BY <1>3, <2>4
<1> QED BY <1>1, <1>4, <1>5

(* What the pass has created is what it wanted to.                          *)
LEMMA ReceiveQuiet ==
    ASSUME Once, Honest, Going(pass), ~Lost, Later, Grown, Receive
    PROVE  Honest' /\ Going(pass)'
<1>0. Sound /\ pass \in Passes /\ pass.pc = "await" /\ pass.pc \in Active /\ faults \in Nat
  BY ReceiveSound DEF Once, Sound, Types, Active
<1>1. /\ pass.reply \in DOMAIN posts /\ SameKey(posts[pass.reply], Cur(pass)) /\ UNCHANGED <<run, mattermost>>
      /\ pass'.seen = [i \in DOMAIN pass.seen \cup {pass.reply} |-> IF i = pass.reply THEN posts[i] ELSE pass.seen[i]]
      /\ Cur(pass') = Cur(pass) /\ pass'.pc = "look" /\ pass'.at = pass.at
      /\ pass'.mode = IF pass.mode = "unit" THEN "created" ELSE pass.mode
      /\ pass'.skip = pass.skip /\ pass'.stopped = pass.stopped /\ pass'.rest = pass.rest
      /\ pass'.said = pass.said /\ pass'.ended = pass.ended
  BY <1>0, ReceiveSound
<1>2. Caused(Cur(pass), DOMAIN pass.seen)
  BY <1>0, CurMeant
<1>3. PICK q : q = pass'
  OBVIOUS
<1>4. Agenda(q) = Agenda(pass)
  BY <1>1, <1>3, AgendaSame
<1>5. DOMAIN q.seen = DOMAIN pass.seen \cup {pass.reply} /\ DOMAIN q.seen \in SUBSET DOMAIN posts
  BY <1>1, <1>3, SeenPosts
<1>6. ASSUME NEW i \in DOMAIN q.seen
      PROVE  q.seen[i].held = posts[i].held /\ Caused(posts[i], DOMAIN q.seen)
  <2>1. CASE i = pass.reply
    <3>1. q.seen[i] = posts[i]
      BY <1>1, <1>3, <2>1
    <3>2. Caused(posts[i], DOMAIN pass.seen)
      BY <1>1, <1>2, <2>1 DEF Caused, Lacks, SameKey
    <3> QED BY <1>5, <3>1, <3>2 DEF Caused
  <2>2. CASE i # pass.reply
    <3>1. i \in DOMAIN pass.seen /\ q.seen[i] = pass.seen[i]
      BY <1>1, <1>3, <2>2
    <3>2. pass.seen[i].held = posts[i].held /\ Caused(posts[i], DOMAIN pass.seen)
      BY <3>1 DEF Going
    <3> QED BY <1>5, <3>1, <3>2 DEF Caused
  <2> QED BY <2>1, <2>2
<1>7. ASSUME q.mode = "repair"
      PROVE  Carries(Agenda(q)[q.at]) /\ q.rest \subseteq export.files /\ Caused(Cur(q), DOMAIN q.seen)
  <2>1. pass.mode = "repair" /\ Cur(q) = Cur(pass) /\ q.at = pass.at /\ q.rest = pass.rest
    BY <1>1, <1>3, <1>7
  <2> QED BY <1>2, <1>4, <1>5, <2>1 DEF Going, Caused
<1>8. Going(q)
  BY <1>1, <1>3, <1>6, <1>7 DEF Going
<1>9. Going(pass)'
  BY <1>1, <1>3, <1>5, <1>8, GoingPrime
<1>10. DOMAIN posts' = DOMAIN posts /\ late' = late
  BY <1>1 DEF mattermost
<1> QED BY <1>0, <1>1, <1>9, <1>10, HonestKept

(* A late request makes the post it was for.                                *)
LEMMA LateQuiet ==
    ASSUME Once, Honest, Going(pass), ~Lost, Later, Grown, NEW u \in late, ServeLate(u)
    PROVE  Lost' \/ (Honest' /\ Going(pass)')
<1>0. Sound /\ PartOnce /\ posts \in Seq(Post) /\ faults \in Nat /\ Good(pass) /\ Meant(u)
  BY DEF Once, Sound, Types, Honest
<1>1. /\ UNCHANGED <<run, pass>> /\ late' \subseteq late
      /\ posts' = posts \/ (Recognised(u, 0) = {} /\ Committed(u, Attachable(u.files), TRUE))
  BY <1>0, ServeLateSound
<1>2. Going(pass)'
  <2>1. PICK q : q = pass
    OBVIOUS
  <2>2. q.pc = "owner" => First(q.todo) \in Files
    BY <1>0, <2>1, FirstIn DEF Good, Busy, Passes
  <2> QED BY <1>1, <2>1, <2>2, SeenPosts, GoingPrime
<1>3. CASE posts' = posts
  <2>1. DOMAIN posts' = DOMAIN posts
    BY <1>3
  <2> QED BY <1>0, <1>1, <1>2, <2>1, HonestKept
<1>4. CASE Recognised(u, 0) = {} /\ Committed(u, Attachable(u.files), TRUE)
  <2>1. \A i \in Live : ~SameKey(posts[i], u)
    BY <1>0, <1>4, PostElements DEF Recognised
  <2>2. Attachable(u.files) = u.files
    BY <1>0, <2>1, AllAttachable
  <2>3. Committed(u, u.files, TRUE)
    BY <1>4, <2>2
  <2>4. Honest' \/ Lost'
    BY <1>0, <1>1, <2>3, CommitHonest
  <2> QED BY <1>2, <2>4
<1> QED BY <1>1, <1>3, <1>4

(* A run that ends has no answer in the thread yet, and nothing to repair.   *)
LEMMA RunQuiet ==
    ASSUME Once, Honest, Going(pass), ~Lost, Unexported, Later, Grown, Orpheus
    PROVE  Honest' /\ Going(pass)' /\ Unexported'
<1>0. Sound /\ pass \in Passes /\ said \in 0 .. Len(Messages) /\ Good(pass)
  BY DEF Once, Sound, Types
<1>1. /\ Cur(pass)' = Cur(pass) /\ UNCHANGED <<mattermost, pass>> /\ ended = "no" /\ pass.ended = "no"
      /\ said' \in 0 .. Len(Messages)
      /\ \/ ended' = "no" /\ export' = export
         \/ ended' # "no"
  BY <1>0, RunSound
<1>2. posts' = posts /\ late' = late /\ files' = files /\ pass' = pass
  BY <1>1 DEF mattermost
<1>3. ASSUME NEW a, Early(a.mid)
      PROVE  ~Carries(a) /\ ~(a.part = 0 /\ IF Final(said') = 0 THEN a.mid = "files" ELSE a.mid = Messages[Final(said')].mid)
  <2>1. IF Final(said) = 0 THEN a.mid # "files" ELSE a.mid # Messages[Final(said)].mid
    BY <1>0, <1>3, EarlyMid
  <2>2. IF Final(said') = 0 THEN a.mid # "files" ELSE a.mid # Messages[Final(said')].mid
    BY <1>1, <1>3, EarlyMid
  <2> QED BY <2>1, <2>2 DEF Carries
<1>4. \A i \in DOMAIN posts : ~Lacks(i, posts[i]) /\ ~Carries(posts[i])
  BY <1>1, <1>3 DEF Honest, Receipted, Lacks
<1>5. \A a, D : Caused(a, D) /\ D \in SUBSET DOMAIN posts => a.fix = "none"
  BY <1>4 DEF Caused, Lacks
<1>6. Final(said)' = Final(said')
  BY DEF Final
<1>7. ASSUME NEW i \in DOMAIN posts
      PROVE  Receipted(posts[i])' /\ posts[i].fix = "none"
  <2>1. Receipted(posts[i]) /\ Early(posts[i].mid)
    BY <1>1 DEF Honest, Receipted
  <2>2. posts[i].fix = "none"
    BY <1>5, <2>1 DEF Receipted
  <2>3. ~Carries(posts[i]) /\ ~Carries(posts[i])'
    BY <1>2, <1>3, <1>6, <2>1 DEF Carries
  <2>4. Due(posts[i]) = {} /\ Due(posts[i])' = {}
    BY <1>2, <2>2, <2>3 DEF Due
  <2> QED BY <1>2, <2>1, <2>2, <2>4 DEF Receipted, Caused, Early
<1>8. ASSUME NEW u \in late
      PROVE  Meant(u)'
  <2>1. Meant(u) /\ Early(u.mid) /\ u' = u
    BY <1>1 DEF Honest, Meant
  <2>2. u.fix = "none"
    BY <1>5, <2>1 DEF Meant
  <2>3. ~Carries(u) /\ ~Carries(u)'
    BY <1>3, <1>6, <2>1 DEF Carries
  <2>4. Due(u) = {} /\ Due(u)' = {}
    BY <2>1, <2>2, <2>3 DEF Due
  <2> QED BY <2>1, <2>2, <2>4 DEF Meant, Caused, Early
<1>9. Honest'
  BY <1>2, <1>7, <1>8 DEF Honest
<1>10. pass.mode # "repair"
  <2>1. pass.mode = "repair" => Cur(pass).fix = "none"
    BY <1>5, SeenPosts DEF Going
  <2>2. pass.mode = "repair" => pass.pc \in Active
    BY <1>0 DEF Sound, Reached
  <2> QED BY <1>0, <2>1, <2>2, CurMeant DEF Good, Mending
<1>11. Going(pass)'
  <2>1. \A i \in DOMAIN pass.seen : pass.seen[i].held = posts[i].held /\ posts[i].fix = "none"
    BY <1>7, SeenPosts DEF Going
  <2>2. First(pass.todo)' = First(pass.todo)
    BY <1>2 DEF First
  <2> QED BY <1>1, <1>2, <1>10, <2>1, <2>2 DEF Going, Caused, SameKey
<1>12. Unexported'
  BY <1>1 DEF Unexported
<1> QED BY <1>9, <1>11, <1>12

LEMMA OthersQuiet ==
    ASSUME Once, Honest, Going(pass), Later, Grown, UNCHANGED <<run, late, pass>>, DOMAIN posts' = DOMAIN posts
    PROVE  Honest' /\ Going(pass)'
<1>0. Sound /\ faults \in Nat /\ Good(pass)
  BY DEF Once, Sound, Types
<1>1. Honest'
  BY <1>0, HonestKept
<1>2. PICK q : q = pass
  OBVIOUS
<1>3. q.pc = "owner" => First(q.todo) \in Files
  BY <1>0, <1>2, FirstIn DEF Good, Busy, Passes
<1>4. Going(pass)'
  BY <1>2, <1>3, SeenPosts, GoingPrime
<1> QED BY <1>1, <1>4

(* Only the pass moves, and goes on to q.                                   *)
LEMMA PassQuiet ==
    ASSUME Once, Once', Honest, Later, Grown, UNCHANGED <<run, posts>>, Going(pass'),
           \A u \in late' : u \in late \/ Meant(u)
    PROVE  Honest' /\ Going(pass)'
<1>0. Sound /\ faults \in Nat /\ DOMAIN posts' = DOMAIN posts /\ posts' = posts
  BY DEF Once, Sound, Types
<1>1. Honest'
  BY <1>0, HonestKept
<1>2. PICK q : q = pass'
  OBVIOUS
<1>3. DOMAIN q.seen \in SUBSET DOMAIN posts
  <2>1. \A i \in DOMAIN pass'.seen : i \in DOMAIN posts'
    BY DEF Once, Reading, Agrees
  <2> QED BY <1>0, <1>2, <2>1
<1>4. q.pc = "owner" => First(q.todo) \in Files
  <2>1. pass' \in Passes /\ Busy(pass')
    <3>1. Good(pass')
      BY GoodPrime DEF Once, Sound, run
    <3> QED BY <3>1 DEF Good
  <2>2. q \in Passes /\ Busy(q)
    BY <1>2, <2>1
  <2> QED BY <2>2, FirstIn DEF Busy, Passes
<1>5. Going(pass)'
  BY <1>2, <1>3, <1>4, GoingPrime
<1> QED BY <1>1, <1>5

LEMMA QuietNext == Quiet /\ [Next]_vars => Quiet'
<1> SUFFICES ASSUME Quiet, [Next]_vars PROVE Quiet'
  OBVIOUS
<1>0. Once /\ Once' /\ Sound /\ Later /\ Grown /\ Unexported
  BY OnceNext, SoundNext, AlwaysGrown DEF Quiet, Once
<1>1. CASE Lost
  <2>1. Lost'
    BY <1>0, <1>1, LostLater
  <2> QED BY <1>0, <2>1, UnexportedLater DEF Quiet
<1>2. CASE ~Lost
  <2>0. Honest /\ Going(pass)
    BY <1>2 DEF Quiet, Calm
  <2>a. ASSUME Lost' \/ (Honest' /\ Going(pass)')
        PROVE  Quiet'
    BY <1>0, <2>a, UnexportedLater DEF Quiet, Calm
  <2>b. ASSUME UNCHANGED <<run, posts>>, Going(pass'), \A u \in late' : u \in late \/ Meant(u)
        PROVE  Quiet'
    BY <1>0, <2>0, <2>a, <2>b, PassQuiet
  <2>1. CASE Start \/ ReadRun \/ ReadHistory
    <3>1. /\ UNCHANGED <<run, mattermost>> /\ pass'.pc \notin Active /\ pass'.seen = pass.seen /\ pass'.skip = pass.skip
          /\ pass'.stopped = pass.stopped /\ pass'.mode = pass.mode /\ pass.pc \notin Active
      BY <1>0, <2>1, ReadSound
    <3>2. pass.mode = "unit"
      BY <1>0, <3>1 DEF Sound, Reached
    <3>3. PICK q : q = pass'
      OBVIOUS
    <3>4. Going(q)
      BY <2>0, <3>1, <3>2, <3>3 DEF Going, Active
    <3>5. posts' = posts /\ late' = late
      BY <3>1 DEF mattermost
    <3> QED BY <2>b, <3>1, <3>3, <3>4, <3>5
  <2>2. CASE ReadThread
    <3>1. UNCHANGED <<run, posts, late>>
      BY <1>0, <2>2, ThreadSound DEF mattermost
    <3> QED BY <1>0, <1>2, <2>0, <2>2, <2>b, <3>1, ThreadGoing
  <2>3. CASE Looking
    <3>1. UNCHANGED <<run, posts, late>>
      BY <1>0, <2>3, LookingSound DEF mattermost
    <3>2. Going(pass')
      BY <1>0, <1>2, <2>0, <2>3, LookingGoing, NoPassGoing
    <3> QED BY <2>b, <3>1, <3>2
  <2>4. CASE \E held \in SUBSET Files : Serve(held)
    BY <1>0, <1>2, <2>0, <2>4, <2>a, ServeQuiet
  <2>5. CASE Receive
    BY <1>0, <1>2, <2>0, <2>5, <2>a, ReceiveQuiet
  <2>6. CASE Fail
    <3>1. /\ pass' = NoPass /\ UNCHANGED <<run, posts>>
          /\ late' = late \/ (pass.pc = "await" /\ late' = late \cup {Asked})
      BY <1>0, <2>6, FailSound
    <3>2. pass.pc = "await" => Meant(Asked)
      BY <1>0, <1>2, <2>0, CurMeant DEF Active
    <3>3. \A u \in late' : u \in late \/ Meant(u)
      BY <3>1, <3>2
    <3> QED BY <2>b, <3>1, <3>3, NoPassGoing
  <2>7. CASE \E u \in late : ServeLate(u)
    BY <1>0, <1>2, <2>0, <2>7, <2>a, LateQuiet
  <2>8. CASE Users
    <3>1. UNCHANGED <<run, late, pass>> /\ DOMAIN posts' = DOMAIN posts
      BY <1>0, <2>8, UsersSound
    <3> QED BY <1>0, <2>0, <2>a, <3>1, OthersQuiet
  <2>9. CASE Orpheus
    BY <1>0, <1>2, <2>0, <2>9, <2>a, RunQuiet
  <2>10. CASE Resume \/ UNCHANGED vars
    <3>1. UNCHANGED <<run, mattermost, pass>>
      BY <1>0, <2>10, RestSound
    <3>2. UNCHANGED <<run, late, pass>> /\ DOMAIN posts' = DOMAIN posts
      BY <3>1 DEF mattermost
    <3> QED BY <1>0, <2>0, <2>a, <3>2, OthersQuiet
  <2> QED BY <2>1, <2>2, <2>3, <2>4, <2>5, <2>6, <2>7, <2>8, <2>9, <2>10, Steps DEF Looking
<1> QED BY <1>1, <1>2

LEMMA QuietInit == Init => Quiet
<1> SUFFICES ASSUME Init PROVE Quiet
  OBVIOUS
<1>1. DOMAIN posts = {} /\ late = {} /\ pass = NoPass /\ export.files = {}
  BY DEF Init
<1> QED BY <1>1, OnceInit, NoPassGoing DEF Quiet, Calm, Honest, Unexported

(* The word that files are missing is never wrong: it is in the thread only if
   the list of files, a file or a post of the bot is lost, or the post that was
   to repair another has been made without its file too, and that takes two
   faults.  Retries, lost answers, late posts, edits and posts made without
   their files are no cause.                                                 *)
THEOREM AlarmsTrue == Spec => [](NoFalseAlarm \/ (faults > 1 /\ Unrepaired))
<1>1. Quiet => NoFalseAlarm \/ (faults > 1 /\ Unrepaired)
  BY DEF Quiet, Calm, Honest, Receipted, Lost, NoFalseAlarm
<1> QED BY <1>1, QuietInit, QuietNext, PTL DEF Spec

(* With at most one fault there is no false alarm at all.                    *)
THEOREM NoFalseAlarms == ASSUME MaxFaults <= 1 PROVE Spec => []NoFalseAlarm
<1> DEFINE Bounded == Once /\ faults \in Nat /\ faults <= MaxFaults
<1>1. Init => Bounded
  BY OnceInit, BoundAssumption DEF Init
<1>2. Bounded /\ [Next]_vars => Bounded'
  BY OnceNext, AlwaysGrown DEF Once, Grown, Counted
<1>3. Bounded /\ (NoFalseAlarm \/ (faults > 1 /\ Unrepaired)) => NoFalseAlarm
  BY BoundAssumption
<1> HIDE DEF Bounded
<1> QED BY <1>1, <1>2, <1>3, AlarmsTrue, PTL DEF Spec
===============================================================================
