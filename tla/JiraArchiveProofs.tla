--------------------------- MODULE JiraArchiveProofs ----------------------------
(***************************************************************************)
(* Proofs about the archives of JiraStories, for any workers, issues and   *)
(* files: the splitting of _split_files puts every file into one part that *)
(* Jira takes, no file is lost on the way to its issue but where the code  *)
(* gives it up, and none ends at an issue that did not ask for it but      *)
(* under a name that two archives share.                                   *)
(* The splitting is a recursive function.  What it computes is proved with *)
(* the least number at which it would go wrong.                            *)
(***************************************************************************)
EXTENDS JiraStories, SequenceTheorems, FiniteSetTheorems, TLAPS

(***************************************************************************)
(* Induction over the natural numbers, with a set in place of a predicate: *)
(* initial segments of Nat are finite, and strict inclusion of finite sets *)
(* is well founded                                                         *)
(***************************************************************************)

LEMMA LeastNumber ==
  ASSUME NEW T \in SUBSET Nat, T # {}
  PROVE  \E m \in T : \A k \in T : k >= m
<1>. DEFINE U == {0 .. k : k \in T}
<1>1. U \subseteq FiniteSubsetsOf(Nat)
  <2>1. \A k \in T : 0 .. k \subseteq Nat /\ IsFiniteSet(0 .. k)
    BY FS_Interval
  <2>. QED  BY <2>1 DEF FiniteSubsetsOf
<1>2. IsWellFoundedOn(StrictSubsetOrdering(Nat), FiniteSubsetsOf(Nat))
  BY FS_StrictSubsetOrderingWellFounded
<1>3. U # {}
  OBVIOUS
<1>4. PICK x \in U : \A y \in U : <<y, x>> \notin StrictSubsetOrdering(Nat)
  <2>. HIDE DEF U
  <2>. QED  BY <1>1, <1>2, <1>3, WFMin
<1>5. PICK m \in T : x = 0 .. m
  OBVIOUS
<1>6. ASSUME NEW k \in T, k < m
      PROVE  FALSE
  <2>1. 0 .. k \subseteq 0 .. m /\ m \notin 0 .. k /\ m \in 0 .. m
    BY <1>6
  <2>2. <<0 .. k, 0 .. m>> \in StrictSubsetOrdering(Nat)
    BY <2>1 DEF StrictSubsetOrdering
  <2>. QED  BY <1>4, <1>5, <2>2
<1>. QED  BY <1>6

LEMMA Induction ==
  ASSUME NEW S, 0 \in S, \A n \in Nat : n \in S => n + 1 \in S
  PROVE  Nat \subseteq S
<1>. SUFFICES ASSUME Nat \ S # {}
              PROVE  FALSE
  OBVIOUS
<1>1. PICK m \in Nat \ S : \A k \in Nat \ S : k >= m
  <2>. Nat \ S \in SUBSET Nat
    OBVIOUS
  <2>. QED  BY LeastNumber
<1>2. m # 0 /\ m - 1 \in Nat /\ m - 1 \notin Nat \ S
  BY <1>1
<1>. QED  BY <1>1, <1>2

(***************************************************************************)
(* Sizes                                                                   *)
(***************************************************************************)

LEMMA Weights_ == Len(Weights) \in Nat /\ \A n \in Files : Weights[n] \in Nat
BY ConstantsAssumption DEF Files

\* The recursion of Weighing is well defined.
LEMMA WeighingDef ==
  ASSUME NEW fs
  PROVE  Weighing(fs) = [n \in 0 .. Len(Weights) |->
           IF n = 0 THEN 0 ELSE Weighing(fs)[n - 1] + IF n \in fs THEN Weights[n] ELSE 0]
<1>. DEFINE Eq(g, k) == g = [n \in 0 .. k |->
              IF n = 0 THEN 0 ELSE g[n - 1] + IF n \in fs THEN Weights[n] ELSE 0]
            S == {k \in Nat : \E g : Eq(g, k)}
<1>1. 0 \in S
  <2>1. Eq([n \in 0 .. 0 |-> 0], 0)
    OBVIOUS
  <2>. QED  BY <2>1
<1>2. ASSUME NEW k \in Nat, k \in S
      PROVE  k + 1 \in S
  <2>1. PICK g : Eq(g, k)
    BY <1>2
  <2>. DEFINE h == [n \in 0 .. k + 1 |->
         IF n = k + 1 THEN g[k] + IF n \in fs THEN Weights[n] ELSE 0 ELSE g[n]]
  <2>2. Eq(h, k + 1)
    BY <2>1
  <2>3. k + 1 \in Nat
    OBVIOUS
  <2>. HIDE DEF h, Eq
  <2>. QED  BY <2>2, <2>3
<1>3. Nat \subseteq S
  <2>. HIDE DEF S
  <2>. QED  BY <1>1, <1>2, Induction
<1>4. \E g : Eq(g, Len(Weights))
  BY <1>3, Weights_
<1>. QED  BY <1>4 DEF Weighing

LEMMA WeighingType ==
  ASSUME NEW fs, NEW n \in 0 .. Len(Weights)
  PROVE  Weighing(fs)[n] \in Nat
<1>. DEFINE S == {k \in Nat : k \in 0 .. Len(Weights) => Weighing(fs)[k] \in Nat}
<1>1. 0 \in S
  BY WeighingDef, Weights_
<1>2. ASSUME NEW k \in Nat, k \in S
      PROVE  k + 1 \in S
  <2>. SUFFICES ASSUME k + 1 \in 0 .. Len(Weights)
                PROVE  Weighing(fs)[k + 1] \in Nat
    OBVIOUS
  <2>1. Weighing(fs)[k + 1] = Weighing(fs)[k] + IF k + 1 \in fs THEN Weights[k + 1] ELSE 0
    BY WeighingDef, Weights_
  <2>2. k + 1 \in Files /\ Weighing(fs)[k] \in Nat
    BY <1>2, Weights_ DEF Files
  <2>. QED  BY <2>1, <2>2, Weights_
<1>. HIDE DEF S
<1>3. Nat \subseteq S
  BY <1>1, <1>2, Induction
<1>. QED  BY <1>3, Weights_ DEF S

LEMMA WeightType == ASSUME NEW fs PROVE Weight(fs) \in Nat
BY WeighingType, Weights_ DEF Weight

LEMMA WeightEmpty == Weight({}) = 0
<1>. DEFINE S == {k \in Nat : k \in 0 .. Len(Weights) => Weighing({})[k] = 0}
<1>1. 0 \in S
  BY WeighingDef, Weights_
<1>2. ASSUME NEW k \in Nat, k \in S
      PROVE  k + 1 \in S
  <2>. SUFFICES ASSUME k + 1 \in 0 .. Len(Weights)
                PROVE  Weighing({})[k + 1] = 0
    OBVIOUS
  <2>1. Weighing({})[k + 1] = Weighing({})[k] + 0
    BY WeighingDef, Weights_
  <2>. QED  BY <1>2, <2>1, Weights_
<1>. HIDE DEF S
<1>3. Nat \subseteq S
  BY <1>1, <1>2, Induction
<1>. QED  BY <1>3, Weights_ DEF S, Weight

\* One more file adds its size.
LEMMA WeightAdd ==
  ASSUME NEW fs, NEW f \in Files, f \notin fs
  PROVE  Weight(fs \cup {f}) = Weight(fs) + Weights[f]
<1>. DEFINE gs == fs \cup {f}
            S == {k \in Nat : k \in 0 .. Len(Weights) =>
                    Weighing(gs)[k] = Weighing(fs)[k] + IF f <= k THEN Weights[f] ELSE 0}
<1>1. 0 \in S
  BY WeighingDef, Weights_ DEF Files
<1>2. ASSUME NEW k \in Nat, k \in S
      PROVE  k + 1 \in S
  <2>. SUFFICES ASSUME k + 1 \in 0 .. Len(Weights)
                PROVE  Weighing(gs)[k + 1] = Weighing(fs)[k + 1] + IF f <= k + 1 THEN Weights[f] ELSE 0
    OBVIOUS
  <2>1. \A hs : Weighing(hs)[k + 1] = Weighing(hs)[k] + IF k + 1 \in hs THEN Weights[k + 1] ELSE 0
    BY WeighingDef, Weights_
  <2>2. k + 1 \in Files /\ Weighing(fs)[k] \in Nat /\ Weights[k + 1] \in Nat /\ Weights[f] \in Nat
    BY WeighingType, Weights_ DEF Files
  <2>3. Weighing(gs)[k] = Weighing(fs)[k] + IF f <= k THEN Weights[f] ELSE 0
    BY <1>2, Weights_
  <2>4. f \in Nat
    BY Weights_ DEF Files
  <2>. HIDE DEF S
  <2>5. CASE f = k + 1
    BY <2>1, <2>2, <2>3, <2>4, <2>5
  <2>6. CASE f # k + 1
    <3>1. k + 1 \in gs <=> k + 1 \in fs
      BY <2>6
    <3>2. f <= k + 1 <=> f <= k
      BY <2>4, <2>6
    <3>. QED  BY <2>1, <2>2, <2>3, <3>1, <3>2
  <2>. QED  BY <2>5, <2>6
<1>. HIDE DEF S
<1>3. Nat \subseteq S
  BY <1>1, <1>2, Induction
<1>4. Len(Weights) \in S
  BY <1>3, Weights_
<1>5. f <= Len(Weights)
  BY Weights_ DEF Files
<1>. QED  BY <1>4, <1>5, Weights_ DEF S, Weight

(***************************************************************************)
(* Batches                                                                 *)
(***************************************************************************)

\* The files of the batches of a queue.
Content(q) == UNION {q[i].files : i \in DOMAIN q}

\* No file is in two of them.
Apart(q) == \A i, j \in DOMAIN q : i # j => q[i].files \cap q[j].files = {}

\* A part is sent as one archive: it is below the limit, or one file that hits it.
FitsPart(fs) ==
  /\ fs # {}
  /\ Weight(fs) < Limit \/ \E f \in Files : fs = {f} /\ Weights[f] = Limit
IsPart(b)  == b.kind = "part" /\ FitsPart(b.files)
\* A large file is above the limit itself.
IsLarge(b) == b.kind = "large" /\ \E f \in Files : b.files = {f} /\ Weights[f] > Limit

LEMMA AppendBatch ==
  ASSUME NEW q \in Seq(Batches), NEW b \in Batches
  PROVE  /\ Append(q, b) \in Seq(Batches)
         /\ Content(Append(q, b)) = Content(q) \cup b.files
         /\ Apart(q) /\ b.files \cap Content(q) = {} => Apart(Append(q, b))
         /\ \A i \in DOMAIN Append(q, b) : Append(q, b)[i] = b \/ (i \in DOMAIN q /\ Append(q, b)[i] = q[i])
<1>. DEFINE r == Append(q, b)
<1>1. /\ r \in Seq(Batches) /\ Len(q) \in Nat
      /\ DOMAIN q = 1 .. Len(q) /\ DOMAIN r = 1 .. Len(q) + 1
      /\ \A i \in 1 .. Len(q) : r[i] = q[i]
      /\ r[Len(q) + 1] = b
  OBVIOUS
<1>. HIDE DEF r
<1>2. \A i \in DOMAIN r : i = Len(q) + 1 \/ i \in DOMAIN q
  BY <1>1
<1>3. \A i \in DOMAIN q : i \in DOMAIN r /\ i # Len(q) + 1 /\ r[i] = q[i]
  BY <1>1
<1>4. Len(q) + 1 \in DOMAIN r
  BY <1>1
<1>5. Content(r) = Content(q) \cup b.files
  BY <1>1, <1>2, <1>3, <1>4, Zenon DEF Content
<1>6. \A i \in DOMAIN q : q[i].files \subseteq Content(q)
  BY DEF Content
<1>7. ASSUME Apart(q), b.files \cap Content(q) = {}
      PROVE  Apart(r)
  <2>. SUFFICES ASSUME NEW i \in DOMAIN r, NEW j \in DOMAIN r, i # j
                PROVE  r[i].files \cap r[j].files = {}
    BY DEF Apart
  <2>1. CASE i \in DOMAIN q /\ j \in DOMAIN q
    BY <1>3, <1>7, <2>1 DEF Apart
  <2>2. CASE i = Len(q) + 1 /\ j \in DOMAIN q
    BY <1>1, <1>3, <1>6, <1>7, <2>2
  <2>3. CASE i \in DOMAIN q /\ j = Len(q) + 1
    BY <1>1, <1>3, <1>6, <1>7, <2>3
  <2>. QED  BY <1>2, <2>1, <2>2, <2>3
<1>8. \A i \in DOMAIN r : r[i] = b \/ (i \in DOMAIN q /\ r[i] = q[i])
  BY <1>1, <1>2, <1>3
<1>. QED  BY <1>1, <1>5, <1>7, <1>8 DEF r

LEMMA ConcatBatches ==
  ASSUME NEW q \in Seq(Batches), NEW r \in Seq(Batches)
  PROVE  /\ q \o r \in Seq(Batches)
         /\ Content(q \o r) = Content(q) \cup Content(r)
         /\ Apart(q) /\ Apart(r) /\ Content(q) \cap Content(r) = {} => Apart(q \o r)
         /\ \A i \in DOMAIN (q \o r) :
              \/ i \in DOMAIN q /\ (q \o r)[i] = q[i]
              \/ i - Len(q) \in DOMAIN r /\ (q \o r)[i] = r[i - Len(q)]
<1>. DEFINE s == q \o r
            n == Len(q)
<1>1. /\ s \in Seq(Batches) /\ n \in Nat /\ Len(r) \in Nat
      /\ DOMAIN q = 1 .. n /\ DOMAIN r = 1 .. Len(r) /\ DOMAIN s = 1 .. n + Len(r)
      /\ \A i \in 1 .. n : s[i] = q[i]
      /\ \A i \in 1 .. Len(r) : s[n + i] = r[i]
  OBVIOUS
<1>. HIDE DEF s, n
<1>2. \A i \in DOMAIN s : i \in DOMAIN q \/ (i - n \in DOMAIN r /\ i = n + (i - n))
  BY <1>1
<1>3. \A i \in DOMAIN q : i \in DOMAIN s /\ s[i] = q[i]
  BY <1>1
<1>4. \A i \in DOMAIN r : n + i \in DOMAIN s /\ s[n + i] = r[i]
  BY <1>1
<1>5. \A i \in DOMAIN s : i \notin DOMAIN q => i - n \in DOMAIN r /\ s[i] = r[i - n]
  BY <1>2, <1>4
<1>6. Content(s) = Content(q) \cup Content(r)
  <2>1. Content(s) \subseteq Content(q) \cup Content(r)
    BY <1>3, <1>5, Zenon DEF Content
  <2>2. Content(q) \subseteq Content(s)
    BY <1>3, Zenon DEF Content
  <2>3. Content(r) \subseteq Content(s)
    BY <1>4, Zenon DEF Content
  <2>. QED  BY <2>1, <2>2, <2>3
<1>7. /\ \A i \in DOMAIN q : q[i].files \subseteq Content(q)
      /\ \A i \in DOMAIN r : r[i].files \subseteq Content(r)
  BY DEF Content
<1>8. ASSUME Apart(q), Apart(r), Content(q) \cap Content(r) = {}
      PROVE  Apart(s)
  <2>. SUFFICES ASSUME NEW i \in DOMAIN s, NEW j \in DOMAIN s, i # j
                PROVE  s[i].files \cap s[j].files = {}
    BY DEF Apart
  <2>1. CASE i \in DOMAIN q /\ j \in DOMAIN q
    BY <1>3, <1>8, <2>1 DEF Apart
  <2>2. CASE i \notin DOMAIN q /\ j \in DOMAIN q
    BY <1>3, <1>5, <1>7, <1>8, <2>2
  <2>3. CASE i \in DOMAIN q /\ j \notin DOMAIN q
    BY <1>3, <1>5, <1>7, <1>8, <2>3
  <2>4. CASE i \notin DOMAIN q /\ j \notin DOMAIN q
    <3>1. i - n # j - n
      BY <1>1
    <3>. QED  BY <1>5, <1>8, <2>4, <3>1 DEF Apart
  <2>. QED  BY <2>1, <2>2, <2>3, <2>4
<1>9. \A i \in DOMAIN s : \/ i \in DOMAIN q /\ s[i] = q[i]
                          \/ i - n \in DOMAIN r /\ s[i] = r[i - n]
  BY <1>3, <1>5
<1>. QED  BY <1>1, <1>6, <1>8, <1>9 DEF s, n

LEMMA HeadTail ==
  ASSUME NEW q \in Seq(Batches), q # <<>>
  PROVE  /\ Head(q) \in Batches /\ Tail(q) \in Seq(Batches)
         /\ Content(q) = Head(q).files \cup Content(Tail(q))
         /\ Head(q) = q[1] /\ 1 \in DOMAIN q
         /\ \A i \in DOMAIN Tail(q) : i + 1 \in DOMAIN q /\ Tail(q)[i] = q[i + 1]
<1>. DEFINE r == Tail(q)
            b == Head(q)
<1>1. /\ r \in Seq(Batches) /\ b \in Batches /\ b = q[1] /\ Len(q) \in Nat /\ Len(q) > 0
      /\ DOMAIN q = 1 .. Len(q) /\ DOMAIN r = 1 .. Len(q) - 1
      /\ \A i \in 1 .. Len(q) - 1 : r[i] = q[i + 1]
  OBVIOUS
<1>. HIDE DEF r, b
<1>2. 1 \in DOMAIN q /\ \A i \in DOMAIN r : i + 1 \in DOMAIN q /\ r[i] = q[i + 1]
  BY <1>1
<1>3. \A i \in DOMAIN q : i # 1 => i - 1 \in DOMAIN r /\ q[i] = r[i - 1]
  <2>. SUFFICES ASSUME NEW i \in DOMAIN q, i # 1
                PROVE  i - 1 \in DOMAIN r /\ q[i] = r[i - 1]
    OBVIOUS
  <2>1. i - 1 \in 1 .. Len(q) - 1 /\ (i - 1) + 1 = i
    BY <1>1
  <2>. QED  BY <1>1, <2>1
<1>4. Content(q) = b.files \cup Content(r)
  <2>1. Content(q) \subseteq b.files \cup Content(r)
    BY <1>1, <1>3, Zenon DEF Content
  <2>2. b.files \subseteq Content(q)
    BY <1>1, <1>2, Zenon DEF Content
  <2>3. Content(r) \subseteq Content(q)
    BY <1>2, Zenon DEF Content
  <2>. QED  BY <2>1, <2>2, <2>3
<1>. QED  BY <1>1, <1>2, <1>4 DEF r, b

LEMMA NoContent == Content(<<>>) = {} /\ <<>> \in Seq(Batches) /\ Apart(<<>>) /\ DOMAIN <<>> = {}
BY DEF Content, Apart

(***************************************************************************)
(* The splitting                                                           *)
(***************************************************************************)

\* The recursion of Splitting is well defined.
LEMMA SplittingDef ==
  ASSUME NEW fs
  PROVE  Splitting(fs) = [n \in 0 .. Len(Weights) |->
           IF n = 0 THEN [parts |-> <<>>, large |-> <<>>, open |-> {}, size |-> 0]
           ELSE IF n \in fs THEN NextFile(Splitting(fs)[n - 1], n) ELSE Splitting(fs)[n - 1]]
<1>. DEFINE Start == [parts |-> <<>>, large |-> <<>>, open |-> {}, size |-> 0]
            Step(p, n) == IF n \in fs THEN NextFile(p, n) ELSE p
            Eq(g, k) == g = [n \in 0 .. k |-> IF n = 0 THEN Start ELSE Step(g[n - 1], n)]
            S == {k \in Nat : \E g : Eq(g, k)}
<1>. HIDE DEF Start, Step
<1>1. 0 \in S
  <2>1. Eq([n \in 0 .. 0 |-> Start], 0)
    OBVIOUS
  <2>. HIDE DEF Eq
  <2>. QED  BY <2>1
<1>2. ASSUME NEW k \in Nat, k \in S
      PROVE  k + 1 \in S
  <2>1. PICK g : Eq(g, k)
    BY <1>2
  <2>. DEFINE h == [n \in 0 .. k + 1 |-> IF n = k + 1 THEN Step(g[k], k + 1) ELSE g[n]]
  <2>2. Eq(h, k + 1)
    BY <2>1
  <2>3. k + 1 \in Nat
    OBVIOUS
  <2>. HIDE DEF h, Eq
  <2>. QED  BY <2>2, <2>3
<1>3. Nat \subseteq S
  <2>. HIDE DEF S
  <2>. QED  BY <1>1, <1>2, Induction
<1>4. \E g : Eq(g, Len(Weights))
  BY <1>3, Weights_
<1>. QED  BY <1>4 DEF Splitting, Start, Step

Splits == [parts : Seq(Batches), large : Seq(Batches), open : SUBSET Files, size : Nat]

\* What the loop has when it has seen the files fs.
Split_(p, fs) ==
  /\ p \in Splits
  /\ \A i \in DOMAIN p.parts : IsPart(p.parts[i])
  /\ \A i \in DOMAIN p.large : IsLarge(p.large[i])
  /\ p.size = Weight(p.open)
  /\ p.open # {} => FitsPart(p.open)
  /\ Apart(p.parts) /\ Apart(p.large)
  /\ Content(p.parts) \cap Content(p.large) = {}
  /\ p.open \cap (Content(p.parts) \cup Content(p.large)) = {}
  /\ fs = Content(p.parts) \cup Content(p.large) \cup p.open

LEMMA ClosedBatches ==
  ASSUME NEW p, NEW fs, Split_(p, fs)
  PROVE  /\ Closed(p) \in Seq(Batches) /\ Apart(Closed(p))
         /\ Content(Closed(p)) = Content(p.parts) \cup p.open
         /\ \A i \in DOMAIN Closed(p) : IsPart(Closed(p)[i])
<1>1. CASE p.open = {}
  BY <1>1 DEF Split_, Splits, Closed
<1>2. CASE p.open # {}
  <2>. DEFINE b == [kind |-> "part", files |-> p.open]
  <2>1. b \in Batches /\ IsPart(b) /\ b.files = p.open
    BY <1>2 DEF Split_, Splits, Batches, Kinds, IsPart
  <2>2. Closed(p) = Append(p.parts, b)
    BY <1>2 DEF Closed
  <2>. HIDE DEF b
  <2>3. p.parts \in Seq(Batches) /\ Apart(p.parts) /\ p.open \cap Content(p.parts) = {}
    BY DEF Split_, Splits
  <2>4. \A i \in DOMAIN p.parts : IsPart(p.parts[i])
    BY DEF Split_
  <2>. QED  BY <2>1, <2>2, <2>3, <2>4, AppendBatch
<1>. QED  BY <1>1, <1>2

LEMMA WeightOne == ASSUME NEW f \in Files PROVE Weight({f}) = Weights[f]
<1>1. {} \cup {f} = {f} /\ f \notin {}
  OBVIOUS
<1>2. Weight({} \cup {f}) = Weight({}) + Weights[f]
  BY <1>1, WeightAdd
<1>. QED  BY <1>1, <1>2, WeightEmpty, Weights_

\* Where the next file goes.
LEMMA NextFileCases ==
  ASSUME NEW p \in Splits, NEW n \in Files
  PROVE  /\ p.size + Weights[n] < Limit =>
              NextFile(p, n) = [parts |-> p.parts, large |-> p.large,
                                open |-> p.open \cup {n}, size |-> p.size + Weights[n]]
         /\ p.size + Weights[n] >= Limit /\ Weights[n] <= Limit =>
              NextFile(p, n) = [parts |-> Closed(p), large |-> p.large, open |-> {n}, size |-> Weights[n]]
         /\ Weights[n] > Limit =>
              NextFile(p, n) = [parts |-> Closed(p), large |-> Append(p.large, [kind |-> "large", files |-> {n}]),
                                open |-> {}, size |-> 0]
<1>1. p.size \in Nat /\ Weights[n] \in Nat /\ Limit \in Nat
  BY Weights_, ConstantsAssumption DEF Splits
<1>2. p = [parts |-> p.parts, large |-> p.large, open |-> p.open, size |-> p.size]
  BY DEF Splits
<1>3. ASSUME p.size + Weights[n] < Limit
      PROVE  NextFile(p, n) = [p EXCEPT !.open = @ \cup {n}, !.size = @ + Weights[n]]
  <2>1. ~(p.size + Weights[n] >= Limit)
    BY <1>1, <1>3
  <2>. QED  BY <1>3, <2>1, Zenon DEF NextFile
<1>4. ASSUME p.size + Weights[n] >= Limit, Weights[n] <= Limit
      PROVE  NextFile(p, n) = [p EXCEPT !.parts = Closed(p), !.open = {n}, !.size = Weights[n]]
  <2>1. ~(p.size + Weights[n] < Limit)
    BY <1>1, <1>4
  <2>. QED  BY <1>4, <2>1, Zenon DEF NextFile
<1>5. ASSUME Weights[n] > Limit
      PROVE  NextFile(p, n) = [p EXCEPT !.parts = Closed(p), !.open = {}, !.size = 0,
                                 !.large = Append(@, [kind |-> "large", files |-> {n}])]
  <2>1. ~(p.size + Weights[n] < Limit) /\ ~(Weights[n] <= Limit)
    BY <1>1, <1>5
  <2>. QED  BY <1>5, <2>1, Zenon DEF NextFile
<1>. QED  BY <1>2, <1>3, <1>4, <1>5

\* One more file goes into the open part, into a new one, or among the large files.
LEMMA NextFileSplits ==
  ASSUME NEW p, NEW fs, Split_(p, fs), NEW n \in Files, n \notin fs
  PROVE  Split_(NextFile(p, n), fs \cup {n})
<1>. DEFINE q == NextFile(p, n)
<1>1. /\ p \in Splits
      /\ p.parts \in Seq(Batches) /\ p.large \in Seq(Batches) /\ p.open \in SUBSET Files /\ p.size \in Nat
      /\ Weights[n] \in Nat /\ Limit \in Nat
      /\ n \notin p.open /\ n \notin Content(p.parts) /\ n \notin Content(p.large)
  BY Weights_, ConstantsAssumption DEF Split_, Splits
<1>2. CASE p.size + Weights[n] < Limit
  <2>1. q = [parts |-> p.parts, large |-> p.large, open |-> p.open \cup {n}, size |-> p.size + Weights[n]]
    BY <1>1, <1>2, NextFileCases
  <2>2. /\ q \in Splits
        /\ q.parts = p.parts /\ q.large = p.large /\ q.open = p.open \cup {n} /\ q.size = p.size + Weights[n]
    BY <1>1, <2>1 DEF Splits
  <2>. HIDE DEF q
  <2>3. q.size = Weight(q.open) /\ FitsPart(q.open)
    <3>1. Weight(p.open \cup {n}) = Weight(p.open) + Weights[n] /\ p.size = Weight(p.open)
      BY <1>1, WeightAdd DEF Split_
    <3>. QED  BY <1>1, <1>2, <2>2, <3>1 DEF FitsPart
  <2>. QED  BY <1>1, <2>2, <2>3 DEF Split_, q
<1>3. CASE p.size + Weights[n] >= Limit /\ Weights[n] <= Limit
  <2>1. q = [parts |-> Closed(p), large |-> p.large, open |-> {n}, size |-> Weights[n]]
    BY <1>1, <1>3, NextFileCases
  <2>2. /\ q \in Splits
        /\ q.parts = Closed(p) /\ q.large = p.large /\ q.open = {n} /\ q.size = Weights[n]
    BY <1>1, <2>1, ClosedBatches DEF Splits
  <2>. HIDE DEF q
  <2>3. q.size = Weight(q.open) /\ FitsPart(q.open)
    <3>1. Weight({n}) = Weights[n]
      BY WeightOne
    <3>2. CASE Weights[n] = Limit
      BY <2>2, <3>1, <3>2 DEF FitsPart
    <3>3. CASE Weights[n] < Limit
      BY <2>2, <3>1, <3>3 DEF FitsPart
    <3>. QED  BY <1>1, <1>3, <3>2, <3>3
  <2>4. /\ Apart(q.parts) /\ Content(q.parts) = Content(p.parts) \cup p.open
        /\ \A i \in DOMAIN q.parts : IsPart(q.parts[i])
    BY <2>2, ClosedBatches
  <2>5. /\ Apart(p.large) /\ Content(p.parts) \cap Content(p.large) = {}
        /\ p.open \cap (Content(p.parts) \cup Content(p.large)) = {}
        /\ fs = Content(p.parts) \cup Content(p.large) \cup p.open
        /\ \A i \in DOMAIN p.large : IsLarge(p.large[i])
    BY DEF Split_
  <2>. QED  BY <1>1, <2>2, <2>3, <2>4, <2>5 DEF Split_, q
<1>4. CASE p.size + Weights[n] >= Limit /\ Weights[n] > Limit
  <2>. DEFINE b == [kind |-> "large", files |-> {n}]
  <2>1. q = [parts |-> Closed(p), large |-> Append(p.large, b), open |-> {}, size |-> 0]
    BY <1>1, <1>4, NextFileCases
  <2>2. b \in Batches /\ IsLarge(b) /\ b.files = {n}
    BY <1>4 DEF Batches, Kinds, IsLarge
  <2>. HIDE DEF b
  <2>3. /\ q \in Splits
        /\ q.parts = Closed(p) /\ q.large = Append(p.large, b) /\ q.open = {} /\ q.size = 0
    BY <1>1, <2>1, <2>2, ClosedBatches, AppendBatch DEF Splits
  <2>. HIDE DEF q
  <2>4. /\ Apart(q.parts) /\ Content(q.parts) = Content(p.parts) \cup p.open
        /\ \A i \in DOMAIN q.parts : IsPart(q.parts[i])
    BY <2>3, ClosedBatches
  <2>5. /\ Apart(p.large) /\ Content(p.parts) \cap Content(p.large) = {}
        /\ p.open \cap (Content(p.parts) \cup Content(p.large)) = {}
        /\ fs = Content(p.parts) \cup Content(p.large) \cup p.open
        /\ \A i \in DOMAIN p.large : IsLarge(p.large[i])
    BY DEF Split_
  <2>6. /\ Apart(q.large) /\ Content(q.large) = Content(p.large) \cup {n}
        /\ \A i \in DOMAIN q.large : IsLarge(q.large[i])
    <3>1. b.files \cap Content(p.large) = {} /\ q.large = Append(p.large, b)
      BY <1>1, <2>2, <2>3
    <3>. QED  BY <1>1, <2>2, <2>5, <3>1, AppendBatch
  <2>. QED  BY <1>1, <2>3, <2>4, <2>5, <2>6, WeightEmpty DEF Split_, q
<1>. QED  BY <1>1, <1>2, <1>3, <1>4

LEMMA SplittingSplits ==
  ASSUME NEW fs \in SUBSET Files
  PROVE  Split_(Splitting(fs)[Len(Weights)], fs)
<1>. DEFINE S == {k \in Nat : k \in 0 .. Len(Weights) => Split_(Splitting(fs)[k], fs \cap 1 .. k)}
<1>1. 0 \in S
  <2>1. Splitting(fs)[0] = [parts |-> <<>>, large |-> <<>>, open |-> {}, size |-> 0]
    <3>1. 0 \in 0 .. Len(Weights)
      BY Weights_
    <3>. QED  BY <3>1, SplittingDef, Zenon
  <2>2. fs \cap 1 .. 0 = {}
    OBVIOUS
  <2>. DEFINE p == Splitting(fs)[0]
  <2>3. p \in Splits /\ p.parts = <<>> /\ p.large = <<>> /\ p.open = {} /\ p.size = 0
    BY <2>1, NoContent DEF Splits
  <2>. HIDE DEF p
  <2>4. Split_(p, {})
    BY <2>3, NoContent, WeightEmpty DEF Split_
  <2>. QED  BY <2>2, <2>4 DEF p
<1>2. ASSUME NEW k \in Nat, k \in S
      PROVE  k + 1 \in S
  <2>. SUFFICES ASSUME k + 1 \in 0 .. Len(Weights)
                PROVE  Split_(Splitting(fs)[k + 1], fs \cap 1 .. k + 1)
    OBVIOUS
  <2>1. Split_(Splitting(fs)[k], fs \cap 1 .. k) /\ k + 1 \in Files /\ k + 1 \notin fs \cap 1 .. k
    BY <1>2, Weights_ DEF Files
  <2>2. Splitting(fs)[k + 1] =
          IF k + 1 \in fs THEN NextFile(Splitting(fs)[k], k + 1) ELSE Splitting(fs)[k]
    BY SplittingDef, Weights_
  <2>. HIDE DEF S
  <2>3. CASE k + 1 \in fs
    <3>1. fs \cap 1 .. k + 1 = (fs \cap 1 .. k) \cup {k + 1}
      BY <2>3
    <3>. QED  BY <2>1, <2>2, <2>3, <3>1, NextFileSplits
  <2>4. CASE k + 1 \notin fs
    <3>1. fs \cap 1 .. k + 1 = fs \cap 1 .. k
      BY <2>4
    <3>. QED  BY <2>1, <2>2, <2>4, <3>1
  <2>. QED  BY <2>3, <2>4
<1>. HIDE DEF S
<1>3. Nat \subseteq S
  BY <1>1, <1>2, Induction
<1>4. Len(Weights) \in S
  BY <1>3, Weights_
<1>5. fs \cap 1 .. Len(Weights) = fs
  BY DEF Files
<1>6. Split_(Splitting(fs)[Len(Weights)], fs \cap 1 .. Len(Weights))
  BY <1>4, Weights_ DEF S
<1>. QED  BY <1>5, <1>6

(* _split_files loses no file and packs none twice, and Jira takes each part: it is
   below the limit, or one file that hits it; the files above the limit are apart. *)
THEOREM SplitIsPartition ==
  ASSUME NEW fs \in SUBSET Files
  PROVE  /\ Split(fs) \in Seq(Batches)
         /\ Content(Split(fs)) = fs
         /\ Apart(Split(fs))
         /\ \A i \in DOMAIN Split(fs) : IsPart(Split(fs)[i]) \/ IsLarge(Split(fs)[i])
<1>. DEFINE p == Splitting(fs)[Len(Weights)]
<1>1. Split_(p, fs)
  BY SplittingSplits
<1>2. Split(fs) = Closed(p) \o p.large
  BY DEF Split
<1>. HIDE DEF p
<1>3. /\ Closed(p) \in Seq(Batches) /\ Apart(Closed(p))
      /\ Content(Closed(p)) = Content(p.parts) \cup p.open
      /\ \A i \in DOMAIN Closed(p) : IsPart(Closed(p)[i])
  BY <1>1, ClosedBatches
<1>4. /\ p.large \in Seq(Batches) /\ Apart(p.large)
      /\ \A i \in DOMAIN p.large : IsLarge(p.large[i])
      /\ Content(Closed(p)) \cap Content(p.large) = {}
      /\ fs = Content(Closed(p)) \cup Content(p.large)
  BY <1>1, <1>3 DEF Split_, Splits
<1>5. /\ Split(fs) \in Seq(Batches)
      /\ Content(Split(fs)) = fs
      /\ Apart(Split(fs))
  BY <1>2, <1>3, <1>4, ConcatBatches
<1>6. \A i \in DOMAIN Split(fs) : IsPart(Split(fs)[i]) \/ IsLarge(Split(fs)[i])
  BY <1>2, <1>3, <1>4, ConcatBatches
<1>. QED  BY <1>5, <1>6

(* A part is split no further, but for one file that hits the limit: its archive is
   split into itself, which is where _split_files never ends. *)
THEOREM SplittingEnds ==
  ASSUME NEW fs \in SUBSET Files, NEW b \in Batches, b.kind = "part"
  PROVE  /\ \A i \in DOMAIN Split(fs) : Split(fs)[i] = b /\ Weight(b.files) >= Limit =>
              \E f \in Files : b.files = {f} /\ Weights[f] = Limit
         /\ \A f \in Files : b.files = {f} /\ Weights[f] = Limit => Split(b.files) = <<b>>
<1>1. Limit \in Nat /\ Weight(b.files) \in Nat
  BY ConstantsAssumption, WeightType
<1>2. ASSUME NEW i \in DOMAIN Split(fs), Split(fs)[i] = b, Weight(b.files) >= Limit
      PROVE  \E f \in Files : b.files = {f} /\ Weights[f] = Limit
  <2>1. IsPart(b)
    BY <1>2, SplitIsPartition DEF IsLarge
  <2>. QED  BY <1>1, <1>2, <2>1 DEF IsPart, FitsPart
<1>3. ASSUME NEW f \in Files, b.files = {f}, Weights[f] = Limit
      PROVE  Split(b.files) = <<b>>
  <2>. DEFINE q == Split(b.files)
  <2>1. /\ q \in Seq(Batches) /\ Content(q) = {f} /\ Apart(q)
        /\ \A i \in DOMAIN q : IsPart(q[i]) \/ IsLarge(q[i])
    BY <1>3, SplitIsPartition
  <2>. HIDE DEF q
  <2>2. \A i \in DOMAIN q : q[i] \in Batches /\ q[i].files \subseteq {f} /\ q[i].files # {}
    BY <2>1 DEF Content, IsPart, IsLarge, FitsPart
  <2>3. \A i \in DOMAIN q : q[i].files = {f}
    BY <2>2
  <2>4. \A i \in DOMAIN q : q[i] = b
    <3>. SUFFICES ASSUME NEW i \in DOMAIN q
                  PROVE  q[i] = b
      OBVIOUS
    <3>1. ~IsLarge(q[i])
      BY <1>1, <1>3, <2>3 DEF IsLarge
    <3>2. q[i].kind = "part"
      BY <2>1, <3>1 DEF IsPart
    <3>. QED  BY <1>3, <2>2, <2>3, <3>2 DEF Batches
  <2>5. \A i, j \in DOMAIN q : i = j
    BY <2>1, <2>3 DEF Apart
  <2>6. DOMAIN q # {}
    BY <2>1 DEF Content
  <2>7. Len(q) \in Nat /\ DOMAIN q = 1 .. Len(q)
    BY <2>1
  <2>8. Len(q) = 1
    <3>1. 1 \in DOMAIN q /\ Len(q) \in DOMAIN q
      BY <2>6, <2>7
    <3>. QED  BY <2>5, <3>1
  <2>9. q = <<b>>
    <3>1. q[1] = b
      BY <2>4, <2>7, <2>8
    <3>. QED  BY <2>1, <2>8, <3>1
  <2>. QED  BY <2>9 DEF q
<1>. QED  BY <1>2, <1>3

(***************************************************************************)
(* What a worker has on its way to an issue                                *)
(***************************************************************************)

\* The places of a worker that packs or sends a batch, or writes a note of it.
Packs == {"mkdir", "zip", "read", "upload", "remove", "get", "put"}

\* It works for a story, or for an issue and on files that a request wanted there.
Placed(w) ==
  /\ pc[w] \in Creating => summary[w] \in Summaries
  /\ pc[w] \in Packs \cup {"download", "singly", "ok"} =>
       issue[w] \in Issues /\ wanted[w] \subseteq asked[issue[w]]

Loaded(w) ==
  pc[w] \in Packs \cup {"singly"} => wanted[w] = have[w] \cup missing[w]

\* Its batches hold nothing but files it wants.
Queued(w) ==
  /\ pc[w] \in Creating \cup {"idle", "download"} => queue[w] = <<>>
  /\ pc[w] \in Packs =>
       /\ batch[w].kind # "none"
       /\ batch[w].files \cup Content(queue[w]) \subseteq wanted[w]
       /\ \A i \in DOMAIN queue[w] : queue[w][i].kind \in {"part", "large"}
       /\ pc[w] \in {"get", "put"} => batch[w].kind # "one"
       /\ batch[w].kind = "one" => queue[w] = <<>> /\ missing[w] = {}
       /\ batch[w].kind = "report" =>
            pc[w] \in {"get", "put"} /\ queue[w] = <<>> /\ batch[w].files = missing[w]

\* The files that are attached, named as missing or given up, and those still to come.
Settled(w) == attached[issue[w]] \cup told[w] \cup dropped[w]
Rest(w)    == Content(queue[w]) \cup missing[w]

\* The batch has been attached, given up or named already.
Sent(w) == pc[w] = "remove" \/ (pc[w] \in {"get", "put"} /\ batch[w].kind \in {"all", "part"})

\* No file it wants is forgotten.
Accounted(w) ==
  issue[w] \notin clashed =>
    /\ pc[w] = "ok" => wanted[w] \subseteq Settled(w)
    /\ pc[w] \in Packs => wanted[w] \subseteq Settled(w) \cup Rest(w) \cup batch[w].files
    /\ Sent(w) => wanted[w] \subseteq Settled(w) \cup Rest(w)

\* Its archive holds its batch.
Archived(w) ==
  issue[w] \notin clashed =>
    /\ pc[w] = "read" /\ name[w] \in DOMAIN zips => zips[name[w]] = batch[w].files
    /\ pc[w] = "upload" => content[w] = batch[w].files

Sane(w) == Placed(w) /\ Loaded(w) /\ Queued(w) /\ Accounted(w) /\ Archived(w)

\* Archives of one name that are packed at a time are known to clash.
ClashKnown ==
  \A w, x \in Workers :
    w # x /\ pc[w] \in {"zip", "read"} /\ pc[x] \in {"zip", "read"} /\ name[w] = name[x] =>
      issue[w] \in clashed

ArchiveInv == TypeOK /\ (\A w \in Workers : Sane(w)) /\ ClashKnown /\ OwnFilesOnly

(***************************************************************************)
(* The step of one worker                                                  *)
(***************************************************************************)

Local(w) == <<pc[w], summary[w], issue[w], wanted[w], have[w], missing[w], batch[w], queue[w],
              name[w], content[w], told[w], dropped[w]>>

Grows ==
  /\ clashed \subseteq clashed'
  /\ \A i \in Issues : attached[i] \subseteq attached'[i] /\ asked[i] \subseteq asked'[i]

\* An archive that another worker may read without a clash stays as it is.
ZipsKept(w) ==
  \A x \in Workers \ {w} :
    pc[x] = "read" /\ issue[x] \notin clashed' /\ name[x] \in DOMAIN zips' =>
      name[x] \in DOMAIN zips /\ zips'[name[x]] = zips[name[x]]

Others(w) == \A x \in Workers \ {w} : UNCHANGED Local(x)

\* Who begins to pack knows whether it is alone.
Enters(w) ==
  pc'[w] \in {"zip", "read"} =>
    \/ pc[w] \in {"zip", "read"} /\ name'[w] = name[w] /\ issue'[w] = issue[w]
    \/ \A x \in Packing(name'[w]) \ {w} : issue[x] \in clashed' /\ issue'[w] \in clashed'

LEMMA OthersSane ==
  ASSUME TypeOK, NEW w \in Workers, NEW x \in Workers \ {w}, Sane(x), Others(w), Grows, ZipsKept(w)
  PROVE  Sane(x)'
<1>1. UNCHANGED Local(x)
  BY DEF Others
<1>2. Placed(x)' /\ Loaded(x)' /\ Queued(x)'
  BY <1>1 DEF Sane, Placed, Loaded, Queued, Local, Grows
<1>3. Archived(x)'
  BY <1>1 DEF Sane, Archived, Local, Grows, ZipsKept
<1>4. ASSUME pc[x] \in Packs \cup {"ok"}
      PROVE  Settled(x) \subseteq Settled(x)'
  BY <1>1, <1>4 DEF Sane, Placed, Settled, Local, Grows
<1>5. Rest(x)' = Rest(x) /\ (Sent(x)' <=> Sent(x)) /\ (Sent(x) => pc[x] \in Packs)
  BY <1>1 DEF Rest, Sent, Local, Packs
<1>6. Accounted(x)'
  BY <1>1, <1>4, <1>5 DEF Sane, Accounted, Local, Grows
<1>. QED  BY <1>2, <1>3, <1>6 DEF Sane

\* What the step of a worker must preserve.
LEMMA WorkerStep ==
  ASSUME ArchiveInv, NEW w \in Workers, TypeOK', Sane(w)', Others(w), Grows, ZipsKept(w), Enters(w),
         \A i \in Issues \ clashed' : attached'[i] \subseteq attached[i] \cup asked'[i]
  PROVE  ArchiveInv'
<1>1. \A x \in Workers : Sane(x)'
  BY OthersSane DEF ArchiveInv
<1>2. ClashKnown'
  <2>. SUFFICES ASSUME NEW x \in Workers, NEW y \in Workers, x # y,
                       pc'[x] \in {"zip", "read"}, pc'[y] \in {"zip", "read"}, name'[x] = name'[y]
                PROVE  issue'[x] \in clashed'
    BY DEF ClashKnown
  <2>1. CASE x # w /\ y # w
    BY <2>1 DEF ArchiveInv, ClashKnown, Others, Local, Grows
  <2>2. CASE x = w /\ y # w
    BY <2>2 DEF ArchiveInv, ClashKnown, Others, Local, Grows, Enters, Packing
  <2>3. CASE x # w /\ y = w
    BY <2>3 DEF ArchiveInv, ClashKnown, Others, Local, Grows, Enters, Packing
  <2>. QED  BY <2>1, <2>2, <2>3
<1>3. OwnFilesOnly'
  <2>. SUFFICES ASSUME NEW i \in Issues \ clashed'
                PROVE  attached'[i] \subseteq asked'[i]
    BY DEF OwnFilesOnly
  <2>1. i \notin clashed /\ asked[i] \subseteq asked'[i]
    BY DEF Grows
  <2>2. attached[i] \subseteq asked[i]
    BY <2>1 DEF ArchiveInv, OwnFilesOnly
  <2>. QED  BY <2>1, <2>2
<1>. QED  BY <1>1, <1>2, <1>3 DEF ArchiveInv

\* What a step leaves the worker with: nothing to account for,
LEMMA QuietSane ==
  ASSUME TypeOK, NEW w \in Workers, NEW l \in Creating \cup {"idle", "failed"}, Goto(w, l),
         queue'[w] = queue[w] \/ queue'[w] = <<>>,
         l # "failed" => queue'[w] = <<>>,
         l \in Creating => summary'[w] \in Summaries
  PROVE  Sane(w)'
<1>1. pc'[w] = l
  BY DEF TypeOK, Goto
<1>. QED  BY <1>1 DEF Sane, Placed, Loaded, Queued, Accounted, Archived, Sent, Packs, Creating

\* a place with the same batch,
LEMMA StaySane ==
  ASSUME TypeOK, NEW w \in Workers, Sane(w), pc[w] \in Packs, NEW l \in Packs, Goto(w, l), Grows,
         UNCHANGED <<request, loaded, batch, queue>>,
         l \in {"get", "put"} => batch[w].kind # "one",
         batch[w].kind = "report" => l \in {"get", "put"},
         issue[w] \notin clashed' => (Sent(w)' => wanted[w] \subseteq Settled(w)' \cup Rest(w)),
         told[w] \subseteq told'[w], dropped[w] \subseteq dropped'[w],
         Archived(w)'
  PROVE  Sane(w)'
<1>1. pc'[w] = l /\ issue'[w] = issue[w] /\ wanted'[w] = wanted[w] /\ have'[w] = have[w]
      /\ missing'[w] = missing[w] /\ batch'[w] = batch[w] /\ queue'[w] = queue[w]
      /\ l \notin Creating \cup {"idle", "download", "singly", "ok"}
  BY DEF TypeOK, Goto, request, loaded, Packs, Creating
<1>2. Placed(w)' /\ Loaded(w)'
  BY <1>1 DEF Sane, Placed, Loaded, Grows
<1>3. Queued(w)'
  BY <1>1 DEF Sane, Queued
<1>4. Settled(w) \subseteq Settled(w)'
  BY <1>1 DEF Sane, Placed, Settled, Grows
<1>5. Accounted(w)'
  BY <1>1, <1>4 DEF Sane, Accounted, Rest, Grows
<1>. QED  BY <1>2, <1>3, <1>5 DEF Sane

\* an answer,
LEMMA AnswerSane ==
  ASSUME TypeOK, NEW w \in Workers, Sane(w), pc[w] \in Packs \cup {"singly"}, Goto(w, "ok"), Grows,
         UNCHANGED <<request, loaded>>,
         issue[w] \notin clashed' => wanted[w] \subseteq Settled(w)'
  PROVE  Sane(w)'
<1>1. pc'[w] = "ok" /\ issue'[w] = issue[w] /\ wanted'[w] = wanted[w]
  BY DEF TypeOK, Goto, request, loaded
<1>2. Placed(w)'
  BY <1>1 DEF Sane, Placed, Grows, Creating, Packs
<1>. QED  BY <1>1, <1>2 DEF Sane, Loaded, Queued, Accounted, Archived, Sent, Packs, Creating

\* the files to be sent one by one,
LEMMA SinglySane ==
  ASSUME TypeOK, NEW w \in Workers, Sane(w), pc[w] \in Packs, Goto(w, "singly"), Grows,
         UNCHANGED <<request, loaded>>
  PROVE  Sane(w)'
<1>1. pc'[w] = "singly" /\ issue'[w] = issue[w] /\ wanted'[w] = wanted[w]
      /\ have'[w] = have[w] /\ missing'[w] = missing[w]
  BY DEF TypeOK, Goto, request, loaded
<1>2. Placed(w)' /\ Loaded(w)'
  BY <1>1 DEF Sane, Placed, Loaded, Grows, Creating, Packs
<1>. QED  BY <1>1, <1>2 DEF Sane, Queued, Accounted, Archived, Sent, Packs, Creating

\* the next batch, a note of what was not downloaded, or an answer.
LEMMA ProceedSane ==
  ASSUME TypeOK, NEW w \in Workers, Sane(w), pc[w] \in Packs, NEW q \in Seq(Batches), Proceed(w, q), Grows,
         UNCHANGED <<request, loaded>>,
         Content(q) \subseteq wanted[w],
         \A i \in DOMAIN q : q[i].kind \in {"part", "large"},
         issue[w] \notin clashed' => wanted[w] \subseteq Settled(w)' \cup Content(q) \cup missing[w]
  PROVE  Sane(w)'
<1>1. issue'[w] = issue[w] /\ wanted'[w] = wanted[w] /\ have'[w] = have[w] /\ missing'[w] = missing[w]
  BY DEF request, loaded
<1>2. CASE q # <<>>
  <2>1. pc'[w] = "mkdir" /\ batch'[w] = Head(q) /\ queue'[w] = Tail(q)
    BY <1>2 DEF TypeOK, Proceed, Goto
  <2>2. /\ Head(q).kind \in {"part", "large"} /\ Content(q) = Head(q).files \cup Content(Tail(q))
        /\ \A i \in DOMAIN Tail(q) : Tail(q)[i].kind \in {"part", "large"}
    BY <1>2, HeadTail
  <2>3. Placed(w)' /\ Loaded(w)'
    BY <1>1, <2>1 DEF Sane, Placed, Loaded, Grows, Packs, Creating
  <2>4. Queued(w)'
    BY <1>1, <2>1, <2>2 DEF Queued, Packs, Creating
  <2>5. Accounted(w)'
    BY <1>1, <2>1, <2>2 DEF Accounted, Rest, Sent, Packs
  <2>. QED  BY <2>1, <2>3, <2>4, <2>5 DEF Sane, Archived
<1>3. CASE q = <<>> /\ missing[w] = {}
  BY <1>3, NoContent, AnswerSane DEF Proceed
<1>4. CASE q = <<>> /\ missing[w] # {}
  <2>1. pc'[w] = "get" /\ batch'[w] = [kind |-> "report", files |-> missing[w]] /\ queue'[w] = <<>>
    BY <1>4 DEF TypeOK, Proceed, Goto
  <2>2. batch'[w].kind = "report" /\ batch'[w].files = missing[w]
    BY <2>1
  <2>3. Placed(w)' /\ Loaded(w)'
    BY <1>1, <2>1 DEF Sane, Placed, Loaded, Grows, Packs, Creating
  <2>4. Queued(w)'
    <3>1. missing[w] \subseteq wanted[w]
      BY DEF Sane, Loaded
    <3>. QED  BY <1>1, <2>1, <2>2, <3>1, NoContent DEF Queued, Packs, Creating
  <2>5. Accounted(w)'
    BY <1>1, <1>4, <2>1, <2>2, NoContent DEF Accounted, Rest, Sent, Packs
  <2>. QED  BY <2>1, <2>3, <2>4, <2>5 DEF Sane, Archived
<1>. QED  BY <1>2, <1>3, <1>4

\* What Proceed changes.
LEMMA ProceedType ==
  ASSUME TypeOK, NEW w \in Workers, NEW q \in Seq(Batches), Proceed(w, q)
  PROVE  /\ pc' \in [Workers -> PC] /\ batch' \in [Workers -> Batches] /\ queue' \in [Workers -> Seq(Batches)]
         /\ pc'[w] \notin {"zip", "read"}
         /\ \A x \in Workers \ {w} : pc'[x] = pc[x] /\ batch'[x] = batch[x] /\ queue'[x] = queue[x]
<1>1. CASE q # <<>>
  <2>1. Head(q) \in Batches /\ Tail(q) \in Seq(Batches)
    BY <1>1, HeadTail
  <2>. QED  BY <1>1, <2>1 DEF TypeOK, Proceed, Goto, PC, Creating
<1>2. CASE q = <<>>
  <2>1. <<>> \in Seq(Batches) /\ [kind |-> "report", files |-> missing[w]] \in Batches
    BY NoContent DEF TypeOK, Batches, Kinds
  <2>. HIDE DEF Batches
  <2>. QED  BY <1>2, <2>1 DEF TypeOK, Proceed, Goto, PC, Creating
<1>. QED  BY <1>1, <1>2

\* What Raise changes.
LEMMA RaiseType ==
  ASSUME TypeOK, NEW w \in Workers, NEW inElse \in BOOLEAN, Raise(w, inElse)
  PROVE  /\ pc' \in [Workers -> PC] /\ batch' \in [Workers -> Batches] /\ queue' \in [Workers -> Seq(Batches)]
         /\ dropped' \in [Workers -> SUBSET Files]
         /\ pc'[w] \notin {"zip", "read"} /\ dropped[w] \subseteq dropped'[w]
         /\ \A x \in Workers \ {w} : pc'[x] = pc[x] /\ batch'[x] = batch[x] /\ queue'[x] = queue[x]
                                     /\ dropped'[x] = dropped[x]
<1>. batch[w].files \in SUBSET Files /\ queue[w] \in Seq(Batches)
  BY DEF TypeOK, Batches
<1>1. CASE batch[w].kind = "large" /\ ~inElse
  <2>1. Proceed(w, queue[w]) /\ Drop(w, batch[w].files)
    BY <1>1 DEF Raise
  <2>2. dropped' \in [Workers -> SUBSET Files] /\ dropped[w] \subseteq dropped'[w]
        /\ \A x \in Workers \ {w} : dropped'[x] = dropped[x]
    BY <2>1 DEF TypeOK, Drop
  <2>. QED  BY <2>1, <2>2, ProceedType
<1>2. CASE ~(batch[w].kind = "large" /\ ~inElse)
  <2>1. (Goto(w, "failed") \/ Goto(w, "singly")) /\ UNCHANGED <<batch, queue, dropped>>
    BY <1>2 DEF Raise
  <2>. QED  BY <2>1 DEF TypeOK, Goto, PC, Creating
<1>. QED  BY <1>1, <1>2

\* An exception while a batch is packed or sent.
LEMMA RaiseSane ==
  ASSUME TypeOK, NEW w \in Workers, Sane(w), pc[w] \in Packs, NEW inElse \in BOOLEAN, Raise(w, inElse), Grows,
         UNCHANGED <<request, loaded>>, told[w] \subseteq told'[w]
  PROVE  Sane(w)'
<1>1. issue'[w] = issue[w] /\ wanted'[w] = wanted[w]
  BY DEF request
<1>2. CASE batch[w].kind = "large" /\ ~inElse
  <2>1. Proceed(w, queue[w]) /\ dropped' = [dropped EXCEPT ![w] = @ \cup batch[w].files]
    BY <1>2 DEF Raise, Drop
  <2>2. dropped'[w] = dropped[w] \cup batch[w].files /\ queue[w] \in Seq(Batches)
    BY <2>1 DEF TypeOK
  <2>3. Settled(w) \cup batch[w].files \subseteq Settled(w)'
    BY <1>1, <2>2 DEF Sane, Placed, Settled, Grows
  <2>4. issue[w] \notin clashed' => wanted[w] \subseteq Settled(w)' \cup Content(queue[w]) \cup missing[w]
    BY <2>3 DEF Sane, Accounted, Rest, Grows
  <2>5. Content(queue[w]) \subseteq wanted[w] /\ \A i \in DOMAIN queue[w] : queue[w][i].kind \in {"part", "large"}
    BY DEF Sane, Queued
  <2>. QED  BY <2>1, <2>2, <2>4, <2>5, ProceedSane
<1>3. CASE ~(batch[w].kind = "large" /\ ~inElse)
  <2>1. (Goto(w, "failed") \/ Goto(w, "singly")) /\ UNCHANGED <<batch, queue, dropped>>
    BY <1>3 DEF Raise
  <2>2. CASE Goto(w, "failed")
    BY <2>1, <2>2, QuietSane DEF Creating
  <2>3. CASE Goto(w, "singly")
    BY <2>1, <2>3, SinglySane
  <2>. QED  BY <2>1, <2>2, <2>3
<1>. QED  BY <1>2, <1>3

LEMMA RemoveZipType ==
  ASSUME TypeOK, NEW w \in Workers, UNCHANGED zips \/ \E n : RemoveZip(n)
  PROVE  /\ DOMAIN zips' \subseteq Seconds /\ \A n \in DOMAIN zips' : zips'[n] \subseteq Files
         /\ ZipsKept(w)
BY DEF TypeOK, RemoveZip, ZipsKept

LEMMA FaultType ==
  ASSUME TypeOK, NEW fails \in BOOLEAN, Fault(fails)
  PROVE  faults' \in 0 .. MaxFaults /\ UNCHANGED requests
<1>1. faults \in 0 .. MaxFaults /\ MaxFaults \in Nat
  BY ConstantsAssumption DEF TypeOK
<1>. QED  BY <1>1 DEF Fault

(***************************************************************************)
(* create_story                                                            *)
(***************************************************************************)

\* The steps before there are files to send.
LEMMA EarlyStep ==
  ASSUME ArchiveInv, NEW w \in Workers, TypeOK', NEW l \in Creating \cup {"idle", "failed"}, Goto(w, l),
         queue' = queue, l # "failed" => queue[w] = <<>>, l \in Creating => summary'[w] \in Summaries, Others(w),
         UNCHANGED <<attached, asked, clashed, zips>>
  PROVE  ArchiveInv'
<1>1. Sane(w)'
  BY QuietSane DEF ArchiveInv
<1>2. pc'[w] = l
  BY DEF ArchiveInv, TypeOK, Goto
<1>3. Grows /\ ZipsKept(w) /\ Enters(w)
  BY <1>2 DEF Grows, ZipsKept, Enters, Creating
<1>. QED  BY <1>1, <1>3, WorkerStep

LEMMA StoryStartArchives ==
  ASSUME ArchiveInv, NEW w \in Workers, NEW s \in Summaries, NEW ns \in Links \cup {{}}, StoryStart(w, s, ns)
  PROVE  ArchiveInv'
<1>1. ns \in SUBSET Files
  BY ConstantsAssumption DEF Files
<1>2. TypeOK'
  BY <1>1, ConstantsAssumption DEF ArchiveInv, TypeOK, StoryStart, Goto, PC, Creating, jira, folder, loaded, sending, Keys
<1>3. Others(w)
  BY DEF ArchiveInv, TypeOK, StoryStart, Goto, Others, Local, loaded, sending
<1>4. queue[w] = <<>> /\ summary'[w] \in Summaries
  BY DEF ArchiveInv, TypeOK, Sane, Queued, StoryStart
<1>. QED  BY <1>2, <1>3, <1>4, EarlyStep DEF StoryStart, jira, folder, sending, Creating

LEMMA CreatingArchives ==
  ASSUME ArchiveInv, NEW w \in Workers,
         \/ Search(w) \/ FindEpic(w) \/ Refused(w)
         \/ \E arrived, ok \in BOOLEAN : CreateEpic(w, arrived, ok)
         \/ \E arrived \in BOOLEAN : CreateUnanswered(w, arrived)
  PROVE  ArchiveInv'
<1>1. /\ pc[w] \in Creating
      /\ \E l \in Creating \cup {"failed"} : Goto(w, l)
      /\ UNCHANGED <<attached, described, folder, second, request, loaded, sending, seen,
                     told, dropped, overtaken, clashed, asked>>
  BY DEF Search, FindEpic, Refused, CreateEpic, CreateUnanswered, Creating, jira, history
<1>2. Others(w)
  BY <1>1 DEF ArchiveInv, TypeOK, Goto, Others, Local, request, loaded, sending
<1>3. queue[w] = <<>> /\ summary[w] \in Summaries
  BY <1>1 DEF ArchiveInv, Sane, Queued, Placed
<1>4. /\ epics' \in Nat /\ Keys' \subseteq Issues /\ \A i \in Keys' : story'[i] \in Summaries \cup {NoSummary}
      /\ contested' \subseteq Summaries /\ requests' \in 0 .. MaxRequests /\ faults' \in 0 .. MaxFaults
  <2>1. CASE Search(w) \/ FindEpic(w)
    BY <2>1 DEF ArchiveInv, TypeOK, Search, FindEpic, jira, history, Keys
  <2>2. CASE Refused(w)
    BY <2>2, FaultType DEF ArchiveInv, TypeOK, Refused, jira, history, Keys
  <2>3. CASE \E arrived, ok \in BOOLEAN : CreateEpic(w, arrived, ok)
    <3>1. PICK arrived \in BOOLEAN, ok \in BOOLEAN : CreateEpic(w, arrived, ok)
      BY <2>3
    <3>2. epics' \in Nat /\ UNCHANGED <<story, contested>> /\ Fault(~ok)
      BY <3>1 DEF ArchiveInv, TypeOK, CreateEpic, history
    <3>. QED  BY <3>2, FaultType DEF ArchiveInv, TypeOK, Keys
  <2>4. CASE \E arrived \in BOOLEAN : CreateUnanswered(w, arrived)
    BY <1>3, <2>4, FaultType DEF ArchiveInv, TypeOK, CreateUnanswered, NewStory, Keys
  <2>. QED  BY <2>1, <2>2, <2>3, <2>4
<1>5. TypeOK'
  BY <1>1, <1>4 DEF ArchiveInv, TypeOK, Goto, PC, Creating, folder, request, loaded, sending
<1>. QED  BY <1>1, <1>2, <1>3, <1>5, EarlyStep DEF folder, sending, request

LEMMA CreateStoryArchives ==
  ASSUME ArchiveInv, NEW w \in Workers, NEW i \in Issues, CreateStory(w, i)
  PROVE  ArchiveInv'
<1>1. /\ pc[w] \in {"create", "create_again"} /\ i \notin Keys /\ NewStory(w, i)
      /\ issue' = [issue EXCEPT ![w] = i]
      /\ asked' = [asked EXCEPT ![i] = @ \cup wanted[w]]
      /\ \E l \in {"ok", "download"} : Goto(w, l) /\ (l = "ok" => wanted[w] = {})
      /\ UNCHANGED <<epics, attached, described, folder, second, summary, wanted, loaded, sending, seen,
                     told, dropped, overtaken, clashed, contested, requests, faults>>
  BY DEF CreateStory, Created
<1>2. summary[w] \in Summaries /\ queue[w] = <<>>
  BY <1>1 DEF ArchiveInv, Sane, Placed, Queued, Creating
<1>3. TypeOK'
  BY <1>1, <1>2 DEF ArchiveInv, TypeOK, NewStory, Keys, Goto, PC, Creating, folder, loaded, sending
<1>4. Others(w) /\ Grows
  BY <1>1 DEF ArchiveInv, TypeOK, Goto, Others, Local, Grows, loaded, sending
<1>5. pc'[w] \in {"ok", "download"} /\ (pc'[w] = "ok" => wanted[w] = {})
      /\ issue'[w] = i /\ wanted'[w] = wanted[w] /\ queue'[w] = <<>> /\ wanted[w] \subseteq asked'[i]
  BY <1>1, <1>2 DEF ArchiveInv, TypeOK, Goto, sending
<1>6. Sane(w)'
  BY <1>5 DEF Sane, Placed, Loaded, Queued, Accounted, Archived, Sent, Packs, Creating
<1>7. ZipsKept(w) /\ Enters(w)
  BY <1>1, <1>5 DEF ZipsKept, Enters, folder
<1>. QED  BY <1>1, <1>3, <1>4, <1>6, <1>7, WorkerStep

(***************************************************************************)
(* attach_file_to_issue                                                    *)
(***************************************************************************)

LEMMA AttachStartArchives ==
  ASSUME ArchiveInv, NEW w \in Workers, NEW i \in Issues, NEW ns \in Links, AttachStart(w, i, ns)
  PROVE  ArchiveInv'
<1>1. ns \in SUBSET Files
  BY ConstantsAssumption DEF Files
<1>2. /\ pc[w] = "idle" /\ requests < MaxRequests /\ requests' = requests + 1
      /\ Goto(w, "download")
      /\ issue' = [issue EXCEPT ![w] = i] /\ wanted' = [wanted EXCEPT ![w] = ns]
      /\ asked' = [asked EXCEPT ![i] = @ \cup ns]
      /\ UNCHANGED <<jira, folder, second, summary, loaded, sending, seen,
                     told, dropped, overtaken, clashed, contested, faults>>
  BY DEF AttachStart
<1>3. TypeOK'
  BY <1>1, <1>2, ConstantsAssumption DEF ArchiveInv, TypeOK, Keys, Goto, PC, Creating, jira, folder, loaded, sending
<1>4. Others(w) /\ Grows
  BY <1>2 DEF ArchiveInv, TypeOK, Goto, Others, Local, Grows, jira, loaded, sending
<1>5. pc'[w] = "download" /\ issue'[w] = i /\ wanted'[w] = ns /\ ns \subseteq asked'[i] /\ queue'[w] = <<>>
  BY <1>2 DEF ArchiveInv, TypeOK, Sane, Queued, Goto, sending
<1>6. Sane(w)'
  BY <1>5 DEF Sane, Placed, Loaded, Queued, Accounted, Archived, Sent, Packs, Creating
<1>7. ZipsKept(w) /\ Enters(w)
  BY <1>2, <1>5 DEF ZipsKept, Enters, folder
<1>. QED  BY <1>2, <1>3, <1>4, <1>6, <1>7, WorkerStep DEF jira

LEMMA DownloadArchives ==
  ASSUME ArchiveInv, NEW w \in Workers, NEW got \in SUBSET Files, Download(w, got)
  PROVE  ArchiveInv'
<1>1. /\ pc[w] = "download" /\ got \subseteq wanted[w] /\ wanted[w] \in SUBSET Files
      /\ have' = [have EXCEPT ![w] = got]
      /\ missing' = [missing EXCEPT ![w] = wanted[w] \ got]
      /\ Fault(got # wanted[w])
      /\ UNCHANGED <<jira, folder, second, request, queue, name, content, seen, history>>
  BY DEF ArchiveInv, TypeOK, Download
<1>2. PICK k \in {"all", "report", "one"}, fs \in SUBSET Files, l \in {"mkdir", "get", "singly"} :
        /\ batch' = [batch EXCEPT ![w] = [kind |-> k, files |-> fs]] /\ Goto(w, l)
        /\ k = "all" => fs = got /\ l = "mkdir"
        /\ k = "report" => fs = wanted[w] /\ got = {} /\ l = "get"
        /\ k = "one" => fs = got /\ got = wanted[w] /\ l \in {"mkdir", "singly"}
  <2>1. CASE ~Single(w)
    <3>1. batch' = [batch EXCEPT ![w] = [kind |-> "all", files |-> got]] /\ Goto(w, "mkdir")
      BY <2>1, Zenon DEF Download
    <3>. QED  BY <3>1
  <2>2. CASE Single(w) /\ got = {}
    BY <1>1, <2>2, Zenon DEF Download
  <2>3. CASE Single(w) /\ got # {} /\ \E f \in got : Weights[f] >= Half
    <3>1. got = wanted[w]
      BY <1>1, <2>3 DEF Single
    <3>2. batch' = [batch EXCEPT ![w] = [kind |-> "one", files |-> got]] /\ Goto(w, "mkdir")
      BY <2>3, Zenon DEF Download
    <3>. QED  BY <1>1, <3>1, <3>2
  <2>4. CASE Single(w) /\ got # {} /\ ~\E f \in got : Weights[f] >= Half
    <3>1. got = wanted[w]
      BY <1>1, <2>4 DEF Single
    <3>2. batch' = [batch EXCEPT ![w] = [kind |-> "one", files |-> got]] /\ Goto(w, "singly")
      BY <2>4, Zenon DEF Download
    <3>. QED  BY <1>1, <3>1, <3>2
  <2>. QED  BY <2>1, <2>2, <2>3, <2>4
<1>3. [kind |-> k, files |-> fs] \in Batches
  BY DEF Batches, Kinds
<1>4. (got # wanted[w]) \in BOOLEAN
  OBVIOUS
<1>5. faults' \in 0 .. MaxFaults /\ requests' = requests
  BY <1>1, <1>4, FaultType DEF ArchiveInv
<1>6. TypeOK'
  BY <1>1, <1>2, <1>3, <1>5 DEF ArchiveInv, TypeOK, Keys, Goto, PC, Creating, jira, folder, request, history
<1>7. Others(w) /\ Grows
  BY <1>1, <1>2 DEF ArchiveInv, TypeOK, Goto, Others, Local, Grows, jira, request, history
<1>8. /\ pc'[w] = l /\ issue'[w] = issue[w] /\ wanted'[w] = wanted[w] /\ queue'[w] = <<>>
      /\ have'[w] = got /\ missing'[w] = wanted[w] \ got
      /\ batch'[w].kind = k /\ batch'[w].files = fs
      /\ asked' = asked /\ issue[w] \in Issues /\ wanted[w] \subseteq asked[issue[w]]
  BY <1>1, <1>2 DEF ArchiveInv, TypeOK, Sane, Placed, Queued, Goto, request, history
<1>9. Sane(w)'
  <2>1. Placed(w)' /\ Loaded(w)'
    BY <1>1, <1>8 DEF Placed, Loaded, Packs, Creating
  <2>2. Queued(w)'
    BY <1>1, <1>2, <1>8, NoContent DEF Queued, Packs, Creating
  <2>3. Accounted(w)'
    BY <1>1, <1>2, <1>8, NoContent DEF Accounted, Rest, Sent, Packs
  <2>. QED  BY <1>8, <2>1, <2>2, <2>3 DEF Sane, Archived
<1>10. ZipsKept(w) /\ Enters(w)
  BY <1>1, <1>8 DEF ZipsKept, Enters, folder
<1>. QED  BY <1>1, <1>6, <1>7, <1>9, <1>10, WorkerStep DEF jira

LEMMA DownloadFailsArchives ==
  ASSUME ArchiveInv, NEW w \in Workers, DownloadFails(w)
  PROVE  ArchiveInv'
<1>1. TypeOK'
  BY FaultType DEF ArchiveInv, TypeOK, DownloadFails, Keys, Goto, PC, Creating, jira, folder, request, loaded, sending, history
<1>2. Others(w)
  BY DEF ArchiveInv, TypeOK, DownloadFails, Goto, Others, Local, request, loaded, sending, history
<1>. QED  BY <1>1, <1>2, EarlyStep DEF DownloadFails, jira, folder, sending, history, Creating

LEMMA SendSinglyArchives ==
  ASSUME ArchiveInv, NEW w \in Workers, NEW arrived \in SUBSET Files, SendSingly(w, arrived)
  PROVE  ArchiveInv'
<1>1. /\ pc[w] = "singly" /\ arrived \subseteq have[w]
      /\ attached' = [attached EXCEPT ![issue[w]] = @ \cup arrived]
      /\ told' = [told EXCEPT ![w] = @ \cup (have[w] \ arrived)]
      /\ dropped' = [dropped EXCEPT ![w] = @ \cup missing[w]]
      /\ \E l \in {"failed", "ok"} : Goto(w, l)
      /\ Fault(arrived # have[w])
      /\ UNCHANGED <<epics, story, described, folder, second, request, loaded, sending, seen,
                     overtaken, clashed, asked, contested>>
  BY DEF SendSingly, Attach, Tell, Drop
<1>2. issue[w] \in Issues /\ wanted[w] \subseteq asked[issue[w]] /\ wanted[w] = have[w] \cup missing[w]
  BY <1>1 DEF ArchiveInv, Sane, Placed, Loaded
<1>3. (arrived # have[w]) \in BOOLEAN
  OBVIOUS
<1>4. faults' \in 0 .. MaxFaults /\ requests' = requests
  BY <1>1, <1>3, FaultType DEF ArchiveInv
<1>5. TypeOK'
  BY <1>1, <1>2, <1>4 DEF ArchiveInv, TypeOK, Keys, Goto, PC, Creating, folder, request, loaded, sending
<1>6. Others(w) /\ Grows
  BY <1>1 DEF ArchiveInv, TypeOK, Goto, Others, Local, Grows, request, loaded, sending
<1>7. /\ pc'[w] \in {"failed", "ok"} /\ issue'[w] = issue[w] /\ wanted'[w] = wanted[w]
      /\ wanted[w] \subseteq Settled(w)'
  BY <1>1, <1>2 DEF ArchiveInv, TypeOK, Goto, Settled, request
<1>8. Sane(w)'
  BY <1>1, <1>2, <1>7 DEF Sane, Placed, Loaded, Queued, Accounted, Archived, Sent, Packs, Creating
<1>9. ZipsKept(w) /\ Enters(w)
  BY <1>1, <1>7 DEF ZipsKept, Enters, folder
<1>10. \A i \in Issues : attached'[i] \subseteq attached[i] \cup asked'[i]
  BY <1>1, <1>2 DEF ArchiveInv, TypeOK
<1>. QED  BY <1>5, <1>6, <1>8, <1>9, <1>10, WorkerStep

LEMMA LeaveArchives ==
  ASSUME ArchiveInv, NEW w \in Workers, Answer(w) \/ Kill(w)
  PROVE  ArchiveInv'
<1>1. Leave(w) /\ \E fails \in BOOLEAN : Fault(fails)
  BY DEF Answer, Kill
<1>2. faults' \in 0 .. MaxFaults /\ requests' = requests
  BY <1>1, FaultType DEF ArchiveInv
<1>3. NoBatch \in Batches /\ <<>> \in Seq(Batches) /\ 0 \in Seconds
  BY NoContent, ConstantsAssumption DEF NoBatch, Batches, Kinds, Seconds
<1>4. TypeOK'
  BY <1>1, <1>2, <1>3 DEF ArchiveInv, TypeOK, Leave, Keys, Goto, PC, Creating, jira, folder
<1>5. Others(w) /\ Grows
  BY <1>1 DEF ArchiveInv, TypeOK, Leave, Goto, Others, Local, Grows, jira
<1>6. pc'[w] = "idle" /\ queue'[w] = <<>>
  BY <1>1 DEF ArchiveInv, TypeOK, Leave, Goto
<1>7. Sane(w)'
  BY <1>6 DEF Sane, Placed, Loaded, Queued, Accounted, Archived, Sent, Packs, Creating
<1>8. ZipsKept(w) /\ Enters(w)
  BY <1>1, <1>6 DEF Leave, ZipsKept, Enters, folder
<1>. QED  BY <1>1, <1>4, <1>5, <1>7, <1>8, WorkerStep DEF Leave, jira

(***************************************************************************)
(* Packing and sending                                                     *)
(***************************************************************************)

\* The files of a batch, and its queue.
LEMMA BatchType ==
  ASSUME TypeOK, NEW w \in Workers
  PROVE  batch[w] \in Batches /\ batch[w].files \in SUBSET Files /\ queue[w] \in Seq(Batches)
BY DEF TypeOK, Batches

\* A step that ends in an exception.
LEMMA RaiseStep ==
  ASSUME ArchiveInv, NEW w \in Workers, pc[w] \in Packs, NEW inElse \in BOOLEAN, Raise(w, inElse),
         UNCHANGED <<epics, story, second, request, loaded, content, seen, told, asked, contested>>,
         described' \in [Issues -> SUBSET Files], overtaken' \subseteq Workers,
         UNCHANGED zips \/ \E n : RemoveZip(n),
         dirs' \subseteq Seconds, name' \in [Workers -> Seconds],
         \A x \in Workers \ {w} : name'[x] = name[x],
         clashed \subseteq clashed', clashed' \subseteq Issues,
         requests' = requests, faults' \in 0 .. MaxFaults,
         attached' \in [Issues -> SUBSET Files],
         \A i \in Issues : attached[i] \subseteq attached'[i],
         \A i \in Issues \ clashed' : attached'[i] \subseteq attached[i] \cup asked[i]
  PROVE  ArchiveInv'
<1>1. TypeOK'
  BY RaiseType, RemoveZipType DEF ArchiveInv, TypeOK, Keys, request, loaded
<1>2. Others(w) /\ Grows
  BY RaiseType DEF ArchiveInv, Others, Local, Grows, request, loaded
<1>3. Sane(w)'
  BY <1>2, RaiseSane DEF ArchiveInv
<1>4. ZipsKept(w) /\ Enters(w)
  BY RaiseType, RemoveZipType DEF ArchiveInv, Enters
<1>. QED  BY <1>1, <1>2, <1>3, <1>4, WorkerStep

\* The issues that a clash adds.
LEMMA MakeDirClash ==
  ASSUME ArchiveInv, NEW w \in Workers, MakeDir(w)
  PROVE  /\ clashed \subseteq clashed' /\ clashed' \subseteq Issues
         /\ \A x \in Packing(second) \ {w} : issue[x] \in clashed' /\ issue[w] \in clashed'
<1>1. \A x \in Packing(second) \cup {w} : issue[x] \in Issues
  BY DEF ArchiveInv, Sane, Placed, Packing, Packs, MakeDir
<1>2. clashed \subseteq Issues
  BY DEF ArchiveInv, TypeOK
<1>3. CASE Packing(second) = {}
  <2>1. clashed' = clashed
    BY <1>3 DEF MakeDir
  <2>. QED  BY <1>2, <1>3, <2>1
<1>4. CASE Packing(second) # {}
  <2>1. clashed' = clashed \cup {issue[x] : x \in Packing(second) \cup {w}}
    BY <1>4 DEF MakeDir
  <2>. QED  BY <1>1, <1>2, <2>1
<1>. QED  BY <1>3, <1>4

LEMMA MakeDirArchives ==
  ASSUME ArchiveInv, NEW w \in Workers, MakeDir(w)
  PROVE  ArchiveInv'
<1>1. /\ pc[w] = "mkdir" /\ name' = [name EXCEPT ![w] = second]
      /\ UNCHANGED <<jira, zips, second, request, loaded, content, seen, told, overtaken, asked, contested,
                     requests, faults>>
  BY DEF MakeDir
<1>2. /\ second \in Seconds /\ dirs \subseteq Seconds /\ name' \in [Workers -> Seconds]
      /\ name'[w] = second /\ \A x \in Workers \ {w} : name'[x] = name[x]
  BY <1>1 DEF ArchiveInv, TypeOK
<1>3. CASE second \in dirs
  <2>1. Raise(w, FALSE) /\ dirs' = dirs \ {second}
    BY <1>3 DEF MakeDir
  <2>. QED  BY <1>1, <1>2, <2>1, MakeDirClash, RaiseStep DEF ArchiveInv, TypeOK, Packs, jira
<1>4. CASE second \notin dirs
  <2>1. dirs' = dirs \cup {second} /\ Goto(w, "zip") /\ UNCHANGED <<batch, queue, dropped>>
    BY <1>4 DEF MakeDir
  <2>2. TypeOK'
    BY <1>1, <1>2, <2>1, MakeDirClash DEF ArchiveInv, TypeOK, Keys, Goto, PC, Creating, jira, request, loaded
  <2>3. Others(w) /\ Grows
    BY <1>1, <1>2, <2>1, MakeDirClash DEF ArchiveInv, TypeOK, Goto, Others, Local, Grows, jira, request, loaded
  <2>4. pc'[w] = "zip" /\ issue'[w] = issue[w]
    BY <1>1, <2>1 DEF ArchiveInv, TypeOK, Goto, request
  <2>5. Sane(w)'
    <3>1. batch[w].kind # "report"
      BY <1>1 DEF ArchiveInv, Sane, Queued, Packs
    <3>2. Archived(w)' /\ ~Sent(w)'
      BY <2>4 DEF Archived, Sent
    <3>. QED  BY <1>1, <2>1, <2>3, <3>1, <3>2, StaySane DEF ArchiveInv, Packs
  <2>6. ZipsKept(w) /\ Enters(w)
    <3>1. \A x \in Packing(name'[w]) \ {w} : issue[x] \in clashed' /\ issue'[w] \in clashed'
      BY <1>2, <2>4, MakeDirClash
    <3>. QED  BY <1>1, <3>1 DEF ZipsKept, Enters
  <2>. QED  BY <1>1, <2>2, <2>3, <2>5, <2>6, WorkerStep DEF jira
<1>. QED  BY <1>3, <1>4

LEMMA ZipArchives ==
  ASSUME ArchiveInv, NEW w \in Workers, Zip(w)
  PROVE  ArchiveInv'
<1>1. /\ pc[w] = "zip" /\ name[w] \in dirs
      /\ zips' = [k \in DOMAIN zips \cup {name[w]} |-> IF k = name[w] THEN batch[w].files ELSE zips[k]]
      /\ dirs' = dirs \ {name[w]} /\ Goto(w, "read")
      /\ UNCHANGED <<jira, second, request, loaded, sending, seen, history, requests, faults>>
  BY DEF Zip, PutZip
<1>2. TypeOK'
  BY <1>1, BatchType DEF ArchiveInv, TypeOK, Keys, Goto, PC, Creating, jira, request, loaded, sending, history
<1>3. Others(w) /\ Grows
  BY <1>1 DEF ArchiveInv, TypeOK, Goto, Others, Local, Grows, jira, request, loaded, sending, history
<1>4. pc'[w] = "read" /\ issue'[w] = issue[w] /\ name'[w] = name[w] /\ batch'[w] = batch[w]
  BY <1>1 DEF ArchiveInv, TypeOK, Goto, request, sending
<1>5. Sane(w)'
  <2>1. batch[w].kind # "report"
    BY <1>1 DEF ArchiveInv, Sane, Queued, Packs
  <2>2. Archived(w)' /\ ~Sent(w)'
    BY <1>1, <1>4 DEF Archived, Sent
  <2>. QED  BY <1>1, <1>3, <2>1, <2>2, StaySane DEF ArchiveInv, Packs, sending, history
<1>6. ZipsKept(w)
  <2>. SUFFICES ASSUME NEW x \in Workers \ {w}, pc[x] = "read", issue[x] \notin clashed', name[x] \in DOMAIN zips'
                PROVE  name[x] \in DOMAIN zips /\ zips'[name[x]] = zips[name[x]]
    BY DEF ZipsKept
  <2>1. name[x] # name[w]
    BY <1>1 DEF ArchiveInv, ClashKnown, history
  <2>. QED  BY <1>1, <2>1
<1>7. Enters(w)
  BY <1>1, <1>4 DEF Enters
<1>. QED  BY <1>1, <1>2, <1>3, <1>5, <1>6, <1>7, WorkerStep DEF jira

LEMMA ReadArchives ==
  ASSUME ArchiveInv, NEW w \in Workers, Read(w)
  PROVE  ArchiveInv'
<1>1. /\ pc[w] = "read" /\ name[w] \in DOMAIN zips
      /\ content' = [content EXCEPT ![w] = zips[name[w]]] /\ Goto(w, "upload")
      /\ UNCHANGED <<jira, folder, second, request, loaded, batch, queue, name, seen, history, requests, faults>>
  BY DEF Read
<1>2. zips[name[w]] \in SUBSET Files
  BY <1>1 DEF ArchiveInv, TypeOK
<1>3. TypeOK'
  BY <1>1, <1>2 DEF ArchiveInv, TypeOK, Keys, Goto, PC, Creating, jira, folder, request, loaded, history
<1>4. Others(w) /\ Grows
  BY <1>1 DEF ArchiveInv, TypeOK, Goto, Others, Local, Grows, jira, request, loaded, history
<1>5. pc'[w] = "upload" /\ issue'[w] = issue[w] /\ content'[w] = zips[name[w]] /\ batch'[w] = batch[w]
  BY <1>1 DEF ArchiveInv, TypeOK, Goto, request
<1>6. Sane(w)'
  <2>1. batch[w].kind # "report"
    BY <1>1 DEF ArchiveInv, Sane, Queued, Packs
  <2>2. Archived(w)' /\ ~Sent(w)'
    BY <1>1, <1>5 DEF ArchiveInv, Sane, Archived, Sent, history
  <2>. QED  BY <1>1, <1>4, <2>1, <2>2, StaySane DEF ArchiveInv, Packs, history
<1>7. ZipsKept(w) /\ Enters(w)
  BY <1>1, <1>5 DEF ZipsKept, Enters, folder
<1>. QED  BY <1>1, <1>3, <1>4, <1>6, <1>7, WorkerStep DEF jira

\* What a written note leaves in the description.
LEMMA NoteType ==
  ASSUME ArchiveInv, NEW w \in Workers, pc[w] \in Packs, WriteNote(w) \/ UNCHANGED <<described, overtaken>>
  PROVE  described' \in [Issues -> SUBSET Files] /\ overtaken' \subseteq Workers
<1>1. batch[w].files \in SUBSET Files
  BY BatchType DEF ArchiveInv
<1>2. /\ described \in [Issues -> SUBSET Files] /\ overtaken \subseteq Workers
      /\ seen[w] \in SUBSET Files /\ Overtaken(w) \subseteq Workers
  BY DEF ArchiveInv, TypeOK, Overtaken
<1>3. CASE WriteNote(w)
  <2>1. seen[w] \cup batch[w].files \in SUBSET Files
    BY <1>1, <1>2
  <2>. QED  BY <1>2, <1>3, <2>1 DEF WriteNote
<1>4. CASE UNCHANGED <<described, overtaken>>
  BY <1>2, <1>4
<1>. QED  BY <1>3, <1>4

LEMMA FailsArchives ==
  ASSUME ArchiveInv, NEW w \in Workers,
         \/ ZipFails(w) \/ ReadFails(w) \/ RemoveFails(w)
         \/ \E written \in BOOLEAN : EditFails(w, written)
  PROVE  ArchiveInv'
<1>1. /\ pc[w] \in Packs
      /\ \E inElse \in BOOLEAN : Raise(w, inElse)
      /\ UNCHANGED zips \/ \E n : RemoveZip(n)
      /\ WriteNote(w) \/ UNCHANGED <<described, overtaken>>
      /\ UNCHANGED <<epics, story, attached, dirs, second, request, loaded, name, content, seen, told,
                     clashed, asked, contested>>
      /\ UNCHANGED <<requests, faults>> \/ Fault(TRUE)
  <2>1. CASE ZipFails(w) \/ ReadFails(w) \/ RemoveFails(w)
    BY <2>1 DEF ZipFails, ReadFails, RemoveFails, Packs, folder, jira
  <2>2. CASE \E written \in BOOLEAN : EditFails(w, written)
    <3>1. (batch[w].kind # "large") \in BOOLEAN
      OBVIOUS
    <3>. QED  BY <2>2, <3>1 DEF EditFails, Packs
  <2>. QED  BY <2>1, <2>2
<1>2. requests' = requests /\ faults' \in 0 .. MaxFaults
  BY <1>1, FaultType DEF ArchiveInv, TypeOK
<1>3. /\ dirs' \subseteq Seconds /\ name' \in [Workers -> Seconds] /\ clashed' \subseteq Issues
      /\ attached' \in [Issues -> SUBSET Files] /\ UNCHANGED <<attached, name, clashed>>
  BY <1>1 DEF ArchiveInv, TypeOK
<1>4. described' \in [Issues -> SUBSET Files] /\ overtaken' \subseteq Workers
  BY <1>1, NoteType
<1>. QED  BY <1>1, <1>2, <1>3, <1>4, RaiseStep

\* A step after which the next batch comes.
LEMMA ProceedStep ==
  ASSUME ArchiveInv, NEW w \in Workers, pc[w] \in Packs, NEW q \in Seq(Batches), Proceed(w, q), TypeOK',
         UNCHANGED <<request, loaded, name, content, dropped, attached, asked, clashed>>,
         UNCHANGED zips \/ \E n : RemoveZip(n),
         \A x \in Workers \ {w} : told'[x] = told[x],
         told[w] \subseteq told'[w],
         Content(q) \subseteq wanted[w],
         \A i \in DOMAIN q : q[i].kind \in {"part", "large"},
         issue[w] \notin clashed => wanted[w] \subseteq Settled(w) \cup Content(q) \cup missing[w]
  PROVE  ArchiveInv'
<1>1. Others(w) /\ Grows
  BY ProceedType DEF ArchiveInv, Others, Local, Grows, request, loaded
<1>2. Settled(w) \subseteq Settled(w)'
  BY DEF Settled, request
<1>3. Sane(w)'
  BY <1>1, <1>2, ProceedSane DEF ArchiveInv
<1>4. ZipsKept(w) /\ Enters(w)
  BY ProceedType, RemoveZipType DEF ArchiveInv, Enters
<1>. QED  BY <1>1, <1>3, <1>4, WorkerStep

\* A step to another place with the same batch, which is not where a directory is made.
LEMMA StayStep ==
  ASSUME ArchiveInv, NEW w \in Workers, pc[w] \in Packs, NEW l \in {"remove", "get", "put"}, Goto(w, l), TypeOK',
         UNCHANGED <<request, loaded, batch, queue, name, content, asked, clashed>>,
         UNCHANGED zips \/ \E n : RemoveZip(n),
         l \in {"get", "put"} => batch[w].kind # "one",
         batch[w].kind = "report" => l \in {"get", "put"},
         \A x \in Workers \ {w} : told'[x] = told[x] /\ dropped'[x] = dropped[x],
         told[w] \subseteq told'[w], dropped[w] \subseteq dropped'[w],
         \A i \in Issues : attached[i] \subseteq attached'[i],
         \A i \in Issues \ clashed : attached'[i] \subseteq attached[i] \cup asked[i],
         issue[w] \notin clashed =>
           (l = "remove" \/ batch[w].kind \in {"all", "part"} => wanted[w] \subseteq Settled(w)' \cup Rest(w))
  PROVE  ArchiveInv'
<1>1. pc'[w] = l /\ \A x \in Workers \ {w} : pc'[x] = pc[x]
  BY DEF ArchiveInv, TypeOK, Goto
<1>2. Others(w) /\ Grows
  BY <1>1 DEF Others, Local, Grows, request, loaded
<1>3. Sane(w)'
  <2>1. Archived(w)' /\ (Sent(w)' => l = "remove" \/ batch[w].kind \in {"all", "part"})
    BY <1>1 DEF Archived, Sent
  <2>. QED  BY <1>2, <2>1, StaySane DEF ArchiveInv, Packs
<1>4. ZipsKept(w) /\ Enters(w)
  BY <1>1, RemoveZipType DEF ArchiveInv, Enters
<1>. QED  BY <1>2, <1>3, <1>4, WorkerStep

LEMMA ReadTooLargeArchives ==
  ASSUME ArchiveInv, NEW w \in Workers, ReadTooLarge(w)
  PROVE  ArchiveInv'
<1>1. /\ pc[w] = "read" /\ pc[w] \in Packs
      /\ UNCHANGED <<jira, dirs, second, request, loaded, name, content, seen,
                     told, overtaken, clashed, asked, contested, requests, faults>>
  BY DEF ReadTooLarge, Packs
<1>2. CASE /\ batch[w].kind # "large" /\ Parts(w) # <<batch[w]>>
           /\ RemoveZip(name[w])
           /\ Proceed(w, Parts(w) \o queue[w])
           /\ UNCHANGED dropped
  <2>. DEFINE q == Parts(w) \o queue[w]
  <2>1. /\ Parts(w) \in Seq(Batches) /\ Content(Parts(w)) = batch[w].files
        /\ \A i \in DOMAIN Parts(w) : Parts(w)[i].kind \in {"part", "large"}
    BY BatchType, SplitIsPartition DEF ArchiveInv, Parts, IsPart, IsLarge
  <2>2. queue[w] \in Seq(Batches) /\ \A i \in DOMAIN queue[w] : queue[w][i].kind \in {"part", "large"}
    BY <1>1, BatchType DEF ArchiveInv, Sane, Queued
  <2>3. q \in Seq(Batches) /\ Content(q) = batch[w].files \cup Content(queue[w])
    BY <2>1, <2>2, ConcatBatches
  <2>4. \A i \in DOMAIN q : q[i].kind \in {"part", "large"}
    BY <2>1, <2>2, ConcatBatches
  <2>. HIDE DEF q
  <2>5. Proceed(w, q)
    BY <1>2 DEF q
  <2>6. TypeOK'
    BY <1>1, <1>2, <2>3, <2>5, ProceedType, RemoveZipType DEF ArchiveInv, TypeOK, Keys, jira, request, loaded
  <2>7. /\ Content(q) \subseteq wanted[w]
        /\ issue[w] \notin clashed => wanted[w] \subseteq Settled(w) \cup Content(q) \cup missing[w]
    BY <1>1, <2>3 DEF ArchiveInv, Sane, Queued, Accounted, Rest
  <2>. QED  BY <1>1, <1>2, <2>3, <2>4, <2>5, <2>6, <2>7, ProceedStep DEF jira
<1>3. CASE RemoveZip(name[w]) /\ Raise(w, FALSE)
  <2>1. /\ dirs' \subseteq Seconds /\ name' \in [Workers -> Seconds] /\ clashed' \subseteq Issues
        /\ faults' \in 0 .. MaxFaults /\ attached' \in [Issues -> SUBSET Files]
        /\ described' \in [Issues -> SUBSET Files] /\ overtaken' \subseteq Workers
        /\ UNCHANGED <<epics, story, attached, name, clashed, requests>>
    BY <1>1 DEF ArchiveInv, TypeOK, jira
  <2>. QED  BY <1>1, <1>3, <2>1, RaiseStep
<1>4. CASE batch[w].kind = "large" /\ Goto(w, "get") /\ UNCHANGED <<zips, batch, queue, dropped>>
  <2>1. TypeOK'
    BY <1>1, <1>4 DEF ArchiveInv, TypeOK, Keys, Goto, PC, Creating, jira, request, loaded
  <2>. QED  BY <1>1, <1>4, <2>1, StayStep DEF jira
<1>. QED  BY <1>2, <1>3, <1>4 DEF ReadTooLarge

\* What an upload attaches is wanted there.
LEMMA UploadAttaches ==
  ASSUME ArchiveInv, NEW w \in Workers, pc[w] = "upload", Attach(issue[w], content[w]) \/ UNCHANGED attached
  PROVE  /\ attached' \in [Issues -> SUBSET Files]
         /\ \A i \in Issues : attached[i] \subseteq attached'[i]
         /\ \A i \in Issues \ clashed : attached'[i] \subseteq attached[i] \cup asked[i]
<1>1. /\ issue[w] \in Issues /\ wanted[w] \subseteq asked[issue[w]] /\ batch[w].files \subseteq wanted[w]
      /\ issue[w] \notin clashed => content[w] = batch[w].files
  BY DEF ArchiveInv, Sane, Placed, Queued, Archived, Packs
<1>2. attached \in [Issues -> SUBSET Files] /\ content[w] \in SUBSET Files
  BY DEF ArchiveInv, TypeOK
<1>3. CASE UNCHANGED attached
  BY <1>2, <1>3
<1>4. CASE attached' = [attached EXCEPT ![issue[w]] = attached[issue[w]] \cup content[w]]
  BY <1>1, <1>2, <1>4
<1>. QED  BY <1>3, <1>4 DEF Attach

LEMMA UploadArchives ==
  ASSUME ArchiveInv, NEW w \in Workers, Upload(w)
  PROVE  ArchiveInv'
<1>1. /\ pc[w] = "upload" /\ pc[w] \in Packs /\ Attach(issue[w], content[w]) /\ Goto(w, "remove")
      /\ UNCHANGED <<epics, story, described, folder, second, request, loaded, sending, seen, history, requests, faults>>
  BY DEF Upload, Packs
<1>2. TypeOK'
  BY <1>1, UploadAttaches DEF ArchiveInv, TypeOK, Keys, Goto, PC, Creating, folder, request, loaded, sending, history
<1>3. issue[w] \notin clashed => wanted[w] \subseteq Settled(w)' \cup Rest(w)
  <2>1. issue[w] \in Issues
    BY <1>1 DEF ArchiveInv, Sane, Placed
  <2>2. Settled(w)' = Settled(w) \cup content[w]
    BY <1>1, <2>1 DEF ArchiveInv, TypeOK, Attach, Settled, request, history
  <2>. QED  BY <1>1, <2>2 DEF ArchiveInv, Sane, Accounted, Archived
<1>4. batch[w].kind # "report"
  BY <1>1 DEF ArchiveInv, Sane, Queued
<1>. QED  BY <1>1, <1>2, <1>3, <1>4, UploadAttaches, StayStep DEF folder, sending, history

LEMMA UploadRefusedArchives ==
  ASSUME ArchiveInv, NEW w \in Workers, UploadRefused(w)
  PROVE  ArchiveInv'
<1>1. /\ pc[w] = "upload" /\ pc[w] \in Packs /\ Fault(TRUE)
      /\ UNCHANGED <<jira, dirs, second, request, loaded, sending, seen,
                     told, overtaken, clashed, asked, contested>>
  BY DEF UploadRefused, Packs
<1>2. requests' = requests /\ faults' \in 0 .. MaxFaults
  BY <1>1, FaultType DEF ArchiveInv
<1>3. CASE RemoveZip(name[w]) /\ Goto(w, "failed") /\ UNCHANGED dropped
  <2>1. TypeOK'
    BY <1>1, <1>2, <1>3, RemoveZipType DEF ArchiveInv, TypeOK, Keys, Goto, PC, Creating, jira, request, loaded, sending
  <2>2. Others(w) /\ Grows
    BY <1>1, <1>3 DEF ArchiveInv, TypeOK, Goto, Others, Local, Grows, jira, request, loaded, sending
  <2>3. Sane(w)'
    BY <1>1, <1>3, QuietSane DEF ArchiveInv, sending, Creating
  <2>4. ZipsKept(w) /\ Enters(w)
    BY <1>3, RemoveZipType DEF ArchiveInv, TypeOK, Goto, Enters
  <2>. QED  BY <1>1, <2>1, <2>2, <2>3, <2>4, WorkerStep DEF jira
<1>4. CASE Drop(w, batch[w].files) /\ Goto(w, "remove") /\ UNCHANGED zips
  <2>1. TypeOK'
    BY <1>1, <1>2, <1>4, BatchType DEF ArchiveInv, TypeOK, Keys, Goto, Drop, PC, Creating, jira, request, loaded, sending
  <2>2. dropped'[w] = dropped[w] \cup batch[w].files /\ \A x \in Workers \ {w} : dropped'[x] = dropped[x]
    BY <1>4 DEF ArchiveInv, TypeOK, Drop
  <2>3. issue[w] \notin clashed => wanted[w] \subseteq Settled(w)' \cup Rest(w)
    BY <1>1, <2>2 DEF ArchiveInv, Sane, Accounted, Settled, jira, request
  <2>4. batch[w].kind # "report"
    BY <1>1 DEF ArchiveInv, Sane, Queued
  <2>. QED  BY <1>1, <1>4, <2>1, <2>2, <2>3, <2>4, StayStep DEF jira, sending
<1>. QED  BY <1>3, <1>4 DEF UploadRefused

LEMMA UploadUnansweredArchives ==
  ASSUME ArchiveInv, NEW w \in Workers, NEW arrived \in BOOLEAN, UploadUnanswered(w, arrived)
  PROVE  ArchiveInv'
<1>1. /\ pc[w] = "upload" /\ pc[w] \in Packs /\ (Attach(issue[w], content[w]) \/ UNCHANGED attached)
      /\ RemoveZip(name[w]) /\ Raise(w, FALSE) /\ Fault(TRUE)
      /\ UNCHANGED <<epics, story, described, dirs, second, request, loaded, name, content, seen,
                     told, overtaken, clashed, asked, contested>>
  BY DEF UploadUnanswered, Packs
<1>2. requests' = requests /\ faults' \in 0 .. MaxFaults
  BY <1>1, FaultType DEF ArchiveInv
<1>3. /\ dirs' \subseteq Seconds /\ name' \in [Workers -> Seconds] /\ clashed' \subseteq Issues
      /\ described' \in [Issues -> SUBSET Files] /\ overtaken' \subseteq Workers
  BY <1>1 DEF ArchiveInv, TypeOK
<1>. QED  BY <1>1, <1>2, <1>3, UploadAttaches, RaiseStep

LEMMA RemoveArchives ==
  ASSUME ArchiveInv, NEW w \in Workers, Remove(w)
  PROVE  ArchiveInv'
<1>1. /\ pc[w] = "remove" /\ pc[w] \in Packs /\ RemoveZip(name[w])
      /\ UNCHANGED <<jira, dirs, second, request, loaded, name, content, seen, history, requests, faults>>
  BY DEF Remove, Packs
<1>2. /\ issue[w] \in Issues /\ wanted[w] \subseteq asked[issue[w]] /\ batch[w].kind \notin {"none", "report"}
      /\ issue[w] \notin clashed => wanted[w] \subseteq Settled(w) \cup Rest(w)
  BY <1>1 DEF ArchiveInv, Sane, Placed, Queued, Accounted, Sent
<1>3. CASE batch[w].kind \in {"all", "part"}
  <2>1. Goto(w, "get") /\ UNCHANGED <<batch, queue>>
    BY <1>3, Zenon DEF Remove
  <2>2. TypeOK'
    BY <1>1, <2>1, RemoveZipType DEF ArchiveInv, TypeOK, Keys, Goto, PC, Creating, jira, request, loaded, history
  <2>3. Settled(w)' = Settled(w)
    BY <1>1 DEF Settled, jira, request, history
  <2>. QED  BY <1>1, <1>2, <1>3, <2>1, <2>2, <2>3, StayStep DEF jira, history
<1>4. CASE batch[w].kind = "large"
  <2>1. Proceed(w, queue[w])
    BY <1>4, Zenon DEF Remove
  <2>2. queue[w] \in Seq(Batches) /\ Content(queue[w]) \subseteq wanted[w]
        /\ \A i \in DOMAIN queue[w] : queue[w][i].kind \in {"part", "large"}
    BY <1>1, BatchType DEF ArchiveInv, Sane, Queued
  <2>3. TypeOK'
    BY <1>1, <2>1, <2>2, ProceedType, RemoveZipType DEF ArchiveInv, TypeOK, Keys, jira, request, loaded, history
  <2>. QED  BY <1>1, <1>2, <2>1, <2>2, <2>3, ProceedStep DEF Rest, jira, history
<1>5. CASE batch[w].kind = "one"
  <2>1. Goto(w, "ok") /\ UNCHANGED <<batch, queue>>
    BY <1>5, Zenon DEF Remove
  <2>2. TypeOK'
    BY <1>1, <2>1, RemoveZipType DEF ArchiveInv, TypeOK, Keys, Goto, PC, Creating, jira, request, loaded, history
  <2>3. Others(w) /\ Grows
    BY <1>1, <2>1 DEF ArchiveInv, TypeOK, Goto, Others, Local, Grows, jira, request, loaded, history
  <2>4. Settled(w)' = Settled(w) /\ Rest(w) = {}
    BY <1>1, <1>5, NoContent DEF ArchiveInv, Sane, Queued, Settled, Rest, jira, request, history
  <2>5. Sane(w)'
    BY <1>1, <1>2, <2>1, <2>3, <2>4, AnswerSane DEF ArchiveInv, history
  <2>6. ZipsKept(w) /\ Enters(w)
    BY <1>1, <2>1, RemoveZipType DEF ArchiveInv, TypeOK, Goto, Enters
  <2>. QED  BY <1>1, <2>2, <2>3, <2>5, <2>6, WorkerStep DEF jira
<1>6. batch[w].kind \in Kinds
  BY DEF ArchiveInv, TypeOK, Batches
<1>. QED  BY <1>2, <1>3, <1>4, <1>5, <1>6 DEF Kinds

(***************************************************************************)
(* edit_issue                                                              *)
(***************************************************************************)

LEMMA EditGetArchives ==
  ASSUME ArchiveInv, NEW w \in Workers, EditGet(w)
  PROVE  ArchiveInv'
<1>1. /\ pc[w] = "get" /\ pc[w] \in Packs
      /\ seen' = [seen EXCEPT ![w] = described[issue[w]]]
      /\ overtaken' = overtaken \ {w} /\ Goto(w, "put")
      /\ UNCHANGED <<jira, folder, second, request, loaded, sending, told, dropped, clashed, asked, contested, requests, faults>>
  BY DEF EditGet, Packs
<1>2. /\ issue[w] \in Issues /\ batch[w].kind # "one"
      /\ issue[w] \notin clashed => (batch[w].kind \in {"all", "part"} => wanted[w] \subseteq Settled(w) \cup Rest(w))
  BY <1>1 DEF ArchiveInv, Sane, Placed, Queued, Accounted, Sent
<1>3. TypeOK'
  BY <1>1, <1>2 DEF ArchiveInv, TypeOK, Keys, Goto, PC, Creating, jira, folder, request, loaded, sending
<1>4. Settled(w)' = Settled(w)
  BY <1>1 DEF Settled, jira, request
<1>. QED  BY <1>1, <1>2, <1>3, <1>4, StayStep DEF jira, folder, sending

\* Jira has answered to a note, and has taken it or not.
LEMMA NoteStep ==
  ASSUME ArchiveInv, NEW w \in Workers, pc[w] = "put", WriteNote(w) \/ UNCHANGED <<described, overtaken>>,
         UNCHANGED <<epics, story, attached, folder, second, request, loaded, name, content, seen,
                     clashed, asked, contested, requests>>,
         faults' \in 0 .. MaxFaults,
         \/ /\ batch[w].kind \in {"all", "part"}
            /\ Proceed(w, queue[w]) /\ UNCHANGED <<told, dropped>>
         \/ /\ batch[w].kind = "large"
            /\ Goto(w, "remove") /\ Tell(w, batch[w].files) /\ UNCHANGED <<batch, queue, dropped>>
         \/ /\ batch[w].kind = "report"
            /\ \E l \in {"failed", "ok"} : Goto(w, l)
            /\ \/ Tell(w, batch[w].files) /\ UNCHANGED dropped
               \/ Drop(w, batch[w].files) /\ UNCHANGED told
            /\ UNCHANGED <<batch, queue>>
  PROVE  ArchiveInv'
<1>1. pc[w] \in Packs
  BY DEF Packs
<1>2. /\ issue[w] \in Issues /\ wanted[w] \subseteq asked[issue[w]]
      /\ issue[w] \notin clashed => wanted[w] \subseteq Settled(w) \cup Rest(w) \cup batch[w].files
      /\ issue[w] \notin clashed => (batch[w].kind \in {"all", "part"} => wanted[w] \subseteq Settled(w) \cup Rest(w))
  BY <1>1 DEF ArchiveInv, Sane, Placed, Queued, Accounted, Sent
<1>3. batch[w].files \in SUBSET Files /\ queue[w] \in Seq(Batches)
  BY BatchType DEF ArchiveInv
<1>4. described' \in [Issues -> SUBSET Files] /\ overtaken' \subseteq Workers
  BY <1>1, NoteType
<1>5. CASE batch[w].kind \in {"all", "part"}
  <2>1. Proceed(w, queue[w]) /\ UNCHANGED <<told, dropped>>
    BY <1>5, Zenon
  <2>2. Content(queue[w]) \subseteq wanted[w] /\ \A i \in DOMAIN queue[w] : queue[w][i].kind \in {"part", "large"}
    BY <1>1 DEF ArchiveInv, Sane, Queued
  <2>3. TypeOK'
    BY <1>3, <1>4, <2>1, ProceedType DEF ArchiveInv, TypeOK, Keys, folder, request, loaded
  <2>. QED  BY <1>1, <1>2, <1>3, <1>5, <2>1, <2>2, <2>3, ProceedStep DEF Rest, folder
<1>6. CASE batch[w].kind = "large"
  <2>1. Goto(w, "remove") /\ Tell(w, batch[w].files) /\ UNCHANGED <<batch, queue, dropped>>
    BY <1>6, Zenon
  <2>2. TypeOK'
    BY <1>3, <1>4, <2>1 DEF ArchiveInv, TypeOK, Keys, Goto, Tell, PC, Creating, folder, request, loaded
  <2>3. told'[w] = told[w] \cup batch[w].files /\ \A x \in Workers \ {w} : told'[x] = told[x]
    BY <2>1 DEF ArchiveInv, TypeOK, Tell
  <2>4. Settled(w)' = Settled(w) \cup batch[w].files
    BY <2>1, <2>3 DEF Settled, request
  <2>. QED  BY <1>1, <1>2, <1>6, <2>1, <2>2, <2>3, <2>4, StayStep DEF folder
<1>7. CASE batch[w].kind = "report"
  <2>1. PICK l \in {"failed", "ok"} : Goto(w, l)
    BY <1>7
  <2>2. /\ UNCHANGED <<batch, queue>>
        /\ \/ Tell(w, batch[w].files) /\ UNCHANGED dropped
           \/ Drop(w, batch[w].files) /\ UNCHANGED told
    BY <1>7, Zenon
  <2>3. /\ told' \in [Workers -> SUBSET Files] /\ dropped' \in [Workers -> SUBSET Files]
        /\ told'[w] \cup dropped'[w] = told[w] \cup dropped[w] \cup batch[w].files
        /\ \A x \in Workers \ {w} : told'[x] = told[x] /\ dropped'[x] = dropped[x]
    <3>1. told \in [Workers -> SUBSET Files] /\ dropped \in [Workers -> SUBSET Files]
      BY DEF ArchiveInv, TypeOK
    <3>2. CASE Tell(w, batch[w].files) /\ UNCHANGED dropped
      <4>1. told[w] \cup batch[w].files \in SUBSET Files
        BY <1>3, <3>1
      <4>. QED  BY <3>1, <3>2, <4>1 DEF Tell
    <3>3. CASE Drop(w, batch[w].files) /\ UNCHANGED told
      <4>1. dropped[w] \cup batch[w].files \in SUBSET Files
        BY <1>3, <3>1
      <4>. QED  BY <3>1, <3>3, <4>1 DEF Drop
    <3>. QED  BY <2>2, <3>2, <3>3
  <2>4. TypeOK'
    BY <1>3, <1>4, <2>1, <2>2, <2>3 DEF ArchiveInv, TypeOK, Keys, Goto, PC, Creating, folder, request, loaded
  <2>5. Settled(w)' = Settled(w) \cup batch[w].files /\ Rest(w) = batch[w].files
    BY <1>1, <1>7, <2>3, NoContent DEF ArchiveInv, Sane, Queued, Settled, Rest, request
  <2>6. Others(w) /\ Grows
    BY <2>1, <2>2, <2>3 DEF ArchiveInv, TypeOK, Goto, Others, Local, Grows, request, loaded
  <2>7. Sane(w)'
    <3>1. CASE l = "failed"
      BY <2>1, <2>2, <3>1, QuietSane DEF ArchiveInv, Creating
    <3>2. CASE l = "ok"
      BY <1>1, <1>2, <2>1, <2>5, <2>6, <3>2, AnswerSane DEF ArchiveInv
    <3>. QED  BY <3>1, <3>2
  <2>8. ZipsKept(w) /\ Enters(w)
    BY <2>1, RemoveZipType DEF ArchiveInv, TypeOK, Goto, Enters, folder
  <2>. QED  BY <2>4, <2>6, <2>7, <2>8, WorkerStep
<1>. QED  BY <1>5, <1>6, <1>7

LEMMA EditPutArchives ==
  ASSUME ArchiveInv, NEW w \in Workers, EditPut(w) \/ EditRefused(w)
  PROVE  ArchiveInv'
<1>1. /\ pc[w] = "put"
      /\ WriteNote(w) \/ UNCHANGED <<described, overtaken>>
      /\ UNCHANGED <<epics, story, attached, folder, second, request, loaded, name, content, seen,
                     clashed, asked, contested>>
      /\ UNCHANGED <<requests, faults>> \/ Fault(TRUE)
  BY DEF EditPut, EditRefused, jira
<1>2. requests' = requests /\ faults' \in 0 .. MaxFaults
  BY <1>1, FaultType DEF ArchiveInv, TypeOK
<1>3. batch[w].kind \in {"all", "part", "large", "report"}
  BY <1>1, BatchType DEF ArchiveInv, Sane, Queued, Packs, Batches, Kinds
<1>4. CASE EditPut(w)
  <2>1. CASE batch[w].kind \in {"all", "part"}
    BY <1>1, <1>2, <1>4, <2>1, NoteStep DEF EditPut
  <2>2. CASE batch[w].kind = "large"
    BY <1>1, <1>2, <1>4, <2>2, NoteStep DEF EditPut
  <2>3. CASE batch[w].kind = "report"
    BY <1>1, <1>2, <1>4, <2>3, NoteStep DEF EditPut
  <2>. QED  BY <1>3, <2>1, <2>2, <2>3
<1>5. CASE EditRefused(w)
  <2>1. CASE batch[w].kind \in {"all", "part"}
    BY <1>1, <1>2, <1>5, <2>1, NoteStep DEF EditRefused
  <2>2. CASE batch[w].kind = "large"
    BY <1>1, <1>2, <1>5, <2>2, NoteStep DEF EditRefused
  <2>3. CASE batch[w].kind = "report"
    BY <1>1, <1>2, <1>5, <2>3, NoteStep DEF EditRefused
  <2>. QED  BY <1>3, <2>1, <2>2, <2>3
<1>. QED  BY <1>4, <1>5

(***************************************************************************)
(* The theorems                                                            *)
(***************************************************************************)

LEMMA InitArchives == Init => ArchiveInv
<1>. SUFFICES ASSUME Init
              PROVE  ArchiveInv
  OBVIOUS
<1>1. NoBatch \in Batches /\ <<>> \in Seq(Batches) /\ 0 \in Seconds
  BY NoContent, ConstantsAssumption DEF NoBatch, Batches, Kinds, Seconds
<1>2. TypeOK
  BY <1>1, ConstantsAssumption DEF Init, TypeOK, Keys, PC, Creating, Seconds
<1>3. ASSUME NEW w \in Workers
      PROVE  Sane(w)
  <2>1. pc[w] = "idle" /\ queue[w] = <<>>
    BY DEF Init
  <2>. QED  BY <2>1 DEF Sane, Placed, Loaded, Queued, Accounted, Archived, Sent, Packs, Creating
<1>4. ClashKnown /\ OwnFilesOnly
  BY DEF Init, ClashKnown, OwnFilesOnly
<1>. QED  BY <1>2, <1>3, <1>4 DEF ArchiveInv

\* A step that is no worker's.
LEMMA StutterArchives ==
  ASSUME ArchiveInv, Tick \/ UNCHANGED vars
  PROVE  ArchiveInv'
<1>1. /\ UNCHANGED <<jira, folder, pc, request, loaded, sending, seen, history, requests, faults>>
      /\ second' \in Seconds
  BY ConstantsAssumption DEF ArchiveInv, TypeOK, Tick, vars, Seconds
<1>2. TypeOK'
  BY <1>1 DEF ArchiveInv, TypeOK, Keys, jira, folder, request, loaded, sending, history
<1>3. ASSUME NEW w \in Workers
      PROVE  Sane(w)'
  BY <1>1 DEF ArchiveInv, Sane, Placed, Loaded, Queued, Accounted, Settled, Rest, Sent, Archived,
              jira, folder, request, loaded, sending, history
<1>4. ClashKnown' /\ OwnFilesOnly'
  BY <1>1 DEF ArchiveInv, ClashKnown, OwnFilesOnly, jira, request, sending, history
<1>. QED  BY <1>2, <1>3, <1>4 DEF ArchiveInv

LEMMA NextArchives == ArchiveInv /\ [Next]_vars => ArchiveInv'
<1>. SUFFICES ASSUME ArchiveInv, [Next]_vars
              PROVE  ArchiveInv'
  OBVIOUS
<1>1. CASE Tick \/ UNCHANGED vars
  BY <1>1, StutterArchives
<1>2. ASSUME NEW w \in Workers, \/ \E s \in Summaries, ns \in Links \cup {{}} : StoryStart(w, s, ns)
                                \/ \E i \in Issues, ns \in Links : AttachStart(w, i, ns)
                                \/ \E i \in Issues : CreateStory(w, i)
                                \/ \E arrived, ok \in BOOLEAN : CreateEpic(w, arrived, ok)
                                \/ \E arrived \in BOOLEAN : CreateUnanswered(w, arrived)
                                \/ Search(w) \/ FindEpic(w) \/ Refused(w)
      PROVE  ArchiveInv'
  BY <1>2, StoryStartArchives, AttachStartArchives, CreateStoryArchives, CreatingArchives
<1>3. ASSUME NEW w \in Workers, \/ \E fs \in SUBSET Files : Download(w, fs) \/ SendSingly(w, fs)
                                \/ DownloadFails(w) \/ Answer(w) \/ Kill(w)
      PROVE  ArchiveInv'
  BY <1>3, DownloadArchives, SendSinglyArchives, DownloadFailsArchives, LeaveArchives
<1>4. ASSUME NEW w \in Workers, \/ MakeDir(w) \/ Zip(w) \/ Read(w) \/ ReadTooLarge(w)
                                \/ ZipFails(w) \/ ReadFails(w) \/ RemoveFails(w)
                                \/ \E written \in BOOLEAN : EditFails(w, written)
      PROVE  ArchiveInv'
  BY <1>4, MakeDirArchives, ZipArchives, ReadArchives, ReadTooLargeArchives, FailsArchives
<1>5. ASSUME NEW w \in Workers, \/ Upload(w) \/ UploadRefused(w) \/ \E arrived \in BOOLEAN : UploadUnanswered(w, arrived)
                                \/ Remove(w) \/ EditGet(w) \/ EditPut(w) \/ EditRefused(w)
      PROVE  ArchiveInv'
  BY <1>5, UploadArchives, UploadRefusedArchives, UploadUnansweredArchives, RemoveArchives,
     EditGetArchives, EditPutArchives
<1>. QED  BY <1>1, <1>2, <1>3, <1>4, <1>5 DEF Next

LEMMA ArchivesInvariant == Spec => []ArchiveInv
BY InitArchives, NextArchives, PTL DEF Spec

\* Every state has its types.
THEOREM TypeCorrect == Spec => []TypeOK
<1>1. ArchiveInv => TypeOK
  BY DEF ArchiveInv
<1>. QED  BY <1>1, ArchivesInvariant, PTL

(* An issue gets only files that a request wanted there, unless two archives of one
   name met: for any number of workers, files and issues in one upload folder. *)
THEOREM OwnFilesOnlyAlways == Spec => []OwnFilesOnly
<1>1. ArchiveInv => OwnFilesOnly
  BY DEF ArchiveInv
<1>. QED  BY <1>1, ArchivesInvariant, PTL

(* A request to attach files that is answered with "ok" has attached each of them, or
   named it as missing, or given it up at one of the places that FilesAccounted names. *)
THEOREM FilesAccountedAlways == Spec => []FilesAccounted
<1>1. ArchiveInv => FilesAccounted
  BY DEF ArchiveInv, Sane, Accounted, Settled, FilesAccounted
<1>. QED  BY <1>1, ArchivesInvariant, PTL
=============================================================================
