--------------------------- MODULE SourceTextProofs ---------------------------
(***************************************************************************)
(* Proofs about SourceText for documents of any length: what normalising,  *)
(* cutting into chunks and searching keep of a text.                       *)
(***************************************************************************)
EXTENDS SourceText, SequenceTheorems, WellFoundedInduction, TLAPS

-----------------------------------------------------------------------------
(* Induction, by the least number that is not in a set, and what a Fold    *)
(* does with one more item.                                                *)

LEMMA Induct ==
  ASSUME NEW X, 0 \in X, \A n \in Nat : n \in X => n + 1 \in X
  PROVE  Nat \subseteq X
<1> SUFFICES ASSUME NEW z \in Nat \ X PROVE FALSE
  OBVIOUS
<1> DEFINE R == OpToRel(<, Nat)
           T == Nat \ X
<1>1. \A m, n \in Nat : m < n => <<m, n>> \in R
  BY DEF OpToRel
<1>2. IsWellFoundedOn(R, Nat)
  BY NatLessThanWellFounded, Zenon
<1> HIDE DEF R
<1>3. PICK n \in T : \A m \in T : ~(<<m, n>> \in R)
  <2>1. T \subseteq Nat /\ T # {}
    OBVIOUS
  <2> HIDE DEF T
  <2> QED
    BY <1>2, <2>1, WFMin
<1>4. n # 0
  OBVIOUS
<1>5. n - 1 \in Nat /\ n - 1 < n
  BY <1>4
<1>6. n - 1 \in X
  BY <1>1, <1>3, <1>5
<1>7. (n - 1) + 1 \in X
  BY <1>5, <1>6
<1> QED
  BY <1>5, <1>7

\* Sequences grow at their end.
LEMMA Grow ==
  ASSUME NEW T, NEW X, <<>> \in X,
         \A s \in Seq(T), x \in T : s \in X => Append(s, x) \in X
  PROVE  Seq(T) \subseteq X
<1> DEFINE N == {n \in Nat : \A s \in Seq(T) : Len(s) = n => s \in X}
<1>1. 0 \in N
  BY EmptySeq
<1>2. ASSUME NEW n \in Nat, n \in N PROVE n + 1 \in N
  <2> SUFFICES ASSUME NEW s \in Seq(T), Len(s) = n + 1 PROVE s \in X
    BY <1>2
  <2>1. s # <<>>
    BY <1>2
  <2>2. PICK r \in Seq(T), x \in T : s = Append(r, x)
    BY <2>1, SequenceEmptyOrAppend
  <2>3. Len(r) \in Nat /\ Len(s) = Len(r) + 1
    BY <2>2, AppendProperties, LenProperties
  <2>4. r \in X
    BY <1>2, <2>3
  <2> QED
    BY <2>2, <2>4
<1>3. Nat \subseteq N
  <2> HIDE DEF N
  <2> QED
    BY <1>1, <1>2, Induct
<1> QED
  BY <1>3, LenProperties

\* What is done in A from base on, with each item of T.
Steps(A, T, base, step) == base \in A /\ step \in [T -> [A -> A]]

Ends(A, N, base, step) ==
  \E f \in [0 .. N -> A] : f[0] = base /\ \A n \in 1 .. N : f[n] = step[n][f[n - 1]]

LEMMA Recursion ==
  ASSUME NEW A, NEW N \in Nat, NEW D, D = 1 .. N, NEW base, NEW step, Steps(A, D, base, step)
  PROVE  Ends(A, N, base, step)
<1> USE DEF Steps
<1> DEFINE Ok(k) == \E f \in [0 .. k -> A] :
                       f[0] = base /\ \A n \in 1 .. k : f[n] = step[n][f[n - 1]]
           X == {k \in Nat : k <= N => Ok(k)}
<1>1. Ok(0)
  <2> DEFINE f == [n \in 0 .. 0 |-> base]
  <2>1. f \in [0 .. 0 -> A] /\ f[0] = base /\ \A n \in 1 .. 0 : f[n] = step[n][f[n - 1]]
    OBVIOUS
  <2> HIDE DEF f
  <2> QED
    BY <2>1
<1>2. ASSUME NEW k \in Nat, k + 1 <= N, Ok(k) PROVE Ok(k + 1)
  <2>1. PICK f \in [0 .. k -> A] : f[0] = base /\ \A n \in 1 .. k : f[n] = step[n][f[n - 1]]
    BY <1>2
  <2> DEFINE g == [n \in 0 .. k + 1 |-> IF n = k + 1 THEN step[k + 1][f[k]] ELSE f[n]]
  <2>2. step[k + 1][f[k]] \in A
    BY <1>2
  <2>3. g \in [0 .. k + 1 -> A]
    BY <2>2
  <2>4. g[0] = base
    BY <2>1
  <2>5. \A n \in 1 .. k + 1 : g[n] = step[n][g[n - 1]]
    BY <2>1
  <2> QED
    BY <2>3, <2>4, <2>5
<1> HIDE DEF Ok
<1>3. 0 \in X
  BY <1>1
<1>4. \A k \in Nat : k \in X => k + 1 \in X
  BY <1>2
<1>5. Nat \subseteq X
  <2> HIDE DEF X
  <2> QED
    BY <1>3, <1>4, Induct
<1>6. Ok(N)
  BY <1>5
<1> QED
  BY <1>6 DEF Ok, Ends

\* ends[s] is where the function runs[s] of a Fold over s ends, which takes the
\* steps if any function does.
Folds(A, T, base, step, runs, ends) ==
  \A s \in Seq(T) : ends[s] = runs[s][Len(s)] /\ \A f \in [0 .. Len(s) -> A] :
    f[0] = base /\ (\A n \in 1 .. Len(s) : f[n] = step[s[n]][f[n - 1]]) =>
      /\ runs[s][0] = base
      /\ \A n \in 1 .. Len(s) :
           runs[s][n - 1] \in A => runs[s][n] = step[s[n]][runs[s][n - 1]]

\* A Fold is a step from the Fold over the items but the last.
LEMMA FoldSteps ==
  ASSUME NEW A, NEW T, NEW base, NEW step, NEW runs, NEW ends,
         Steps(A, T, base, step), Folds(A, T, base, step, runs, ends)
  PROVE  /\ \A s \in Seq(T) : ends[s] \in A
         /\ ends[<<>>] = base
         /\ \A s \in Seq(T), x \in T : ends[Append(s, x)] = step[x][ends[s]]
<1>1. ASSUME NEW s \in Seq(T)
      PROVE  /\ runs[s][0] = base
             /\ \A n \in 0 .. Len(s) : runs[s][n] \in A
             /\ \A n \in 1 .. Len(s) : runs[s][n] = step[s[n]][runs[s][n - 1]]
  <2> DEFINE N == Len(s)
             own == [n \in 1 .. N |-> step[s[n]]]
  <2>1. N \in Nat /\ \A n \in 1 .. N : s[n] \in T
    BY LenProperties, ElementOfSeq
  <2>2. Steps(A, 1 .. N, base, own)
    BY <2>1 DEF Steps
  <2>3. Ends(A, N, base, own)
    <3> DEFINE D == 1 .. N
    <3>1. N \in Nat /\ D = 1 .. N /\ Steps(A, D, base, own)
      BY <2>1, <2>2
    <3> HIDE DEF own, N, D
    <3> QED
      BY <3>1, Recursion
  <2>0. PICK f \in [0 .. N -> A] : f[0] = base /\ \A n \in 1 .. N : f[n] = own[n][f[n - 1]]
    <3> HIDE DEF own, N
    <3> QED
      BY <2>3 DEF Ends
  <2>4. \A n \in 1 .. N : f[n] = step[s[n]][f[n - 1]]
    BY <2>1, <2>0
  <2>5. /\ runs[s][0] = base
        /\ \A n \in 1 .. N :
             runs[s][n - 1] \in A => runs[s][n] = step[s[n]][runs[s][n - 1]]
    BY <2>0, <2>4 DEF Folds
  <2> DEFINE X == {n \in Nat : n <= N => runs[s][n] \in A}
  <2>6. 0 \in X
    BY <2>5 DEF Steps
  <2>7. \A n \in Nat : n \in X => n + 1 \in X
    <3> SUFFICES ASSUME NEW n \in Nat, n \in X, n + 1 <= N PROVE runs[s][n + 1] \in A
      OBVIOUS
    <3>1. n + 1 \in 1 .. N /\ (n + 1) - 1 = n /\ runs[s][n] \in A
      BY <2>1
    <3>2. runs[s][n + 1] = step[s[n + 1]][runs[s][n]]
      BY <2>5, <3>1
    <3> QED
      BY <2>1, <3>1, <3>2 DEF Steps
  <2>8. Nat \subseteq X
    <3> HIDE DEF X
    <3> QED
      BY <2>6, <2>7, Induct
  <2>9. \A n \in 0 .. N : runs[s][n] \in A
    BY <2>1, <2>8
  <2> QED
    BY <2>1, <2>5, <2>9
<1>2. ASSUME NEW s \in Seq(T), NEW x \in T
      PROVE  runs[Append(s, x)][Len(s) + 1] = step[x][runs[s][Len(s)]]
  <2> DEFINE t == Append(s, x)
             N == Len(s)
  <2>1. /\ t \in Seq(T) /\ Len(t) = N + 1 /\ N \in Nat
        /\ \A n \in 1 .. N : t[n] = s[n]
        /\ t[N + 1] = x
    BY AppendProperties, LenProperties
  <2> DEFINE X == {n \in Nat : n <= N => runs[t][n] = runs[s][n]}
  <2>2. 0 \in X
    BY <1>1, <2>1
  <2>3. \A n \in Nat : n \in X => n + 1 \in X
    <3> SUFFICES ASSUME NEW n \in Nat, n \in X, n + 1 <= N
                 PROVE  runs[t][n + 1] = runs[s][n + 1]
      OBVIOUS
    <3>0. runs[t][n] = runs[s][n]
      BY <2>1
    <3>1. n + 1 \in 1 .. N /\ n + 1 \in 1 .. N + 1 /\ (n + 1) - 1 = n
      BY <2>1
    <3>2. \A k \in 1 .. N + 1 : runs[t][k] = step[t[k]][runs[t][k - 1]]
      BY <1>1, <2>1
    <3>3. \A k \in 1 .. N : runs[s][k] = step[s[k]][runs[s][k - 1]]
      BY <1>1
    <3>4. t[n + 1] = s[n + 1]
      BY <2>1, <3>1
    <3> HIDE DEF t, N
    <3> QED
      BY <3>0, <3>1, <3>2, <3>3, <3>4
  <2>4. Nat \subseteq X
    <3> HIDE DEF X
    <3> QED
      BY <2>2, <2>3, Induct
  <2>5. runs[t][N] = runs[s][N]
    BY <2>1, <2>4
  <2>6. \A k \in 1 .. N + 1 : runs[t][k] = step[t[k]][runs[t][k - 1]]
    BY <1>1, <2>1
  <2>7. N + 1 \in 1 .. N + 1 /\ (N + 1) - 1 = N
    BY <2>1
  <2>8. runs[t][N + 1] = step[x][runs[s][N]]
    <3> HIDE DEF t, N
    <3> QED
      BY <2>1, <2>5, <2>6, <2>7
  <2> QED
    BY <2>8
<1>3. \A s \in Seq(T) : ends[s] = runs[s][Len(s)] /\ Len(s) \in 0 .. Len(s)
  BY LenProperties DEF Folds
<1>4. \A s \in Seq(T) : ends[s] \in A
  BY <1>1, <1>3
<1>5. ends[<<>>] = base
  BY <1>1, <1>3, EmptySeq
<1>6. ASSUME NEW s \in Seq(T), NEW x \in T
      PROVE  ends[Append(s, x)] = step[x][ends[s]]
  <2>1. Append(s, x) \in Seq(T) /\ Len(Append(s, x)) = Len(s) + 1
    BY AppendProperties
  <2> QED
    BY <1>2, <1>3, <2>1
<1> QED
  BY <1>4, <1>5, <1>6

-----------------------------------------------------------------------------
(* Sequences that end, and that follow each other.                         *)

LEMMA ConcatAppend ==
  ASSUME NEW T, NEW a \in Seq(T), NEW s \in Seq(T), NEW x \in T
  PROVE  a \o Append(s, x) = Append(a \o s, x)
<1>1. <<x>> \in Seq(T) /\ a \o s \in Seq(T)
  BY ConcatProperties
<1>2. Append(s, x) = s \o <<x>> /\ Append(a \o s, x) = (a \o s) \o <<x>>
  BY <1>1, AppendIsConcat
<1> QED
  BY <1>1, <1>2, ConcatAssociative

LEMMA LastAndFront ==
  ASSUME NEW T, NEW s \in Seq(T), NEW x \in T
  PROVE  Last(Append(s, x)) = x /\ Front(Append(s, x)) = s
<1> DEFINE t == Append(s, x)
<1>1. /\ t \in Seq(T) /\ Len(t) = Len(s) + 1 /\ t[Len(s) + 1] = x
      /\ \A i \in 1 .. Len(s) : t[i] = s[i]
      /\ Len(s) \in Nat
  BY AppendProperties, LenProperties
<1>2. Last(t) = x
  BY <1>1 DEF Last
<1>3. Front(t) = SubSeq(t, 1, Len(s))
  BY <1>1 DEF Front
<1>4. \A i \in 1 .. Len(s) : t[i] \in T
  BY <1>1, ElementOfSeq
<1> HIDE DEF t
<1>5. /\ SubSeq(t, 1, Len(s)) \in Seq(T)
      /\ Len(SubSeq(t, 1, Len(s))) = Len(s)
      /\ \A i \in 1 .. Len(s) : SubSeq(t, 1, Len(s))[i] = t[i]
  BY <1>1, <1>4, SubSeqProperties
<1>6. SubSeq(t, 1, Len(s)) = s
  BY <1>1, <1>5, SeqEqual
<1> QED
  BY <1>2, <1>3, <1>6 DEF t

LEMMA FrontThenLast ==
  ASSUME NEW T, NEW s \in Seq(T), s # <<>>
  PROVE  Front(s) \in Seq(T) /\ Last(s) \in T /\ s = Append(Front(s), Last(s))
<1>1. PICK r \in Seq(T), x \in T : s = Append(r, x)
  BY SequenceEmptyOrAppend
<1>2. Front(s) = r /\ Last(s) = x
  BY <1>1, LastAndFront
<1> QED
  BY <1>1, <1>2

\* What is in a sequence.
LEMMA InSeq ==
  ASSUME NEW T, NEW s \in Seq(T)
  PROVE  /\ ToSet(s) = {s[i] : i \in 1 .. Len(s)}
         /\ ToSet(s) \subseteq T
         /\ ToSet(<<>>) = {}
         /\ s \in Seq(ToSet(s))
<1>1. DOMAIN s = 1 .. Len(s) /\ Len(s) \in Nat /\ \A i \in 1 .. Len(s) : s[i] \in T
  BY LenProperties, ElementOfSeq
<1>2. ToSet(s) = {s[i] : i \in 1 .. Len(s)}
  BY <1>1 DEF ToSet
<1>3. ToSet(<<>>) = {}
  BY DEF ToSet
<1>4. s \in [1 .. Len(s) -> ToSet(s)]
  BY <1>1, <1>2, LenProperties
<1>5. s \in Seq(ToSet(s))
  BY <1>1, <1>4, SeqDef
<1> QED
  BY <1>1, <1>2, <1>3, <1>5

LEMMA InAppend ==
  ASSUME NEW T, NEW s \in Seq(T), NEW x \in T
  PROVE  ToSet(Append(s, x)) = ToSet(s) \cup {x}
<1>1. /\ Append(s, x) \in Seq(T) /\ Len(Append(s, x)) = Len(s) + 1 /\ Len(s) \in Nat
      /\ \A i \in 1 .. Len(s) : Append(s, x)[i] = s[i]
      /\ Append(s, x)[Len(s) + 1] = x
  BY AppendProperties, LenProperties
<1>2. /\ ToSet(Append(s, x)) = {Append(s, x)[i] : i \in 1 .. Len(s) + 1}
      /\ ToSet(s) = {s[i] : i \in 1 .. Len(s)}
  BY <1>1, InSeq
<1> QED
  BY <1>1, <1>2

LEMMA InConcat ==
  ASSUME NEW T, NEW a \in Seq(T), NEW b \in Seq(T)
  PROVE  ToSet(a \o b) = ToSet(a) \cup ToSet(b)
<1>1. /\ a \o b \in Seq(T) /\ Len(a \o b) = Len(a) + Len(b)
      /\ Len(a) \in Nat /\ Len(b) \in Nat
      /\ \A i \in 1 .. Len(a) + Len(b) :
           (a \o b)[i] = IF i <= Len(a) THEN a[i] ELSE b[i - Len(a)]
  BY ConcatProperties, LenProperties
<1>2. /\ ToSet(a \o b) = {(a \o b)[i] : i \in 1 .. Len(a) + Len(b)}
      /\ ToSet(a) = {a[i] : i \in 1 .. Len(a)} /\ ToSet(b) = {b[i] : i \in 1 .. Len(b)}
  BY <1>1, InSeq
<1>3. ToSet(a \o b) \subseteq ToSet(a) \cup ToSet(b)
  <2> SUFFICES ASSUME NEW i \in 1 .. Len(a) + Len(b) PROVE (a \o b)[i] \in ToSet(a) \cup ToSet(b)
    BY <1>2
  <2>1. CASE i <= Len(a)
    BY <1>1, <1>2, <2>1
  <2>2. CASE i > Len(a)
    <3>1. i - Len(a) \in 1 .. Len(b)
      BY <1>1, <2>2
    <3> QED
      BY <1>1, <1>2, <2>2, <3>1
  <2> QED
    BY <1>1, <2>1, <2>2
<1>4. ToSet(a) \subseteq ToSet(a \o b)
  <2> SUFFICES ASSUME NEW i \in 1 .. Len(a) PROVE a[i] \in ToSet(a \o b)
    BY <1>2
  <2>1. i \in 1 .. Len(a) + Len(b) /\ i <= Len(a)
    BY <1>1
  <2> QED
    BY <1>1, <1>2, <2>1
<1>5. ToSet(b) \subseteq ToSet(a \o b)
  <2> SUFFICES ASSUME NEW i \in 1 .. Len(b) PROVE b[i] \in ToSet(a \o b)
    BY <1>2
  <2>1. /\ i + Len(a) \in 1 .. Len(a) + Len(b) /\ ~(i + Len(a) <= Len(a))
        /\ (i + Len(a)) - Len(a) = i
    BY <1>1
  <2>2. (a \o b)[i + Len(a)] = b[(i + Len(a)) - Len(a)]
    BY <1>1, <2>1
  <2> QED
    BY <1>2, <2>1, <2>2
<1> QED
  BY <1>3, <1>4, <1>5

-----------------------------------------------------------------------------
(* The folds of SourceText, item by item.                                  *)

LEMMA SelectSteps ==
  ASSUME NEW T, NEW S
  PROVE  /\ \A s \in Seq(T) : Select(s, S) \in Seq(T)
         /\ Select(<<>>, S) = <<>>
         /\ \A s \in Seq(T), x \in T :
              Select(Append(s, x), S) =
                IF x \in S THEN Append(Select(s, S), x) ELSE Select(s, S)
<1> DEFINE A == Seq(T)
           op(out, x) == IF x \in S THEN Append(out, x) ELSE out
           step == [x \in T |-> [out \in A |-> op(out, x)]]
           Run(f, s) == f = [n \in 0 .. Len(s) |-> IF n = 0 THEN <<>> ELSE op(f[n - 1], s[n])]
           runs == [s \in Seq(T) |-> CHOOSE f : Run(f, s)]
           ends == [s \in Seq(T) |-> Select(s, S)]
<1>1. <<>> \in A /\ \A out \in A, x \in T : op(out, x) \in A
  BY EmptySeq, AppendProperties
<1>2. Steps(A, T, <<>>, step)
  <2> HIDE DEF A, op
  <2> QED
    BY <1>1 DEF Steps
<1>3. ASSUME NEW s \in Seq(T), NEW f \in [0 .. Len(s) -> A],
             f[0] = <<>>, \A n \in 1 .. Len(s) : f[n] = step[s[n]][f[n - 1]]
      PROVE  /\ runs[s][0] = <<>>
             /\ \A n \in 1 .. Len(s) :
                  runs[s][n - 1] \in A => runs[s][n] = step[s[n]][runs[s][n - 1]]
  <2> HIDE DEF A, op
  <2>1. Len(s) \in Nat /\ \A n \in 1 .. Len(s) : s[n] \in T /\ f[n - 1] \in A
    BY LenProperties, ElementOfSeq
  <2>2. \A n \in 1 .. Len(s) : f[n] = op(f[n - 1], s[n])
    BY <1>3, <2>1
  <2>3. Run(f, s)
    BY <1>3, <2>2
  <2>4. Run(runs[s], s)
    BY <2>3
  <2> DEFINE r == runs[s]
  <2>5. Run(r, s)
    BY <2>4
  <2> HIDE DEF r, runs
  <2>6. r[0] = <<>> /\ \A n \in 1 .. Len(s) : r[n] = op(r[n - 1], s[n])
    BY <2>1, <2>5
  <2>7. \A n \in 1 .. Len(s) : r[n - 1] \in A => r[n] = step[s[n]][r[n - 1]]
    BY <2>1, <2>6
  <2> QED
    BY <2>6, <2>7 DEF r
<1>4. \A s \in Seq(T) : ends[s] = runs[s][Len(s)]
  BY DEF Select, Fold
<1>5. Folds(A, T, <<>>, step, runs, ends)
  <2> HIDE DEF A, runs, step, ends
  <2> QED
    BY <1>3, <1>4 DEF Folds
<1>6. /\ \A s \in Seq(T) : ends[s] \in A
      /\ ends[<<>>] = <<>>
      /\ \A s \in Seq(T), x \in T : ends[Append(s, x)] = step[x][ends[s]]
  <2> HIDE DEF A, runs, step, ends
  <2> QED
    BY <1>2, <1>5, FoldSteps
<1>7. ASSUME NEW s \in Seq(T), NEW x \in T
      PROVE  ends[Append(s, x)] = op(ends[s], x)
  <2> HIDE DEF A, op, ends
  <2> QED
    BY <1>6
<1>8. /\ <<>> \in Seq(T)
      /\ \A s \in Seq(T), x \in T : Append(s, x) \in Seq(T)
  BY EmptySeq, AppendProperties
<1>9. \A s \in Seq(T) : ends[s] = Select(s, S)
  OBVIOUS
<1> HIDE DEF ends
<1>10. Select(<<>>, S) = <<>>
  BY <1>6, <1>8, <1>9
<1>11. ASSUME NEW s \in Seq(T), NEW x \in T
       PROVE  Select(Append(s, x), S) = op(Select(s, S), x)
  <2> HIDE DEF A, op
  <2> QED
    BY <1>7, <1>8, <1>9
<1> QED
  BY <1>6, <1>9, <1>10, <1>11

Sized(D, doc) == \A i \in D : doc[i].size \in Nat

LEMMA SizeSteps ==
  ASSUME NEW D, NEW doc, Sized(D, doc)
  PROVE  /\ \A s \in Seq(D \cup {0}) : Size(doc, s) \in Int
         /\ Size(doc, <<>>) = -1
         /\ \A s \in Seq(D \cup {0}), i \in D \cup {0} :
              Size(doc, Append(s, i)) =
                Size(doc, s) + 1 + IF i = 0 THEN 0 ELSE doc[i].size
<1> DEFINE A == Int
           T == D \cup {0}
           op(n, i) == n + 1 + IF i = 0 THEN 0 ELSE doc[i].size
           step == [i \in T |-> [n \in A |-> op(n, i)]]
           Run(f, s) == f = [k \in 0 .. Len(s) |-> IF k = 0 THEN -1 ELSE op(f[k - 1], s[k])]
           runs == [s \in Seq(T) |-> CHOOSE f : Run(f, s)]
           ends == [s \in Seq(T) |-> Size(doc, s)]
<1>1. -1 \in A /\ \A n \in A, i \in T : op(n, i) \in A
  BY DEF Sized
<1>2. Steps(A, T, -1, step)
  <2> HIDE DEF A, T, op
  <2> QED
    BY <1>1 DEF Steps
<1>3. ASSUME NEW s \in Seq(T), NEW f \in [0 .. Len(s) -> A],
             f[0] = -1, \A n \in 1 .. Len(s) : f[n] = step[s[n]][f[n - 1]]
      PROVE  /\ runs[s][0] = -1
             /\ \A n \in 1 .. Len(s) :
                  runs[s][n - 1] \in A => runs[s][n] = step[s[n]][runs[s][n - 1]]
  <2> HIDE DEF A, T, op
  <2>1. Len(s) \in Nat /\ \A n \in 1 .. Len(s) : s[n] \in T /\ f[n - 1] \in A
    BY LenProperties, ElementOfSeq
  <2>2. \A n \in 1 .. Len(s) : f[n] = op(f[n - 1], s[n])
    BY <1>3, <2>1
  <2>3. Run(f, s)
    BY <1>3, <2>2
  <2>4. Run(runs[s], s)
    BY <2>3
  <2> DEFINE r == runs[s]
  <2>5. Run(r, s)
    BY <2>4
  <2> HIDE DEF r, runs
  <2>6. r[0] = -1 /\ \A n \in 1 .. Len(s) : r[n] = op(r[n - 1], s[n])
    BY <2>1, <2>5
  <2>7. \A n \in 1 .. Len(s) : r[n - 1] \in A => r[n] = step[s[n]][r[n - 1]]
    BY <2>1, <2>6
  <2> QED
    BY <2>6, <2>7 DEF r
<1>4. \A s \in Seq(T) : ends[s] = runs[s][Len(s)]
  BY DEF Size, Fold
<1>5. Folds(A, T, -1, step, runs, ends)
  <2> HIDE DEF A, T, runs, step, ends
  <2> QED
    BY <1>3, <1>4 DEF Folds
<1>6. /\ \A s \in Seq(T) : ends[s] \in A
      /\ ends[<<>>] = -1
      /\ \A s \in Seq(T), i \in T : ends[Append(s, i)] = step[i][ends[s]]
  <2> HIDE DEF A, T, runs, step, ends
  <2> QED
    BY <1>2, <1>5, FoldSteps
<1>7. ASSUME NEW s \in Seq(T), NEW i \in T
      PROVE  ends[Append(s, i)] = op(ends[s], i)
  <2> HIDE DEF A, T, op, ends
  <2> QED
    BY <1>6
<1>8. /\ <<>> \in Seq(T)
      /\ \A s \in Seq(T), i \in T : Append(s, i) \in Seq(T)
  BY EmptySeq, AppendProperties
<1>9. \A s \in Seq(T) : ends[s] = Size(doc, s)
  OBVIOUS
<1> HIDE DEF ends
<1>10. Size(doc, <<>>) = -1
  BY <1>6, <1>8, <1>9
<1>11. ASSUME NEW s \in Seq(T), NEW i \in T
       PROVE  Size(doc, Append(s, i)) = op(Size(doc, s), i)
  <2> HIDE DEF A, T, op
  <2> QED
    BY <1>7, <1>8, <1>9
<1> QED
  BY <1>6, <1>9, <1>10, <1>11

LEMMA SizeIsNat ==
  ASSUME NEW D, NEW doc, Sized(D, doc),
         NEW s \in Seq(D \cup {0})
  PROVE  Size(doc, s) \in Int /\ Size(doc, s) >= -1 /\ (s # <<>> => Size(doc, s) >= 0)
<1> DEFINE T == D \cup {0}
           X == {t \in Seq(T) : Size(doc, t) \in Int /\ Size(doc, t) >= -1
                                /\ (t # <<>> => Size(doc, t) >= 0)}
<1>0. /\ \A t \in Seq(T) : Size(doc, t) \in Int
      /\ Size(doc, <<>>) = -1
      /\ \A t \in Seq(T), i \in T :
           Size(doc, Append(t, i)) = Size(doc, t) + 1 + IF i = 0 THEN 0 ELSE doc[i].size
  BY SizeSteps
<1>1. <<>> \in X
  BY <1>0, EmptySeq
<1>2. ASSUME NEW t \in Seq(T), NEW i \in T, t \in X PROVE Append(t, i) \in X
  <2>1. Append(t, i) \in Seq(T)
    BY AppendProperties
  <2>2. Size(doc, Append(t, i)) = Size(doc, t) + 1 + IF i = 0 THEN 0 ELSE doc[i].size
    BY <1>0
  <2>3. (IF i = 0 THEN 0 ELSE doc[i].size) \in Nat
    BY DEF Sized
  <2> QED
    BY <1>2, <2>1, <2>2, <2>3
<1>3. Seq(T) \subseteq X
  <2> HIDE DEF X
  <2> QED
    BY <1>1, <1>2, Grow
<1> QED
  BY <1>3

LEMMA SizeOfConcat ==
  ASSUME NEW D, NEW doc, Sized(D, doc),
         NEW a \in Seq(D \cup {0}), NEW b \in Seq(D \cup {0})
  PROVE  Size(doc, a \o b) = Size(doc, a) + Size(doc, b) + 1
<1> DEFINE T == D \cup {0}
           X == {t \in Seq(T) : Size(doc, a \o t) = Size(doc, a) + Size(doc, t) + 1}
<1>0. /\ \A t \in Seq(T) : Size(doc, t) \in Int
      /\ Size(doc, <<>>) = -1
      /\ \A t \in Seq(T), i \in T :
           Size(doc, Append(t, i)) = Size(doc, t) + 1 + IF i = 0 THEN 0 ELSE doc[i].size
  BY SizeSteps
<1>1. <<>> \in X
  <2>1. a \o <<>> = a
    BY ConcatEmptySeq
  <2> QED
    BY <1>0, <2>1, EmptySeq
<1>2. ASSUME NEW t \in Seq(T), NEW i \in T, t \in X PROVE Append(t, i) \in X
  <2>1. Append(t, i) \in Seq(T) /\ a \o t \in Seq(T)
    BY AppendProperties, ConcatProperties
  <2>2. a \o Append(t, i) = Append(a \o t, i)
    BY ConcatAppend
  <2> DEFINE n == IF i = 0 THEN 0 ELSE doc[i].size
  <2>3. /\ Size(doc, Append(t, i)) = Size(doc, t) + 1 + n
        /\ Size(doc, Append(a \o t, i)) = Size(doc, a \o t) + 1 + n
        /\ Size(doc, t) \in Int
    BY <1>0, <2>1
  <2>4. n \in Nat
    BY DEF Sized
  <2>5. Size(doc, a) \in Int /\ Size(doc, a \o t) = Size(doc, a) + Size(doc, t) + 1
    BY <1>0, <1>2
  <2>6. Size(doc, a \o Append(t, i)) = Size(doc, a) + Size(doc, Append(t, i)) + 1
    <3> HIDE DEF n
    <3> QED
      BY <2>2, <2>3, <2>4, <2>5
  <2> QED
    BY <2>1, <2>6
<1>3. Seq(T) \subseteq X
  <2> HIDE DEF X
  <2> QED
    BY <1>1, <1>2, Grow
<1> QED
  BY <1>3

LEMMA UpToGrows ==
  ASSUME NEW n \in Nat
  PROVE  /\ \A T : 1 .. n \subseteq T => UpTo(n) \in Seq(T)
         /\ Len(UpTo(n)) = n
         /\ \A i \in 1 .. n : UpTo(n)[i] = i
         /\ UpTo(0) = <<>>
         /\ n # 0 => UpTo(n) = Append(UpTo(n - 1), n)
<1>1. \A k \in Nat : UpTo(k) \in [1 .. k -> Nat] /\ (\A i \in 1 .. k : UpTo(k)[i] = i)
  BY DEF UpTo
<1>2. \A k \in Nat : UpTo(k) \in Seq(Nat) /\ Len(UpTo(k)) = k
  BY <1>1, LenProperties, SeqDef
<1>3. ASSUME NEW T, 1 .. n \subseteq T PROVE UpTo(n) \in Seq(T)
  BY <1>3, SeqDef DEF UpTo
<1>4. UpTo(0) = <<>>
  BY <1>2, EmptySeq
<1>5. ASSUME n # 0 PROVE UpTo(n) = Append(UpTo(n - 1), n)
  <2>1. n - 1 \in Nat /\ n \in Nat /\ n \in 1 .. n
    BY <1>5
  <2> DEFINE s == UpTo(n)
             t == Append(UpTo(n - 1), n)
  <2>2. /\ UpTo(n - 1) \in Seq(Nat) /\ Len(UpTo(n - 1)) = n - 1
        /\ \A i \in 1 .. n - 1 : UpTo(n - 1)[i] = i
    BY <1>1, <1>2, <2>1
  <2>3. /\ t \in Seq(Nat) /\ Len(t) = (n - 1) + 1
        /\ \A i \in 1 .. n - 1 : t[i] = UpTo(n - 1)[i]
        /\ t[(n - 1) + 1] = n
    BY <2>1, <2>2, AppendProperties
  <2>4. s \in Seq(Nat) /\ Len(s) = n /\ \A i \in 1 .. n : s[i] = i
    BY <1>1, <1>2
  <2> HIDE DEF s, t
  <2>5. \A i \in 1 .. Len(s) : s[i] = t[i]
    BY <2>2, <2>3, <2>4
  <2>6. s = t
    BY <2>3, <2>4, <2>5, SeqEqual
  <2> QED
    BY <2>6 DEF s, t
<1> QED
  BY <1>1, <1>2, <1>3, <1>4, <1>5

\* A text has a length, and only that of no characters has none.
LEMMA SizeOfText ==
  ASSUME NEW doc \in Seq(Lines), doc # <<>>
  PROVE  /\ Size(doc, UpTo(Len(doc))) \in Nat
         /\ Size(doc, UpTo(Len(doc))) = 0 => Len(doc) = 1 /\ Blank(doc[1])
<1> DEFINE n == Len(doc)
           D == 1 .. n
<1>1. n \in Nat \ {0} /\ \A i \in D : doc[i] \in Lines
  BY EmptySeq, ElementOfSeq
<1>2. \A i \in D : doc[i].size \in Nat /\ (Blank(doc[i]) <=> doc[i].size = 0)
  BY <1>1, TextAssumption DEF Line, Blank
<1>3. Sized(D, doc)
  BY <1>2 DEF Sized
<1>4. n - 1 \in Nat /\ n \in D \cup {0} /\ 1 .. n - 1 \subseteq D \cup {0} /\ n # 0
  BY <1>1
<1>5. /\ UpTo(n - 1) \in Seq(D \cup {0}) /\ Len(UpTo(n - 1)) = n - 1
      /\ UpTo(n) = Append(UpTo(n - 1), n)
      /\ UpTo(0) = <<>>
  BY <1>1, <1>4, UpToGrows
<1>6. /\ Size(doc, UpTo(n - 1)) \in Int /\ Size(doc, UpTo(n - 1)) >= -1
      /\ UpTo(n - 1) # <<>> => Size(doc, UpTo(n - 1)) >= 0
  BY <1>3, <1>5, SizeIsNat
<1>7. Size(doc, UpTo(n)) = Size(doc, UpTo(n - 1)) + 1 + IF n = 0 THEN 0 ELSE doc[n].size
  <2> HIDE DEF n, D
  <2> QED
    BY <1>3, <1>4, <1>5, SizeSteps
<1>8. n # 1 => UpTo(n - 1) # <<>>
  BY <1>4, <1>5, EmptySeq
<1>9. doc[n].size \in Nat /\ (Blank(doc[n]) <=> doc[n].size = 0)
  BY <1>1, <1>2
<1> HIDE DEF n, D
<1> QED
  BY <1>4, <1>6, <1>7, <1>8, <1>9 DEF n

LEMMA KeptSteps ==
  ASSUME NEW D, NEW doc
  PROVE  /\ \A s \in Seq(Seq(D)) : Kept(doc, s) \in Seq(D)
         /\ Kept(doc, <<>>) = <<>>
         /\ \A s \in Seq(Seq(D)), part \in Seq(D) :
              Kept(doc, Append(s, part)) =
                Kept(doc, s) \o Select(part, Ink(doc))
<1> DEFINE A == Seq(D)
           T == Seq(D)
           op(out, part) == out \o Select(part, Ink(doc))
           step == [part \in T |-> [out \in A |-> op(out, part)]]
           Run(f, s) == f = [n \in 0 .. Len(s) |-> IF n = 0 THEN <<>> ELSE op(f[n - 1], s[n])]
           runs == [s \in Seq(T) |-> CHOOSE f : Run(f, s)]
           ends == [s \in Seq(T) |-> Kept(doc, s)]
<1>1. <<>> \in A /\ \A out \in A, part \in T : op(out, part) \in A
  BY SelectSteps, EmptySeq, ConcatProperties
<1>2. Steps(A, T, <<>>, step)
  <2> HIDE DEF A, T, op
  <2> QED
    BY <1>1 DEF Steps
<1>3. ASSUME NEW s \in Seq(T), NEW f \in [0 .. Len(s) -> A],
             f[0] = <<>>, \A n \in 1 .. Len(s) : f[n] = step[s[n]][f[n - 1]]
      PROVE  /\ runs[s][0] = <<>>
             /\ \A n \in 1 .. Len(s) :
                  runs[s][n - 1] \in A => runs[s][n] = step[s[n]][runs[s][n - 1]]
  <2> HIDE DEF A, T, op
  <2>1. Len(s) \in Nat /\ \A n \in 1 .. Len(s) : s[n] \in T /\ f[n - 1] \in A
    BY LenProperties, ElementOfSeq
  <2>2. \A n \in 1 .. Len(s) : f[n] = op(f[n - 1], s[n])
    BY <1>3, <2>1
  <2>3. Run(f, s)
    BY <1>3, <2>2
  <2>4. Run(runs[s], s)
    BY <2>3
  <2> DEFINE r == runs[s]
  <2>5. Run(r, s)
    BY <2>4
  <2> HIDE DEF r, runs
  <2>6. r[0] = <<>> /\ \A n \in 1 .. Len(s) : r[n] = op(r[n - 1], s[n])
    BY <2>1, <2>5
  <2>7. \A n \in 1 .. Len(s) : r[n - 1] \in A => r[n] = step[s[n]][r[n - 1]]
    BY <2>1, <2>6
  <2> QED
    BY <2>6, <2>7 DEF r
<1>4. \A s \in Seq(T) : ends[s] = runs[s][Len(s)]
  BY DEF Kept, Fold
<1>5. Folds(A, T, <<>>, step, runs, ends)
  <2> HIDE DEF A, T, runs, step, ends
  <2> QED
    BY <1>3, <1>4 DEF Folds
<1>6. /\ \A s \in Seq(T) : ends[s] \in A
      /\ ends[<<>>] = <<>>
      /\ \A s \in Seq(T), part \in T : ends[Append(s, part)] = step[part][ends[s]]
  <2> HIDE DEF A, T, runs, step, ends
  <2> QED
    BY <1>2, <1>5, FoldSteps
<1>7. ASSUME NEW s \in Seq(T), NEW part \in T
      PROVE  ends[Append(s, part)] = op(ends[s], part)
  <2> HIDE DEF A, T, op, ends
  <2> QED
    BY <1>6
<1>8. /\ <<>> \in Seq(T)
      /\ \A s \in Seq(T), part \in T : Append(s, part) \in Seq(T)
  BY EmptySeq, AppendProperties
<1>9. \A s \in Seq(T) : ends[s] = Kept(doc, s)
  OBVIOUS
<1> HIDE DEF ends
<1>10. Kept(doc, <<>>) = <<>>
  BY <1>6, <1>8, <1>9
<1>11. ASSUME NEW s \in Seq(T), NEW part \in T
       PROVE  Kept(doc, Append(s, part)) = op(Kept(doc, s), part)
  <2> HIDE DEF A, T, op
  <2> QED
    BY <1>7, <1>8, <1>9
<1> QED
  BY <1>6, <1>9, <1>10, <1>11

LEMMA SqueezedSteps ==
  ASSUME NEW T
  PROVE  /\ \A s \in Seq(T) : Squeezed(s) \in Seq(T)
         /\ Squeezed(<<>>) = <<>>
         /\ \A s \in Seq(T), l \in T :
              Squeezed(Append(s, l)) =
                IF Blank(l) /\ (Squeezed(s) = <<>> \/ Blank(Last(Squeezed(s)))) THEN Squeezed(s) ELSE Append(Squeezed(s), l)
<1> DEFINE A == Seq(T)
           op(out, l) == IF Blank(l) /\ (out = <<>> \/ Blank(Last(out))) THEN out ELSE Append(out, l)
           step == [l \in T |-> [out \in A |-> op(out, l)]]
           Run(f, s) == f = [n \in 0 .. Len(s) |-> IF n = 0 THEN <<>> ELSE op(f[n - 1], s[n])]
           runs == [s \in Seq(T) |-> CHOOSE f : Run(f, s)]
           ends == [s \in Seq(T) |-> Squeezed(s)]
<1>1. <<>> \in A /\ \A out \in A, l \in T : op(out, l) \in A
  BY EmptySeq, AppendProperties
<1>2. Steps(A, T, <<>>, step)
  <2> HIDE DEF A, op
  <2> QED
    BY <1>1 DEF Steps
<1>3. ASSUME NEW s \in Seq(T), NEW f \in [0 .. Len(s) -> A],
             f[0] = <<>>, \A n \in 1 .. Len(s) : f[n] = step[s[n]][f[n - 1]]
      PROVE  /\ runs[s][0] = <<>>
             /\ \A n \in 1 .. Len(s) :
                  runs[s][n - 1] \in A => runs[s][n] = step[s[n]][runs[s][n - 1]]
  <2> HIDE DEF A, op
  <2>1. Len(s) \in Nat /\ \A n \in 1 .. Len(s) : s[n] \in T /\ f[n - 1] \in A
    BY LenProperties, ElementOfSeq
  <2>2. \A n \in 1 .. Len(s) : f[n] = op(f[n - 1], s[n])
    BY <1>3, <2>1
  <2>3. Run(f, s)
    BY <1>3, <2>2
  <2>4. Run(runs[s], s)
    BY <2>3
  <2> DEFINE r == runs[s]
  <2>5. Run(r, s)
    BY <2>4
  <2> HIDE DEF r, runs
  <2>6. r[0] = <<>> /\ \A n \in 1 .. Len(s) : r[n] = op(r[n - 1], s[n])
    BY <2>1, <2>5
  <2>7. \A n \in 1 .. Len(s) : r[n - 1] \in A => r[n] = step[s[n]][r[n - 1]]
    BY <2>1, <2>6
  <2> QED
    BY <2>6, <2>7 DEF r
<1>4. \A s \in Seq(T) : ends[s] = runs[s][Len(s)]
  BY DEF Squeezed, Fold
<1>5. Folds(A, T, <<>>, step, runs, ends)
  <2> HIDE DEF A, runs, step, ends
  <2> QED
    BY <1>3, <1>4 DEF Folds
<1>6. /\ \A s \in Seq(T) : ends[s] \in A
      /\ ends[<<>>] = <<>>
      /\ \A s \in Seq(T), l \in T : ends[Append(s, l)] = step[l][ends[s]]
  <2> HIDE DEF A, runs, step, ends
  <2> QED
    BY <1>2, <1>5, FoldSteps
<1>7. ASSUME NEW s \in Seq(T), NEW l \in T
      PROVE  ends[Append(s, l)] = op(ends[s], l)
  <2> HIDE DEF A, op, ends
  <2> QED
    BY <1>6
<1>8. /\ <<>> \in Seq(T)
      /\ \A s \in Seq(T), l \in T : Append(s, l) \in Seq(T)
  BY EmptySeq, AppendProperties
<1>9. \A s \in Seq(T) : ends[s] = Squeezed(s)
  OBVIOUS
<1> HIDE DEF ends
<1>10. Squeezed(<<>>) = <<>>
  BY <1>6, <1>8, <1>9
<1>11. ASSUME NEW s \in Seq(T), NEW l \in T
       PROVE  Squeezed(Append(s, l)) = op(Squeezed(s), l)
  <2> HIDE DEF A, op
  <2> QED
    BY <1>7, <1>8, <1>9
<1> QED
  BY <1>6, <1>9, <1>10, <1>11

SomeParagraphs(D) == {out \in Seq(Seq(D)) : out # <<>>}

Put(doc, out, i) ==
  IF i = 0 \/ Blank(doc[i]) THEN Append(out, <<>>) ELSE Append(Front(out), Append(Last(out), i))

LEMMA ParagraphsSteps ==
  ASSUME NEW T, NEW doc
  PROVE  /\ \A s \in Seq(T) : Paragraphs(doc, s) \in SomeParagraphs(T)
         /\ Paragraphs(doc, <<>>) = <<<<>>>>
         /\ \A s \in Seq(T), i \in T :
              Paragraphs(doc, Append(s, i)) =
                Put(doc, Paragraphs(doc, s), i)
<1> DEFINE A == SomeParagraphs(T)
           base == <<<<>>>>
           op(out, i) == Put(doc, out, i)
           step == [i \in T |-> [out \in A |-> op(out, i)]]
           Run(f, s) == f = [n \in 0 .. Len(s) |-> IF n = 0 THEN base ELSE op(f[n - 1], s[n])]
           runs == [s \in Seq(T) |-> CHOOSE f : Run(f, s)]
           ends == [s \in Seq(T) |-> Paragraphs(doc, s)]
<1>1. base \in A /\ \A out \in A, i \in T : op(out, i) \in A
  <2>1. <<<<>>>> \in A
    BY EmptySeq DEF SomeParagraphs
  <2>2. ASSUME NEW out \in A, NEW i \in T PROVE op(out, i) \in A
    <3> DEFINE S == Seq(T)
    <3>1. out \in Seq(S) /\ Front(out) \in Seq(S) /\ Last(out) \in S
      BY FrontThenLast DEF SomeParagraphs
    <3>2. <<>> \in S /\ Append(Last(out), i) \in S
      BY <3>1, EmptySeq, AppendProperties
    <3>3. \A q \in Seq(S), p \in S : Append(q, p) \in Seq(S) /\ Append(q, p) # <<>>
      <4> HIDE DEF S
      <4> QED
        BY AppendProperties
    <3>4. \A q \in Seq(S) : q # <<>> => q \in A
      BY DEF SomeParagraphs
    <3> HIDE DEF S, A
    <3> QED
      BY <3>1, <3>2, <3>3, <3>4 DEF Put
  <2> HIDE DEF A, op
  <2> QED
    BY <2>1, <2>2
<1>2. Steps(A, T, base, step)
  <2> HIDE DEF A, base, op
  <2> QED
    BY <1>1 DEF Steps
<1>3. ASSUME NEW s \in Seq(T), NEW f \in [0 .. Len(s) -> A],
             f[0] = base, \A n \in 1 .. Len(s) : f[n] = step[s[n]][f[n - 1]]
      PROVE  /\ runs[s][0] = base
             /\ \A n \in 1 .. Len(s) :
                  runs[s][n - 1] \in A => runs[s][n] = step[s[n]][runs[s][n - 1]]
  <2> HIDE DEF A, base, op
  <2>1. Len(s) \in Nat /\ \A n \in 1 .. Len(s) : s[n] \in T /\ f[n - 1] \in A
    BY LenProperties, ElementOfSeq
  <2>2. \A n \in 1 .. Len(s) : f[n] = op(f[n - 1], s[n])
    BY <1>3, <2>1
  <2>3. Run(f, s)
    BY <1>3, <2>2
  <2>4. Run(runs[s], s)
    BY <2>3
  <2> DEFINE r == runs[s]
  <2>5. Run(r, s)
    BY <2>4
  <2> HIDE DEF r, runs
  <2>6. r[0] = base /\ \A n \in 1 .. Len(s) : r[n] = op(r[n - 1], s[n])
    BY <2>1, <2>5
  <2>7. \A n \in 1 .. Len(s) : r[n - 1] \in A => r[n] = step[s[n]][r[n - 1]]
    BY <2>1, <2>6
  <2> QED
    BY <2>6, <2>7 DEF r
<1>4. \A s \in Seq(T) : ends[s] = runs[s][Len(s)]
  BY DEF Paragraphs, Put, Fold
<1>5. Folds(A, T, base, step, runs, ends)
  <2> HIDE DEF A, base, runs, step, ends
  <2> QED
    BY <1>3, <1>4 DEF Folds
<1>6. /\ \A s \in Seq(T) : ends[s] \in A
      /\ ends[<<>>] = base
      /\ \A s \in Seq(T), i \in T : ends[Append(s, i)] = step[i][ends[s]]
  <2> HIDE DEF A, base, runs, step, ends
  <2> QED
    BY <1>2, <1>5, FoldSteps
<1>7. ASSUME NEW s \in Seq(T), NEW i \in T
      PROVE  ends[Append(s, i)] = op(ends[s], i)
  <2> HIDE DEF A, base, op, ends
  <2> QED
    BY <1>6
<1>8. /\ <<>> \in Seq(T)
      /\ \A s \in Seq(T), i \in T : Append(s, i) \in Seq(T)
  BY EmptySeq, AppendProperties
<1>9. \A s \in Seq(T) : ends[s] = Paragraphs(doc, s)
  OBVIOUS
<1> HIDE DEF ends
<1>10. Paragraphs(doc, <<>>) = <<<<>>>>
  BY <1>6, <1>8, <1>9
<1>11. ASSUME NEW s \in Seq(T), NEW i \in T
       PROVE  Paragraphs(doc, Append(s, i)) = op(Paragraphs(doc, s), i)
  <2> HIDE DEF A, base, op
  <2> QED
    BY <1>7, <1>8, <1>9
<1> QED
  BY <1>6, <1>9, <1>10, <1>11

-----------------------------------------------------------------------------
(* What is selected, and kept.                                             *)

LEMMA SelectConcat ==
  ASSUME NEW T, NEW S, NEW a \in Seq(T), NEW b \in Seq(T)
  PROVE  Select(a \o b, S) = Select(a, S) \o Select(b, S)
<1> DEFINE X == {t \in Seq(T) : Select(a \o t, S) = Select(a, S) \o Select(t, S)}
<1>1. /\ \A s \in Seq(T) : Select(s, S) \in Seq(T)
      /\ Select(<<>>, S) = <<>>
      /\ \A s \in Seq(T), x \in T :
           Select(Append(s, x), S) = IF x \in S THEN Append(Select(s, S), x) ELSE Select(s, S)
  BY SelectSteps
<1>2. <<>> \in X
  BY <1>1, EmptySeq, ConcatEmptySeq
<1>3. ASSUME NEW t \in Seq(T), NEW x \in T, t \in X PROVE Append(t, x) \in X
  <2>1. /\ a \o Append(t, x) = Append(a \o t, x)
        /\ Append(t, x) \in Seq(T) /\ a \o t \in Seq(T)
    BY ConcatAppend, ConcatProperties, AppendProperties
  <2>2. Select(a \o t, S) = Select(a, S) \o Select(t, S)
    BY <1>3
  <2>3. Select(a, S) \o Append(Select(t, S), x) = Append(Select(a, S) \o Select(t, S), x)
    BY <1>1, ConcatAppend
  <2>4. Select(a \o Append(t, x), S) = Select(a, S) \o Select(Append(t, x), S)
    BY <1>1, <2>1, <2>2, <2>3
  <2> QED
    BY <2>1, <2>4
<1>4. Seq(T) \subseteq X
  <2> HIDE DEF X
  <2> QED
    BY <1>2, <1>3, Grow
<1> QED
  BY <1>4

LEMMA SelectSame ==
  ASSUME NEW T, NEW S, NEW R, T \cap S = T \cap R, NEW s \in Seq(T)
  PROVE  Select(s, S) = Select(s, R)
<1> DEFINE X == {t \in Seq(T) : Select(t, S) = Select(t, R)}
<1>1. \A Q : /\ Select(<<>>, Q) = <<>>
             /\ \A t \in Seq(T), x \in T :
                  Select(Append(t, x), Q) = IF x \in Q THEN Append(Select(t, Q), x) ELSE Select(t, Q)
  BY SelectSteps
<1>2. <<>> \in X
  BY <1>1, EmptySeq
<1>3. ASSUME NEW t \in Seq(T), NEW x \in T, t \in X PROVE Append(t, x) \in X
  <2>1. Append(t, x) \in Seq(T)
    BY AppendProperties
  <2>2. x \in S <=> x \in R
    OBVIOUS
  <2>3. Select(Append(t, x), S) = Select(Append(t, x), R)
    BY <1>1, <1>3, <2>2, SMTT(30)
  <2> QED
    BY <2>1, <2>3
<1>4. Seq(T) \subseteq X
  <2> HIDE DEF X
  <2> QED
    BY <1>2, <1>3, Grow
<1> QED
  BY <1>4

LEMMA InSelect ==
  ASSUME NEW T, NEW S, NEW s \in Seq(T)
  PROVE  ToSet(Select(s, S)) = ToSet(s) \cap S
<1> DEFINE X == {t \in Seq(T) : ToSet(Select(t, S)) = ToSet(t) \cap S}
<1>1. /\ \A t \in Seq(T) : Select(t, S) \in Seq(T)
      /\ Select(<<>>, S) = <<>>
      /\ \A t \in Seq(T), x \in T :
           Select(Append(t, x), S) = IF x \in S THEN Append(Select(t, S), x) ELSE Select(t, S)
  BY SelectSteps
<1>2. <<>> \in X
  BY <1>1, EmptySeq, InSeq
<1>3. ASSUME NEW t \in Seq(T), NEW x \in T, t \in X PROVE Append(t, x) \in X
  <2>1. Append(t, x) \in Seq(T)
    BY AppendProperties
  <2>2. /\ ToSet(Append(t, x)) = ToSet(t) \cup {x}
        /\ ToSet(Append(Select(t, S), x)) = ToSet(Select(t, S)) \cup {x}
    BY <1>1, InAppend
  <2>3. ToSet(Select(t, S)) = ToSet(t) \cap S
    BY <1>3
  <2>4. CASE x \in S
    <3>1. Select(Append(t, x), S) = Append(Select(t, S), x)
      BY <1>1, <2>4
    <3> QED
      BY <2>1, <2>2, <2>3, <2>4, <3>1
  <2>5. CASE x \notin S
    <3>1. Select(Append(t, x), S) = Select(t, S)
      BY <1>1, <2>5
    <3> QED
      BY <2>1, <2>2, <2>3, <2>5, <3>1
  <2> QED
    BY <2>4, <2>5
<1>4. Seq(T) \subseteq X
  <2> HIDE DEF X
  <2> QED
    BY <1>2, <1>3, Grow
<1> QED
  BY <1>4

\* Nothing is selected of what has nothing in common with the set, all of what
\* lies in it.
LEMMA SelectNone ==
  ASSUME NEW T, NEW S, T \cap S = {}, NEW s \in Seq(T)
  PROVE  Select(s, S) = <<>>
<1> DEFINE X == {t \in Seq(T) : Select(t, S) = <<>>}
<1>1. /\ Select(<<>>, S) = <<>>
      /\ \A t \in Seq(T), x \in T :
           Select(Append(t, x), S) = IF x \in S THEN Append(Select(t, S), x) ELSE Select(t, S)
  BY SelectSteps
<1>2. <<>> \in X
  BY <1>1, EmptySeq
<1>3. ASSUME NEW t \in Seq(T), NEW x \in T, t \in X PROVE Append(t, x) \in X
  <2>1. Append(t, x) \in Seq(T) /\ x \notin S
    BY AppendProperties
  <2> QED
    BY <1>1, <1>3, <2>1
<1>4. Seq(T) \subseteq X
  <2> HIDE DEF X
  <2> QED
    BY <1>2, <1>3, Grow
<1> QED
  BY <1>4

LEMMA KeptConcat ==
  ASSUME NEW D, NEW doc, NEW a \in Seq(Seq(D)), NEW b \in Seq(Seq(D))
  PROVE  Kept(doc, a \o b) = Kept(doc, a) \o Kept(doc, b)
<1> DEFINE T == Seq(D)
           X == {t \in Seq(T) : Kept(doc, a \o t) = Kept(doc, a) \o Kept(doc, t)}
<1>1. /\ \A s \in Seq(T) : Kept(doc, s) \in Seq(D)
      /\ Kept(doc, <<>>) = <<>>
      /\ \A s \in Seq(T), part \in T :
           Kept(doc, Append(s, part)) = Kept(doc, s) \o Select(part, Ink(doc))
  BY KeptSteps
<1>2. \A part \in T : Select(part, Ink(doc)) \in Seq(D)
  BY SelectSteps
<1>0. a \in Seq(T) /\ b \in Seq(T)
  OBVIOUS
<1>3. <<>> \in X
  <2>1. Kept(doc, a) \in Seq(D) /\ <<>> \in Seq(T)
    BY <1>0, <1>1, EmptySeq
  <2>2. a \o <<>> = a /\ Kept(doc, a) \o <<>> = Kept(doc, a)
    <3> HIDE DEF T
    <3> QED
      BY <1>0, <2>1, ConcatEmptySeq
  <2> HIDE DEF T
  <2> QED
    BY <1>1, <2>1, <2>2
<1>4. ASSUME NEW t \in Seq(T), NEW part \in T, t \in X PROVE Append(t, part) \in X
  <2>1. /\ a \o Append(t, part) = Append(a \o t, part)
        /\ Append(t, part) \in Seq(T) /\ a \o t \in Seq(T)
    <3> HIDE DEF T
    <3> QED
      BY <1>0, ConcatAppend, ConcatProperties, AppendProperties
  <2>2. Kept(doc, a \o t) = Kept(doc, a) \o Kept(doc, t)
    BY <1>4
  <2>3. (Kept(doc, a) \o Kept(doc, t)) \o Select(part, Ink(doc))
          = Kept(doc, a) \o (Kept(doc, t) \o Select(part, Ink(doc)))
    <3> DEFINE x == Kept(doc, a)
               y == Kept(doc, t)
               z == Select(part, Ink(doc))
    <3>1. x \in Seq(D) /\ y \in Seq(D) /\ z \in Seq(D)
      BY <1>0, <1>1, <1>2
    <3> HIDE DEF x, y, z
    <3>2. (x \o y) \o z = x \o (y \o z)
      BY <3>1, ConcatAssociative, SMTT(30)
    <3> QED
      BY <3>2 DEF x, y, z
  <2>4. Kept(doc, a \o Append(t, part)) = Kept(doc, a) \o Kept(doc, Append(t, part))
    <3> HIDE DEF T
    <3> QED
      BY <1>0, <1>1, <2>1, <2>2, <2>3
  <2> QED
    BY <2>1, <2>4
<1>5. Seq(T) \subseteq X
  <2> HIDE DEF T, X
  <2> QED
    BY <1>3, <1>4, Grow
<1> QED
  BY <1>0, <1>5

-----------------------------------------------------------------------------
(* Normalising.                                                            *)

Inked == {l \in Lines : ~Blank(l)}

LEMMA WrittenIs ==
  ASSUME NEW doc \in Seq(Lines)
  PROVE  Written(doc) = Select(doc, Inked)
<1> DEFINE S == {l \in ToSet(doc) : ~Blank(l)}
<1>1. doc \in Seq(ToSet(doc)) /\ ToSet(doc) \subseteq Lines
  BY InSeq
<1>2. ToSet(doc) \cap S = ToSet(doc) \cap Inked
  BY <1>1 DEF Inked
<1>3. Written(doc) = Select(doc, S)
  BY DEF Written
<1> HIDE DEF S
<1> QED
  BY <1>1, <1>2, <1>3, SelectSame

LEMMA SqueezedIs ==
  ASSUME NEW doc \in Seq(Lines)
  PROVE  Squeezed(doc) \in Seq(Lines) /\ Select(Squeezed(doc), Inked) = Select(doc, Inked)
<1> DEFINE X == {d \in Seq(Lines) : Select(Squeezed(d), Inked) = Select(d, Inked)}
<1>1. /\ \A d \in Seq(Lines) : Squeezed(d) \in Seq(Lines)
      /\ Squeezed(<<>>) = <<>>
      /\ \A d \in Seq(Lines), l \in Lines :
           Squeezed(Append(d, l)) = IF Blank(l) /\ (Squeezed(d) = <<>> \/ Blank(Last(Squeezed(d))))
                                    THEN Squeezed(d) ELSE Append(Squeezed(d), l)
  BY SqueezedSteps
<1>2. \A d \in Seq(Lines), l \in Lines :
        Select(Append(d, l), Inked) = IF Blank(l) THEN Select(d, Inked) ELSE Append(Select(d, Inked), l)
  <2>1. \A d \in Seq(Lines), l \in Lines :
          Select(Append(d, l), Inked) = IF l \in Inked THEN Append(Select(d, Inked), l) ELSE Select(d, Inked)
    BY SelectSteps
  <2>2. \A l \in Lines : l \in Inked <=> ~Blank(l)
    BY DEF Inked
  <2> QED
    BY <2>1, <2>2
<1>3. <<>> \in X
  BY <1>1, EmptySeq
<1>4. ASSUME NEW d \in Seq(Lines), NEW l \in Lines, d \in X PROVE Append(d, l) \in X
  <2>1. Append(d, l) \in Seq(Lines) /\ Select(Squeezed(d), Inked) = Select(d, Inked)
    BY <1>4, AppendProperties
  <2>2. Squeezed(d) \in Seq(Lines)
    BY <1>1
  <2>3. Select(Squeezed(Append(d, l)), Inked) = Select(Append(d, l), Inked)
    <3>1. CASE Blank(l) /\ (Squeezed(d) = <<>> \/ Blank(Last(Squeezed(d))))
      <4>1. Squeezed(Append(d, l)) = Squeezed(d)
        BY <1>1, <3>1
      <4>2. Select(Append(d, l), Inked) = Select(d, Inked)
        BY <1>2, <3>1
      <4> QED
        BY <2>1, <4>1, <4>2
    <3>2. CASE ~(Blank(l) /\ (Squeezed(d) = <<>> \/ Blank(Last(Squeezed(d)))))
      <4>1. Squeezed(Append(d, l)) = Append(Squeezed(d), l)
        BY <1>1, <3>2
      <4>2. /\ Select(Append(Squeezed(d), l), Inked)
                 = IF Blank(l) THEN Select(Squeezed(d), Inked) ELSE Append(Select(Squeezed(d), Inked), l)
            /\ Select(Append(d, l), Inked)
                 = IF Blank(l) THEN Select(d, Inked) ELSE Append(Select(d, Inked), l)
        BY <1>2, <2>2
      <4> QED
        BY <2>1, <4>1, <4>2
    <3> QED
      BY <3>1, <3>2
  <2> QED
    BY <2>1, <2>3
<1>5. Seq(Lines) \subseteq X
  <2> HIDE DEF X
  <2> QED
    BY <1>3, <1>4, Grow
<1> QED
  BY <1>1, <1>5

\* Normalising a text loses nothing that is written in it.
THEOREM TidyKeepsLines ==
  ASSUME NEW doc \in Seq(Lines)
  PROVE  Tidy(doc) \in Seq(Lines) /\ Written(Tidy(doc)) = Written(doc)
<1> DEFINE out == Squeezed(doc)
<1>1. out \in Seq(Lines) /\ Select(out, Inked) = Select(doc, Inked)
  BY SqueezedIs
<1>2. Tidy(doc) = IF out # <<>> /\ Blank(Last(out)) THEN Front(out) ELSE out
  BY DEF Tidy
<1> HIDE DEF out
<1>3. Tidy(doc) \in Seq(Lines) /\ Select(Tidy(doc), Inked) = Select(doc, Inked)
  <2>1. CASE out # <<>> /\ Blank(Last(out))
    <3>1. Front(out) \in Seq(Lines) /\ Last(out) \in Lines /\ out = Append(Front(out), Last(out))
      BY <1>1, <2>1, FrontThenLast
    <3>2. Last(out) \notin Inked
      BY <2>1 DEF Inked
    <3>3. Select(Append(Front(out), Last(out)), Inked) = Select(Front(out), Inked)
      <4>1. \A d \in Seq(Lines), l \in Lines :
              Select(Append(d, l), Inked)
                = IF l \in Inked THEN Append(Select(d, Inked), l) ELSE Select(d, Inked)
        BY SelectSteps
      <4> QED
        BY <3>1, <3>2, <4>1
    <3> QED
      BY <1>1, <1>2, <2>1, <3>1, <3>3
  <2> QED
    BY <1>1, <1>2, <2>1
<1> QED
  BY <1>3, WrittenIs

\* What is kept is the ink of the texts.
LEMMA InKept ==
  ASSUME NEW D, NEW doc, NEW s \in Seq(Seq(D))
  PROVE  ToSet(Kept(doc, s)) = (UNION {ToSet(part) : part \in ToSet(s)}) \cap Ink(doc)
<1> DEFINE T == Seq(D)
           X == {t \in Seq(T) :
                   ToSet(Kept(doc, t)) = (UNION {ToSet(part) : part \in ToSet(t)}) \cap Ink(doc)}
<1>0. s \in Seq(T)
  OBVIOUS
<1>1. /\ \A t \in Seq(T) : Kept(doc, t) \in Seq(D)
      /\ Kept(doc, <<>>) = <<>>
      /\ \A t \in Seq(T), part \in T :
           Kept(doc, Append(t, part)) = Kept(doc, t) \o Select(part, Ink(doc))
  BY KeptSteps
<1>2. \A part \in T : /\ Select(part, Ink(doc)) \in Seq(D)
                      /\ ToSet(Select(part, Ink(doc))) = ToSet(part) \cap Ink(doc)
  <2>1. \A part \in T : Select(part, Ink(doc)) \in Seq(D)
    BY SelectSteps
  <2>2. \A part \in T : ToSet(Select(part, Ink(doc))) = ToSet(part) \cap Ink(doc)
    BY InSelect
  <2> QED
    BY <2>1, <2>2
<1>3. \A p, q \in T : ToSet(p \o q) = ToSet(p) \cup ToSet(q)
  BY InConcat
<1>4. <<>> \in Seq(T) /\ ToSet(<<>>) = {}
  BY EmptySeq, InSeq
<1>5. \A t \in Seq(T), part \in T : /\ Append(t, part) \in Seq(T)
                                   /\ ToSet(Append(t, part)) = ToSet(t) \cup {part}
  <2> HIDE DEF T
  <2> QED
    BY AppendProperties, InAppend
<1>6. <<>> \in X
  BY <1>1, <1>4
<1>7. ASSUME NEW t \in Seq(T), NEW part \in T, t \in X PROVE Append(t, part) \in X
  <2>1. ToSet(Kept(doc, Append(t, part)))
          = ToSet(Kept(doc, t)) \cup (ToSet(part) \cap Ink(doc))
    <3> DEFINE k == Kept(doc, t)
               q == Select(part, Ink(doc))
    <3>1. k \in T /\ q \in T /\ ToSet(q) = ToSet(part) \cap Ink(doc)
      BY <1>1, <1>2
    <3>2. Kept(doc, Append(t, part)) = k \o q
      BY <1>1
    <3> HIDE DEF k, q, T
    <3>3. ToSet(k \o q) = ToSet(k) \cup ToSet(q)
      BY <1>3, <3>1
    <3> QED
      BY <3>1, <3>2, <3>3 DEF k
  <2>2. UNION {ToSet(p) : p \in ToSet(t) \cup {part}}
          = (UNION {ToSet(p) : p \in ToSet(t)}) \cup ToSet(part)
    OBVIOUS
  <2>3. ToSet(Kept(doc, t)) = (UNION {ToSet(p) : p \in ToSet(t)}) \cap Ink(doc)
    BY <1>7
  <2>4. ToSet(Kept(doc, Append(t, part)))
          = (UNION {ToSet(p) : p \in ToSet(Append(t, part))}) \cap Ink(doc)
    BY <1>5, <2>1, <2>2, <2>3
  <2> QED
    BY <1>5, <2>4
<1>8. Seq(T) \subseteq X
  <2> HIDE DEF T, X
  <2> QED
    BY <1>6, <1>7, Grow
<1> QED
  BY <1>0, <1>8

-----------------------------------------------------------------------------
(* Least and greatest numbers.                                             *)

LEMMA MinIs ==
  ASSUME NEW S, S \subseteq Nat, S # {}
  PROVE  Min(S) \in S /\ \A y \in S : Min(S) <= y
<1> DEFINE R == OpToRel(<, Nat)
<1>1. \A m, n \in Nat : m < n => <<m, n>> \in R
  BY DEF OpToRel
<1>2. IsWellFoundedOn(R, Nat)
  BY NatLessThanWellFounded, Zenon
<1> HIDE DEF R
<1>3. PICK x \in S : \A m \in S : ~(<<m, x>> \in R)
  BY <1>2, WFMin
<1>4. \A y \in S : x <= y
  <2> SUFFICES ASSUME NEW y \in S, ~(x <= y) PROVE FALSE
    OBVIOUS
  <2>1. x \in Nat /\ y \in Nat
    OBVIOUS
  <2>2. y < x
    BY <2>1
  <2>3. <<y, x>> \in R
    BY <1>1, <2>1, <2>2
  <2> QED
    BY <1>3, <2>3
<1> QED
  BY <1>4 DEF Min

LEMMA MaxIs ==
  ASSUME NEW n \in Nat, NEW S, S \subseteq 0 .. n, S # {}
  PROVE  Max(S) \in S /\ \A y \in S : Max(S) >= y
<1> DEFINE R == {n - x : x \in S}
<1>1. R \subseteq Nat
  OBVIOUS
<1>0. R # {}
  <2>1. PICK x \in S : TRUE
    OBVIOUS
  <2>2. n - x \in R
    OBVIOUS
  <2> QED
    BY <2>2
<1>2. Min(R) \in R /\ \A y \in R : Min(R) <= y
  <2> HIDE DEF R
  <2> QED
    BY <1>0, <1>1, MinIs
<1>3. PICK x \in S : Min(R) = n - x
  BY <1>2
<1>4. \A y \in S : x >= y
  <2> SUFFICES ASSUME NEW y \in S PROVE x >= y
    OBVIOUS
  <2>1. n - y \in R
    OBVIOUS
  <2> HIDE DEF R
  <2>2. n - x <= n - y
    BY <1>2, <1>3, <2>1
  <2> QED
    BY <2>2
<1> QED
  BY <1>4 DEF Max

-----------------------------------------------------------------------------
(* The lines of a stretch of a document.                                   *)

Span(a, b) == [i \in 1 .. b - a + 1 |-> a + i - 1]

LEMMA SpanIs ==
  ASSUME NEW a \in Nat \ {0}, NEW b \in Nat, a <= b + 1
  PROVE  /\ \A T : a .. b \subseteq T => Span(a, b) \in Seq(T)
         /\ Len(Span(a, b)) = b - a + 1
         /\ ToSet(Span(a, b)) = a .. b
         /\ UpTo(b) = UpTo(a - 1) \o Span(a, b)
<1> DEFINE N == b - a + 1
           S == Span(a, b)
<1>1. N \in Nat /\ S = [i \in 1 .. N |-> a + i - 1]
  BY DEF Span
<1>2. \A i \in 1 .. N : a + i - 1 \in a .. b
  OBVIOUS
<1>3. ASSUME NEW T, a .. b \subseteq T PROVE S \in Seq(T) /\ Len(S) = N
  <2>1. S \in [1 .. N -> T]
    BY <1>1, <1>2, <1>3
  <2>2. S \in Seq(T)
    BY <1>1, <2>1, SeqDef
  <2>3. Len(S) = N
    <3> HIDE DEF N, S
    <3> QED
      BY <1>1, <2>1, <2>2, LenProperties
  <2> QED
    BY <2>2, <2>3
<1>4. S \in Seq(Nat) /\ Len(S) = N /\ S \in Seq(a .. b)
  BY <1>3
<1>5. ToSet(S) = a .. b
  <2>1. ToSet(S) = {S[i] : i \in 1 .. N}
    BY <1>4, InSeq
  <2>2. \A x \in a .. b : x - a + 1 \in 1 .. N /\ S[x - a + 1] = x
    BY <1>1
  <2>3. a .. b \subseteq ToSet(S)
    <3> HIDE DEF S, N
    <3> QED
      BY <2>1, <2>2
  <2>4. ToSet(S) \subseteq a .. b
    BY <1>4, InSeq
  <2> QED
    BY <2>3, <2>4
<1>6. UpTo(b) = UpTo(a - 1) \o S
  <2> DEFINE u == UpTo(a - 1)
             w == UpTo(b)
  <2>1. a - 1 \in Nat
    OBVIOUS
  <2>2. u \in Seq(Nat) /\ Len(u) = a - 1 /\ \A i \in 1 .. a - 1 : u[i] = i
    BY <2>1, UpToGrows
  <2>3. w \in Seq(Nat) /\ Len(w) = b /\ \A i \in 1 .. b : w[i] = i
    BY UpToGrows
  <2>4. /\ u \o S \in Seq(Nat) /\ Len(u \o S) = Len(u) + Len(S)
        /\ \A i \in 1 .. Len(u) + Len(S) : (u \o S)[i] = IF i <= Len(u) THEN u[i] ELSE S[i - Len(u)]
    BY <1>4, <2>2, ConcatProperties
  <2>5. \A j \in 1 .. N : S[j] = a + j - 1
    BY <1>1
  <2>6. Len(u \o S) = b
    BY <1>4, <2>2, <2>4
  <2>7. ASSUME NEW i \in 1 .. b PROVE (u \o S)[i] = i
    <3> HIDE DEF u, S
    <3>1. CASE i <= a - 1
      BY <1>4, <2>2, <2>4, <3>1
    <3>2. CASE i > a - 1
      <4> DEFINE j == i - (a - 1)
      <4>1. j \in 1 .. N /\ a + j - 1 = i
        BY <3>2
      <4>2. S[j] = i
        <5> HIDE DEF j, N
        <5> QED
          BY <2>5, <4>1
      <4>3. i \in 1 .. Len(u) + Len(S) /\ ~(i <= Len(u)) /\ Len(u) = a - 1
        BY <1>4, <2>2, <3>2
      <4>4. (u \o S)[i] = S[j]
        <5>1. (u \o S)[i] = S[i - Len(u)]
          BY <2>4, <4>3
        <5> QED
          BY <4>3, <5>1
      <4> QED
        BY <4>2, <4>4
    <3>3. i <= a - 1 \/ i > a - 1
      OBVIOUS
    <3> QED
      BY <3>1, <3>2, <3>3
  <2> HIDE DEF u, w, S
  <2>8. \A i \in 1 .. Len(w) : w[i] = (u \o S)[i]
    BY <2>3, <2>7
  <2>9. w = u \o S
    BY <2>3, <2>4, <2>6, <2>8, SeqEqual
  <2> QED
    BY <2>9 DEF u, w
<1> QED
  BY <1>3, <1>4, <1>5, <1>6

\* Where nothing is selected nothing changes.
LEMMA SelectSkips ==
  ASSUME NEW a \in Nat \ {0}, NEW b \in Nat, a <= b + 1, NEW S, (a .. b) \cap S = {}
  PROVE  Select(UpTo(b), S) = Select(UpTo(a - 1), S)
<1>1. /\ Span(a, b) \in Seq(Nat) /\ Span(a, b) \in Seq(a .. b)
      /\ UpTo(b) = UpTo(a - 1) \o Span(a, b)
  <2>1. (a .. b) \subseteq Nat /\ (a .. b) \subseteq a .. b
    OBVIOUS
  <2> QED
    BY <2>1, SpanIs
<1>2. UpTo(a - 1) \in Seq(Nat)
  BY UpToGrows
<1>3. Select(UpTo(b), S) = Select(UpTo(a - 1), S) \o Select(Span(a, b), S)
  BY <1>1, <1>2, SelectConcat
<1>4. Select(Span(a, b), S) = <<>>
  BY <1>1, SelectNone
<1>5. Select(UpTo(a - 1), S) \in Seq(Nat)
  BY <1>2, SelectSteps
<1> QED
  BY <1>3, <1>4, <1>5, ConcatEmptySeq

\* A stripped stretch of a document has its ink.
LEMMA StripIs ==
  ASSUME NEW doc, NEW n \in Nat, Len(doc) = n,
         NEW a \in Nat \ {0}, NEW b \in Nat, a <= b + 1, b <= n
  PROVE  /\ Strip(doc, a, b) \in Seq(a .. b)
         /\ Ink(doc) \cap (a .. b) \subseteq ToSet(Strip(doc, a, b))
         /\ Strip(doc, a, b) = <<>> <=> Ink(doc) \cap (a .. b) = {}
         /\ \A S : S \cap (a .. b) = Ink(doc) \cap (a .. b) =>
              Select(UpTo(b), S) = Select(UpTo(a - 1), S) \o Select(Strip(doc, a, b), Ink(doc))
<1> DEFINE ink == {i \in a .. b : ~Blank(doc[i])}
           st == Strip(doc, a, b)
<1>1. ink = Ink(doc) \cap (a .. b)
  BY DEF Ink
<1>2. CASE ink = {}
  <2>1. st = <<>>
    BY <1>2 DEF Strip
  <2>2. <<>> \in Seq(a .. b)
    BY EmptySeq
  <2>3. ASSUME NEW S, S \cap (a .. b) = Ink(doc) \cap (a .. b)
        PROVE  Select(UpTo(b), S) = Select(UpTo(a - 1), S) \o Select(st, Ink(doc))
    <3>1. Select(UpTo(b), S) = Select(UpTo(a - 1), S)
      BY <1>1, <1>2, <2>3, SelectSkips
    <3>2. UpTo(a - 1) \in Seq(Nat)
      BY UpToGrows
    <3> DEFINE below == UpTo(a - 1)
    <3>5. \A s \in Seq(Nat) : Select(s, S) \in Seq(Nat)
      BY SelectSteps
    <3>6. Select(<<>>, Ink(doc)) = <<>>
      BY SelectSteps
    <3> HIDE DEF below
    <3>3. Select(below, S) \in Seq(Nat) /\ Select(<<>>, Ink(doc)) = <<>>
      BY <3>2, <3>5, <3>6 DEF below
    <3>4. Select(below, S) \o <<>> = Select(below, S)
      BY <3>3, ConcatEmptySeq
    <3> QED
      BY <2>1, <3>1, <3>3, <3>4 DEF below
  <2> QED
    BY <1>1, <1>2, <2>1, <2>2, <2>3
<1>3. CASE ink # {}
  <2> DEFINE lo == Min(ink)
             hi == Max(ink)
  <2>1. lo \in ink /\ \A y \in ink : lo <= y
    <3>1. ink \subseteq Nat
      OBVIOUS
    <3> HIDE DEF ink
    <3> QED
      BY <1>3, <3>1, MinIs
  <2>2. hi \in ink /\ \A y \in ink : hi >= y
    <3>1. ink \subseteq 0 .. b
      OBVIOUS
    <3> HIDE DEF ink
    <3> QED
      BY <1>3, <3>1, MaxIs
  <2>3. st = Span(lo, hi)
    BY <1>3 DEF Strip, Span
  <2> HIDE DEF lo, hi
  <2>4. lo \in Nat \ {0} /\ hi \in Nat /\ lo <= hi + 1 /\ lo .. hi \subseteq a .. b
    BY <2>1, <2>2
  <2>5. st \in Seq(a .. b) /\ ToSet(st) = lo .. hi /\ UpTo(hi) = UpTo(lo - 1) \o st
        /\ st \in Seq(Nat) /\ st \in Seq(lo .. hi) /\ Len(st) = hi - lo + 1
    <3>1. (lo .. hi) \subseteq Nat /\ (lo .. hi) \subseteq lo .. hi
      BY <2>4
    <3> HIDE DEF st, ink
    <3> QED
      BY <2>3, <2>4, <3>1, SpanIs
  <2>6. ink \subseteq ToSet(st)
    BY <2>1, <2>2, <2>5
  <2>7. st # <<>>
    BY <2>1, <2>2, <2>5, EmptySeq
  <2>8. ASSUME NEW S, S \cap (a .. b) = Ink(doc) \cap (a .. b)
        PROVE  Select(UpTo(b), S) = Select(UpTo(a - 1), S) \o Select(st, Ink(doc))
    <3>1. Select(UpTo(b), S) = Select(UpTo(hi), S)
      <4>1. ((hi + 1) .. b) \cap S = {}
        BY <1>1, <2>2, <2>4, <2>8
      <4>2. hi + 1 \in Nat \ {0} /\ hi + 1 <= b + 1 /\ (hi + 1) - 1 = hi
        BY <2>2, <2>4
      <4> QED
        BY <4>1, <4>2, SelectSkips
    <3>2. Select(UpTo(lo - 1), S) = Select(UpTo(a - 1), S)
      <4>1. (a .. lo - 1) \cap S = {}
        BY <1>1, <2>1, <2>4, <2>8
      <4>2. lo - 1 \in Nat /\ a <= (lo - 1) + 1
        BY <2>1, <2>4
      <4> QED
        BY <4>1, <4>2, SelectSkips
    <3>3. UpTo(lo - 1) \in Seq(Nat)
      BY <2>4, UpToGrows
    <3>4. Select(UpTo(hi), S) = Select(UpTo(lo - 1), S) \o Select(st, S)
      BY <2>5, <3>3, SelectConcat
    <3>5. Select(st, S) = Select(st, Ink(doc))
      <4>1. (a .. b) \cap S = (a .. b) \cap Ink(doc)
        BY <2>8
      <4>2. st \in Seq(a .. b)
        BY <2>5
      <4> DEFINE T == a .. b
      <4> HIDE DEF T, st
      <4>3. T \cap S = T \cap Ink(doc) /\ st \in Seq(T)
        BY <4>1, <4>2 DEF T
      <4> QED
        BY <4>3, SelectSame
    <3> QED
      BY <3>1, <3>2, <3>4, <3>5
  <2> QED
    BY <1>1, <1>3, <2>5, <2>6, <2>7, <2>8
<1> QED
  BY <1>2, <1>3

-----------------------------------------------------------------------------
(* The headings.                                                           *)

LEMMA NextInkIs ==
  ASSUME NEW doc, NEW n \in Nat, Len(doc) = n, NEW i \in Nat
  PROVE  NextInk(doc, i) = 0 \/ NextInk(doc, i) \in i + 1 .. n
<1> DEFINE after == {j \in i + 1 .. Len(doc) : ~Blank(doc[j])}
<1>1. after \subseteq i + 1 .. n /\ after \subseteq Nat
  OBVIOUS
<1>2. NextInk(doc, i) = IF after = {} THEN 0 ELSE Min(after)
  BY DEF NextInk
<1> HIDE DEF after
<1>3. after # {} => Min(after) \in after
  BY <1>1, MinIs
<1> QED
  BY <1>1, <1>2, <1>3

\* A title is not before its hashes, and what closes it not before the title.
LEMMA TitleIs ==
  ASSUME NEW doc, NEW n \in Nat, Len(doc) = n, NEW i \in 1 .. n
  PROVE  /\ TitleLine(doc, i) = 0 \/ TitleLine(doc, i) \in i .. n
         /\ ClosingLine(doc, i) \in i .. n
<1>1. NextInk(doc, i) = 0 \/ NextInk(doc, i) \in i + 1 .. n
  BY NextInkIs
<1>2. TitleLine(doc, i) \in {i, 0, NextInk(doc, i)}
  BY DEF TitleLine
<1>3. ClosingLine(doc, i) = i \/ (NextInk(doc, i) # 0 /\ ClosingLine(doc, i) = NextInk(doc, i))
  BY DEF ClosingLine
<1> QED
  BY <1>1, <1>2, <1>3

Matches(n) == [from : 1 .. n, title : 1 .. n, to : 1 .. n]

Match(doc, i) == [from |-> i, title |-> TitleLine(doc, i), to |-> ClosingLine(doc, TitleLine(doc, i))]

LEMMA MatchIs ==
  ASSUME NEW doc, NEW n \in Nat, Len(doc) = n, NEW i \in 1 .. n, TitleLine(doc, i) # 0
  PROVE  /\ Match(doc, i) \in Matches(n)
         /\ Match(doc, i).from = i /\ Match(doc, i).to >= i
<1>1. TitleLine(doc, i) \in i .. n
  BY TitleIs
<1> DEFINE t == TitleLine(doc, i)
<1>2. t \in 1 .. n /\ t >= i
  BY <1>1
<1>3. ClosingLine(doc, t) \in t .. n
  <2> HIDE DEF t
  <2> QED
    BY <1>2, TitleIs
<1>4. ClosingLine(doc, t) \in 1 .. n /\ ClosingLine(doc, t) >= i
  BY <1>2, <1>3
<1> QED
  BY <1>2, <1>4 DEF Match, Matches

LEMMA HeadingsSteps ==
  ASSUME NEW doc, NEW n \in Nat, Len(doc) = n
  PROVE  /\ \A s \in Seq(1 .. n) : HeadingsAt(doc, s) \in Seq(Matches(n))
         /\ HeadingsAt(doc, <<>>) = <<>>
         /\ \A s \in Seq(1 .. n), i \in 1 .. n :
              HeadingsAt(doc, Append(s, i)) =
                IF TitleLine(doc, i) = 0 \/ (HeadingsAt(doc, s) # <<>> /\ i <= Last(HeadingsAt(doc, s)).to) THEN HeadingsAt(doc, s)
                ELSE Append(HeadingsAt(doc, s), Match(doc, i))
<1> DEFINE A == Seq(Matches(n))
           T == 1 .. n
           op(found, i) == IF TitleLine(doc, i) = 0 \/ (found # <<>> /\ i <= Last(found).to) THEN found
                                 ELSE Append(found, Match(doc, i))
           step == [i \in T |-> [found \in A |-> op(found, i)]]
           Run(f, s) == f = [k \in 0 .. Len(s) |-> IF k = 0 THEN <<>> ELSE op(f[k - 1], s[k])]
           runs == [s \in Seq(T) |-> CHOOSE f : Run(f, s)]
           ends == [s \in Seq(T) |-> HeadingsAt(doc, s)]
<1>1. <<>> \in A /\ \A found \in A, i \in T : op(found, i) \in A
  BY MatchIs, EmptySeq, AppendProperties
<1>2. Steps(A, T, <<>>, step)
  <2> HIDE DEF A, T, op
  <2> QED
    BY <1>1 DEF Steps
<1>3. ASSUME NEW s \in Seq(T), NEW f \in [0 .. Len(s) -> A],
             f[0] = <<>>, \A k \in 1 .. Len(s) : f[k] = step[s[k]][f[k - 1]]
      PROVE  /\ runs[s][0] = <<>>
             /\ \A k \in 1 .. Len(s) :
                  runs[s][k - 1] \in A => runs[s][k] = step[s[k]][runs[s][k - 1]]
  <2> HIDE DEF A, T, op
  <2>1. Len(s) \in Nat /\ \A k \in 1 .. Len(s) : s[k] \in T /\ f[k - 1] \in A
    BY LenProperties, ElementOfSeq
  <2>2. \A k \in 1 .. Len(s) : f[k] = op(f[k - 1], s[k])
    BY <1>3, <2>1
  <2>3. Run(f, s)
    BY <1>3, <2>2
  <2>4. Run(runs[s], s)
    BY <2>3
  <2> DEFINE r == runs[s]
  <2>5. Run(r, s)
    BY <2>4
  <2> HIDE DEF r, runs
  <2>6. r[0] = <<>> /\ \A k \in 1 .. Len(s) : r[k] = op(r[k - 1], s[k])
    BY <2>1, <2>5
  <2>7. \A k \in 1 .. Len(s) : r[k - 1] \in A => r[k] = step[s[k]][r[k - 1]]
    BY <2>1, <2>6
  <2> QED
    BY <2>6, <2>7 DEF r
<1>4. \A s \in Seq(T) : ends[s] = runs[s][Len(s)]
  BY DEF HeadingsAt, Match, Fold
<1>5. Folds(A, T, <<>>, step, runs, ends)
  <2> HIDE DEF A, T, runs, step, ends
  <2> QED
    BY <1>3, <1>4 DEF Folds
<1>6. /\ \A s \in Seq(T) : ends[s] \in A
      /\ ends[<<>>] = <<>>
      /\ \A s \in Seq(T), i \in T : ends[Append(s, i)] = step[i][ends[s]]
  <2> HIDE DEF A, T, runs, step, ends
  <2> QED
    BY <1>2, <1>5, FoldSteps
<1>7. ASSUME NEW s \in Seq(T), NEW i \in T
      PROVE  ends[Append(s, i)] = op(ends[s], i)
  <2> HIDE DEF A, T, op, ends
  <2> QED
    BY <1>6
<1>8. /\ <<>> \in Seq(T)
      /\ \A s \in Seq(T), i \in T : Append(s, i) \in Seq(T)
  BY EmptySeq, AppendProperties
<1>9. \A s \in Seq(T) : ends[s] = HeadingsAt(doc, s)
  OBVIOUS
<1> HIDE DEF ends
<1>10. HeadingsAt(doc, <<>>) = <<>>
  BY <1>6, <1>8, <1>9
<1>11. ASSUME NEW s \in Seq(T), NEW i \in T
       PROVE  HeadingsAt(doc, Append(s, i)) = op(HeadingsAt(doc, s), i)
  <2> HIDE DEF A, T, op
  <2> QED
    BY <1>7, <1>8, <1>9
<1> QED
  BY <1>6, <1>9, <1>10, <1>11

\* Headings lie behind each other.
Ordered(found) ==
  /\ \A k \in 1 .. Len(found) : found[k].from <= found[k].to
  /\ \A k \in 1 .. Len(found) : \A j \in 1 .. k - 1 : found[j].to < found[k].from

LEMMA OrderedAppend ==
  ASSUME NEW n \in Nat, NEW found \in Seq(Matches(n)), NEW h \in Matches(n),
         Ordered(found), h.from <= h.to, found # <<>> => Last(found).to < h.from
  PROVE  Ordered(Append(found, h))
<1> DEFINE M == Matches(n)
           t == Append(found, h)
           N == Len(found)
<1>1. /\ Len(t) = N + 1 /\ N \in Nat /\ t[N + 1] = h
      /\ \A i \in 1 .. N : t[i] = found[i] /\ found[i] \in M
  BY AppendProperties, LenProperties, ElementOfSeq
<1>2. \A m \in M : m.from \in Nat /\ m.to \in Nat
  BY DEF Matches
<1>3. /\ \A k \in 1 .. N : found[k].from <= found[k].to
      /\ \A k \in 1 .. N : \A j \in 1 .. k - 1 : found[j].to < found[k].from
  BY DEF Ordered
<1>4. N # 0 => found[N].to < h.from
  BY <1>1, EmptySeq DEF Last
<1> HIDE DEF M, t, N
<1>5. ASSUME NEW k \in 1 .. N + 1 PROVE t[k].from <= t[k].to
  BY <1>1, <1>3
<1>6. ASSUME NEW k \in 1 .. N + 1, NEW j \in 1 .. k - 1 PROVE t[j].to < t[k].from
  <2>1. j \in 1 .. N /\ t[j] = found[j]
    BY <1>1
  <2>2. CASE k \in 1 .. N
    BY <1>1, <1>3, <2>1, <2>2
  <2>3. CASE k = N + 1
    <3>1. CASE j = N
      BY <1>1, <1>4, <2>1, <2>3, <3>1
    <3>2. CASE j # N
      <4>1. N \in 1 .. N /\ j \in 1 .. N - 1
        BY <1>1, <2>1, <3>2
      <4>2. found[j].to < found[N].from /\ found[N].from <= found[N].to /\ found[N].to < h.from
        BY <1>3, <1>4, <4>1
      <4>3. found[j].to \in Nat /\ found[N].from \in Nat /\ found[N].to \in Nat /\ h.from \in Nat
        BY <1>1, <1>2, <2>1, <4>1 DEF M
      <4>4. t[k] = h
        BY <1>1, <2>3
      <4> QED
        BY <2>1, <4>2, <4>3, <4>4
    <3> QED
      BY <3>1, <3>2
  <2> QED
    BY <1>1, <2>2, <2>3
<1> QED
  BY <1>1, <1>5, <1>6 DEF Ordered, t

LEMMA HeadingsAre ==
  ASSUME NEW doc, NEW n \in Nat, Len(doc) = n
  PROVE  Headings(doc) \in Seq(Matches(n)) /\ Ordered(Headings(doc))
<1> DEFINE T == 1 .. n
           H(m) == HeadingsAt(doc, UpTo(m))
           X == {m \in Nat : m <= n => Ordered(H(m))}
<1>1. /\ \A s \in Seq(T) : HeadingsAt(doc, s) \in Seq(Matches(n))
      /\ HeadingsAt(doc, <<>>) = <<>>
      /\ \A s \in Seq(T), i \in T :
           HeadingsAt(doc, Append(s, i)) =
             IF TitleLine(doc, i) = 0
                \/ (HeadingsAt(doc, s) # <<>> /\ i <= Last(HeadingsAt(doc, s)).to)
             THEN HeadingsAt(doc, s)
             ELSE Append(HeadingsAt(doc, s), Match(doc, i))
  BY HeadingsSteps
<1>2. UpTo(0) = <<>> /\ \A m \in Nat : m <= n => UpTo(m) \in Seq(T)
  BY UpToGrows
<1>3. 0 \in X
  <2>1. H(0) = <<>>
    BY <1>1, <1>2
  <2>2. Ordered(<<>>)
    BY EmptySeq DEF Ordered
  <2> QED
    BY <2>1, <2>2
<1>4. ASSUME NEW m \in Nat, m \in X PROVE m + 1 \in X
  <2> SUFFICES ASSUME m + 1 <= n PROVE Ordered(H(m + 1))
    OBVIOUS
  <2> DEFINE i == m + 1
             f == H(m)
  <2>1. i \in Nat /\ i # 0 /\ i - 1 = m /\ i \in T /\ m <= n
    OBVIOUS
  <2>2. UpTo(i) = Append(UpTo(m), i) /\ UpTo(m) \in Seq(T)
    <3>1. UpTo(i) = Append(UpTo(i - 1), i)
      <4> HIDE DEF i
      <4> QED
        BY <2>1, UpToGrows
    <3> QED
      BY <1>2, <2>1, <3>1
  <2>3. H(i) = IF TitleLine(doc, i) = 0 \/ (f # <<>> /\ i <= Last(f).to) THEN f
               ELSE Append(f, Match(doc, i))
    <3> HIDE DEF T, i
    <3> QED
      BY <1>1, <2>1, <2>2
  <2>4. f \in Seq(Matches(n)) /\ Ordered(f)
    BY <1>1, <1>4, <2>1, <2>2
  <2> HIDE DEF f, i
  <2>5. CASE TitleLine(doc, i) = 0 \/ (f # <<>> /\ i <= Last(f).to)
    BY <2>3, <2>4, <2>5 DEF i
  <2>6. CASE ~(TitleLine(doc, i) = 0 \/ (f # <<>> /\ i <= Last(f).to))
    <3> DEFINE h == Match(doc, i)
    <3>1. h \in Matches(n) /\ h.from = i /\ h.to >= i
      BY <2>1, <2>6, MatchIs
    <3>2. h.from <= h.to
      <4>1. h.to \in Nat
        BY <3>1 DEF Matches
      <4> HIDE DEF h
      <4> QED
        BY <2>1, <3>1, <4>1
    <3>3. f # <<>> => Last(f).to < h.from
      <4> SUFFICES ASSUME f # <<>> PROVE Last(f).to < h.from
        OBVIOUS
      <4>1. Last(f) \in Matches(n)
        BY <2>4, FrontThenLast
      <4>2. Last(f).to \in Nat
        BY <4>1 DEF Matches
      <4> HIDE DEF h
      <4> QED
        BY <2>1, <2>6, <3>1, <4>2
    <3> HIDE DEF h
    <3>4. Ordered(Append(f, h))
      BY <2>4, <3>1, <3>2, <3>3, OrderedAppend
    <3>5. H(i) = Append(f, h)
      BY <2>3, <2>6 DEF h
    <3> QED
      BY <3>4, <3>5 DEF i
  <2> QED
    BY <2>5, <2>6
<1>5. Nat \subseteq X
  <2> HIDE DEF X
  <2> QED
    BY <1>3, <1>4, Induct
<1>6. Ordered(H(n))
  BY <1>5
<1>7. H(n) \in Seq(Matches(n))
  BY <1>1, <1>2
<1> QED
  BY <1>6, <1>7 DEF Headings

-----------------------------------------------------------------------------
(* What lies between the headings.                                         *)

Begin(found, k) == IF k = 0 THEN 1 ELSE found[k].to + 1
End(found, n, k) == IF k < Len(found) THEN found[k + 1].from - 1 ELSE n

LEMMA GapIs ==
  ASSUME NEW n \in Nat, NEW found \in Seq(Matches(n)), Ordered(found), NEW k \in 0 .. Len(found)
  PROVE  /\ Begin(found, k) \in Nat \ {0} /\ End(found, n, k) \in Nat
         /\ Begin(found, k) <= End(found, n, k) + 1 /\ End(found, n, k) <= n
<1>1. Len(found) \in Nat /\ \A j \in 1 .. Len(found) : found[j] \in Matches(n)
  BY LenProperties, ElementOfSeq
<1>2. \A j \in 1 .. Len(found) : found[j].to \in 1 .. n /\ found[j].from \in 1 .. n
  BY <1>1 DEF Matches
<1>3. k + 1 \in 1 .. Len(found) /\ k # 0 => found[k].to < found[k + 1].from
  <2> SUFFICES ASSUME k + 1 \in 1 .. Len(found), k # 0 PROVE found[k].to < found[k + 1].from
    OBVIOUS
  <2>1. k \in 1 .. (k + 1) - 1
    BY <1>1
  <2> QED
    BY <2>1 DEF Ordered
<1>4. k # 0 => k \in 1 .. Len(found)
  BY <1>1
<1>5. k < Len(found) => k + 1 \in 1 .. Len(found)
  BY <1>1
<1>6. CASE k = 0
  BY <1>1, <1>2, <1>5, <1>6 DEF Begin, End
<1>7. CASE k # 0
  BY <1>1, <1>2, <1>3, <1>4, <1>5, <1>7 DEF Begin, End
<1> QED
  BY <1>6, <1>7

\* A line between two headings is in none, and those above it are the first.
LEMMA InGap ==
  ASSUME NEW n \in Nat, NEW found \in Seq(Matches(n)), Ordered(found), NEW k \in 0 .. Len(found),
         NEW i \in Begin(found, k) .. End(found, n, k)
  PROVE  /\ i \in 1 .. n
         /\ \A j \in 1 .. Len(found) :
              /\ i \notin found[j].from .. found[j].to
              /\ found[j].to < i <=> j <= k
<1>1. Len(found) \in Nat /\ \A j \in 1 .. Len(found) : found[j] \in Matches(n)
  BY LenProperties, ElementOfSeq
<1>2. \A j \in 1 .. Len(found) : found[j].to \in 1 .. n /\ found[j].from \in 1 .. n
  BY <1>1 DEF Matches
<1>3. /\ Begin(found, k) \in Nat \ {0} /\ End(found, n, k) \in Nat /\ End(found, n, k) <= n
  BY GapIs
<1>4. i \in 1 .. n /\ Begin(found, k) <= i /\ i <= End(found, n, k)
  BY <1>3
<1>5. ASSUME NEW j \in 1 .. Len(found), j <= k PROVE found[j].to < i
  <2>1. k \in 1 .. Len(found) /\ found[k].to < i
    BY <1>1, <1>2, <1>4, <1>5 DEF Begin
  <2>2. CASE j = k
    BY <2>1, <2>2
  <2>3. CASE j # k
    <3>1. j \in 1 .. k - 1
      BY <1>5, <2>3
    <3>2. found[j].to < found[k].from /\ found[k].from <= found[k].to
      BY <2>1, <3>1 DEF Ordered
    <3> QED
      BY <1>2, <1>4, <2>1, <3>2
  <2> QED
    BY <2>2, <2>3
<1>6. ASSUME NEW j \in 1 .. Len(found), j > k PROVE i < found[j].from /\ ~(found[j].to < i)
  <2>1. k + 1 \in 1 .. Len(found) /\ k < Len(found)
    BY <1>1, <1>6
  <2>2. i < found[k + 1].from
    BY <1>2, <1>4, <2>1 DEF End
  <2>3. found[j].from <= found[j].to
    BY DEF Ordered
  <2>4. CASE j = k + 1
    BY <1>2, <1>4, <2>2, <2>3, <2>4
  <2>5. CASE j # k + 1
    <3>1. k + 1 \in 1 .. j - 1
      BY <1>6, <2>5
    <3>2. found[k + 1].to < found[j].from /\ found[k + 1].from <= found[k + 1].to
      BY <2>1, <3>1 DEF Ordered
    <3> QED
      BY <1>2, <1>4, <2>1, <2>2, <2>3, <3>2
  <2> QED
    BY <2>4, <2>5
<1>7. ASSUME NEW j \in 1 .. Len(found)
      PROVE  i \notin found[j].from .. found[j].to /\ (found[j].to < i <=> j <= k)
  <2>1. CASE j <= k
    BY <1>2, <1>4, <1>5, <2>1
  <2>2. CASE j > k
    BY <1>2, <1>4, <1>6, <2>2
  <2> QED
    BY <2>1, <2>2
<1> QED
  BY <1>4, <1>7

-----------------------------------------------------------------------------
(* Blocks and chunks: a heading, and the numbers of lines.                 *)

Numbers(doc) == (1 .. Len(doc)) \cup {0}
Titles(doc) == {NoHeading} \cup {<<doc[i].words>> : i \in 1 .. Len(doc)}
Parts(doc) == [heading : Titles(doc), text : Seq(Numbers(doc))]

LEMMA TextsAre ==
  ASSUME NEW doc, NEW s \in Seq(Parts(doc))
  PROVE  /\ TextsOf(s) \in Seq(Seq(Numbers(doc)))
         /\ ToSet(TextsOf(s)) = {c.text : c \in ToSet(s)}
         /\ TextsOf(<<>>) = <<>>
         /\ \A c \in Parts(doc) : TextsOf(Append(s, c)) = Append(TextsOf(s), c.text)
         /\ \A t \in Seq(Parts(doc)) : TextsOf(s \o t) = TextsOf(s) \o TextsOf(t)
<1> DEFINE P == Parts(doc)
           T == Seq(Numbers(doc))
<1>0. s \in Seq(P) /\ \A c \in P : c.text \in T
  BY DEF Parts
<1> HIDE DEF P, T
<1>1. ASSUME NEW t \in Seq(P)
      PROVE  /\ TextsOf(t) \in Seq(T) /\ Len(TextsOf(t)) = Len(t)
             /\ \A i \in 1 .. Len(t) : TextsOf(t)[i] = t[i].text
             /\ ToSet(TextsOf(t)) = {c.text : c \in ToSet(t)}
  <2>1. Len(t) \in Nat /\ \A i \in 1 .. Len(t) : t[i] \in P
    BY LenProperties, ElementOfSeq
  <2>2. /\ TextsOf(t) \in [1 .. Len(t) -> T]
        /\ \A i \in 1 .. Len(t) : TextsOf(t)[i] = t[i].text
    BY <1>0, <2>1 DEF TextsOf
  <2>3. TextsOf(t) \in Seq(T)
    BY <2>1, <2>2, SeqDef
  <2>4. Len(TextsOf(t)) = Len(t)
    BY <2>1, <2>2, <2>3, LenProperties
  <2>5. /\ ToSet(TextsOf(t)) = {TextsOf(t)[i] : i \in 1 .. Len(t)}
        /\ ToSet(t) = {t[i] : i \in 1 .. Len(t)}
    BY <2>3, <2>4, InSeq
  <2> QED
    BY <2>2, <2>3, <2>4, <2>5
<1>2. TextsOf(<<>>) = <<>>
  <2>1. <<>> \in Seq(P) /\ Len(<<>>) = 0
    BY EmptySeq
  <2>2. TextsOf(<<>>) \in Seq(T) /\ Len(TextsOf(<<>>)) = 0
    BY <1>1, <2>1
  <2> QED
    BY <2>2, EmptySeq
<1>3. ASSUME NEW c \in P PROVE TextsOf(Append(s, c)) = Append(TextsOf(s), c.text)
  <2> DEFINE u == Append(s, c)
             w == Append(TextsOf(s), c.text)
  <2>1. /\ u \in Seq(P) /\ Len(u) = Len(s) + 1 /\ Len(s) \in Nat
        /\ \A i \in 1 .. Len(s) : u[i] = s[i]
        /\ u[Len(s) + 1] = c
    BY <1>0, AppendProperties, LenProperties
  <2>2. /\ TextsOf(u) \in Seq(T) /\ Len(TextsOf(u)) = Len(s) + 1
        /\ \A i \in 1 .. Len(s) + 1 : TextsOf(u)[i] = u[i].text
    BY <1>1, <2>1
  <2>3. /\ TextsOf(s) \in Seq(T) /\ Len(TextsOf(s)) = Len(s)
        /\ \A i \in 1 .. Len(s) : TextsOf(s)[i] = s[i].text
    BY <1>0, <1>1
  <2>4. /\ w \in Seq(T) /\ Len(w) = Len(s) + 1
        /\ \A i \in 1 .. Len(s) : w[i] = TextsOf(s)[i]
        /\ w[Len(s) + 1] = c.text
    BY <1>0, <2>3, AppendProperties
  <2> HIDE DEF u, w
  <2>5. \A i \in 1 .. Len(TextsOf(u)) : TextsOf(u)[i] = w[i]
    BY <2>1, <2>2, <2>3, <2>4
  <2>6. TextsOf(u) = w
    BY <2>2, <2>4, <2>5, SeqEqual
  <2> QED
    BY <2>6 DEF u, w
<1>4. ASSUME NEW t \in Seq(P) PROVE TextsOf(s \o t) = TextsOf(s) \o TextsOf(t)
  <2> DEFINE u == s \o t
             w == TextsOf(s) \o TextsOf(t)
  <2>1. /\ u \in Seq(P) /\ Len(u) = Len(s) + Len(t) /\ Len(s) \in Nat /\ Len(t) \in Nat
        /\ \A i \in 1 .. Len(s) + Len(t) : u[i] = IF i <= Len(s) THEN s[i] ELSE t[i - Len(s)]
    BY <1>0, ConcatProperties, LenProperties
  <2>2. /\ TextsOf(u) \in Seq(T) /\ Len(TextsOf(u)) = Len(s) + Len(t)
        /\ \A i \in 1 .. Len(s) + Len(t) : TextsOf(u)[i] = u[i].text
    BY <1>1, <2>1
  <2>3. /\ TextsOf(s) \in Seq(T) /\ Len(TextsOf(s)) = Len(s)
        /\ \A i \in 1 .. Len(s) : TextsOf(s)[i] = s[i].text
        /\ TextsOf(t) \in Seq(T) /\ Len(TextsOf(t)) = Len(t)
        /\ \A i \in 1 .. Len(t) : TextsOf(t)[i] = t[i].text
    BY <1>0, <1>1
  <2>4. /\ w \in Seq(T) /\ Len(w) = Len(s) + Len(t)
        /\ \A i \in 1 .. Len(s) + Len(t) :
             w[i] = IF i <= Len(s) THEN TextsOf(s)[i] ELSE TextsOf(t)[i - Len(s)]
    <3>1. /\ w \in Seq(T) /\ Len(w) = Len(TextsOf(s)) + Len(TextsOf(t))
          /\ \A i \in 1 .. Len(TextsOf(s)) + Len(TextsOf(t)) :
               w[i] = IF i <= Len(TextsOf(s)) THEN TextsOf(s)[i] ELSE TextsOf(t)[i - Len(TextsOf(s))]
      <4> DEFINE p == TextsOf(s)
                 q == TextsOf(t)
      <4>1. p \in Seq(T) /\ q \in Seq(T)
        BY <2>3
      <4> HIDE DEF p, q
      <4>2. /\ p \o q \in Seq(T) /\ Len(p \o q) = Len(p) + Len(q)
            /\ \A i \in 1 .. Len(p) + Len(q) : (p \o q)[i] = IF i <= Len(p) THEN p[i] ELSE q[i - Len(p)]
        BY <4>1, ConcatProperties
      <4> QED
        BY <4>2 DEF p, q
    <3> HIDE DEF w
    <3> QED
      BY <2>3, <3>1
  <2> HIDE DEF u, w
  <2>5. ASSUME NEW i \in 1 .. Len(s) + Len(t) PROVE TextsOf(u)[i] = w[i]
    <3>1. CASE i <= Len(s)
      <4>1. i \in 1 .. Len(s) /\ u[i] = s[i] /\ w[i] = TextsOf(s)[i]
        BY <2>1, <2>4, <3>1
      <4> QED
        BY <2>2, <2>3, <4>1
    <3>2. CASE ~(i <= Len(s))
      <4> DEFINE j == i - Len(s)
      <4>1. j \in 1 .. Len(t)
        BY <2>1, <3>2
      <4>2. u[i] = t[j] /\ w[i] = TextsOf(t)[j]
        BY <2>1, <2>4, <3>2
      <4> HIDE DEF j
      <4> QED
        BY <2>2, <2>3, <4>1, <4>2
    <3> QED
      BY <3>1, <3>2
  <2>6. TextsOf(u) = w
    BY <2>2, <2>4, <2>5, SeqEqual
  <2> QED
    BY <2>6 DEF u, w
<1> QED
  BY <1>0, <1>1, <1>2, <1>3, <1>4 DEF P, T

LEMMA FilledIs ==
  ASSUME NEW doc, NEW bs \in Seq(Parts(doc))
  PROVE  /\ Filled(bs) \in Seq(Parts(doc))
         /\ ToSet(Filled(bs)) = {b \in ToSet(bs) : b.text # <<>>}
         /\ Kept(doc, TextsOf(Filled(bs))) = Kept(doc, TextsOf(bs))
<1> DEFINE P == Parts(doc)
           D == Numbers(doc)
           S == {b \in P : b.text # <<>>}
           R == {b \in ToSet(bs) : b.text # <<>>}
           X == {t \in Seq(P) : Kept(doc, TextsOf(Select(t, S))) = Kept(doc, TextsOf(t))}
<1>0. bs \in Seq(P) /\ \A c \in P : c.text \in Seq(D)
  BY DEF Parts
<1>1. bs \in Seq(ToSet(bs)) /\ ToSet(bs) \subseteq P
  BY <1>0, InSeq
<1>2. ToSet(bs) \cap S = ToSet(bs) \cap R
  BY <1>1
<1>3. Filled(bs) = Select(bs, R)
  BY DEF Filled
<1>4. \A b \in P : b \in S <=> b.text # <<>>
  OBVIOUS
<1> HIDE DEF P, D, S, R
<1>5. Filled(bs) = Select(bs, S)
  BY <1>1, <1>2, <1>3, SelectSame
<1>6. ToSet(Filled(bs)) = {b \in ToSet(bs) : b.text # <<>>}
  <2>1. ToSet(Filled(bs)) = ToSet(bs) \cap R
    BY <1>0, <1>3, InSelect
  <2> QED
    BY <2>1 DEF R
<1>7. /\ \A s \in Seq(P) : Select(s, S) \in Seq(P)
      /\ Select(<<>>, S) = <<>>
      /\ \A s \in Seq(P), x \in P :
           Select(Append(s, x), S) = IF x \in S THEN Append(Select(s, S), x) ELSE Select(s, S)
  BY SelectSteps
<1>8. \A s \in Seq(P) : /\ TextsOf(s) \in Seq(Seq(D))
                       /\ \A c \in P : TextsOf(Append(s, c)) = Append(TextsOf(s), c.text)
  BY TextsAre DEF P, D
<1>9. /\ \A s \in Seq(Seq(D)) : Kept(doc, s) \in Seq(D)
      /\ \A s \in Seq(Seq(D)), part \in Seq(D) :
           Kept(doc, Append(s, part)) = Kept(doc, s) \o Select(part, Ink(doc))
  BY KeptSteps
<1>10. \A s \in Seq(P), c \in P :
         Kept(doc, TextsOf(Append(s, c))) = Kept(doc, TextsOf(s)) \o Select(c.text, Ink(doc))
  BY <1>0, <1>8, <1>9
<1>11. <<>> \in X
  BY <1>7, EmptySeq
<1>12. ASSUME NEW t \in Seq(P), NEW c \in P, t \in X PROVE Append(t, c) \in X
  <2>1. Append(t, c) \in Seq(P) /\ Kept(doc, TextsOf(Select(t, S))) = Kept(doc, TextsOf(t))
    BY <1>12, AppendProperties
  <2>2. Select(t, S) \in Seq(P)
    BY <1>7
  <2>3. CASE c \in S
    <3>1. Select(Append(t, c), S) = Append(Select(t, S), c)
      BY <1>7, <2>3
    <3>2. Kept(doc, TextsOf(Select(Append(t, c), S))) = Kept(doc, TextsOf(Append(t, c)))
      BY <1>10, <2>1, <2>2, <3>1
    <3> QED
      BY <2>1, <3>2
  <2>4. CASE c \notin S
    <3>1. Select(Append(t, c), S) = Select(t, S) /\ c.text = <<>>
      BY <1>4, <1>7, <2>4
    <3>2. Select(c.text, Ink(doc)) = <<>>
      BY <3>1, SelectSteps
    <3>3. Kept(doc, TextsOf(t)) \in Seq(D)
      BY <1>8, <1>9
    <3>4. Kept(doc, TextsOf(t)) \o <<>> = Kept(doc, TextsOf(t))
      BY <3>3, ConcatEmptySeq
    <3>5. Kept(doc, TextsOf(Select(Append(t, c), S))) = Kept(doc, TextsOf(Append(t, c)))
      BY <1>10, <2>1, <3>1, <3>2, <3>4
    <3> QED
      BY <2>1, <3>5
  <2> QED
    BY <2>3, <2>4
<1>13. Seq(P) \subseteq X
  <2> HIDE DEF X
  <2> QED
    BY <1>11, <1>12, Grow
<1>14. Kept(doc, TextsOf(Filled(bs))) = Kept(doc, TextsOf(bs))
  BY <1>0, <1>5, <1>13
<1>15. Filled(bs) \in Seq(P)
  BY <1>0, <1>5, <1>7
<1> QED
  BY <1>6, <1>14, <1>15 DEF P

GapHeading(doc, found, k) == IF k = 0 THEN NoHeading ELSE <<doc[found[k].title].words>>

\* What is written between two headings is body, under the first of them.
LEMMA GapBody ==
  ASSUME NEW doc, NEW n \in Nat, Len(doc) = n, NEW found, found = Headings(doc),
         NEW k \in 0 .. Len(found)
  PROVE  /\ Body(doc) \cap (Begin(found, k) .. End(found, n, k))
              = Ink(doc) \cap (Begin(found, k) .. End(found, n, k))
         /\ \A i \in Begin(found, k) .. End(found, n, k) :
              Governing(doc, i) = GapHeading(doc, found, k)
         /\ k < Len(found) =>
              ((End(found, n, k) + 1) .. (Begin(found, k + 1) - 1)) \cap Body(doc) = {}
<1>1. found \in Seq(Matches(n)) /\ Ordered(found)
  BY HeadingsAre
<1>2. /\ Len(found) \in Nat /\ ToSet(found) = {found[j] : j \in 1 .. Len(found)}
      /\ \A j \in 1 .. Len(found) : found[j] \in Matches(n)
  BY <1>1, LenProperties, InSeq, ElementOfSeq, SMTT(30)
<1>3. \A i \in Begin(found, k) .. End(found, n, k) :
        /\ \A j \in 1 .. Len(found) : i \notin found[j].from .. found[j].to
        /\ \A j \in 1 .. Len(found) : found[j].to < i <=> j <= k
  BY <1>1, InGap
<1>4. ASSUME NEW i \in Begin(found, k) .. End(found, n, k) PROVE ~InHeading(doc, i)
  BY <1>2, <1>3 DEF InHeading
<1>5. ASSUME NEW i \in Begin(found, k) .. End(found, n, k)
      PROVE  Governing(doc, i) = GapHeading(doc, found, k)
  <2> DEFINE above == {j \in 1 .. Len(found) : found[j].to < i}
  <2>1. above = 1 .. k
    BY <1>2, <1>3
  <2>2. Governing(doc, i)
          = IF above = {} THEN NoHeading ELSE <<doc[found[Max(above)].title].words>>
    BY DEF Governing
  <2> HIDE DEF above
  <2>3. CASE k = 0
    BY <2>1, <2>2, <2>3 DEF GapHeading
  <2>4. CASE k # 0
    <3>1. above \subseteq 0 .. k /\ k \in above /\ above # {} /\ k \in Nat
      BY <1>2, <2>1, <2>4
    <3>2. Max(above) \in above /\ \A y \in above : Max(above) >= y
      BY <3>1, MaxIs
    <3>3. Max(above) = k
      BY <2>1, <3>1, <3>2
    <3> QED
      BY <2>2, <2>4, <3>1, <3>3 DEF GapHeading
  <2> QED
    BY <2>3, <2>4
<1>6. ASSUME k < Len(found), NEW i \in (End(found, n, k) + 1) .. (Begin(found, k + 1) - 1)
      PROVE  i \notin Body(doc)
  <2>1. k + 1 \in 1 .. Len(found) /\ k + 1 # 0
    BY <1>2, <1>6
  <2>2. found[k + 1].from \in 1 .. n /\ found[k + 1].to \in 1 .. n
    BY <1>2, <2>1 DEF Matches
  <2>3. End(found, n, k) + 1 = found[k + 1].from /\ Begin(found, k + 1) - 1 = found[k + 1].to
    BY <1>6, <2>1, <2>2 DEF Begin, End
  <2>4. InHeading(doc, i)
    BY <1>2, <1>6, <2>1, <2>3 DEF InHeading
  <2> QED
    BY <2>4 DEF Body
<1> QED
  BY <1>4, <1>5, <1>6 DEF Body

Strips(doc, found, k) ==
  [j \in 1 .. k + 1 |-> Strip(doc, Begin(found, j - 1), End(found, Len(doc), j - 1))]

LEMMA StripsAre ==
  ASSUME NEW doc, NEW n \in Nat, Len(doc) = n, NEW found, found = Headings(doc), NEW k \in 0 .. Len(found)
  PROVE  /\ Strips(doc, found, k) \in Seq(Seq(Numbers(doc)))
         /\ Len(Strips(doc, found, k)) = k + 1
         /\ Kept(doc, Strips(doc, found, k)) = Select(UpTo(End(found, n, k)), Body(doc))
<1> DEFINE D == Numbers(doc)
           T == Seq(D)
           N == Len(found)
           st(j) == Strip(doc, Begin(found, j), End(found, n, j))
<1>1. found \in Seq(Matches(n)) /\ Ordered(found) /\ N \in Nat
  BY HeadingsAre, LenProperties
<1>2. \A j \in 0 .. N :
        /\ Begin(found, j) \in Nat \ {0} /\ End(found, n, j) \in Nat
        /\ Begin(found, j) <= End(found, n, j) + 1 /\ End(found, n, j) <= n
  BY <1>1, GapIs
<1>3. ASSUME NEW j \in 0 .. N
      PROVE  /\ st(j) \in T
             /\ Select(UpTo(End(found, n, j)), Body(doc))
                  = Select(UpTo(Begin(found, j) - 1), Body(doc)) \o Select(st(j), Ink(doc))
  <2> DEFINE a == Begin(found, j)
             b == End(found, n, j)
  <2>1. a \in Nat \ {0} /\ b \in Nat /\ a <= b + 1 /\ b <= n
    BY <1>2
  <2>2. Body(doc) \cap (a .. b) = Ink(doc) \cap (a .. b)
    BY GapBody
  <2> HIDE DEF a, b
  <2>3. /\ Strip(doc, a, b) \in Seq(a .. b)
        /\ \A S : S \cap (a .. b) = Ink(doc) \cap (a .. b) =>
             Select(UpTo(b), S) = Select(UpTo(a - 1), S) \o Select(Strip(doc, a, b), Ink(doc))
    BY <2>1, StripIs
  <2>4. (a .. b) \subseteq D
    BY <2>1 DEF Numbers
  <2>5. Strip(doc, a, b) \in T
    BY <2>3, <2>4, SeqMonotonic
  <2> QED
    BY <2>2, <2>3, <2>5 DEF a, b
<1>4. \A i \in Nat : i <= N => Strips(doc, found, i) \in Seq(T) /\ Len(Strips(doc, found, i)) = i + 1
  <2> SUFFICES ASSUME NEW i \in Nat, i <= N
               PROVE  Strips(doc, found, i) \in Seq(T) /\ Len(Strips(doc, found, i)) = i + 1
    OBVIOUS
  <2>1. \A j \in 1 .. i + 1 : j - 1 \in 0 .. N
    BY <1>1
  <2>2. \A j \in 1 .. i + 1 : st(j - 1) \in T
    <3> HIDE DEF st, T, N
    <3> QED
      BY <1>3, <2>1
  <2>3. Strips(doc, found, i) \in [1 .. i + 1 -> T]
    BY <2>2 DEF Strips
  <2>4. i + 1 \in Nat
    OBVIOUS
  <2> HIDE DEF T
  <2>5. Strips(doc, found, i) \in Seq(T)
    BY <2>3, <2>4, SeqDef
  <2> QED
    BY <2>3, <2>4, <2>5, LenProperties
<1>5. ASSUME NEW i \in Nat, i + 1 <= N
      PROVE  Strips(doc, found, i + 1) = Append(Strips(doc, found, i), st(i + 1))
  <2> DEFINE u == Strips(doc, found, i + 1)
             s == Strips(doc, found, i)
             w == Append(s, st(i + 1))
  <2>1. u \in Seq(T) /\ Len(u) = (i + 1) + 1 /\ s \in Seq(T) /\ Len(s) = i + 1 /\ st(i + 1) \in T
    <3>1. i + 1 \in Nat /\ i <= N /\ i + 1 \in 0 .. N
      BY <1>1, <1>5
    <3>2. st(i + 1) \in T
      BY <1>3, <3>1
    <3> HIDE DEF st, T, N
    <3>3. u \in Seq(T) /\ Len(u) = (i + 1) + 1
      BY <1>4, <1>5, <3>1
    <3>4. s \in Seq(T) /\ Len(s) = i + 1
      BY <1>4, <3>1
    <3> QED
      BY <3>2, <3>3, <3>4
  <2>2. /\ \A j \in 1 .. (i + 1) + 1 : u[j] = st(j - 1)
        /\ \A j \in 1 .. i + 1 : s[j] = st(j - 1)
    BY DEF Strips
  <2> HIDE DEF u, s, st, T
  <2>3. /\ w \in Seq(T) /\ Len(w) = Len(s) + 1
        /\ \A j \in 1 .. Len(s) : w[j] = s[j]
        /\ w[Len(s) + 1] = st(i + 1)
    BY <2>1, AppendProperties
  <2> HIDE DEF w
  <2>4. ASSUME NEW j \in 1 .. Len(u) PROVE u[j] = w[j]
    <3>1. CASE j = (i + 1) + 1
      <4>1. u[j] = st((i + 1) + 1 - 1) /\ (i + 1) + 1 - 1 = i + 1
        BY <2>1, <2>2, <3>1
      <4> QED
        BY <2>1, <2>3, <3>1, <4>1
    <3>2. CASE j # (i + 1) + 1
      BY <2>1, <2>2, <2>3, <3>2
    <3> QED
      BY <3>1, <3>2
  <2>5. u = w
    BY <2>1, <2>3, <2>4, SeqEqual
  <2> QED
    BY <2>5 DEF u, w, s
<1> DEFINE K(i) == Kept(doc, Strips(doc, found, i)) = Select(UpTo(End(found, n, i)), Body(doc))
           X == {i \in Nat : i <= N => K(i)}
<1>6. /\ Kept(doc, <<>>) = <<>>
      /\ \A s \in Seq(T), part \in T :
           Kept(doc, Append(s, part)) = Kept(doc, s) \o Select(part, Ink(doc))
  BY KeptSteps
<1>7. 0 \in X
  <2>1. Strips(doc, found, 0) = Append(<<>>, st(0))
    <3> DEFINE u == Strips(doc, found, 0)
               w == Append(<<>>, st(0))
    <3>1. u \in Seq(T) /\ Len(u) = 1 /\ st(0) \in T /\ <<>> \in Seq(T) /\ Len(<<>>) = 0
      <4>1. Strips(doc, found, 0) \in Seq(T) /\ Len(Strips(doc, found, 0)) = 0 + 1
        <5>1. 0 \in Nat /\ 0 <= N
          BY <1>1
        <5> HIDE DEF T, N
        <5> QED
          BY <1>4, <5>1
      <4>2. st(0) \in T
        BY <1>1, <1>3
      <4>3. <<>> \in Seq(T) /\ Len(<<>>) = 0
        BY EmptySeq
      <4> HIDE DEF T, st
      <4> QED
        BY <4>1, <4>2, <4>3
    <3>2. u[1] = st(0)
      BY DEF Strips
    <3> HIDE DEF u, st, T
    <3>3. w \in Seq(T) /\ Len(w) = 0 + 1 /\ w[0 + 1] = st(0)
      BY <3>1, AppendProperties
    <3> HIDE DEF w
    <3>4. u = w
      BY <3>1, <3>2, <3>3, SeqEqual
    <3> QED
      BY <3>4 DEF u, w
  <2>2. Begin(found, 0) = 1 /\ Begin(found, 0) - 1 = 0
    BY DEF Begin
  <2>3. Select(UpTo(0), Body(doc)) = <<>>
    <3>1. UpTo(0) = <<>>
      BY UpToGrows
    <3> QED
      BY <3>1, SelectSteps
  <2>4. 0 \in 0 .. N
    BY <1>1
  <2>5. /\ st(0) \in T
        /\ Select(UpTo(End(found, n, 0)), Body(doc))
             = Select(UpTo(Begin(found, 0) - 1), Body(doc)) \o Select(st(0), Ink(doc))
    BY <1>3, <2>4
  <2>6. <<>> \in Seq(T)
    BY EmptySeq
  <2> HIDE DEF st, T
  <2>7. Kept(doc, Strips(doc, found, 0)) = <<>> \o Select(st(0), Ink(doc))
    BY <1>6, <2>1, <2>5, <2>6
  <2> QED
    BY <2>2, <2>3, <2>5, <2>7
<1>8. ASSUME NEW i \in Nat, i \in X PROVE i + 1 \in X
  <2> SUFFICES ASSUME i + 1 <= N PROVE K(i + 1)
    OBVIOUS
  <2>1. i \in 0 .. N /\ i + 1 \in 0 .. N /\ i <= N /\ i < N
    BY <1>1
  <2>2. Kept(doc, Strips(doc, found, i)) = Select(UpTo(End(found, n, i)), Body(doc))
    BY <1>8, <2>1
  <2> DEFINE a == End(found, n, i) + 1
             b == Begin(found, i + 1) - 1
  <2>3. (a .. b) \cap Body(doc) = {}
    BY <2>1, GapBody
  <2>4. a \in Nat \ {0} /\ b \in Nat /\ a <= b + 1 /\ a - 1 = End(found, n, i)
    <3>1. End(found, n, i) \in Nat /\ Begin(found, i + 1) \in Nat \ {0}
      BY <1>2, <2>1
    <3>2. i + 1 \in 1 .. N /\ i + 1 # 0
      BY <2>1
    <3>3. found[i + 1] \in Matches(n) /\ found[i + 1].from <= found[i + 1].to
      <4>1. found[i + 1] \in Matches(n)
        BY <1>1, <3>2, ElementOfSeq
      <4> QED
        BY <1>1, <3>2, <4>1 DEF Ordered
    <3>4. found[i + 1].from \in 1 .. n /\ found[i + 1].to \in 1 .. n
      BY <3>3 DEF Matches
    <3>5. End(found, n, i) = found[i + 1].from - 1 /\ Begin(found, i + 1) = found[i + 1].to + 1
      BY <2>1, <3>2 DEF Begin, End
    <3> DEFINE e == End(found, n, i)
               c == Begin(found, i + 1)
    <3>6. e \in Nat /\ c \in Nat \ {0} /\ e + 1 <= c - 1
      BY <3>1, <3>3, <3>4, <3>5
    <3>7. a = e + 1 /\ b = c - 1 /\ e = End(found, n, i)
      OBVIOUS
    <3> HIDE DEF e, c, a, b
    <3> QED
      BY <3>6, <3>7
  <2>5. Select(UpTo(b), Body(doc)) = Select(UpTo(End(found, n, i)), Body(doc))
    <3> HIDE DEF a, b
    <3> QED
      BY <2>3, <2>4, SelectSkips
  <2>6. Strips(doc, found, i + 1) = Append(Strips(doc, found, i), st(i + 1))
    BY <1>5, <2>1
  <2>7. /\ st(i + 1) \in T
        /\ Select(UpTo(End(found, n, i + 1)), Body(doc))
             = Select(UpTo(b), Body(doc)) \o Select(st(i + 1), Ink(doc))
    BY <1>3, <2>1
  <2>8. Strips(doc, found, i) \in Seq(T)
    BY <1>4, <2>1
  <2> HIDE DEF st, T, b
  <2> QED
    BY <1>6, <2>2, <2>5, <2>6, <2>7, <2>8
<1>9. Nat \subseteq X
  <2> HIDE DEF X
  <2> QED
    BY <1>7, <1>8, Induct
<1>10. K(k)
  BY <1>1, <1>9
<1> QED
  BY <1>1, <1>4, <1>10

GapPart(doc, found, k) ==
  [heading |-> GapHeading(doc, found, k),
   text |-> Strip(doc, Begin(found, k), End(found, Len(doc), k))]

\* The body lines of a part are under its heading.
Headed(doc, c) == \A i \in ToSet(c.text) \ {0} : i \in Body(doc) => Governing(doc, i) = c.heading

LEMMA GapPartIs ==
  ASSUME NEW doc, NEW n \in Nat, Len(doc) = n, NEW found, found = Headings(doc), NEW k \in 0 .. Len(found)
  PROVE  /\ GapPart(doc, found, k) \in Parts(doc)
         /\ Headed(doc, GapPart(doc, found, k))
         /\ GapPart(doc, found, k).text # <<>> => Body(doc) # {}
<1> DEFINE a == Begin(found, k)
           b == End(found, n, k)
           st == Strip(doc, a, b)
<1>1. found \in Seq(Matches(n)) /\ Ordered(found) /\ Len(found) \in Nat
  BY HeadingsAre, LenProperties
<1>2. a \in Nat \ {0} /\ b \in Nat /\ a <= b + 1 /\ b <= n
  BY <1>1, GapIs
<1>3. st \in Seq(a .. b) /\ (st = <<>> <=> Ink(doc) \cap (a .. b) = {})
  <2> HIDE DEF a, b
  <2> QED
    BY <1>2, StripIs
<1>4. ToSet(st) \subseteq a .. b
  BY <1>3, InSeq
<1>5. (a .. b) \subseteq Numbers(doc)
  BY <1>2 DEF Numbers
<1>6. st \in Seq(Numbers(doc))
  <2> HIDE DEF st, a, b
  <2> QED
    BY <1>3, <1>5, SeqMonotonic
<1>7. GapHeading(doc, found, k) \in Titles(doc)
  <2>1. CASE k = 0
    BY <2>1 DEF GapHeading, Titles
  <2>2. CASE k # 0
    <3>1. k \in 1 .. Len(found)
      BY <1>1, <2>2
    <3>2. found[k] \in Matches(n)
      BY <1>1, <3>1, ElementOfSeq
    <3>3. found[k].title \in 1 .. Len(doc)
      BY <3>2 DEF Matches
    <3> QED
      BY <2>2, <3>3 DEF GapHeading, Titles
  <2> QED
    BY <2>1, <2>2
<1>8. /\ Body(doc) \cap (a .. b) = Ink(doc) \cap (a .. b)
      /\ \A i \in a .. b : Governing(doc, i) = GapHeading(doc, found, k)
  BY GapBody
<1> HIDE DEF st, a, b
<1>9. GapPart(doc, found, k) = [heading |-> GapHeading(doc, found, k), text |-> st]
  BY DEF GapPart, st, a, b
<1> QED
  BY <1>3, <1>4, <1>6, <1>7, <1>8, <1>9 DEF Parts, Headed

\* What the sections are made from.
LEMMA SectionsAre ==
  ASSUME NEW doc, NEW n \in Nat, Len(doc) = n, NEW found, found = Headings(doc), found # <<>>
  PROVE  \E bs \in Seq(Parts(doc)) :
           /\ Sections(doc, found) = Filled(bs)
           /\ TextsOf(bs) = Strips(doc, found, Len(found))
           /\ \A b \in ToSet(bs) : \E k \in 0 .. Len(found) : b = GapPart(doc, found, k)
<1> DEFINE P == Parts(doc)
           N == Len(found)
           one == <<Plain(doc, found[1].from - 1)>>
           rest == [k \in 1 .. Len(found) |-> Section(doc, found, k)]
           bs == one \o rest
<1>1. found \in Seq(Matches(n)) /\ N \in Nat /\ N # 0
  BY HeadingsAre, LenProperties, EmptySeq
<1>2. \A k \in 0 .. N : GapPart(doc, found, k) \in P
  BY GapPartIs
<1>3. Plain(doc, found[1].from - 1) = GapPart(doc, found, 0)
  BY <1>1 DEF Plain, GapPart, GapHeading, Begin, End
<1>4. \A k \in 1 .. N : Section(doc, found, k) = GapPart(doc, found, k)
  BY <1>1 DEF Section, GapPart, GapHeading, Begin, End
<1>5. one \in Seq(P) /\ Len(one) = 1 /\ one[1] = GapPart(doc, found, 0)
  <2>1. GapPart(doc, found, 0) \in P
    BY <1>1, <1>2
  <2> HIDE DEF P
  <2> QED
    BY <1>3, <2>1
<1>6. rest \in Seq(P) /\ Len(rest) = N /\ \A k \in 1 .. N : rest[k] = GapPart(doc, found, k)
  <2>1. \A k \in 1 .. N : Section(doc, found, k) \in P
    <3> HIDE DEF P
    <3> QED
      BY <1>1, <1>2, <1>4
  <2> HIDE DEF P
  <2>2. rest \in [1 .. N -> P] /\ \A k \in 1 .. N : rest[k] = GapPart(doc, found, k)
    BY <1>4, <2>1
  <2> HIDE DEF rest
  <2>3. rest \in Seq(P)
    BY <1>1, <2>2, SeqDef
  <2> QED
    BY <1>1, <2>2, <2>3, LenProperties
<1> HIDE DEF one, rest
<1>7. /\ bs \in Seq(P) /\ Len(bs) = 1 + N
      /\ \A i \in 1 .. 1 + N : bs[i] = IF i <= 1 THEN one[i] ELSE rest[i - 1]
  <2> HIDE DEF P, N
  <2>1. /\ one \o rest \in Seq(P) /\ Len(one \o rest) = Len(one) + Len(rest)
        /\ \A i \in 1 .. Len(one) + Len(rest) :
             (one \o rest)[i] = IF i <= Len(one) THEN one[i] ELSE rest[i - Len(one)]
    BY <1>5, <1>6, ConcatProperties
  <2>2. Len(one) = 1 /\ Len(rest) = N
    BY <1>5, <1>6
  <2> HIDE DEF bs
  <2> QED
    BY <2>1, <2>2 DEF bs
<1>8. \A i \in 1 .. N + 1 : i - 1 \in 0 .. N /\ bs[i] = GapPart(doc, found, i - 1)
  <2> SUFFICES ASSUME NEW i \in 1 .. N + 1
               PROVE  i - 1 \in 0 .. N /\ bs[i] = GapPart(doc, found, i - 1)
    OBVIOUS
  <2> HIDE DEF bs, P
  <2>1. CASE i = 1
    BY <1>1, <1>5, <1>7, <2>1
  <2>2. CASE i # 1
    <3> DEFINE k == i - 1
    <3>1. k \in 1 .. N /\ bs[i] = rest[k]
      BY <1>1, <1>7, <2>2
    <3> HIDE DEF k
    <3>2. bs[i] = GapPart(doc, found, k) /\ k \in 0 .. N
      BY <1>6, <3>1
    <3> QED
      BY <3>2 DEF k
  <2> QED
    BY <2>1, <2>2
<1>9. Sections(doc, found) = Filled(bs)
  BY DEF Sections, one, rest
<1> HIDE DEF bs
<1>10. \A b \in ToSet(bs) : \E k \in 0 .. N : b = GapPart(doc, found, k)
  <2>1. ToSet(bs) = {bs[i] : i \in 1 .. N + 1}
    <3>1. Len(bs) = N + 1
      BY <1>1, <1>7
    <3> HIDE DEF P
    <3> QED
      BY <1>7, <3>1, InSeq
  <2> QED
    BY <1>8, <2>1
<1>11. TextsOf(bs) = Strips(doc, found, N)
  <2>1. Len(bs) = N + 1
    BY <1>1, <1>7
  <2>2. \A i \in 1 .. N + 1 :
          bs[i].text = Strip(doc, Begin(found, i - 1), End(found, Len(doc), i - 1))
    <3> SUFFICES ASSUME NEW i \in 1 .. N + 1
                 PROVE  bs[i].text = Strip(doc, Begin(found, i - 1), End(found, Len(doc), i - 1))
      OBVIOUS
    <3> DEFINE k == i - 1
    <3>1. bs[i] = GapPart(doc, found, k)
      BY <1>8
    <3> HIDE DEF k, N
    <3>2. bs[i].text = Strip(doc, Begin(found, k), End(found, Len(doc), k))
      BY <3>1 DEF GapPart
    <3> QED
      BY <3>2 DEF k
  <2> QED
    BY <2>1, <2>2 DEF TextsOf, Strips
<1> QED
  BY <1>7, <1>9, <1>10, <1>11

LEMMA OnePart ==
  ASSUME NEW doc, NEW n \in Nat, Len(doc) = n
  PROVE  /\ Plain(doc, n) \in Parts(doc)
         /\ Kept(doc, TextsOf(<<Plain(doc, n)>>)) = Select(UpTo(n), Ink(doc))
<1> DEFINE st == Strip(doc, 1, n)
           P == Parts(doc)
           D == Numbers(doc)
<1>1. 1 \in Nat \ {0} /\ 1 <= n + 1 /\ n <= n /\ 1 - 1 = 0
  OBVIOUS
<1>2. /\ st \in Seq(1 .. n)
      /\ \A S : S \cap (1 .. n) = Ink(doc) \cap (1 .. n) =>
           Select(UpTo(n), S) = Select(UpTo(1 - 1), S) \o Select(st, Ink(doc))
  BY <1>1, StripIs
<1>3. Select(UpTo(n), Ink(doc)) = <<>> \o Select(st, Ink(doc))
  <2>1. Select(UpTo(n), Ink(doc)) = Select(UpTo(1 - 1), Ink(doc)) \o Select(st, Ink(doc))
    BY <1>2
  <2>2. UpTo(1 - 1) = <<>>
    BY <1>1, UpToGrows
  <2>3. Select(<<>>, Ink(doc)) = <<>>
    BY SelectSteps
  <2> QED
    BY <2>1, <2>2, <2>3
<1>4. st \in Seq(D)
  <2>1. (1 .. n) \subseteq D
    BY DEF Numbers
  <2> HIDE DEF st, D
  <2> QED
    BY <1>2, <2>1, SeqMonotonic
<1>5. Plain(doc, n) \in P /\ Plain(doc, n).text = st
  BY <1>4 DEF Plain, Parts, Titles
<1> HIDE DEF P, st
<1>6. <<Plain(doc, n)>> = Append(<<>>, Plain(doc, n)) /\ <<>> \in Seq(P)
  BY EmptySeq
<1>7. TextsOf(Append(<<>>, Plain(doc, n))) = Append(TextsOf(<<>>), st) /\ TextsOf(<<>>) = <<>>
  BY <1>5, <1>6, TextsAre DEF P
<1> HIDE DEF D
<1>8. Kept(doc, Append(<<>>, st)) = Kept(doc, <<>>) \o Select(st, Ink(doc)) /\ Kept(doc, <<>>) = <<>>
  <2>1. <<>> \in Seq(Seq(D))
    BY EmptySeq
  <2> QED
    BY <1>4, <2>1, KeptSteps
<1>9. Kept(doc, TextsOf(<<Plain(doc, n)>>)) = Select(UpTo(n), Ink(doc))
  BY <1>3, <1>6, <1>7, <1>8
<1> QED
  BY <1>5, <1>9 DEF P

Lasting(doc) == IF Body(doc) = {} THEN Ink(doc) ELSE Body(doc)

\* The blocks of a document have its lines, each under its heading.
LEMMA BlocksAre ==
  ASSUME NEW doc \in Seq(Lines)
  PROVE  /\ Blocks(doc) \in Seq(Parts(doc))
         /\ Kept(doc, TextsOf(Blocks(doc))) = Select(UpTo(Len(doc)), Lasting(doc))
         /\ \A b \in ToSet(Blocks(doc)) : Headed(doc, b)
<1> DEFINE n == Len(doc)
           found == Headings(doc)
           F == Sections(doc, found)
           P == Parts(doc)
<1>1. n \in Nat /\ (doc = <<>> <=> n = 0)
  BY LenProperties, EmptySeq
<1>2. Blocks(doc) = IF F = <<>> /\ doc # <<>> THEN <<Plain(doc, n)>> ELSE F
  BY DEF Blocks
<1>3. found \in Seq(Matches(n)) /\ Len(found) \in Nat
  BY <1>1, HeadingsAre, LenProperties
<1>4. ASSUME F = <<>>, Body(doc) = {} \/ found = <<>>
      PROVE  /\ Blocks(doc) \in Seq(Parts(doc))
             /\ Kept(doc, TextsOf(Blocks(doc))) = Select(UpTo(Len(doc)), Lasting(doc))
             /\ \A b \in ToSet(Blocks(doc)) : Headed(doc, b)
  <2>1. Lasting(doc) = Ink(doc)
    <3>1. CASE Body(doc) = {}
      BY <3>1 DEF Lasting
    <3>2. CASE found = <<>>
      <4>1. \A i : ~InHeading(doc, i)
        BY <3>2, InSeq DEF InHeading
      <4>2. Body(doc) = Ink(doc)
        BY <4>1 DEF Body
      <4> QED
        BY <4>2 DEF Lasting
    <3> QED
      BY <1>4, <3>1, <3>2
  <2>2. CASE doc = <<>>
    <3>1. Blocks(doc) = <<>>
      BY <1>2, <1>4, <2>2
    <3>2. UpTo(n) = <<>>
      BY <1>1, <2>2, UpToGrows
    <3>3. <<>> \in Seq(P) /\ ToSet(<<>>) = {}
      BY EmptySeq, InSeq
    <3>4. TextsOf(<<>>) = <<>>
      BY <3>3, TextsAre DEF P
    <3>5. Kept(doc, <<>>) = <<>>
      BY KeptSteps
    <3>6. Select(<<>>, Lasting(doc)) = <<>>
      BY SelectSteps
    <3> QED
      BY <3>1, <3>2, <3>3, <3>4, <3>5, <3>6
  <2>3. CASE doc # <<>>
    <3>1. Blocks(doc) = <<Plain(doc, n)>>
      BY <1>2, <1>4, <2>3
    <3>2. /\ Plain(doc, n) \in P
          /\ Kept(doc, TextsOf(<<Plain(doc, n)>>)) = Select(UpTo(n), Ink(doc))
      BY <1>1, OnePart
    <3>3. Headed(doc, Plain(doc, n))
      <4>1. CASE Body(doc) = {}
        BY <4>1 DEF Headed
      <4>2. CASE found = <<>>
        <5>1. \A i : Governing(doc, i) = NoHeading
          BY <1>3, <4>2, EmptySeq DEF Governing
        <5> QED
          BY <5>1 DEF Headed, Plain
      <4> QED
        BY <1>4, <4>1, <4>2
    <3> HIDE DEF P
    <3>4. <<Plain(doc, n)>> \in Seq(P) /\ ToSet(<<Plain(doc, n)>>) = {Plain(doc, n)}
      <4>1. <<>> \in Seq(P) /\ ToSet(<<>>) = {}
        BY EmptySeq, InSeq
      <4>2. <<Plain(doc, n)>> = Append(<<>>, Plain(doc, n))
        OBVIOUS
      <4>3. /\ Append(<<>>, Plain(doc, n)) \in Seq(P)
            /\ ToSet(Append(<<>>, Plain(doc, n))) = {} \cup {Plain(doc, n)}
        <5> DEFINE e == <<>>
                   p == Plain(doc, n)
        <5>1. e \in Seq(P) /\ p \in P /\ ToSet(e) = {}
          BY <3>2, <4>1
        <5> HIDE DEF e, p
        <5>2. Append(e, p) \in Seq(P) /\ ToSet(Append(e, p)) = ToSet(e) \cup {p}
          BY <5>1, AppendProperties, InAppend
        <5>3. Append(e, p) \in Seq(P) /\ ToSet(Append(e, p)) = {} \cup {p}
          BY <5>1, <5>2
        <5> QED
          BY <5>3 DEF e, p
      <4> QED
        BY <4>2, <4>3
    <3> QED
      BY <2>1, <3>1, <3>2, <3>3, <3>4 DEF P
  <2> QED
    BY <2>2, <2>3
<1>5. CASE found = <<>>
  BY <1>4, <1>5 DEF Sections
<1>6. CASE found # <<>>
  <2>1. PICK bs \in Seq(P) :
          /\ F = Filled(bs)
          /\ TextsOf(bs) = Strips(doc, found, Len(found))
          /\ \A b \in ToSet(bs) : \E k \in 0 .. Len(found) : b = GapPart(doc, found, k)
    BY <1>1, <1>6, SectionsAre
  <2>2. /\ F \in Seq(P)
        /\ ToSet(F) = {b \in ToSet(bs) : b.text # <<>>}
        /\ Kept(doc, TextsOf(F)) = Kept(doc, TextsOf(bs))
    BY <2>1, FilledIs
  <2>3. Kept(doc, TextsOf(F)) = Select(UpTo(n), Body(doc))
    <3>1. Len(found) \in 0 .. Len(found)
      BY <1>3
    <3>2. Kept(doc, Strips(doc, found, Len(found))) = Select(UpTo(End(found, n, Len(found))), Body(doc))
      BY <1>1, <3>1, StripsAre
    <3>3. End(found, n, Len(found)) = n
      BY <1>3 DEF End
    <3> QED
      BY <2>1, <2>2, <3>2, <3>3
  <2>4. \A b \in ToSet(F) : Headed(doc, b) /\ Body(doc) # {}
    <3>1. \A k \in 0 .. Len(found) : /\ Headed(doc, GapPart(doc, found, k))
                                     /\ GapPart(doc, found, k).text # <<>> => Body(doc) # {}
      BY <1>1, GapPartIs
    <3> QED
      BY <2>1, <2>2, <3>1
  <2>5. CASE F = <<>>
    <3>1. TextsOf(F) = <<>>
      BY <2>1, <2>5, TextsAre
    <3>2. Select(UpTo(n), Body(doc)) = <<>>
      BY <2>3, <3>1, KeptSteps
    <3>3. UpTo(n) \in Seq(1 .. n) /\ Len(UpTo(n)) = n /\ \A i \in 1 .. n : UpTo(n)[i] = i
      <4>1. (1 .. n) \subseteq 1 .. n
        OBVIOUS
      <4> QED
        BY <1>1, <4>1, UpToGrows
    <3>4. ToSet(UpTo(n)) = {UpTo(n)[i] : i \in 1 .. n}
      BY <3>3, InSeq
    <3>5. ToSet(Select(UpTo(n), Body(doc))) = ToSet(UpTo(n)) \cap Body(doc)
      BY <3>3, InSelect
    <3>6. Body(doc) \subseteq 1 .. n /\ ToSet(<<>>) = {}
      BY InSeq DEF Body, Ink
    <3>7. Body(doc) = {}
      BY <3>2, <3>3, <3>4, <3>5, <3>6
    <3> QED
      BY <1>4, <2>5, <3>7
  <2>6. CASE F # <<>>
    <3>1. Body(doc) # {}
      <4>1. F[1] \in ToSet(F)
        <5>1. Len(F) \in Nat \ {0} /\ ToSet(F) = {F[i] : i \in 1 .. Len(F)}
          BY <2>2, <2>6, EmptySeq, InSeq
        <5> QED
          BY <5>1
      <4> QED
        BY <2>4, <4>1
    <3>2. Lasting(doc) = Body(doc) /\ Blocks(doc) = F
      BY <1>2, <2>6, <3>1 DEF Lasting
    <3> QED
      BY <2>2, <2>3, <2>4, <3>2
  <2> QED
    BY <2>5, <2>6
<1> QED
  BY <1>5, <1>6

-----------------------------------------------------------------------------
(* Paragraphs.                                                             *)

LEMMA InkIs ==
  ASSUME NEW doc
  PROVE  /\ Ink(doc) \subseteq Numbers(doc) /\ 0 \notin Ink(doc)
         /\ \A i \in Numbers(doc) : i \in Ink(doc) <=> ~(i = 0 \/ Blank(doc[i]))
         /\ 0 \in Numbers(doc)
BY DEF Ink, Numbers

LEMMA ParagraphsOf ==
  ASSUME NEW doc
  PROVE  /\ Paragraphs(doc, <<>>) = << <<>> >>
         /\ \A t \in Seq(Numbers(doc)), i \in Numbers(doc) :
              Paragraphs(doc, Append(t, i)) = Put(doc, Paragraphs(doc, t), i)
<1>1. Paragraphs(doc, <<>>) = << <<>> >>
  BY ParagraphsSteps
<1>2. \A t \in Seq(Numbers(doc)) : Paragraphs(doc, t) \in SomeParagraphs(Numbers(doc))
  BY <1>1, ParagraphsSteps
<1>3. \A t \in Seq(Numbers(doc)), i \in Numbers(doc) :
        Paragraphs(doc, Append(t, i)) = Put(doc, Paragraphs(doc, t), i)
  BY <1>1, <1>2, ParagraphsSteps
<1> QED
  BY <1>1, <1>3

LEMMA ParagraphsAre ==
  ASSUME NEW doc, NEW part \in Seq(Numbers(doc))
  PROVE  /\ Paragraphs(doc, part) \in Seq(Seq(Ink(doc)))
         /\ Paragraphs(doc, part) # <<>>
         /\ Paragraphs(doc, part) \in Seq(Seq(Numbers(doc)))
         /\ Kept(doc, Paragraphs(doc, part)) = Select(part, Ink(doc))
<1> DEFINE N == Numbers(doc)
           I == Ink(doc)
           S == Seq(I)
           Par(t) == Paragraphs(doc, t)
           X == {t \in Seq(N) : /\ Par(t) \in Seq(S) /\ Par(t) # <<>>
                                /\ Kept(doc, Par(t)) = Select(t, I)}
<1>1. I \subseteq N /\ \A i \in N : i \in I <=> ~(i = 0 \/ Blank(doc[i]))
  BY InkIs
<1>2. /\ Par(<<>>) = << <<>> >>
      /\ \A t \in Seq(N), i \in N :
           Par(Append(t, i)) = Put(doc, Par(t), i)
  BY ParagraphsOf
<1>3. /\ Kept(doc, <<>>) = <<>>
      /\ \A q \in Seq(S), p \in S :
           Kept(doc, Append(q, p)) = Kept(doc, q) \o Select(p, I)
      /\ \A q \in Seq(S) : Kept(doc, q) \in S
  BY KeptSteps
<1>4. /\ Select(<<>>, I) = <<>>
      /\ \A t \in Seq(N), i \in N :
           Select(Append(t, i), I) = IF i \in I THEN Append(Select(t, I), i) ELSE Select(t, I)
      /\ \A p \in S : Select(p, I) \in S
      /\ \A p \in S, i \in I : Select(Append(p, i), I) = Append(Select(p, I), i)
  <2>1. /\ Select(<<>>, I) = <<>>
        /\ \A t \in Seq(N), i \in N :
             Select(Append(t, i), I) = IF i \in I THEN Append(Select(t, I), i) ELSE Select(t, I)
    BY SelectSteps
  <2>2. /\ \A p \in S : Select(p, I) \in S
        /\ \A p \in S, i \in I :
             Select(Append(p, i), I) = IF i \in I THEN Append(Select(p, I), i) ELSE Select(p, I)
    BY SelectSteps
  <2> HIDE DEF N, I, S
  <2> QED
    BY <2>1, <2>2
<1>5. /\ \A q \in Seq(S), p \in S : Append(q, p) \in Seq(S) /\ Append(q, p) # <<>>
      /\ \A q \in Seq(S) : q # <<>> =>
           Front(q) \in Seq(S) /\ Last(q) \in S /\ q = Append(Front(q), Last(q))
      /\ <<>> \in S /\ <<>> \in Seq(S)
      /\ \A p \in S, i \in I : Append(p, i) \in S
      /\ \A p \in S : p \o <<>> = p
  <2>1. <<>> \in S /\ \A p \in S, i \in I : Append(p, i) \in S
    BY EmptySeq, AppendProperties
  <2>2. \A p \in S : p \o <<>> = p
    BY ConcatEmptySeq
  <2> HIDE DEF S
  <2>3. /\ \A q \in Seq(S), p \in S : Append(q, p) \in Seq(S) /\ Append(q, p) # <<>>
        /\ <<>> \in Seq(S)
    BY AppendProperties, EmptySeq
  <2>4. \A q \in Seq(S) : q # <<>> =>
          Front(q) \in Seq(S) /\ Last(q) \in S /\ q = Append(Front(q), Last(q))
    BY FrontThenLast
  <2> QED
    BY <2>1, <2>2, <2>3, <2>4
<1>6. \A p, q \in S, i \in I : p \o Append(q, i) = Append(p \o q, i)
  BY ConcatAppend
<1>7. <<>> \in X
  <2>1. << <<>> >> = Append(<<>>, <<>>) /\ <<>> \in Seq(N)
    BY EmptySeq
  <2> DEFINE e == <<>>
  <2>2. /\ Par(e) = Append(e, e) /\ e \in S /\ e \in Seq(S) /\ e \in Seq(N)
        /\ Kept(doc, e) = e /\ Select(e, I) = e
    BY <1>2, <1>3, <1>4, <1>5, <2>1
  <2> HIDE DEF e, S, N, I, Par
  <2>3. Par(e) \in Seq(S) /\ Par(e) # <<>>
    BY <1>5, <2>2
  <2>4. Kept(doc, Par(e)) = e \o e /\ e \o e = e
    <3>1. Kept(doc, Append(e, e)) = Kept(doc, e) \o Select(e, I)
      BY <1>3, <2>2
    <3>2. e \o e = e
      BY <2>2, ConcatEmptySeq DEF e
    <3> QED
      BY <2>2, <3>1, <3>2
  <2>5. e \in X
    BY <2>2, <2>3, <2>4
  <2> QED
    BY <2>5 DEF e
<1>8. ASSUME NEW t \in Seq(N), NEW i \in N, t \in X PROVE Append(t, i) \in X
  <2>1. Append(t, i) \in Seq(N)
    BY AppendProperties
  <2>2. Par(t) \in Seq(S) /\ Par(t) # <<>> /\ Kept(doc, Par(t)) = Select(t, I)
    BY <1>8
  <2> HIDE DEF S, N, I, Par
  <2>3. CASE i = 0 \/ Blank(doc[i])
    <3>1. Par(Append(t, i)) = Append(Par(t), <<>>) /\ Select(Append(t, i), I) = Select(t, I)
      <4>1. Par(Append(t, i)) = Put(doc, Par(t), i)
        BY <1>2
      <4> QED
        BY <1>1, <1>4, <2>3, <4>1 DEF Put
    <3>2. Append(Par(t), <<>>) \in Seq(S) /\ Append(Par(t), <<>>) # <<>>
      BY <1>5, <2>2
    <3>3. Kept(doc, Append(Par(t), <<>>)) = Kept(doc, Par(t)) \o <<>>
      <4>1. Kept(doc, Append(Par(t), <<>>)) = Kept(doc, Par(t)) \o Select(<<>>, I)
        BY <1>3, <1>5, <2>2
      <4> QED
        BY <1>4, <4>1
    <3>4. Kept(doc, Par(t)) \o <<>> = Kept(doc, Par(t))
      BY <1>3, <1>5, <2>2
    <3> QED
      BY <2>1, <2>2, <3>1, <3>2, <3>3, <3>4
  <2>4. CASE ~(i = 0 \/ Blank(doc[i]))
    <3> DEFINE f == Front(Par(t))
               l == Last(Par(t))
    <3>1. i \in I /\ Select(Append(t, i), I) = Append(Select(t, I), i)
      BY <1>1, <1>4, <2>4
    <3>2. Par(Append(t, i)) = Append(f, Append(l, i))
      <4>1. Par(Append(t, i)) = Put(doc, Par(t), i)
        BY <1>2
      <4> QED
        BY <2>4, <4>1 DEF Put
    <3>3. f \in Seq(S) /\ l \in S /\ Par(t) = Append(f, l)
      BY <1>5, <2>2
    <3> HIDE DEF f, l
    <3>4. Append(l, i) \in S
      BY <1>5, <3>1, <3>3
    <3>5. Append(f, Append(l, i)) \in Seq(S) /\ Append(f, Append(l, i)) # <<>>
      BY <1>5, <3>3, <3>4
    <3>6. Kept(doc, Append(f, Append(l, i))) = Kept(doc, f) \o Append(Select(l, I), i)
      <4>1. Kept(doc, Append(f, Append(l, i))) = Kept(doc, f) \o Select(Append(l, i), I)
        BY <1>3, <3>3, <3>4
      <4>2. Select(Append(l, i), I) = Append(Select(l, I), i)
        BY <1>4, <3>1, <3>3
      <4> QED
        BY <4>1, <4>2
    <3>7. Kept(doc, f) \o Append(Select(l, I), i) = Append(Kept(doc, f) \o Select(l, I), i)
      BY <1>3, <1>4, <1>6, <3>1, <3>3
    <3>8. Kept(doc, Par(t)) = Kept(doc, f) \o Select(l, I)
      BY <1>3, <3>3
    <3> QED
      BY <2>1, <2>2, <3>1, <3>2, <3>5, <3>6, <3>7, <3>8
  <2> QED
    BY <2>3, <2>4
<1>9. Seq(N) \subseteq X
  <2> HIDE DEF X, N
  <2> QED
    BY <1>7, <1>8, Grow
<1>10. Par(part) \in Seq(S) /\ Par(part) # <<>> /\ Kept(doc, Par(part)) = Select(part, I)
  BY <1>9
<1>11. Par(part) \in Seq(Seq(N))
  <2>1. \A p \in S : p \in Seq(N)
    BY <1>1, SeqMonotonic
  <2>2. S \subseteq Seq(N)
    BY <2>1
  <2> HIDE DEF S, Par
  <2> QED
    BY <1>10, <2>2, SeqMonotonic
<1> QED
  BY <1>10, <1>11

\* A paragraph is one, and one paragraph.
LEMMA OneParagraph ==
  ASSUME NEW doc, NEW p \in Seq(Ink(doc))
  PROVE  Paragraphs(doc, p) = <<p>>
<1> DEFINE I == Ink(doc)
           N == Numbers(doc)
           X == {q \in Seq(I) : Paragraphs(doc, q) = <<q>>}
<1>1. I \subseteq N /\ \A i \in N : i \in I <=> ~(i = 0 \/ Blank(doc[i]))
  BY InkIs
<1>2. /\ Paragraphs(doc, <<>>) = << <<>> >>
      /\ \A t \in Seq(N), i \in N :
           Paragraphs(doc, Append(t, i)) = Put(doc, Paragraphs(doc, t), i)
  BY ParagraphsOf
<1>3. \A q \in Seq(I) : q \in Seq(N)
  BY <1>1, SeqMonotonic
<1>4. <<>> \in X
  BY <1>2, EmptySeq
<1>5. ASSUME NEW q \in Seq(I), NEW i \in I, q \in X PROVE Append(q, i) \in X
  <2>1. Append(q, i) \in Seq(I) /\ Paragraphs(doc, q) = <<q>>
    BY <1>5, AppendProperties
  <2>2. Paragraphs(doc, Append(q, i)) = Append(Front(<<q>>), Append(Last(<<q>>), i))
    <3>1. i \in N /\ ~(i = 0 \/ Blank(doc[i])) /\ q \in Seq(N)
      BY <1>1, <1>3
    <3>2. Paragraphs(doc, Append(q, i)) = Put(doc, Paragraphs(doc, q), i)
      BY <1>2, <3>1
    <3> HIDE DEF I, N
    <3> QED
      BY <2>1, <3>1, <3>2 DEF Put
  <2>3. Front(<<q>>) = <<>> /\ Last(<<q>>) = q
    <3> DEFINE T == {q}
               e == <<>>
    <3>1. e \in Seq(T) /\ q \in T /\ <<q>> = Append(e, q)
      BY EmptySeq
    <3> HIDE DEF e, T
    <3>2. Last(Append(e, q)) = q /\ Front(Append(e, q)) = e
      BY <3>1, LastAndFront
    <3> QED
      BY <3>1, <3>2 DEF e
  <2>4. Append(<<>>, Append(q, i)) = <<Append(q, i)>>
    OBVIOUS
  <2> QED
    BY <2>1, <2>2, <2>3, <2>4
<1>6. Seq(I) \subseteq X
  <2> HIDE DEF X
  <2> QED
    BY <1>4, <1>5, Grow
<1> QED
  BY <1>6

\* A blank line put in ends a paragraph.
LEMMA ParagraphsSplit ==
  ASSUME NEW doc, NEW a \in Seq(Numbers(doc)), NEW b \in Seq(Numbers(doc))
  PROVE  Paragraphs(doc, Append(a, 0) \o b) = Paragraphs(doc, a) \o Paragraphs(doc, b)
<1> DEFINE N == Numbers(doc)
           S == Seq(Numbers(doc))
           Par(t) == Paragraphs(doc, t)
           c == Append(a, 0)
           X == {t \in Seq(N) : Par(c \o t) = Par(a) \o Par(t)}
<1>1. 0 \in N /\ \A i \in N : i = 0 \/ i \in N
  BY InkIs
<1>2. /\ Par(<<>>) = << <<>> >>
      /\ \A t \in Seq(N), i \in N :
           Par(Append(t, i)) = Put(doc, Par(t), i)
  BY ParagraphsOf
<1>3. \A t \in Seq(N) : Par(t) \in Seq(S) /\ Par(t) # <<>>
  BY ParagraphsAre
<1>4. c \in Seq(N) /\ <<>> \in Seq(N) /\ <<>> \in S
  BY <1>1, AppendProperties, EmptySeq
<1>5. \A t \in Seq(N), i \in N : Append(t, i) \in Seq(N)
  BY AppendProperties
<1>6. \A t \in Seq(N) : c \o t \in Seq(N)
  BY <1>4, ConcatProperties
<1>7. \A t \in Seq(N), i \in N : c \o Append(t, i) = Append(c \o t, i)
  BY <1>4, ConcatAppend
<1>8. c \o <<>> = c
  BY <1>4, ConcatEmptySeq
<1>9. Par(c) = Append(Par(a), <<>>)
  BY <1>1, <1>2 DEF Put
<1> HIDE DEF c
<1>10. /\ \A q, r \in Seq(S), p \in S : q \o Append(r, p) = Append(q \o r, p)
       /\ \A q, r \in Seq(S) : q \o r \in Seq(S)
       /\ \A q \in Seq(S) : q \o <<>> = q
       /\ \A q \in Seq(S), p \in S : Front(Append(q, p)) = q /\ Last(Append(q, p)) = p
       /\ \A q \in Seq(S) : q # <<>> =>
            Front(q) \in Seq(S) /\ Last(q) \in S /\ q = Append(Front(q), Last(q))
       /\ <<>> \in Seq(S)
  <2> HIDE DEF S
  <2>1. \A q, r \in Seq(S), p \in S : q \o Append(r, p) = Append(q \o r, p)
    BY ConcatAppend
  <2>2. \A q, r \in Seq(S) : q \o r \in Seq(S)
    BY ConcatProperties
  <2>3. \A q \in Seq(S) : q \o <<>> = q
    BY ConcatEmptySeq
  <2>4. \A q \in Seq(S), p \in S : Front(Append(q, p)) = q /\ Last(Append(q, p)) = p
    BY LastAndFront
  <2>5. \A q \in Seq(S) : q # <<>> =>
            Front(q) \in Seq(S) /\ Last(q) \in S /\ q = Append(Front(q), Last(q))
    BY FrontThenLast
  <2> QED
    BY <2>1, <2>2, <2>3, <2>4, <2>5, EmptySeq
<1>11. a \in Seq(N)
  OBVIOUS
<1>12. <<>> \in X
  <2> DEFINE e == <<>>
  <2>1. << <<>> >> = Append(e, e)
    OBVIOUS
  <2>2. e \in S /\ e \in Seq(S) /\ e \in Seq(N) /\ Par(e) = Append(e, e) /\ c \o e = c
        /\ Par(c) = Append(Par(a), e) /\ \A q \in Seq(S) : q \o e = q
    BY <1>2, <1>4, <1>8, <1>9, <1>10, <2>1
  <2> HIDE DEF e, N, S, Par
  <2>3. Par(a) \o Append(e, e) = Append(Par(a) \o e, e) /\ Par(a) \o e = Par(a)
    BY <1>3, <1>10, <1>11, <2>2
  <2>4. Par(c \o e) = Par(a) \o Par(e)
    BY <2>2, <2>3
  <2>5. e \in X
    BY <2>2, <2>4
  <2> QED
    BY <2>5 DEF e
<1>13. ASSUME NEW t \in Seq(N), NEW i \in N, t \in X PROVE Append(t, i) \in X
  <2>1. Par(c \o t) = Par(a) \o Par(t)
    BY <1>13
  <2> DEFINE f == Front(Par(t))
             l == Last(Par(t))
             u == Par(a)
  <2>2. f \in Seq(S) /\ l \in S /\ Par(t) = Append(f, l) /\ u \in Seq(S) /\ Par(t) \in Seq(S)
    <3> HIDE DEF S, N, Par
    <3> QED
      BY <1>3, <1>10, <1>11
  <2> HIDE DEF f, l
  <2>3. u \o Par(t) = Append(u \o f, l) /\ u \o f \in Seq(S)
    <3>1. u \o Append(f, l) = Append(u \o f, l) /\ u \o f \in Seq(S)
      <4>1. u \in Seq(S) /\ f \in Seq(S) /\ l \in S
        BY <2>2
      <4> HIDE DEF S, N, Par, u
      <4> QED
        BY <4>1, ConcatAppend, ConcatProperties
    <3> HIDE DEF S, N, Par, u
    <3> QED
      BY <2>2, <3>1
  <2>4. Front(u \o Par(t)) = u \o f /\ Last(u \o Par(t)) = l
    <3> DEFINE v == u \o f
    <3>1. v \in Seq(S) /\ l \in S
      BY <2>2, <2>3
    <3> HIDE DEF S, N, Par, u, v
    <3>2. Last(Append(v, l)) = l /\ Front(Append(v, l)) = v
      BY <3>1, LastAndFront
    <3> QED
      BY <2>3, <3>2 DEF v
  <2>5. CASE i = 0 \/ Blank(doc[i])
    <3>1. Par(Append(t, i)) = Append(Par(t), <<>>) /\ Par(Append(c \o t, i)) = Append(Par(c \o t), <<>>)
      BY <1>2, <1>6, <2>5 DEF Put
    <3>2. u \o Append(Par(t), <<>>) = Append(u \o Par(t), <<>>)
      <4> HIDE DEF S, N, Par, u
      <4> QED
        BY <1>4, <1>10, <2>2
    <3> HIDE DEF Par
    <3> QED
      BY <1>5, <1>7, <2>1, <3>1, <3>2
  <2>6. CASE ~(i = 0 \/ Blank(doc[i]))
    <3>1. Par(Append(t, i)) = Append(f, Append(l, i))
      <4>1. Par(Append(t, i)) = Put(doc, Par(t), i)
        BY <1>2
      <4> QED
        BY <2>6, <4>1 DEF Put, f, l
    <3>2. Par(Append(c \o t, i)) = Append(u \o f, Append(l, i))
      <4>1. Par(Append(c \o t, i)) = Put(doc, Par(c \o t), i)
        BY <1>2, <1>6
      <4> HIDE DEF Par
      <4>2. Put(doc, Par(c \o t), i) = Append(Front(Par(c \o t)), Append(Last(Par(c \o t)), i))
        BY <2>6 DEF Put
      <4> HIDE DEF u
      <4> QED
        BY <2>1, <2>4, <4>1, <4>2 DEF u
    <3>3. Append(l, i) \in S
      BY <1>5, <2>2
    <3>4. u \o Append(f, Append(l, i)) = Append(u \o f, Append(l, i))
      <4> HIDE DEF S, N, Par, u
      <4> QED
        BY <1>10, <2>2, <3>3
    <3> HIDE DEF Par
    <3> QED
      BY <1>5, <1>7, <3>1, <3>2, <3>4
  <2> QED
    BY <2>5, <2>6
<1>14. Seq(N) \subseteq X
  <2> HIDE DEF X, N
  <2> QED
    BY <1>12, <1>13, Grow
<1> QED
  BY <1>14 DEF c

-----------------------------------------------------------------------------
(* Pieces: paragraphs together, as long as they fit.                       *)

LEMMA DocSized ==
  ASSUME NEW doc \in Seq(Lines)
  PROVE  Sized(1 .. Len(doc), doc)
<1>1. \A i \in 1 .. Len(doc) : doc[i] \in Lines
  BY ElementOfSeq
<1>2. \A l \in Lines : l.size \in Nat
  BY TextAssumption DEF Line
<1> QED
  BY <1>1, <1>2 DEF Sized

LEMMA TextSize ==
  ASSUME NEW doc \in Seq(Lines), NEW s \in Seq(Numbers(doc))
  PROVE  Size(doc, s) \in Int /\ Size(doc, s) >= -1 /\ (s # <<>> => Size(doc, s) >= 0)
<1> DEFINE D == 1 .. Len(doc)
<1>1. Sized(D, doc) /\ s \in Seq(D \cup {0})
  BY DocSized DEF Numbers
<1> HIDE DEF D
<1> QED
  BY <1>1, SizeIsNat

LEMMA ConcatSize ==
  ASSUME NEW doc \in Seq(Lines), NEW a \in Seq(Numbers(doc)), NEW b \in Seq(Numbers(doc))
  PROVE  Size(doc, a \o b) = Size(doc, a) + Size(doc, b) + 1
<1> DEFINE D == 1 .. Len(doc)
<1>1. Sized(D, doc) /\ a \in Seq(D \cup {0}) /\ b \in Seq(D \cup {0})
  BY DocSized DEF Numbers
<1> HIDE DEF D
<1> QED
  BY <1>1, SizeOfConcat

LEMMA BlankSize ==
  ASSUME NEW doc \in Seq(Lines), NEW a \in Seq(Numbers(doc))
  PROVE  Size(doc, Append(a, 0)) = Size(doc, a) + 1
<1> DEFINE D == 1 .. Len(doc)
<1>1. Sized(D, doc) /\ a \in Seq(D \cup {0}) /\ 0 \in D \cup {0}
  BY DocSized DEF Numbers
<1> HIDE DEF D
<1>2. Size(doc, a) \in Int
  BY <1>1, SizeIsNat
<1>3. Size(doc, Append(a, 0)) = Size(doc, a) + 1 + IF 0 = 0 THEN 0 ELSE doc[0].size
  BY <1>1, SizeSteps
<1> QED
  BY <1>2, <1>3

\* j is what joining makes of a and b.
Joins(doc, a, b, j) ==
  /\ j \in Seq(Numbers(doc))
  /\ Select(j, Ink(doc)) = Select(a, Ink(doc)) \o Select(b, Ink(doc))
  /\ ToSet(j) \subseteq ToSet(a) \cup ToSet(b) \cup {0}
  /\ ToSet(Paragraphs(doc, b)) \subseteq ToSet(Paragraphs(doc, j))
  /\ a = <<>> => j = b
  /\ a # <<>> => j = Append(a, 0) \o b

LEMMA JoinIs ==
  ASSUME NEW doc, NEW a \in Seq(Numbers(doc)), NEW b \in Seq(Numbers(doc))
  PROVE  Joins(doc, a, b, Join(a, b))
<1> DEFINE N == Numbers(doc)
           c == Append(a, 0)
           S == Seq(N)
<1>1. 0 \in N /\ 0 \notin Ink(doc)
  BY InkIs
<1>2. a \in Seq(N) /\ b \in Seq(N)
  OBVIOUS
<1>3. a # <<>> => Join(a, b) = c \o b
  <2> HIDE DEF N
  <2>1. c = a \o <<0>> /\ <<0>> \in Seq(N)
    BY <1>1, <1>2, AppendIsConcat
  <2>2. c \o b = a \o (<<0>> \o b)
    BY <1>2, <2>1, ConcatAssociative
  <2>3. a \o <<0>> \o b = (a \o <<0>>) \o b
    OBVIOUS
  <2> QED
    BY <2>1, <2>3 DEF Join
<1>4. CASE a = <<>>
  <2>1. Join(a, b) = b
    BY <1>4 DEF Join
  <2>2. Select(b, Ink(doc)) \in Seq(N) /\ Select(a, Ink(doc)) = <<>>
    BY <1>4, SelectSteps
  <2>3. <<>> \o Select(b, Ink(doc)) = Select(b, Ink(doc))
    BY <2>2, ConcatEmptySeq
  <2> QED
    BY <1>4, <2>1, <2>2, <2>3 DEF Joins
<1>5. CASE a # <<>>
  <2> HIDE DEF N
  <2>1. c \in Seq(N) /\ ToSet(c) = ToSet(a) \cup {0}
    BY <1>1, <1>2, AppendProperties, InAppend
  <2>2. c \o b \in Seq(N) /\ ToSet(c \o b) = ToSet(c) \cup ToSet(b)
    <3>1. b \in Seq(N)
      BY <1>2
    <3> HIDE DEF c
    <3> QED
      BY <2>1, <3>1, ConcatProperties, InConcat
  <2>3. Select(c \o b, Ink(doc)) = Select(c, Ink(doc)) \o Select(b, Ink(doc))
    BY <1>2, <2>1, SelectConcat
  <2>4. Select(c, Ink(doc)) = Select(a, Ink(doc))
    <3>1. Select(c, Ink(doc)) = IF 0 \in Ink(doc) THEN Append(Select(a, Ink(doc)), 0) ELSE Select(a, Ink(doc))
      <4>1. \A s \in Seq(N), x \in N :
              Select(Append(s, x), Ink(doc))
                = IF x \in Ink(doc) THEN Append(Select(s, Ink(doc)), x) ELSE Select(s, Ink(doc))
        BY SelectSteps
      <4> QED
        BY <1>1, <1>2, <4>1
    <3> QED
      BY <1>1, <3>1
  <2>5. Paragraphs(doc, c \o b) = Paragraphs(doc, a) \o Paragraphs(doc, b)
    BY <1>2, ParagraphsSplit DEF N
  <2>6. Paragraphs(doc, a) \in Seq(S) /\ Paragraphs(doc, b) \in Seq(S)
    BY <1>2, ParagraphsAre DEF N
  <2>7. ToSet(Paragraphs(doc, b)) \subseteq ToSet(Paragraphs(doc, c \o b))
    <3> HIDE DEF S, c
    <3> QED
      BY <2>5, <2>6, InConcat
  <2> QED
    BY <1>3, <1>5, <2>1, <2>2, <2>3, <2>4, <2>7 DEF Joins, N
<1> QED
  BY <1>4, <1>5

Groups(doc) == [out : Seq(Seq(Numbers(doc))), text : Seq(Numbers(doc)), size : Int]

Full(doc, acc, p) == acc.size + Size(doc, p) > MaxChunk /\ acc.text # <<>>

PutIn(doc, acc, p) ==
  IF Full(doc, acc, p)
  THEN [out |-> Append(acc.out, acc.text), text |-> p, size |-> Size(doc, p) + 2]
  ELSE [out |-> acc.out, text |-> Join(acc.text, p), size |-> acc.size + Size(doc, p) + 2]

NoGroups == [out |-> <<>>, text |-> <<>>, size |-> 0]

LEMMA PutInIs ==
  ASSUME NEW doc \in Seq(Lines), NEW acc \in Groups(doc), NEW p \in Seq(Numbers(doc))
  PROVE  PutIn(doc, acc, p) \in Groups(doc)
<1> DEFINE S == Seq(Numbers(doc))
<1>1. acc.out \in Seq(S) /\ acc.text \in S /\ acc.size \in Int
  BY DEF Groups
<1>2. Size(doc, p) \in Int /\ Join(acc.text, p) \in S /\ p \in S
  <2>1. Size(doc, p) \in Int
    BY TextSize
  <2>2. Join(acc.text, p) \in S
    BY <1>1, JoinIs DEF Joins
  <2> QED
    BY <2>1, <2>2
<1> HIDE DEF S
<1>3. Append(acc.out, acc.text) \in Seq(S)
  BY <1>1, AppendProperties
<1>4. Groups(doc) = [out : Seq(S), text : S, size : Int]
  BY DEF Groups, S
<1> QED
  BY <1>1, <1>2, <1>3, <1>4 DEF PutIn

LEMMA GroupedSteps ==
  ASSUME NEW doc \in Seq(Lines)
  PROVE  /\ \A s \in Seq(Seq(Numbers(doc))) : Grouped(doc, s) \in Groups(doc)
         /\ Grouped(doc, <<>>) = NoGroups
         /\ \A s \in Seq(Seq(Numbers(doc))), p \in Seq(Numbers(doc)) :
              Grouped(doc, Append(s, p)) =
                PutIn(doc, Grouped(doc, s), p)
<1> DEFINE A == Groups(doc)
           T == Seq(Numbers(doc))
           op(acc, p) == PutIn(doc, acc, p)
           step == [p \in T |-> [acc \in A |-> op(acc, p)]]
           Run(f, s) == f = [n \in 0 .. Len(s) |-> IF n = 0 THEN NoGroups ELSE op(f[n - 1], s[n])]
           runs == [s \in Seq(T) |-> CHOOSE f : Run(f, s)]
           ends == [s \in Seq(T) |-> Grouped(doc, s)]
<1>1. NoGroups \in A /\ \A acc \in A, p \in T : op(acc, p) \in A
  <2>1. NoGroups \in A
    <3> DEFINE S == Seq(Numbers(doc))
    <3>1. <<>> \in S
      BY EmptySeq
    <3>2. <<>> \in Seq(S)
      <4> HIDE DEF S
      <4> QED
        BY EmptySeq
    <3> QED
      BY <3>1, <3>2 DEF NoGroups, Groups
  <2>2. \A acc \in A, p \in T : op(acc, p) \in A
    BY PutInIs
  <2> QED
    BY <2>1, <2>2
<1>2. Steps(A, T, NoGroups, step)
  <2> HIDE DEF A, T, op
  <2> QED
    BY <1>1 DEF Steps
<1>3. ASSUME NEW s \in Seq(T), NEW f \in [0 .. Len(s) -> A],
             f[0] = NoGroups, \A n \in 1 .. Len(s) : f[n] = step[s[n]][f[n - 1]]
      PROVE  /\ runs[s][0] = NoGroups
             /\ \A n \in 1 .. Len(s) :
                  runs[s][n - 1] \in A => runs[s][n] = step[s[n]][runs[s][n - 1]]
  <2> HIDE DEF A, T, op
  <2>1. Len(s) \in Nat /\ \A n \in 1 .. Len(s) : s[n] \in T /\ f[n - 1] \in A
    BY LenProperties, ElementOfSeq
  <2>2. \A n \in 1 .. Len(s) : f[n] = op(f[n - 1], s[n])
    BY <1>3, <2>1
  <2>3. Run(f, s)
    BY <1>3, <2>2
  <2>4. Run(runs[s], s)
    BY <2>3
  <2> DEFINE r == runs[s]
  <2>5. Run(r, s)
    BY <2>4
  <2> HIDE DEF r, runs
  <2>6. r[0] = NoGroups /\ \A n \in 1 .. Len(s) : r[n] = op(r[n - 1], s[n])
    BY <2>1, <2>5
  <2>7. \A n \in 1 .. Len(s) : r[n - 1] \in A => r[n] = step[s[n]][r[n - 1]]
    BY <2>1, <2>6
  <2> QED
    BY <2>6, <2>7 DEF r
<1>4. \A s \in Seq(T) : ends[s] = runs[s][Len(s)]
  BY DEF Grouped, PutIn, Full, NoGroups, Fold
<1>5. Folds(A, T, NoGroups, step, runs, ends)
  <2> HIDE DEF A, T, runs, step, ends
  <2> QED
    BY <1>3, <1>4 DEF Folds
<1>6. /\ \A s \in Seq(T) : ends[s] \in A
      /\ ends[<<>>] = NoGroups
      /\ \A s \in Seq(T), p \in T : ends[Append(s, p)] = step[p][ends[s]]
  <2> HIDE DEF A, T, runs, step, ends
  <2> QED
    BY <1>2, <1>5, FoldSteps
<1>7. ASSUME NEW s \in Seq(T), NEW p \in T
      PROVE  ends[Append(s, p)] = op(ends[s], p)
  <2> HIDE DEF A, T, op, ends
  <2> QED
    BY <1>6
<1>8. /\ <<>> \in Seq(T)
      /\ \A s \in Seq(T), p \in T : Append(s, p) \in Seq(T)
  BY EmptySeq, AppendProperties
<1>9. \A s \in Seq(T) : ends[s] = Grouped(doc, s)
  OBVIOUS
<1> HIDE DEF ends
<1>10. Grouped(doc, <<>>) = NoGroups
  BY <1>6, <1>8, <1>9
<1>11. ASSUME NEW s \in Seq(T), NEW p \in T
       PROVE  Grouped(doc, Append(s, p)) = op(Grouped(doc, s), p)
  <2> HIDE DEF A, T, op
  <2> QED
    BY <1>7, <1>8, <1>9
<1> QED
  BY <1>6, <1>9, <1>10, <1>11

\* A text that is no longer than a chunk, or has a paragraph that is.
Long(doc, part) == \E p \in ToSet(Paragraphs(doc, part)) : Size(doc, p) > MaxChunk
Fits(doc, part) == Size(doc, part) <= MaxChunk \/ Long(doc, part)

GroupsFit(doc, acc, texts) ==
  /\ \A part \in ToSet(acc.out) : Fits(doc, part)
  /\ Fits(doc, acc.text)
  /\ acc.size >= 0 /\ (acc.text # <<>> => acc.size >= Size(doc, acc.text) + 2)
  /\ Kept(doc, Append(acc.out, acc.text)) = Kept(doc, texts)

LEMMA ParagraphFits ==
  ASSUME NEW doc \in Seq(Lines), NEW p \in Seq(Ink(doc))
  PROVE  p \in Seq(Numbers(doc)) /\ Fits(doc, p)
<1>1. Ink(doc) \subseteq Numbers(doc)
  BY InkIs
<1>2. p \in Seq(Numbers(doc))
  BY <1>1, SeqMonotonic
<1>3. Size(doc, p) \in Int /\ MaxChunk \in Nat
  BY <1>2, TextSize, TextAssumption
<1>4. CASE Size(doc, p) <= MaxChunk
  BY <1>2, <1>4 DEF Fits
<1>5. CASE Size(doc, p) > MaxChunk
  <2>1. Paragraphs(doc, p) = <<p>>
    BY OneParagraph
  <2>2. p \in ToSet(<<p>>)
    BY DEF ToSet
  <2> QED
    BY <1>2, <1>5, <2>1, <2>2 DEF Fits, Long
<1> QED
  BY <1>3, <1>4, <1>5

LEMMA GroupsFitOn ==
  ASSUME NEW doc \in Seq(Lines), NEW acc \in Groups(doc), NEW texts \in Seq(Seq(Ink(doc))),
         GroupsFit(doc, acc, texts), NEW p \in Seq(Ink(doc))
  PROVE  GroupsFit(doc, PutIn(doc, acc, p), Append(texts, p))
<1> DEFINE N == Numbers(doc)
           S == Seq(N)
           I == Ink(doc)
           new == PutIn(doc, acc, p)
<1>1. /\ acc.out \in Seq(S) /\ acc.text \in S /\ acc.size \in Int
      /\ p \in S /\ Fits(doc, p)
  BY ParagraphFits DEF Groups
<1>2. /\ Size(doc, p) \in Int /\ Size(doc, p) >= -1
      /\ Size(doc, acc.text) \in Int
  BY <1>1, TextSize
<1>3. /\ Join(acc.text, p) \in S
      /\ Select(Join(acc.text, p), I) = Select(acc.text, I) \o Select(p, I)
      /\ acc.text = <<>> => Join(acc.text, p) = p
      /\ acc.text # <<>> => Join(acc.text, p) = Append(acc.text, 0) \o p
  <2> DEFINE t == acc.text
  <2>1. t \in Seq(Numbers(doc)) /\ p \in Seq(Numbers(doc))
    BY <1>1
  <2> HIDE DEF t, I
  <2>2. Joins(doc, t, p, Join(t, p))
    BY <2>1, JoinIs
  <2> QED
    BY <2>2 DEF t, I, Joins
<1>4. acc.text # <<>> => Size(doc, Join(acc.text, p)) = Size(doc, acc.text) + Size(doc, p) + 2
  <2> SUFFICES ASSUME acc.text # <<>>
               PROVE  Size(doc, Join(acc.text, p)) = Size(doc, acc.text) + Size(doc, p) + 2
    OBVIOUS
  <2>1. 0 \in N
    BY InkIs
  <2>2. Append(acc.text, 0) \in S
    BY <1>1, <2>1, AppendProperties
  <2>3. Size(doc, Append(acc.text, 0) \o p) = Size(doc, Append(acc.text, 0)) + Size(doc, p) + 1
    BY <1>1, <2>2, ConcatSize
  <2>4. Size(doc, Append(acc.text, 0)) = Size(doc, acc.text) + 1
    BY <1>1, BlankSize
  <2>5. Size(doc, Append(acc.text, 0) \o p) = Size(doc, acc.text) + Size(doc, p) + 2
    BY <1>2, <2>3, <2>4
  <2>6. Join(acc.text, p) = Append(acc.text, 0) \o p
    BY <1>3
  <2> QED
    BY <2>5, <2>6
<1>5. /\ \A s \in Seq(S), part \in S :
           /\ Kept(doc, Append(s, part)) = Kept(doc, s) \o Select(part, I)
           /\ Kept(doc, s) \in S
  BY KeptSteps
<1>6. \A part \in S : Select(part, I) \in S
  BY SelectSteps
<1>7. texts \in Seq(S)
  <2>1. I \subseteq N
    BY InkIs
  <2>2. \A q \in Seq(I) : q \in S
    BY <2>1, SeqMonotonic
  <2>3. Seq(I) \subseteq S
    BY <2>2
  <2> DEFINE Q == Seq(I)
  <2>4. texts \in Seq(Q) /\ Q \subseteq S
    BY <2>3
  <2> HIDE DEF Q, S
  <2> QED
    BY <2>4, SeqMonotonic
<1>8. /\ \A part \in ToSet(acc.out) : Fits(doc, part)
      /\ Fits(doc, acc.text)
      /\ acc.size >= 0 /\ (acc.text # <<>> => acc.size >= Size(doc, acc.text) + 2)
      /\ Kept(doc, Append(acc.out, acc.text)) = Kept(doc, texts)
  BY DEF GroupsFit
<1>9. Kept(doc, Append(texts, p)) = Kept(doc, texts) \o Select(p, I)
  BY <1>1, <1>5, <1>7
<1> HIDE DEF N, S, I
<1>10. CASE Full(doc, acc, p)
  <2>1. new = [out |-> Append(acc.out, acc.text), text |-> p, size |-> Size(doc, p) + 2]
    BY <1>10 DEF PutIn
  <2>2. ToSet(Append(acc.out, acc.text)) = ToSet(acc.out) \cup {acc.text}
    BY <1>1, InAppend
  <2>3. Append(acc.out, acc.text) \in Seq(S)
    BY <1>1, AppendProperties
  <2>4. Kept(doc, Append(Append(acc.out, acc.text), p)) = Kept(doc, texts) \o Select(p, I)
    BY <1>1, <1>5, <1>8, <2>3
  <2>5. Size(doc, p) + 2 >= 0 /\ Size(doc, p) + 2 >= Size(doc, p) + 2
    BY <1>2
  <2>6. new.out = Append(acc.out, acc.text) /\ new.text = p /\ new.size = Size(doc, p) + 2
    BY <2>1
  <2> HIDE DEF new
  <2>7. \A part \in ToSet(new.out) : Fits(doc, part)
    BY <1>8, <2>2, <2>6
  <2>8. GroupsFit(doc, new, Append(texts, p))
    BY <1>1, <1>9, <2>4, <2>5, <2>6, <2>7 DEF GroupsFit
  <2> QED
    BY <2>8 DEF new
<1>11. CASE ~Full(doc, acc, p)
  <2> DEFINE j == Join(acc.text, p)
  <2>1. new = [out |-> acc.out, text |-> j, size |-> acc.size + Size(doc, p) + 2]
    BY <1>11 DEF PutIn
  <2>2. new.out = acc.out /\ new.text = j /\ new.size = acc.size + Size(doc, p) + 2
    BY <2>1
  <2>3. Kept(doc, Append(acc.out, j)) = Kept(doc, texts) \o Select(p, I)
    <3> DEFINE k == Kept(doc, acc.out)
               x == Select(acc.text, I)
               y == Select(p, I)
    <3>1. Kept(doc, Append(acc.out, j)) = k \o (x \o y)
      BY <1>1, <1>3, <1>5
    <3>2. Kept(doc, texts) = k \o x
      BY <1>1, <1>5, <1>8
    <3>3. k \in S /\ x \in S /\ y \in S
      BY <1>1, <1>5, <1>6
    <3> HIDE DEF k, x, y, j
    <3>4. (k \o x) \o y = k \o (x \o y)
      <4> HIDE DEF N
      <4> QED
        BY <3>3, ConcatAssociative, SMTT(30)
    <3> QED
      BY <3>1, <3>2, <3>4 DEF y
  <2>4. MaxChunk \in Nat
    BY TextAssumption
  <2>5. Fits(doc, j)
    <3>1. CASE acc.text = <<>>
      BY <1>1, <1>3, <3>1
    <3>2. CASE acc.text # <<>>
      <4>1. acc.size + Size(doc, p) <= MaxChunk
        BY <1>1, <1>2, <1>11, <2>4, <3>2 DEF Full
      <4>2. Size(doc, j) = Size(doc, acc.text) + Size(doc, p) + 2
        BY <1>4, <3>2
      <4>3. acc.size >= Size(doc, acc.text) + 2
        BY <1>8, <3>2
      <4>4. Size(doc, j) <= MaxChunk
        <5> HIDE DEF j
        <5> QED
          BY <1>1, <1>2, <2>4, <4>1, <4>2, <4>3
      <4> QED
        BY <4>4 DEF Fits
    <3> QED
      BY <3>1, <3>2
  <2>6. new.size >= 0 /\ new.size >= Size(doc, j) + 2
    <3> HIDE DEF new, j
    <3>0. j = Join(acc.text, p)
      BY DEF j
    <3>1. CASE acc.text = <<>>
      <4>1. Size(doc, j) = Size(doc, p)
        BY <1>3, <3>0, <3>1
      <4> QED
        BY <1>1, <1>2, <1>8, <2>2, <4>1
    <3>2. CASE acc.text # <<>>
      <4>1. Size(doc, j) = Size(doc, acc.text) + Size(doc, p) + 2
        BY <1>4, <3>0, <3>2
      <4>2. acc.size >= Size(doc, acc.text) + 2 /\ acc.size >= 0
        BY <1>8, <3>2
      <4>3. Size(doc, acc.text) >= 0
        BY <1>1, <3>2, TextSize DEF S, N
      <4> QED
        BY <1>1, <1>2, <2>2, <4>1, <4>2, <4>3
    <3> QED
      BY <3>1, <3>2
  <2> HIDE DEF new, j
  <2>7. GroupsFit(doc, new, Append(texts, p))
    BY <1>8, <1>9, <2>2, <2>3, <2>5, <2>6 DEF GroupsFit
  <2> QED
    BY <2>7 DEF new
<1> QED
  BY <1>10, <1>11

\* Every piece of a text fits, and together they have its lines.
LEMMA PiecesAre ==
  ASSUME NEW doc \in Seq(Lines), NEW part \in Seq(Numbers(doc))
  PROVE  /\ Pieces(doc, part) \in Seq(Seq(Numbers(doc)))
         /\ Kept(doc, Pieces(doc, part)) = Select(part, Ink(doc))
         /\ \A t \in ToSet(Pieces(doc, part)) : Fits(doc, t)
<1> DEFINE N == Numbers(doc)
           S == Seq(N)
           I == Ink(doc)
           Q == Seq(I)
           X == {ps \in Seq(Q) : GroupsFit(doc, Grouped(doc, ps), ps)}
<1>1. I \subseteq N
  BY InkIs
<1>2. Q \subseteq S
  <2>1. \A q \in Q : q \in S
    BY <1>1, SeqMonotonic
  <2> QED
    BY <2>1
<1>3. \A ps \in Seq(Q) : ps \in Seq(S)
  <2> HIDE DEF Q, S
  <2> QED
    BY <1>2, SeqMonotonic
<1>4. /\ \A ps \in Seq(S) : Grouped(doc, ps) \in Groups(doc)
      /\ Grouped(doc, <<>>) = NoGroups
      /\ \A ps \in Seq(S), p \in S : Grouped(doc, Append(ps, p)) = PutIn(doc, Grouped(doc, ps), p)
  BY GroupedSteps
<1>5. Kept(doc, <<>>) = <<>> /\ \A s \in Seq(S), t \in S :
        Kept(doc, Append(s, t)) = Kept(doc, s) \o Select(t, I)
  BY KeptSteps
<1>6. <<>> \in Seq(S) /\ <<>> \in Seq(Q) /\ <<>> \in S /\ <<>> \in Q
  <2>1. <<>> \in S /\ <<>> \in Q
    BY EmptySeq
  <2> HIDE DEF S, Q
  <2> QED
    BY <2>1, EmptySeq
<1>7. Select(<<>>, I) = <<>>
  BY SelectSteps
<1>8. <<>> \in X
  <2>1. NoGroups.out = <<>> /\ NoGroups.text = <<>> /\ NoGroups.size = 0
    BY DEF NoGroups
  <2>2. Fits(doc, <<>>)
    BY <1>6, ParagraphFits
  <2>3. ToSet(<<>>) = {}
    BY InSeq
  <2>4. Kept(doc, Append(<<>>, <<>>)) = <<>> \o <<>> /\ <<>> \o <<>> = <<>>
    <3> DEFINE e == <<>>
    <3>1. e \in Seq(S) /\ e \in S /\ Kept(doc, e) = e /\ Select(e, I) = e
      BY <1>5, <1>6, <1>7
    <3> HIDE DEF e
    <3>2. Kept(doc, Append(e, e)) = e \o e
      BY <1>5, <3>1
    <3>3. e \o e = e
      BY <3>1, ConcatEmptySeq DEF e
    <3> QED
      BY <3>2, <3>3 DEF e
  <2>5. GroupsFit(doc, NoGroups, <<>>)
    BY <1>5, <2>1, <2>2, <2>3, <2>4 DEF GroupsFit
  <2> QED
    BY <1>4, <1>6, <2>5
<1>9. ASSUME NEW ps \in Seq(Q), NEW p \in Q, ps \in X PROVE Append(ps, p) \in X
  <2> DEFINE acc == Grouped(doc, ps)
  <2>1. acc \in Groups(doc) /\ GroupsFit(doc, acc, ps)
    BY <1>3, <1>4, <1>9
  <2>2. Grouped(doc, Append(ps, p)) = PutIn(doc, acc, p)
    BY <1>2, <1>3, <1>4
  <2>3. GroupsFit(doc, PutIn(doc, acc, p), Append(ps, p))
    <3> HIDE DEF acc
    <3> QED
      BY <2>1, GroupsFitOn
  <2>4. Append(ps, p) \in Seq(Q)
    <3> HIDE DEF Q
    <3> QED
      BY AppendProperties
  <2> QED
    BY <2>2, <2>3, <2>4
<1>10. Seq(Q) \subseteq X
  <2> HIDE DEF X, Q
  <2> QED
    BY <1>8, <1>9, Grow
<1> DEFINE ps == Paragraphs(doc, part)
           end == Grouped(doc, ps)
<1>11. ps \in Seq(Q) /\ Kept(doc, ps) = Select(part, I)
  BY ParagraphsAre
<1>12. end \in Groups(doc) /\ GroupsFit(doc, end, ps)
  BY <1>3, <1>4, <1>10, <1>11
<1>13. Pieces(doc, part) = IF Size(doc, part) <= MaxChunk THEN <<part>> ELSE Append(end.out, end.text)
  BY DEF Pieces
<1>14. CASE Size(doc, part) <= MaxChunk
  <2>1. Fits(doc, part)
    BY <1>14 DEF Fits
  <2>2. part \in S
    OBVIOUS
  <2> DEFINE e == <<>>
  <2>3. /\ e \in Seq(S) /\ Kept(doc, e) = e /\ ToSet(e) = {}
        /\ <<part>> = Append(e, part) /\ Select(part, I) \in S
    <3>1. ToSet(<<>>) = {}
      BY InSeq
    <3>2. Select(part, I) \in S
      BY SelectSteps
    <3>3. <<part>> = Append(<<>>, part)
      OBVIOUS
    <3> HIDE DEF S, I
    <3> QED
      BY <1>5, <1>6, <3>1, <3>2, <3>3
  <2>4. e \o Select(part, I) = Select(part, I)
    BY <2>3, ConcatEmptySeq
  <2> HIDE DEF S, e, I
  <2>5. Append(e, part) \in Seq(S) /\ ToSet(Append(e, part)) = {part}
    <3>1. Append(e, part) \in Seq(S) /\ ToSet(Append(e, part)) = ToSet(e) \cup {part}
      BY <2>2, <2>3, AppendProperties, InAppend
    <3> QED
      BY <2>3, <3>1
  <2>6. Kept(doc, Append(e, part)) = Select(part, I)
    BY <1>5, <2>2, <2>3, <2>4
  <2> QED
    BY <1>13, <1>14, <2>1, <2>3, <2>5, <2>6 DEF S, I
<1>15. CASE ~(Size(doc, part) <= MaxChunk)
  <2>1. Pieces(doc, part) = Append(end.out, end.text)
    BY <1>13, <1>15
  <2>2. end.out \in Seq(S) /\ end.text \in S
    BY <1>12 DEF Groups
  <2>3. /\ \A t \in ToSet(end.out) : Fits(doc, t)
        /\ Fits(doc, end.text)
        /\ Kept(doc, Append(end.out, end.text)) = Kept(doc, ps)
    BY <1>12 DEF GroupsFit
  <2> HIDE DEF end, ps
  <2>4. Append(end.out, end.text) \in Seq(S) /\ ToSet(Append(end.out, end.text)) = ToSet(end.out) \cup {end.text}
    <3> HIDE DEF S
    <3> QED
      BY <2>2, AppendProperties, InAppend
  <2> QED
    BY <1>11, <2>1, <2>3, <2>4
<1> QED
  BY <1>14, <1>15

-----------------------------------------------------------------------------
(* Cutting blocks into pieces.                                             *)

HeadedParts(doc) == {b \in Parts(doc) : Headed(doc, b)}
CutParts(doc) == {c \in Parts(doc) : Fits(doc, c.text) /\ Headed(doc, c)}

CutOf(doc, b) == Under(b.heading, Pieces(doc, b.text))

\* A block is cut into parts that fit, with its lines under its heading.
LEMMA CutIs ==
  ASSUME NEW doc \in Seq(Lines), NEW b \in HeadedParts(doc)
  PROVE  /\ CutOf(doc, b) \in Seq(CutParts(doc))
         /\ Kept(doc, TextsOf(CutOf(doc, b))) = Select(b.text, Ink(doc))
<1> DEFINE texts == Pieces(doc, b.text)
           S == Seq(Numbers(doc))
           u == CutOf(doc, b)
           C == CutParts(doc)
<1>1. b \in Parts(doc) /\ Headed(doc, b) /\ b.text \in S /\ b.heading \in Titles(doc)
  BY DEF HeadedParts, Parts
<1>2. /\ texts \in Seq(S)
      /\ Kept(doc, texts) = Select(b.text, Ink(doc))
      /\ \A t \in ToSet(texts) : Fits(doc, t)
  BY <1>1, PiecesAre
<1>3. ToSet(Kept(doc, texts)) = (UNION {ToSet(t) : t \in ToSet(texts)}) \cap Ink(doc)
  BY <1>2, InKept
<1>4. ToSet(Select(b.text, Ink(doc))) = ToSet(b.text) \cap Ink(doc)
  BY <1>1, InSelect
<1>5. \A t \in ToSet(texts) : ToSet(t) \cap Ink(doc) \subseteq ToSet(b.text)
  BY <1>2, <1>3, <1>4
<1> HIDE DEF texts
<1>6. \A t \in ToSet(texts) : Headed(doc, [heading |-> b.heading, text |-> t])
  <2> SUFFICES ASSUME NEW t \in ToSet(texts), NEW i \in ToSet(t) \ {0}, i \in Body(doc)
               PROVE  Governing(doc, i) = b.heading
    BY DEF Headed
  <2>1. i \in Ink(doc)
    BY DEF Body
  <2>2. i \in ToSet(b.text) \ {0}
    BY <1>5, <2>1
  <2> QED
    BY <1>1, <2>2 DEF Headed
<1>7. Len(texts) \in Nat /\ \A i \in 1 .. Len(texts) : texts[i] \in S /\ texts[i] \in ToSet(texts)
  <2>1. ToSet(texts) = {texts[i] : i \in 1 .. Len(texts)}
    <3> HIDE DEF S
    <3> QED
      BY <1>2, InSeq
  <2>2. Len(texts) \in Nat /\ \A i \in 1 .. Len(texts) : texts[i] \in S
    <3> HIDE DEF S
    <3> QED
      BY <1>2, LenProperties, ElementOfSeq
  <2> QED
    BY <2>1, <2>2
<1>8. u = [i \in 1 .. Len(texts) |-> [heading |-> b.heading, text |-> texts[i]]]
  BY DEF CutOf, Under, texts
<1>9. \A i \in 1 .. Len(texts) : [heading |-> b.heading, text |-> texts[i]] \in C
  BY <1>1, <1>2, <1>6, <1>7 DEF CutParts, Parts
<1> HIDE DEF u, C, S
<1>10. u \in Seq(C) /\ Len(u) = Len(texts)
  <2>1. u \in [1 .. Len(texts) -> C]
    BY <1>8, <1>9
  <2>2. u \in Seq(C)
    BY <1>7, <2>1, SeqDef
  <2> QED
    BY <1>7, <2>1, <2>2, LenProperties
<1>11. TextsOf(u) = texts
  <2> DEFINE w == TextsOf(u)
  <2>1. w = [i \in 1 .. Len(texts) |-> texts[i]]
    BY <1>8, <1>10 DEF TextsOf
  <2>2. w \in [1 .. Len(texts) -> S]
    BY <1>7, <2>1
  <2> HIDE DEF w
  <2>3. w \in Seq(S)
    BY <1>7, <2>2, SeqDef
  <2>4. Len(w) = Len(texts)
    BY <1>7, <2>2, <2>3, LenProperties
  <2>5. \A i \in 1 .. Len(w) : w[i] = texts[i]
    BY <2>1, <2>4
  <2>6. w = texts
    BY <1>2, <2>3, <2>4, <2>5, SeqEqual
  <2> QED
    BY <2>6 DEF w
<1> QED
  BY <1>2, <1>10, <1>11 DEF u, C

LEMMA CutsSteps ==
  ASSUME NEW doc \in Seq(Lines)
  PROVE  /\ \A s \in Seq(HeadedParts(doc)) : Cuts(doc, s) \in Seq(CutParts(doc))
         /\ Cuts(doc, <<>>) = <<>>
         /\ \A s \in Seq(HeadedParts(doc)), b \in HeadedParts(doc) :
              Cuts(doc, Append(s, b)) =
                Cuts(doc, s) \o CutOf(doc, b)
<1> DEFINE A == Seq(CutParts(doc))
           T == HeadedParts(doc)
           op(out, b) == out \o CutOf(doc, b)
           step == [b \in T |-> [out \in A |-> op(out, b)]]
           Run(f, s) == f = [n \in 0 .. Len(s) |-> IF n = 0 THEN <<>> ELSE op(f[n - 1], s[n])]
           runs == [s \in Seq(T) |-> CHOOSE f : Run(f, s)]
           ends == [s \in Seq(T) |-> Cuts(doc, s)]
<1>1. <<>> \in A /\ \A out \in A, b \in T : op(out, b) \in A
  <2> DEFINE C == CutParts(doc)
  <2>1. \A b \in T : CutOf(doc, b) \in Seq(C)
    BY CutIs
  <2>2. A = Seq(C)
    OBVIOUS
  <2> HIDE DEF C, A, T
  <2> QED
    BY <2>1, <2>2, EmptySeq, ConcatProperties
<1>2. Steps(A, T, <<>>, step)
  <2> HIDE DEF A, T, op
  <2> QED
    BY <1>1 DEF Steps
<1>3. ASSUME NEW s \in Seq(T), NEW f \in [0 .. Len(s) -> A],
             f[0] = <<>>, \A n \in 1 .. Len(s) : f[n] = step[s[n]][f[n - 1]]
      PROVE  /\ runs[s][0] = <<>>
             /\ \A n \in 1 .. Len(s) :
                  runs[s][n - 1] \in A => runs[s][n] = step[s[n]][runs[s][n - 1]]
  <2> HIDE DEF A, T, op
  <2>1. Len(s) \in Nat /\ \A n \in 1 .. Len(s) : s[n] \in T /\ f[n - 1] \in A
    BY LenProperties, ElementOfSeq
  <2>2. \A n \in 1 .. Len(s) : f[n] = op(f[n - 1], s[n])
    BY <1>3, <2>1
  <2>3. Run(f, s)
    BY <1>3, <2>2
  <2>4. Run(runs[s], s)
    BY <2>3
  <2> DEFINE r == runs[s]
  <2>5. Run(r, s)
    BY <2>4
  <2> HIDE DEF r, runs
  <2>6. r[0] = <<>> /\ \A n \in 1 .. Len(s) : r[n] = op(r[n - 1], s[n])
    BY <2>1, <2>5
  <2>7. \A n \in 1 .. Len(s) : r[n - 1] \in A => r[n] = step[s[n]][r[n - 1]]
    BY <2>1, <2>6
  <2> QED
    BY <2>6, <2>7 DEF r
<1>4. \A s \in Seq(T) : ends[s] = runs[s][Len(s)]
  BY DEF Cuts, CutOf, Fold
<1>5. Folds(A, T, <<>>, step, runs, ends)
  <2> HIDE DEF A, T, runs, step, ends
  <2> QED
    BY <1>3, <1>4 DEF Folds
<1>6. /\ \A s \in Seq(T) : ends[s] \in A
      /\ ends[<<>>] = <<>>
      /\ \A s \in Seq(T), b \in T : ends[Append(s, b)] = step[b][ends[s]]
  <2> HIDE DEF A, T, runs, step, ends
  <2> QED
    BY <1>2, <1>5, FoldSteps
<1>7. ASSUME NEW s \in Seq(T), NEW b \in T
      PROVE  ends[Append(s, b)] = op(ends[s], b)
  <2> HIDE DEF A, T, op, ends
  <2> QED
    BY <1>6
<1>8. /\ <<>> \in Seq(T)
      /\ \A s \in Seq(T), b \in T : Append(s, b) \in Seq(T)
  BY EmptySeq, AppendProperties
<1>9. \A s \in Seq(T) : ends[s] = Cuts(doc, s)
  OBVIOUS
<1> HIDE DEF ends
<1>10. Cuts(doc, <<>>) = <<>>
  BY <1>6, <1>8, <1>9
<1>11. ASSUME NEW s \in Seq(T), NEW b \in T
       PROVE  Cuts(doc, Append(s, b)) = op(Cuts(doc, s), b)
  <2> HIDE DEF A, T, op
  <2> QED
    BY <1>7, <1>8, <1>9
<1> QED
  BY <1>6, <1>9, <1>10, <1>11

\* The pieces of the blocks have their lines.
LEMMA CutsAre ==
  ASSUME NEW doc \in Seq(Lines), NEW bs \in Seq(HeadedParts(doc))
  PROVE  /\ Cuts(doc, bs) \in Seq(CutParts(doc))
         /\ Kept(doc, TextsOf(Cuts(doc, bs))) = Kept(doc, TextsOf(bs))
<1> DEFINE H == HeadedParts(doc)
           C == CutParts(doc)
           P == Parts(doc)
           D == Numbers(doc)
           X == {s \in Seq(H) : Kept(doc, TextsOf(Cuts(doc, s))) = Kept(doc, TextsOf(s))}
<1>1. /\ \A s \in Seq(H) : Cuts(doc, s) \in Seq(C)
      /\ Cuts(doc, <<>>) = <<>>
      /\ \A s \in Seq(H), b \in H : Cuts(doc, Append(s, b)) = Cuts(doc, s) \o CutOf(doc, b)
  BY CutsSteps
<1>2. H \subseteq P /\ C \subseteq P /\ \A c \in P : c.text \in Seq(D)
  BY DEF HeadedParts, CutParts, Parts
<1> HIDE DEF H, C, P, D
<1>3. (\A s \in Seq(H) : s \in Seq(P)) /\ (\A s \in Seq(C) : s \in Seq(P))
  BY <1>2, SeqMonotonic
<1>4. \A b \in H : /\ CutOf(doc, b) \in Seq(C)
                   /\ Kept(doc, TextsOf(CutOf(doc, b))) = Select(b.text, Ink(doc))
  BY CutIs DEF H, C
<1>5. \A s \in Seq(P) : /\ TextsOf(s) \in Seq(Seq(D))
                         /\ \A c \in P : TextsOf(Append(s, c)) = Append(TextsOf(s), c.text)
                         /\ \A t \in Seq(P) : TextsOf(s \o t) = TextsOf(s) \o TextsOf(t)
  BY TextsAre DEF P, D
<1>6. \A s \in Seq(Seq(D)), part \in Seq(D) :
        Kept(doc, Append(s, part)) = Kept(doc, s) \o Select(part, Ink(doc))
  BY KeptSteps
<1>7. \A s, t \in Seq(Seq(D)) : Kept(doc, s \o t) = Kept(doc, s) \o Kept(doc, t)
  BY KeptConcat
<1>8. <<>> \in X
  BY <1>1, EmptySeq
<1>9. ASSUME NEW s \in Seq(H), NEW b \in H, s \in X PROVE Append(s, b) \in X
  <2> DEFINE a == Cuts(doc, s)
             u == CutOf(doc, b)
  <2>1. /\ Append(s, b) \in Seq(H) /\ Kept(doc, TextsOf(a)) = Kept(doc, TextsOf(s))
        /\ Cuts(doc, Append(s, b)) = a \o u
    BY <1>1, <1>9, AppendProperties
  <2>2. a \in Seq(P) /\ u \in Seq(P) /\ s \in Seq(P) /\ b \in P
    BY <1>1, <1>2, <1>3, <1>4
  <2>3. Kept(doc, TextsOf(u)) = Select(b.text, Ink(doc))
    BY <1>4
  <2> HIDE DEF a, u
  <2>4. TextsOf(a \o u) = TextsOf(a) \o TextsOf(u) /\ TextsOf(a) \in Seq(Seq(D)) /\ TextsOf(u) \in Seq(Seq(D))
    BY <1>5, <2>2
  <2>5. Kept(doc, TextsOf(a \o u)) = Kept(doc, TextsOf(a)) \o Kept(doc, TextsOf(u))
    BY <1>7, <2>4
  <2>6. TextsOf(Append(s, b)) = Append(TextsOf(s), b.text) /\ TextsOf(s) \in Seq(Seq(D)) /\ b.text \in Seq(D)
    BY <1>2, <1>5, <2>2
  <2>7. Kept(doc, TextsOf(Append(s, b))) = Kept(doc, TextsOf(s)) \o Select(b.text, Ink(doc))
    BY <1>6, <2>6
  <2>8. Kept(doc, TextsOf(Cuts(doc, Append(s, b)))) = Kept(doc, TextsOf(Append(s, b)))
    BY <2>1, <2>3, <2>5, <2>7
  <2> QED
    BY <2>1, <2>8
<1>10. Seq(H) \subseteq X
  <2> HIDE DEF X
  <2> QED
    BY <1>8, <1>9, Grow
<1> QED
  BY <1>1, <1>10 DEF H, C

-----------------------------------------------------------------------------
(* Merging small chunks.                                                   *)

Small(doc, part) == Size(doc, part) <= MaxChunk + MinChunk + 1 \/ Long(doc, part)
MergedParts(doc) == {c \in Parts(doc) : Small(doc, c.text) /\ Headed(doc, c)}

Short(doc, out, c) ==
  out # <<>> /\ Size(doc, Last(out).text) < MinChunk /\ Last(out).heading = c.heading

Joined(a, c) == [heading |-> a.heading, text |-> Join(a.text, c.text)]

TakeIn(doc, out, c) ==
  IF Short(doc, out, c) THEN Append(Front(out), Joined(Last(out), c)) ELSE Append(out, c)

LEMMA CutIsSmall ==
  ASSUME NEW doc \in Seq(Lines), NEW c \in CutParts(doc)
  PROVE  c \in MergedParts(doc)
<1>1. c \in Parts(doc) /\ Fits(doc, c.text) /\ Headed(doc, c) /\ c.text \in Seq(Numbers(doc))
  BY DEF CutParts, Parts
<1>2. Size(doc, c.text) \in Int /\ MinChunk \in Nat /\ MaxChunk \in Nat
  BY <1>1, TextSize, TextAssumption
<1> QED
  BY <1>1, <1>2 DEF MergedParts, Small, Fits

\* A short part and one that fits are no longer than is promised.
LEMMA JoinedIs ==
  ASSUME NEW doc \in Seq(Lines), NEW a \in MergedParts(doc), NEW c \in CutParts(doc),
         Size(doc, a.text) < MinChunk, a.heading = c.heading
  PROVE  /\ Joined(a, c) \in MergedParts(doc)
         /\ Select(Joined(a, c).text, Ink(doc)) = Select(a.text, Ink(doc)) \o Select(c.text, Ink(doc))
<1> DEFINE N == Numbers(doc)
           S == Seq(N)
           s == a.text
           t == c.text
           j == Join(s, t)
<1>1. /\ a \in Parts(doc) /\ Headed(doc, a) /\ s \in S /\ a.heading \in Titles(doc)
      /\ c \in Parts(doc) /\ Headed(doc, c) /\ Fits(doc, t) /\ t \in S
  BY DEF MergedParts, CutParts, Parts
<1>2. /\ Size(doc, s) \in Int /\ Size(doc, t) \in Int /\ Size(doc, s) < MinChunk
      /\ MinChunk \in Nat /\ MaxChunk \in Nat
  BY <1>1, TextSize, TextAssumption
<1>3. Joined(a, c) = [heading |-> a.heading, text |-> j]
  BY DEF Joined
<1> HIDE DEF s, t
<1>0. s \in Seq(Numbers(doc)) /\ t \in Seq(Numbers(doc))
  BY <1>1
<1>8. Joins(doc, s, t, j)
  BY <1>0, JoinIs
<1> HIDE DEF j
<1>4. /\ j \in S
      /\ Select(j, Ink(doc)) = Select(s, Ink(doc)) \o Select(t, Ink(doc))
      /\ ToSet(j) \subseteq ToSet(s) \cup ToSet(t) \cup {0}
      /\ ToSet(Paragraphs(doc, t)) \subseteq ToSet(Paragraphs(doc, j))
      /\ s = <<>> => j = t
      /\ s # <<>> => j = Append(s, 0) \o t
  BY <1>8 DEF Joins
<1>5. Headed(doc, Joined(a, c))
  <2> SUFFICES ASSUME NEW i \in ToSet(j) \ {0}, i \in Body(doc)
               PROVE  Governing(doc, i) = a.heading
    BY <1>3 DEF Headed
  <2>1. i \in ToSet(a.text) \ {0} \/ i \in ToSet(c.text) \ {0}
    BY <1>4 DEF s, t
  <2> QED
    BY <1>1, <2>1 DEF Headed
<1>6. Small(doc, j)
  <2>1. CASE Long(doc, t)
    BY <1>4, <2>1 DEF Small, Long
  <2>2. CASE Size(doc, t) <= MaxChunk
    <3>1. CASE s = <<>>
      BY <1>2, <1>4, <2>2, <3>1 DEF Small
    <3>2. CASE s # <<>>
      <4>1. 0 \in N
        BY InkIs
      <4>2. Append(s, 0) \in S
        BY <1>1, <4>1, AppendProperties
      <4>3. Size(doc, Append(s, 0) \o t) = Size(doc, Append(s, 0)) + Size(doc, t) + 1
        BY <1>1, <4>2, ConcatSize
      <4>4. Size(doc, Append(s, 0)) = Size(doc, s) + 1
        BY <1>1, BlankSize
      <4>5. Size(doc, j) = Size(doc, s) + Size(doc, t) + 2
        <5>1. Size(doc, Append(s, 0) \o t) = Size(doc, s) + Size(doc, t) + 2
          BY <1>2, <4>3, <4>4
        <5> QED
          BY <1>4, <3>2, <5>1
      <4>6. Size(doc, j) <= MaxChunk + MinChunk + 1
        BY <1>2, <2>2, <4>5
      <4> QED
        BY <4>6 DEF Small
    <3> QED
      BY <3>1, <3>2
  <2> QED
    BY <1>1, <2>1, <2>2 DEF Fits
<1>7. Joined(a, c) \in Parts(doc)
  BY <1>1, <1>3, <1>4 DEF Parts
<1> QED
  BY <1>3, <1>4, <1>5, <1>6, <1>7 DEF MergedParts, s, t

LEMMA TakeInIs ==
  ASSUME NEW doc \in Seq(Lines), NEW out \in Seq(MergedParts(doc)), NEW c \in CutParts(doc)
  PROVE  TakeIn(doc, out, c) \in Seq(MergedParts(doc))
<1> DEFINE M == MergedParts(doc)
<1>1. c \in M
  BY CutIsSmall
<1>2. CASE Short(doc, out, c)
  <2>1. out # <<>> /\ Size(doc, Last(out).text) < MinChunk /\ Last(out).heading = c.heading
    BY <1>2 DEF Short
  <2>2. Front(out) \in Seq(M) /\ Last(out) \in M
    BY <2>1, FrontThenLast
  <2>3. Joined(Last(out), c) \in M
    BY <2>1, <2>2, JoinedIs
  <2> HIDE DEF M
  <2>4. Append(Front(out), Joined(Last(out), c)) \in Seq(M)
    BY <2>2, <2>3, AppendProperties
  <2> QED
    BY <1>2, <2>4 DEF TakeIn, M
<1>3. CASE ~Short(doc, out, c)
  BY <1>1, <1>3, AppendProperties DEF TakeIn
<1> QED
  BY <1>2, <1>3

LEMMA MergeSteps ==
  ASSUME NEW doc \in Seq(Lines)
  PROVE  /\ \A s \in Seq(CutParts(doc)) : Merge(doc, s) \in Seq(MergedParts(doc))
         /\ Merge(doc, <<>>) = <<>>
         /\ \A s \in Seq(CutParts(doc)), c \in CutParts(doc) :
              Merge(doc, Append(s, c)) =
                TakeIn(doc, Merge(doc, s), c)
<1> DEFINE A == Seq(MergedParts(doc))
           T == CutParts(doc)
           op(out, c) == TakeIn(doc, out, c)
           step == [c \in T |-> [out \in A |-> op(out, c)]]
           Run(f, s) == f = [n \in 0 .. Len(s) |-> IF n = 0 THEN <<>> ELSE op(f[n - 1], s[n])]
           runs == [s \in Seq(T) |-> CHOOSE f : Run(f, s)]
           ends == [s \in Seq(T) |-> Merge(doc, s)]
<1>1. <<>> \in A /\ \A out \in A, c \in T : op(out, c) \in A
  <2>1. <<>> \in A
    BY EmptySeq
  <2>2. \A out \in A, c \in T : op(out, c) \in A
    BY TakeInIs
  <2> QED
    BY <2>1, <2>2
<1>2. Steps(A, T, <<>>, step)
  <2> HIDE DEF A, T, op
  <2> QED
    BY <1>1 DEF Steps
<1>3. ASSUME NEW s \in Seq(T), NEW f \in [0 .. Len(s) -> A],
             f[0] = <<>>, \A n \in 1 .. Len(s) : f[n] = step[s[n]][f[n - 1]]
      PROVE  /\ runs[s][0] = <<>>
             /\ \A n \in 1 .. Len(s) :
                  runs[s][n - 1] \in A => runs[s][n] = step[s[n]][runs[s][n - 1]]
  <2> HIDE DEF A, T, op
  <2>1. Len(s) \in Nat /\ \A n \in 1 .. Len(s) : s[n] \in T /\ f[n - 1] \in A
    BY LenProperties, ElementOfSeq
  <2>2. \A n \in 1 .. Len(s) : f[n] = op(f[n - 1], s[n])
    BY <1>3, <2>1
  <2>3. Run(f, s)
    BY <1>3, <2>2
  <2>4. Run(runs[s], s)
    BY <2>3
  <2> DEFINE r == runs[s]
  <2>5. Run(r, s)
    BY <2>4
  <2> HIDE DEF r, runs
  <2>6. r[0] = <<>> /\ \A n \in 1 .. Len(s) : r[n] = op(r[n - 1], s[n])
    BY <2>1, <2>5
  <2>7. \A n \in 1 .. Len(s) : r[n - 1] \in A => r[n] = step[s[n]][r[n - 1]]
    BY <2>1, <2>6
  <2> QED
    BY <2>6, <2>7 DEF r
<1>4. \A s \in Seq(T) : ends[s] = runs[s][Len(s)]
  BY DEF Merge, TakeIn, Short, Joined, Fold
<1>5. Folds(A, T, <<>>, step, runs, ends)
  <2> HIDE DEF A, T, runs, step, ends
  <2> QED
    BY <1>3, <1>4 DEF Folds
<1>6. /\ \A s \in Seq(T) : ends[s] \in A
      /\ ends[<<>>] = <<>>
      /\ \A s \in Seq(T), c \in T : ends[Append(s, c)] = step[c][ends[s]]
  <2> HIDE DEF A, T, runs, step, ends
  <2> QED
    BY <1>2, <1>5, FoldSteps
<1>7. ASSUME NEW s \in Seq(T), NEW c \in T
      PROVE  ends[Append(s, c)] = op(ends[s], c)
  <2> HIDE DEF A, T, op, ends
  <2> QED
    BY <1>6
<1>8. /\ <<>> \in Seq(T)
      /\ \A s \in Seq(T), c \in T : Append(s, c) \in Seq(T)
  BY EmptySeq, AppendProperties
<1>9. \A s \in Seq(T) : ends[s] = Merge(doc, s)
  OBVIOUS
<1> HIDE DEF ends
<1>10. Merge(doc, <<>>) = <<>>
  BY <1>6, <1>8, <1>9
<1>11. ASSUME NEW s \in Seq(T), NEW c \in T
       PROVE  Merge(doc, Append(s, c)) = op(Merge(doc, s), c)
  <2> HIDE DEF A, T, op
  <2> QED
    BY <1>7, <1>8, <1>9
<1> QED
  BY <1>6, <1>9, <1>10, <1>11

\* Taking a part in loses no line.
LEMMA TakeInKeeps ==
  ASSUME NEW doc \in Seq(Lines), NEW out \in Seq(MergedParts(doc)), NEW c \in CutParts(doc)
  PROVE  Kept(doc, TextsOf(TakeIn(doc, out, c))) = Kept(doc, TextsOf(out)) \o Select(c.text, Ink(doc))
<1> DEFINE M == MergedParts(doc)
           P == Parts(doc)
           D == Numbers(doc)
           I == Ink(doc)
<1>1. M \subseteq P /\ \A x \in P : x.text \in Seq(D)
  BY DEF MergedParts, Parts
<1>2. c \in M /\ c \in P /\ c.text \in Seq(D) /\ out \in Seq(M)
  BY <1>1, CutIsSmall
<1>3. \A s \in Seq(P) : /\ TextsOf(s) \in Seq(Seq(D))
                         /\ \A x \in P : TextsOf(Append(s, x)) = Append(TextsOf(s), x.text)
  BY TextsAre DEF P, D
<1>4. \A s \in Seq(Seq(D)) : /\ Kept(doc, s) \in Seq(D)
                              /\ \A part \in Seq(D) :
                                   Kept(doc, Append(s, part)) = Kept(doc, s) \o Select(part, I)
  BY KeptSteps
<1>5. \A part \in Seq(D) : Select(part, I) \in Seq(D)
  BY SelectSteps
<1> HIDE DEF M, P, D, I
<1>6. ASSUME NEW s \in Seq(P), NEW x \in P
      PROVE  /\ Kept(doc, TextsOf(s)) \in Seq(D)
             /\ Kept(doc, TextsOf(Append(s, x))) = Kept(doc, TextsOf(s)) \o Select(x.text, I)
  BY <1>1, <1>3, <1>4
<1>7. \A s \in Seq(M) : s \in Seq(P)
  BY <1>1, SeqMonotonic
<1>8. CASE Short(doc, out, c)
  <2> DEFINE f == Front(out)
             a == Last(out)
  <2>1. out # <<>> /\ Size(doc, a.text) < MinChunk /\ a.heading = c.heading
    BY <1>8 DEF Short
  <2>2. f \in Seq(M) /\ a \in M /\ out = Append(f, a)
    BY <1>2, <2>1, FrontThenLast
  <2>3. TakeIn(doc, out, c) = Append(f, Joined(a, c))
    BY <1>8 DEF TakeIn
  <2> HIDE DEF f, a
  <2>4. Joined(a, c) \in M /\ Select(Joined(a, c).text, I) = Select(a.text, I) \o Select(c.text, I)
    BY <2>1, <2>2, JoinedIs DEF M, I
  <2>5. f \in Seq(P) /\ a \in P /\ Joined(a, c) \in P /\ a.text \in Seq(D)
    BY <1>1, <1>7, <2>2, <2>4
  <2> DEFINE kf == Kept(doc, TextsOf(f))
             sa == Select(a.text, I)
             sc == Select(c.text, I)
  <2>6. kf \in Seq(D) /\ sa \in Seq(D) /\ sc \in Seq(D)
    BY <1>2, <1>5, <1>6, <2>5
  <2>7. Kept(doc, TextsOf(out)) = kf \o sa
    BY <1>6, <2>2, <2>5
  <2>8. Kept(doc, TextsOf(Append(f, Joined(a, c)))) = kf \o (sa \o sc)
    BY <1>6, <2>4, <2>5
  <2> HIDE DEF kf, sa
  <2>9. (kf \o sa) \o sc = kf \o (sa \o sc)
    <3> HIDE DEF sc
    <3> QED
      BY <2>6, ConcatAssociative, SMTT(30)
  <2> QED
    BY <2>3, <2>7, <2>8, <2>9 DEF I
<1>9. CASE ~Short(doc, out, c)
  <2>1. TakeIn(doc, out, c) = Append(out, c)
    BY <1>9 DEF TakeIn
  <2> QED
    BY <1>2, <1>6, <1>7, <2>1 DEF I
<1> QED
  BY <1>8, <1>9 DEF I

\* A short part is never followed by one of its heading.
Apart(doc, out) ==
  \A k \in 1 .. Len(out) - 1 : Size(doc, out[k].text) < MinChunk => out[k].heading # out[k + 1].heading

LEMMA TakeInApart ==
  ASSUME NEW doc, NEW M, NEW out \in Seq(M), NEW c \in M, Apart(doc, out)
  PROVE  Apart(doc, TakeIn(doc, out, c))
<1>1. Len(out) \in Nat /\ \A k \in 1 .. Len(out) : out[k] \in M
  BY LenProperties, ElementOfSeq
<1>2. CASE Short(doc, out, c)
  <2> DEFINE f == Front(out)
             a == Last(out)
             j == Joined(a, c)
             new == Append(f, j)
  <2>1. out # <<>>
    BY <1>2 DEF Short
  <2>2. f \in Seq(M) /\ a \in M /\ out = Append(f, a)
    BY <2>1, FrontThenLast
  <2>3. j.heading = a.heading
    BY DEF Joined
  <2>4. TakeIn(doc, out, c) = new
    BY <1>2 DEF TakeIn
  <2> HIDE DEF f, a, j
  <2>5. /\ Len(f) \in Nat /\ Len(out) = Len(f) + 1 /\ out[Len(f) + 1] = a
        /\ \A k \in 1 .. Len(f) : out[k] = f[k]
    BY <2>2, AppendProperties, LenProperties
  <2>6. /\ Len(new) = Len(f) + 1 /\ new[Len(f) + 1] = j
        /\ \A k \in 1 .. Len(f) : new[k] = f[k]
    <3> DEFINE U == M \cup {j}
    <3>1. f \in Seq(U) /\ j \in U
      BY <2>2, SeqMonotonic
    <3> HIDE DEF U
    <3> QED
      BY <3>1, AppendProperties
  <2> HIDE DEF new
  <2>7. ASSUME NEW k \in 1 .. Len(new) - 1, Size(doc, new[k].text) < MinChunk
        PROVE  new[k].heading # new[k + 1].heading
    <3>1. k \in 1 .. Len(f) /\ k \in 1 .. Len(out) - 1 /\ k + 1 \in 1 .. Len(f) + 1
      BY <2>5, <2>6
    <3>2. new[k] = out[k]
      BY <2>5, <2>6, <3>1
    <3>3. out[k].heading # out[k + 1].heading
      BY <2>7, <3>1, <3>2 DEF Apart
    <3>4. new[k + 1].heading = out[k + 1].heading
      <4>1. CASE k = Len(f)
        BY <2>3, <2>5, <2>6, <4>1
      <4>2. CASE k # Len(f)
        <5>1. k + 1 \in 1 .. Len(f)
          BY <2>5, <3>1, <4>2
        <5> QED
          BY <2>5, <2>6, <5>1
      <4> QED
        BY <4>1, <4>2
    <3> QED
      BY <3>2, <3>3, <3>4
  <2>8. Apart(doc, new)
    BY <2>7 DEF Apart
  <2> QED
    BY <2>4, <2>8
<1>3. CASE ~Short(doc, out, c)
  <2> DEFINE new == Append(out, c)
  <2>1. TakeIn(doc, out, c) = new
    BY <1>3 DEF TakeIn
  <2>2. /\ Len(new) = Len(out) + 1 /\ new[Len(out) + 1] = c
        /\ \A k \in 1 .. Len(out) : new[k] = out[k]
    BY AppendProperties
  <2> HIDE DEF new
  <2>3. ASSUME NEW k \in 1 .. Len(new) - 1, Size(doc, new[k].text) < MinChunk
        PROVE  new[k].heading # new[k + 1].heading
    <3>1. k \in 1 .. Len(out)
      BY <1>1, <2>2
    <3>2. new[k] = out[k]
      BY <2>2, <3>1
    <3>3. CASE k = Len(out)
      <4>1. out # <<>>
        BY <3>1, <3>3, EmptySeq
      <4>2. Last(out) = out[k]
        BY <3>3 DEF Last
      <4>3. Last(out).heading # c.heading
        BY <1>3, <2>3, <3>2, <4>1, <4>2 DEF Short
      <4> QED
        BY <2>2, <3>2, <3>3, <4>2, <4>3
    <3>4. CASE k # Len(out)
      <4>1. k \in 1 .. Len(out) - 1 /\ k + 1 \in 1 .. Len(out)
        BY <1>1, <3>1, <3>4
      <4>2. out[k].heading # out[k + 1].heading
        BY <2>3, <3>2, <4>1 DEF Apart
      <4> QED
        BY <2>2, <3>2, <4>1, <4>2
    <3> QED
      BY <3>3, <3>4
  <2>4. Apart(doc, new)
    BY <2>3 DEF Apart
  <2> QED
    BY <2>1, <2>4
<1> QED
  BY <1>2, <1>3

\* Merging keeps the lines, and leaves no short part before one of its heading.
LEMMA MergeIs ==
  ASSUME NEW doc \in Seq(Lines), NEW s \in Seq(CutParts(doc))
  PROVE  /\ Merge(doc, s) \in Seq(MergedParts(doc))
         /\ Kept(doc, TextsOf(Merge(doc, s))) = Kept(doc, TextsOf(s))
         /\ Apart(doc, Merge(doc, s))
<1> DEFINE M == MergedParts(doc)
           C == CutParts(doc)
           P == Parts(doc)
           D == Numbers(doc)
           K(t) == Kept(doc, TextsOf(t))
           X == {t \in Seq(C) : K(Merge(doc, t)) = K(t) /\ Apart(doc, Merge(doc, t))}
<1>1. /\ \A t \in Seq(C) : Merge(doc, t) \in Seq(M)
      /\ Merge(doc, <<>>) = <<>>
      /\ \A t \in Seq(C), c \in C : Merge(doc, Append(t, c)) = TakeIn(doc, Merge(doc, t), c)
  BY MergeSteps
<1>2. C \subseteq P /\ (\A c \in C : c \in M) /\ \A c \in P : c.text \in Seq(D)
  BY CutIsSmall DEF CutParts, Parts
<1>3. \A t \in Seq(P) : /\ TextsOf(t) \in Seq(Seq(D))
                         /\ \A c \in P : TextsOf(Append(t, c)) = Append(TextsOf(t), c.text)
  BY TextsAre DEF P, D
<1>4. \A t \in Seq(Seq(D)), part \in Seq(D) :
        Kept(doc, Append(t, part)) = Kept(doc, t) \o Select(part, Ink(doc))
  BY KeptSteps
<1>5. \A out \in Seq(M), c \in C : K(TakeIn(doc, out, c)) = K(out) \o Select(c.text, Ink(doc))
  BY TakeInKeeps
<1> HIDE DEF C, P, D
<1>6. \A t \in Seq(C) : t \in Seq(P)
  BY <1>2, SeqMonotonic
<1>7. <<>> \in X
  <2>1. Apart(doc, <<>>)
    BY EmptySeq DEF Apart
  <2> QED
    BY <1>1, <2>1, EmptySeq
<1>8. ASSUME NEW t \in Seq(C), NEW c \in C, t \in X PROVE Append(t, c) \in X
  <2> DEFINE out == Merge(doc, t)
             new == TakeIn(doc, out, c)
  <2>1. /\ out \in Seq(M) /\ K(out) = K(t) /\ Apart(doc, out)
        /\ Append(t, c) \in Seq(C) /\ Merge(doc, Append(t, c)) = new
    BY <1>1, <1>8, AppendProperties
  <2>2. t \in Seq(P) /\ c \in P /\ c \in M /\ c.text \in Seq(D)
    BY <1>2, <1>6
  <2>3. K(Append(t, c)) = K(t) \o Select(c.text, Ink(doc))
    BY <1>3, <1>4, <2>2
  <2>4. K(new) = K(out) \o Select(c.text, Ink(doc))
    BY <1>5, <2>1
  <2>5. Apart(doc, new)
    BY <2>1, <2>2, TakeInApart
  <2> QED
    BY <2>1, <2>3, <2>4, <2>5
<1>9. Seq(C) \subseteq X
  <2> HIDE DEF X
  <2> QED
    BY <1>7, <1>8, Grow
<1> QED
  BY <1>1, <1>9 DEF C

-----------------------------------------------------------------------------
(* Chunks.                                                                 *)

LEMMA ChunksAre ==
  ASSUME NEW doc \in Seq(Lines)
  PROVE  /\ Chunks(doc) \in Seq(MergedParts(doc))
         /\ Kept(doc, TextsOf(Chunks(doc))) = Select(UpTo(Len(doc)), Lasting(doc))
         /\ Apart(doc, Chunks(doc))
<1> DEFINE H == HeadedParts(doc)
           P == Parts(doc)
           bs == Blocks(doc)
           cs == Cuts(doc, bs)
<1>1. /\ bs \in Seq(P)
      /\ Kept(doc, TextsOf(bs)) = Select(UpTo(Len(doc)), Lasting(doc))
      /\ \A b \in ToSet(bs) : Headed(doc, b)
  BY BlocksAre
<1>2. bs \in Seq(H)
  <2> HIDE DEF P, bs, H
  <2>1. bs \in Seq(ToSet(bs)) /\ ToSet(bs) \subseteq P
    BY <1>1, InSeq
  <2>2. ToSet(bs) \subseteq H
    BY <1>1, <2>1 DEF H, P, HeadedParts
  <2> QED
    BY <2>1, <2>2, SeqMonotonic
<1> HIDE DEF bs
<1>3. cs \in Seq(CutParts(doc)) /\ Kept(doc, TextsOf(cs)) = Kept(doc, TextsOf(bs))
  BY <1>2, CutsAre
<1>4. Chunks(doc) = Merge(doc, cs)
  BY DEF Chunks, bs
<1> HIDE DEF cs
<1>5. /\ Merge(doc, cs) \in Seq(MergedParts(doc))
      /\ Kept(doc, TextsOf(Merge(doc, cs))) = Kept(doc, TextsOf(cs))
      /\ Apart(doc, Merge(doc, cs))
  BY <1>3, MergeIs
<1> QED
  BY <1>1, <1>3, <1>4, <1>5

\* Every line of body is in the chunks, once and in its place, and so is
\* every line of a document that has no body (chunk_document): whichever
\* headings it has, however it is cut and merged.
THEOREM ChunksKeepLines ==
  ASSUME NEW doc \in Seq(Lines)
  PROVE  LinesAreKept(doc)
BY ChunksAre DEF LinesAreKept, Lasting

\* Every line of body is in a chunk under the last heading above it.
THEOREM ChunksKeepHeadings ==
  ASSUME NEW doc \in Seq(Lines)
  PROVE  LinesKeepTheirHeading(doc)
<1>1. ToSet(Chunks(doc)) \subseteq MergedParts(doc)
  <2> DEFINE M == MergedParts(doc)
             cs == Chunks(doc)
  <2>1. cs \in Seq(M)
    BY ChunksAre
  <2> HIDE DEF M, cs
  <2>2. ToSet(cs) \subseteq M
    BY <2>1, InSeq
  <2> QED
    BY <2>2 DEF M, cs
<1> QED
  BY <1>1 DEF LinesKeepTheirHeading, MergedParts, Headed

\* A chunk is no longer than the largest piece and a short one together,
\* unless it holds a paragraph that is longer by itself.
THEOREM ChunksStayShort ==
  ASSUME NEW doc \in Seq(Lines)
  PROVE  ChunksAreShort(doc)
<1>1. ToSet(Chunks(doc)) \subseteq MergedParts(doc)
  <2> DEFINE M == MergedParts(doc)
             cs == Chunks(doc)
  <2>1. cs \in Seq(M)
    BY ChunksAre
  <2> HIDE DEF M, cs
  <2>2. ToSet(cs) \subseteq M
    BY <2>1, InSeq
  <2> QED
    BY <2>2 DEF M, cs
<1> QED
  BY <1>1 DEF ChunksAreShort, MergedParts, Small, Long

\* No short chunk is followed by one under its heading: _merge_small_chunks
\* has left none to merge.
THEOREM ChunksStayLong ==
  ASSUME NEW doc \in Seq(Lines)
  PROVE  ChunksAreLong(doc)
BY ChunksAre DEF ChunksAreLong, Apart

\* A word of a line of body that is no stop word finds a chunk with the line.
THEOREM WordsFind ==
  ASSUME NEW doc \in Seq(Lines)
  PROVE  WordsFindTheirLines(doc)
<1> DEFINE M == MergedParts(doc)
           D == Numbers(doc)
           cs == Chunks(doc)
           ts == TextsOf(cs)
           up == UpTo(Len(doc))
<1> SUFFICES ASSUME NEW i \in Body(doc), NEW w \in Tokens(doc[i].words)
             PROVE  \E k \in Candidates(doc, {w}) : i \in ToSet(cs[k].text)
  BY DEF WordsFindTheirLines
<1>1. i \in Ink(doc) /\ i \in 1 .. Len(doc) /\ i \in Lasting(doc) /\ i # 0
  BY DEF Body, Ink, Lasting
<1>2. cs \in Seq(M) /\ Kept(doc, ts) = Select(up, Lasting(doc))
  BY ChunksAre
<1>3. cs \in Seq(Parts(doc))
  <2>1. M \subseteq Parts(doc)
    BY DEF MergedParts
  <2> HIDE DEF M, cs
  <2> QED
    BY <1>2, <2>1, SeqMonotonic
<1>4. ts \in Seq(Seq(D)) /\ ToSet(ts) = {c.text : c \in ToSet(cs)}
  BY <1>3, TextsAre
<1>5. up \in Seq(1 .. Len(doc)) /\ i \in ToSet(up)
  <2>1. Len(doc) \in Nat
    BY LenProperties
  <2>2. up \in [1 .. Len(doc) -> 1 .. Len(doc)] /\ DOMAIN up = 1 .. Len(doc)
    BY DEF UpTo
  <2>3. up \in Seq(1 .. Len(doc))
    BY <2>1, <2>2, SeqDef
  <2>4. up[i] = i
    BY <1>1 DEF UpTo
  <2>5. i \in ToSet(up)
    BY <1>1, <2>2, <2>4 DEF ToSet
  <2> QED
    BY <2>3, <2>5
<1> HIDE DEF up, ts, D
<1>6. i \in ToSet(Select(up, Lasting(doc)))
  BY <1>1, <1>5, InSelect
<1>7. ToSet(Kept(doc, ts)) = (UNION {ToSet(part) : part \in ToSet(ts)}) \cap Ink(doc)
  BY <1>4, InKept
<1>8. PICK c \in ToSet(cs) : i \in ToSet(c.text)
  BY <1>2, <1>4, <1>6, <1>7
<1>9. PICK k \in 1 .. Len(cs) : cs[k] = c
  <2>1. ToSet(cs) = {cs[k] : k \in 1 .. Len(cs)}
    <3> HIDE DEF cs, M
    <3> QED
      BY <1>2, InSeq
  <2> QED
    BY <1>8, <2>1
<1>10. w \in doc[i].words /\ w \notin StopWords
  BY DEF Tokens
<1>11. w \in ChunkWords(doc, c)
  BY <1>1, <1>8, <1>10 DEF ChunkWords
<1>12. k \in Candidates(doc, {w})
  <2>1. w \in Tokens({w}) \cap Tokens(ChunkWords(doc, cs[k]))
    BY <1>9, <1>10, <1>11 DEF Tokens
  <2> QED
    BY <1>9, <2>1 DEF Candidates, Sharing
<1> QED
  BY <1>8, <1>9, <1>12

\* Stop words find nothing.
LEMMA StopWordsFind ==
  ASSUME NEW doc
  PROVE  StopWordsFindNothing(doc)
<1>1. Tokens(StopWords) = {}
  BY DEF Tokens
<1> QED
  BY <1>1 DEF StopWordsFindNothing, Candidates, Sharing
=============================================================================
