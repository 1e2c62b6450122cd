----------------------------- MODULE BackendProofs -----------------------------
(***************************************************************************)
(* Proofs about what works behind the screens.                             *)
(* RestoreArgs: what restic is told of any paths.  Prune: what is deleted  *)
(* from any cache.                                                         *)
(* IndexTx: browsing an indexed snapshot shows that snapshot, for trees of *)
(* any size and depth whose nodes arrive in any order, batches of any      *)
(* size, and any number of snapshots in the same tables.  The argument     *)
(* goes from sums over sets of nodes, by the directories a transaction has *)
(* interned and the rows it has, to the recursive sizes (foldSubtreeSizes) *)
(* and the committed tables, and from those to each query.                 *)
(* Shells: no session that came to its end leaves a file behind unnoticed, *)
(* for any number of sessions; and what is in its environment, whatever is *)
(* inherited and configured.  SessionDirs: no scavenger takes a live       *)
(* session away, for any number of processes and sessions, with locks and  *)
(* without, provided a session takes its lock within the threshold of its  *)
(* creation.  ResticRun: what a call reports is true, for any pipes, any   *)
(* output and any number of patterns; that it returns is left to model     *)
(* checking.                                                               *)
(***************************************************************************)
EXTENDS SessionDirs, ResticRun, Shells, IndexTx, RestoreArgs, Prune, AlgorithmProofs

-----------------------------------------------------------------------------
(* Patterns for restic.                                                    *)

\* How a pattern is made and how it is read, as folds.
Quoted(c) == IF c \in Meta THEN <<"\\", c>> ELSE <<c>>
AddQuoted(sofar, c) == sofar \o Quoted(c)
IsLiteralFold(g, p) == g = [s \in SUBSET (DOMAIN p) |-> IF s = {} THEN <<>> ELSE AddQuoted(g[s \ {Max(s)}], p[Max(s)])]
Literal(p) == FoldLeft(LAMBDA sofar, c : AddQuoted(sofar, c), <<>>, p)

TakeCharacter(st, c) ==
    IF st.quoted THEN [st EXCEPT !.quoted = FALSE, !.path = Append(@, c)]
    ELSE IF c = "\\" THEN [st EXCEPT !.quoted = TRUE]
    ELSE [st EXCEPT !.path = Append(@, c), !.wild = @ \/ c \in Meta]
Unread == [quoted |-> FALSE, wild |-> FALSE, path |-> <<>>]
IsReadFold(g, t) == g = [s \in SUBSET (DOMAIN t) |-> IF s = {} THEN Unread ELSE TakeCharacter(g[s \ {Max(s)}], t[Max(s)])]
Read(t) == FoldLeft(LAMBDA st, c : TakeCharacter(st, c), Unread, t)

LEMMA LiteralChosen ==
  \A p : Literal(p) = (CHOOSE g : IsLiteralFold(g, p))[DOMAIN p] /\ LiteralIncludePattern(p) = Literal(p)
  <1>1. \A p : Literal(p) = (CHOOSE g : IsLiteralFold(g, p))[DOMAIN p]
    BY DEF Literal, FoldLeft, MapThenFoldSet, IsLiteralFold
  <1>2. \A p : LiteralIncludePattern(p) = Literal(p)
    BY DEF LiteralIncludePattern, Literal, AddQuoted, Quoted
  <1> QED BY <1>1, <1>2

LEMMA ReadChosen ==
  \A t : Read(t) = (CHOOSE g : IsReadFold(g, t))[DOMAIN t] /\ Meaning(t) = [wild |-> Read(t).wild, path |-> Read(t).path]
  <1>1. \A t : Read(t) = (CHOOSE g : IsReadFold(g, t))[DOMAIN t]
    BY DEF Read, FoldLeft, MapThenFoldSet, IsReadFold
  <1>2. \A t : Meaning(t) = [wild |-> Read(t).wild, path |-> Read(t).path]
    BY DEF Meaning, Read, TakeCharacter, Unread
  <1> QED BY <1>1, <1>2

ReadStates(Chars) == [quoted : BOOLEAN, wild : BOOLEAN, path : Seq(Chars)]

LEMMA TakeType ==
  ASSUME NEW Chars, NEW st \in ReadStates(Chars), NEW c \in Chars
  PROVE  TakeCharacter(st, c) \in ReadStates(Chars)
  <1> DEFINE more == [st EXCEPT !.quoted = FALSE, !.path = Append(@, c)]
             mark == [st EXCEPT !.quoted = TRUE]
             plain == [st EXCEPT !.path = Append(@, c), !.wild = @ \/ c \in Meta]
  <1>1. Append(st.path, c) \in Seq(Chars) /\ (st.wild \/ c \in Meta) \in BOOLEAN
    BY DEF ReadStates
  <1>2. more \in ReadStates(Chars)
    BY <1>1 DEF ReadStates
  <1>3. mark \in ReadStates(Chars)
    BY DEF ReadStates
  <1>4. plain \in ReadStates(Chars)
    BY <1>1, Zenon DEF ReadStates
  <1>5. TakeCharacter(st, c) \in {more, mark, plain}
    BY DEF TakeCharacter
  <1> QED BY <1>2, <1>3, <1>4, <1>5

\* A character that is quoted is read as it is, and so is one without a meaning.
LEMMA Taken ==
  ASSUME NEW Chars, NEW q \in Seq(Chars), NEW c \in Chars, NEW st, st = [quoted |-> FALSE, wild |-> FALSE, path |-> q]
  PROVE  /\ c \notin Meta => TakeCharacter(st, c) = [quoted |-> FALSE, wild |-> FALSE, path |-> Append(q, c)]
         /\ TakeCharacter(TakeCharacter(st, "\\"), c) = [quoted |-> FALSE, wild |-> FALSE, path |-> Append(q, c)]
  BY DEF TakeCharacter, Meta

\* A pattern is made character by character, and read so.
LEMMA LiteralIterates ==
  ASSUME NEW Chars, "\\" \in Chars, NEW p \in Seq(Chars)
  PROVE  \E f \in [0..Len(p) -> Seq(Chars)] :
            f[0] = <<>> /\ (\A i \in 1..Len(p) : f[i] = f[i - 1] \o Quoted(p[i])) /\ LiteralIncludePattern(p) = f[Len(p)]
  <1> DEFINE n == Len(p)
             W == Seq(Chars)
             c == CHOOSE g : IsLiteralFold(g, p)
             step == [x \in (1..n) \X W |-> AddQuoted(x[2], p[x[1]])]
  <1>1. n \in Nat /\ DOMAIN p = 1..n /\ <<>> \in W /\ \A k \in 1..n : p[k] \in Chars
    OBVIOUS
  <1>2. ASSUME NEW k \in 1..n, NEW r \in W PROVE AddQuoted(r, p[k]) \in W
    <2>1. Quoted(p[k]) \in W
      BY <1>1 DEF Quoted
    <2>2. \A t, u \in W : t \o u \in W
      OBVIOUS
    <2> HIDE DEF W
    <2> QED BY <2>1, <2>2 DEF AddQuoted
  <1> HIDE DEF n, W
  <1>3. IsStep(step, n, W)
    BY <1>2 DEF IsStep
  <1>s. \A k \in 1..n, r \in W : step[<<k, r>>] = AddQuoted(r, p[k])
    OBVIOUS
  <1> HIDE DEF step
  <1>4. PICK g : IsPlaceFold(g, step, <<>>, n, W)
    BY <1>1, <1>3, PlaceFold
  <1>5. IsLiteralFold(g, p)
    <2>1. ASSUME NEW s \in SUBSET (1..n), s # {}
          PROVE  g[s] = AddQuoted(g[s \ {Max(s)}], p[Max(s)])
      <3>1. Max(s) \in 1..n
        BY <1>1, <2>1, Last1
      <3>2. g[s \ {Max(s)}] \in W
        BY <1>4 DEF IsPlaceFold
      <3>3. g[s] = step[<<Max(s), g[s \ {Max(s)}]>>]
        BY <1>4, <2>1 DEF IsPlaceFold
      <3> QED BY <1>s, <3>1, <3>2, <3>3
    <2>2. g[{}] = <<>> /\ g = [s \in SUBSET (1..n) |-> g[s]]
      BY <1>4 DEF IsPlaceFold
    <2> QED BY <1>1, <2>1, <2>2 DEF IsLiteralFold
  <1>6. IsLiteralFold(c, p)
    BY <1>5
  <1>7. LiteralIncludePattern(p) = c[1..n]
    BY <1>1, LiteralChosen
  <1> HIDE DEF c
  <1>8. c[{}] = <<>>
    BY <1>6 DEF IsLiteralFold
  <1>9. ASSUME NEW k \in 1..n PROVE c[1..k] = AddQuoted(c[1..(k - 1)], p[k])
    <2>1. n \in Nat
      BY <1>1
    <2>2. Max(1..k) = k /\ (1..k) \ {k} = 1..(k - 1) /\ (1..k) \in SUBSET (1..n) /\ 1..k # {}
      BY ONLY <2>1, k \in 1..n, LastOfAll
    <2> QED BY <1>1, <1>6, <2>2 DEF IsLiteralFold
  <1> DEFINE f == [k \in 0..n |-> c[1..k]]
  <1>10. Iterates(f, step, <<>>, n, W)
    <2>1. \A k \in 1..n : c[1..(k - 1)] \in W => c[1..k] = step[<<k, c[1..(k - 1)]>>]
      BY <1>s, <1>9
    <2>2. PICK h : h = f
      OBVIOUS
    <2> QED BY ONLY <1>1, <1>3, <1>8, <2>1, <2>2, FoldPrefix
  <1>11. f[n] = c[1..n]
    BY <1>1
  <1> HIDE DEF f
  <1>12. f \in [0..n -> W] /\ f[0] = <<>> /\ \A i \in 1..n : f[i] = f[i - 1] \o Quoted(p[i])
    <2>1. \A i \in 1..n : i - 1 \in 0..n
      BY <1>1
    <2> QED BY <1>10, <1>s, <2>1 DEF Iterates, AddQuoted
  <1> QED BY <1>7, <1>11, <1>12 DEF n, W

LEMMA ReadIterates ==
  ASSUME NEW Chars, NEW t \in Seq(Chars)
  PROVE  \E f \in [0..Len(t) -> ReadStates(Chars)] :
            f[0] = Unread /\ (\A i \in 1..Len(t) : f[i] = TakeCharacter(f[i - 1], t[i])) /\ Read(t) = f[Len(t)]
  <1> DEFINE n == Len(t)
             W == ReadStates(Chars)
             c == CHOOSE g : IsReadFold(g, t)
             step == [x \in (1..n) \X W |-> TakeCharacter(x[2], t[x[1]])]
  <1>1. n \in Nat /\ DOMAIN t = 1..n /\ \A k \in 1..n : t[k] \in Chars
    OBVIOUS
  <1>0. Unread \in W
    BY DEF Unread, ReadStates
  <1>2. ASSUME NEW k \in 1..n, NEW r \in W PROVE TakeCharacter(r, t[k]) \in W
    BY <1>1, TakeType
  <1> HIDE DEF n, W
  <1>3. IsStep(step, n, W)
    BY <1>2 DEF IsStep
  <1>s. \A k \in 1..n, r \in W : step[<<k, r>>] = TakeCharacter(r, t[k])
    OBVIOUS
  <1> HIDE DEF step
  <1>4. PICK g : IsPlaceFold(g, step, Unread, n, W)
    BY <1>0, <1>1, <1>3, PlaceFold
  <1>5. IsReadFold(g, t)
    <2>1. ASSUME NEW s \in SUBSET (1..n), s # {}
          PROVE  g[s] = TakeCharacter(g[s \ {Max(s)}], t[Max(s)])
      <3>1. Max(s) \in 1..n
        BY <1>1, <2>1, Last1
      <3>2. g[s \ {Max(s)}] \in W
        BY <1>4 DEF IsPlaceFold
      <3>3. g[s] = step[<<Max(s), g[s \ {Max(s)}]>>]
        BY <1>4, <2>1 DEF IsPlaceFold
      <3> QED BY <1>s, <3>1, <3>2, <3>3
    <2>2. g[{}] = Unread /\ g = [s \in SUBSET (1..n) |-> g[s]]
      BY <1>4 DEF IsPlaceFold
    <2> QED BY <1>1, <2>1, <2>2 DEF IsReadFold
  <1>6. IsReadFold(c, t)
    BY <1>5
  <1>7. Read(t) = c[1..n]
    BY <1>1, ReadChosen
  <1> HIDE DEF c
  <1>8. c[{}] = Unread
    BY <1>6 DEF IsReadFold
  <1>9. ASSUME NEW k \in 1..n PROVE c[1..k] = TakeCharacter(c[1..(k - 1)], t[k])
    <2>1. n \in Nat
      BY <1>1
    <2>2. Max(1..k) = k /\ (1..k) \ {k} = 1..(k - 1) /\ (1..k) \in SUBSET (1..n) /\ 1..k # {}
      BY ONLY <2>1, k \in 1..n, LastOfAll
    <2> QED BY <1>1, <1>6, <2>2 DEF IsReadFold
  <1> DEFINE f == [k \in 0..n |-> c[1..k]]
  <1>10. Iterates(f, step, Unread, n, W)
    <2>1. \A k \in 1..n : c[1..(k - 1)] \in W => c[1..k] = step[<<k, c[1..(k - 1)]>>]
      BY <1>s, <1>9
    <2>2. PICK h : h = f
      OBVIOUS
    <2> QED BY ONLY <1>0, <1>1, <1>3, <1>8, <2>1, <2>2, FoldPrefix
  <1>11. f[n] = c[1..n]
    BY <1>1
  <1> HIDE DEF f
  <1>12. f \in [0..n -> W] /\ f[0] = Unread /\ \A i \in 1..n : f[i] = TakeCharacter(f[i - 1], t[i])
    <2>1. \A i \in 1..n : i - 1 \in 0..n
      BY <1>1
    <2> QED BY <1>10, <1>s, <2>1 DEF Iterates
  <1> QED BY <1>7, <1>11, <1>12 DEF n, W

\* What has been read of the pattern by the time a character of the path is through.
LEMMA LiteralRead ==
  ASSUME NEW Chars, "\\" \in Chars, NEW p \in Seq(Chars)
  PROVE  Read(LiteralIncludePattern(p)) = [quoted |-> FALSE, wild |-> FALSE, path |-> p]
  <1> DEFINE n == Len(p)
             Plain(q) == [quoted |-> FALSE, wild |-> FALSE, path |-> q]
  <1>1. n \in Nat /\ \A i \in 1..n : p[i] \in Chars
    OBVIOUS
  <1>2. PICK f \in [0..n -> Seq(Chars)] :
           f[0] = <<>> /\ (\A i \in 1..n : f[i] = f[i - 1] \o Quoted(p[i])) /\ LiteralIncludePattern(p) = f[n]
    BY LiteralIterates
  <1>3. PICK t : t = f[n]
    OBVIOUS
  <1>4. t \in Seq(Chars)
    BY <1>1, <1>3
  <1>5. PICK e \in [0..Len(t) -> ReadStates(Chars)] :
           e[0] = Unread /\ (\A i \in 1..Len(t) : e[i] = TakeCharacter(e[i - 1], t[i])) /\ Read(t) = e[Len(t)]
    BY <1>4, ReadIterates
  <1>6. \A i \in 0..n : f[i] \in Seq(Chars) /\ Len(f[i]) \in Nat
    OBVIOUS
  <1> HIDE DEF n
  <1>q. \A c \in Chars : Quoted(c) \in Seq(Chars) /\ Len(Quoted(c)) \in Nat
    BY DEF Quoted
  \* The pattern of a part of the path is the beginning of the pattern.
  <1> DEFINE Begins(k) == Len(f[k]) <= Len(t) /\ \A i \in 1..Len(f[k]) : t[i] = f[k][i]
             B == {j \in 0..n : Begins(n - j)}
  <1>7. \A k \in 0..n : Begins(k)
    <2>1. 0 \in B
      <3>1. n - 0 = n /\ 0 \in 0..n
        BY <1>1
      <3>2. Begins(n)
        BY <1>1, <1>3, <1>6
      <3> QED BY <3>1, <3>2
    <2>2. ASSUME NEW j \in 0..(n - 1), j \in B PROVE j + 1 \in B
      <3>1. PICK k : k = n - j
        OBVIOUS
      <3>2. k \in 1..n /\ k - 1 = n - (j + 1) /\ k - 1 \in 0..n /\ j + 1 \in 0..n /\ k \in 0..n
        BY <1>1, <3>1
      <3>3. Begins(k)
        BY <2>2, <3>1
      <3>4. PICK q : q = Quoted(p[k])
        OBVIOUS
      <3>5. PICK g : g = f[k - 1]
        OBVIOUS
      <3>6. q \in Seq(Chars) /\ g \in Seq(Chars) /\ f[k] = g \o q
        BY <1>1, <1>2, <1>6, <1>q, <3>2, <3>4, <3>5
      <3>7. Len(f[k]) = Len(g) + Len(q) /\ \A i \in 1..Len(g) : f[k][i] = g[i]
        <4>1. Len(g \o q) = Len(g) + Len(q) /\ \A i \in 1..Len(g) : (g \o q)[i] = g[i]
          BY ONLY <3>6, Concat
        <4> QED BY ONLY <3>6, <4>1
      <3>8. Len(g) \in Nat /\ Len(q) \in Nat /\ Len(t) \in Nat
        BY <1>4, <3>6
      <3>9. Len(g) <= Len(t) /\ \A i \in 1..Len(g) : t[i] = g[i]
        <4>1. Len(f[k]) <= Len(t) /\ \A i \in 1..Len(f[k]) : t[i] = f[k][i]
          BY <3>3
        <4>2. \A i \in 1..Len(g) : i \in 1..(Len(g) + Len(q))
          BY ONLY <3>8
        <4>3. Len(g) + Len(q) <= Len(t) => Len(g) <= Len(t)
          BY ONLY <3>8
        <4> QED BY ONLY <3>7, <4>1, <4>2, <4>3
      <3>10. Begins(k - 1)
        BY <3>5, <3>9
      <3> HIDE DEF Begins
      <3> QED BY <3>2, <3>10
    <2> HIDE DEF B
    <2>3. \A j \in 0..n : j \in B
      BY ONLY <1>1, <2>1, <2>2, Induction
    <2> SUFFICES ASSUME NEW k \in 0..n PROVE Begins(k)
      BY DEF Begins
    <2>4. PICK j \in 0..n : k = n - j
      <3>1. n - k \in 0..n /\ k = n - (n - k)
        BY <1>1
      <3> QED BY <3>1
    <2>5. j \in B
      BY <2>3
    <2> HIDE DEF Begins
    <2> QED BY <2>4, <2>5 DEF B
  <1> HIDE DEF Begins, B
  <1> DEFINE Q == {k \in 0..n : e[Len(f[k])] = Plain(SubSeq(p, 1, k))}
  <1>8. 0 \in Q
    <2>1. Len(f[0]) = 0 /\ SubSeq(p, 1, 0) = <<>> /\ 0 \in 0..n
      BY <1>1, <1>2
    <2> QED BY <1>5, <2>1 DEF Unread
  <1>9. ASSUME NEW j \in 0..(n - 1), j \in Q PROVE j + 1 \in Q
    <2>1. PICK k : k = j + 1
      OBVIOUS
    <2>2. k \in 1..n /\ k - 1 = j /\ k \in 0..n /\ j \in 0..n
      BY <1>1, <2>1
    <2>3. PICK c : c = p[k]
      OBVIOUS
    <2>4. c \in Chars
      BY <1>1, <2>2, <2>3
    <2>5. PICK g : g = f[j]
      OBVIOUS
    <2>6. PICK l \in Nat : l = Len(g)
      BY <1>6, <2>2, <2>5
    <2>7. PICK u : u = Quoted(c)
      OBVIOUS
    <2>8. g \in Seq(Chars) /\ u \in Seq(Chars) /\ f[k] = g \o u
      BY <1>2, <1>6, <1>q, <2>2, <2>3, <2>4, <2>5, <2>7
    <2>9. Len(f[k]) = l + Len(u) /\ \A i \in 1..Len(u) : f[k][l + i] = u[i]
      <3>1. Len(g \o u) = Len(g) + Len(u) /\ \A i \in 1..Len(u) : (g \o u)[Len(g) + i] = u[i]
        BY ONLY <2>8, Concat
      <3> QED BY ONLY <2>6, <2>8, <3>1
    <2>10. Len(f[k]) <= Len(t) /\ \A i \in 1..Len(f[k]) : t[i] = f[k][i]
      BY <1>7, <2>2 DEF Begins
    <2>11. PICK q : q = SubSeq(p, 1, j)
      OBVIOUS
    <2>12. PICK st : st = e[l]
      OBVIOUS
    <2>13. q \in Seq(Chars) /\ st = Plain(q) /\ SubSeq(p, 1, k) = Append(q, c)
      <3>1. q \in Seq(Chars) /\ Len(q) = j /\ \A i \in 1..j : q[i] = p[i]
        BY <1>1, <2>2, <2>11 DEF n
      <3>2. PICK r : r = SubSeq(p, 1, k)
        OBVIOUS
      <3>3. r \in Seq(Chars) /\ Len(r) = k /\ \A i \in 1..k : r[i] = p[i]
        BY <1>1, <2>2, <3>2 DEF n
      <3>4. Append(q, c) \in Seq(Chars) /\ Len(Append(q, c)) = j + 1 /\ \A i \in 1..(j + 1) : Append(q, c)[i] = IF i <= j THEN q[i] ELSE c
        BY <2>4, <3>1
      <3>5. \A i \in 1..k : i \in 1..(j + 1) /\ (i <= j => i \in 1..j) /\ (~(i <= j) => i = k)
        BY <2>1, <2>2
      <3>6. r = Append(q, c)
        <4>1. \A i \in 1..k : r[i] = Append(q, c)[i]
          BY <2>3, <3>1, <3>3, <3>4, <3>5
        <4>2. Len(r) = Len(Append(q, c))
          BY <2>1, <3>3, <3>4
        <4> QED BY ONLY <3>3, <3>4, <4>1, <4>2, SamePath
      <3>7. st = Plain(q)
        BY <1>9, <2>5, <2>6, <2>11, <2>12
      <3> QED BY <3>1, <3>2, <3>6, <3>7
    <2>14. Len(t) \in Nat /\ \A i \in 1..Len(t) : e[i] = TakeCharacter(e[i - 1], t[i])
      BY <1>4, <1>5
    <2>15. e[Len(f[k])] = Plain(Append(q, c))
      <3>1. CASE c \in Meta
        <4>1. u = <<"\\", c>> /\ Len(u) = 2 /\ u[1] = "\\" /\ u[2] = c
          BY <2>7, <3>1 DEF Quoted
        <4>2. 1 \in 1..2 /\ 2 \in 1..2 /\ l + 1 \in 1..(l + 2) /\ l + 2 \in 1..(l + 2) /\ (l + 1) - 1 = l /\ (l + 2) - 1 = l + 1
          OBVIOUS
        <4>3. Len(f[k]) = l + 2 /\ t[l + 1] = "\\" /\ t[l + 2] = c /\ l + 2 <= Len(t)
          <5>1. Len(f[k]) = l + 2 /\ f[k][l + 1] = "\\" /\ f[k][l + 2] = c
            BY <2>9, <4>1, <4>2
          <5> QED BY <2>10, <4>2, <5>1
        <4>4. l + 1 \in 1..Len(t) /\ l + 2 \in 1..Len(t)
          BY <2>14, <4>3
        <4>5. e[l + 1] = TakeCharacter(st, "\\")
          BY <2>12, <2>14, <4>2, <4>3, <4>4
        <4>6. e[l + 2] = TakeCharacter(TakeCharacter(st, "\\"), c)
          BY <2>14, <4>2, <4>3, <4>4, <4>5
        <4>7. TakeCharacter(TakeCharacter(st, "\\"), c) = Plain(Append(q, c))
          BY <2>4, <2>13, Taken
        <4> QED BY <4>3, <4>6, <4>7
      <3>2. CASE c \notin Meta
        <4>1. u = <<c>> /\ Len(u) = 1 /\ u[1] = c
          BY <2>7, <3>2 DEF Quoted
        <4>2. 1 \in 1..1 /\ l + 1 \in 1..(l + 1) /\ (l + 1) - 1 = l
          OBVIOUS
        <4>3. Len(f[k]) = l + 1 /\ t[l + 1] = c /\ l + 1 <= Len(t)
          <5>1. Len(f[k]) = l + 1 /\ f[k][l + 1] = c
            BY <2>9, <4>1, <4>2
          <5> QED BY <2>10, <4>2, <5>1
        <4>4. l + 1 \in 1..Len(t)
          BY <2>14, <4>3
        <4>5. e[l + 1] = TakeCharacter(st, c)
          BY <2>12, <2>14, <4>2, <4>3, <4>4
        <4>6. TakeCharacter(st, c) = Plain(Append(q, c))
          BY <2>4, <2>13, <3>2, Taken
        <4> QED BY <4>3, <4>5, <4>6
      <3> QED BY <3>1, <3>2
    <2>16. e[Len(f[k])] = Plain(SubSeq(p, 1, k))
      BY <2>13, <2>15
    <2> QED BY <2>1, <2>2, <2>16
  <1> HIDE DEF Q
  <1>10. \A k \in 0..n : k \in Q
    BY ONLY <1>1, <1>8, <1>9, Induction
  <1>11. e[Len(t)] = Plain(SubSeq(p, 1, n))
    <2>1. n \in Q
      BY <1>1, <1>10
    <2> QED BY <1>3, <2>1 DEF Q
  <1>12. SubSeq(p, 1, n) = p
    BY DEF n
  <1> QED BY <1>2, <1>3, <1>5, <1>11, <1>12

\* What one more pattern takes of the command line.
LEMMA SumAppend ==
  ASSUME NEW t \in Seq(Nat), NEW x \in Nat
  PROVE  Summed(Append(t, x)) = Summed(t) + x /\ Summed(t) \in Nat
  <1> DEFINE n == Len(t)
             u == Append(t, x)
  <1>1. n \in Nat /\ u \in Seq(Nat) /\ Len(u) = n + 1 /\ u[n + 1] = x /\ \A i \in 1..n : u[i] = t[i]
    OBVIOUS
  <1>2. PICK g \in [0..n -> Nat] : g[0] = 0 /\ (\A i \in 1..n : g[i] = g[i - 1] + t[i]) /\ Summed(t) = g[n]
    BY SumIterates
  <1> HIDE DEF n, u
  <1>3. PICK h \in [0..Len(u) -> Nat] : h[0] = 0 /\ (\A i \in 1..Len(u) : h[i] = h[i - 1] + u[i]) /\ Summed(u) = h[Len(u)]
    BY <1>1, SumIterates
  <1> DEFINE Q == {i \in 0..n : g[i] = h[i]}
  <1>4. 0 \in Q
    BY <1>1, <1>2, <1>3
  <1>5. ASSUME NEW i \in 0..(n - 1), i \in Q PROVE i + 1 \in Q
    <2>1. PICK k : k = i + 1
      OBVIOUS
    <2>2. k \in 1..n /\ k \in 1..(n + 1) /\ k - 1 = i /\ k \in 0..n
      BY <1>1, <2>1
    <2>3. g[k] = g[i] + t[k] /\ h[k] = h[i] + u[k] /\ g[i] = h[i]
      BY <1>1, <1>2, <1>3, <1>5, <2>2
    <2> QED BY <1>1, <2>1, <2>2, <2>3
  <1> HIDE DEF Q
  <1>6. \A i \in 0..n : i \in Q
    BY ONLY <1>1, <1>4, <1>5, Induction
  <1>7. g[n] = h[n] /\ g[n] \in Nat
    BY <1>1, <1>6 DEF Q
  <1>8. h[n + 1] = h[n] + x
    <2>1. n + 1 \in 1..(n + 1) /\ (n + 1) - 1 = n
      BY <1>1
    <2> QED BY <1>1, <1>3, <2>1
  <1> QED BY <1>1, <1>2, <1>3, <1>7, <1>8 DEF u

LEMMA BytesAppend ==
  ASSUME NEW Chars, NEW ps \in Seq(Seq(Chars)), NEW p \in Seq(Chars)
  PROVE  Bytes(Append(ps, p)) = Bytes(ps) + Len(p) + Overhead /\ Bytes(ps) \in Nat
  <1> DEFINE n == Len(ps)
             t == [i \in 1..n |-> Len(ps[i]) + Overhead]
             qs == Append(ps, p)
             u == [i \in 1..(n + 1) |-> Len(qs[i]) + Overhead]
             x == Len(p) + Overhead
  <1>1. n \in Nat /\ DOMAIN ps = 1..n /\ DOMAIN qs = 1..(n + 1) /\ qs[n + 1] = p /\ \A i \in 1..n : qs[i] = ps[i]
    OBVIOUS
  <1>2. Bytes(ps) = Summed(t) /\ Bytes(qs) = Summed(u)
    BY <1>1 DEF Bytes, Summed
  <1>3. x \in Nat /\ \A i \in 1..n : Len(ps[i]) + Overhead \in Nat
    <2>1. \A q \in Seq(Chars) : Len(q) + Overhead \in Nat
      BY DEF Overhead
    <2> QED BY <2>1
  <1> HIDE DEF n, qs
  <1>4. t \in Seq(Nat) /\ Len(t) = n /\ \A i \in 1..n : t[i] = Len(ps[i]) + Overhead
    BY <1>1, <1>3
  <1>5. u = Append(t, x)
    <2>1. Append(t, x) \in Seq(Nat) /\ Len(Append(t, x)) = n + 1 /\ \A i \in 1..(n + 1) : Append(t, x)[i] = IF i = n + 1 THEN x ELSE t[i]
      BY <1>1, <1>3, <1>4
    <2>2. \A i \in 1..(n + 1) : u[i] = Append(t, x)[i]
      <3>1. \A i \in 1..(n + 1) : i = n + 1 \/ i \in 1..n
        BY <1>1
      <3>2. \A i \in 1..(n + 1) : u[i] = Len(qs[i]) + Overhead
        OBVIOUS
      <3> HIDE DEF u, t
      <3>3. \A i \in 1..n : t[i] = u[i] /\ i # n + 1
        BY <1>1, <1>4, <3>1, <3>2
      <3> QED BY <1>1, <2>1, <3>1, <3>2, <3>3
    <2>3. u \in Seq(Nat) /\ Len(u) = n + 1
      <3>1. \A i \in 1..(n + 1) : u[i] \in Nat
        <4>1. \A i \in 1..(n + 1) : Append(t, x)[i] \in Nat
          BY <2>1, <1>1
        <4> HIDE DEF u, t, x
        <4> QED BY <2>2, <4>1
      <3>2. u = [i \in 1..(n + 1) |-> u[i]]
        OBVIOUS
      <3> HIDE DEF u
      <3>3. u \in [1..(n + 1) -> Nat] /\ n + 1 \in Nat
        BY <1>1, <3>1, <3>2
      <3>4. \A m \in Nat : \A f \in [1..m -> Nat] : f \in Seq(Nat) /\ Len(f) = m
        OBVIOUS
      <3> QED BY ONLY <3>3, <3>4
    <2> HIDE DEF u, t, x
    <2> QED BY ONLY <2>1, <2>2, <2>3, SamePath
  <1>6. Summed(Append(t, x)) = Summed(t) + x /\ Summed(t) \in Nat
    <2> HIDE DEF t, x
    <2> QED BY <1>3, <1>4, SumAppend
  <1>7. Summed(t) + (Len(p) + Overhead) = Summed(t) + Len(p) + Overhead
    BY <1>6 DEF Overhead
  <1> HIDE DEF t, u
  <1> QED BY <1>2, <1>5, <1>6, <1>7 DEF qs

\* What is kept, as a loop.
LEMMA KeptIterates ==
  ASSUME NEW T, NEW s \in Seq(T), NEW keep \in [DOMAIN s -> BOOLEAN]
  PROVE  \E f \in [0..Len(s) -> Seq(T)] :
            f[0] = <<>> /\ (\A i \in 1..Len(s) : f[i] = IF keep[i] THEN Append(f[i - 1], s[i]) ELSE f[i - 1]) /\ KeptOf(s, keep) = f[Len(s)]
  <1> DEFINE n == Len(s)
             ss == [i \in 1..n |-> IF keep[i] THEN <<s[i]>> ELSE <<>>]
  <1>1. n \in Nat /\ DOMAIN s = 1..n /\ \A i \in 1..n : s[i] \in T
    OBVIOUS
  <1>2. ss \in Seq(Seq(T)) /\ Len(ss) = n
    <2>1. \A x \in T : <<x>> \in Seq(T)
      OBVIOUS
    <2>2. <<>> \in Seq(T)
      OBVIOUS
    <2>3. \A i \in 1..n : ss[i] \in Seq(T)
      <3> HIDE DEF n
      <3> QED BY <1>1, <2>1, <2>2
    <2>4. ss = [i \in 1..n |-> ss[i]]
      OBVIOUS
    <2>5. PICK W : W = Seq(T)
      OBVIOUS
    <2> HIDE DEF ss, n
    <2>6. ss \in Seq(W) /\ Len(ss) = n
      BY <1>1, <2>3, <2>4, <2>5
    <2> QED BY <2>5, <2>6
  <1>3. KeptOf(s, keep) = FlattenSeq(ss)
    BY <1>1 DEF KeptOf
  <1>5. \A i \in 1..n : ss[i] = IF keep[i] THEN <<s[i]>> ELSE <<>>
    OBVIOUS
  <1> HIDE DEF ss, n
  <1>4. PICK f \in [0..Len(ss) -> Seq(T)] :
           f[0] = <<>> /\ (\A i \in 1..Len(ss) : f[i] = f[i - 1] \o ss[i]) /\ FlattenSeq(ss) = f[Len(ss)]
    BY <1>2, FlatIterates
  <1>6. ASSUME NEW i \in 1..n PROVE f[i] = IF keep[i] THEN Append(f[i - 1], s[i]) ELSE f[i - 1]
    <2>1. PICK g : g = f[i - 1]
      OBVIOUS
    <2>2. PICK x : x = s[i]
      OBVIOUS
    <2>3. x \in T /\ g \in Seq(T)
      <3>1. i - 1 \in 0..n
        BY <1>1
      <3> QED BY <1>1, <1>2, <1>4, <2>1, <2>2, <3>1
    <2>4. g \o <<x>> = Append(g, x) /\ g \o <<>> = g
      BY ONLY <2>3
    <2> QED BY <1>2, <1>4, <1>5, <2>1, <2>2, <2>4
  <1> QED BY <1>2, <1>3, <1>4, <1>6 DEF n

\* Nothing is kept but what is to be, and all of that.
LEMMA KeptRange ==
  ASSUME NEW T, NEW s \in Seq(T), NEW keep \in [DOMAIN s -> BOOLEAN]
  PROVE  KeptOf(s, keep) \in Seq(T) /\ Range(KeptOf(s, keep)) = {s[i] : i \in {i \in DOMAIN s : keep[i]}}
  <1> DEFINE n == Len(s)
  <1>1. n \in Nat /\ DOMAIN s = 1..n /\ \A i \in 1..n : s[i] \in T
    OBVIOUS
  <1>2. PICK f \in [0..n -> Seq(T)] :
            f[0] = <<>> /\ (\A i \in 1..n : f[i] = IF keep[i] THEN Append(f[i - 1], s[i]) ELSE f[i - 1]) /\ KeptOf(s, keep) = f[n]
    BY KeptIterates
  <1> HIDE DEF n
  <1> DEFINE Some(k) == {s[i] : i \in {i \in 1..k : keep[i]}}
             Q == {k \in 0..n : Range(f[k]) = Some(k)}
  <1>3. 0 \in Q
    <2>1. Range(<<>>) = {} /\ 0 \in 0..n /\ 1..0 = {}
      BY <1>1 DEF Range
    <2>2. Some(0) = {}
      BY <2>1
    <2> QED BY <1>2, <2>1, <2>2
  <1>4. ASSUME NEW j \in 0..(n - 1), j \in Q PROVE j + 1 \in Q
    <2>1. PICK k : k = j + 1
      OBVIOUS
    <2>2. k \in 1..n /\ k - 1 = j /\ j \in 0..n /\ k \in 0..n /\ 1..k = (1..j) \cup {k}
      <3>1. k \in 1..n /\ k - 1 = j /\ j \in 0..n /\ k \in 0..n
        BY <1>1, <2>1
      <3>2. j \in Nat
        BY <1>1
      <3>3. 1..(j + 1) = (1..j) \cup {j + 1}
        BY ONLY <3>2
      <3> QED BY <2>1, <3>1, <3>3
    <2>3. PICK g : g = f[j]
      OBVIOUS
    <2>4. g \in Seq(T) /\ Range(g) = Some(j) /\ f[k] = IF keep[k] THEN Append(g, s[k]) ELSE g
      BY <1>2, <1>4, <2>2, <2>3
    <2>5. Some(k) = IF keep[k] THEN Some(j) \cup {s[k]} ELSE Some(j)
      BY <2>2
    <2>6. Range(Append(g, s[k])) = Range(g) \cup {s[k]}
      <3>1. PICK x \in T : x = s[k]
        BY <1>1, <2>2
      <3>2. DOMAIN Append(g, x) = 1..(Len(g) + 1) /\ DOMAIN g = 1..Len(g) /\ Len(g) \in Nat
        BY <2>4
      <3>3. Append(g, x)[Len(g) + 1] = x /\ \A i \in 1..Len(g) : Append(g, x)[i] = g[i]
        BY <2>4
      <3>4. \A i \in 1..(Len(g) + 1) : i \in 1..Len(g) \/ i = Len(g) + 1
        BY <3>2
      <3>5. Len(g) + 1 \in 1..(Len(g) + 1) /\ \A i \in 1..Len(g) : i \in 1..(Len(g) + 1)
        BY <3>2
      <3> QED BY <3>1, <3>2, <3>3, <3>4, <3>5 DEF Range
    <2> HIDE DEF Some
    <2>7. Range(f[k]) = Some(k)
      BY <2>4, <2>5, <2>6
    <2> QED BY <2>1, <2>2, <2>7
  <1> HIDE DEF Q
  <1>5. \A k \in 0..n : k \in Q
    BY ONLY <1>1, <1>3, <1>4, Induction
  <1>6. Range(f[n]) = Some(n) /\ f[n] \in Seq(T)
    BY <1>1, <1>5 DEF Q
  <1> QED BY <1>1, <1>2, <1>6

\* A sequence is kept whole when all of it is to be kept.
LEMMA KeptWhole ==
  ASSUME NEW T, NEW s \in Seq(T), NEW keep \in [DOMAIN s -> BOOLEAN], \A i \in DOMAIN s : keep[i]
  PROVE  KeptOf(s, keep) = s
  <1> DEFINE n == Len(s)
  <1>1. n \in Nat /\ DOMAIN s = 1..n /\ \A i \in 1..n : s[i] \in T
    OBVIOUS
  <1>2. PICK f \in [0..n -> Seq(T)] :
            f[0] = <<>> /\ (\A i \in 1..n : f[i] = IF keep[i] THEN Append(f[i - 1], s[i]) ELSE f[i - 1]) /\ KeptOf(s, keep) = f[n]
    BY KeptIterates
  <1> HIDE DEF n
  <1> DEFINE Q == {k \in 0..n : Len(f[k]) = k /\ \A i \in 1..k : f[k][i] = s[i]}
  <1>3. 0 \in Q
    BY <1>1, <1>2
  <1>4. ASSUME NEW j \in 0..(n - 1), j \in Q PROVE j + 1 \in Q
    <2>1. PICK k : k = j + 1
      OBVIOUS
    <2>2. k \in 1..n /\ k - 1 = j /\ j \in 0..n /\ k \in 0..n /\ \A i \in 1..k : i = k \/ i \in 1..j
      BY <1>1, <2>1
    <2>3. PICK g : g = f[j]
      OBVIOUS
    <2>4. PICK x : x = s[k]
      OBVIOUS
    <2>5. g \in Seq(T) /\ x \in T /\ Len(g) = j /\ (\A i \in 1..j : g[i] = s[i]) /\ f[k] = Append(g, x)
      BY <1>1, <1>2, <1>4, <2>2, <2>3, <2>4
    <2>6. Len(Append(g, x)) = j + 1 /\ Append(g, x)[j + 1] = x /\ \A i \in 1..j : Append(g, x)[i] = g[i]
      BY ONLY <2>5
    <2>7. Len(f[k]) = k /\ \A i \in 1..k : f[k][i] = s[i]
      BY <2>1, <2>2, <2>4, <2>5, <2>6
    <2> QED BY <2>1, <2>2, <2>7
  <1> HIDE DEF Q
  <1>5. \A k \in 0..n : k \in Q
    BY ONLY <1>1, <1>3, <1>4, Induction
  <1>6. PICK t : t = f[n]
    OBVIOUS
  <1>7. t \in Seq(T) /\ Len(t) = n /\ \A i \in 1..n : t[i] = s[i]
    <2>1. n \in 0..n /\ n \in Q
      BY <1>1, <1>5
    <2>2. Len(f[n]) = n /\ \A i \in 1..n : f[n][i] = s[i]
      BY <2>1 DEF Q
    <2>3. f[n] \in Seq(T)
      BY <2>1
    <2> QED BY <1>6, <2>2, <2>3
  <1>8. t = s
    <2>1. Len(s) = n
      BY DEF n
    <2> QED BY ONLY <1>7, <2>1, s \in Seq(T), SamePath
  <1> QED BY <1>2, <1>6, <1>8

\* What is kept of the patterns takes no more room than all of them.
LEMMA KeptBytes ==
  ASSUME NEW Chars, NEW s \in Seq(Seq(Chars)), NEW keep \in [DOMAIN s -> BOOLEAN]
  PROVE  Bytes(KeptOf(s, keep)) \in Nat /\ Bytes(s) \in Nat /\ Bytes(KeptOf(s, keep)) <= Bytes(s)
  <1> DEFINE n == Len(s)
             T == Seq(Chars)
             all == [i \in DOMAIN s |-> TRUE]
  <1>1. n \in Nat /\ DOMAIN s = 1..n /\ \A i \in 1..n : s[i] \in T
    OBVIOUS
  <1>2. PICK f \in [0..n -> Seq(T)] :
            f[0] = <<>> /\ (\A i \in 1..n : f[i] = IF keep[i] THEN Append(f[i - 1], s[i]) ELSE f[i - 1]) /\ KeptOf(s, keep) = f[n]
    BY KeptIterates
  <1>a. PICK h \in [0..n -> Seq(T)] :
            h[0] = <<>> /\ (\A i \in 1..n : h[i] = IF all[i] THEN Append(h[i - 1], s[i]) ELSE h[i - 1]) /\ KeptOf(s, all) = h[n]
    <2>1. all \in [DOMAIN s -> BOOLEAN]
      OBVIOUS
    <2> HIDE DEF all, T
    <2> QED BY <2>1, KeptIterates DEF T
  <1>b. KeptOf(s, all) = s
    <2>1. all \in [DOMAIN s -> BOOLEAN] /\ \A i \in DOMAIN s : all[i]
      OBVIOUS
    <2> HIDE DEF all, T
    <2> QED BY <2>1, KeptWhole DEF T
  <1>c. \A i \in 1..n : h[i] = Append(h[i - 1], s[i])
    BY <1>1, <1>a
  <1>d. \A p \in Seq(T), x \in T : Bytes(Append(p, x)) = Bytes(p) + Len(x) + Overhead /\ Bytes(p) \in Nat
    BY BytesAppend
  <1>e. \A x \in T : Len(x) \in Nat
    OBVIOUS
  <1>f. Overhead \in Nat
    BY DEF Overhead
  <1>g. Bytes(<<>>) \in Nat
    <2>1. <<>> \in T /\ <<>> \in Seq(T)
      OBVIOUS
    <2> HIDE DEF T
    <2> QED BY <1>d, <2>1
  <1> HIDE DEF n, T, all
  <1> DEFINE Q == {k \in 0..n : Bytes(f[k]) \in Nat /\ Bytes(h[k]) \in Nat /\ Bytes(f[k]) <= Bytes(h[k])}
  <1>3. 0 \in Q
    BY <1>1, <1>2, <1>a, <1>g
  <1>4. ASSUME NEW j \in 0..(n - 1), j \in Q PROVE j + 1 \in Q
    <2>1. PICK k : k = j + 1
      OBVIOUS
    <2>2. k \in 1..n /\ k - 1 = j /\ j \in 0..n /\ k \in 0..n
      BY <1>1, <2>1
    <2>3. f[j] \in Seq(T) /\ h[j] \in Seq(T) /\ s[k] \in T
      BY <1>1, <1>2, <1>a, <2>2
    <2>4. PICK a, b \in Nat : a = Bytes(f[j]) /\ b = Bytes(h[j]) /\ a \in Nat /\ a <= b
      BY <1>4
    <2>5. PICK l \in Nat : l = Len(s[k])
      BY <1>e, <2>3
    <2>6. Bytes(h[k]) = b + l + Overhead
      BY <1>c, <1>d, <2>2, <2>3, <2>4, <2>5
    <2>7. Bytes(f[k]) \in {a, a + l + Overhead}
      <3>1. f[k] \in {f[j], Append(f[j], s[k])}
        BY <1>2, <2>2
      <3>2. Bytes(Append(f[j], s[k])) = a + l + Overhead
        BY <1>d, <2>3, <2>4, <2>5
      <3> QED BY <2>4, <3>1, <3>2
    <2>8. Bytes(f[k]) \in Nat /\ Bytes(h[k]) \in Nat /\ Bytes(f[k]) <= Bytes(h[k])
      BY <1>f, <2>4, <2>6, <2>7
    <2> QED BY <2>1, <2>2, <2>8
  <1> HIDE DEF Q
  <1>5. \A k \in 0..n : k \in Q
    BY ONLY <1>1, <1>3, <1>4, Induction
  <1>6. n \in Q
    BY <1>1, <1>5
  <1> QED BY <1>2, <1>6, <1>a, <1>b DEF Q

\* Where each of the sections starts, and that there is nothing between them.
IsLaidOut(flat, ss, o) ==
    /\ o \in [0..Len(ss) -> Nat] /\ o[0] = 0 /\ Len(flat) = o[Len(ss)]
    /\ \A i \in 1..Len(ss) : o[i] = o[i - 1] + Len(ss[i]) /\ o[i] <= Len(flat) /\ \A j \in 1..Len(ss[i]) : flat[o[i - 1] + j] = ss[i][j]
    /\ \A q \in 1..Len(flat) : \E i \in 1..Len(ss) : \E j \in 1..Len(ss[i]) : q = o[i - 1] + j

LEMMA LaidOut ==
  ASSUME NEW T, NEW ss \in Seq(Seq(T))
  PROVE  FlattenSeq(ss) \in Seq(T) /\ \E o : IsLaidOut(FlattenSeq(ss), ss, o)
  <1> DEFINE n == Len(ss)
  <1>1. PICK f \in [0..n -> Seq(T)] :
           f[0] = <<>> /\ (\A i \in 1..n : f[i] = f[i - 1] \o ss[i]) /\ FlattenSeq(ss) = f[n]
    BY FlatIterates
  <1>2. n \in Nat /\ \A i \in 1..n : ss[i] \in Seq(T) /\ Len(ss[i]) \in Nat
    OBVIOUS
  <1> HIDE DEF n
  <1> DEFINE Holds(k) == \A m \in 0..k : Len(f[m]) <= Len(f[k]) /\ \A j \in 1..Len(f[m]) : f[k][j] = f[m][j]
             Full(k) == \A q \in 1..Len(f[k]) : \E i \in 1..k : \E j \in 1..Len(ss[i]) : q = Len(f[i - 1]) + j
             Q == {k \in 0..n : Holds(k) /\ Full(k)}
  <1>3. \A k \in 0..n : f[k] \in Seq(T) /\ Len(f[k]) \in Nat
    <2>1. \A t \in Seq(T) : Len(t) \in Nat
      OBVIOUS
    <2> HIDE DEF Q
    <2> QED BY <1>1, <2>1
  <1>4. ASSUME NEW k \in 1..n
        PROVE  /\ Len(f[k]) = Len(f[k - 1]) + Len(ss[k])
               /\ \A j \in 1..Len(f[k - 1]) : f[k][j] = f[k - 1][j]
               /\ \A j \in 1..Len(ss[k]) : f[k][Len(f[k - 1]) + j] = ss[k][j]
    <2>1. PICK t, u : t = f[k - 1] /\ u = ss[k]
      OBVIOUS
    <2>2. t \in Seq(T) /\ u \in Seq(T) /\ f[k] = t \o u
      <3>1. k - 1 \in 0..n
        BY <1>2
      <3> QED BY <1>1, <1>2, <1>3, <2>1, <3>1
    <2>3. /\ Len(t \o u) = Len(t) + Len(u)
          /\ \A i \in 1..Len(t) : (t \o u)[i] = t[i]
          /\ \A i \in 1..Len(u) : (t \o u)[Len(t) + i] = u[i]
      BY ONLY <2>2, Concat
    <2> QED BY ONLY <2>1, <2>2, <2>3
  <1>5. 0 \in Q
    <2>1. 0 \in 0..n /\ Len(f[0]) = 0 /\ \A m \in 0..0 : m = 0
      BY <1>1, <1>2
    <2> QED BY <2>1
  <1>6. ASSUME NEW b \in 0..(n - 1), b \in Q PROVE b + 1 \in Q
    <2>1. PICK k : k = b + 1
      OBVIOUS
    <2>2. k \in 1..n /\ k - 1 = b /\ b \in 0..n /\ k \in 0..n /\ k \in 1..k /\ (\A m \in 0..k : m = k \/ m \in 0..b) /\ \A i \in 1..b : i \in 1..k
      BY <1>2, <2>1
    <2>3. Holds(b) /\ Full(b)
      BY <1>6
    <2>4. PICK l, r \in Nat : l = Len(f[b]) /\ r = Len(ss[k])
      BY <1>2, <1>3, <2>2
    <2>5. Len(f[k]) = l + r /\ (\A j \in 1..l : f[k][j] = f[b][j])
      BY <1>4, <2>2, <2>4
    <2>6. Holds(k)
      <3> SUFFICES ASSUME NEW m \in 0..k PROVE Len(f[m]) <= Len(f[k]) /\ \A j \in 1..Len(f[m]) : f[k][j] = f[m][j]
        OBVIOUS
      <3>1. CASE m = k
        BY <1>3, <2>2, <3>1
      <3>2. CASE m \in 0..b
        <4>1. Len(f[m]) <= l /\ \A j \in 1..Len(f[m]) : f[b][j] = f[m][j]
          BY <2>3, <2>4, <3>2
        <4>2. PICK a \in Nat : a = Len(f[m])
          <5>1. m \in 0..n
            BY <1>2, <2>2, <3>2
          <5> QED BY <1>3, <5>1
        <4>3. a <= l + r /\ \A j \in 1..a : j \in 1..l
          BY <4>1, <4>2
        <4> QED BY <2>5, <4>1, <4>2, <4>3
      <3> QED BY <2>2, <3>1, <3>2
    <2>7. Full(k)
      <3> SUFFICES ASSUME NEW q \in 1..Len(f[k]) PROVE \E i \in 1..k : \E j \in 1..Len(ss[i]) : q = Len(f[i - 1]) + j
        OBVIOUS
      <3>1. CASE q \in 1..l
        BY <2>2, <2>3, <2>4, <3>1
      <3>2. CASE q \notin 1..l
        <4>1. q - l \in 1..r /\ q = l + (q - l)
          BY <2>5, <3>2
        <4> QED BY <2>2, <2>4, <4>1
      <3> QED BY <3>1, <3>2
    <2> HIDE DEF Holds, Full
    <2> QED BY <2>1, <2>2, <2>6, <2>7
  <1> HIDE DEF Q
  <1>7. \A k \in 0..n : k \in Q
    BY ONLY <1>2, <1>5, <1>6, Induction
  <1>8. Holds(n) /\ Full(n)
    <2>1. n \in Q
      BY <1>2, <1>7
    <2> HIDE DEF Holds, Full
    <2> QED BY <2>1 DEF Q
  <1>9. PICK flat : flat = FlattenSeq(ss)
    OBVIOUS
  <1>10. flat = f[n] /\ flat \in Seq(T)
    BY <1>1, <1>2, <1>9
  <1> DEFINE o == [k \in 0..n |-> Len(f[k])]
  <1>11. o \in [0..n -> Nat] /\ o[0] = 0 /\ Len(flat) = o[n] /\ \A k \in 0..n : o[k] = Len(f[k])
    BY <1>1, <1>2, <1>3, <1>10
  <1>12. \A k \in 1..n : k - 1 \in 0..n /\ k \in 0..n
    BY <1>2
  <1> HIDE DEF o
  <1>13. ASSUME NEW i \in 1..n
         PROVE  o[i] = o[i - 1] + Len(ss[i]) /\ o[i] <= Len(flat) /\ \A j \in 1..Len(ss[i]) : flat[o[i - 1] + j] = ss[i][j]
    <2>1. o[i] = o[i - 1] + Len(ss[i]) /\ o[i] <= Len(flat)
      BY <1>4, <1>8, <1>10, <1>11, <1>12
    <2>2. ASSUME NEW j \in 1..Len(ss[i]) PROVE flat[o[i - 1] + j] = ss[i][j]
      <3>1. PICK c \in Nat, d \in Nat : c = o[i - 1] /\ d = Len(ss[i]) /\ o[i] = c + d
        BY <1>2, <1>11, <1>12, <2>1
      <3>2. c + j \in 1..(c + d)
        BY <3>1
      <3>3. f[i][c + j] = ss[i][j]
        BY <1>4, <1>11, <1>12, <3>1
      <3>4. \A x \in 1..Len(f[i]) : f[n][x] = f[i][x]
        BY <1>8, <1>12
      <3> QED BY <1>10, <1>11, <1>12, <3>1, <3>2, <3>3, <3>4
    <2> QED BY <2>1, <2>2
  <1>14. ASSUME NEW q \in 1..Len(flat) PROVE \E i \in 1..n : \E j \in 1..Len(ss[i]) : q = o[i - 1] + j
    BY <1>8, <1>10, <1>11, <1>12
  <1>15. IsLaidOut(flat, ss, o)
    BY <1>11, <1>13, <1>14 DEF IsLaidOut, n
  <1> QED BY <1>9, <1>10, <1>15

\* The pattern of a path that is not empty: what it starts and ends with.
LEMMA LiteralShape ==
  ASSUME NEW Chars, "\\" \in Chars, NEW p \in Seq(Chars), p # <<>>, NEW t, t = LiteralIncludePattern(p)
  PROVE  /\ t \in Seq(Chars) /\ Len(t) > 0 /\ \A i \in 1..Len(t) : t[i] \in Range(p) \cup {"\\"}
         /\ t[1] \in {"\\", p[1]} /\ t[Len(t)] = p[Len(p)]
  <1> DEFINE n == Len(p)
  <1>1. n \in Nat /\ n > 0 /\ (\A i \in 1..n : p[i] \in Chars) /\ DOMAIN p = 1..n
    OBVIOUS
  <1>2. PICK f \in [0..n -> Seq(Chars)] :
           f[0] = <<>> /\ (\A i \in 1..n : f[i] = f[i - 1] \o Quoted(p[i])) /\ LiteralIncludePattern(p) = f[n]
    BY LiteralIterates
  <1>3. \A k \in 0..n : f[k] \in Seq(Chars) /\ Len(f[k]) \in Nat
    OBVIOUS
  <1> HIDE DEF n
  <1> DEFINE Of(k) == /\ \A i \in 1..Len(f[k]) : f[k][i] \in Range(p) \cup {"\\"}
                      /\ k > 0 => Len(f[k]) > 0 /\ f[k][1] \in {"\\", p[1]} /\ f[k][Len(f[k])] = p[k]
             Q == {k \in 0..n : Of(k)}
  <1>4. 0 \in Q
    BY <1>1, <1>2
  <1>5. ASSUME NEW j \in 0..(n - 1), j \in Q PROVE j + 1 \in Q
    <2>1. PICK k : k = j + 1
      OBVIOUS
    <2>2. k \in 1..n /\ k - 1 = j /\ j \in 0..n /\ k \in 0..n
      BY <1>1, <2>1
    <2>3. Of(j)
      BY <1>5
    <2>4. PICK g, u, c : g = f[j] /\ u = Quoted(p[k]) /\ c = p[k]
      OBVIOUS
    <2>5. c \in Chars /\ c \in Range(p)
      BY <1>1, <2>2, <2>4 DEF Range
    <2>6. /\ u \in Seq(Chars) /\ Len(u) \in Nat /\ Len(u) > 0 /\ u[Len(u)] = c /\ u[1] \in {"\\", c}
          /\ \A i \in 1..Len(u) : u[i] \in {"\\", c}
      <3>1. CASE c \in Meta
        <4>1. u = <<"\\", c>>
          BY <2>4, <3>1 DEF Quoted
        <4> QED BY <2>5, <4>1
      <3>2. CASE c \notin Meta
        <4>1. u = <<c>>
          BY <2>4, <3>2 DEF Quoted
        <4> QED BY <2>5, <4>1
      <3> QED BY <3>1, <3>2
    <2>7. g \in Seq(Chars) /\ Len(g) \in Nat /\ f[k] = g \o u
      BY <1>2, <1>3, <2>2, <2>4
    <2>8. PICK r : r = f[k]
      OBVIOUS
    <2>9. Len(r) = Len(g) + Len(u) /\ (\A i \in 1..Len(g) : r[i] = g[i]) /\ \A i \in 1..Len(u) : r[Len(g) + i] = u[i]
      <3>1. /\ Len(g \o u) = Len(g) + Len(u)
            /\ \A i \in 1..Len(g) : (g \o u)[i] = g[i]
            /\ \A i \in 1..Len(u) : (g \o u)[Len(g) + i] = u[i]
        BY ONLY <2>6, <2>7, Concat
      <3> QED BY ONLY <2>7, <2>8, <3>1
    <2>10. PICK a, b \in Nat : a = Len(g) /\ b = Len(u) /\ b > 0 /\ Len(r) = a + b
      BY <2>6, <2>7, <2>9
    <2>11. \A i \in 1..(a + b) : i \in 1..a \/ (i - a \in 1..b /\ a + (i - a) = i)
      BY <2>10
    <2>12. ASSUME NEW i \in 1..(a + b) PROVE r[i] \in Range(p) \cup {"\\"}
      <3>1. CASE i \in 1..a
        BY <2>3, <2>4, <2>9, <2>10, <3>1
      <3>2. CASE i - a \in 1..b /\ a + (i - a) = i
        <4>1. PICK d : d = i - a
          OBVIOUS
        <4>2. r[i] = u[d] /\ u[d] \in {"\\", c}
          BY <2>6, <2>9, <2>10, <3>2, <4>1
        <4> QED BY <2>5, <4>2
      <3> QED BY <2>11, <3>1, <3>2
    <2>13. r[a + b] = c
      <3>1. b \in 1..b
        BY <2>10
      <3> QED BY <2>6, <2>9, <2>10, <3>1
    <2>14. r[1] \in {"\\", p[1]}
      <3>1. CASE j = 0
        <4>1. a = 0 /\ k = 1 /\ 1 \in 1..b /\ 0 + 1 = 1
          BY <1>2, <2>1, <2>4, <2>10, <3>1
        <4>2. r[1] = u[1] /\ c = p[1]
          BY <2>4, <2>9, <2>10, <4>1
        <4> QED BY <2>6, <4>2
      <3>2. CASE j # 0
        <4>1. j > 0
          BY <3>2
        <4>2. a > 0 /\ g[1] \in {"\\", p[1]}
          BY <2>3, <2>4, <2>10, <4>1
        <4>3. 1 \in 1..a
          BY <4>2
        <4> QED BY <2>9, <2>10, <4>2, <4>3
      <3> QED BY <3>1, <3>2
    <2>15. a + b > 0
      BY <2>10
    <2>16. Of(k)
      BY <2>4, <2>8, <2>10, <2>12, <2>13, <2>14, <2>15
    <2> HIDE DEF Of
    <2> QED BY <2>1, <2>2, <2>16
  <1> HIDE DEF Q
  <1>6. \A k \in 0..n : k \in Q
    BY ONLY <1>1, <1>4, <1>5, Induction
  <1>7. n \in 0..n /\ Of(n)
    BY <1>1, <1>6 DEF Q
  <1>8. t = f[n]
    BY <1>2
  <1> HIDE DEF Of
  <1>9. t \in Seq(Chars)
    BY <1>3, <1>7, <1>8
  <1> QED BY <1>1, <1>7, <1>8, <1>9 DEF Of, n

\* Trimming: what it leaves as it is, and how that ends.
LEMMA TrimKeeps ==
  ASSUME NEW Chars, NEW q \in Seq(Chars), Len(q) > 0, q[1] \notin Blanks, q[Len(q)] \notin Blanks
  PROVE  TrimSpace(q) = q
  <1> DEFINE solid == {i \in DOMAIN q : q[i] \notin Blanks}
  <1>1. PICK n \in Nat : n = Len(q) /\ n > 0
    OBVIOUS
  <1>2. solid \in SUBSET (1..n) /\ solid \in SUBSET Nat /\ 1 \in solid /\ n \in solid /\ solid # {}
    BY <1>1
  <1>3. TrimSpace(q) = IF solid = {} THEN <<>> ELSE SubSeq(q, Min(solid), Max(solid))
    BY DEF TrimSpace
  <1> HIDE DEF solid
  <1>4. Min(solid) \in solid /\ \A i \in solid : Min(solid) <= i
    BY <1>2, FirstOf
  <1>5. Max(solid) \in solid /\ \A i \in solid : i <= Max(solid)
    BY <1>1, <1>2, Last1
  <1>6. Min(solid) = 1 /\ Max(solid) = n
    <2>1. PICK a, b : a = Min(solid) /\ b = Max(solid)
      OBVIOUS
    <2>2. a \in 1..n /\ b \in 1..n /\ a <= 1 /\ n <= b
      BY <1>2, <1>4, <1>5, <2>1
    <2> QED BY <2>1, <2>2
  <1>7. SubSeq(q, 1, n) = q
    <2>1. PICK t : t = SubSeq(q, 1, n)
      OBVIOUS
    <2>2. t \in Seq(Chars) /\ Len(t) = n /\ \A i \in 1..n : t[i] = q[i]
      BY <1>1, <2>1
    <2> QED BY <1>1, <2>1, <2>2, SamePath
  <1> QED BY <1>2, <1>3, <1>6, <1>7

LEMMA TrimmedEnds ==
  ASSUME NEW Chars, NEW q \in Seq(Chars), q # <<>>, q = TrimSpace(q)
  PROVE  q[1] \notin Blanks /\ q[Len(q)] \notin Blanks
  <1> DEFINE solid == {i \in DOMAIN q : q[i] \notin Blanks}
  <1>1. PICK n \in Nat : n = Len(q) /\ n > 0
    OBVIOUS
  <1>2. solid \in SUBSET (1..n) /\ solid \in SUBSET Nat /\ \A i \in solid : q[i] \notin Blanks
    BY <1>1
  <1>3. q = IF solid = {} THEN <<>> ELSE SubSeq(q, Min(solid), Max(solid))
    BY DEF TrimSpace
  <1> HIDE DEF solid
  <1>0. solid # {}
    BY <1>3
  <1>4. Min(solid) \in solid
    BY <1>0, <1>2, FirstOf
  <1>5. Max(solid) \in solid /\ \A i \in solid : i <= Max(solid)
    BY <1>0, <1>1, <1>2, Last1
  <1>6. PICK a, b : a = Min(solid) /\ b = Max(solid)
    OBVIOUS
  <1>7. a \in 1..n /\ b \in 1..n /\ a <= b
    BY <1>2, <1>4, <1>5, <1>6
  <1>8. Len(SubSeq(q, a, b)) = b - a + 1
    <2>1. a \in Nat /\ b \in Nat /\ 1 <= a /\ b <= Len(q) /\ a <= b + 1
      BY <1>1, <1>7
    <2> QED BY <2>1, Slice
  <1>9. n = b - a + 1
    <2>1. q = SubSeq(q, a, b)
      BY <1>0, <1>3, <1>6
    <2> QED BY <1>1, <1>8, <2>1
  <1>10. a = 1 /\ b = n
    BY <1>7, <1>9
  <1> QED BY <1>1, <1>2, <1>4, <1>5, <1>6, <1>10

\* The lines of a pattern file.
Ends(file) == {0, Len(file) + 1} \cup {i \in DOMAIN file : file[i] = "\n"}
LineAt(file, i) == TrimSpace(SubSeq(file, i + 1, Min({j \in Ends(file) : j > i}) - 1))
IsLine(Chars, l) == l \in Seq(Chars) /\ l # <<>> /\ TrimSpace(l) = l /\ \A j \in 1..Len(l) : l[j] # "$" /\ l[j] # "\n"

LEMMA FileLines ==
  \A file : FilePatterns(file) = {Expand(LineAt(file, i)) : i \in {i \in Ends(file) \ {Len(file) + 1} : LineAt(file, i) # <<>>}}
  BY DEF FilePatterns, Ends, LineAt

LEMMA NothingExpanded ==
  ASSUME NEW Chars, NEW l, IsLine(Chars, l)
  PROVE  Expand(l) = l
  <1> DEFINE keep == [i \in DOMAIN l |-> l[i] # "$"]
  <1>1. l \in Seq(Chars) /\ keep \in [DOMAIN l -> BOOLEAN] /\ DOMAIN l = 1..Len(l)
    BY DEF IsLine
  <1>2. \A i \in DOMAIN l : keep[i]
    BY <1>1 DEF IsLine
  <1>3. Expand(l) = KeptOf(l, keep)
    BY DEF Expand
  <1> HIDE DEF keep
  <1> QED BY <1>1, <1>2, <1>3, KeptWhole

\* restic reads the lines that were written.
LEMMA LinesArrive ==
  ASSUME NEW Chars, "\n" \in Chars, NEW ls \in Seq(Seq(Chars)), \A i \in DOMAIN ls : IsLine(Chars, ls[i])
  PROVE  FilePatterns(FlattenSeq([i \in DOMAIN ls |-> Append(ls[i], "\n")])) = Range(ls)
  <1> DEFINE m == Len(ls)
             ss == [i \in DOMAIN ls |-> Append(ls[i], "\n")]
  <1>1. m \in Nat /\ DOMAIN ls = 1..m /\ \A i \in 1..m : ls[i] \in Seq(Chars) /\ Len(ls[i]) \in Nat
    OBVIOUS
  <1>2. \A l \in Seq(Chars) : /\ Append(l, "\n") \in Seq(Chars) /\ Len(Append(l, "\n")) = Len(l) + 1
                              /\ Append(l, "\n")[Len(l) + 1] = "\n" /\ \A j \in 1..Len(l) : Append(l, "\n")[j] = l[j]
    OBVIOUS
  <1>3. ss \in Seq(Seq(Chars)) /\ Len(ss) = m /\ \A i \in 1..m : ss[i] = Append(ls[i], "\n")
    <2>1. \A i \in 1..m : ss[i] = Append(ls[i], "\n")
      BY <1>1
    <2>2. ss = [i \in 1..m |-> ss[i]]
      BY <1>1
    <2>3. PICK W : W = Seq(Chars)
      OBVIOUS
    <2> HIDE DEF m, ss
    <2>4. \A i \in 1..m : ss[i] \in W
      BY <1>1, <1>2, <2>1, <2>3
    <2>5. ss \in [1..m -> W]
      BY <2>2, <2>4
    <2>6. \A f \in [1..m -> W] : f \in Seq(W) /\ Len(f) = m
      BY ONLY <1>1
    <2> QED BY <2>1, <2>3, <2>5, <2>6
  <1>4. PICK file : file = FlattenSeq(ss)
    OBVIOUS
  <1> HIDE DEF m, ss
  <1>5. PICK o : file \in Seq(Chars) /\ IsLaidOut(file, ss, o)
    BY <1>3, <1>4, LaidOut
  <1>6. PICK n \in Nat : n = Len(file) /\ n = o[m] /\ DOMAIN file = 1..n
    BY <1>3, <1>5 DEF IsLaidOut
  <1>7. \A i \in 0..m : o[i] \in Nat
    BY <1>3, <1>5 DEF IsLaidOut
  <1>8. \A i \in 1..m : i - 1 \in 0..m /\ i \in 0..m
    BY <1>1
  <1>9. ASSUME NEW i \in 1..m
        PROVE  /\ o[i] = o[i - 1] + Len(ls[i]) + 1 /\ o[i] <= n /\ file[o[i]] = "\n" /\ o[i] \in 1..n
               /\ \A j \in 1..Len(ls[i]) : file[o[i - 1] + j] = ls[i][j]
    <2>1. PICK l : l = ls[i]
      OBVIOUS
    <2>2. l \in Seq(Chars) /\ ss[i] = Append(l, "\n")
      BY <1>1, <1>3, <2>1
    <2>3. PICK s : s = ss[i]
      OBVIOUS
    <2>4. PICK c \in Nat : c = Len(l)
      BY <1>1, <2>1
    <2>5. Len(s) = c + 1 /\ s[c + 1] = "\n" /\ \A j \in 1..c : s[j] = l[j]
      BY <1>2, <2>2, <2>3, <2>4
    <2>6. o[i] = o[i - 1] + Len(s) /\ o[i] <= n /\ \A j \in 1..Len(s) : file[o[i - 1] + j] = s[j]
      BY <1>3, <1>5, <1>6, <2>3 DEF IsLaidOut
    <2>7. PICK a, b \in Nat : a = o[i - 1] /\ b = o[i] /\ b = a + (c + 1)
      BY <1>7, <1>8, <2>5, <2>6
    <2>8. c + 1 \in 1..(c + 1) /\ b = a + c + 1 /\ b >= 1 /\ \A j \in 1..c : j \in 1..(c + 1)
      BY <2>7
    <2>9. file[b] = "\n" /\ \A j \in 1..c : file[a + j] = l[j]
      BY <2>5, <2>6, <2>7, <2>8
    <2>10. b \in 1..n
      BY <2>6, <2>7, <2>8
    <2> QED BY <2>1, <2>4, <2>6, <2>7, <2>8, <2>9, <2>10
  <1>10. \A i \in 1..m : Len(ls[i]) > 0 /\ \A j \in 1..Len(ls[i]) : ls[i][j] # "$" /\ ls[i][j] # "\n"
    <2>1. ASSUME NEW i \in 1..m PROVE Len(ls[i]) > 0
      <3>1. PICK l : l = ls[i]
        OBVIOUS
      <3>2. l \in Seq(Chars) /\ l # <<>>
        BY <1>1, <3>1 DEF IsLine
      <3> QED BY ONLY <3>1, <3>2
    <2> QED BY <1>1, <2>1 DEF IsLine
  \* The sections do not overlap.
  <1> DEFINE Q == {k \in 0..m : \A i \in 0..m : i < k => o[i] < o[k]}
  <1>11. 0 \in Q
    BY <1>1
  <1>12. ASSUME NEW j \in 0..(m - 1), j \in Q PROVE j + 1 \in Q
    <2>1. PICK k : k = j + 1
      OBVIOUS
    <2>2. k \in 1..m /\ k - 1 = j /\ k \in 0..m /\ j \in 0..m
      BY <1>1, <2>1
    <2>3. o[j] < o[k]
      <3>1. PICK a, b, c \in Nat : a = o[j] /\ b = o[k] /\ c = Len(ls[k])
        BY <1>1, <1>7, <2>2
      <3>2. b = a + c + 1
        BY <1>9, <2>2, <3>1
      <3> QED BY <3>1, <3>2
    <2>4. ASSUME NEW i \in 0..m, i < k PROVE o[i] < o[k]
      <3>1. i = j \/ i < j
        BY <2>1, <2>4
      <3> QED BY <1>7, <1>12, <2>2, <2>3, <3>1
    <2> QED BY <2>1, <2>2, <2>4
  <1> HIDE DEF Q
  <1>13. \A k \in 0..m : k \in Q
    BY ONLY <1>1, <1>11, <1>12, Induction
  <1>14. \A k \in 0..m : \A i \in 0..m : i < k => o[i] < o[k]
    BY <1>13 DEF Q
  <1>15. ASSUME NEW q \in 1..n, file[q] = "\n" PROVE \E i \in 1..m : q = o[i]
    <2>1. PICK i \in 1..m : \E j \in 1..Len(ss[i]) : q = o[i - 1] + j
      BY <1>3, <1>5, <1>6 DEF IsLaidOut
    <2>2. PICK j \in 1..Len(ss[i]) : q = o[i - 1] + j
      BY <2>1
    <2>3. PICK c \in Nat : c = Len(ls[i]) /\ Len(ss[i]) = c + 1
      BY <1>1, <1>2, <1>3
    <2>4. j \in 1..c \/ j = c + 1
      BY <2>3
    <2>5. CASE j \in 1..c
      BY <1>9, <1>10, <1>15, <2>2, <2>3, <2>5
    <2>6. CASE j = c + 1
      <3>1. o[i - 1] + (c + 1) = o[i - 1] + c + 1
        BY <1>7, <1>8
      <3> QED BY <1>9, <2>2, <2>3, <2>6, <3>1
    <2> QED BY <2>4, <2>5, <2>6
  <1>16. Ends(file) = {o[i] : i \in 0..m} \cup {n + 1}
    <2>1. o[0] = 0 /\ 0 \in 0..m
      BY <1>1, <1>5 DEF IsLaidOut
    <2>2. Ends(file) = {0, n + 1} \cup {i \in 1..n : file[i] = "\n"}
      BY <1>6 DEF Ends
    <2>3. \A i \in 0..m : i = 0 \/ i \in 1..m
      BY <1>1
    <2>4. ASSUME NEW i \in 0..m PROVE o[i] \in Ends(file)
      BY <1>9, <2>1, <2>2, <2>3
    <2>5. ASSUME NEW e \in Ends(file) PROVE e \in {o[i] : i \in 0..m} \cup {n + 1}
      BY <1>8, <1>15, <2>1, <2>2
    <2> QED BY <2>2, <2>4, <2>5
  \* The line after the end of the one before it.
  <1>17. ASSUME NEW k \in 1..m PROVE LineAt(file, o[k - 1]) = ls[k]
    <2>1. PICK a, b \in Nat : a = o[k - 1] /\ b = o[k] /\ b <= n /\ a < b
      <3>1. PICK a, b \in Nat : a = o[k - 1] /\ b = o[k]
        BY <1>7, <1>8
      <3>2. k - 1 < k
        BY <1>1
      <3>3. b <= n /\ a < b
        BY <1>8, <1>9, <1>14, <3>1, <3>2
      <3> QED BY <3>1, <3>3
    <2> DEFINE E == {j \in Ends(file) : j > a}
    <2>2. b \in E
      BY <1>8, <1>16, <2>1
    <2>3. ASSUME NEW e \in E PROVE b <= e
      <3>1. CASE e = n + 1
        BY <1>6, <2>1, <3>1
      <3>2. CASE e # n + 1
        <4>1. PICK i \in 0..m : e = o[i] /\ e > a
          BY <1>16, <3>2
        <4>2. i >= k
          <5>1. i = k - 1 \/ i < k - 1 \/ i >= k
            BY <1>1
          <5>2. i < k - 1 => o[i] < a
            BY <1>8, <1>14, <2>1
          <5>3. PICK x \in Nat : x = o[i] /\ x > a
            BY <1>7, <4>1
          <5>4. i # k - 1 /\ ~(i < k - 1)
            BY <2>1, <5>2, <5>3
          <5> QED BY <5>1, <5>4
        <4>3. i = k \/ k < i
          BY <1>1, <4>2
        <4> QED BY <1>7, <1>8, <1>14, <2>1, <4>1, <4>3
      <3> QED BY <3>1, <3>2
    <2>4. E \in SUBSET Nat
      BY <1>6, <1>7, <1>16
    <2> HIDE DEF E
    <2>5. Min(E) \in E /\ \A e \in E : Min(E) <= e
      BY <2>2, <2>4, FirstOf
    <2>6. Min(E) = b
      <3>1. PICK x \in Nat : x = Min(E)
        BY <2>4, <2>5
      <3>2. x <= b /\ b <= x
        BY <2>2, <2>3, <2>5, <3>1
      <3> QED BY <2>1, <3>1, <3>2
    <2>7. PICK t : t = SubSeq(file, a + 1, b - 1)
      OBVIOUS
    <2>8. PICK l : l = ls[k]
      OBVIOUS
    <2>9. PICK c \in Nat : c = Len(l) /\ b = a + c + 1
      BY <1>1, <1>9, <2>1, <2>8
    <2>10. t \in Seq(Chars) /\ Len(t) = c /\ \A i \in 1..c : t[i] = file[a + i]
      <3>1. PICK x, y \in Nat : x = a + 1 /\ y = b - 1
        <4>1. b - 1 \in Nat
          BY <1>7, <2>1, <2>9
        <4> QED BY <2>1, <4>1
      <3>2. 1 <= x /\ y <= Len(file) /\ x <= y + 1 /\ y - x + 1 = c /\ \A i \in 1..c : x + i - 1 = a + i
        <4>1. y - x + 1 = c /\ \A i \in 1..c : x + i - 1 = a + i
          <5>1. b = a + c + 1
            BY <2>9
          <5> QED BY ONLY <3>1, <5>1, a \in Nat, b \in Nat, c \in Nat, x \in Nat, y \in Nat
        <4>2. 1 <= x /\ y <= n /\ x <= y + 1
          <5>1. b <= n /\ a < b
            BY <2>1
          <5> QED BY ONLY <3>1, <5>1, a \in Nat, b \in Nat, n \in Nat, x \in Nat, y \in Nat
        <4> QED BY <1>6, <4>1, <4>2
      <3>3. SubSeq(file, x, y) \in Seq(Chars) /\ Len(SubSeq(file, x, y)) = y - x + 1 /\ \A i \in 1..(y - x + 1) : SubSeq(file, x, y)[i] = file[x + i - 1]
        BY <1>5, <3>2, Slice
      <3> QED BY <2>7, <3>1, <3>2, <3>3
    <2>11. l \in Seq(Chars) /\ \A i \in 1..c : file[a + i] = l[i]
      BY <1>1, <1>9, <2>1, <2>8, <2>9
    <2>12. t = l
      <3>1. Len(t) = Len(l) /\ \A i \in 1..Len(t) : t[i] = l[i]
        BY <2>9, <2>10, <2>11
      <3> QED BY ONLY <2>10, <2>11, <3>1, SamePath
    <2>13. TrimSpace(l) = l
      BY <1>1, <2>8 DEF IsLine
    <2>14. LineAt(file, a) = TrimSpace(SubSeq(file, a + 1, Min(E) - 1))
      BY DEF LineAt, E
    <2> QED BY <2>1, <2>6, <2>7, <2>8, <2>12, <2>13, <2>14
  <1>18. LineAt(file, n) = <<>>
    <2> DEFINE E == {j \in Ends(file) : j > n}
    <2>1. E = {n + 1}
      <3>1. \A i \in 0..m : o[i] <= n
        <4>1. \A i \in 0..m : i = m \/ i < m
          BY <1>1
        <4>2. m \in 0..m
          BY <1>1
        <4> QED BY <1>6, <1>7, <1>14, <4>1, <4>2
      <3>2. n + 1 > n /\ \A i \in 0..m : ~(o[i] > n)
        BY <1>6, <1>7, <3>1
      <3> QED BY <1>16, <3>2
    <2>2. Min(E) = n + 1
      <3>1. E \in SUBSET Nat /\ E # {}
        BY <2>1
      <3> HIDE DEF E
      <3> QED BY <2>1, <3>1, FirstOf
    <2>3. SubSeq(file, n + 1, (n + 1) - 1) = <<>>
      BY <1>5, <1>6
    <2>4. TrimSpace(<<>>) = <<>>
      BY DEF TrimSpace
    <2>5. LineAt(file, n) = TrimSpace(SubSeq(file, n + 1, Min(E) - 1))
      BY DEF LineAt
    <2> HIDE DEF E
    <2> QED BY <2>2, <2>3, <2>4, <2>5
  <1>19. \A k \in 1..m : ls[k] # <<>> /\ Expand(ls[k]) = ls[k]
    <2>1. \A k \in 1..m : IsLine(Chars, ls[k])
      BY <1>1
    <2>2. \A k \in 1..m : Expand(ls[k]) = ls[k]
      BY <2>1, NothingExpanded
    <2> QED BY <2>1, <2>2 DEF IsLine
  <1>20. \A i \in 0..m : o[i] # n + 1 /\ (o[i] = n \/ i + 1 \in 1..m)
    <2>1. \A i \in 0..m : i = m \/ i + 1 \in 1..m
      BY <1>1
    <2>2. \A i \in 0..m : o[i] <= n
      <3>1. \A i \in 0..m : i = m \/ i < m
        BY <1>1
      <3>2. m \in 0..m
        BY <1>1
      <3> QED BY <1>6, <1>7, <1>14, <3>1, <3>2
    <2>3. \A i \in 0..m : o[i] # n + 1
      BY <1>6, <1>7, <2>2
    <2> QED BY <1>6, <2>1, <2>3
  <1>21. ASSUME NEW x \in FilePatterns(file) PROVE x \in Range(ls)
    <2>1. PICK e \in Ends(file) : e # n + 1 /\ LineAt(file, e) # <<>> /\ x = Expand(LineAt(file, e))
      BY <1>6, FileLines
    <2>2. PICK i \in 0..m : e = o[i]
      BY <1>16, <2>1
    <2>3. PICK k : k = i + 1
      OBVIOUS
    <2>4. k \in 1..m /\ k - 1 = i
      BY <1>1, <1>18, <1>20, <2>1, <2>2, <2>3
    <2>5. x = ls[k]
      BY <1>17, <1>19, <2>1, <2>2, <2>4
    <2> QED BY <1>1, <2>4, <2>5 DEF Range
  <1>22. ASSUME NEW x \in Range(ls) PROVE x \in FilePatterns(file)
    <2>1. PICK k \in 1..m : x = ls[k]
      BY <1>1 DEF Range
    <2>2. o[k - 1] \in Ends(file) /\ o[k - 1] # n + 1
      BY <1>8, <1>16, <1>20
    <2>3. LineAt(file, o[k - 1]) # <<>> /\ x = Expand(LineAt(file, o[k - 1]))
      BY <1>17, <1>19, <2>1
    <2> QED BY <1>6, <2>2, <2>3, FileLines
  <1> QED BY <1>4, <1>21, <1>22 DEF ss

\* A pattern means the path it was made of.
LEMMA LiteralMeans ==
  ASSUME NEW Chars, "\\" \in Chars, NEW p \in Seq(Chars)
  PROVE  Meaning(LiteralIncludePattern(p)) = [wild |-> FALSE, path |-> p]
  <1>1. PICK t : t = LiteralIncludePattern(p)
    OBVIOUS
  <1>2. Read(t) = [quoted |-> FALSE, wild |-> FALSE, path |-> p]
    BY <1>1, LiteralRead
  <1>3. Meaning(t) = [wild |-> Read(t).wild, path |-> Read(t).path]
    BY ReadChosen
  <1> QED BY <1>1, <1>2, <1>3

\* A path that the file can hold, as the pattern it is in it.
LEMMA SafeIsLine ==
  ASSUME NEW Chars, "\\" \in Chars, NEW p \in Seq(Chars), p # <<>>, FileSafePattern(p), NEW t, t = LiteralIncludePattern(p)
  PROVE  IsLine(Chars, t)
  <1>1. /\ t \in Seq(Chars) /\ Len(t) > 0 /\ \A i \in 1..Len(t) : t[i] \in Range(p) \cup {"\\"}
        /\ t[1] \in {"\\", p[1]} /\ t[Len(t)] = p[Len(p)]
    BY LiteralShape
  <1>2. p = TrimSpace(p) /\ "$" \notin Range(p) /\ "\n" \notin Range(p)
    BY DEF FileSafePattern
  <1>3. p[1] \notin Blanks /\ p[Len(p)] \notin Blanks
    BY <1>2, TrimmedEnds
  <1>4. "\\" \notin Blanks
    BY DEF Blanks
  <1>5. TrimSpace(t) = t
    <2>1. t[1] \notin Blanks /\ t[Len(t)] \notin Blanks
      BY <1>1, <1>3, <1>4
    <2> QED BY ONLY <1>1, <2>1, TrimKeeps
  <1>6. \A j \in 1..Len(t) : t[j] # "$" /\ t[j] # "\n"
    BY <1>1, <1>2
  <1>7. t # <<>>
    BY <1>1
  <1> QED BY <1>1, <1>5, <1>6, <1>7 DEF IsLine

\* restic is told to restore the selected paths and nothing else, whatever characters
\* are in them and however many there are, and only several paths that do not fit on
\* the command line are refused (extract_tree.go, buildExtractTreeArgs, which refuses
\* an empty path, fileSafePattern and literalIncludePattern).
THEOREM PathsArrive ==
  ASSUME NEW Chars, {"\\", "\n"} \subseteq Chars, NEW includes \in Seq(Seq(Chars) \ {<<>>}), NEW maxBytes \in Nat
  PROVE  IncludesArrive(includes, maxBytes)
  <1> DEFINE n == Len(includes)
             lits == Literals(includes)
             safe == [i \in DOMAIN includes |-> FileSafePattern(includes[i])]
             unsafe == [i \in DOMAIN includes |-> ~safe[i]]
             argv == KeptOf(lits, unsafe)
             lines == KeptOf(lits, safe)
             file == FlattenSeq([i \in DOMAIN lines |-> Append(lines[i], "\n")])
             Told(as, f) == {Meaning(p) : p \in Range(as) \cup FilePatterns(f)}
             paths == {[wild |-> FALSE, path |-> p] : p \in Range(includes)}
  <1>1. "\\" \in Chars /\ "\n" \in Chars
    OBVIOUS
  <1>2. n \in Nat /\ DOMAIN includes = 1..n /\ \A i \in 1..n : includes[i] \in Seq(Chars) /\ includes[i] # <<>>
    <2>1. PICK W : W = Seq(Chars) \ {<<>>}
      OBVIOUS
    <2>2. includes \in Seq(W)
      BY <2>1
    <2>3. n \in Nat /\ DOMAIN includes = 1..n /\ \A i \in 1..n : includes[i] \in W
      BY ONLY <2>2
    <2> QED BY <2>1, <2>3
  <1>3. BuildExtractTreeArgs(includes, maxBytes) =
           IF n = 1 THEN [refused |-> FALSE, argv |-> lits, file |-> <<>>]
           ELSE IF Bytes(argv) > maxBytes THEN [refused |-> TRUE, argv |-> <<>>, file |-> <<>>]
           ELSE [refused |-> FALSE, argv |-> argv, file |-> file]
    BY DEF BuildExtractTreeArgs
  <1>4. \A i \in 1..n : lits[i] = LiteralIncludePattern(includes[i])
    BY <1>2 DEF Literals
  <1>5. DOMAIN lits = 1..n /\ lits = [i \in 1..n |-> lits[i]]
    BY <1>2 DEF Literals
  <1>6. safe \in [1..n -> BOOLEAN] /\ unsafe \in [1..n -> BOOLEAN] /\ \A i \in 1..n : safe[i] <=> FileSafePattern(includes[i])
    <2>1. \A i \in 1..n : FileSafePattern(includes[i]) \in BOOLEAN
      BY DEF FileSafePattern
    <2> HIDE DEF n
    <2> QED BY <1>2, <2>1
  <1>7. \A i \in 1..n : unsafe[i] <=> ~safe[i]
    BY <1>2
  <1>8. IncludesArrive(includes, maxBytes) <=>
           LET args == BuildExtractTreeArgs(includes, maxBytes)
           IN  IF args.refused THEN n > 1 /\ maxBytes < Bytes(lits) ELSE Told(args.argv, args.file) = paths
    BY DEF IncludesArrive
  <1> HIDE DEF n, lits, safe, unsafe, Told
  <1>9. \A i \in 1..n : lits[i] \in Seq(Chars) /\ Meaning(lits[i]) = [wild |-> FALSE, path |-> includes[i]]
    <2>1. ASSUME NEW i \in 1..n PROVE lits[i] \in Seq(Chars) /\ Meaning(lits[i]) = [wild |-> FALSE, path |-> includes[i]]
      <3>1. PICK p : p = includes[i]
        OBVIOUS
      <3>2. p \in Seq(Chars) /\ p # <<>> /\ lits[i] = LiteralIncludePattern(p)
        BY <1>2, <1>4, <3>1
      <3>3. Meaning(LiteralIncludePattern(p)) = [wild |-> FALSE, path |-> p]
        BY <1>1, <3>2, LiteralMeans
      <3>4. LiteralIncludePattern(p) \in Seq(Chars)
        BY <1>1, <3>2, LiteralShape
      <3> QED BY <3>1, <3>2, <3>3, <3>4
    <2> QED BY <2>1
  <1>10. lits \in Seq(Seq(Chars)) /\ Len(lits) = n
    <2>1. PICK W : W = Seq(Chars)
      OBVIOUS
    <2>2. lits \in [1..n -> W]
      BY <1>5, <1>9, <2>1
    <2>3. n \in Nat
      BY <1>2
    <2>4. \A f \in [1..n -> W] : f \in Seq(W) /\ Len(f) = n
      BY ONLY <2>3
    <2> QED BY <2>1, <2>2, <2>4
  <1>11. \A as, f : Range(as) \cup FilePatterns(f) = {lits[i] : i \in 1..n} => Told(as, f) = paths
    <2> SUFFICES ASSUME NEW as, NEW f, Range(as) \cup FilePatterns(f) = {lits[i] : i \in 1..n} PROVE Told(as, f) = paths
      OBVIOUS
    <2>1. Range(includes) = {includes[i] : i \in 1..n}
      BY <1>2 DEF Range
    <2>2. Told(as, f) = {Meaning(lits[i]) : i \in 1..n}
      BY DEF Told
    <2>3. {Meaning(lits[i]) : i \in 1..n} = {[wild |-> FALSE, path |-> includes[i]] : i \in 1..n}
      BY <1>9
    <2>4. paths = {[wild |-> FALSE, path |-> includes[i]] : i \in 1..n}
      BY <2>1
    <2> HIDE DEF paths
    <2> QED BY ONLY <2>2, <2>3, <2>4
  <1> HIDE DEF paths
  <1>12. ASSUME NEW ls \in Seq(Seq(Chars)), \A l \in Range(ls) : IsLine(Chars, l)
         PROVE  FilePatterns(FlattenSeq([i \in DOMAIN ls |-> Append(ls[i], "\n")])) = Range(ls)
    <2>1. \A i \in DOMAIN ls : IsLine(Chars, ls[i])
      BY <1>12 DEF Range
    <2> QED BY <1>1, <2>1, LinesArrive
  <1>13. CASE n = 1
    <2>2. FilePatterns(<<>>) = {}
      <3>0. \A W : <<>> \in Seq(W)
        OBVIOUS
      <3>1. PICK ls \in Seq(Seq(Chars)) : ls = <<>>
        BY <3>0
      <3>2. Range(ls) = {} /\ DOMAIN ls = {}
        BY <3>1 DEF Range
      <3>3. FilePatterns(FlattenSeq([i \in DOMAIN ls |-> Append(ls[i], "\n")])) = {}
        BY <1>12, <3>2
      <3>4. [i \in DOMAIN ls |-> Append(ls[i], "\n")] = <<>>
        BY <3>2
      <3>5. FlattenSeq(<<>>) = <<>>
        BY DEF FlattenSeq
      <3> QED BY <3>3, <3>4, <3>5
    <2>3. Range(lits) = {lits[i] : i \in 1..n}
      BY <1>5 DEF Range
    <2>4. Told(lits, <<>>) = paths
      BY <1>11, <2>2, <2>3
    <2> QED BY <1>3, <1>8, <1>13, <2>4
  <1>14. CASE n # 1
    <2>1. argv \in Seq(Seq(Chars)) /\ Range(argv) = {lits[i] : i \in {i \in 1..n : unsafe[i]}}
      <3>1. PICK W : W = Seq(Chars)
        OBVIOUS
      <3>2. lits \in Seq(W) /\ unsafe \in [DOMAIN lits -> BOOLEAN]
        BY <1>5, <1>6, <1>10, <3>1
      <3>3. KeptOf(lits, unsafe) \in Seq(W) /\ Range(KeptOf(lits, unsafe)) = {lits[i] : i \in {i \in DOMAIN lits : unsafe[i]}}
        BY ONLY <3>2, KeptRange
      <3> QED BY <1>5, <3>1, <3>3
    <2>2. lines \in Seq(Seq(Chars)) /\ Range(lines) = {lits[i] : i \in {i \in 1..n : safe[i]}}
      <3>1. PICK W : W = Seq(Chars)
        OBVIOUS
      <3>2. lits \in Seq(W) /\ safe \in [DOMAIN lits -> BOOLEAN]
        BY <1>5, <1>6, <1>10, <3>1
      <3>3. KeptOf(lits, safe) \in Seq(W) /\ Range(KeptOf(lits, safe)) = {lits[i] : i \in {i \in DOMAIN lits : safe[i]}}
        BY ONLY <3>2, KeptRange
      <3> QED BY <1>5, <3>1, <3>3
    <2>3. Bytes(argv) \in Nat /\ Bytes(lits) \in Nat /\ Bytes(argv) <= Bytes(lits)
      BY <1>5, <1>6, <1>10, KeptBytes
    <2> HIDE DEF argv, lines
    <2>4. ASSUME NEW i \in 1..n, safe[i] PROVE IsLine(Chars, lits[i])
      <3>1. PICK p : p = includes[i]
        OBVIOUS
      <3>2. p \in Seq(Chars) /\ p # <<>> /\ lits[i] = LiteralIncludePattern(p) /\ FileSafePattern(p)
        BY <1>2, <1>4, <1>6, <2>4, <3>1
      <3> QED BY <1>1, <3>2, SafeIsLine
    <2>5. FilePatterns(file) = Range(lines)
      BY <1>12, <2>2, <2>4
    <2> HIDE DEF file
    <2>6. Told(argv, file) = paths
      <3>1. Range(argv) \cup Range(lines) = {lits[i] : i \in 1..n}
        BY <1>7, <2>1, <2>2
      <3> QED BY <1>11, <2>5, <3>1
    <2>7. ASSUME Bytes(argv) > maxBytes PROVE n > 1 /\ maxBytes < Bytes(lits)
      <3>1. maxBytes < Bytes(lits)
        BY <2>3, <2>7
      <3>2. n # 0
        <4> SUFFICES ASSUME n = 0 PROVE FALSE
          OBVIOUS
        <4>1. lits = <<>>
          BY <1>10
        <4>2. Bytes(<<>>) = 0
          <5>0. \A W : <<>> \in Seq(W)
            OBVIOUS
          <5>1. PICK t \in Seq(Nat) : t = <<>>
            BY <5>0
          <5>2. PICK h \in [0..Len(t) -> Nat] : h[0] = 0 /\ Summed(t) = h[Len(t)]
            BY SumIterates
          <5>3. Summed(t) = 0
            BY <5>1, <5>2
          <5>4. PICK e : e = <<>>
            OBVIOUS
          <5>5. [i \in DOMAIN e |-> Len(e[i]) + Overhead] = <<>>
            BY <5>4
          <5>6. Bytes(e) = Summed([i \in DOMAIN e |-> Len(e[i]) + Overhead])
            BY DEF Bytes, Summed
          <5> QED BY <5>1, <5>3, <5>4, <5>5, <5>6
        <4> QED BY <3>1, <4>1, <4>2
      <3> QED BY <1>2, <1>14, <3>1, <3>2
    <2>8. CASE Bytes(argv) > maxBytes
      BY <1>3, <1>8, <1>14, <2>7, <2>8
    <2>9. CASE ~(Bytes(argv) > maxBytes)
      BY <1>3, <1>8, <1>14, <2>6, <2>9
    <2> QED BY <2>8, <2>9
  <1> QED BY <1>13, <1>14

-----------------------------------------------------------------------------
(* Pruning the cache.                                                      *)

SizeOf(entries, I) == MapThenSumSet(LAMBDA i : entries[i].size, I)

NamesOf(entries, I) == {entries[i].name : i \in I}

DirsOf(entries) == {i \in DOMAIN entries : entries[i].isDir}

ChosenIn(entries, known, all) == {i \in DirsOf(entries) : all \/ entries[i].name \notin known}

StopsOf(entries, known, all, dryRun, trouble) ==
    {i \in DOMAIN entries : i = trouble.at /\
       \/ trouble.what = "canceled"
       \/ trouble.what = "unreadable" /\ i \in DirsOf(entries)
       \/ trouble.what = "not removed" /\ i \in ChosenIn(entries, known, all) /\ ~dryRun}

WalkedBy(entries, stops) == {i \in DirsOf(entries) : \A s \in stops : i < s}

ReportOf(entries, chosen, walked) == {[name |-> entries[i].name, isPruned |-> i \in chosen] : i \in walked}

\* Whatever is in the cache, however many repositories share a cache directory and
\* whatever goes wrong where: without --all no configured repository loses its
\* cache, and the report is of what was removed (prune.go, PruneCache).
THEOREM PruneExact ==
  ASSUME NEW Names, NEW entries, entries \in Seq([name : Names, isDir : BOOLEAN, size : Nat]),
         \A i, j \in DOMAIN entries : entries[i].name = entries[j].name => i = j,
         NEW repos, NEW cacheName, NEW all, NEW trouble
  PROVE  PruneIsExact(entries, repos, cacheName, all, trouble)
  <1>1. PICK known : known = KnownCacheNames(repos, cacheName)
    OBVIOUS
  <1>2. PICK chosen : chosen = ChosenIn(entries, known, all)
    OBVIOUS
  <1>3. PICK stops : stops = StopsOf(entries, known, all, FALSE, trouble)
    OBVIOUS
  <1>4. PICK stopsDry : stopsDry = StopsOf(entries, known, all, TRUE, trouble)
    OBVIOUS
  <1>5. PICK walked : walked = WalkedBy(entries, stops)
    OBVIOUS
  <1>6. PICK walkedDry : walkedDry = WalkedBy(entries, stopsDry)
    OBVIOUS
  <1>7. PICK done : done = PruneCache(entries, known, all, FALSE, trouble)
    OBVIOUS
  <1>8. PICK dry : dry = PruneCache(entries, known, all, TRUE, trouble)
    OBVIOUS
  <1>9. PICK freed : freed = SizeOf(entries, chosen \cap walked)
    OBVIOUS
  <1>10. PICK torn : torn = NamesOf(entries, {i \in stops : trouble.what = "not removed"})
    OBVIOUS
  <1>11. PICK removed : removed = NamesOf(entries, chosen \cap walked)
    OBVIOUS
  <1>12. PICK report : report = ReportOf(entries, chosen, walked)
    OBVIOUS
  <1>13. done = [failed |-> stops # {}, entries |-> report, freed |-> freed, removed |-> removed, torn |-> torn]
    BY ONLY <1>2, <1>3, <1>5, <1>7, <1>9, <1>10, <1>11, <1>12
       DEF PruneCache, ChosenIn, StopsOf, WalkedBy, DirsOf, ReportOf, SizeOf, NamesOf
  <1>14. dry = [failed |-> stopsDry # {}, entries |-> ReportOf(entries, chosen, walkedDry),
                freed |-> SizeOf(entries, chosen \cap walkedDry), removed |-> {},
                torn |-> NamesOf(entries, {i \in stopsDry : trouble.what = "not removed"})]
    BY ONLY <1>2, <1>4, <1>6, <1>8
       DEF PruneCache, ChosenIn, StopsOf, WalkedBy, DirsOf, ReportOf, SizeOf, NamesOf
  <1>15. /\ (done.failed <=> stops # {}) /\ done.entries = report /\ done.freed = freed
         /\ done.removed = removed /\ done.torn = torn
    BY ONLY <1>13
  <1>16. chosen \subseteq DOMAIN entries /\ walked \subseteq DOMAIN entries /\ stops \subseteq DOMAIN entries
    BY ONLY <1>2, <1>3, <1>5 DEF ChosenIn, WalkedBy, StopsOf, DirsOf
  <1>17. \A i \in DOMAIN entries : i \in Nat
    OBVIOUS
  <1>18. \A i \in stops : trouble.what = "not removed" => i \in chosen
    BY ONLY <1>2, <1>3 DEF StopsOf
  <1>19. \A x : x \in removed <=> \E i \in walked : i \in chosen /\ x = entries[i].name
    BY ONLY <1>11 DEF NamesOf
  <1>20. \A x : x \in torn <=> \E i \in stops : trouble.what = "not removed" /\ x = entries[i].name
    BY ONLY <1>10 DEF NamesOf
  <1>21. ASSUME ~all, NEW r \in repos PROVE cacheName[r] \notin done.removed \cup done.torn
    <2>1. cacheName[r] \in known
      BY ONLY <1>1, <1>21 DEF KnownCacheNames
    <2>2. \A i \in chosen : entries[i].name \notin known
      BY ONLY <1>2, <1>21 DEF ChosenIn
    <2> QED BY ONLY <1>15, <1>18, <1>19, <1>20, <2>1, <2>2
  <1>22. done.removed = {e.name : e \in {e \in done.entries : e.isPruned}}
    <2>1. PICK pruned : pruned = {e.name : e \in {e \in report : e.isPruned}}
      OBVIOUS
    <2>2. ASSUME NEW x PROVE x \in pruned <=> \E i \in walked : i \in chosen /\ x = entries[i].name
      <3>1. x \in pruned <=> \E e \in report : e.isPruned /\ x = e.name
        BY ONLY <2>1
      <3>2. (\E e \in report : e.isPruned /\ x = e.name) <=> \E i \in walked : i \in chosen /\ x = entries[i].name
        <4>1. ASSUME NEW e \in report, e.isPruned, x = e.name
              PROVE  \E i \in walked : i \in chosen /\ x = entries[i].name
          <5>1. PICK i \in walked : e = [name |-> entries[i].name, isPruned |-> i \in chosen]
            BY ONLY <1>12, <4>1 DEF ReportOf
          <5>2. i \in chosen /\ x = entries[i].name
            BY ONLY <4>1, <5>1
          <5> QED BY ONLY <5>2, i \in walked
        <4>2. ASSUME NEW i \in walked, i \in chosen, x = entries[i].name
              PROVE  \E e \in report : e.isPruned /\ x = e.name
          <5>1. PICK e : e = [name |-> entries[i].name, isPruned |-> i \in chosen]
            OBVIOUS
          <5>2. e \in report
            BY ONLY <1>12, <5>1, i \in walked DEF ReportOf
          <5>3. e.isPruned /\ x = e.name
            BY ONLY <4>2, <5>1
          <5> QED BY ONLY <5>2, <5>3
        <4> QED BY ONLY <4>1, <4>2
      <3> QED BY ONLY <3>1, <3>2
    <2>3. pruned = removed
      BY ONLY <1>19, <2>2
    <2> QED BY ONLY <1>15, <2>1, <2>3
  <1>23. done.torn \cap done.removed = {}
    <2>1. \A i \in stops, j \in walked : i # j
      BY ONLY <1>5, <1>16, <1>17 DEF WalkedBy
    <2>2. \A i \in stops, j \in walked : entries[i].name # entries[j].name
      BY <1>16, <2>1
    <2>3. torn \cap removed = {}
      <3>1. ASSUME NEW x, x \in torn, x \in removed PROVE FALSE
        <4>1. PICK i \in stops : x = entries[i].name
          BY ONLY <1>20, <3>1
        <4>2. PICK j \in walked : x = entries[j].name
          BY ONLY <1>19, <3>1
        <4> QED BY ONLY <2>2, <4>1, <4>2
      <3> QED BY ONLY <3>1
    <2> QED BY ONLY <1>15, <2>3
  <1>24. done.freed = SizeOf(entries, {i \in DOMAIN entries : entries[i].name \in done.removed})
    <2>1. \A i \in DOMAIN entries : entries[i].name \in removed <=> i \in chosen \cap walked
      <3>1. ASSUME NEW i \in DOMAIN entries, entries[i].name \in removed PROVE i \in chosen \cap walked
        <4>1. PICK j \in walked : entries[i].name = entries[j].name /\ j \in chosen
          BY ONLY <1>19, <3>1
        <4> QED BY <1>16, <4>1
      <3> QED BY <1>16, <1>19, <3>1
    <2>2. {i \in DOMAIN entries : entries[i].name \in done.removed} = chosen \cap walked
      BY ONLY <1>15, <1>16, <2>1
    <2> QED BY ONLY <1>9, <1>15, <2>2
  <1>25. dry.removed = {}
    BY ONLY <1>14
  <1>26. ASSUME ~done.failed PROVE dry = [done EXCEPT !.removed = {}]
    <2>1. stops = {} /\ stopsDry = {}
      BY ONLY <1>3, <1>4, <1>15, <1>26 DEF StopsOf
    <2>2. walkedDry = walked
      BY ONLY <1>5, <1>6, <2>1
    <2>3. stopsDry = stops
      BY ONLY <2>1
    <2>4. dry = [failed |-> stops # {}, entries |-> report, freed |-> freed, removed |-> {}, torn |-> torn]
      BY ONLY <1>9, <1>10, <1>12, <1>14, <2>2, <2>3
    <2>5. [done EXCEPT !.removed = {}] = [failed |-> stops # {}, entries |-> report, freed |-> freed, removed |-> {}, torn |-> torn]
      BY ONLY <1>13
    <2> QED BY ONLY <2>4, <2>5
  <1>27. /\ ~all => \A r \in repos : cacheName[r] \notin done.removed \cup done.torn
         /\ done.removed = {e.name : e \in {e \in done.entries : e.isPruned}}
         /\ done.torn \cap {e.name : e \in {e \in done.entries : e.isPruned}} = {}
         /\ done.freed = SizeOf(entries, {i \in DOMAIN entries : entries[i].name \in done.removed})
         /\ dry.removed = {} /\ (~done.failed => dry = [done EXCEPT !.removed = {}])
    BY ONLY <1>21, <1>22, <1>23, <1>24, <1>25, <1>26
  <1> QED BY ONLY <1>1, <1>7, <1>8, <1>27 DEF PruneIsExact, SizeOf

-----------------------------------------------------------------------------
(* Sums of sizes. *)

Sized(S) == IsFiniteSet(S) /\ \A n \in S : n.size \in Nat
TotalSize(S) == MapThenSumSet(LAMBDA n : n.size, S)

\* What MapThenSumSet chooses, for all subsets at once.
AnyOf(T) == CHOOSE x \in T : TRUE
SumStep(F, T) == IF T = {} THEN 0 ELSE AnyOf(T).size + F[T \ {AnyOf(T)}]
IsSum(F, S) == F = [T \in SUBSET S |-> SumStep(F, T)]

LEMMA TotalIsChosen == \A S : TotalSize(S) = (CHOOSE F : IsSum(F, S))[S]
  BY DEF TotalSize, MapThenSumSet, MapThenFoldSet, IsSum, SumStep, AnyOf

LEMMA AnyMember == ASSUME NEW T, T # {} PROVE AnyOf(T) \in T
  BY DEF AnyOf

LEMMA Subsets ==
  ASSUME NEW S, Sized(S), NEW T \in SUBSET S
  PROVE  /\ Sized(T) /\ Cardinality(T) \in Nat /\ Cardinality(T) <= Cardinality(S)
         /\ Cardinality(T) = 0 <=> T = {}
         /\ \A x \in T : Cardinality(T \ {x}) = Cardinality(T) - 1
  <1>1. IsFiniteSet(T) /\ Cardinality(T) <= Cardinality(S)
    BY FS_Subset DEF Sized
  <1>2. Cardinality(T) \in Nat
    BY <1>1, FS_CardinalityType
  <1> QED BY <1>1, <1>2, FS_EmptySet, FS_RemoveElement DEF Sized

LEMMA SumExists ==
  ASSUME NEW S, Sized(S)
  PROVE  \E F : IsSum(F, S) /\ F \in [SUBSET S -> Nat]
  <1> DEFINE n == Cardinality(S) + 1
             V == [SUBSET S -> Nat]
             base == [T \in SUBSET S |-> 0]
             step == [p \in (1..n) \X V |-> [T \in SUBSET S |-> SumStep(p[2], T)]]
  <1>1. n \in Nat /\ Cardinality(S) \in Nat
    BY FS_CardinalityType DEF Sized
  <1>2. base \in V
    OBVIOUS
  <1>3. ASSUME NEW F \in V, NEW T \in SUBSET S PROVE SumStep(F, T) \in Nat
    <2>1. CASE T # {}
      <3>1. AnyOf(T) \in S /\ T \ {AnyOf(T)} \in SUBSET S
        BY <2>1, AnyMember
      <3>2. AnyOf(T).size \in Nat /\ F[T \ {AnyOf(T)}] \in Nat
        BY <3>1 DEF Sized
      <3> QED BY <2>1, <3>2 DEF SumStep
    <2> QED BY <2>1 DEF SumStep
  <1>4. IsStep(step, n, V)
    <2>1. ASSUME NEW p \in (1..n) \X V PROVE [T \in SUBSET S |-> SumStep(p[2], T)] \in V
      BY <1>3
    <2> QED BY <2>1 DEF IsStep
  <1>5. PICK f : Iterates(f, step, base, n, V)
    <2> HIDE DEF V, base, step, n
    <2> QED BY <1>1, <1>2, <1>4, Recursion
  <1>6. /\ f[0] = base
        /\ \A i \in 0..n : f[i] \in V
        /\ \A i \in 1..n : f[i] = [T \in SUBSET S |-> SumStep(f[i - 1], T)]
    <2>1. f \in [0..n -> V] /\ f[0] = base /\ \A i \in 1..n : f[i] = step[<<i, f[i - 1]>>]
      BY <1>5 DEF Iterates
    <2>2. \A i \in 0..n : f[i] \in V
      <3> HIDE DEF V, n
      <3> QED BY <2>1
    <2>3. ASSUME NEW i \in 1..n PROVE f[i] = [T \in SUBSET S |-> SumStep(f[i - 1], T)]
      <3>1. i - 1 \in 0..n
        BY <1>1
      <3>2. <<i, f[i - 1]>> \in (1..n) \X V
        BY <2>2, <3>1
      <3>3. step[<<i, f[i - 1]>>] = [T \in SUBSET S |-> SumStep(f[i - 1], T)]
        <4> HIDE DEF V, n
        <4> QED BY <3>2
      <3> HIDE DEF step, n
      <3> QED BY <2>1, <3>3
    <2> QED BY <2>1, <2>2, <2>3
  <1> HIDE DEF step, base
  \* What step i says of sets of at most i members is final.
  <1> DEFINE P == {i \in 0..(n - 1) : \A T \in SUBSET S : Cardinality(T) <= i => f[i + 1][T] = f[i][T]}
  <1>7. 0 \in P
    <2> SUFFICES ASSUME NEW T \in SUBSET S, Cardinality(T) <= 0 PROVE f[1][T] = f[0][T]
      BY <1>1
    <2>1. T = {}
      BY Subsets
    <2>2. f[1][T] = SumStep(f[0], T) /\ f[0][T] = 0
      <3>1. 1 \in 1..n /\ 1 - 1 = 0
        BY <1>1
      <3>2. f[1] = [U \in SUBSET S |-> SumStep(f[0], U)]
        BY <1>6, <3>1
      <3> QED BY <1>6, <3>2 DEF base
    <2> QED BY <2>1, <2>2 DEF SumStep
  <1>8. ASSUME NEW i \in 0..((n - 1) - 1), i \in P PROVE i + 1 \in P
    <2> SUFFICES ASSUME NEW T \in SUBSET S, Cardinality(T) <= i + 1 PROVE f[(i + 1) + 1][T] = f[i + 1][T]
      BY <1>1
    <2>1. /\ i + 1 \in 1..n /\ (i + 1) + 1 \in 1..n
          /\ (i + 1) - 1 = i /\ ((i + 1) + 1) - 1 = i + 1
      BY <1>1
    <2>2. f[(i + 1) + 1][T] = SumStep(f[i + 1], T) /\ f[i + 1][T] = SumStep(f[i], T)
      <3>1. \A k \in 1..n : f[k][T] = SumStep(f[k - 1], T)
        BY <1>6
      <3> HIDE DEF n
      <3> QED BY <2>1, <3>1
    <2>3. CASE T = {}
      BY <2>2, <2>3 DEF SumStep
    <2>4. CASE T # {}
      <3>1. AnyOf(T) \in T /\ T \ {AnyOf(T)} \in SUBSET S
        BY <2>4, AnyMember
      <3>2. Cardinality(T) \in Nat /\ Cardinality(T \ {AnyOf(T)}) = Cardinality(T) - 1
        BY <3>1, Subsets
      <3>3. Cardinality(T \ {AnyOf(T)}) <= i
        BY <3>2
      <3>4. f[i + 1][T \ {AnyOf(T)}] = f[i][T \ {AnyOf(T)}]
        BY <1>8, <3>1, <3>3
      <3> QED BY <2>2, <3>4 DEF SumStep
    <2> QED BY <2>3, <2>4
  <1>9. \A i \in 0..(n - 1) : i \in P
    <2>1. n - 1 \in Nat
      BY <1>1
    <2> HIDE DEF P, n
    <2> QED BY ONLY <1>7, <1>8, <2>1, Induction
  <1>10. ASSUME NEW T \in SUBSET S PROVE f[n - 1][T] = SumStep(f[n - 1], T)
    <2>1. n - 1 \in P /\ Cardinality(T) <= n - 1 /\ n \in 1..n /\ (n - 1) + 1 = n
      BY <1>1, <1>9, Subsets
    <2>2. f[n][T] = f[n - 1][T]
      BY <2>1
    <2> HIDE DEF n
    <2> QED BY <1>6, <2>1, <2>2
  <1>11. f[n - 1] \in [SUBSET S -> Nat]
    <2>1. n - 1 \in 0..n
      BY <1>1
    <2> HIDE DEF n
    <2> QED BY <1>6, <2>1
  <1>12. f[n - 1] = [T \in SUBSET S |-> f[n - 1][T]]
    BY <1>11
  <1> QED BY <1>10, <1>11, <1>12 DEF IsSum

\* A sum does not depend on the order in which the members are taken.
LEMMA SumFacts ==
  ASSUME NEW S, Sized(S), NEW F, IsSum(F, S)
  PROVE  \A T \in SUBSET S : F[T] \in Nat /\ \A x \in T : F[T] = x.size + F[T \ {x}]
  <1> DEFINE n == Cardinality(S)
             Good(T) == F[T] \in Nat /\ \A x \in T : F[T] = x.size + F[T \ {x}]
             P == {k \in 0..n : \A T \in SUBSET S : Cardinality(T) <= k => Good(T)}
  <1>1. n \in Nat
    BY FS_CardinalityType DEF Sized
  <1>2. \A T \in SUBSET S : F[T] = SumStep(F, T)
    BY DEF IsSum
  <1>3. Good({})
    <2>1. F[{}] = 0
      BY <1>2 DEF SumStep
    <2> QED BY <2>1
  <1> HIDE DEF Good
  <1>4. 0 \in P
    <2> SUFFICES ASSUME NEW T \in SUBSET S, Cardinality(T) <= 0 PROVE Good(T)
      BY <1>1
    <2>1. T = {}
      BY Subsets
    <2> QED BY <1>3, <2>1
  <1>5. ASSUME NEW k \in 0..(n - 1), k \in P PROVE k + 1 \in P
    <2> SUFFICES ASSUME NEW T \in SUBSET S, Cardinality(T) <= k + 1 PROVE Good(T)
      BY <1>1
    <2>1. \A U \in SUBSET S : Cardinality(U) <= k => Good(U)
      BY <1>5
    <2>2. \A x \in T : T \ {x} \in SUBSET S /\ Cardinality(T \ {x}) <= k
      BY Subsets
    <2>3. CASE T = {}
      BY <1>3, <2>3
    <2>4. CASE T # {}
      <3> DEFINE a == AnyOf(T)
      <3>1. a \in T
        BY <2>4, AnyMember
      <3>2. F[T] = a.size + F[T \ {a}]
        BY <1>2, <2>4 DEF SumStep
      <3> HIDE DEF a
      <3>3. \A x \in T : x.size \in Nat /\ F[T \ {x}] \in Nat
        BY <2>1, <2>2 DEF Sized, Good
      <3>4. ASSUME NEW x \in T, x # a PROVE F[T] = x.size + F[T \ {x}]
        <4>1. x \in T \ {a} /\ a \in T \ {x}
          BY <3>1, <3>4
        <4>2. F[T \ {a}] = x.size + F[(T \ {a}) \ {x}] /\ F[T \ {x}] = a.size + F[(T \ {x}) \ {a}]
          BY <2>1, <2>2, <3>1, <4>1 DEF Good
        <4>3. (T \ {a}) \ {x} = (T \ {x}) \ {a}
          OBVIOUS
        <4>4. (T \ {x}) \ {a} \in SUBSET S /\ Cardinality((T \ {x}) \ {a}) <= k
          <5>1. Cardinality((T \ {x}) \ {a}) = Cardinality(T \ {x}) - 1 /\ Cardinality(T \ {x}) \in Nat
            BY <2>2, <4>1, Subsets
          <5> QED BY <2>2, <5>1
        <4>5. F[(T \ {x}) \ {a}] \in Nat
          BY <2>1, <4>4 DEF Good
        <4>6. a.size \in Nat /\ x.size \in Nat
          BY <3>1, <3>3
        <4>7. F[T] = a.size + (x.size + F[(T \ {x}) \ {a}])
          BY ONLY <3>2, <4>2, <4>3
        <4>8. F[T \ {x}] = a.size + F[(T \ {x}) \ {a}]
          BY <4>2
        <4> QED BY ONLY <4>5, <4>6, <4>7, <4>8
      <3>5. F[T] \in Nat
        <4>1. a.size \in Nat /\ F[T \ {a}] \in Nat
          BY <3>1, <3>3
        <4> QED BY ONLY <3>2, <4>1
      <3> QED BY <3>2, <3>4, <3>5 DEF Good
    <2> QED BY <2>3, <2>4
  <1>6. \A k \in 0..n : k \in P
    <2> HIDE DEF P, n
    <2> QED BY ONLY <1>1, <1>4, <1>5, Induction
  <1> QED BY <1>1, <1>6, Subsets DEF Good

LEMMA SumsAgree ==
  ASSUME NEW S, Sized(S), NEW F, IsSum(F, S), NEW T \in SUBSET S, NEW G, IsSum(G, T)
  PROVE  \A U \in SUBSET T : F[U] = G[U]
  <1> DEFINE n == Cardinality(T)
             P == {k \in 0..n : \A U \in SUBSET T : Cardinality(U) <= k => F[U] = G[U]}
  <1>1. Sized(T) /\ n \in Nat
    BY Subsets
  <1>2. \A U \in SUBSET T : F[U] = SumStep(F, U) /\ G[U] = SumStep(G, U)
    BY DEF IsSum
  <1>3. 0 \in P
    <2> SUFFICES ASSUME NEW U \in SUBSET T, Cardinality(U) <= 0 PROVE F[U] = G[U]
      BY <1>1
    <2>1. U = {}
      BY <1>1, Subsets
    <2> QED BY <1>2, <2>1 DEF SumStep
  <1>4. ASSUME NEW k \in 0..(n - 1), k \in P PROVE k + 1 \in P
    <2> SUFFICES ASSUME NEW U \in SUBSET T, Cardinality(U) <= k + 1 PROVE F[U] = G[U]
      BY <1>1
    <2>1. CASE U = {}
      BY <1>2, <2>1 DEF SumStep
    <2>2. CASE U # {}
      <3>1. AnyOf(U) \in U
        BY <2>2, AnyMember
      <3>2. Cardinality(U \ {AnyOf(U)}) = Cardinality(U) - 1 /\ Cardinality(U) \in Nat
        BY <1>1, <3>1, Subsets
      <3>3. Cardinality(U \ {AnyOf(U)}) <= k /\ U \ {AnyOf(U)} \in SUBSET T
        BY <3>2
      <3>4. F[U \ {AnyOf(U)}] = G[U \ {AnyOf(U)}]
        BY <1>4, <3>3
      <3> QED BY <1>2, <2>2, <3>4 DEF SumStep
    <2> QED BY <2>1, <2>2
  <1>5. \A k \in 0..n : k \in P
    <2> HIDE DEF P, n
    <2> QED BY ONLY <1>1, <1>3, <1>4, Induction
  <1> QED BY <1>1, <1>5, Subsets

LEMMA TotalEmpty == TotalSize({}) = 0
  <1>1. Sized({})
    BY FS_EmptySet DEF Sized
  <1>2. \E F : IsSum(F, {})
    BY <1>1, SumExists
  <1>3. PICK F : IsSum(F, {}) /\ TotalSize({}) = F[{}]
    BY <1>2, TotalIsChosen
  <1> QED BY <1>3 DEF IsSum, SumStep

LEMMA TotalRemove ==
  ASSUME NEW S, Sized(S)
  PROVE  TotalSize(S) \in Nat /\ \A x \in S : TotalSize(S) = x.size + TotalSize(S \ {x})
  <1>1. \A T \in SUBSET S : \E F : IsSum(F, T) /\ TotalSize(T) = F[T]
    <2> SUFFICES ASSUME NEW T \in SUBSET S PROVE \E F : IsSum(F, T) /\ TotalSize(T) = F[T]
      OBVIOUS
    <2>1. \E F : IsSum(F, T)
      BY Subsets, SumExists
    <2> QED BY <2>1, TotalIsChosen
  <1>2. PICK F : IsSum(F, S) /\ TotalSize(S) = F[S]
    BY <1>1
  <1>3. F[S] \in Nat /\ \A x \in S : F[S] = x.size + F[S \ {x}]
    BY <1>2, SumFacts
  <1>4. ASSUME NEW x \in S PROVE F[S \ {x}] = TotalSize(S \ {x})
    <2>1. PICK G : IsSum(G, S \ {x}) /\ TotalSize(S \ {x}) = G[S \ {x}]
      BY <1>1
    <2> QED BY <1>2, <2>1, SumsAgree
  <1> QED BY <1>2, <1>3, <1>4

\* What is divided in two is the sum of both.
LEMMA TotalUnion ==
  ASSUME NEW A, NEW B, Sized(A), Sized(B), A \cap B = {}
  PROVE  TotalSize(A \cup B) = TotalSize(A) + TotalSize(B)
  <1> DEFINE n == Cardinality(B)
             P == {k \in 0..n : \A T \in SUBSET B : Cardinality(T) <= k => TotalSize(A \cup T) = TotalSize(A) + TotalSize(T)}
  <1>1. n \in Nat /\ TotalSize(A) \in Nat
    BY FS_CardinalityType, TotalRemove DEF Sized
  <1>2. ASSUME NEW T \in SUBSET B PROVE Sized(T) /\ Sized(A \cup T)
    BY Subsets, FS_Union DEF Sized
  <1>3. 0 \in P
    <2> SUFFICES ASSUME NEW T \in SUBSET B, Cardinality(T) <= 0 PROVE TotalSize(A \cup T) = TotalSize(A) + TotalSize(T)
      BY <1>1
    <2>1. T = {} /\ A \cup T = A
      BY Subsets
    <2> QED BY <1>1, <2>1, TotalEmpty
  <1>4. ASSUME NEW k \in 0..(n - 1), k \in P PROVE k + 1 \in P
    <2> SUFFICES ASSUME NEW T \in SUBSET B, Cardinality(T) <= k + 1 PROVE TotalSize(A \cup T) = TotalSize(A) + TotalSize(T)
      BY <1>1
    <2>1. CASE T = {}
      <3>1. A \cup T = A
        BY <2>1
      <3> QED BY <1>1, <2>1, <3>1, TotalEmpty
    <2>2. CASE T # {}
      <3>1. PICK x : x \in T
        BY <2>2
      <3>2. Cardinality(T \ {x}) = Cardinality(T) - 1 /\ Cardinality(T) \in Nat
        BY <3>1, Subsets
      <3>3. Cardinality(T \ {x}) <= k /\ T \ {x} \in SUBSET B
        BY <3>2
      <3>4. TotalSize(A \cup (T \ {x})) = TotalSize(A) + TotalSize(T \ {x})
        BY <1>4, <3>3
      <3>5. A \cup (T \ {x}) = (A \cup T) \ {x} /\ x \in A \cup T /\ x.size \in Nat
        BY <3>1 DEF Sized
      <3>6. TotalSize(A \cup T) = x.size + TotalSize((A \cup T) \ {x})
        BY <1>2, <3>5, TotalRemove
      <3>7. TotalSize(T) = x.size + TotalSize(T \ {x}) /\ TotalSize(T \ {x}) \in Nat
        BY <1>2, <3>1, <3>3, TotalRemove
      <3>8. TotalSize(A \cup T) = x.size + (TotalSize(A) + TotalSize(T \ {x})) /\ x.size \in Nat
        BY ONLY <3>4, <3>5, <3>6
      <3> QED BY ONLY <1>1, <3>7, <3>8
    <2> QED BY <2>1, <2>2
  <1>5. \A k \in 0..n : k \in P
    <2> HIDE DEF P, n
    <2> QED BY ONLY <1>1, <1>3, <1>4, Induction
  <1> QED BY <1>1, <1>5

-----------------------------------------------------------------------------
(* Paths. *)

Paths == Seq(STRING)

LEMMA WholePath ==
  ASSUME NEW S, NEW p \in Seq(S)
  PROVE  SubSeq(p, 1, Len(p)) = p /\ SubSeq(p, 1, 0) = <<>> /\ Len(p) \in Nat
  <1>1. Len(p) \in 0..Len(p) /\ Len(p) \in Nat
    OBVIOUS
  <1>2. SubSeq(p, 1, Len(p)) = p
    BY <1>1, SamePath
  <1> QED BY <1>1, <1>2

LEMMA ParentFacts ==
  ASSUME NEW p \in Paths, p # <<>>
  PROVE  /\ Len(p) \in Nat \ {0} /\ Parent(p) \in Paths /\ Len(Parent(p)) = Len(p) - 1
         /\ Name(p) \in STRING /\ Append(Parent(p), Name(p)) = p
         /\ \A i \in 1..(Len(p) - 1) : Parent(p)[i] = p[i]
  <1>1. Len(p) \in Nat \ {0} /\ Len(p) - 1 \in 0..Len(p)
    BY DEF Paths
  <1>2. Parent(p) \in Paths /\ Len(Parent(p)) = Len(p) - 1 /\ \A i \in 1..(Len(p) - 1) : Parent(p)[i] = p[i]
    <2> DEFINE k == Len(p) - 1
    <2>1. p \in Seq(STRING) /\ k \in 0..Len(p)
      BY <1>1 DEF Paths
    <2> HIDE DEF k
    <2>2. SubSeq(p, 1, k) \in Seq(STRING) /\ Len(SubSeq(p, 1, k)) = k /\ \A i \in 1..k : SubSeq(p, 1, k)[i] = p[i]
      BY ONLY <2>1
    <2> QED BY <2>2 DEF k, Paths, Parent
  <1>3. Name(p) \in STRING
    BY <1>1 DEF Paths, Name
  <1>4. Append(Parent(p), Name(p)) \in Paths /\ Len(Append(Parent(p), Name(p))) = Len(p)
    BY <1>1, <1>2, <1>3 DEF Paths
  <1>5. ASSUME NEW i \in 1..Len(p) PROVE Append(Parent(p), Name(p))[i] = p[i]
    <2>1. CASE i = Len(p)
      BY <1>1, <1>2, <1>3, <2>1 DEF Paths, Name
    <2>2. CASE i # Len(p)
      BY <1>1, <1>2, <1>3, <2>2 DEF Paths
    <2> QED BY <2>1, <2>2
  <1>6. Append(Parent(p), Name(p)) = p
    BY <1>4, <1>5, SamePath DEF Paths
  <1> QED BY <1>1, <1>2, <1>3, <1>6

\* The prefixes of a path are the chain of its parents.
LEMMA ParentOfPrefix ==
  ASSUME NEW p \in Paths, NEW k \in 1..Len(p)
  PROVE  /\ SubSeq(p, 1, k) \in Paths /\ SubSeq(p, 1, k) # <<>>
         /\ Parent(SubSeq(p, 1, k)) = SubSeq(p, 1, k - 1)
  <1>1. k \in 0..Len(p) /\ k - 1 \in 0..k
    BY DEF Paths
  <1>2. SubSeq(p, 1, k) \in Paths /\ Len(SubSeq(p, 1, k)) = k
    BY <1>1 DEF Paths
  <1>3. SubSeq(SubSeq(p, 1, k), 1, k - 1) = SubSeq(p, 1, k - 1)
    BY <1>1, PrefixOfPrefix DEF Paths
  <1> QED BY <1>2, <1>3 DEF Parent

\* To be under d is to be a child of it, or to be under one.
LEMMA UnderChild ==
  ASSUME NEW p \in Paths, p # <<>>, NEW d \in Paths
  PROVE  IsUnder(p, d) <=> Parent(p) = d \/ IsUnder(Parent(p), d)
  <1>1. Len(p) \in Nat \ {0} /\ Parent(p) \in Paths /\ Len(Parent(p)) = Len(p) - 1
    BY ParentFacts
  <1>2. Len(d) \in Nat
    BY DEF Paths
  <1>3. ASSUME Len(d) < Len(p) PROVE SubSeq(Parent(p), 1, Len(d)) = SubSeq(p, 1, Len(d))
    BY <1>1, <1>2, <1>3, PrefixOfPrefix DEF Paths, Parent
  <1>4. ASSUME Len(d) = Len(p) - 1 PROVE SubSeq(p, 1, Len(d)) = Parent(p)
    BY <1>4 DEF Parent
  <1>5. Len(d) < Len(p) <=> Len(d) = Len(p) - 1 \/ Len(d) < Len(Parent(p))
    BY <1>1, <1>2
  <1>6. Parent(p) = d => Len(d) = Len(p) - 1
    BY <1>1
  <1> QED BY <1>1, <1>2, <1>3, <1>4, <1>5, <1>6 DEF IsUnder

\* What is under a child of d is under d, and not right under it; what is under
\* d and not right under it is under the child that the path goes through.
LEMMA UnderGrandchild ==
  ASSUME NEW p \in Paths, NEW d \in Paths
  PROVE  /\ \A c \in Paths : c # <<>> /\ Parent(c) = d /\ IsUnder(p, c) =>
                IsUnder(p, d) /\ Parent(p) # d /\ c = SubSeq(p, 1, Len(d) + 1)
         /\ IsUnder(p, d) /\ Parent(p) # d =>
                LET c == SubSeq(p, 1, Len(d) + 1)
                IN  c \in Paths /\ c # <<>> /\ Parent(c) = d /\ IsUnder(p, c) /\ Len(d) + 1 \in 1..Len(Parent(p))
  <1>1. Len(p) \in Nat /\ Len(d) \in Nat
    BY DEF Paths
  <1>2. ASSUME NEW c \in Paths, c # <<>>, Parent(c) = d, IsUnder(p, c)
        PROVE  IsUnder(p, d) /\ Parent(p) # d /\ c = SubSeq(p, 1, Len(d) + 1)
    <2>1. Len(c) = Len(d) + 1 /\ Len(c) \in Nat /\ Len(c) < Len(p) /\ SubSeq(p, 1, Len(c)) = c
      <3>1. Len(c) \in Nat \ {0} /\ Len(d) = Len(c) - 1
        BY <1>2, ParentFacts
      <3>2. Len(c) < Len(p) /\ SubSeq(p, 1, Len(c)) = c
        BY <1>2 DEF IsUnder
      <3> QED BY <1>1, <3>1, <3>2
    <2>2. c = SubSeq(p, 1, Len(d) + 1)
      BY <2>1
    <2>3. p # <<>> /\ Len(Parent(p)) # Len(d)
      BY <1>1, <2>1, ParentFacts
    <2>4. Len(d) + 1 \in 1..Len(p)
      BY <1>1, <2>1
    <2>5. d = SubSeq(p, 1, Len(d))
      <3>1. Parent(SubSeq(p, 1, Len(d) + 1)) = SubSeq(p, 1, (Len(d) + 1) - 1)
        BY <2>4, ParentOfPrefix
      <3>2. (Len(d) + 1) - 1 = Len(d)
        BY <1>1
      <3> QED BY <1>2, <2>2, <3>1, <3>2
    <2>6. Len(d) < Len(p)
      BY <1>1, <2>1
    <2> QED BY <2>2, <2>3, <2>5, <2>6 DEF IsUnder
  <1>3. ASSUME IsUnder(p, d), Parent(p) # d, NEW c, c = SubSeq(p, 1, Len(d) + 1)
        PROVE  c \in Paths /\ c # <<>> /\ Parent(c) = d /\ IsUnder(p, c) /\ Len(d) + 1 \in 1..Len(Parent(p))
    <2>1. Len(d) < Len(p) /\ SubSeq(p, 1, Len(d)) = d
      BY <1>3 DEF IsUnder
    <2>2. p # <<>> /\ Len(Parent(p)) = Len(p) - 1
      BY <1>1, <2>1, ParentFacts
    <2>3. Len(d) # Len(p) - 1
      BY <1>3, <2>1 DEF Parent
    <2>4. Len(d) + 1 \in 1..Len(p) /\ Len(d) + 1 < Len(p) /\ (Len(d) + 1) - 1 = Len(d)
      BY <1>1, <2>1, <2>3
    <2>5. c \in Paths /\ c # <<>> /\ Parent(c) = d
      BY <1>3, <2>1, <2>4, ParentOfPrefix
    <2>6. Len(c) = Len(d) + 1
      BY <1>1, <2>5, ParentFacts
    <2> QED BY <1>1, <1>3, <2>2, <2>4, <2>5, <2>6 DEF IsUnder
  <1> QED BY <1>2, <1>3

-----------------------------------------------------------------------------
(* Directories of a transaction. *)

IsTx(t) ==
    DOMAIN t = {"snap", "sid", "left", "firstDID", "nextDID", "dids", "dirBuf", "sizes", "buf", "rows",
                "cached", "cachedDID", "sinceCheck", "failed"}

DirRow == [did : Nat, path : Paths, size : Nat, parent : Nat]

\* The place of a directory in dirBuf and sizes.
Slot(t, q) == t.dids[q] - t.firstDID + 1

\* A directory has one place, after its parent's, and its row is there.
Placed(t, q) ==
    /\ Slot(t, q) \in 1..Len(t.dirBuf) /\ t.dirBuf[Slot(t, q)].did = t.dids[q] /\ t.dirBuf[Slot(t, q)].path = q
    /\ q = <<>> => t.dirBuf[Slot(t, q)].parent = 0
    /\ q # <<>> => /\ Parent(q) \in DOMAIN t.dids /\ t.dids[Parent(q)] < t.dids[q]
                   /\ t.dirBuf[Slot(t, q)].parent = t.dids[Parent(q)]

DirsOK(t) ==
    /\ IsTx(t)
    /\ t.firstDID \in Nat \ {0} /\ t.nextDID = t.firstDID + Len(t.dirBuf)
    /\ t.dirBuf \in Seq(DirRow) /\ t.sizes \in Seq(Nat) /\ Len(t.sizes) = Len(t.dirBuf)
    /\ DOMAIN t.dids \subseteq Paths /\ t.dids \in [DOMAIN t.dids -> Nat]
    /\ \A q \in DOMAIN t.dids : Placed(t, q)
    /\ \A i \in 1..Len(t.dirBuf) : \E q \in DOMAIN t.dids : Slot(t, q) = i

\* Interning adds directories with empty sizes and touches nothing else.
Extends(t, u) ==
    /\ DOMAIN t.dids \subseteq DOMAIN u.dids
    /\ \A q \in DOMAIN t.dids : u.dids[q] = t.dids[q] /\ u.sizes[Slot(u, q)] = t.sizes[Slot(t, q)]
    /\ \A q \in DOMAIN u.dids \ DOMAIN t.dids : u.sizes[Slot(u, q)] = 0
    /\ u.snap = t.snap /\ u.sid = t.sid /\ u.left = t.left /\ u.firstDID = t.firstDID /\ u.buf = t.buf
    /\ u.rows = t.rows /\ u.sinceCheck = t.sinceCheck /\ u.failed = t.failed

\* With a directory every directory it is in is interned.
LEMMA Chain ==
  ASSUME NEW t, DirsOK(t), NEW q \in DOMAIN t.dids
  PROVE  \A k \in 0..Len(q) : SubSeq(q, 1, k) \in DOMAIN t.dids
  <1> DEFINE n == Len(q)
             P == {i \in 0..n : SubSeq(q, 1, n - i) \in DOMAIN t.dids}
  <1>1. q \in Paths /\ n \in Nat /\ \A r \in DOMAIN t.dids : r # <<>> => Parent(r) \in DOMAIN t.dids
    BY DEF DirsOK, Placed, Paths
  <1>2. 0 \in P
    <2>1. n - 0 = n /\ 0 \in 0..n
      BY <1>1
    <2>2. SubSeq(q, 1, n) = q
      BY <1>1, WholePath DEF Paths
    <2> HIDE DEF n
    <2> QED BY <2>1, <2>2
  <1>3. ASSUME NEW i \in 0..(n - 1), i \in P PROVE i + 1 \in P
    <2>1. n - i \in 1..n /\ (n - i) - 1 = n - (i + 1) /\ i + 1 \in 0..n
      BY <1>1
    <2>2. SubSeq(q, 1, n - i) # <<>> /\ Parent(SubSeq(q, 1, n - i)) = SubSeq(q, 1, (n - i) - 1)
      <3> DEFINE k == n - i
      <3>1. k \in 1..Len(q)
        BY <2>1
      <3> HIDE DEF k, n
      <3>2. SubSeq(q, 1, k) # <<>> /\ Parent(SubSeq(q, 1, k)) = SubSeq(q, 1, k - 1)
        BY <1>1, <3>1, ParentOfPrefix
      <3> QED BY <3>2 DEF k
    <2>3. SubSeq(q, 1, n - i) \in DOMAIN t.dids
      BY <1>3
    <2> HIDE DEF n
    <2> QED BY <1>1, <2>1, <2>2, <2>3
  <1>4. \A i \in 0..n : i \in P
    <2> HIDE DEF P, n
    <2> QED BY ONLY <1>1, <1>2, <1>3, Induction
  <1>5. ASSUME NEW k \in 0..n PROVE SubSeq(q, 1, k) \in DOMAIN t.dids
    <2>1. n - k \in 0..n /\ n - (n - k) = k
      BY <1>1
    <2>2. SubSeq(q, 1, n - (n - k)) \in DOMAIN t.dids
      BY <1>4, <2>1
    <2> HIDE DEF n
    <2> QED BY <2>1, <2>2
  <1> QED BY <1>5

\* A set of numbers up to n has a greatest one.
LEMMA Greatest ==
  ASSUME NEW n \in Nat, NEW S, S \subseteq 0..n, S # {}
  PROVE  Max(S) \in S /\ \A k \in S : Max(S) >= k
  <1> DEFINE T == {j \in 0..n : n - j \in S}
  <1>1. \A k \in S : k \in 0..n /\ n - k \in 0..n /\ n - (n - k) = k
    OBVIOUS
  <1>2. T \in SUBSET Nat /\ T # {}
    <2>1. PICK k \in S : TRUE
      OBVIOUS
    <2>2. n - k \in T
      BY <1>1
    <2>3. \A j \in T : j \in Nat
      OBVIOUS
    <2> HIDE DEF T
    <2> QED BY <2>2, <2>3
  <1>3. PICK m \in T : \A j \in T : m <= j
    <2> HIDE DEF T
    <2> QED BY ONLY <1>2, Least
  <1>4. ASSUME NEW j \in S PROVE n - m >= j
    <2>1. n - j \in T
      BY <1>1
    <2>2. m <= n - j /\ m \in 0..n /\ j \in 0..n
      BY <1>1, <1>3, <2>1
    <2> QED BY ONLY <2>2, n \in Nat
  <1>5. n - m \in S
    BY <1>3
  <1> HIDE DEF T
  <1> QED BY <1>4, <1>5 DEF Max

\* New directories behind the others, each after its parent, keep the order.
Fresh(t, added) ==
    /\ added \in Seq(Paths)
    /\ \A i \in 1..Len(added) : added[i] \notin DOMAIN t.dids
    /\ \A i, j \in 1..Len(added) : added[i] = added[j] => i = j
    /\ \A i \in 1..Len(added) : added[i] # <<>> =>
          Parent(added[i]) \in DOMAIN t.dids \/ (i - 1 \in 1..Len(added) /\ Parent(added[i]) = added[i - 1])

Grows(t, u, added, rows, zeros) ==
    /\ IsTx(u) /\ u.nextDID = t.nextDID + Len(added)
    /\ DOMAIN u.dids = DOMAIN t.dids \cup {added[i] : i \in 1..Len(added)}
    /\ u.dids = [q \in DOMAIN u.dids |-> u.dids[q]]
    /\ \A q \in DOMAIN t.dids : u.dids[q] = t.dids[q]
    /\ \A i \in 1..Len(added) : u.dids[added[i]] = t.nextDID + i - 1
    /\ u.dirBuf = t.dirBuf \o rows /\ rows = [i \in 1..Len(added) |-> rows[i]]
    /\ \A i \in 1..Len(added) : rows[i] = [did |-> t.nextDID + i - 1, path |-> added[i], size |-> 0,
                                           parent |-> IF added[i] = <<>> THEN 0 ELSE u.dids[Parent(added[i])]]
    /\ u.sizes = t.sizes \o zeros /\ zeros = [i \in 1..Len(added) |-> 0]
    /\ u.snap = t.snap /\ u.sid = t.sid /\ u.left = t.left /\ u.firstDID = t.firstDID /\ u.buf = t.buf
    /\ u.rows = t.rows /\ u.sinceCheck = t.sinceCheck /\ u.failed = t.failed

IsConcat(c, a, b, V) ==
    /\ c \in Seq(V) /\ Len(c) = Len(a) + Len(b)
    /\ \A i \in 1..Len(a) : c[i] = a[i]
    /\ \A i \in 1..Len(b) : c[Len(a) + i] = b[i]

LEMMA Concatenated == ASSUME NEW V, NEW a \in Seq(V), NEW b \in Seq(V) PROVE IsConcat(a \o b, a, b, V)
  <1>1. \A i \in 1..(Len(a) + Len(b)) : (a \o b)[i] = IF i <= Len(a) THEN a[i] ELSE b[i - Len(a)]
    OBVIOUS
  <1>2. Len(a) \in Nat /\ Len(b) \in Nat
    OBVIOUS
  <1>3. ASSUME NEW i \in 1..Len(b) PROVE (a \o b)[Len(a) + i] = b[i]
    <2>1. Len(a) + i \in 1..(Len(a) + Len(b)) /\ ~(Len(a) + i <= Len(a)) /\ (Len(a) + i) - Len(a) = i
      BY <1>2
    <2> QED BY <1>1, <2>1
  <1> QED BY <1>1, <1>2, <1>3 DEF IsConcat

LEMMA Grown ==
  ASSUME NEW t, DirsOK(t), NEW added, Fresh(t, added), NEW u, NEW rows, NEW zeros, Grows(t, u, added, rows, zeros)
  PROVE  DirsOK(u) /\ Extends(t, u)
  <1> DEFINE n == Len(added)
             b == Len(t.dirBuf)
             first == t.firstDID
  <1>1. /\ n \in Nat /\ b \in Nat /\ first \in Nat \ {0} /\ t.nextDID = first + b /\ u.firstDID = first
        /\ t.dirBuf \in Seq(DirRow) /\ t.sizes \in Seq(Nat) /\ Len(t.sizes) = b
    BY DEF DirsOK, Fresh, Grows
  <1>2. ASSUME NEW q \in DOMAIN t.dids
        PROVE  /\ q \in Paths /\ q \in DOMAIN u.dids /\ u.dids[q] = t.dids[q] /\ Slot(u, q) = Slot(t, q)
               /\ Placed(t, q) /\ t.dids[q] \in Nat /\ Slot(t, q) \in 1..b
    BY <1>1 DEF DirsOK, Grows, Slot, Placed
  <1>3. ASSUME NEW i \in 1..n
        PROVE  /\ added[i] \in Paths /\ added[i] \in DOMAIN u.dids /\ u.dids[added[i]] = first + (b + i - 1)
               /\ Slot(u, added[i]) = b + i
    <2>1. added[i] \in Paths /\ added[i] \in DOMAIN u.dids /\ u.dids[added[i]] = t.nextDID + i - 1
      BY DEF Fresh, Grows
    <2> HIDE DEF n, b, first
    <2> QED BY <1>1, <2>1 DEF Slot
  <1>4. ASSUME NEW q \in DOMAIN u.dids PROVE q \in DOMAIN t.dids \/ \E i \in 1..n : q = added[i]
    BY DEF Grows
  <1>5. ASSUME NEW i \in 1..n, added[i] # <<>>
        PROVE  /\ Parent(added[i]) \in DOMAIN u.dids /\ u.dids[Parent(added[i])] \in Nat
               /\ u.dids[Parent(added[i])] < u.dids[added[i]]
    <2>1. CASE Parent(added[i]) \in DOMAIN t.dids
      <3> DEFINE q == Parent(added[i])
      <3>1. u.dids[q] = t.dids[q] /\ q \in DOMAIN u.dids /\ t.dids[q] \in Nat /\ t.dids[q] - first + 1 \in 1..b
        BY <1>2, <2>1 DEF Slot
      <3>2. u.dids[added[i]] = first + (b + i - 1)
        BY <1>3
      <3> HIDE DEF q, n, b, first
      <3> QED BY <1>1, <3>1, <3>2 DEF q
    <2>2. CASE i - 1 \in 1..n /\ Parent(added[i]) = added[i - 1]
      <3>1. added[i - 1] \in DOMAIN u.dids /\ u.dids[added[i - 1]] = first + (b + (i - 1) - 1)
        BY <1>3, <2>2
      <3>2. u.dids[added[i]] = first + (b + i - 1)
        BY <1>3
      <3> HIDE DEF n, b, first
      <3> QED BY <1>1, <2>2, <3>1, <3>2
    <2> QED BY <1>5, <2>1, <2>2 DEF Fresh
  <1>6. ASSUME NEW i \in 1..n
        PROVE  /\ rows[i] \in DirRow /\ rows[i].did = u.dids[added[i]] /\ rows[i].path = added[i]
               /\ rows[i].parent = IF added[i] = <<>> THEN 0 ELSE u.dids[Parent(added[i])]
    <2> DEFINE parent == IF added[i] = <<>> THEN 0 ELSE u.dids[Parent(added[i])]
               id == t.nextDID + i - 1
    <2>1. rows[i] = [did |-> id, path |-> added[i], size |-> 0, parent |-> parent]
      BY DEF Grows
    <2>2. parent \in Nat
      BY <1>5
    <2>3. id = u.dids[added[i]]
      BY DEF Grows
    <2>4. id \in Nat
      <3>1. id = (first + b) + i - 1
        BY <1>1
      <3> HIDE DEF id, n, b, first
      <3> QED BY <1>1, <3>1
    <2> HIDE DEF parent, id
    <2>5. added[i] \in Paths
      BY <1>3
    <2>6. rows[i] \in DirRow /\ rows[i].did = id /\ rows[i].path = added[i] /\ rows[i].parent = parent
      BY ONLY <2>1, <2>2, <2>4, <2>5 DEF DirRow
    <2> QED BY <2>3, <2>6 DEF parent
  <1>7. rows \in Seq(DirRow) /\ Len(rows) = n
    <2>1. rows = [i \in 1..n |-> rows[i]]
      BY DEF Grows
    <2>2. rows \in [1..n -> DirRow]
      <3> HIDE DEF n
      <3> QED BY ONLY <2>1, <1>6
    <2> HIDE DEF n
    <2> QED BY ONLY <1>1, <2>2
  <1>8. zeros \in Seq(Nat) /\ Len(zeros) = n /\ \A i \in 1..n : zeros[i] = 0
    <2>1. zeros = [i \in 1..n |-> 0]
      BY DEF Grows
    <2> HIDE DEF n
    <2>2. zeros \in [1..n -> Nat]
      BY ONLY <2>1
    <2>3. zeros \in Seq(Nat) /\ Len(zeros) = n
      BY ONLY <1>1, <2>2
    <2> QED BY ONLY <2>1, <2>3
  <1>9. u.dirBuf = t.dirBuf \o rows /\ u.sizes = t.sizes \o zeros
    BY DEF Grows
  <1> HIDE DEF n, b, first
  <1>10. /\ u.dirBuf \in Seq(DirRow) /\ Len(u.dirBuf) = b + n
         /\ \A i \in 1..b : u.dirBuf[i] = t.dirBuf[i]
         /\ \A i \in 1..n : u.dirBuf[b + i] = rows[i]
    <2>1. Len(t.dirBuf) = b
      BY DEF b
    <2>2. IsConcat(u.dirBuf, t.dirBuf, rows, DirRow)
      BY ONLY <1>1, <1>7, <1>9, Concatenated
    <2> QED BY ONLY <1>7, <2>1, <2>2 DEF IsConcat
  <1>11. /\ u.sizes \in Seq(Nat) /\ Len(u.sizes) = b + n
         /\ \A i \in 1..b : u.sizes[i] = t.sizes[i]
         /\ \A i \in 1..n : u.sizes[b + i] = 0
    <2>1. IsConcat(u.sizes, t.sizes, zeros, Nat)
      BY ONLY <1>1, <1>8, <1>9, Concatenated
    <2> QED BY ONLY <1>1, <1>8, <2>1 DEF IsConcat
  <1>12. ASSUME NEW q \in DOMAIN t.dids PROVE Placed(u, q)
    <2>1. Slot(u, q) \in 1..b /\ Slot(u, q) \in 1..Len(u.dirBuf) /\ u.dirBuf[Slot(u, q)] = t.dirBuf[Slot(t, q)]
      BY <1>1, <1>2, <1>10
    <2>2. q # <<>> => Parent(q) \in DOMAIN t.dids
      BY <1>2 DEF Placed
    <2> QED BY <1>2, <2>1, <2>2 DEF Placed
  <1>13. ASSUME NEW i \in 1..n PROVE Placed(u, added[i])
    <2>1. Slot(u, added[i]) = b + i /\ b + i \in 1..Len(u.dirBuf) /\ u.dirBuf[b + i] = rows[i]
      <3>1. b + i \in 1..(b + n)
        BY <1>1
      <3> QED BY <1>3, <1>10, <3>1
    <2> QED BY <1>5, <1>6, <2>1 DEF Placed
  <1>14. \A q \in DOMAIN u.dids : Placed(u, q) /\ q \in Paths /\ u.dids[q] \in Nat
    <2>1. \A i \in 1..n : u.dids[added[i]] \in Nat
      BY <1>1, <1>3
    <2> QED BY <1>2, <1>3, <1>4, <1>12, <1>13, <2>1
  <1>15. ASSUME NEW i \in 1..Len(u.dirBuf) PROVE \E q \in DOMAIN u.dids : Slot(u, q) = i
    <2>1. CASE i \in 1..b
      <3>1. PICK q \in DOMAIN t.dids : Slot(t, q) = i
        BY <2>1 DEF DirsOK, b
      <3> QED BY <1>2, <3>1
    <2>2. CASE i \notin 1..b
      <3>1. i - b \in 1..n /\ b + (i - b) = i
        BY <1>1, <1>10, <2>2
      <3> QED BY <1>3, <3>1
    <2> QED BY <2>1, <2>2
  <1>16. u.nextDID = u.firstDID + Len(u.dirBuf) /\ u.firstDID \in Nat \ {0} /\ Len(u.sizes) = Len(u.dirBuf)
    <2>1. u.nextDID = t.nextDID + n
      BY DEF Grows, n
    <2> QED BY <1>1, <1>10, <1>11, <2>1
  <1>17. u.dids \in [DOMAIN u.dids -> Nat] /\ IsTx(u)
    BY <1>14 DEF Grows
  <1>18. DirsOK(u)
    BY <1>10, <1>11, <1>14, <1>15, <1>16, <1>17 DEF DirsOK
  <1>19. ASSUME NEW q \in DOMAIN u.dids \ DOMAIN t.dids PROVE u.sizes[Slot(u, q)] = 0
    BY <1>3, <1>4, <1>11
  <1>20. ASSUME NEW q \in DOMAIN t.dids PROVE u.sizes[Slot(u, q)] = t.sizes[Slot(t, q)]
    BY <1>2, <1>11
  <1> QED BY <1>2, <1>18, <1>19, <1>20 DEF Extends, Grows

\* EnsureDir interns a directory and those it is in, and changes nothing else.
LEMMA Interned ==
  ASSUME NEW t, DirsOK(t), NEW p \in Paths
  PROVE  /\ DirsOK(EnsureDir(t, p)) /\ Extends(t, EnsureDir(t, p))
         /\ \A k \in 0..Len(p) : SubSeq(p, 1, k) \in DOMAIN EnsureDir(t, p).dids
  <1> DEFINE known == {k \in 0..Len(p) : SubSeq(p, 1, k) \in DOMAIN t.dids}
             top == IF known = {} THEN -1 ELSE Max(known)
             n == Len(p) - top
             added == [i \in 1..n |-> SubSeq(p, 1, top + i)]
             did(q) == IF q \in DOMAIN t.dids THEN t.dids[q] ELSE t.nextDID + (Len(q) - top) - 1
             row(i) == [did |-> t.nextDID + i - 1, path |-> added[i], size |-> 0,
                        parent |-> IF added[i] = <<>> THEN 0 ELSE did(Parent(added[i]))]
             rows == [i \in DOMAIN added |-> row(i)]
             zeros == [i \in DOMAIN added |-> 0]
             dids == [q \in DOMAIN t.dids \cup Range(added) |-> did(q)]
             u == EnsureDir(t, p)
  <1>1. u = [t EXCEPT !.dids = dids, !.dirBuf = @ \o rows, !.sizes = @ \o zeros, !.nextDID = @ + Len(added)]
    BY DEF EnsureDir
  <1>2. Len(p) \in Nat
    BY DEF Paths
  <1>3. top \in -1..Len(p) /\ \A k \in 0..Len(p) : SubSeq(p, 1, k) \in DOMAIN t.dids <=> k <= top
    <2>1. CASE known = {}
      BY <1>2, <2>1
    <2>2. CASE known # {}
      <3> DEFINE top2 == Max(known)
      <3>1. top2 \in known /\ \A k \in known : top2 >= k
        <4>1. known \subseteq 0..Len(p)
          OBVIOUS
        <4> HIDE DEF known
        <4> QED BY ONLY <1>2, <2>2, <4>1, Greatest
      <3>2. top = top2
        BY <2>2
      <3>3. top2 \in 0..Len(p) /\ SubSeq(p, 1, top2) \in DOMAIN t.dids
        BY <3>1
      <3> HIDE DEF top2, top
      <3>4. ASSUME NEW k \in 0..Len(p), k <= top2 PROVE SubSeq(p, 1, k) \in DOMAIN t.dids
        <4> DEFINE q == SubSeq(p, 1, top2)
        <4>1. q \in DOMAIN t.dids /\ k \in 0..top2
          BY <1>2, <3>3, <3>4
        <4>2. Len(q) = top2 /\ SubSeq(q, 1, k) = SubSeq(p, 1, k)
          <5>1. SubSeq(q, 1, k) = SubSeq(p, 1, k)
            BY <3>3, <4>1, PrefixOfPrefix DEF Paths
          <5>2. Len(q) = top2
            BY <3>3 DEF Paths
          <5> QED BY <5>1, <5>2
        <4> HIDE DEF q
        <4>3. SubSeq(q, 1, k) \in DOMAIN t.dids
          BY <4>1, <4>2, Chain
        <4> QED BY <4>2, <4>3
      <3>5. ASSUME NEW k \in 0..Len(p), SubSeq(p, 1, k) \in DOMAIN t.dids PROVE k <= top2
        <4>1. k \in known
          BY <3>5
        <4> QED BY <1>2, <3>1, <3>3, <4>1
      <3> QED BY <1>2, <3>2, <3>3, <3>4, <3>5
    <2> QED BY <2>1, <2>2
  <1> HIDE DEF top, known
  <1>4. n \in Nat /\ DOMAIN added = 1..n
    BY <1>2, <1>3
  <1>5. ASSUME NEW i \in 1..n
        PROVE  /\ top + i \in 0..Len(p) /\ added[i] = SubSeq(p, 1, top + i) /\ added[i] \in Paths
               /\ Len(added[i]) = top + i /\ added[i] \notin DOMAIN t.dids
    <2> DEFINE k == top + i
    <2>1. k \in 0..Len(p) /\ ~(k <= top)
      BY <1>2, <1>3
    <2>2. added[i] = SubSeq(p, 1, k)
      OBVIOUS
    <2> HIDE DEF k, n, added
    <2>3. SubSeq(p, 1, k) \in Paths /\ Len(SubSeq(p, 1, k)) = k
      BY <2>1 DEF Paths
    <2>4. SubSeq(p, 1, k) \notin DOMAIN t.dids
      BY <1>3, <2>1
    <2> QED BY <2>1, <2>2, <2>3, <2>4 DEF k
  <1>6. added \in Seq(Paths) /\ Len(added) = n
    <2>1. added \in [1..n -> Paths]
      <3>1. added = [i \in 1..n |-> added[i]] /\ \A i \in 1..n : added[i] \in Paths
        BY <1>5
      <3> HIDE DEF added, n
      <3> QED BY ONLY <3>1
    <2> HIDE DEF added, n
    <2> QED BY ONLY <1>4, <2>1
  <1>7. ASSUME NEW i \in 1..n, added[i] # <<>>
        PROVE  Parent(added[i]) \in DOMAIN t.dids \/ (i - 1 \in 1..n /\ Parent(added[i]) = added[i - 1])
    <2> DEFINE k == top + i
    <2>1. k \in 0..Len(p) /\ added[i] = SubSeq(p, 1, k) /\ Len(added[i]) = k
      BY <1>5
    <2>2. k # 0
      <3>1. Len(added[i]) # 0
        BY <1>5, <1>7 DEF Paths
      <3> QED BY <2>1, <3>1
    <2>3. k \in 1..Len(p)
      BY <2>1, <2>2
    <2> HIDE DEF k, added, n
    <2>4. Parent(added[i]) = SubSeq(p, 1, k - 1)
      BY <2>1, <2>3, ParentOfPrefix
    <2>5. CASE i = 1
      <3>1. k - 1 = top /\ k - 1 \in 0..Len(p)
        BY <1>2, <1>3, <2>3, <2>5 DEF k
      <3> QED BY <1>3, <2>4, <3>1
    <2>6. CASE i # 1
      <3>1. i - 1 \in 1..n /\ top + (i - 1) = k - 1
        BY <1>3, <1>4, <2>6 DEF k
      <3>2. added[i - 1] = SubSeq(p, 1, top + (i - 1))
        BY <1>5, <3>1
      <3> QED BY <2>4, <3>1, <3>2
    <2> QED BY <2>5, <2>6
  <1>8. ASSUME NEW i \in 1..n, NEW j \in 1..n, added[i] = added[j] PROVE i = j
    <2>1. top + i = top + j
      BY <1>5, <1>8
    <2> QED BY <1>3, <1>4, <2>1
  <1>9. Fresh(t, added)
    <2> HIDE DEF added, n
    <2> QED BY <1>5, <1>6, <1>7, <1>8 DEF Fresh
  <1>10. \A i \in 1..n : did(added[i]) = t.nextDID + i - 1
    <2> SUFFICES ASSUME NEW i \in 1..n PROVE did(added[i]) = t.nextDID + i - 1
      OBVIOUS
    <2>1. did(added[i]) = t.nextDID + (Len(added[i]) - top) - 1
      BY <1>5
    <2>2. Len(added[i]) - top = i
      BY <1>3, <1>4, <1>5
    <2> QED BY <2>1, <2>2
  <1>11. Range(added) = {added[i] : i \in 1..n}
    BY <1>4 DEF Range
  <1>12. IsTx(t) /\ t.dirBuf \in Seq(DirRow) /\ t.nextDID \in Nat
    BY DEF DirsOK
  <1>13. dids = [q \in DOMAIN t.dids \cup {added[i] : i \in 1..n} |-> did(q)]
    BY <1>11
  <1>14. rows = [i \in 1..n |-> row(i)] /\ zeros = [i \in 1..n |-> 0]
    BY <1>4
  <1>15. /\ \A q \in DOMAIN t.dids : dids[q] = t.dids[q]
         /\ \A i \in 1..n : dids[added[i]] = t.nextDID + i - 1
         /\ DOMAIN dids = DOMAIN t.dids \cup {added[i] : i \in 1..n}
         /\ \A i \in 1..n : rows[i] = [did |-> t.nextDID + i - 1, path |-> added[i], size |-> 0,
                                       parent |-> IF added[i] = <<>> THEN 0 ELSE dids[Parent(added[i])]]
    <2>1. /\ \A q \in DOMAIN t.dids : dids[q] = t.dids[q]
          /\ DOMAIN dids = DOMAIN t.dids \cup {added[i] : i \in 1..n}
      BY <1>13
    <2>2. ASSUME NEW i \in 1..n PROVE dids[added[i]] = t.nextDID + i - 1
      <3>1. dids[added[i]] = did(added[i])
        <4> HIDE DEF added, n, did, dids
        <4> QED BY <1>13
      <3> HIDE DEF added, n, did, dids
      <3> QED BY <1>10, <3>1
    <2>3. ASSUME NEW i \in 1..n, added[i] # <<>> PROVE did(Parent(added[i])) = dids[Parent(added[i])]
      <3>1. Parent(added[i]) \in DOMAIN t.dids \cup {added[j] : j \in 1..n}
        <4> HIDE DEF added, n
        <4> QED BY <1>7, <2>3
      <3> HIDE DEF added, n, did, dids
      <3> QED BY <1>13, <3>1
    <2>4. ASSUME NEW i \in 1..n
          PROVE  rows[i] = [did |-> t.nextDID + i - 1, path |-> added[i], size |-> 0,
                            parent |-> IF added[i] = <<>> THEN 0 ELSE dids[Parent(added[i])]]
      <3>1. rows[i] = row(i)
        <4> HIDE DEF row, n, added
        <4> QED BY <1>14
      <3>2. (IF added[i] = <<>> THEN 0 ELSE did(Parent(added[i]))) = (IF added[i] = <<>> THEN 0 ELSE dids[Parent(added[i])])
        BY <2>3
      <3> HIDE DEF added, n, did, dids, rows
      <3> QED BY <3>1, <3>2
    <2> QED BY <2>1, <2>2, <2>4
  <1> HIDE DEF did, row, dids, rows, zeros, added, n
  <1>16. /\ IsTx(u) /\ u.dids = dids /\ u.dirBuf = t.dirBuf \o rows /\ u.sizes = t.sizes \o zeros
         /\ u.nextDID = t.nextDID + Len(added)
         /\ u.snap = t.snap /\ u.sid = t.sid /\ u.left = t.left /\ u.firstDID = t.firstDID /\ u.buf = t.buf
         /\ u.rows = t.rows /\ u.sinceCheck = t.sinceCheck /\ u.failed = t.failed
    <2> HIDE DEF u
    <2> QED BY <1>1, <1>12 DEF IsTx
  <1> HIDE DEF u
  <1>17. dids = [q \in DOMAIN dids |-> dids[q]] /\ rows = [i \in 1..n |-> rows[i]]
    BY <1>13, <1>14
  <1>18. Grows(t, u, added, rows, zeros)
    BY <1>6, <1>14, <1>15, <1>16, <1>17 DEF Grows
  <1>19. DirsOK(u) /\ Extends(t, u)
    BY <1>9, <1>18, Grown
  <1>20. ASSUME NEW k \in 0..Len(p) PROVE SubSeq(p, 1, k) \in DOMAIN u.dids
    <2>1. CASE k <= top
      BY <1>3, <1>15, <1>16, <2>1
    <2>2. CASE ~(k <= top)
      <3>1. k - top \in 1..n /\ top + (k - top) = k
        BY <1>2, <1>3, <2>2 DEF n
      <3>2. added[k - top] = SubSeq(p, 1, k)
        BY <1>5, <3>1
      <3> QED BY <1>15, <1>16, <3>1, <3>2
    <2> QED BY <2>1, <2>2
  <1> QED BY <1>19, <1>20 DEF u

SameDirs(t, u) ==
    /\ u.dids = t.dids /\ u.dirBuf = t.dirBuf /\ u.nextDID = t.nextDID /\ u.firstDID = t.firstDID

SameRest(t, u) ==
    /\ u.snap = t.snap /\ u.sid = t.sid /\ u.left = t.left /\ u.buf = t.buf /\ u.rows = t.rows
    /\ u.sinceCheck = t.sinceCheck /\ u.failed = t.failed

CacheOK(t) == t.cached \in DOMAIN t.dids /\ t.cachedDID = t.dids[t.cached]

LEMMA DirsKept ==
  ASSUME NEW t, DirsOK(t), NEW u, IsTx(u), SameDirs(t, u), u.sizes \in Seq(Nat), Len(u.sizes) = Len(t.sizes)
  PROVE  DirsOK(u)
  <1>1. \A q \in DOMAIN t.dids : Slot(u, q) = Slot(t, q)
    BY DEF SameDirs, Slot
  <1>2. \A q \in DOMAIN t.dids : Placed(t, q) => Placed(u, q)
    BY <1>1 DEF SameDirs, Placed
  <1> QED BY <1>1, <1>2 DEF DirsOK, SameDirs

LEMMA Cached ==
  ASSUME NEW t, DirsOK(t), NEW p \in DOMAIN t.dids
  PROVE  LET u == CacheParent(t, p)
         IN  DirsOK(u) /\ CacheOK(u) /\ u.cached = p /\ u.dids = t.dids /\ Extends(t, u)
  <1> DEFINE u == CacheParent(t, p)
  <1>1. IsTx(t)
    BY DEF DirsOK
  <1>2. IsTx(u) /\ SameDirs(t, u) /\ SameRest(t, u) /\ u.sizes = t.sizes /\ u.cached = p /\ u.cachedDID = t.dids[p]
    BY <1>1 DEF IsTx, CacheParent, SameDirs, SameRest
  <1> HIDE DEF u
  <1>3. DirsOK(u)
    BY <1>2, DirsKept DEF DirsOK
  <1>4. \A q \in DOMAIN t.dids : Slot(u, q) = Slot(t, q)
    BY <1>2 DEF SameDirs, Slot
  <1>5. Extends(t, u)
    BY <1>2, <1>4 DEF Extends, SameDirs, SameRest
  <1>6. CacheOK(u) /\ u.dids = t.dids
    BY <1>2 DEF CacheOK, SameDirs
  <1> QED BY <1>2, <1>3, <1>5, <1>6 DEF u

LEMMA ExtendsOn ==
  ASSUME NEW t, NEW u, NEW v, Extends(t, u), Extends(u, v)
  PROVE  Extends(t, v)
  <1>1. \A q \in DOMAIN t.dids : Slot(u, q) = Slot(t, q) /\ Slot(v, q) = Slot(t, q)
    BY DEF Extends, Slot
  <1>2. \A q \in DOMAIN v.dids \ DOMAIN t.dids : v.sizes[Slot(v, q)] = 0
    BY DEF Extends
  <1> QED BY <1>1, <1>2 DEF Extends

LEMMA ExtendsSelf ==
  ASSUME NEW t
  PROVE  Extends(t, t)
  BY DEF Extends

\* A directory that EnsureDir interned and the cache now holds.
LEMMA Entered ==
  ASSUME NEW t, DirsOK(t), NEW p \in Paths
  PROVE  LET u == CacheParent(EnsureDir(t, p), p)
         IN  DirsOK(u) /\ CacheOK(u) /\ u.cached = p /\ Extends(t, u)
             /\ \A k \in 0..Len(p) : SubSeq(p, 1, k) \in DOMAIN u.dids
  <1> DEFINE e == EnsureDir(t, p)
             u == CacheParent(e, p)
  <1>1. DirsOK(e) /\ Extends(t, e) /\ \A k \in 0..Len(p) : SubSeq(p, 1, k) \in DOMAIN e.dids
    BY Interned
  <1>2. p \in DOMAIN e.dids
    <2>1. Len(p) \in 0..Len(p) /\ SubSeq(p, 1, Len(p)) = p
      BY WholePath DEF Paths
    <2> HIDE DEF e
    <2> QED BY <1>1, <2>1
  <1> HIDE DEF e
  <1>3. DirsOK(u) /\ CacheOK(u) /\ u.cached = p /\ u.dids = e.dids /\ Extends(e, u)
    BY <1>1, <1>2, Cached
  <1> HIDE DEF u
  <1>4. Extends(t, u)
    BY <1>1, <1>3, ExtendsOn
  <1> QED BY <1>1, <1>3, <1>4 DEF u, e

LEMMA ParentEntered ==
  ASSUME NEW t, DirsOK(t), CacheOK(t), NEW p \in Paths, p # <<>>
  PROVE  LET u == WithParent(t, p)
         IN  DirsOK(u) /\ CacheOK(u) /\ u.cached = Parent(p) /\ Extends(t, u)
  <1>1. CASE Parent(p) = t.cached
    <2>1. WithParent(t, p) = t
      BY <1>1 DEF WithParent
    <2> QED BY <1>1, <2>1, ExtendsSelf
  <1>2. CASE Parent(p) # t.cached
    <2>1. WithParent(t, p) = CacheParent(EnsureDir(t, Parent(p)), Parent(p))
      BY <1>2 DEF WithParent
    <2>2. Parent(p) \in Paths
      BY ParentFacts
    <2> QED BY <2>1, <2>2, Entered
  <1> QED BY <1>1, <1>2

-----------------------------------------------------------------------------
(* Nodes of a transaction: the rows, and the sizes of directories. *)

NodesOK(S) ==
    /\ IsFiniteSet(S) /\ S \subseteq [path : Paths, type : STRING, size : Nat]
    /\ \A m, n \in S : m.path = n.path => m = n
    /\ \A n \in S : n.path # <<>>

\* The nodes that have a row, and those whose sizes go to directory d at once.
WithRow(S) == {n \in S : n.path # <<>>}
Direct(S, d) == {n \in S : ~IsDir(n) /\ Parent(n.path) = d}

NodeRow == [sid : Nat, parent : Nat, name : STRING, type : STRING, size : Nat]
RowOf(t, n) == [sid |-> t.sid, parent |-> t.dids[Parent(n.path)], name |-> Name(n.path), type |-> n.type, size |-> n.size]
RowsOf(t, S) == {RowOf(t, n) : n \in S}

\* The directories of the nodes added so far are interned, and have their sizes.
SizesOK(t, S) ==
    /\ \A n \in S : Parent(n.path) \in DOMAIN t.dids /\ (IsDir(n) => n.path \in DOMAIN t.dids)
    /\ \A q \in DOMAIN t.dids : t.sizes[Slot(t, q)] = TotalSize(Direct(S, q))

\* Each node added so far has one row, written or buffered.
RowsOK(t, S) ==
    /\ t.sid \in Nat /\ t.rows \in Seq(NodeRow) /\ t.buf \in Seq(NodeRow)
    /\ Lists(t.rows \o t.buf, RowsOf(t, S))

LEMMA SizesExtend ==
  ASSUME NEW t, NEW u, NEW S, SizesOK(t, S), Extends(t, u)
  PROVE  SizesOK(u, S)
  <1>1. ASSUME NEW q \in DOMAIN u.dids \ DOMAIN t.dids PROVE u.sizes[Slot(u, q)] = TotalSize(Direct(S, q))
    <2>1. Direct(S, q) = {}
      BY DEF Direct, SizesOK
    <2> QED BY <2>1, TotalEmpty DEF Extends
  <1>2. ASSUME NEW q \in DOMAIN t.dids PROVE u.sizes[Slot(u, q)] = TotalSize(Direct(S, q))
    BY DEF Extends, SizesOK
  <1> QED BY <1>1, <1>2 DEF SizesOK, Extends

LEMMA RowsExtend ==
  ASSUME NEW t, NEW u, NEW S, SizesOK(t, S), Extends(t, u)
  PROVE  RowsOf(u, S) = RowsOf(t, S)
  <1>1. ASSUME NEW n \in S PROVE RowOf(u, n) = RowOf(t, n)
    BY DEF RowOf, SizesOK, Extends
  <1> QED BY <1>1 DEF RowsOf

\* Directories have an id of their own, so no two nodes have the same row.
LEMMA IdsDiffer ==
  ASSUME NEW t, DirsOK(t), NEW p \in DOMAIN t.dids, NEW q \in DOMAIN t.dids, t.dids[p] = t.dids[q]
  PROVE  p = q
  <1>1. Slot(t, p) = Slot(t, q)
    BY DEF Slot
  <1>2. Placed(t, p) /\ Placed(t, q)
    BY DEF DirsOK
  <1> QED BY <1>1, <1>2 DEF Placed

LEMMA RowsDiffer ==
  ASSUME NEW t, DirsOK(t), NEW S, NodesOK(S), SizesOK(t, S), NEW m \in S, NEW n \in S, RowOf(t, m) = RowOf(t, n)
  PROVE  m = n
  <1>1. m.path \in Paths /\ n.path \in Paths /\ m.path # <<>> /\ n.path # <<>>
    BY DEF NodesOK
  <1>2. t.dids[Parent(m.path)] = t.dids[Parent(n.path)] /\ Name(m.path) = Name(n.path)
    BY DEF RowOf
  <1>3. Parent(m.path) = Parent(n.path)
    BY <1>2, IdsDiffer DEF SizesOK
  <1>4. m.path = n.path
    <2>1. Append(Parent(m.path), Name(m.path)) = m.path /\ Append(Parent(n.path), Name(n.path)) = n.path
      BY <1>1, ParentFacts
    <2> QED BY <1>2, <1>3, <2>1
  <1> QED BY <1>4 DEF NodesOK

LEMMA Appended ==
  ASSUME NEW s, NEW A, Lists(s, A), NEW x, x \notin A
  PROVE  Lists(Append(s, x), A \cup {x})
  <1>1. s \in Seq(A) /\ DOMAIN s = 1..Len(s) /\ Len(s) \in Nat
    BY DEF Lists
  <1>2. s \in Seq(A \cup {x})
    BY <1>1, SeqMonotone
  <1>3. Append(s, x) \in Seq(A \cup {x}) /\ DOMAIN Append(s, x) = 1..(Len(s) + 1)
    BY <1>2
  <1>4. \A i \in 1..(Len(s) + 1) : Append(s, x)[i] = IF i = Len(s) + 1 THEN x ELSE s[i]
    BY <1>2
  <1>5. \A i \in 1..Len(s) : s[i] \in A
    BY <1>1
  <1>6. ASSUME NEW i \in 1..(Len(s) + 1), NEW j \in 1..(Len(s) + 1), Append(s, x)[i] = Append(s, x)[j] PROVE i = j
    BY <1>1, <1>4, <1>5, <1>6 DEF Lists
  <1>7. ASSUME NEW y \in A \cup {x} PROVE \E i \in 1..(Len(s) + 1) : Append(s, x)[i] = y
    <2>1. CASE y = x
      BY <1>1, <1>4, <2>1
    <2>2. CASE y \in A
      <3>1. PICK i \in 1..Len(s) : s[i] = y
        BY <1>1, <2>2 DEF Lists
      <3>2. i \in 1..(Len(s) + 1) /\ Append(s, x)[i] = y
        BY <1>1, <1>4, <3>1
      <3> QED BY <3>2
    <2> QED BY <2>1, <2>2
  <1> QED BY <1>3, <1>6, <1>7 DEF Lists

\* A node of its own in the sizes.
LEMMA DirectAdd ==
  ASSUME NEW S, NEW n, NodesOK(S \cup {n}), n \notin S, NEW q
  PROVE  TotalSize(Direct(S \cup {n}, q)) = TotalSize(Direct(S, q)) + (IF ~IsDir(n) /\ Parent(n.path) = q THEN n.size ELSE 0)
  <1>1. Sized(Direct(S \cup {n}, q)) /\ n.size \in Nat
    <2>1. Direct(S \cup {n}, q) \in SUBSET (S \cup {n})
      BY DEF Direct
    <2>2. Sized(S \cup {n})
      BY DEF Sized, NodesOK
    <2> QED BY <2>1, <2>2, Subsets DEF Sized
  <1>2. CASE ~IsDir(n) /\ Parent(n.path) = q
    <2>1. n \in Direct(S \cup {n}, q) /\ Direct(S \cup {n}, q) \ {n} = Direct(S, q)
      BY <1>2 DEF Direct
    <2>2. TotalSize(Direct(S \cup {n}, q)) = n.size + TotalSize(Direct(S, q))
      BY <1>1, <2>1, TotalRemove
    <2>3. Sized(Direct(S, q))
      BY <1>1, <2>1, Subsets
    <2>4. TotalSize(Direct(S, q)) \in Nat
      BY <2>3, TotalRemove
    <2> QED BY <1>1, <1>2, <2>2, <2>4
  <1>3. CASE ~(~IsDir(n) /\ Parent(n.path) = q)
    <2>1. Direct(S \cup {n}, q) = Direct(S, q)
      BY <1>3 DEF Direct
    <2>2. TotalSize(Direct(S, q)) \in Nat
      BY <1>1, <2>1, TotalRemove
    <2> QED BY <1>3, <2>1, <2>2
  <1> QED BY <1>2, <1>3

\* A directory is interned and entered, another node's size goes to its parent.
LEMMA SizesAdd ==
  ASSUME NEW u, DirsOK(u), CacheOK(u), NEW S, SizesOK(u, S), NEW n, n \notin S, NodesOK(S \cup {n}),
         u.cached = Parent(n.path)
  PROVE  LET v == IF IsDir(n) THEN CacheParent(EnsureDir(u, n.path), n.path)
                  ELSE [u EXCEPT !.sizes[u.cachedDID - u.firstDID + 1] = @ + n.size]
         IN  /\ DirsOK(v) /\ CacheOK(v) /\ SizesOK(v, S \cup {n}) /\ SameRest(u, v) /\ v.firstDID = u.firstDID
             /\ \A q \in DOMAIN u.dids : q \in DOMAIN v.dids /\ v.dids[q] = u.dids[q]
  <1> DEFINE v == IF IsDir(n) THEN CacheParent(EnsureDir(u, n.path), n.path)
                  ELSE [u EXCEPT !.sizes[u.cachedDID - u.firstDID + 1] = @ + n.size]
  <1>1. n.path \in Paths /\ n.size \in Nat
    BY DEF NodesOK
  <1>2. Parent(n.path) \in DOMAIN u.dids /\ u.cachedDID = u.dids[Parent(n.path)]
    BY DEF CacheOK
  <1>3. CASE IsDir(n)
    <2>1. v = CacheParent(EnsureDir(u, n.path), n.path)
      BY <1>3
    <2>2. DirsOK(v) /\ CacheOK(v) /\ v.cached = n.path /\ Extends(u, v)
      <3> DEFINE p == n.path
      <3>1. p \in Paths
        BY <1>1
      <3> HIDE DEF p
      <3>2. LET e == CacheParent(EnsureDir(u, p), p) IN DirsOK(e) /\ CacheOK(e) /\ e.cached = p /\ Extends(u, e)
        BY <3>1, Entered
      <3> QED BY <2>1, <3>2 DEF p
    <2> HIDE DEF v
    <2>3. SizesOK(v, S)
      BY <2>2, SizesExtend
    <2>4. \A q \in DOMAIN v.dids : TotalSize(Direct(S \cup {n}, q)) = TotalSize(Direct(S, q))
      <3>1. \A q : Direct(S \cup {n}, q) = Direct(S, q)
        BY <1>3 DEF Direct
      <3> QED BY <3>1
    <2>5. n.path \in DOMAIN v.dids /\ Parent(n.path) \in DOMAIN v.dids
      BY <1>2, <2>2 DEF CacheOK, Extends
    <2>6. SizesOK(v, S \cup {n})
      BY <2>3, <2>4, <2>5 DEF SizesOK
    <2> QED BY <2>2, <2>6 DEF Extends, SameRest, v
  <1>4. CASE ~IsDir(n)
    <2> DEFINE k == u.cachedDID - u.firstDID + 1
    <2>1. v = [u EXCEPT !.sizes[k] = @ + n.size]
      BY <1>4
    <2>2. k = Slot(u, Parent(n.path)) /\ k \in 1..Len(u.sizes) /\ u.sizes \in Seq(Nat) /\ IsTx(u)
      BY <1>2 DEF Slot, DirsOK, Placed
    <2> HIDE DEF v, k
    <2>3. v.sizes = [u.sizes EXCEPT ![k] = @ + n.size] /\ SameDirs(u, v) /\ SameRest(u, v) /\ IsTx(v)
          /\ v.cached = u.cached /\ v.cachedDID = u.cachedDID
      BY <2>1, <2>2 DEF IsTx, SameDirs, SameRest
    <2>4. v.sizes \in Seq(Nat) /\ Len(v.sizes) = Len(u.sizes)
      BY <1>1, <2>2, <2>3
    <2>5. \A i \in 1..Len(u.sizes) : v.sizes[i] = u.sizes[i] + (IF i = k THEN n.size ELSE 0)
      BY <1>1, <2>2, <2>3
    <2>6. DirsOK(v)
      BY <2>3, <2>4, DirsKept
    <2>7. ASSUME NEW q \in DOMAIN v.dids PROVE v.sizes[Slot(v, q)] = TotalSize(Direct(S \cup {n}, q))
      <3>1. q \in DOMAIN u.dids /\ Slot(v, q) = Slot(u, q) /\ Slot(u, q) \in 1..Len(u.sizes)
        BY <2>3 DEF SameDirs, Slot, DirsOK, Placed
      <3>2. Slot(u, q) = k <=> q = Parent(n.path)
        <4>1. Placed(u, q) /\ Placed(u, Parent(n.path))
          BY <1>2, <3>1 DEF DirsOK
        <4> QED BY <2>2, <4>1 DEF Placed
      <3>3. u.sizes[Slot(u, q)] = TotalSize(Direct(S, q))
        BY <3>1 DEF SizesOK
      <3>4. v.sizes[Slot(u, q)] = u.sizes[Slot(u, q)] + (IF Slot(u, q) = k THEN n.size ELSE 0)
        BY <2>5, <3>1
      <3>5. TotalSize(Direct(S \cup {n}, q)) = TotalSize(Direct(S, q)) + (IF ~IsDir(n) /\ Parent(n.path) = q THEN n.size ELSE 0)
        BY DirectAdd
      <3> QED BY <1>4, <3>1, <3>2, <3>3, <3>4, <3>5
    <2>8. v.dids = u.dids
      BY <2>3 DEF SameDirs
    <2>9. SizesOK(v, S \cup {n})
      BY <1>2, <1>4, <2>7, <2>8 DEF SizesOK
    <2>10. CacheOK(v) /\ v.firstDID = u.firstDID
      BY <2>3 DEF CacheOK, SameDirs
    <2> QED BY <2>3, <2>6, <2>8, <2>9, <2>10 DEF v
  <1> QED BY <1>3, <1>4

LEMMA AppendLast ==
  ASSUME NEW V, NEW a \in Seq(V), NEW b \in Seq(V), NEW x \in V
  PROVE  Append(b, x) \in Seq(V) /\ a \o Append(b, x) = Append(a \o b, x)
  <1> DEFINE c == Append(b, x)
             d == a \o b
  <1>1. /\ c \in Seq(V) /\ Len(c) = Len(b) + 1 /\ Len(a) \in Nat /\ Len(b) \in Nat
        /\ \A i \in 1..Len(b) : c[i] = b[i]
        /\ c[Len(b) + 1] = x
    OBVIOUS
  <1> HIDE DEF c
  <1>2. IsConcat(d, a, b, V) /\ IsConcat(a \o c, a, c, V)
    BY <1>1, Concatenated
  <1> HIDE DEF d
  <1>3. /\ Append(d, x) \in Seq(V) /\ Len(Append(d, x)) = Len(d) + 1 /\ Append(d, x)[Len(d) + 1] = x
        /\ \A i \in 1..Len(d) : Append(d, x)[i] = d[i]
    <2>1. d \in Seq(V)
      BY <1>2 DEF IsConcat
    <2> QED BY ONLY <2>1, x \in V
  <1>4. Len(d) = Len(a) + Len(b) /\ Len(a \o c) = Len(a) + Len(b) + 1 /\ a \o c \in Seq(V)
    BY <1>1, <1>2 DEF IsConcat
  <1>5. ASSUME NEW i \in 1..Len(a \o c) PROVE (a \o c)[i] = Append(d, x)[i]
    <2>1. CASE i \in 1..Len(a)
      <3>1. i \in 1..Len(d)
        BY <1>1, <1>4, <2>1
      <3> QED BY <1>2, <1>3, <2>1, <3>1 DEF IsConcat
    <2>2. CASE i \notin 1..Len(a)
      <3> DEFINE j == i - Len(a)
      <3>1. j \in 1..Len(c) /\ i = Len(a) + j
        BY <1>1, <1>4, <2>2
      <3> HIDE DEF j
      <3>2. (a \o c)[Len(a) + j] = c[j]
        BY <1>2, <3>1 DEF IsConcat
      <3>3. CASE j \in 1..Len(b)
        <4>1. Len(a) + j \in 1..Len(d) /\ d[Len(a) + j] = b[j]
          BY <1>1, <1>2, <1>4, <3>3 DEF IsConcat
        <4>2. Append(d, x)[Len(a) + j] = d[Len(a) + j]
          BY <1>3, <4>1
        <4> QED BY <1>1, <3>1, <3>2, <3>3, <4>1, <4>2
      <3>4. CASE j \notin 1..Len(b)
        <4>1. j = Len(b) + 1 /\ Len(a) + j = Len(d) + 1
          BY <1>1, <1>4, <3>1, <3>4
        <4> QED BY <1>1, <1>3, <3>1, <3>2, <4>1
      <3> QED BY <3>3, <3>4
    <2> QED BY <2>1, <2>2
  <1>6. a \o c = Append(d, x)
    BY ONLY <1>3, <1>4, <1>5, SamePath
  <1> QED BY <1>1, <1>6 DEF c, d

LEMMA Buffered ==
  ASSUME NEW t, DirsOK(t), CacheOK(t), NEW S, SizesOK(t, S), NEW n, n \notin S, NodesOK(S \cup {n})
  PROVE  LET w == Buffer(t, n)
         IN  /\ DirsOK(w) /\ CacheOK(w) /\ SizesOK(w, S \cup {n}) /\ (RowsOK(t, S) => RowsOK(w, S \cup {n}))
             /\ w.snap = t.snap /\ w.sid = t.sid /\ w.left = t.left /\ w.firstDID = t.firstDID /\ w.failed = t.failed
  <1> DEFINE u == WithParent(t, n.path)
             v == IF IsDir(n) THEN CacheParent(EnsureDir(u, n.path), n.path)
                  ELSE [u EXCEPT !.sizes[u.cachedDID - u.firstDID + 1] = @ + n.size]
             r == [sid |-> t.sid, parent |-> u.cachedDID, name |-> Name(n.path), type |-> n.type, size |-> n.size]
             w == Buffer(t, n)
  <1>1. w = [v EXCEPT !.buf = Append(@, r), !.sinceCheck = @ + 1]
    BY DEF Buffer
  <1>2. n.path \in Paths /\ n.path # <<>> /\ n.type \in STRING /\ n.size \in Nat
    BY DEF NodesOK
  <1>3. DirsOK(u) /\ CacheOK(u) /\ u.cached = Parent(n.path) /\ Extends(t, u)
    BY <1>2, ParentEntered
  <1> HIDE DEF u, w
  <1>4. SizesOK(u, S)
    BY <1>3, SizesExtend
  <1>5. /\ DirsOK(v) /\ CacheOK(v) /\ SizesOK(v, S \cup {n}) /\ SameRest(u, v) /\ v.firstDID = u.firstDID
        /\ \A q \in DOMAIN u.dids : q \in DOMAIN v.dids /\ v.dids[q] = u.dids[q]
    <2>1. DirsOK(u) /\ CacheOK(u) /\ u.cached = Parent(n.path)
      BY <1>3
    <2> QED BY ONLY <2>1, <1>4, n \notin S, NodesOK(S \cup {n}), SizesAdd
  <1> HIDE DEF v, r
  <1>6. IsTx(v)
    BY <1>5 DEF DirsOK
  <1>7. /\ IsTx(w) /\ SameDirs(v, w) /\ w.sizes = v.sizes /\ w.cached = v.cached /\ w.cachedDID = v.cachedDID
        /\ w.buf = Append(v.buf, r) /\ w.rows = v.rows /\ w.sid = v.sid
        /\ w.snap = v.snap /\ w.left = v.left /\ w.failed = v.failed
    BY <1>1, <1>6 DEF IsTx, SameDirs
  <1>8. DirsOK(w)
    <2>1. w.sizes \in Seq(Nat) /\ Len(w.sizes) = Len(v.sizes)
      BY <1>5, <1>7 DEF DirsOK
    <2> QED BY <1>5, <1>7, <2>1, DirsKept
  <1>9. CacheOK(w)
    BY <1>5, <1>7 DEF CacheOK, SameDirs
  <1>10. \A q \in DOMAIN v.dids : Slot(w, q) = Slot(v, q)
    BY <1>7 DEF SameDirs, Slot
  <1>11. SizesOK(w, S \cup {n})
    BY <1>5, <1>7, <1>10 DEF SizesOK, SameDirs
  <1>12. w.snap = t.snap /\ w.sid = t.sid /\ w.left = t.left /\ w.firstDID = t.firstDID /\ w.failed = t.failed
    BY <1>3, <1>5, <1>7 DEF Extends, SameRest, SameDirs
  <1>13. w.rows = t.rows /\ w.buf = Append(t.buf, r)
    BY <1>3, <1>5, <1>7 DEF Extends, SameRest
  <1>14. ASSUME RowsOK(t, S) PROVE RowsOK(w, S \cup {n})
    <2>1. Parent(n.path) \in DOMAIN u.dids /\ u.cachedDID = u.dids[Parent(n.path)]
      BY <1>3 DEF CacheOK
    <2>2. w.dids[Parent(n.path)] = u.cachedDID
      BY <1>5, <1>7, <2>1 DEF SameDirs
    <2>3. RowOf(w, n) = r
      BY <1>12, <2>2 DEF RowOf, r
    <2>4. ASSUME NEW m \in S PROVE RowOf(w, m) = RowOf(t, m)
      <3>1. w.dids[Parent(m.path)] = t.dids[Parent(m.path)]
        BY <1>3, <1>5, <1>7 DEF SizesOK, Extends, SameDirs
      <3> QED BY <1>12, <3>1 DEF RowOf
    <2>5. RowsOf(w, S \cup {n}) = RowsOf(t, S) \cup {r}
      BY <2>3, <2>4 DEF RowsOf
    <2>6. r \notin RowsOf(t, S)
      <3> SUFFICES ASSUME NEW m \in S, r = RowOf(t, m) PROVE FALSE
        BY DEF RowsOf
      <3>1. RowOf(w, m) = RowOf(w, n)
        BY <2>3, <2>4
      <3>2. m = n
        BY <1>8, <1>11, <3>1, RowsDiffer
      <3> QED BY <3>2
    <2>7. u.cachedDID \in Nat /\ t.sid \in Nat /\ Name(n.path) \in STRING
      BY <1>2, <1>3, <1>14, <2>1, ParentFacts DEF DirsOK, RowsOK
    <2>8. r \in NodeRow
      BY <1>2, <2>7 DEF NodeRow, r
    <2>9. w.rows \o w.buf = Append(t.rows \o t.buf, r) /\ w.buf \in Seq(NodeRow)
      <3>1. t.rows \in Seq(NodeRow) /\ t.buf \in Seq(NodeRow)
        BY <1>14 DEF RowsOK
      <3>2. Append(t.buf, r) \in Seq(NodeRow) /\ t.rows \o Append(t.buf, r) = Append(t.rows \o t.buf, r)
        <4> DEFINE a == t.rows
                   b == t.buf
                   V == NodeRow
        <4>1. a \in Seq(V) /\ b \in Seq(V) /\ r \in V
          BY <2>8, <3>1
        <4> HIDE DEF a, b, V
        <4>2. Append(b, r) \in Seq(V) /\ a \o Append(b, r) = Append(a \o b, r)
          BY ONLY <4>1, AppendLast
        <4> QED BY <4>2 DEF a, b, V
      <3> QED BY <1>13, <3>2
    <2>10. Lists(Append(t.rows \o t.buf, r), RowsOf(t, S) \cup {r})
      BY <1>14, <2>6, Appended DEF RowsOK
    <2> QED BY <1>12, <1>13, <1>14, <2>5, <2>9, <2>10 DEF RowsOK
  <1> QED BY <1>8, <1>9, <1>11, <1>12, <1>14 DEF w

-----------------------------------------------------------------------------
(* The sizes of whole trees: foldSubtreeSizes. *)

\* The child of d through which the path p goes.
Child(p, d) == SubSeq(p, 1, Len(d) + 1)
Under(S, d) == {n \in S : ~IsDir(n) /\ IsUnder(n.path, d)}

\* What of that is in the size of d when the directories behind place m have
\* been added to their parents.
Reached(t, S, d, m) == {n \in Under(S, d) : Parent(n.path) = d \/ Slot(t, Child(n.path, d)) > m}

LEMMA ChildInterned ==
  ASSUME NEW t, DirsOK(t), NEW S, NodesOK(S), SizesOK(t, S), NEW d \in DOMAIN t.dids, NEW n \in Under(S, d),
         Parent(n.path) # d
  PROVE  LET c == Child(n.path, d)
         IN  /\ c \in DOMAIN t.dids /\ c # <<>> /\ Parent(c) = d /\ IsUnder(n.path, c)
             /\ Slot(t, d) < Slot(t, c) /\ Slot(t, c) \in 1..Len(t.dirBuf)
  <1> DEFINE c == Child(n.path, d)
             p == n.path
  <1>1. d \in Paths /\ p \in Paths /\ p # <<>> /\ IsUnder(p, d) /\ Parent(p) \in DOMAIN t.dids
    BY DEF DirsOK, NodesOK, SizesOK, Under
  <1>2. Len(p) \in Nat \ {0} /\ Parent(p) \in Paths /\ Len(Parent(p)) = Len(p) - 1 /\ Len(d) \in Nat
    <2> HIDE DEF p
    <2> QED BY <1>1, ParentFacts DEF Paths
  <1>3. c \in Paths /\ c # <<>> /\ Parent(c) = d /\ IsUnder(p, c) /\ Len(d) + 1 \in 1..Len(Parent(p))
    <2> HIDE DEF p
    <2> QED BY <1>1, UnderGrandchild DEF Child, p
  <1> DEFINE k == Len(d) + 1
  <1>4. k \in 0..Len(Parent(p)) /\ Len(p) - 1 \in 0..Len(p) /\ k \in 0..(Len(p) - 1)
    BY <1>2, <1>3
  <1>5. c = SubSeq(Parent(p), 1, k)
    <2>1. c = SubSeq(p, 1, k)
      BY DEF Child
    <2> HIDE DEF c, k, p
    <2>2. SubSeq(SubSeq(p, 1, Len(p) - 1), 1, k) = SubSeq(p, 1, k)
      BY <1>1, <1>4, PrefixOfPrefix DEF Paths
    <2> QED BY <2>1, <2>2 DEF Parent
  <1>6. c \in DOMAIN t.dids
    <2> HIDE DEF c, k, p
    <2> QED BY <1>1, <1>4, <1>5, Chain
  <1> HIDE DEF c, k, p
  <1>7. Placed(t, c) /\ t.dids[d] \in Nat /\ t.dids[c] \in Nat /\ t.firstDID \in Nat
    BY <1>6 DEF DirsOK
  <1>8. Slot(t, d) < Slot(t, c) /\ Slot(t, c) \in 1..Len(t.dirBuf)
    BY <1>3, <1>7 DEF Placed, Slot
  <1> QED BY <1>3, <1>6, <1>8 DEF c, p

\* At first the size of a directory has what is right in it, in the end all.
LEMMA ReachedEnds ==
  ASSUME NEW t, DirsOK(t), NEW S, NodesOK(S), SizesOK(t, S), NEW d \in DOMAIN t.dids
  PROVE  /\ Reached(t, S, d, Len(t.dirBuf)) = Direct(S, d)
         /\ Reached(t, S, d, 0) = Under(S, d)
         /\ Reached(t, S, d, Slot(t, d)) = Under(S, d)
  <1>1. \A n \in Direct(S, d) : n \in Under(S, d)
    <2> SUFFICES ASSUME NEW n \in S, ~IsDir(n), Parent(n.path) = d PROVE IsUnder(n.path, d)
      BY DEF Direct, Under
    <2>1. n.path \in Paths /\ n.path # <<>> /\ d \in Paths
      BY DEF NodesOK, DirsOK
    <2> QED BY <2>1, UnderChild
  <1>2. \A n \in Under(S, d) : n \in S /\ ~IsDir(n)
    BY DEF Under
  <1>3. Len(t.dirBuf) \in Nat /\ Slot(t, d) \in Nat
    BY DEF DirsOK, Placed
  <1>4. ASSUME NEW n \in Under(S, d), Parent(n.path) # d
        PROVE  LET i == Slot(t, Child(n.path, d)) IN i \in Nat /\ ~(i > Len(t.dirBuf)) /\ i > 0 /\ i > Slot(t, d)
    <2> DEFINE i == Slot(t, Child(n.path, d))
    <2>1. Slot(t, d) < i /\ i \in 1..Len(t.dirBuf)
      BY <1>4, ChildInterned
    <2> HIDE DEF i
    <2>2. i \in Nat /\ ~(i > Len(t.dirBuf)) /\ i > 0 /\ i > Slot(t, d)
      BY <1>3, <2>1
    <2> QED BY <2>2 DEF i
  <1>5. Reached(t, S, d, Len(t.dirBuf)) = Direct(S, d)
    BY <1>1, <1>2, <1>4 DEF Reached, Direct
  <1>6. Reached(t, S, d, 0) = Under(S, d) /\ Reached(t, S, d, Slot(t, d)) = Under(S, d)
    BY <1>4 DEF Reached
  <1> QED BY <1>5, <1>6

\* The directory at place m has all that is under it, and gives it to its parent.
LEMMA ReachedStep ==
  ASSUME NEW t, DirsOK(t), NEW S, NodesOK(S), SizesOK(t, S), NEW c \in DOMAIN t.dids, NEW d \in DOMAIN t.dids,
         NEW m \in Nat, m + 1 = Slot(t, c)
  PROVE  /\ c # <<>> /\ Parent(c) = d =>
               /\ Reached(t, S, d, m) = Reached(t, S, d, m + 1) \cup Under(S, c)
               /\ Reached(t, S, d, m + 1) \cap Under(S, c) = {}
         /\ ~(c # <<>> /\ Parent(c) = d) => Reached(t, S, d, m) = Reached(t, S, d, m + 1)
  <1> DEFINE At(n) == Slot(t, Child(n.path, d))
  <1>1. c \in Paths /\ d \in Paths /\ \A n \in S : n.path \in Paths /\ n.path # <<>>
    BY DEF DirsOK, NodesOK
  <1>2. ASSUME NEW n \in Under(S, d), Parent(n.path) # d
        PROVE  /\ At(n) \in Nat /\ (At(n) = m + 1 => Child(n.path, d) = c)
               /\ Child(n.path, d) # <<>> /\ Parent(Child(n.path, d)) = d /\ IsUnder(n.path, Child(n.path, d))
    <2> DEFINE e == Child(n.path, d)
    <2>1. e \in DOMAIN t.dids /\ e # <<>> /\ Parent(e) = d /\ IsUnder(n.path, e) /\ Slot(t, e) \in 1..Len(t.dirBuf)
      BY <1>2, ChildInterned
    <2> HIDE DEF e
    <2>2. ASSUME Slot(t, e) = Slot(t, c) PROVE e = c
      <3>1. Placed(t, e) /\ Placed(t, c)
        BY <2>1 DEF DirsOK
      <3> QED BY <2>2, <3>1 DEF Placed
    <2>3. Slot(t, e) \in Nat
      BY <2>1
    <2> QED BY <2>1, <2>2, <2>3 DEF e
  <1>3. \A n \in Under(S, d) : Parent(n.path) # d => (At(n) > m <=> At(n) > m + 1 \/ At(n) = m + 1)
    <2> SUFFICES ASSUME NEW n \in Under(S, d), Parent(n.path) # d
                 PROVE  At(n) > m <=> At(n) > m + 1 \/ At(n) = m + 1
      OBVIOUS
    <2>1. At(n) \in Nat
      BY <1>2
    <2> HIDE DEF At
    <2> QED BY <2>1
  <1>4. CASE c # <<>> /\ Parent(c) = d
    <2>1. ASSUME NEW n \in Under(S, c)
          PROVE  n \in Under(S, d) /\ Parent(n.path) # d /\ Child(n.path, d) = c
      <3>1. n \in S /\ ~IsDir(n) /\ IsUnder(n.path, c)
        BY <2>1 DEF Under
      <3>2. IsUnder(n.path, d) /\ Parent(n.path) # d /\ c = SubSeq(n.path, 1, Len(d) + 1)
        BY <1>1, <1>4, <3>1, UnderGrandchild
      <3> QED BY <3>1, <3>2 DEF Under, Child
    <2>2. \A n \in Under(S, c) : At(n) = m + 1
      BY <2>1
    <2>3. ASSUME NEW n \in Under(S, d), Parent(n.path) # d, At(n) = m + 1 PROVE n \in Under(S, c)
      <3>1. IsUnder(n.path, c)
        BY <1>2, <2>3
      <3> QED BY <3>1 DEF Under
    <2>4. Reached(t, S, d, m + 1) \cap Under(S, c) = {}
      <3> SUFFICES ASSUME NEW n \in Reached(t, S, d, m + 1), n \in Under(S, c) PROVE FALSE
        OBVIOUS
      <3>1. At(n) = m + 1 /\ Parent(n.path) # d
        BY <2>1, <2>2
      <3>2. At(n) > m + 1
        BY <3>1 DEF Reached
      <3> HIDE DEF At
      <3> QED BY <3>1, <3>2
    <2>5. Reached(t, S, d, m) = Reached(t, S, d, m + 1) \cup Under(S, c)
      <3>1. ASSUME NEW n \in Reached(t, S, d, m) PROVE n \in Reached(t, S, d, m + 1) \cup Under(S, c)
        <4>1. n \in Under(S, d) /\ (Parent(n.path) = d \/ At(n) > m)
          BY <3>1 DEF Reached
        <4>2. Parent(n.path) = d \/ At(n) > m + 1 \/ n \in Under(S, c)
          BY <1>3, <2>3, <4>1
        <4> QED BY <4>1, <4>2 DEF Reached
      <3>2. ASSUME NEW n \in Reached(t, S, d, m + 1) PROVE n \in Reached(t, S, d, m)
        <4>1. n \in Under(S, d) /\ (Parent(n.path) = d \/ At(n) > m + 1)
          BY <3>2 DEF Reached
        <4>2. Parent(n.path) = d \/ At(n) > m
          BY <1>3, <4>1
        <4> QED BY <4>1, <4>2 DEF Reached
      <3>3. ASSUME NEW n \in Under(S, c) PROVE n \in Reached(t, S, d, m)
        <4>1. n \in Under(S, d) /\ At(n) > m
          BY <1>3, <2>1, <2>2
        <4> QED BY <4>1 DEF Reached
      <3> QED BY <3>1, <3>2, <3>3
    <2> QED BY <1>4, <2>4, <2>5
  <1>5. CASE ~(c # <<>> /\ Parent(c) = d)
    <2>1. \A n \in Under(S, d) : Parent(n.path) # d => At(n) # m + 1
      BY <1>2, <1>5
    <2>2. \A n \in Under(S, d) : Parent(n.path) # d => (At(n) > m <=> At(n) > m + 1)
      BY <1>3, <2>1
    <2>3. Reached(t, S, d, m) = Reached(t, S, d, m + 1)
      BY <2>2 DEF Reached
    <2> QED BY <1>5, <2>3
  <1> QED BY <1>4, <1>5

\* One step of foldSubtreeSizes.
Into(t, sizes, row) ==
    IF row.parent >= t.firstDID
      THEN [sizes EXCEPT ![row.parent - t.firstDID + 1] = @ + sizes[row.did - t.firstDID + 1]]
      ELSE sizes

\* The passes of FoldSizes: one for each directory, the last first.
IsFold(t, f) ==
    f = [k \in 0..Len(t.dirBuf) |-> IF k = 0 THEN t.sizes ELSE Into(t, f[k - 1], t.dirBuf[Len(t.dirBuf) + 1 - k])]

LEMMA FoldIsChosen == \A t : FoldSizes(t) = (CHOOSE f : IsFold(t, f))[Len(t.dirBuf)]
  BY DEF FoldSizes, IsFold, Into

LEMMA IntoType ==
  ASSUME NEW t, DirsOK(t), NEW sizes \in [1..Len(t.dirBuf) -> Nat], NEW j \in 1..Len(t.dirBuf)
  PROVE  Into(t, sizes, t.dirBuf[j]) \in [1..Len(t.dirBuf) -> Nat]
  <1> DEFINE row == t.dirBuf[j]
             n == Len(t.dirBuf)
  <1>1. PICK q \in DOMAIN t.dids : Slot(t, q) = j
    BY DEF DirsOK
  <1>2. row.did - t.firstDID + 1 = j
    BY <1>1 DEF DirsOK, Placed, Slot
  <1>3. sizes[j] \in Nat
    OBVIOUS
  <1> DEFINE i == row.parent - t.firstDID + 1
  <1>4. Into(t, sizes, row) = IF row.parent >= t.firstDID THEN [sizes EXCEPT ![i] = @ + sizes[j]] ELSE sizes
    BY <1>2 DEF Into
  <1>5. [sizes EXCEPT ![i] = @ + sizes[j]] \in [1..n -> Nat]
    <2>1. sizes \in [1..n -> Nat]
      OBVIOUS
    <2> DEFINE I == 1..n
               v == sizes[j]
    <2>2. v \in Nat /\ sizes \in [I -> Nat]
      BY <1>3, <2>1
    <2> HIDE DEF i, I, v
    <2>3. ASSUME NEW k \in I PROVE [sizes EXCEPT ![i] = @ + v][k] \in Nat
      <3>1. sizes[k] \in Nat
        BY <2>2
      <3>2. k \in DOMAIN sizes
        BY <2>2
      <3>3. [sizes EXCEPT ![i] = @ + v][k] = IF k = i THEN sizes[k] + v ELSE sizes[k]
        BY <3>2
      <3> QED BY <2>2, <3>1, <3>3
    <2>4. [sizes EXCEPT ![i] = @ + v] \in [I -> Nat]
      BY <2>2, <2>3
    <2> QED BY <2>4 DEF I, v
  <1> HIDE DEF row, i, n
  <1> QED BY <1>4, <1>5 DEF n, row

LEMMA FoldExists ==
  ASSUME NEW t, DirsOK(t)
  PROVE  \E f : IsFold(t, f) /\ f \in [0..Len(t.dirBuf) -> [1..Len(t.dirBuf) -> Nat]]
  <1> DEFINE n == Len(t.dirBuf)
             V == [1..n -> Nat]
             step == [p \in (1..n) \X V |-> Into(t, p[2], t.dirBuf[n + 1 - p[1]])]
  <1>1. n \in Nat /\ t.sizes \in V
    BY DEF DirsOK
  <1>2. IsStep(step, n, V)
    <2>1. ASSUME NEW p \in (1..n) \X V PROVE Into(t, p[2], t.dirBuf[n + 1 - p[1]]) \in V
      <3>1. n + 1 - p[1] \in 1..n /\ p[2] \in V
        BY <1>1
      <3> QED BY <3>1, IntoType
    <2> HIDE DEF V, n
    <2> QED BY ONLY <2>1 DEF IsStep
  <1>3. PICK f : Iterates(f, step, t.sizes, n, V)
    <2> HIDE DEF V, step, n
    <2> QED BY ONLY <1>1, <1>2, Recursion
  <1>4. f \in [0..n -> V] /\ f[0] = t.sizes /\ \A k \in 1..n : f[k] = step[<<k, f[k - 1]>>]
    BY <1>3 DEF Iterates
  <1>5. ASSUME NEW k \in 1..n PROVE f[k] = Into(t, f[k - 1], t.dirBuf[n + 1 - k])
    <2>1. k - 1 \in 0..n
      BY <1>1
    <2>2. <<k, f[k - 1]>> \in (1..n) \X V
      <3> HIDE DEF V, n
      <3> QED BY <1>4, <2>1
    <2>3. step[<<k, f[k - 1]>>] = Into(t, f[k - 1], t.dirBuf[n + 1 - k])
      <3> HIDE DEF V, n
      <3> QED BY <2>2
    <2> HIDE DEF V, n, step
    <2> QED BY <1>4, <2>3
  <1>6. f = [k \in 0..n |-> IF k = 0 THEN t.sizes ELSE Into(t, f[k - 1], t.dirBuf[n + 1 - k])]
    <2>1. ASSUME NEW k \in 0..n PROVE f[k] = IF k = 0 THEN t.sizes ELSE Into(t, f[k - 1], t.dirBuf[n + 1 - k])
      <3>1. k = 0 \/ k \in 1..n
        BY <1>1
      <3> HIDE DEF V, n, step
      <3> QED BY <1>4, <1>5, <3>1
    <2> HIDE DEF V, n, step
    <2> QED BY <1>4, <2>1
  <1> QED BY <1>4, <1>6 DEF IsFold

\* However deep the tree and in whatever order its directories were interned as
\* long as parents came first, every directory gets the size of all under it.
LEMMA Folded ==
  ASSUME NEW t, DirsOK(t), NEW S, NodesOK(S), SizesOK(t, S)
  PROVE  \A d \in DOMAIN t.dids : FoldSizes(t)[Slot(t, d)] = TotalSize(Under(S, d))
  <1> DEFINE n == Len(t.dirBuf)
             first == t.firstDID
  <1>1. PICK f : IsFold(t, f) /\ FoldSizes(t) = f[n]
    <2>1. \E f : IsFold(t, f)
      BY FoldExists
    <2> QED BY <2>1, FoldIsChosen
  <1>2. /\ n \in Nat /\ first \in Nat \ {0} /\ f[0] = t.sizes
        /\ \A k \in 1..n : f[k] = Into(t, f[k - 1], t.dirBuf[n + 1 - k])
    <2>1. n \in Nat /\ first \in Nat \ {0}
      BY DEF DirsOK
    <2>2. f = [k \in 0..n |-> IF k = 0 THEN t.sizes ELSE Into(t, f[k - 1], t.dirBuf[n + 1 - k])]
      BY <1>1 DEF IsFold
    <2>3. 0 \in 0..n /\ \A k \in 1..n : k \in 0..n /\ k # 0
      BY <2>1
    <2> HIDE DEF n, first
    <2> QED BY <2>1, <2>2, <2>3
  <1>3. ASSUME NEW d \in DOMAIN t.dids
        PROVE  /\ Slot(t, d) \in 1..n /\ t.dirBuf[Slot(t, d)].did - first + 1 = Slot(t, d)
               /\ d = <<>> => ~(t.dirBuf[Slot(t, d)].parent >= first)
               /\ d # <<>> => /\ Parent(d) \in DOMAIN t.dids /\ t.dirBuf[Slot(t, d)].parent >= first
                              /\ t.dirBuf[Slot(t, d)].parent - first + 1 = Slot(t, Parent(d))
    <2>1. Placed(t, d)
      BY DEF DirsOK
    <2>2. d # <<>> => Parent(d) \in DOMAIN t.dids /\ Placed(t, Parent(d)) /\ t.dids[Parent(d)] \in Nat
      BY <2>1 DEF DirsOK, Placed
    <2> QED BY <1>2, <2>1, <2>2 DEF Placed, Slot
  <1>4. ASSUME NEW c \in DOMAIN t.dids, NEW d \in DOMAIN t.dids, Slot(t, c) = Slot(t, d) PROVE c = d
    <2>1. Placed(t, c) /\ Placed(t, d)
      BY DEF DirsOK
    <2> QED BY <1>4, <2>1 DEF Placed
  <1>5. \A d \in DOMAIN t.dids, m \in Nat : Sized(Reached(t, S, d, m)) /\ Sized(Under(S, d))
    <2> SUFFICES ASSUME NEW d \in DOMAIN t.dids, NEW m \in Nat PROVE Sized(Reached(t, S, d, m)) /\ Sized(Under(S, d))
      OBVIOUS
    <2>1. Reached(t, S, d, m) \in SUBSET S /\ Under(S, d) \in SUBSET S
      BY DEF Reached, Under
    <2>2. Sized(S)
      BY DEF Sized, NodesOK
    <2> QED BY <2>1, <2>2, Subsets
  <1>6. f[0] \in [1..n -> Nat]
    BY <1>2 DEF DirsOK
  <1>7. \A k \in 1..n : f[k - 1] \in [1..n -> Nat] => f[k] \in [1..n -> Nat]
    <2> SUFFICES ASSUME NEW k \in 1..n, f[k - 1] \in [1..n -> Nat] PROVE f[k] \in [1..n -> Nat]
      OBVIOUS
    <2>1. n + 1 - k \in 1..n
      BY <1>2
    <2>2. f[k] = Into(t, f[k - 1], t.dirBuf[n + 1 - k])
      BY <1>2
    <2> QED BY <2>1, <2>2, IntoType
  <1> HIDE DEF n, first
  <1> DEFINE P == {k \in 0..n : /\ f[k] \in [1..n -> Nat]
                                /\ \A d \in DOMAIN t.dids : f[k][Slot(t, d)] = TotalSize(Reached(t, S, d, n - k))}
  <1>8. 0 \in P
    <2>1. ASSUME NEW d \in DOMAIN t.dids PROVE f[0][Slot(t, d)] = TotalSize(Reached(t, S, d, n - 0))
      <3>1. Reached(t, S, d, n) = Direct(S, d) /\ n - 0 = n
        BY <1>2, ReachedEnds DEF n
      <3> QED BY <1>2, <3>1 DEF SizesOK
    <2> QED BY <1>2, <1>6, <2>1
  <1>9. ASSUME NEW k \in 0..(n - 1), k \in P PROVE k + 1 \in P
    <2> DEFINE m == n - (k + 1)
               x == f[k]
               y == f[k + 1]
    <2>1. /\ k + 1 \in 1..n /\ (k + 1) - 1 = k /\ m \in Nat /\ m + 1 \in 1..n
          /\ n + 1 - (k + 1) = m + 1 /\ n - k = m + 1
      BY <1>2
    <2>2. x \in [1..n -> Nat] /\ \A d \in DOMAIN t.dids : x[Slot(t, d)] = TotalSize(Reached(t, S, d, m + 1))
      BY <1>9, <2>1
    <2>3. y = Into(t, x, t.dirBuf[m + 1]) /\ y \in [1..n -> Nat]
      BY <1>2, <1>7, <2>1, <2>2
    <2>4. PICK c \in DOMAIN t.dids : Slot(t, c) = m + 1
      BY <2>1 DEF DirsOK, n
    <2> HIDE DEF m, x, y
    <2>5. x[m + 1] = TotalSize(Under(S, c))
      <3>1. Reached(t, S, c, m + 1) = Under(S, c)
        BY <2>4, ReachedEnds
      <3> QED BY <2>2, <2>4, <3>1
    <2>6. ASSUME NEW d \in DOMAIN t.dids PROVE y[Slot(t, d)] = TotalSize(Reached(t, S, d, m))
      <3> DEFINE row == t.dirBuf[m + 1]
                 i == row.parent - first + 1
      <3>1. /\ Slot(t, d) \in 1..n /\ row.did - first + 1 = m + 1
            /\ c = <<>> => ~(row.parent >= first)
            /\ c # <<>> => Parent(c) \in DOMAIN t.dids /\ row.parent >= first /\ i = Slot(t, Parent(c))
        BY <1>3, <2>4
      <3> HIDE DEF row, i
      <3>2. CASE c # <<>> /\ Parent(c) = d
        <4>1. y = [x EXCEPT ![i] = @ + x[m + 1]]
          BY <2>3, <3>1, <3>2 DEF Into, row, i, first
        <4>2. i = Slot(t, d)
          BY <3>1, <3>2
        <4>3. y[Slot(t, d)] = x[Slot(t, d)] + x[m + 1]
          BY <2>2, <3>1, <4>1, <4>2
        <4>4. /\ Reached(t, S, d, m) = Reached(t, S, d, m + 1) \cup Under(S, c)
              /\ Reached(t, S, d, m + 1) \cap Under(S, c) = {}
          BY <2>1, <2>4, <3>2, ReachedStep
        <4>5. Sized(Reached(t, S, d, m + 1)) /\ Sized(Under(S, c))
          <5>1. m + 1 \in Nat
            BY <2>1
          <5> QED BY <1>5, <5>1
        <4>6. TotalSize(Reached(t, S, d, m)) = TotalSize(Reached(t, S, d, m + 1)) + TotalSize(Under(S, c))
          BY <4>4, <4>5, TotalUnion
        <4> QED BY <2>2, <2>5, <4>3, <4>6
      <3>3. CASE ~(c # <<>> /\ Parent(c) = d)
        <4>1. y[Slot(t, d)] = x[Slot(t, d)]
          <5>1. CASE c = <<>>
            <6>1. y = x
              BY <2>3, <3>1, <5>1 DEF Into, row, first
            <6> QED BY <6>1
          <5>2. CASE c # <<>>
            <6>1. y = [x EXCEPT ![i] = @ + x[m + 1]]
              BY <2>3, <3>1, <5>2 DEF Into, row, i, first
            <6>2. i # Slot(t, d)
              BY <1>4, <3>1, <3>3, <5>2
            <6> QED BY <2>2, <3>1, <6>1, <6>2
          <5> QED BY <5>1, <5>2
        <4>2. Reached(t, S, d, m) = Reached(t, S, d, m + 1)
          BY <2>1, <2>4, <3>3, ReachedStep
        <4> QED BY <2>2, <4>1, <4>2
      <3> QED BY <3>2, <3>3
    <2>7. k + 1 \in 0..n /\ n - (k + 1) = m
      BY <2>1 DEF m
    <2> QED BY <2>3, <2>6, <2>7 DEF y
  <1>10. \A k \in 0..n : k \in P
    <2> HIDE DEF P
    <2> QED BY ONLY <1>2, <1>8, <1>9, Induction
  <1>11. \A d \in DOMAIN t.dids : f[n][Slot(t, d)] = TotalSize(Reached(t, S, d, 0))
    <2>1. n \in P /\ n - n = 0
      BY <1>2, <1>10
    <2> QED BY <2>1
  <1> QED BY <1>1, <1>11, ReachedEnds

-----------------------------------------------------------------------------
(* The invariant of a transaction. *)

\* The nodes of s that have a row; of them those that t has added.
Rows(s) == WithRow(Tree[s])
Added(t) == WithRow(Tree[t.snap] \ t.left)

Running(t) ==
    /\ t.snap \in Snapshots /\ t.left \subseteq Tree[t.snap] /\ t.sid \in Nat \ {0} /\ t.failed \in BOOLEAN
    /\ DirsOK(t) /\ CacheOK(t) /\ SizesOK(t, Added(t))
    /\ ~t.failed => RowsOK(t, Added(t))

SameTx(t, u) == u.snap = t.snap /\ u.sid = t.sid /\ u.firstDID = t.firstDID

LEMMA TreeNodes ==
  ASSUME NEW s \in Snapshots
  PROVE  /\ \A n \in Tree[s] : n.path \in Paths /\ n.type \in STRING /\ n.size \in Nat
         /\ \A T \in SUBSET Tree[s] : NodesOK(WithRow(T))
         /\ \A m, n \in Tree[s] : m.path = n.path => m = n
  <1>1. IsFiniteSet(Tree[s]) /\ Tree[s] \subseteq [path : Seq(STRING), type : STRING, size : Nat]
        /\ \A m, n \in Tree[s] : m.path = n.path => m = n
    BY IndexAssumption
  <1>2. ASSUME NEW T \in SUBSET Tree[s] PROVE NodesOK(WithRow(T))
    <2>1. WithRow(T) \in SUBSET Tree[s]
      BY DEF WithRow
    <2>2. IsFiniteSet(WithRow(T))
      BY <1>1, <2>1, FS_Subset
    <2>3. \A n \in WithRow(T) : n.path # <<>>
      BY DEF WithRow
    <2> QED BY <1>1, <2>1, <2>2, <2>3 DEF NodesOK, Paths
  <1> QED BY <1>1, <1>2 DEF Paths

LEMMA Unaffected ==
  ASSUME NEW t, DirsOK(t), CacheOK(t), NEW S, SizesOK(t, S), NEW u, IsTx(u), SameDirs(t, u), u.sizes = t.sizes,
         u.cached = t.cached, u.cachedDID = t.cachedDID, u.sid = t.sid
  PROVE  DirsOK(u) /\ CacheOK(u) /\ SizesOK(u, S) /\ RowsOf(u, S) = RowsOf(t, S)
  <1>1. DirsOK(u)
    BY DirsKept DEF DirsOK
  <1>2. CacheOK(u)
    BY DEF CacheOK, SameDirs
  <1>3. \A q \in DOMAIN t.dids : Slot(u, q) = Slot(t, q)
    BY DEF SameDirs, Slot
  <1>4. SizesOK(u, S)
    BY <1>3 DEF SizesOK, SameDirs
  <1>5. \A n \in S : RowOf(u, n) = RowOf(t, n)
    BY DEF RowOf, SameDirs
  <1> QED BY <1>1, <1>2, <1>4, <1>5 DEF RowsOf

LEMMA FlushKeeps ==
  ASSUME NEW t, Running(t), ~t.failed
  PROVE  LET u == Flush(t)
         IN  /\ Running(u) /\ SameTx(t, u) /\ ~u.failed /\ u.left = t.left /\ u.sinceCheck = t.sinceCheck
             /\ u.rows = t.rows \o t.buf /\ u.buf = <<>>
  <1> DEFINE u == Flush(t)
  <1>1. IsTx(t)
    BY DEF Running, DirsOK
  <1>2. /\ IsTx(u) /\ SameDirs(t, u) /\ u.sizes = t.sizes /\ u.cached = t.cached /\ u.cachedDID = t.cachedDID
        /\ u.sid = t.sid /\ u.snap = t.snap /\ u.left = t.left /\ u.failed = t.failed /\ u.sinceCheck = t.sinceCheck
        /\ u.rows = t.rows \o t.buf /\ u.buf = <<>>
    BY <1>1 DEF Flush, IsTx, SameDirs
  <1> HIDE DEF u
  <1>3. DirsOK(u) /\ CacheOK(u) /\ SizesOK(u, Added(t)) /\ RowsOf(u, Added(t)) = RowsOf(t, Added(t))
    BY <1>2, Unaffected DEF Running
  <1>4. Added(u) = Added(t)
    BY <1>2 DEF Added
  <1>5. u.rows \o u.buf = t.rows \o t.buf /\ u.rows \in Seq(NodeRow) /\ u.buf \in Seq(NodeRow)
    <2>1. t.rows \in Seq(NodeRow) /\ t.buf \in Seq(NodeRow)
      BY DEF Running, RowsOK
    <2>2. t.rows \o t.buf \in Seq(NodeRow)
      BY ONLY <2>1
    <2>3. (t.rows \o t.buf) \o <<>> = t.rows \o t.buf /\ <<>> \in Seq(NodeRow)
      BY ONLY <2>2
    <2> QED BY <1>2, <2>2, <2>3
  <1>6. RowsOK(u, Added(u))
    BY <1>2, <1>3, <1>4, <1>5 DEF RowsOK, Running
  <1> QED BY <1>2, <1>3, <1>4, <1>6 DEF Running, SameTx, SameDirs, u

\* A failure keeps what the failed transaction still has to satisfy, whatever
\* becomes of its buffer.
LEMMA FailedKeeps ==
  ASSUME NEW t, Running(t), NEW u, IsTx(u), SameDirs(t, u), u.sizes = t.sizes, u.cached = t.cached, u.cachedDID = t.cachedDID,
         u.sid = t.sid, u.snap = t.snap, u.left = t.left, u.failed = TRUE
  PROVE  Running(u) /\ SameTx(t, u)
  <1>1. DirsOK(u) /\ CacheOK(u) /\ SizesOK(u, Added(t))
    BY Unaffected DEF Running
  <1>2. Added(u) = Added(t)
    BY DEF Added
  <1> QED BY <1>1, <1>2 DEF Running, SameTx, SameDirs

LEMMA FailKeeps ==
  ASSUME NEW t, Running(t)
  PROVE  /\ Running(Fail(t)) /\ SameTx(t, Fail(t))
         /\ LET u == Fail([t EXCEPT !.buf = <<>>]) IN Running(u) /\ SameTx(t, u)
  <1> DEFINE u == Fail([t EXCEPT !.buf = <<>>])
             v == Fail(t)
  <1>1. IsTx(t)
    BY DEF Running, DirsOK
  <1>2. /\ IsTx(u) /\ SameDirs(t, u) /\ u.sizes = t.sizes /\ u.cached = t.cached /\ u.cachedDID = t.cachedDID
        /\ u.sid = t.sid /\ u.snap = t.snap /\ u.left = t.left /\ u.failed = TRUE
    BY <1>1 DEF Fail, IsTx, SameDirs
  <1>3. /\ IsTx(v) /\ SameDirs(t, v) /\ v.sizes = t.sizes /\ v.cached = t.cached /\ v.cachedDID = t.cachedDID
        /\ v.sid = t.sid /\ v.snap = t.snap /\ v.left = t.left /\ v.failed = TRUE
    BY <1>1 DEF Fail, IsTx, SameDirs
  <1> HIDE DEF u, v
  <1>4. Running(u) /\ SameTx(t, u)
    BY <1>2, FailedKeeps
  <1>5. Running(v) /\ SameTx(t, v)
    BY <1>3, FailedKeeps
  <1> QED BY <1>4, <1>5 DEF u, v

\* Fields that nothing else is about.
LEMMA SameKeeps ==
  ASSUME NEW t, Running(t), NEW u, IsTx(u), SameDirs(t, u), u.sizes = t.sizes, u.cached = t.cached,
         u.cachedDID = t.cachedDID, u.sid = t.sid, u.snap = t.snap, u.failed = t.failed, u.rows = t.rows, u.buf = t.buf,
         u.left \subseteq Tree[t.snap], Added(u) = Added(t)
  PROVE  Running(u) /\ SameTx(t, u)
  <1>1. DirsOK(u) /\ CacheOK(u) /\ SizesOK(u, Added(t)) /\ RowsOf(u, Added(t)) = RowsOf(t, Added(t))
    BY Unaffected DEF Running
  <1>2. ~u.failed => RowsOK(u, Added(u))
    BY <1>1 DEF RowsOK, Running
  <1> QED BY <1>1, <1>2 DEF Running, SameTx, SameDirs

LEMMA CheckKeeps ==
  ASSUME NEW t, Running(t)
  PROVE  LET u == [t EXCEPT !.sinceCheck = 0] IN Running(u) /\ SameTx(t, u)
  <1> DEFINE u == [t EXCEPT !.sinceCheck = 0]
  <1>1. IsTx(t)
    BY DEF Running, DirsOK
  <1>2. /\ IsTx(u) /\ SameDirs(t, u) /\ u.sizes = t.sizes /\ u.cached = t.cached /\ u.cachedDID = t.cachedDID
        /\ u.sid = t.sid /\ u.snap = t.snap /\ u.left = t.left /\ u.failed = t.failed /\ u.rows = t.rows /\ u.buf = t.buf
    BY <1>1 DEF IsTx, SameDirs
  <1> HIDE DEF u
  <1>3. Added(u) = Added(t) /\ u.left \subseteq Tree[t.snap]
    BY <1>2 DEF Added, Running
  <1>4. Running(u) /\ SameTx(t, u)
    BY <1>2, <1>3, SameKeeps
  <1> QED BY <1>4 DEF u

\* The record of the root is taken from what is left.
LEMMA RootKeeps ==
  ASSUME NEW t, Running(t), NEW n \in t.left, n.path = <<>>
  PROVE  LET u == [t EXCEPT !.left = @ \ {n}] IN Running(u) /\ SameTx(t, u)
  <1> DEFINE u == [t EXCEPT !.left = @ \ {n}]
  <1>1. IsTx(t)
    BY DEF Running, DirsOK
  <1>2. /\ IsTx(u) /\ SameDirs(t, u) /\ u.sizes = t.sizes /\ u.cached = t.cached /\ u.cachedDID = t.cachedDID
        /\ u.sid = t.sid /\ u.snap = t.snap /\ u.left = t.left \ {n} /\ u.failed = t.failed /\ u.rows = t.rows /\ u.buf = t.buf
    BY <1>1 DEF IsTx, SameDirs
  <1> HIDE DEF u
  <1>3. Added(u) = Added(t) /\ u.left \subseteq Tree[t.snap]
    BY <1>2 DEF Added, WithRow, Running
  <1>4. Running(u) /\ SameTx(t, u)
    BY <1>2, <1>3, SameKeeps
  <1> QED BY <1>4 DEF u

\* A node that is added.
LEMMA NodeKeeps ==
  ASSUME NEW t, Running(t), ~t.failed, NEW n \in t.left, n.path # <<>>
  PROVE  LET u == [Buffer(t, n) EXCEPT !.left = @ \ {n}] IN Running(u) /\ SameTx(t, u) /\ ~u.failed
  <1> DEFINE w == Buffer(t, n)
             u == [w EXCEPT !.left = @ \ {n}]
  <1>1. t.snap \in Snapshots /\ n \in Tree[t.snap] /\ t.left \subseteq Tree[t.snap]
    BY DEF Running
  <1>2. Added(t) \cup {n} = WithRow(Tree[t.snap] \ (t.left \ {n})) /\ n \notin Added(t)
    BY <1>1 DEF Added, WithRow
  <1>3. NodesOK(Added(t) \cup {n})
    <2>1. Tree[t.snap] \ (t.left \ {n}) \in SUBSET Tree[t.snap]
      OBVIOUS
    <2> QED BY <1>1, <1>2, <2>1, TreeNodes
  <1>4. /\ DirsOK(w) /\ CacheOK(w) /\ SizesOK(w, Added(t) \cup {n}) /\ RowsOK(w, Added(t) \cup {n})
        /\ w.snap = t.snap /\ w.sid = t.sid /\ w.left = t.left /\ w.firstDID = t.firstDID /\ w.failed = t.failed
    <2>1. /\ DirsOK(t) /\ CacheOK(t) /\ SizesOK(t, Added(t)) /\ RowsOK(t, Added(t))
      BY DEF Running
    <2> QED BY ONLY <1>2, <1>3, <2>1, Buffered
  <1> HIDE DEF w
  <1>5. IsTx(w)
    BY <1>4 DEF DirsOK
  <1>6. /\ IsTx(u) /\ SameDirs(w, u) /\ u.sizes = w.sizes /\ u.cached = w.cached /\ u.cachedDID = w.cachedDID
        /\ u.sid = w.sid /\ u.snap = w.snap /\ u.left = w.left \ {n} /\ u.failed = w.failed /\ u.rows = w.rows /\ u.buf = w.buf
    BY <1>5 DEF IsTx, SameDirs
  <1> HIDE DEF u
  <1>7. Added(u) = Added(t) \cup {n}
    BY <1>2, <1>4, <1>6 DEF Added
  <1>8. DirsOK(u) /\ CacheOK(u) /\ SizesOK(u, Added(u)) /\ RowsOf(u, Added(u)) = RowsOf(w, Added(u))
    BY <1>4, <1>6, <1>7, Unaffected
  <1>9. RowsOK(u, Added(u))
    BY <1>4, <1>6, <1>7, <1>8 DEF RowsOK
  <1>10. Running(u) /\ SameTx(t, u) /\ ~u.failed
    <2>1. u.left \subseteq Tree[u.snap] /\ u.snap = t.snap /\ u.sid = t.sid /\ u.failed = FALSE
      BY <1>1, <1>4, <1>6 DEF Running
    <2>2. u.firstDID = t.firstDID
      BY <1>4, <1>6 DEF SameDirs
    <2> QED BY <1>1, <1>8, <1>9, <2>1, <2>2 DEF Running, SameTx
  <1> QED BY <1>10 DEF u, w

\* A new transaction, with the root interned.
LEMMA Started ==
  ASSUME NEW s \in Snapshots, NEW sid \in Nat \ {0}, NEW first \in Nat \ {0}
  PROVE  LET t == [snap |-> s, sid |-> sid, left |-> Tree[s], firstDID |-> first, nextDID |-> first,
                   dids |-> [q \in {} |-> 0], dirBuf |-> <<>>, sizes |-> <<>>, buf |-> <<>>, rows |-> <<>>,
                   cached |-> <<>>, cachedDID |-> 0, sinceCheck |-> 0, failed |-> FALSE]
             u == CacheParent(EnsureDir(t, <<>>), <<>>)
         IN  Running(u) /\ u.snap = s /\ u.sid = sid /\ u.firstDID = first
  <1> DEFINE none == [q \in {} |-> 0]
             t == [snap |-> s, sid |-> sid, left |-> Tree[s], firstDID |-> first, nextDID |-> first,
                   dids |-> none, dirBuf |-> <<>>, sizes |-> <<>>, buf |-> <<>>, rows |-> <<>>,
                   cached |-> <<>>, cachedDID |-> 0, sinceCheck |-> 0, failed |-> FALSE]
             u == CacheParent(EnsureDir(t, <<>>), <<>>)
  <1>1. DOMAIN none = {} /\ none \in [{} -> Nat]
    OBVIOUS
  <1>2. /\ IsTx(t) /\ t.snap = s /\ t.sid = sid /\ t.left = Tree[s] /\ t.firstDID = first /\ t.nextDID = first
        /\ t.dids = none /\ t.dirBuf = <<>> /\ t.sizes = <<>> /\ t.buf = <<>> /\ t.rows = <<>> /\ t.failed = FALSE
    BY DEF IsTx
  <1> HIDE DEF none, t
  <1>3. DirsOK(t)
    <2>1. Len(<<>>) = 0 /\ <<>> \in Seq(Nat) /\ <<>> \in Seq(DirRow)
      OBVIOUS
    <2>2. 1..Len(t.dirBuf) = {} /\ t.nextDID = t.firstDID + Len(t.dirBuf)
      BY <1>2, <2>1
    <2>3. DOMAIN t.dids = {} /\ t.dids \in [DOMAIN t.dids -> Nat]
      BY <1>1, <1>2
    <2> QED BY <1>2, <2>1, <2>2, <2>3 DEF DirsOK
  <1>4. <<>> \in Paths
    BY DEF Paths
  <1>5. DirsOK(u) /\ CacheOK(u) /\ Extends(t, u)
    BY <1>3, <1>4, Entered
  <1> HIDE DEF u
  <1>6. SizesOK(t, {})
    BY <1>1, <1>2 DEF SizesOK
  <1>7. SizesOK(u, {}) /\ RowsOf(u, {}) = {}
    BY <1>5, <1>6, SizesExtend DEF RowsOf
  <1>8. u.snap = s /\ u.sid = sid /\ u.left = Tree[s] /\ u.firstDID = first /\ u.buf = <<>> /\ u.rows = <<>> /\ u.failed = FALSE
    BY <1>2, <1>5 DEF Extends
  <1>9. Added(u) = {}
    BY <1>8 DEF Added, WithRow
  <1>10. Lists(<<>>, {}) /\ <<>> \o <<>> = <<>> /\ <<>> \in Seq(NodeRow)
    BY DEF Lists
  <1>11. RowsOK(u, Added(u))
    BY <1>7, <1>8, <1>9, <1>10 DEF RowsOK
  <1> QED BY <1>5, <1>7, <1>8, <1>9, <1>11 DEF Running, u, t, none

\* Finitely many numbers have a greatest one.
LEMMA Bounded ==
  ASSUME NEW D, IsFiniteSet(D), NEW f \in [D -> Nat]
  PROVE  \E n \in Nat : \A d \in D : f[d] <= n
  <1> DEFINE m == Cardinality(D)
             P == {k \in 0..m : \A T \in SUBSET D : Cardinality(T) <= k => \E n \in Nat : \A d \in T : f[d] <= n}
  <1>1. m \in Nat /\ \A T \in SUBSET D : IsFiniteSet(T) /\ Cardinality(T) \in Nat /\ Cardinality(T) <= m
    BY FS_CardinalityType, FS_Subset
  <1>2. 0 \in P
    <2> SUFFICES ASSUME NEW T \in SUBSET D, Cardinality(T) <= 0 PROVE \E n \in Nat : \A d \in T : f[d] <= n
      BY <1>1
    <2>1. T = {}
      BY <1>1, FS_EmptySet
    <2> QED BY <2>1
  <1>3. ASSUME NEW k \in 0..(m - 1), k \in P PROVE k + 1 \in P
    <2> SUFFICES ASSUME NEW T \in SUBSET D, Cardinality(T) <= k + 1 PROVE \E n \in Nat : \A d \in T : f[d] <= n
      BY <1>1
    <2>1. CASE T = {}
      BY <2>1
    <2>2. CASE T # {}
      <3>1. PICK x : x \in T
        BY <2>2
      <3>2. Cardinality(T \ {x}) = Cardinality(T) - 1
        BY <1>1, <3>1, FS_RemoveElement
      <3>3. Cardinality(T \ {x}) <= k /\ T \ {x} \in SUBSET D
        BY <1>1, <3>2
      <3>4. PICK n \in Nat : \A d \in T \ {x} : f[d] <= n
        BY <1>3, <3>3
      <3>5. f[x] \in Nat /\ \A d \in T : f[d] \in Nat
        BY <3>1
      <3>6. n + f[x] \in Nat /\ \A d \in T : f[d] <= n + f[x]
        BY <3>4, <3>5
      <3> QED BY <3>6
    <2> QED BY <2>1, <2>2
  <1>4. \A k \in 0..m : k \in P
    <2> HIDE DEF P, m
    <2> QED BY ONLY <1>1, <1>2, <1>3, Induction
  <1>5. D \in SUBSET D /\ m \in P
    BY <1>1, <1>4
  <1> QED BY <1>1, <1>5

LEMMA Next1 ==
  ASSUME NEW D, IsFiniteSet(D), NEW f \in [D -> Nat]
  PROVE  LET m == 1 + Max({0} \cup {f[d] : d \in D}) IN m \in Nat \ {0} /\ \A d \in D : f[d] < m
  <1> DEFINE S == {0} \cup {f[d] : d \in D}
  <1>1. PICK n \in Nat : \A d \in D : f[d] <= n
    BY Bounded
  <1>2. S \subseteq 0..n /\ S # {}
    BY <1>1
  <1>3. \A d \in D : f[d] \in S
    OBVIOUS
  <1> HIDE DEF S
  <1>4. Max(S) \in S /\ \A k \in S : Max(S) >= k
    BY ONLY <1>2, Greatest, n \in Nat
  <1>5. Max(S) \in Nat
    <2>1. \A k \in S : k \in Nat
      BY <1>2
    <2> QED BY ONLY <1>4, <2>1
  <1>6. \A d \in D : f[d] \in Nat /\ f[d] < 1 + Max(S)
    BY <1>3, <1>4, <1>5
  <1> QED BY <1>5, <1>6 DEF S

-----------------------------------------------------------------------------
(* What is committed. *)

HasDir(sn, ds, s, p) == \E d \in ds : d.sid = sn[s].sid /\ d.path = p
IsRow(sn, ds, s, n, r) ==
    \E d \in ds : /\ d.sid = sn[s].sid /\ d.path = Parent(n.path)
                  /\ r = [sid |-> sn[s].sid, parent |-> d.did, name |-> Name(n.path), type |-> n.type, size |-> n.size]

DirEntry == [did : Nat \ {0}, sid : Nat, path : Paths, size : Nat]

\* The table of snapshots; of directories, each once, with the size of what is
\* under it; of nodes, each node of an indexed snapshot once.
SnapshotsOK(sn) ==
    /\ IsFiniteSet(DOMAIN sn) /\ DOMAIN sn \subseteq Snapshots
    /\ \A s \in DOMAIN sn : sn[s].indexed = TRUE /\ sn[s].sid \in Nat \ {0} /\ sn[s].entries = Cardinality(Rows(s))
    /\ \A r, s \in DOMAIN sn : sn[r].sid = sn[s].sid => r = s

DirsTableOK(sn, ds) ==
    /\ IsFiniteSet(ds) /\ ds \subseteq DirEntry
    /\ \A d \in ds : \E s \in DOMAIN sn : d.sid = sn[s].sid /\ d.size = TotalSize(Under(Rows(s), d.path))
    /\ \A d, e \in ds : d.did = e.did \/ (d.sid = e.sid /\ d.path = e.path) => d = e
    /\ \A s \in DOMAIN sn : \A n \in Rows(s) : HasDir(sn, ds, s, Parent(n.path)) /\ (IsDir(n) => HasDir(sn, ds, s, n.path))

NodesTableOK(sn, ds, ns) ==
    /\ ns \in Seq(NodeRow)
    /\ \A i, j \in DOMAIN ns : ns[i] = ns[j] => i = j
    /\ \A i \in DOMAIN ns : \E s \in DOMAIN sn : \E n \in Rows(s) : IsRow(sn, ds, s, n, ns[i])
    /\ \A s \in DOMAIN sn : \A n \in Rows(s) : \E i \in DOMAIN ns : IsRow(sn, ds, s, n, ns[i])

Committed(sn, ds, ns) == SnapshotsOK(sn) /\ DirsTableOK(sn, ds) /\ NodesTableOK(sn, ds, ns)

\* A transaction does not write under an id that is in the tables.
Apart(t, sn, ds) ==
    /\ t.snap \notin DOMAIN sn /\ \A s \in DOMAIN sn : sn[s].sid # t.sid
    /\ \A d \in ds : d.did < t.firstDID

\* The rows flushDirs writes: each interned directory with its recursive size.
LEMMA WrittenDirs ==
  ASSUME NEW t, Running(t)
  PROVE  /\ DirRows(t) = {[did |-> t.dids[q], sid |-> t.sid, path |-> q, size |-> TotalSize(Under(Added(t), q))] : q \in DOMAIN t.dids}
         /\ IsFiniteSet(DirRows(t))
  <1> DEFINE sizes == FoldSizes(t)
             written(r) == [did |-> r.did, sid |-> t.sid, path |-> r.path, size |-> sizes[r.did - t.firstDID + 1]]
             dir(q) == [did |-> t.dids[q], sid |-> t.sid, path |-> q, size |-> TotalSize(Under(Added(t), q))]
             n == Len(t.dirBuf)
  <1>1. DirsOK(t) /\ SizesOK(t, Added(t)) /\ NodesOK(Added(t))
    <2>1. Tree[t.snap] \ t.left \in SUBSET Tree[t.snap] /\ t.snap \in Snapshots
      BY DEF Running
    <2>2. NodesOK(Added(t))
      BY <2>1, TreeNodes DEF Added
    <2> QED BY <2>2 DEF Running
  <1>2. \A q \in DOMAIN t.dids : sizes[Slot(t, q)] = TotalSize(Under(Added(t), q))
    BY <1>1, Folded
  <1>3. n \in Nat /\ DOMAIN t.dirBuf = 1..n
    BY <1>1 DEF DirsOK
  <1>4. DirRows(t) = {written(t.dirBuf[i]) : i \in 1..n}
    BY <1>3 DEF DirRows, Range
  <1> HIDE DEF sizes
  <1>5. ASSUME NEW q \in DOMAIN t.dids
        PROVE  Slot(t, q) \in 1..n /\ written(t.dirBuf[Slot(t, q)]) = dir(q)
    <2>1. /\ Slot(t, q) \in 1..n /\ t.dirBuf[Slot(t, q)].did = t.dids[q] /\ t.dirBuf[Slot(t, q)].path = q
          /\ t.dids[q] - t.firstDID + 1 = Slot(t, q)
      BY <1>1 DEF DirsOK, Placed, Slot
    <2> QED BY <1>2, <2>1
  <1>6. ASSUME NEW i \in 1..n PROVE \E q \in DOMAIN t.dids : Slot(t, q) = i
    BY <1>1 DEF DirsOK
  <1> HIDE DEF written, dir, n
  <1>7. {written(t.dirBuf[i]) : i \in 1..n} = {dir(q) : q \in DOMAIN t.dids}
    BY <1>5, <1>6
  <1>8. IsFiniteSet({written(t.dirBuf[i]) : i \in 1..n})
    <2> DEFINE T == {written(t.dirBuf[i]) : i \in 1..n}
               f == [i \in 1..n |-> written(t.dirBuf[i])]
    <2>1. f \in Surjection(1..n, T)
      BY DEF Surjection
    <2>2. IsFiniteSet(1..n)
      BY <1>3, FS_Interval
    <2> HIDE DEF f, T
    <2>3. IsFiniteSet(T)
      BY ONLY <2>1, <2>2, FS_Surjection
    <2> QED BY <2>3 DEF T
  <1>9. DirRows(t) = {dir(q) : q \in DOMAIN t.dids} /\ IsFiniteSet(DirRows(t))
    BY <1>4, <1>7, <1>8
  <1> QED BY <1>9 DEF dir

\* A sequence with each member of a set once is as long as the set is large.
LEMMA ListedLength ==
  ASSUME NEW S, NEW A, NEW f, f \in [S -> A], \A x, y \in S : f[x] = f[y] => x = y, \A a \in A : \E x \in S : f[x] = a,
         NEW s, Lists(s, A)
  PROVE  IsFiniteSet(S) /\ Cardinality(S) = Len(s)
  <1> DEFINE n == Len(s)
             g == [i \in 1..n |-> CHOOSE x \in S : f[x] = s[i]]
  <1>1. n \in Nat /\ DOMAIN s = 1..n /\ \A i \in 1..n : s[i] \in A
    BY DEF Lists
  <1>2. \A i \in 1..n : g[i] \in S /\ f[g[i]] = s[i]
    BY <1>1
  <1> HIDE DEF n
  <1>3. g \in [1..n -> S]
    BY <1>2
  <1> HIDE DEF g
  <1>4. ASSUME NEW i \in 1..n, NEW j \in 1..n, g[i] = g[j] PROVE i = j
    <2>1. s[i] = s[j]
      BY <1>2, <1>4
    <2> QED BY <1>1, <2>1 DEF Lists
  <1>5. ASSUME NEW x \in S PROVE \E i \in 1..n : g[i] = x
    <2>1. PICK i \in 1..n : s[i] = f[x]
      BY <1>1 DEF Lists
    <2>2. g[i] = x
      BY <1>2, <2>1
    <2> QED BY <2>2
  <1>6. ExistsBijection(1..n, S)
    <2>1. g \in Bijection(1..n, S)
      BY <1>3, <1>4, <1>5 DEF Bijection, Injection, Surjection, IsInjective
    <2> QED BY <2>1 DEF ExistsBijection
  <1>7. IsFiniteSet(1..n) /\ Cardinality(1..n) = n
    <2>1. Cardinality(1..n) = (IF 1 > n THEN 0 ELSE n - 1 + 1) /\ IsFiniteSet(1..n)
      BY ONLY <1>1, FS_Interval
    <2> QED BY <1>1, <2>1
  <1>8. IsFiniteSet(S) /\ Cardinality(S) = n
    BY ONLY <1>6, <1>7, FS_Bijection
  <1> QED BY <1>8 DEF n

\* A transaction with nothing left to add and nothing buffered.
Whole(t) == Running(t) /\ ~t.failed /\ t.left = {} /\ t.buf = <<>>

Marked(sn, t) ==
    [s \in DOMAIN sn \cup {t.snap} |-> IF s = t.snap THEN [sid |-> t.sid, entries |-> Len(t.rows), indexed |-> TRUE] ELSE sn[s]]

LEMMA WholeFacts ==
  ASSUME NEW t, Whole(t)
  PROVE  /\ t.snap \in Snapshots /\ Added(t) = Rows(t.snap) /\ NodesOK(Rows(t.snap)) /\ DirsOK(t) /\ SizesOK(t, Rows(t.snap))
         /\ t.rows \in Seq(NodeRow) /\ Lists(t.rows, RowsOf(t, Rows(t.snap))) /\ t.sid \in Nat \ {0}
  <1>1. t.snap \in Snapshots /\ Added(t) = Rows(t.snap)
    BY DEF Whole, Running, Added, Rows
  <1>2. NodesOK(Rows(t.snap))
    <2>1. Tree[t.snap] \in SUBSET Tree[t.snap]
      OBVIOUS
    <2> QED BY <1>1, <2>1, TreeNodes DEF Rows
  <1>3. t.rows \in Seq(NodeRow) /\ t.buf = <<>> /\ Lists(t.rows \o t.buf, RowsOf(t, Rows(t.snap)))
    BY <1>1 DEF Whole, Running, RowsOK
  <1>4. t.rows \o <<>> = t.rows
    BY ONLY <1>3
  <1> QED BY <1>1, <1>2, <1>3, <1>4 DEF Whole, Running

LEMMA MarkedFacts ==
  ASSUME NEW sn, NEW t, t.snap \notin DOMAIN sn
  PROVE  LET sn2 == Marked(sn, t)
         IN  /\ DOMAIN sn2 = DOMAIN sn \cup {t.snap} /\ \A s \in DOMAIN sn : sn2[s] = sn[s]
             /\ sn2[t.snap].sid = t.sid /\ sn2[t.snap].entries = Len(t.rows) /\ sn2[t.snap].indexed = TRUE
  BY DEF Marked

LEMMA SnapshotsCommit ==
  ASSUME NEW sn, SnapshotsOK(sn), NEW t, Whole(t), NEW ds, Apart(t, sn, ds)
  PROVE  SnapshotsOK(Marked(sn, t))
  <1> DEFINE s == t.snap
             S == Rows(s)
             sn2 == Marked(sn, t)
             f == [n \in S |-> RowOf(t, n)]
  <1>1. /\ DOMAIN sn2 = DOMAIN sn \cup {s} /\ \A r \in DOMAIN sn : sn2[r] = sn[r]
        /\ sn2[s].sid = t.sid /\ sn2[s].entries = Len(t.rows) /\ sn2[s].indexed = TRUE
    <2>1. t.snap \notin DOMAIN sn
      BY DEF Apart
    <2> QED BY <2>1, MarkedFacts
  <1>2. s \in Snapshots /\ NodesOK(S) /\ DirsOK(t) /\ SizesOK(t, S) /\ Lists(t.rows, RowsOf(t, S)) /\ t.sid \in Nat \ {0}
    BY WholeFacts
  <1> HIDE DEF sn2
  <1>3. Cardinality(S) = Len(t.rows)
    <2>1. f \in [S -> RowsOf(t, S)] /\ \A a \in RowsOf(t, S) : \E x \in S : f[x] = a
      BY DEF RowsOf
    <2>2. \A x, y \in S : f[x] = f[y] => x = y
      BY <1>2, RowsDiffer
    <2> HIDE DEF f, S
    <2> QED BY <1>2, <2>1, <2>2, ListedLength
  <1>4. IsFiniteSet(DOMAIN sn2)
    BY <1>1, FS_AddElement DEF SnapshotsOK
  <1>5. DOMAIN sn2 \subseteq Snapshots
    BY <1>1, <1>2 DEF SnapshotsOK
  <1>6. \A r \in DOMAIN sn2 : sn2[r].indexed = TRUE /\ sn2[r].sid \in Nat \ {0} /\ sn2[r].entries = Cardinality(Rows(r))
    BY <1>1, <1>2, <1>3 DEF SnapshotsOK
  <1>7. \A q, r \in DOMAIN sn2 : sn2[q].sid = sn2[r].sid => q = r
    BY <1>1 DEF SnapshotsOK, Apart
  <1> QED BY <1>4, <1>5, <1>6, <1>7 DEF SnapshotsOK, sn2

\* The new rows of directories, by their paths.
LEMMA NewDirs ==
  ASSUME NEW t, Whole(t)
  PROVE  /\ IsFiniteSet(DirRows(t)) /\ DirRows(t) \subseteq DirEntry
         /\ \A d \in DirRows(t) : /\ d.path \in DOMAIN t.dids /\ d.did = t.dids[d.path] /\ d.did >= t.firstDID
                                  /\ d.sid = t.sid /\ d.size = TotalSize(Under(Rows(t.snap), d.path))
         /\ \A q \in DOMAIN t.dids : \E d \in DirRows(t) : d.path = q
         /\ \A d, e \in DirRows(t) : d.did = e.did \/ d.path = e.path => d = e
  <1> DEFINE S == Rows(t.snap)
             dir(q) == [did |-> t.dids[q], sid |-> t.sid, path |-> q, size |-> TotalSize(Under(S, q))]
  <1>1. Added(t) = S /\ NodesOK(S) /\ DirsOK(t) /\ t.sid \in Nat
    BY WholeFacts
  <1>2. DirRows(t) = {dir(q) : q \in DOMAIN t.dids} /\ IsFiniteSet(DirRows(t))
    <2>1. Running(t)
      BY DEF Whole
    <2> QED BY <1>1, <2>1, WrittenDirs
  <1>3. ASSUME NEW q \in DOMAIN t.dids
        PROVE  t.dids[q] \in Nat \ {0} /\ t.dids[q] >= t.firstDID /\ q \in Paths /\ TotalSize(Under(S, q)) \in Nat
    <2>1. t.dids[q] \in Nat /\ t.firstDID \in Nat \ {0} /\ t.dids[q] - t.firstDID + 1 \in 1..Len(t.dirBuf) /\ q \in Paths
          /\ Len(t.dirBuf) \in Nat
      <3>1. Placed(t, q) /\ q \in Paths /\ t.dids[q] \in Nat
        BY <1>1 DEF DirsOK
      <3>2. t.firstDID \in Nat \ {0} /\ Len(t.dirBuf) \in Nat
        BY <1>1 DEF DirsOK
      <3> QED BY <3>1, <3>2 DEF Placed, Slot
    <2>2. Sized(Under(S, q))
      <3>1. Under(S, q) \in SUBSET S /\ Sized(S)
        BY <1>1 DEF Under, Sized, NodesOK
      <3> QED BY <3>1, Subsets
    <2>3. TotalSize(Under(S, q)) \in Nat
      BY <2>2, TotalRemove
    <2>4. t.dids[q] >= t.firstDID /\ t.dids[q] # 0
      BY ONLY <2>1
    <2> QED BY <2>1, <2>3, <2>4
  <1>4. \A q \in DOMAIN t.dids : /\ dir(q) \in DirEntry /\ dir(q).path = q /\ dir(q).did = t.dids[q] /\ dir(q).sid = t.sid
                                 /\ dir(q).size = TotalSize(Under(S, q))
    BY <1>1, <1>3 DEF DirEntry
  <1> HIDE DEF dir
  <1>5. \A d \in DirRows(t) : \E q \in DOMAIN t.dids : d = dir(q)
    BY <1>2
  <1>6. DirRows(t) \subseteq DirEntry
    BY <1>4, <1>5
  <1>7. \A d \in DirRows(t) : /\ d.path \in DOMAIN t.dids /\ d.did = t.dids[d.path] /\ d.did >= t.firstDID
                              /\ d.sid = t.sid /\ d.size = TotalSize(Under(S, d.path)) /\ d = dir(d.path)
    BY <1>3, <1>4, <1>5
  <1>8. \A q \in DOMAIN t.dids : \E d \in DirRows(t) : d.path = q
    BY <1>2, <1>4
  <1>9. \A d, e \in DirRows(t) : d.did = e.did \/ d.path = e.path => d = e
    <2> SUFFICES ASSUME NEW d \in DirRows(t), NEW e \in DirRows(t), d.did = e.did \/ d.path = e.path PROVE d = e
      OBVIOUS
    <2>1. d.path = e.path
      BY <1>1, <1>7, IdsDiffer
    <2> QED BY <1>7, <2>1
  <1> QED BY <1>2, <1>6, <1>7, <1>8, <1>9

LEMMA DirsCommit ==
  ASSUME NEW sn, SnapshotsOK(sn), NEW ds, DirsTableOK(sn, ds), NEW t, Whole(t), Apart(t, sn, ds)
  PROVE  DirsTableOK(Marked(sn, t), ds \cup DirRows(t))
  <1> DEFINE s == t.snap
             sn2 == Marked(sn, t)
             new == DirRows(t)
             ds2 == ds \cup new
  <1>1. /\ DOMAIN sn2 = DOMAIN sn \cup {s} /\ \A r \in DOMAIN sn : sn2[r] = sn[r]
        /\ sn2[s].sid = t.sid /\ sn2[s].entries = Len(t.rows) /\ sn2[s].indexed = TRUE
    <2>1. t.snap \notin DOMAIN sn
      BY DEF Apart
    <2> QED BY <2>1, MarkedFacts
  <1>2. /\ IsFiniteSet(new) /\ new \subseteq DirEntry
        /\ \A d \in new : /\ d.path \in DOMAIN t.dids /\ d.did = t.dids[d.path] /\ d.did >= t.firstDID
                          /\ d.sid = t.sid /\ d.size = TotalSize(Under(Rows(s), d.path))
        /\ \A q \in DOMAIN t.dids : \E d \in new : d.path = q
        /\ \A d, e \in new : d.did = e.did \/ d.path = e.path => d = e
    BY NewDirs
  <1>3. DirsOK(t) /\ SizesOK(t, Rows(s))
    BY WholeFacts
  <1> HIDE DEF sn2, new
  <1>4. IsFiniteSet(ds2) /\ ds2 \subseteq DirEntry
    BY <1>2, FS_Union DEF DirsTableOK
  <1>5. ASSUME NEW d \in ds2 PROVE \E r \in DOMAIN sn2 : d.sid = sn2[r].sid /\ d.size = TotalSize(Under(Rows(r), d.path))
    <2>1. CASE d \in ds
      <3>1. PICK r \in DOMAIN sn : d.sid = sn[r].sid /\ d.size = TotalSize(Under(Rows(r), d.path))
        BY <2>1 DEF DirsTableOK
      <3> QED BY <1>1, <3>1
    <2>2. CASE d \in new
      BY <1>1, <1>2, <2>2
    <2> QED BY <2>1, <2>2
  <1>6. ASSUME NEW d \in ds, NEW e \in new PROVE ~(d.did = e.did) /\ ~(d.sid = e.sid)
    <2>1. d.did < t.firstDID /\ e.did >= t.firstDID /\ e.sid = t.sid
      BY <1>2 DEF Apart
    <2>2. d.did \in Nat /\ e.did \in Nat /\ t.firstDID \in Nat
      BY <1>2, <1>3 DEF DirsTableOK, DirEntry, DirsOK
    <2>3. d.sid # t.sid
      BY DEF DirsTableOK, Apart
    <2> QED BY <2>1, <2>2, <2>3
  <1>7. \A d, e \in ds2 : d.did = e.did \/ (d.sid = e.sid /\ d.path = e.path) => d = e
    <2> SUFFICES ASSUME NEW d \in ds2, NEW e \in ds2, d.did = e.did \/ (d.sid = e.sid /\ d.path = e.path) PROVE d = e
      OBVIOUS
    <2>1. CASE d \in ds /\ e \in ds
      BY <2>1 DEF DirsTableOK
    <2>2. CASE d \in new /\ e \in new
      BY <1>2, <2>2
    <2>3. CASE (d \in ds /\ e \in new) \/ (d \in new /\ e \in ds)
      BY <1>6, <2>3
    <2> QED BY <2>1, <2>2, <2>3
  <1>8. ASSUME NEW r \in DOMAIN sn2, NEW n \in Rows(r)
        PROVE  HasDir(sn2, ds2, r, Parent(n.path)) /\ (IsDir(n) => HasDir(sn2, ds2, r, n.path))
    <2>1. CASE r \in DOMAIN sn
      BY <1>1, <2>1 DEF DirsTableOK, HasDir
    <2>2. CASE r = s
      <3>1. Parent(n.path) \in DOMAIN t.dids /\ (IsDir(n) => n.path \in DOMAIN t.dids)
        BY <1>3, <2>2 DEF SizesOK
      <3>2. \A q \in DOMAIN t.dids : HasDir(sn2, ds2, r, q)
        BY <1>1, <1>2, <2>2 DEF HasDir
      <3> QED BY <3>1, <3>2
    <2> QED BY <1>1, <2>1, <2>2
  <1>9. DirsTableOK(sn2, ds2)
    <2> HIDE DEF ds2
    <2> QED BY <1>4, <1>5, <1>7, <1>8 DEF DirsTableOK
  <1> QED BY <1>9 DEF sn2, new

LEMMA NodesCommit ==
  ASSUME NEW sn, SnapshotsOK(sn), NEW ds, DirsTableOK(sn, ds), NEW ns, NodesTableOK(sn, ds, ns),
         NEW t, Whole(t), Apart(t, sn, ds)
  PROVE  NodesTableOK(Marked(sn, t), ds \cup DirRows(t), ns \o t.rows)
  <1> DEFINE s == t.snap
             S == Rows(s)
             sn2 == Marked(sn, t)
             new == DirRows(t)
             ds2 == ds \cup new
             a == Len(ns)
             b == Len(t.rows)
             ns2 == ns \o t.rows
  <1>1. /\ DOMAIN sn2 = DOMAIN sn \cup {s} /\ \A r \in DOMAIN sn : sn2[r] = sn[r]
        /\ sn2[s].sid = t.sid /\ sn2[s].entries = Len(t.rows) /\ sn2[s].indexed = TRUE
    <2>1. t.snap \notin DOMAIN sn
      BY DEF Apart
    <2> QED BY <2>1, MarkedFacts
  <1>2. /\ \A d \in new : d.did = t.dids[d.path] /\ d.sid = t.sid
        /\ \A q \in DOMAIN t.dids : \E d \in new : d.path = q
    BY NewDirs
  <1>3. SizesOK(t, S) /\ t.rows \in Seq(NodeRow) /\ Lists(t.rows, RowsOf(t, S))
    BY WholeFacts
  <1>4. ns \in Seq(NodeRow) /\ a \in Nat /\ b \in Nat /\ DOMAIN ns = 1..a /\ DOMAIN t.rows = 1..b
    BY <1>3 DEF NodesTableOK
  <1>5. IsConcat(ns2, ns, t.rows, NodeRow)
    BY <1>3, <1>4, Concatenated
  <1> HIDE DEF sn2, new, ns2, a, b
  <1>6. /\ ns2 \in Seq(NodeRow) /\ DOMAIN ns2 = 1..(a + b)
        /\ \A i \in 1..a : ns2[i] = ns[i]
        /\ \A i \in 1..b : ns2[a + i] = t.rows[i]
    <2>1. ns2 \in Seq(NodeRow) /\ Len(ns2) = a + b
      BY <1>5 DEF IsConcat, a, b
    <2> QED BY <1>5, <2>1 DEF IsConcat, a, b
  <1>7. ASSUME NEW i \in 1..(a + b) PROVE i \in 1..a \/ \E j \in 1..b : i = a + j
    <2>1. i \in 1..a \/ (i - a \in 1..b /\ i = a + (i - a))
      BY <1>4
    <2> QED BY <2>1
  <1>8. ASSUME NEW r \in DOMAIN sn, NEW n \in Rows(r), NEW x PROVE IsRow(sn2, ds2, r, n, x) <=> IsRow(sn, ds, r, n, x)
    <2>1. \A d \in new : d.sid # sn[r].sid
      BY <1>2 DEF Apart
    <2> QED BY <1>1, <2>1 DEF IsRow
  <1>9. ASSUME NEW n \in S PROVE IsRow(sn2, ds2, s, n, RowOf(t, n))
    <2>1. PICK d \in new : d.path = Parent(n.path)
      BY <1>2, <1>3 DEF SizesOK
    <2>2. d.did = t.dids[Parent(n.path)] /\ d.sid = t.sid
      BY <1>2, <2>1
    <2> QED BY <1>1, <2>1, <2>2 DEF IsRow, RowOf
  <1>10. \A i \in 1..a : ns[i].sid # t.sid
    <2> SUFFICES ASSUME NEW i \in 1..a PROVE ns[i].sid # t.sid
      OBVIOUS
    <2>1. PICK r \in DOMAIN sn : \E n \in Rows(r) : IsRow(sn, ds, r, n, ns[i])
      BY <1>4 DEF NodesTableOK
    <2>2. ns[i].sid = sn[r].sid
      BY <2>1 DEF IsRow
    <2> QED BY <2>2 DEF Apart
  <1>11. ASSUME NEW j \in 1..b PROVE t.rows[j].sid = t.sid /\ \E n \in S : t.rows[j] = RowOf(t, n)
    <2>1. t.rows[j] \in RowsOf(t, S)
      BY <1>3, <1>4 DEF Lists
    <2>2. PICK n \in S : t.rows[j] = RowOf(t, n)
      BY <2>1 DEF RowsOf
    <2> QED BY <2>2 DEF RowOf
  <1>12. ASSUME NEW i \in 1..(a + b), NEW j \in 1..(a + b), ns2[i] = ns2[j] PROVE i = j
    <2>1. CASE i \in 1..a /\ j \in 1..a
      BY <1>4, <1>6, <1>12, <2>1 DEF NodesTableOK
    <2>2. CASE i \in 1..a /\ j \notin 1..a
      <3>1. PICK k \in 1..b : j = a + k
        BY <1>7, <2>2
      <3> QED BY <1>6, <1>10, <1>11, <1>12, <2>2, <3>1
    <2>3. CASE i \notin 1..a /\ j \in 1..a
      <3>1. PICK k \in 1..b : i = a + k
        BY <1>7, <2>3
      <3> QED BY <1>6, <1>10, <1>11, <1>12, <2>3, <3>1
    <2>4. CASE i \notin 1..a /\ j \notin 1..a
      <3>1. PICK k \in 1..b : i = a + k
        BY <1>7, <2>4
      <3>2. PICK l \in 1..b : j = a + l
        BY <1>7, <2>4
      <3>3. t.rows[k] = t.rows[l]
        BY <1>6, <1>12, <3>1, <3>2
      <3>4. k = l
        BY <1>3, <1>4, <3>3 DEF Lists
      <3> QED BY <3>1, <3>2, <3>4
    <2> QED BY <2>1, <2>2, <2>3, <2>4
  <1>13. ASSUME NEW i \in 1..(a + b) PROVE \E r \in DOMAIN sn2 : \E n \in Rows(r) : IsRow(sn2, ds2, r, n, ns2[i])
    <2>1. CASE i \in 1..a
      <3>0. PICK r \in DOMAIN sn : \E n \in Rows(r) : IsRow(sn, ds, r, n, ns[i])
        BY <1>4, <2>1 DEF NodesTableOK
      <3>1. PICK n \in Rows(r) : IsRow(sn, ds, r, n, ns[i])
        BY <3>0
      <3>2. IsRow(sn2, ds2, r, n, ns2[i]) /\ r \in DOMAIN sn2
        BY <1>1, <1>6, <1>8, <2>1, <3>1
      <3> QED BY <3>2
    <2>2. CASE i \notin 1..a
      <3>1. PICK k \in 1..b : i = a + k
        BY <1>7, <2>2
      <3>2. PICK n \in S : t.rows[k] = RowOf(t, n)
        BY <1>11
      <3>3. IsRow(sn2, ds2, s, n, ns2[i]) /\ s \in DOMAIN sn2
        BY <1>1, <1>6, <1>9, <3>1, <3>2
      <3> QED BY <3>3
    <2> QED BY <2>1, <2>2
  <1>14. ASSUME NEW r \in DOMAIN sn2, NEW n \in Rows(r) PROVE \E i \in 1..(a + b) : IsRow(sn2, ds2, r, n, ns2[i])
    <2>1. CASE r \in DOMAIN sn
      <3>1. PICK i \in 1..a : IsRow(sn, ds, r, n, ns[i])
        BY <1>4, <2>1 DEF NodesTableOK
      <3>2. i \in 1..(a + b) /\ ns2[i] = ns[i]
        BY <1>4, <1>6
      <3>3. IsRow(sn2, ds2, r, n, ns[i])
        BY <1>8, <2>1, <3>1
      <3> QED BY <3>2, <3>3
    <2>2. CASE r = s
      <3>1. RowOf(t, n) \in RowsOf(t, S)
        BY <2>2 DEF RowsOf
      <3>2. PICK k \in 1..b : t.rows[k] = RowOf(t, n)
        BY <1>3, <1>4, <3>1 DEF Lists
      <3>3. a + k \in 1..(a + b) /\ ns2[a + k] = RowOf(t, n)
        BY <1>4, <1>6, <3>2
      <3>4. IsRow(sn2, ds2, r, n, ns2[a + k])
        BY <1>9, <2>2, <3>3
      <3> QED BY <3>3, <3>4
    <2> QED BY <1>1, <2>1, <2>2
  <1>15. NodesTableOK(sn2, ds2, ns2)
    <2> HIDE DEF ds2
    <2> QED BY <1>6, <1>12, <1>13, <1>14 DEF NodesTableOK
  <1> QED BY <1>15 DEF sn2, new, ns2

-----------------------------------------------------------------------------
(* The invariant of the tables and the transaction. *)

IndexInv ==
    /\ Committed(snapshots, dirs, nodes)
    /\ tx # NoTx => Running(tx) /\ Apart(tx, snapshots, dirs)

LEMMA IndexInitInv == IndexInit => IndexInv
  <1> SUFFICES ASSUME IndexInit PROVE IndexInv
    OBVIOUS
  <1>1. DOMAIN snapshots = {} /\ dirs = {} /\ nodes = <<>> /\ tx = NoTx
    BY DEF IndexInit
  <1>2. SnapshotsOK(snapshots)
    BY <1>1, FS_EmptySet DEF SnapshotsOK
  <1>3. DirsTableOK(snapshots, dirs)
    BY <1>1, FS_EmptySet DEF DirsTableOK
  <1>4. NodesTableOK(snapshots, dirs, nodes)
    BY <1>1 DEF NodesTableOK
  <1> QED BY <1>1, <1>2, <1>3, <1>4 DEF IndexInv, Committed

\* The reservation of a snapshot's id, and of the first id of its directories.
LEMMA ReservedIds ==
  ASSUME Committed(snapshots, dirs, nodes), NEW s \in Snapshots, ~IsIndexed(s)
  PROVE  /\ s \notin DOMAIN snapshots
         /\ Sid(s) \in Nat \ {0} /\ \A r \in DOMAIN snapshots : snapshots[r].sid # Sid(s)
         /\ 1 + Max({0} \cup {d.did : d \in dirs}) \in Nat \ {0}
         /\ \A d \in dirs : d.did < 1 + Max({0} \cup {e.did : e \in dirs})
  <1>1. s \notin DOMAIN snapshots
    BY DEF IsIndexed, Committed, SnapshotsOK
  <1> DEFINE f == [r \in DOMAIN snapshots |-> snapshots[r].sid]
             g == [d \in dirs |-> d.did]
  <1>2. IsFiniteSet(DOMAIN snapshots) /\ f \in [DOMAIN snapshots -> Nat]
    BY DEF Committed, SnapshotsOK
  <1>3. IsFiniteSet(dirs) /\ g \in [dirs -> Nat]
    BY DEF Committed, DirsTableOK, DirEntry
  <1>4. {f[r] : r \in DOMAIN snapshots} = {snapshots[r].sid : r \in DOMAIN snapshots}
    OBVIOUS
  <1>5. {g[d] : d \in dirs} = {d.did : d \in dirs}
    OBVIOUS
  <1>6. (\A r \in DOMAIN snapshots : f[r] = snapshots[r].sid) /\ (\A d \in dirs : g[d] = d.did)
    OBVIOUS
  <1>7. Sid(s) = 1 + Max({0} \cup {f[r] : r \in DOMAIN snapshots})
    BY <1>1, <1>4 DEF Sid
  <1> HIDE DEF f, g
  <1>8. Sid(s) \in Nat \ {0} /\ \A r \in DOMAIN snapshots : f[r] < Sid(s)
    BY <1>2, <1>7, Next1
  <1>9. \A r \in DOMAIN snapshots : f[r] \in Nat
    BY <1>2
  <1>10. \A r \in DOMAIN snapshots : snapshots[r].sid # Sid(s)
    BY <1>6, <1>8, <1>9
  <1> DEFINE m == 1 + Max({0} \cup {g[d] : d \in dirs})
  <1>11. m \in Nat \ {0} /\ \A d \in dirs : g[d] < m
    BY <1>3, Next1
  <1> HIDE DEF m
  <1>12. m = 1 + Max({0} \cup {d.did : d \in dirs})
    BY <1>5 DEF m
  <1> QED BY <1>1, <1>6, <1>8, <1>10, <1>11, <1>12

LEMMA BeginStep ==
  ASSUME IndexInv, NEW s \in Snapshots, BeginIndex(s)
  PROVE  IndexInv'
  <1> DEFINE first == 1 + Max({0} \cup {d.did : d \in dirs})
  <1>1. tx' = NewTx(s) /\ ~IsIndexed(s) /\ UNCHANGED <<snapshots, dirs, nodes>>
    BY DEF BeginIndex
  <1>2. /\ s \notin DOMAIN snapshots /\ Sid(s) \in Nat \ {0} /\ \A r \in DOMAIN snapshots : snapshots[r].sid # Sid(s)
        /\ first \in Nat \ {0} /\ \A d \in dirs : d.did < first
    BY <1>1, ReservedIds DEF IndexInv
  <1> DEFINE sid == Sid(s)
             t == [snap |-> s, sid |-> sid, left |-> Tree[s], firstDID |-> first, nextDID |-> first,
                   dids |-> [q \in {} |-> 0], dirBuf |-> <<>>, sizes |-> <<>>, buf |-> <<>>, rows |-> <<>>,
                   cached |-> <<>>, cachedDID |-> 0, sinceCheck |-> 0, failed |-> FALSE]
             u == CacheParent(EnsureDir(t, <<>>), <<>>)
  <1>3. NewTx(s) = u
    BY DEF NewTx
  <1> HIDE DEF sid, first
  <1>4. Running(u) /\ u.snap = s /\ u.sid = sid /\ u.firstDID = first
    BY <1>2, Started DEF sid
  <1> HIDE DEF u
  <1>5. Apart(u, snapshots, dirs)
    BY <1>2, <1>4 DEF Apart, sid
  <1> QED BY <1>1, <1>3, <1>4, <1>5 DEF IndexInv

\* A transaction that goes on under the same ids.
LEMMA TxStep ==
  ASSUME IndexInv, tx # NoTx, NEW u, Running(u), SameTx(tx, u), tx' = u, UNCHANGED <<snapshots, dirs, nodes>>
  PROVE  IndexInv'
  BY DEF IndexInv, Apart, SameTx

LEMMA AddStep ==
  ASSUME IndexInv, Add
  PROVE  IndexInv'
  <1> DEFINE After(n, b, f, c) ==
               /\ b = [Buffer(tx, n) EXCEPT !.left = @ \ {n}]
               /\ f = IF Len(b.buf) >= BatchRows THEN Flush(b) ELSE b
               /\ c = IF f.sinceCheck >= CheckRows THEN [f EXCEPT !.sinceCheck = 0] ELSE f
               /\ tx' = c \/ tx' = Fail([b EXCEPT !.buf = <<>>]) \/ tx' = Fail(c)
  <1>1. tx # NoTx /\ ~tx.failed /\ UNCHANGED <<snapshots, dirs, nodes>> /\ Running(tx)
    BY DEF Add, IndexInv
  <1>2. PICK n \in tx.left : n.path # <<>> /\ \E b, f, c : After(n, b, f, c)
    BY DEF Add
  <1>3. PICK b, f, c : After(n, b, f, c)
    BY <1>2
  <1>4. Running(b) /\ SameTx(tx, b) /\ ~b.failed
    BY <1>1, <1>2, <1>3, NodeKeeps
  <1>5. Running(f) /\ SameTx(b, f)
    <2>1. CASE f = Flush(b)
      BY <1>4, <2>1, FlushKeeps
    <2>2. CASE f = b
      BY <1>4, <2>2 DEF SameTx
    <2> QED BY <1>3, <2>1, <2>2
  <1>6. Running(c) /\ SameTx(f, c)
    <2>1. CASE c = [f EXCEPT !.sinceCheck = 0]
      BY <1>5, <2>1, CheckKeeps
    <2>2. CASE c = f
      BY <1>5, <2>2 DEF SameTx
    <2> QED BY <1>3, <2>1, <2>2
  <1>7. SameTx(tx, c)
    BY <1>4, <1>5, <1>6 DEF SameTx
  <1>8. CASE tx' = c
    BY <1>1, <1>6, <1>7, <1>8, TxStep
  <1>9. CASE tx' = Fail([b EXCEPT !.buf = <<>>])
    <2> DEFINE u == Fail([b EXCEPT !.buf = <<>>])
    <2>1. Running(u) /\ SameTx(b, u)
      BY <1>4, FailKeeps
    <2> HIDE DEF u
    <2>2. SameTx(tx, u)
      BY <1>4, <2>1 DEF SameTx
    <2>3. tx' = u
      BY <1>9 DEF u
    <2> QED BY <1>1, <2>1, <2>2, <2>3, TxStep
  <1>10. CASE tx' = Fail(c)
    <2> DEFINE u == Fail(c)
    <2>1. Running(u) /\ SameTx(c, u)
      BY <1>6, FailKeeps
    <2> HIDE DEF u
    <2>2. SameTx(tx, u)
      BY <1>7, <2>1 DEF SameTx
    <2>3. tx' = u
      BY <1>10 DEF u
    <2> QED BY <1>1, <2>1, <2>2, <2>3, TxStep
  <1> QED BY <1>3, <1>8, <1>9, <1>10

LEMMA RootStep ==
  ASSUME IndexInv, AddRoot
  PROVE  IndexInv'
  <1>1. tx # NoTx /\ ~tx.failed /\ UNCHANGED <<snapshots, dirs, nodes>> /\ Running(tx)
    BY DEF AddRoot, IndexInv
  <1>2. PICK n \in tx.left : n.path = <<>> /\ tx' = [tx EXCEPT !.left = @ \ {n}]
    BY DEF AddRoot
  <1>3. Running(tx') /\ SameTx(tx, tx')
    BY <1>1, <1>2, RootKeeps
  <1> QED BY <1>1, <1>3, TxStep

LEMMA CommitStep ==
  ASSUME IndexInv, Commit
  PROVE  IndexInv'
  <1> DEFINE t == Flush(tx)
  <1>1. tx # NoTx /\ ~tx.failed /\ tx.left = {} /\ tx' = NoTx /\ Running(tx) /\ Apart(tx, snapshots, dirs)
        /\ Committed(snapshots, dirs, nodes)
    BY DEF Commit, IndexInv
  <1>2. nodes' = nodes \o t.rows /\ dirs' = dirs \cup DirRows(t) /\ snapshots' = Marked(snapshots, t)
    BY DEF Commit, Marked
  <1>3. Running(t) /\ SameTx(tx, t) /\ ~t.failed /\ t.left = tx.left /\ t.buf = <<>>
    BY <1>1, FlushKeeps
  <1> HIDE DEF t
  <1>4. Whole(t) /\ Apart(t, snapshots, dirs)
    BY <1>1, <1>3 DEF Whole, Apart, SameTx
  <1>5. SnapshotsOK(snapshots')
    BY <1>1, <1>2, <1>4, SnapshotsCommit DEF Committed
  <1>6. DirsTableOK(snapshots', dirs')
    BY <1>1, <1>2, <1>4, DirsCommit DEF Committed
  <1>7. NodesTableOK(snapshots', dirs', nodes')
    BY <1>1, <1>2, <1>4, NodesCommit DEF Committed
  <1> QED BY <1>1, <1>5, <1>6, <1>7 DEF IndexInv, Committed

\* Tables and transaction agree at all times: every indexed snapshot has each of
\* its nodes in one row below the row of its directory, every directory there is
\* has the size of all under it, and a transaction has one row and one place in a
\* size for each node it was given, under ids that nobody else has (index.go,
\* index_insert.go).
THEOREM IndexInvariance == IndexSpec => []IndexInv
  <1>1. IndexInv /\ [IndexNext]_indexVars => IndexInv'
    <2> SUFFICES ASSUME IndexInv, [IndexNext]_indexVars PROVE IndexInv'
      OBVIOUS
    <2>1. CASE \E s \in Snapshots : BeginIndex(s)
      BY <2>1, BeginStep
    <2>2. CASE AddRoot
      BY <2>2, RootStep
    <2>3. CASE Add
      BY <2>3, AddStep
    <2>4. CASE Commit
      BY <2>4, CommitStep
    <2>5. CASE Rollback
      BY <2>5 DEF Rollback, IndexInv
    <2>6. CASE UNCHANGED indexVars
      BY <2>6 DEF indexVars, IndexInv
    <2> QED BY <2>1, <2>2, <2>3, <2>4, <2>5, <2>6 DEF IndexNext
  <1> QED BY <1>1, IndexInitInv, PTL DEF IndexSpec

-----------------------------------------------------------------------------
(* What the committed tables answer. *)

Row(s, n, i) == IsRow(snapshots, dirs, s, n, nodes[i])
RowsAt(s) == {i \in DOMAIN nodes : nodes[i].sid = snapshots[s].sid}

\* The row d is the directory p of snapshot s.
IsDirRow(s, d, p) == d \in dirs /\ d.sid = snapshots[s].sid /\ d.path = p

LEMMA DirFacts ==
  ASSUME Committed(snapshots, dirs, nodes), NEW s \in DOMAIN snapshots, NEW d, NEW p, IsDirRow(s, d, p)
  PROVE  /\ d.size = TotalSize(Under(Rows(s), p)) /\ d.size \in Nat
         /\ \A e, q : IsDirRow(s, e, q) /\ (e.did = d.did \/ q = p) => e = d
         /\ \A r \in DOMAIN snapshots : \A e, q : IsDirRow(r, e, q) /\ e.did = d.did => r = s /\ q = p
  <1>1. d.size \in Nat
    BY DEF Committed, DirsTableOK, DirEntry, IsDirRow
  <1>2. PICK r \in DOMAIN snapshots : d.sid = snapshots[r].sid /\ d.size = TotalSize(Under(Rows(r), d.path))
    BY DEF Committed, DirsTableOK, IsDirRow
  <1>3. r = s
    BY <1>2 DEF Committed, SnapshotsOK, IsDirRow
  <1>4. ASSUME NEW e, NEW q, IsDirRow(s, e, q), e.did = d.did \/ q = p PROVE e = d
    BY <1>4 DEF Committed, DirsTableOK, IsDirRow
  <1>5. ASSUME NEW r2 \in DOMAIN snapshots, NEW e, NEW q, IsDirRow(r2, e, q), e.did = d.did PROVE r2 = s /\ q = p
    <2>1. e = d
      BY <1>5 DEF Committed, DirsTableOK, IsDirRow
    <2> QED BY <1>5, <2>1 DEF Committed, SnapshotsOK, IsDirRow
  <1> QED BY <1>1, <1>2, <1>3, <1>4, <1>5 DEF IsDirRow

LEMMA TrueSizes ==
  ASSUME NEW s \in Snapshots, NEW p \in Paths
  PROVE  TrueSize(s, p) = TotalSize(Under(Rows(s), p))
  <1> DEFINE S == {n \in Tree[s] : ~IsDir(n) /\ IsUnder(n.path, p)}
  <1>1. \A n \in S : n.path # <<>>
    BY DEF IsUnder, Paths
  <1>2. S = Under(Rows(s), p)
    BY <1>1 DEF Under, Rows, WithRow
  <1>3. TrueSize(s, p) = TotalSize(S)
    BY DEF TrueSize, TotalSize
  <1> QED BY <1>2, <1>3

LEMMA SizeFound ==
  ASSUME Committed(snapshots, dirs, nodes), NEW s \in DOMAIN snapshots, NEW p \in Paths, NEW d, IsDirRow(s, d, p)
  PROVE  DirSize(s, p) = TrueSize(s, p)
  <1> DEFINE found == {e \in dirs : e.sid = snapshots[s].sid /\ e.path = p /\ e.size > 0}
  <1>1. s \in Snapshots
    BY DEF Committed, SnapshotsOK
  <1>2. d.size = TrueSize(s, p) /\ d.size \in Nat
    BY <1>1, DirFacts, TrueSizes
  <1>3. \A e, q : IsDirRow(s, e, q) /\ (e.did = d.did \/ q = p) => e = d
    BY DirFacts
  <1>4. \A e \in found : e = d
    BY <1>3 DEF IsDirRow
  <1>5. d.size > 0 => d \in found
    BY DEF IsDirRow
  <1>6. DirSize(s, p) = IF found = {} THEN 0 ELSE (CHOOSE e \in found : TRUE).size
    BY DEF DirSize
  <1> HIDE DEF found
  <1>7. CASE found = {}
    BY <1>2, <1>5, <1>6, <1>7
  <1>8. CASE found # {}
    <2>1. (CHOOSE e \in found : TRUE) \in found
      BY <1>8
    <2> QED BY <1>2, <1>4, <1>6, <1>8, <2>1
  <1> QED BY <1>7, <1>8

\* The directory of a row, and the entry made of it.
LEMMA RowFacts ==
  ASSUME Committed(snapshots, dirs, nodes), NEW s \in DOMAIN snapshots, NEW n \in Rows(s),
         NEW i \in DOMAIN nodes, Row(s, n, i)
  PROVE  /\ nodes[i].sid = snapshots[s].sid /\ nodes[i].name = Name(n.path) /\ nodes[i].type = n.type
         /\ \E d : IsDirRow(s, d, Parent(n.path)) /\ nodes[i].parent = d.did
         /\ Entry(s, Parent(n.path), nodes[i]) = TrueEntry(s, n)
  <1> DEFINE r == nodes[i]
             p == Append(Parent(n.path), Name(n.path))
  <1>1. PICK d \in dirs : /\ d.sid = snapshots[s].sid /\ d.path = Parent(n.path)
                          /\ r = [sid |-> snapshots[s].sid, parent |-> d.did, name |-> Name(n.path), type |-> n.type, size |-> n.size]
    BY DEF Row, IsRow
  <1>2. /\ r.sid = snapshots[s].sid /\ r.name = Name(n.path) /\ r.type = n.type /\ r.size = n.size
        /\ IsDirRow(s, d, Parent(n.path)) /\ r.parent = d.did
    BY <1>1 DEF IsDirRow
  <1>3. s \in Snapshots /\ n \in Tree[s] /\ n.path # <<>>
    BY DEF Committed, SnapshotsOK, Rows, WithRow
  <1>4. n.path \in Paths
    BY <1>3, TreeNodes
  <1>5. p = n.path
    BY <1>3, <1>4, ParentFacts
  <1> HIDE DEF r, p
  <1>6. IsDir(n) => DirSize(s, n.path) = TrueSize(s, n.path)
    <2> SUFFICES ASSUME IsDir(n) PROVE DirSize(s, n.path) = TrueSize(s, n.path)
      OBVIOUS
    <2>1. HasDir(snapshots, dirs, s, n.path)
      BY DEF Committed, DirsTableOK
    <2>2. PICK e : IsDirRow(s, e, n.path)
      BY <2>1 DEF HasDir, IsDirRow
    <2> QED BY <1>4, <2>2, SizeFound
  <1>7. Entry(s, Parent(n.path), r) = [path |-> p, type |-> r.type, size |-> IF IsDir(r) THEN DirSize(s, p) ELSE r.size]
    BY <1>2 DEF Entry, p
  <1>8. Entry(s, Parent(n.path), r) = TrueEntry(s, n)
    BY <1>2, <1>5, <1>6, <1>7 DEF TrueEntry, IsDir
  <1> QED BY <1>2, <1>8 DEF r

\* Rows and nodes of an indexed snapshot belong to one another.
LEMMA RowsMatch ==
  ASSUME Committed(snapshots, dirs, nodes), NEW s \in DOMAIN snapshots
  PROVE  /\ \A i \in RowsAt(s) : \E n \in Rows(s) : Row(s, n, i)
         /\ \A n \in Rows(s) : \E i \in RowsAt(s) : Row(s, n, i)
         /\ \A i \in RowsAt(s) : \A m, n \in Rows(s) : Row(s, m, i) /\ Row(s, n, i) => m = n
         /\ \A i, j \in RowsAt(s) : \A n \in Rows(s) : Row(s, n, i) /\ Row(s, n, j) => i = j
  <1>1. ASSUME NEW i \in RowsAt(s) PROVE \E n \in Rows(s) : Row(s, n, i)
    <2>1. PICK r \in DOMAIN snapshots : \E n \in Rows(r) : Row(r, n, i)
      BY DEF Committed, NodesTableOK, RowsAt, Row
    <2>2. nodes[i].sid = snapshots[r].sid /\ nodes[i].sid = snapshots[s].sid
      BY <2>1 DEF Row, IsRow, RowsAt
    <2>3. r = s
      BY <2>2 DEF Committed, SnapshotsOK
    <2> QED BY <2>1, <2>3
  <1>2. ASSUME NEW n \in Rows(s) PROVE \E i \in RowsAt(s) : Row(s, n, i)
    <2>1. PICK i \in DOMAIN nodes : Row(s, n, i)
      BY DEF Committed, NodesTableOK, Row
    <2> QED BY <2>1 DEF RowsAt, Row, IsRow
  <1>3. ASSUME NEW i \in RowsAt(s), NEW m \in Rows(s), NEW n \in Rows(s), Row(s, m, i), Row(s, n, i) PROVE m = n
    <2>1. i \in DOMAIN nodes
      BY DEF RowsAt
    <2>2. PICK d : IsDirRow(s, d, Parent(m.path)) /\ nodes[i].parent = d.did
      BY <1>3, <2>1, RowFacts
    <2>3. PICK e : IsDirRow(s, e, Parent(n.path)) /\ nodes[i].parent = e.did
      BY <1>3, <2>1, RowFacts
    <2>4. Parent(m.path) = Parent(n.path)
      <3> DEFINE p == Parent(m.path)
                 q == Parent(n.path)
      <3>1. IsDirRow(s, d, p) /\ IsDirRow(s, e, q) /\ e.did = d.did
        BY <2>2, <2>3
      <3> HIDE DEF p, q
      <3>2. p = q
        BY <3>1, DirFacts
      <3> QED BY <3>2 DEF p, q
    <2>5. Name(m.path) = Name(n.path)
      BY <1>3, <2>1, RowFacts
    <2>6. s \in Snapshots /\ m \in Tree[s] /\ n \in Tree[s] /\ m.path # <<>> /\ n.path # <<>>
      BY DEF Committed, SnapshotsOK, Rows, WithRow
    <2>7. m.path \in Paths /\ n.path \in Paths /\ (m.path = n.path => m = n)
      BY <2>6, TreeNodes
    <2>8. Append(Parent(m.path), Name(m.path)) = m.path /\ Append(Parent(n.path), Name(n.path)) = n.path
      BY <2>6, <2>7, ParentFacts
    <2> QED BY <2>4, <2>5, <2>7, <2>8
  <1>4. ASSUME NEW i \in RowsAt(s), NEW j \in RowsAt(s), NEW n \in Rows(s), Row(s, n, i), Row(s, n, j) PROVE i = j
    <2>1. PICK d \in dirs : /\ d.sid = snapshots[s].sid /\ d.path = Parent(n.path)
                            /\ nodes[i] = [sid |-> snapshots[s].sid, parent |-> d.did, name |-> Name(n.path), type |-> n.type, size |-> n.size]
      BY <1>4 DEF Row, IsRow
    <2>2. PICK e \in dirs : /\ e.sid = snapshots[s].sid /\ e.path = Parent(n.path)
                            /\ nodes[j] = [sid |-> snapshots[s].sid, parent |-> e.did, name |-> Name(n.path), type |-> n.type, size |-> n.size]
      BY <1>4 DEF Row, IsRow
    <2>3. d = e
      BY <2>1, <2>2 DEF Committed, DirsTableOK
    <2>4. nodes[i] = nodes[j]
      BY <2>1, <2>2, <2>3
    <2> QED BY <2>4 DEF Committed, NodesTableOK, RowsAt
  <1> QED BY <1>1, <1>2, <1>3, <1>4

\* A query that selects the rows I of s where the question is about the nodes N.
Selects(s, I, N) ==
    /\ I \subseteq RowsAt(s) /\ N \subseteq Rows(s)
    /\ \A i \in RowsAt(s) : \A n \in Rows(s) : Row(s, n, i) => (i \in I <=> n \in N)

LEMMA SelectedCount ==
  ASSUME Committed(snapshots, dirs, nodes), NEW s \in DOMAIN snapshots, NEW I, NEW N, Selects(s, I, N)
  PROVE  Cardinality(I) = Cardinality(N)
  <1> DEFINE f == [n \in N |-> CHOOSE i \in RowsAt(s) : Row(s, n, i)]
  <1>1. ASSUME NEW n \in N PROVE f[n] \in I /\ Row(s, n, f[n])
    <2>1. n \in Rows(s)
      BY DEF Selects
    <2>2. \E i \in RowsAt(s) : Row(s, n, i)
      BY <2>1, RowsMatch
    <2> QED BY <2>1, <2>2 DEF Selects
  <1>2. f \in [N -> I]
    BY <1>1
  <1> HIDE DEF f
  <1>3. ASSUME NEW m \in N, NEW n \in N, f[m] = f[n] PROVE m = n
    <2>1. m \in Rows(s) /\ n \in Rows(s) /\ f[m] \in RowsAt(s) /\ Row(s, m, f[m]) /\ Row(s, n, f[m])
      BY <1>1, <1>3 DEF Selects
    <2> QED BY <2>1, RowsMatch
  <1>4. ASSUME NEW i \in I PROVE \E n \in N : f[n] = i
    <2>1. i \in RowsAt(s)
      BY DEF Selects
    <2>2. PICK n \in Rows(s) : Row(s, n, i)
      BY <2>1, RowsMatch
    <2>3. n \in N
      BY <2>1, <2>2 DEF Selects
    <2>4. f[n] \in RowsAt(s) /\ Row(s, n, f[n])
      BY <1>1, <2>3 DEF Selects
    <2>5. f[n] = i
      BY <2>1, <2>2, <2>4, RowsMatch
    <2> QED BY <2>3, <2>5
  <1>5. IsFiniteSet(N)
    <2>1. s \in Snapshots /\ Tree[s] \in SUBSET Tree[s] /\ N \subseteq Rows(s)
      BY DEF Committed, SnapshotsOK, Selects
    <2>2. IsFiniteSet(Rows(s))
      BY <2>1, TreeNodes DEF Rows, NodesOK
    <2> QED BY <2>1, <2>2, FS_Subset
  <1>6. ExistsBijection(N, I)
    <2>1. f \in Bijection(N, I)
      BY <1>2, <1>3, <1>4 DEF Bijection, Injection, Surjection, IsInjective
    <2> QED BY <2>1 DEF ExistsBijection
  <1> QED BY ONLY <1>5, <1>6, FS_Bijection

LEMMA SelectedList ==
  ASSUME Committed(snapshots, dirs, nodes), NEW s \in DOMAIN snapshots, NEW I, NEW N, Selects(s, I, N),
         NEW found, DOMAIN found = I,
         \A i \in I : \A n \in N : Row(s, n, i) => found[i] = TrueEntry(s, n)
  PROVE  IsListing(found, TrueEntries(s, N))
  <1>1. ASSUME NEW i \in I PROVE \E n \in N : Row(s, n, i) /\ found[i] = TrueEntry(s, n) /\ n \in Rows(s) /\ i \in RowsAt(s)
    <2>1. i \in RowsAt(s)
      BY DEF Selects
    <2>2. PICK n \in Rows(s) : Row(s, n, i)
      BY <2>1, RowsMatch
    <2> QED BY <2>1, <2>2 DEF Selects
  <1>2. ASSUME NEW n \in N PROVE \E i \in I : found[i] = TrueEntry(s, n)
    <2>1. n \in Rows(s)
      BY DEF Selects
    <2>2. PICK i \in RowsAt(s) : Row(s, n, i)
      BY <2>1, RowsMatch
    <2>3. i \in I
      BY <2>1, <2>2 DEF Selects
    <2> QED BY <2>2, <2>3
  <1>3. ASSUME NEW i \in I, NEW j \in I, found[i] = found[j] PROVE i = j
    <2>1. PICK m \in N : Row(s, m, i) /\ found[i] = TrueEntry(s, m) /\ m \in Rows(s) /\ i \in RowsAt(s)
      BY <1>1
    <2>2. PICK n \in N : Row(s, n, j) /\ found[j] = TrueEntry(s, n) /\ n \in Rows(s) /\ j \in RowsAt(s)
      BY <1>1
    <2>3. TrueEntry(s, m).path = m.path /\ TrueEntry(s, n).path = n.path
      BY DEF TrueEntry
    <2>4. m.path = n.path
      BY <1>3, <2>1, <2>2, <2>3
    <2>5. s \in Snapshots /\ m \in Tree[s] /\ n \in Tree[s]
      BY <2>1, <2>2 DEF Committed, SnapshotsOK, Rows, WithRow
    <2>6. m = n
      BY <2>4, <2>5, TreeNodes
    <2> QED BY <2>1, <2>2, <2>6, RowsMatch
  <1>4. Range(found) = TrueEntries(s, N)
    BY <1>1, <1>2 DEF Range, TrueEntries
  <1>5. IsInjective(found)
    BY <1>3 DEF IsInjective
  <1> QED BY <1>4, <1>5 DEF IsListing

LEMMA PathsOfDirs == \A d \in AllDirs : d \in Paths
  <1> SUFFICES ASSUME NEW d \in AllDirs PROVE d \in Paths
    OBVIOUS
  <1>1. CASE d = <<>>
    BY <1>1 DEF Paths
  <1>2. CASE d # <<>>
    <2>1. PICK n \in UNION Range(Tree) : \E k \in 1..Len(n.path) : d = SubSeq(n.path, 1, k)
      BY <1>2 DEF AllDirs
    <2>2. PICK s \in Snapshots : n \in Tree[s]
      BY <2>1, IndexAssumption DEF Range
    <2>3. n.path \in Paths
      BY <2>2, TreeNodes
    <2> QED BY <2>1, <2>3, ParentOfPrefix
  <1> QED BY <1>1, <1>2

\* What the tree of s has to say of a directory, by rows.
LEMMA NodeFacts ==
  ASSUME Committed(snapshots, dirs, nodes), NEW s \in DOMAIN snapshots, NEW d \in Paths
  PROVE  /\ Below(s, d) \subseteq Rows(s) /\ Below(s, <<>>) = Rows(s)
         /\ \A n \in Rows(s) : n \in Below(s, d) <=> Parent(n.path) = d \/ IsUnder(Parent(n.path), d)
  <1>1. s \in Snapshots
    BY DEF Committed, SnapshotsOK
  <1>2. ASSUME NEW n \in Rows(s) PROVE n.path \in Paths /\ n.path # <<>> /\ n \in Tree[s]
    BY <1>1, TreeNodes DEF Rows, WithRow
  <1>3. ASSUME NEW n \in Rows(s) PROVE n \in Below(s, d) <=> Parent(n.path) = d \/ IsUnder(Parent(n.path), d)
    <2>1. n \in Below(s, d) <=> IsUnder(n.path, d)
      BY <1>2 DEF Below
    <2> QED BY <1>2, <2>1, UnderChild
  <1>4. ASSUME NEW e \in Paths, NEW n \in Below(s, e) PROVE n \in Rows(s)
    <2>1. n \in Tree[s] /\ Len(e) < Len(n.path) /\ Len(e) \in Nat
      BY DEF Below, IsUnder, Paths
    <2>2. n.path # <<>>
      BY <2>1
    <2> QED BY <2>1, <2>2 DEF Rows, WithRow
  <1>5. ASSUME NEW n \in Rows(s) PROVE n \in Below(s, <<>>)
    <2>1. Len(n.path) \in Nat \ {0} /\ SubSeq(n.path, 1, 0) = <<>> /\ Len(<<>>) = 0
      BY <1>2, ParentFacts, WholePath DEF Paths
    <2> QED BY <1>2, <2>1 DEF Below, IsUnder
  <1>6. <<>> \in Paths
    BY DEF Paths
  <1> QED BY <1>3, <1>4, <1>5, <1>6

LEMMA ListIsExact ==
  ASSUME Committed(snapshots, dirs, nodes), NEW s \in DOMAIN snapshots, NEW dir \in Paths
  PROVE  IsListing(ListDir(s, dir), TrueEntries(s, {n \in Below(s, dir) : Parent(n.path) = dir}))
  <1> DEFINE N == {n \in Below(s, dir) : Parent(n.path) = dir}
             ids == {d.did : d \in {e \in dirs : e.sid = snapshots[s].sid /\ e.path = dir}}
  <1>1. IsIndexed(s)
    BY DEF Committed, SnapshotsOK, IsIndexed
  <1>2. \A n : n \in N <=> n \in Rows(s) /\ Parent(n.path) = dir
    BY NodeFacts
  <1>3. ListDir(s, dir) = IF ids = {} THEN <<>> ELSE [i \in RowsIn(CHOOSE did \in ids : TRUE) |-> Entry(s, dir, nodes[i])]
    BY <1>1 DEF ListDir
  <1> HIDE DEF N
  <1>4. CASE \E d : IsDirRow(s, d, dir)
    <2>1. PICK d : IsDirRow(s, d, dir)
      BY <1>4
    <2>2. \A e : IsDirRow(s, e, dir) => e = d
      BY <2>1, DirFacts
    <2>3. ids = {d.did}
      BY <2>1, <2>2 DEF IsDirRow
    <2> DEFINE I == RowsIn(d.did)
               found == [i \in I |-> Entry(s, dir, nodes[i])]
    <2>4. ListDir(s, dir) = found
      BY <1>3, <2>3
    <2>5. \A i \in DOMAIN nodes : \A r \in DOMAIN snapshots : \A n \in Rows(r) :
             Row(r, n, i) => (i \in I <=> r = s /\ Parent(n.path) = dir)
      <3> SUFFICES ASSUME NEW i \in DOMAIN nodes, NEW r \in DOMAIN snapshots, NEW n \in Rows(r), Row(r, n, i)
                   PROVE  i \in I <=> r = s /\ Parent(n.path) = dir
        OBVIOUS
      <3> DEFINE p == Parent(n.path)
      <3>1. PICK e : IsDirRow(r, e, p) /\ nodes[i].parent = e.did
        BY RowFacts
      <3>2. i \in I <=> e.did = d.did
        BY <3>1 DEF RowsIn
      <3> HIDE DEF p
      <3>3. e.did = d.did => r = s /\ p = dir
        BY <2>1, <3>1, DirFacts
      <3>4. r = s /\ p = dir => e = d
        BY <2>2, <3>1
      <3> QED BY <3>2, <3>3, <3>4 DEF p
    <2>6. I \subseteq RowsAt(s)
      <3> SUFFICES ASSUME NEW i \in I PROVE i \in RowsAt(s)
        OBVIOUS
      <3>1. i \in DOMAIN nodes
        BY DEF RowsIn
      <3>2. PICK r \in DOMAIN snapshots : \E n \in Rows(r) : Row(r, n, i)
        BY <3>1 DEF Committed, NodesTableOK, Row
      <3>3. r = s
        BY <2>5, <3>1, <3>2
      <3> QED BY <3>1, <3>2, <3>3 DEF RowsAt, Row, IsRow
    <2>7. Selects(s, I, N)
      BY <1>2, <2>5, <2>6 DEF Selects, RowsAt
    <2>8. \A i \in I : \A n \in N : Row(s, n, i) => found[i] = TrueEntry(s, n)
      <3> SUFFICES ASSUME NEW i \in I, NEW n \in N, Row(s, n, i) PROVE found[i] = TrueEntry(s, n)
        OBVIOUS
      <3>1. i \in DOMAIN nodes /\ n \in Rows(s) /\ Parent(n.path) = dir
        BY <1>2 DEF RowsIn
      <3>2. Entry(s, Parent(n.path), nodes[i]) = TrueEntry(s, n)
        BY <3>1, RowFacts
      <3> QED BY <3>1, <3>2
    <2>9. DOMAIN found = I
      OBVIOUS
    <2> HIDE DEF I, found
    <2>10. IsListing(found, TrueEntries(s, N))
      BY <2>7, <2>8, <2>9, SelectedList
    <2> QED BY <2>4, <2>10 DEF N
  <1>5. CASE ~\E d : IsDirRow(s, d, dir)
    <2>1. ListDir(s, dir) = <<>>
      BY <1>3, <1>5 DEF IsDirRow
    <2>2. N = {}
      <3>1. ASSUME NEW n \in N PROVE FALSE
        <4>1. n \in Rows(s) /\ Parent(n.path) = dir
          BY <1>2
        <4>2. HasDir(snapshots, dirs, s, dir)
          BY <4>1 DEF Committed, DirsTableOK
        <4> QED BY <1>5, <4>2 DEF HasDir, IsDirRow
      <3> QED BY <3>1
    <2>3. TrueEntries(s, N) = {}
      BY <2>2 DEF TrueEntries
    <2>4. DOMAIN <<>> = {}
      OBVIOUS
    <2>5. IsListing(<<>>, {})
      BY <2>4 DEF IsListing, Range, IsInjective
    <2> QED BY <2>1, <2>3, <2>5 DEF N
  <1> QED BY <1>4, <1>5

LEMMA CountIsExact ==
  ASSUME Committed(snapshots, dirs, nodes), NEW s \in DOMAIN snapshots, NEW dir \in Paths
  PROVE  /\ SubtreeCounts(s, dir).files = Cardinality({n \in Below(s, dir) : n.type = "file"})
         /\ SubtreeCounts(s, dir).dirs = Cardinality({n \in Below(s, dir) : IsDir(n)})
  <1> DEFINE sid == snapshots[s].sid
             within == {d.did : d \in {e \in dirs : e.sid = sid /\ (e.path = dir \/ IsUnder(e.path, dir))}}
             I(type) == {i \in DOMAIN nodes : nodes[i].sid = sid /\ nodes[i].parent \in within /\ nodes[i].type = type}
             N(type) == {n \in Below(s, dir) : n.type = type}
  <1>1. SubtreeCounts(s, dir) = [files |-> Cardinality(I("file")), dirs |-> Cardinality(I("dir"))]
    BY DEF SubtreeCounts
  <1>2. ASSUME NEW type PROVE Cardinality(I(type)) = Cardinality(N(type))
    <2>1. ASSUME NEW i \in RowsAt(s), NEW n \in Rows(s), Row(s, n, i) PROVE i \in I(type) <=> n \in N(type)
      <3> DEFINE p == Parent(n.path)
      <3>1. i \in DOMAIN nodes /\ nodes[i].sid = sid
        BY DEF RowsAt
      <3>2. nodes[i].type = n.type
        BY <2>1, <3>1, RowFacts
      <3>3. PICK d : IsDirRow(s, d, p) /\ nodes[i].parent = d.did
        BY <2>1, <3>1, RowFacts
      <3>4. n \in Below(s, dir) <=> p = dir \/ IsUnder(p, dir)
        BY NodeFacts
      <3> HIDE DEF p
      <3>5. nodes[i].parent \in within <=> p = dir \/ IsUnder(p, dir)
        <4>1. ASSUME NEW e, NEW q, IsDirRow(s, e, q), e.did = d.did PROVE q = p
          BY <3>3, <4>1, DirFacts
        <4>2. ASSUME nodes[i].parent \in within PROVE p = dir \/ IsUnder(p, dir)
          <5>1. PICK e \in dirs : e.sid = sid /\ (e.path = dir \/ IsUnder(e.path, dir)) /\ e.did = d.did
            BY <3>3, <4>2
          <5>2. e.path = p
            BY <4>1, <5>1 DEF IsDirRow
          <5> QED BY <5>1, <5>2
        <4>3. ASSUME p = dir \/ IsUnder(p, dir) PROVE nodes[i].parent \in within
          BY <3>3, <4>3 DEF IsDirRow
        <4> QED BY <4>2, <4>3
      <3> QED BY <3>1, <3>2, <3>4, <3>5
    <2>2. I(type) \subseteq RowsAt(s) /\ N(type) \subseteq Rows(s)
      BY NodeFacts DEF RowsAt
    <2> HIDE DEF I, N
    <2>3. Selects(s, I(type), N(type))
      BY <2>1, <2>2 DEF Selects
    <2> QED BY <2>3, SelectedCount
  <1>3. N("dir") = {n \in Below(s, dir) : IsDir(n)}
    BY DEF IsDir
  <1> HIDE DEF I
  <1> QED BY <1>1, <1>2, <1>3

LEMMA SearchFindsAll ==
  ASSUME Committed(snapshots, dirs, nodes), NEW s \in DOMAIN snapshots, NEW name
  PROVE  IsListing(Search(s, name), TrueEntries(s, {n \in Below(s, <<>>) : Name(n.path) = name}))
  <1> DEFINE N == {n \in Below(s, <<>>) : Name(n.path) = name}
             I == {i \in DOMAIN nodes : IsIndexed(s) /\ nodes[i].sid = snapshots[s].sid /\ nodes[i].name = name}
             dir(r) == CHOOSE d \in dirs : d.did = r.parent
             found == [i \in I |-> Entry(s, dir(nodes[i]).path, nodes[i])]
  <1>1. IsIndexed(s) /\ <<>> \in Paths
    BY DEF Committed, SnapshotsOK, IsIndexed, Paths
  <1>2. \A n : n \in N <=> n \in Rows(s) /\ Name(n.path) = name
    BY <1>1, NodeFacts
  <1>3. Search(s, name) = found
    BY DEF Search
  <1>4. I \subseteq RowsAt(s) /\ N \subseteq Rows(s)
    BY <1>2 DEF RowsAt
  <1>5. ASSUME NEW i \in RowsAt(s), NEW n \in Rows(s), Row(s, n, i)
        PROVE  (i \in I <=> n \in N) /\ Entry(s, dir(nodes[i]).path, nodes[i]) = TrueEntry(s, n)
    <2>1. i \in DOMAIN nodes /\ nodes[i].sid = snapshots[s].sid
      BY DEF RowsAt
    <2>2. /\ nodes[i].name = Name(n.path) /\ Entry(s, Parent(n.path), nodes[i]) = TrueEntry(s, n)
          /\ \E d : IsDirRow(s, d, Parent(n.path)) /\ nodes[i].parent = d.did
      BY <1>5, <2>1, RowFacts
    <2>3. PICK d : IsDirRow(s, d, Parent(n.path)) /\ nodes[i].parent = d.did
      BY <2>2
    <2>4. d \in dirs /\ \A e \in dirs : e.did = d.did => e = d
      BY <2>3 DEF IsDirRow, Committed, DirsTableOK
    <2>5. dir(nodes[i]) = d
      BY <2>3, <2>4
    <2>6. d.path = Parent(n.path)
      BY <2>3 DEF IsDirRow
    <2> HIDE DEF dir
    <2> QED BY <1>1, <1>2, <2>1, <2>2, <2>5, <2>6
  <1>6. \A i \in I : \A n \in N : Row(s, n, i) => found[i] = TrueEntry(s, n)
    BY <1>4, <1>5
  <1>7. DOMAIN found = I
    OBVIOUS
  <1> HIDE DEF I, N, found
  <1>8. Selects(s, I, N)
    BY <1>4, <1>5 DEF Selects
  <1>9. IsListing(found, TrueEntries(s, N))
    BY <1>6, <1>7, <1>8, SelectedList
  <1> QED BY <1>3, <1>9 DEF N

\* Committed tables answer every query by the tree.
LEMMA CommittedIsExact == Committed(snapshots, dirs, nodes) => IndexIsExact
  <1> SUFFICES ASSUME Committed(snapshots, dirs, nodes), NEW s \in Snapshots, NEW d \in AllDirs
               PROVE  IF IsIndexed(s)
                        THEN /\ IsListing(ListDir(s, d), TrueEntries(s, {n \in Below(s, d) : Parent(n.path) = d}))
                             /\ LET c == SubtreeCounts(s, d) IN
                                  /\ c.files = Cardinality({n \in Below(s, d) : n.type = "file"})
                                  /\ c.dirs = Cardinality({n \in Below(s, d) : IsDir(n)})
                             /\ \A name \in AllNames :
                                  IsListing(Search(s, name), TrueEntries(s, {n \in Below(s, <<>>) : Name(n.path) = name}))
                             /\ snapshots[s].entries = Cardinality(Below(s, <<>>))
                        ELSE ListDir(s, d) = <<>>
    BY DEF IndexIsExact
  <1>1. d \in Paths
    BY PathsOfDirs
  <1>2. CASE IsIndexed(s)
    <2>1. s \in DOMAIN snapshots
      BY <1>2 DEF IsIndexed
    <2>2. IsListing(ListDir(s, d), TrueEntries(s, {n \in Below(s, d) : Parent(n.path) = d}))
      BY <1>1, <2>1, ListIsExact
    <2>3. /\ SubtreeCounts(s, d).files = Cardinality({n \in Below(s, d) : n.type = "file"})
          /\ SubtreeCounts(s, d).dirs = Cardinality({n \in Below(s, d) : IsDir(n)})
      BY <1>1, <2>1, CountIsExact
    <2>4. \A name : IsListing(Search(s, name), TrueEntries(s, {n \in Below(s, <<>>) : Name(n.path) = name}))
      BY <2>1, SearchFindsAll
    <2>5. snapshots[s].entries = Cardinality(Below(s, <<>>))
      <3>1. snapshots[s].entries = Cardinality(Rows(s))
        BY <2>1 DEF Committed, SnapshotsOK
      <3> QED BY <1>1, <2>1, <3>1, NodeFacts
    <2> QED BY <1>2, <2>2, <2>3, <2>4, <2>5
  <1>3. CASE ~IsIndexed(s)
    BY <1>3 DEF ListDir
  <1> QED BY <1>2, <1>3

\* What flushDirs would write is at any time each interned directory with the
\* sizes of all nodes under it that were added, for any order of arrival
\* (foldSubtreeSizes in index_insert.go).
THEOREM SizesAreWhole ==
  IndexSpec => [](tx # NoTx => \A q \in DOMAIN tx.dids : FoldSizes(tx)[Slot(tx, q)] = TotalSize(Under(Added(tx), q)))
  <1>1. ASSUME IndexInv, tx # NoTx
        PROVE  \A q \in DOMAIN tx.dids : FoldSizes(tx)[Slot(tx, q)] = TotalSize(Under(Added(tx), q))
    <2>1. Running(tx)
      BY <1>1 DEF IndexInv
    <2>2. Tree[tx.snap] \ tx.left \in SUBSET Tree[tx.snap] /\ tx.snap \in Snapshots
      BY <2>1 DEF Running
    <2>3. NodesOK(Added(tx))
      BY <2>2, TreeNodes DEF Added
    <2> QED BY <2>1, <2>3, Folded DEF Running
  <1> QED BY <1>1, IndexInvariance, PTL

\* What browsing shows of an indexed snapshot is that snapshot: listings, sizes,
\* counts and searches are those of the tree restic streamed, and of a snapshot
\* that is not indexed nothing is listed (queries.go).
THEOREM BrowseIsExact == IndexSpec => []IndexIsExact
  <1>1. IndexInv => IndexIsExact
    BY CommittedIsExact DEF IndexInv
  <1> QED BY <1>1, IndexInvariance, PTL

\* Directory ids are a key, every row has its directory, and a transaction keeps
\* a size for each directory it interned (schema of the tables, index.go).
THEOREM IndexTypeCorrect == IndexSpec => []IndexTypeOK
  <1>1. IndexInv => IndexTypeOK
    <2> SUFFICES ASSUME IndexInv PROVE IndexTypeOK
      OBVIOUS
    <2>1. DOMAIN snapshots \subseteq Snapshots
      BY DEF IndexInv, Committed, SnapshotsOK
    <2>2. ASSUME NEW s \in DOMAIN snapshots PROVE snapshots[s].sid \in Nat \ {0} /\ snapshots[s].entries \in Nat
      <3>1. s \in Snapshots /\ Tree[s] \in SUBSET Tree[s]
        BY <2>1
      <3>2. IsFiniteSet(Rows(s))
        BY <3>1, TreeNodes DEF Rows, NodesOK
      <3>3. Cardinality(Rows(s)) \in Nat
        BY <3>2, FS_CardinalityType
      <3> QED BY <3>3 DEF IndexInv, Committed, SnapshotsOK
    <2>3. \A d, e \in dirs : d.did = e.did => d = e
      BY DEF IndexInv, Committed, DirsTableOK
    <2>4. ASSUME NEW i \in DOMAIN nodes PROVE \E d \in dirs : nodes[i].parent = d.did
      <3>1. PICK s \in DOMAIN snapshots : \E n \in Rows(s) : IsRow(snapshots, dirs, s, n, nodes[i])
        BY DEF IndexInv, Committed, NodesTableOK
      <3> QED BY <3>1 DEF IsRow
    <2>5. ASSUME tx # NoTx
          PROVE  /\ tx.snap \in Snapshots /\ tx.left \subseteq Tree[tx.snap]
                 /\ Len(tx.sizes) = Len(tx.dirBuf) /\ tx.failed \in BOOLEAN
      BY <2>5 DEF IndexInv, Running, DirsOK
    <2> QED BY <2>1, <2>2, <2>3, <2>4, <2>5 DEF IndexTypeOK
  <1> QED BY <1>1, IndexInvariance, PTL

-----------------------------------------------------------------------------
(* Shell sessions. *)

ShellsSpec == ShellsInit /\ [][ShellsNext]_shellVars

\* A session that has not got to writing a file has none; one that is over has
\* none but those whose removal failed.
FilesInv ==
    /\ host \in [program : {"tui", "shell", "command"}, up : BOOLEAN]
    /\ session \in [Shells -> [pc : {"none", "password", "tag", "queued", "running", "exited", "done", "failed"},
                               kind : {"repo", "local"}, mode : {"file", "env"}, prompt : {"untagged", "file", "dir"}]]
    /\ \A f \in files : session[f[1]].pc \notin {"none", "password"}
    /\ \A f \in files : f[2] = "password" /\ f \in kept /\ host.program = "tui" =>
          session[f[1]].pc = "failed" \/ f[1] \in told

ShellsIInv == ShellsTypeOK /\ FilesInv /\ NothingLeftBehind

USE ShellsAssumption
-----------------------------------------------------------------------------
LEMMA ShellsInitInv == ShellsInit => ShellsIInv
  BY DEF ShellsInit, SessionConfig, ShellsIInv, ShellsTypeOK, FilesInv, NothingLeftBehind

\* Each step of a session.
LEMMA SessionSteps ==
  ASSUME ShellsIInv, NEW s \in Shells,
         OpenShell(s) \/ WritePassword(s) \/ TagPrompt(s) \/ Launch(s) \/ ShellEnds(s) \/ CleanUp(s)
  PROVE  ShellsIInv'
  <1> USE DEF ShellsIInv, ShellsTypeOK, FilesInv, NothingLeftBehind, InStep, Goes
  <1>1. CASE OpenShell(s) BY <1>1 DEF OpenShell
  <1>2. CASE WritePassword(s) BY <1>2 DEF WritePassword
  <1>3. CASE TagPrompt(s) BY <1>3 DEF TagPrompt
  <1>4. CASE Launch(s) BY <1>4 DEF Launch
  <1>5. CASE ShellEnds(s) BY <1>5 DEF ShellEnds
  <1>6. CASE CleanUp(s) BY <1>6 DEF CleanUp, Unlink, OwnFiles
  <1> QED BY <1>1, <1>2, <1>3, <1>4, <1>5, <1>6

\* The strengthened invariant holds for any number of sessions.
THEOREM ShellsInvariance == ShellsSpec => []ShellsIInv
  <1>1. ShellsIInv /\ [ShellsNext]_shellVars => ShellsIInv'
    <2> SUFFICES ASSUME ShellsIInv, [ShellsNext]_shellVars PROVE ShellsIInv'
      OBVIOUS
    <2>1. CASE Leave \/ Interrupt
      BY <2>1 DEF Leave, Interrupt, ShellsIInv, ShellsTypeOK, FilesInv, NothingLeftBehind
    <2>2. CASE UNCHANGED shellVars
      BY <2>2 DEF shellVars, ShellsIInv, ShellsTypeOK, FilesInv, NothingLeftBehind
    <2> QED BY <2>1, <2>2, SessionSteps DEF ShellsNext
  <1> QED BY <1>1, ShellsInitInv, PTL DEF ShellsSpec

\* A session that is over left nothing behind but what could not be removed, and
\* the interface says so of a password.
THEOREM LeftNothing == ShellsSpec => []NothingLeftBehind
  BY ShellsInvariance, PTL DEF ShellsIInv
HIDE ShellsAssumption

\* The environment of a shell has one repository's context, whatever is inherited and
\* whatever the repository is configured with (shell.go, buildShellEnv and
\* stripCredEnv; resticx.go, BackendEnviron).
THEOREM EnvScoped ==
  ASSUME NEW base, NEW configured, NEW mode \in {"file", "env"}, NEW snap \in BOOLEAN
  PROVE  EnvIsScoped(base, configured, mode, snap)
  <1> DEFINE backend == configured \ Reserved
             env == BuildShellEnv(base, configured, mode, snap)
             names == UNION {env[i].names : i \in 1..4}
             first == {"RESTIC_REPOSITORY", "RESTICSCOPE_REPO"}
             way == IF mode = "env" THEN "RESTIC_PASSWORD" ELSE "RESTIC_PASSWORD_FILE"
             shot == IF snap THEN {"RESTICSCOPE_SNAPSHOT_ID"} ELSE {}
             last == {"RESTIC_CACHE_DIR", way} \cup shot
             ours == {"RESTICSCOPE_REPO", "RESTICSCOPE_SNAPSHOT_ID"}
  <1>1. /\ env[1].names = base \ (backend \cup (CredFamily \ KeptVars)) /\ env[2].names = first
        /\ env[3].names = backend /\ env[4].names = last
    BY DEF BuildShellEnv, BackendEnviron
  <1> HIDE DEF env
  <1>2. \A i \in 1..4 : i \in {1, 2, 3, 4}
    OBVIOUS
  <1>3. names = env[1].names \cup env[2].names \cup env[3].names \cup env[4].names
    <2>1. 1 \in 1..4 /\ 2 \in 1..4 /\ 3 \in 1..4 /\ 4 \in 1..4
      OBVIOUS
    <2> QED BY <1>2, <2>1
  <1> HIDE DEF names
  <1>4. way \in {"RESTIC_PASSWORD", "RESTIC_PASSWORD_FILE"}
    OBVIOUS
  <1>5. shot \subseteq {"RESTICSCOPE_SNAPSHOT_ID"}
    OBVIOUS
  <1> HIDE DEF way, shot
  <1>6. env[1].names \subseteq base \ (CredFamily \ KeptVars)
    BY <1>1
  <1>7. base \ CredFamily \subseteq names
    BY <1>1, <1>3
  <1>8. StripCredEnv(base) \cap CredFamily = {}
    BY DEF StripCredEnv
  <1>9. first \cup last \subseteq CredFamily \ KeptVars
    BY <1>4, <1>5 DEF CredFamily, KeptVars
  <1>10. backend \cap (first \cup last) \subseteq configured \cap ours
    BY <1>4, <1>5 DEF Reserved
  <1>11. first \cap last = {}
    BY <1>4, <1>5
  <1>12. names \cap Passwords = {way}
    <2>1. backend \cap Passwords = {} /\ Passwords \subseteq CredFamily \ KeptVars
      BY DEF Reserved, Passwords, CredFamily, KeptVars
    <2>2. first \cap Passwords = {} /\ last \cap Passwords = {way}
      BY <1>4, <1>5 DEF Passwords
    <2> HIDE DEF backend, first, last
    <2> QED BY <1>1, <1>3, <2>1, <2>2
  <1>13. way \in Passwords
    BY <1>4 DEF Passwords
  <1> HIDE DEF backend, first, last, ours
  <1>14. ASSUME NEW i \in 1..4, NEW j \in 1..4, i < j PROVE env[i].names \cap env[j].names \subseteq configured \cap ours
    <2>1. /\ env[1].names \cap env[2].names = {} /\ env[1].names \cap env[3].names = {} /\ env[1].names \cap env[4].names = {}
          /\ env[2].names \cap env[3].names \subseteq configured \cap ours
          /\ env[2].names \cap env[4].names = {}
          /\ env[3].names \cap env[4].names \subseteq configured \cap ours
      BY <1>1, <1>9, <1>10, <1>11
    <2>2. <<i, j>> \in {<<1, 2>>, <<1, 3>>, <<1, 4>>, <<2, 3>>, <<2, 4>>, <<3, 4>>}
      BY <1>14
    <2> QED BY <2>1, <2>2
  <1> QED BY <1>6, <1>7, <1>8, <1>12, <1>13, <1>14 DEF EnvIsScoped, env, names, ours

-----------------------------------------------------------------------------
(* Session directories. *)

\* Where a process is at work on its own directory, and where on another's.
OwnPlaces == Unlocked \cup Locked \cup {"undo", "closing"}
Hunting == {"openLock", "tryLock", "unlock", "remove"}

\* Directories are drawn once, so no two processes have one for their own.
NamesInv ==
    /\ present \subseteq drawn
    /\ \A p \in Procs : todo[p] \subseteq drawn
    /\ \A p \in Procs : pc[p] \in OwnPlaces \cup Hunting => cur[p] \in drawn
    /\ \A p, q \in Procs : p # q /\ pc[p] \in OwnPlaces /\ pc[q] \in OwnPlaces => cur[p] # cur[q]

\* A directory whose creator has not locked it yet is recent, and so nobody hunts it.
RecentInv ==
    /\ \A p \in Procs : pc[p] \in Unlocked => cur[p] \notin old
    /\ \A p, q \in Procs : pc[p] \in Hunting /\ pc[q] \in Unlocked => cur[p] # cur[q]

\* A session's directory and lock file stay while it lasts, and its lock is its own.
LockInv ==
    /\ \A p \in Procs : pc[p] \in Unlocked \cup Locked => cur[p] \in present
    /\ \A p \in Procs : pc[p] \in {"flock"} \cup Locked => cur[p] \in lockFile
    /\ \A p \in Procs : pc[p] \in Locked /\ supported => holder[cur[p]] = p
    /\ \A p \in Procs : pc[p] = "unlock" => supported /\ holder[cur[p]] = p

DirsIInv == SessionTypeOK /\ NamesInv /\ RecentInv /\ LockInv /\ VerdictStays /\ LiveSessionKept

USE SessionAssumption
LEMMA DirsInitInv == SessionInit => DirsIInv
  BY DEF SessionInit, DirsIInv, SessionTypeOK, NamesInv, RecentInv, LockInv, VerdictStays, LiveSessionKept,
         OwnPlaces, Hunting, Unlocked, Locked, Places

\* A scavenger's steps.
LEMMA ScavengeSteps ==
  ASSUME DirsIInv, NEW p \in Procs, Scavenge(p)
  PROVE  DirsIInv'
  <1> USE DEF DirsIInv, SessionTypeOK, NamesInv, RecentInv, LockInv, VerdictStays, LiveSessionKept,
              OwnPlaces, Hunting, Unlocked, Locked, Places, Goto, SetHolder, diskVars
  <1>1. CASE ReadDir(p) BY <1>1 DEF ReadDir
  <1>2. ASSUME NEW d \in Dirs, Stat(p, d) PROVE DirsIInv' BY <1>2 DEF Stat
  <1>3. CASE OpenLock(p) BY <1>3 DEF OpenLock
  <1>4. CASE TryLock(p) BY <1>4 DEF TryLock
  <1>5. CASE Unlock(p) BY <1>5 DEF Unlock
  <1>6. CASE ScanDone(p) BY <1>6 DEF ScanDone
  <1> QED BY <1>1, <1>2, <1>3, <1>4, <1>5, <1>6 DEF Scavenge

\* Removal, by a scavenger or by the owner, entry by entry.
LEMMA RemoveSteps ==
  ASSUME DirsIInv, NEW p \in Procs, RemoveAll(p)
  PROVE  DirsIInv'
  <1> USE DEF DirsIInv, SessionTypeOK, NamesInv, RecentInv, LockInv, VerdictStays, LiveSessionKept,
              OwnPlaces, Hunting, Unlocked, Locked, Places, Goto, diskVars, AfterRemoval
  <1>1. CASE RemoveEntry(p) BY <1>1 DEF RemoveEntry
  <1>2. CASE RemoveDir(p) BY <1>2 DEF RemoveDir
  <1>3. CASE RemoveFails(p) BY <1>3 DEF RemoveFails
  <1> QED BY <1>1, <1>2, <1>3 DEF RemoveAll

\* A session's own steps.
LEMMA OwnSteps ==
  ASSUME DirsIInv, NEW p \in Procs, Own(p)
  PROVE  DirsIInv'
  <1> USE DEF DirsIInv, SessionTypeOK, NamesInv, RecentInv, LockInv, VerdictStays, LiveSessionKept,
              OwnPlaces, Hunting, Unlocked, Locked, Places, Goto, SetHolder, Release, diskVars
  <1>1. CASE Mkdir(p) BY <1>1 DEF Mkdir
  <1>2. CASE CreateLockFile(p) BY <1>2 DEF CreateLockFile
  <1>3. CASE Flock(p) BY <1>3 DEF Flock
  <1>4. CASE OpenDB(p) BY <1>4 DEF OpenDB
  <1>5. CASE CloseDB(p) BY <1>5 DEF CloseDB
  <1>6. CASE CloseLock(p) BY <1>6 DEF CloseLock
  <1> QED BY <1>1, <1>2, <1>3, <1>4, <1>5, <1>6 DEF Own

\* Starts, deaths, and time.
LEMMA WorldSteps ==
  ASSUME Prompt, DirsIInv,
         \/ \E p \in Procs : Start(p) \/ Die(p)
         \/ \E d \in Dirs : Age(d)
  PROVE  DirsIInv'
  <1> USE DEF DirsIInv, SessionTypeOK, NamesInv, RecentInv, LockInv, VerdictStays, LiveSessionKept,
              OwnPlaces, Hunting, Unlocked, Locked, Places, Goto, diskVars
  <1>1. ASSUME NEW p \in Procs, Start(p) PROVE DirsIInv' BY <1>1 DEF Start
  <1>2. ASSUME NEW p \in Procs, Die(p) PROVE DirsIInv' BY <1>2 DEF Die
  <1>3. ASSUME NEW d \in Dirs, Age(d) PROVE DirsIInv' BY <1>3 DEF Age
  <1> QED BY <1>1, <1>2, <1>3

\* The strengthened invariant holds for any number of processes and sessions.
THEOREM DirsInvariance == ASSUME Prompt PROVE SessionSpec => []DirsIInv
  <1>1. DirsIInv /\ [SessionNext]_sessionVars => DirsIInv'
    <2> SUFFICES ASSUME DirsIInv, [SessionNext]_sessionVars PROVE DirsIInv'
      OBVIOUS
    <2>1. CASE UNCHANGED sessionVars
      BY <2>1 DEF sessionVars, DirsIInv, SessionTypeOK, NamesInv, RecentInv, LockInv, VerdictStays, LiveSessionKept
    <2> QED BY <2>1, ScavengeSteps, RemoveSteps, OwnSteps, WorldSteps DEF SessionNext
  <1> QED BY <1>1, DirsInitInv, PTL DEF SessionSpec

\* Nobody takes a live session's directory, files or lock away.
THEOREM LiveKept == ASSUME Prompt PROVE SessionSpec => []LiveSessionKept
  <1>1. DirsIInv => LiveSessionKept
    BY DEF DirsIInv
  <1> QED BY <1>1, DirsInvariance, PTL

\* What a scavenger found stale stays stale until it is removed.
THEOREM VerdictsStay == ASSUME Prompt PROVE SessionSpec => []VerdictStays
  <1>1. DirsIInv => VerdictStays
    BY DEF DirsIInv
  <1> QED BY <1>1, DirsInvariance, PTL

-----------------------------------------------------------------------------
(* A streamed call of restic. *)

\* Which parts of a call belong together: the callback has an end once the caller
\* is past it, unless there was no process; a process that ended well said all.
PhaseInv ==
    /\ op \in {"ls", "diff", "cat"}
    /\ callback \in {"none", "ok", "decode", "callback"}
    /\ main = "start" => child = "none"
    /\ main \in {"start", "callback"} => callback = "none"
    /\ main \in {"drain", "wait", "join"} => callback # "none"
    /\ main \in {"return", "returned"} /\ callback = "none" => child = "failed"
    /\ main # "returned" => verdict = "none"
    /\ child = "ok" => toOut = 0

\* Until the callback ends, a line is with restic, in the pipe, or taken; a
\* callback that read to the end of input took them all if restic ended well.
LinesInv ==
    /\ callback = "none" => toOut + out + taken = Lines
    /\ callback = "ok" /\ op # "cat" => HasExited /\ (child = "ok" => taken = Lines)

CountsInv == out \in Nat /\ toOut \in Nat /\ taken \in Nat

ResticIInv == CountsInv /\ PhaseInv /\ LinesInv /\ VerdictIsTrue

USE ResticAssumption DEF ctxVars, childVars, mainVars, sideVars, fixed
-----------------------------------------------------------------------------
LEMMA ResticInitInv == ResticInit => ResticIInv
  BY DEF ResticInit, ResticIInv, CountsInv, PhaseInv, LinesInv, VerdictIsTrue, HasExited

\* The steps of the calling goroutine up to its return.
LEMMA CallSteps ==
  ASSUME ResticIInv, StartChild \/ TakeLine \/ TakeEnd \/ StopEarly \/ Drain \/ Wait \/ Join
  PROVE  ResticIInv'
  <1> USE DEF ResticIInv, CountsInv, PhaseInv, LinesInv, VerdictIsTrue, HasExited, WritersGone
  <1>1. CASE StartChild BY <1>1 DEF StartChild
  <1>2. CASE TakeLine BY <1>2 DEF TakeLine
  <1>3. CASE TakeEnd BY <1>3 DEF TakeEnd
  <1>4. CASE StopEarly BY <1>4 DEF StopEarly
  <1>5. CASE Drain BY <1>5 DEF Drain
  <1>6. CASE Wait BY <1>6 DEF Wait
  <1>7. CASE Join BY <1>7 DEF Join
  <1> QED BY <1>1, <1>2, <1>3, <1>4, <1>5, <1>6, <1>7

\* The verdict is drawn from what is there when the call returns.
LEMMA ReturnStep == ASSUME ResticIInv, Return PROVE ResticIInv'
  <1> USE DEF ResticIInv, CountsInv, PhaseInv, LinesInv, HasExited
  <1>1. /\ CountsInv' /\ PhaseInv' /\ LinesInv'
    BY DEF Return, VerdictLs, VerdictDiff, VerdictCat, Classify
  <1>2. VerdictIsTrue'
    <2>1. CASE op = "ls" BY <2>1, SMTT(30) DEF Return, VerdictLs, RunError, Classify, VerdictIsTrue
    <2>2. CASE op = "diff" BY <2>2, SMTT(30) DEF Return, VerdictDiff, RunError, Classify, VerdictIsTrue
    <2>3. CASE op = "cat" BY <2>3, SMTT(30) DEF Return, VerdictCat, RunError, Classify, VerdictIsTrue
    <2> QED BY <2>1, <2>2, <2>3
  <1> QED BY <1>1, <1>2

\* The other goroutines, os/exec, restic and its helper.
LEMMA OtherSteps ==
  ASSUME ResticIInv,
         CopyErr \/ WriteFd4 \/ Cancel \/ Deadline \/ Kill \/ ReadFd4 \/ WriteOut \/ WriteErr \/ Exit \/ HelperEnds
  PROVE  ResticIInv'
  <1> USE DEF ResticIInv, CountsInv, PhaseInv, LinesInv, VerdictIsTrue, HasExited
  <1>1. CASE CopyErr BY <1>1 DEF CopyErr
  <1>2. CASE WriteFd4 BY <1>2 DEF WriteFd4
  <1>3. CASE Cancel BY <1>3 DEF Cancel
  <1>4. CASE Deadline BY <1>4 DEF Deadline
  <1>5. CASE Kill BY <1>5 DEF Kill
  <1>6. CASE ReadFd4 BY <1>6 DEF ReadFd4
  <1>7. CASE WriteOut BY <1>7 DEF WriteOut
  <1>8. CASE WriteErr BY <1>8 DEF WriteErr
  <1>9. CASE Exit BY <1>9 DEF Exit
  <1>10. CASE HelperEnds BY <1>10 DEF HelperEnds
  <1> QED BY <1>1, <1>2, <1>3, <1>4, <1>5, <1>6, <1>7, <1>8, <1>9, <1>10

-----------------------------------------------------------------------------
\* The strengthened invariant holds in every call of restic.
THEOREM ResticInvariance == ResticSpec => []ResticIInv
  <1>1. ResticIInv /\ [ResticNext]_resticVars => ResticIInv'
    <2> SUFFICES ASSUME ResticIInv, [ResticNext]_resticVars PROVE ResticIInv'
      OBVIOUS
    <2>1. CASE ResticNext
      BY <2>1, CallSteps, ReturnStep, OtherSteps DEF ResticNext, Call, Restic
    <2>2. CASE UNCHANGED resticVars
      BY <2>2 DEF resticVars, ResticIInv, CountsInv, PhaseInv, LinesInv, VerdictIsTrue, HasExited
    <2> QED BY <2>1, <2>2
  <1> QED BY <1>1, ResticInitInv, PTL DEF ResticSpec

\* Success means that restic ended well and all it said was taken, a partial
\* listing that the deadline passed, and a canceled caller hears of nothing but
\* its cancellation.
THEOREM VerdictTrue == ResticSpec => []VerdictIsTrue
  BY ResticInvariance, PTL DEF ResticIInv

-----------------------------------------------------------------------------
(* Types of a call. *)

\* Booleans apart from all else, as the provers want them.
Flags == late \in BOOLEAN /\ stop \in BOOLEAN /\ helper \in BOOLEAN /\ stuck \in BOOLEAN /\ errOpen \in BOOLEAN
\* Lines are not made up: what was taken, what is in the pipe and what is still to
\* be written are never more than restic has to say.
States ==
    /\ op \in {"ls", "diff", "cat"} /\ ctx \in {"live", "canceled"}
    /\ main \in {"start", "callback", "drain", "wait", "join", "return", "returned"}
    /\ callback \in {"none", "ok", "decode", "callback"}
    /\ child \in {"none", "running", "ok", "failed", "killed"}
    /\ out \in 0..Cap /\ err \in 0..Cap /\ fd4 \in 0..Cap
    /\ toOut \in 0..Lines /\ toErr \in 0..Errors /\ toFd4 \in 0..Patterns /\ taken \in 0..Lines
    /\ copier \in {"none", "copying", "ended"} /\ writer \in {"none", "writing", "ended"}
    /\ verdict \in {"none", "complete", "partial", "canceled", "timeout", "failed", "parse", "callback"}
    /\ toOut + out + taken <= Lines
TypesInv == Flags /\ States

LEMMA TypesInit == ResticInit => TypesInv
  <1>1. ResticInit => Flags
    BY Zenon DEF ResticInit, Flags
  <1>2. ResticInit => States
    BY DEF ResticInit, States
  <1> QED BY <1>1, <1>2 DEF TypesInv

\* Flags are set, and reset, to what a flag can be.
LEMMA FlagsStep == ASSUME Flags, ResticNext PROVE Flags'
  <1> USE DEF Flags
  <1>1. CASE StartChild BY <1>1, Zenon DEF StartChild
  <1>2. CASE TakeLine BY <1>2, Zenon DEF TakeLine
  <1>3. CASE TakeEnd BY <1>3, Zenon DEF TakeEnd
  <1>4. CASE StopEarly BY <1>4, Zenon DEF StopEarly
  <1>5. CASE Drain BY <1>5, Zenon DEF Drain
  <1>6. CASE Wait BY <1>6, Zenon DEF Wait
  <1>7. CASE Join BY <1>7, Zenon DEF Join
  <1>8. CASE Return BY <1>8, Zenon DEF Return
  <1>9. CASE CopyErr BY <1>9, Zenon DEF CopyErr
  <1>10. CASE WriteFd4 BY <1>10, Zenon DEF WriteFd4
  <1>11. CASE Cancel BY <1>11, Zenon DEF Cancel
  <1>12. CASE Deadline BY <1>12, Zenon DEF Deadline
  <1>13. CASE Kill BY <1>13, Zenon DEF Kill
  <1>14. CASE ReadFd4 BY <1>14, Zenon DEF ReadFd4
  <1>15. CASE WriteOut BY <1>15, Zenon DEF WriteOut
  <1>16. CASE WriteErr BY <1>16, Zenon DEF WriteErr
  <1>17. CASE Exit BY <1>17, Zenon DEF Exit
  <1>18. CASE HelperEnds BY <1>18, Zenon DEF HelperEnds
  <1> HIDE DEF Flags
  <1> QED BY <1>1, <1>2, <1>3, <1>4, <1>5, <1>6, <1>7, <1>8, <1>9, <1>10, <1>11, <1>12, <1>13, <1>14, <1>15, <1>16, <1>17, <1>18
         DEF ResticNext, Call, Restic

\* Everything else: what the goroutines, os/exec and restic can be at, what they
\* have to say, and what is in the pipes.
LEMMA StatesStep == ASSUME States, ResticNext PROVE States'
  <1> USE DEF States
  <1>1. CASE StartChild BY <1>1 DEF StartChild
  <1>2. CASE TakeLine BY <1>2 DEF TakeLine
  <1>3. CASE TakeEnd BY <1>3 DEF TakeEnd
  <1>4. CASE StopEarly BY <1>4 DEF StopEarly
  <1>5. CASE Drain BY <1>5 DEF Drain
  <1>6. CASE Wait BY <1>6 DEF Wait
  <1>7. CASE Join BY <1>7 DEF Join
  <1>8. CASE Return
    <2>1. verdict' \in {"complete", "partial", "canceled", "timeout", "failed", "parse", "callback"}
      BY <1>8 DEF Return, VerdictLs, VerdictDiff, VerdictCat, Classify
    <2> QED BY <1>8, <2>1 DEF Return
  <1>9. CASE CopyErr BY <1>9 DEF CopyErr
  <1>10. CASE WriteFd4 BY <1>10 DEF WriteFd4
  <1>11. CASE Cancel BY <1>11 DEF Cancel
  <1>12. CASE Deadline BY <1>12 DEF Deadline
  <1>13. CASE Kill BY <1>13 DEF Kill
  <1>14. CASE ReadFd4 BY <1>14 DEF ReadFd4
  <1>15. CASE WriteOut BY <1>15 DEF WriteOut
  <1>16. CASE WriteErr BY <1>16 DEF WriteErr
  <1>17. CASE Exit BY <1>17 DEF Exit
  <1>18. CASE HelperEnds BY <1>18 DEF HelperEnds
  <1> HIDE DEF States
  <1> QED BY <1>1, <1>2, <1>3, <1>4, <1>5, <1>6, <1>7, <1>8, <1>9, <1>10, <1>11, <1>12, <1>13, <1>14, <1>15, <1>16, <1>17, <1>18
         DEF ResticNext, Call, Restic

\* The variables of a call keep their types, and no pipe holds more than it can.
THEOREM ResticTypeCorrect == ResticSpec => []ResticTypeOK
  <1>1. TypesInv /\ [ResticNext]_resticVars => TypesInv'
    <2> SUFFICES ASSUME TypesInv, [ResticNext]_resticVars PROVE TypesInv'
      OBVIOUS
    <2>1. CASE ResticNext
      BY <2>1, FlagsStep, StatesStep DEF TypesInv
    <2>2. CASE UNCHANGED resticVars
      <3>1. Flags'
        BY <2>2, Zenon DEF resticVars, TypesInv, Flags
      <3>2. States'
        BY <2>2 DEF resticVars, TypesInv, States
      <3> QED BY <3>1, <3>2 DEF TypesInv
    <2> QED BY <2>1, <2>2
  <1>2. TypesInv => ResticTypeOK
    BY DEF TypesInv, Flags, States, ResticTypeOK
  <1> QED BY <1>1, <1>2, TypesInit, PTL DEF ResticSpec
================================================================================
