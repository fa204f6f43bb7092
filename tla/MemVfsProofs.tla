---------------------------- MODULE MemVfsProofs ----------------------------
(***************************************************************************)
(* The in-memory file system (MemVfs): its counters are exact and within   *)
(* the quota, its tree, handles and open files agree and a closed handle   *)
(* stays closed, for any names, offsets, snapshots and limits.  The        *)
(* invariant is proved part by part: the types, the references between     *)
(* entries, files and handles, the tree, and the totals, which are sums    *)
(* over finite sets and change by one element at a time.                   *)
(***************************************************************************)
EXTENDS MemVfs, SequenceTheorems, FiniteSetTheorems, TLAPS

\* A path is a nonempty sequence of names of bounded length.
LEMMA PathIsSeq ==
  ASSUME MaxDepth \in Nat
  PROVE  \A p : p \in Paths <=> p \in Seq(Names) /\ Len(p) \in 1..MaxDepth
<1>1. ASSUME NEW p, p \in Paths
      PROVE  p \in Seq(Names) /\ Len(p) \in 1..MaxDepth
  <2>1. PICK n \in 1..MaxDepth : p \in [1..n -> Names]
    BY <1>1, SMTT(30) DEF Paths
  <2> QED
    BY <2>1, SMT
<1>2. ASSUME NEW p, p \in Seq(Names), Len(p) \in 1..MaxDepth
      PROVE  p \in Paths
  <2>1. p \in [1..Len(p) -> Names]
    BY <1>2, LenProperties
  <2> QED
    BY <1>2, <2>1, Zenon DEF Paths
<1> QED
  BY <1>1, <1>2

\* The beginning of a sequence.
LEMMA Beginning ==
  ASSUME NEW S, NEW s \in Seq(S), NEW n \in 0..Len(s)
  PROVE  /\ SubSeq(s, 1, n) \in Seq(S) /\ Len(SubSeq(s, 1, n)) = n
         /\ \A i \in 1..n : SubSeq(s, 1, n)[i] = s[i]
BY SubSeqProperties, ElementOfSeq

\* What is left of a sequence after its first n elements.
LEMMA Ending ==
  ASSUME NEW S, NEW s \in Seq(S), NEW n \in 0..Len(s)
  PROVE  /\ SubSeq(s, n + 1, Len(s)) \in Seq(S)
         /\ Len(SubSeq(s, n + 1, Len(s))) = Len(s) - n
         /\ \A i \in 1..(Len(s) - n) : SubSeq(s, n + 1, Len(s))[i] = s[n + i]
<1>1. \A i \in (n + 1)..Len(s) : s[i] \in S
  BY ElementOfSeq
<1> QED
  BY <1>1, SubSeqProperties

\* A path is a prefix of another exactly when it agrees with its beginning.
LEMMA PrefixElements ==
  ASSUME NEW S, NEW s \in Seq(S), NEW t \in Seq(S)
  PROVE  HasPrefix(t, s) <=> Len(s) <= Len(t) /\ \A i \in 1..Len(s) : s[i] = t[i]
<1>1. CASE Len(s) <= Len(t)
  <2>1. Len(s) \in 0..Len(t)
    BY <1>1, LenProperties
  <2>2. /\ SubSeq(t, 1, Len(s)) \in Seq(S) /\ Len(SubSeq(t, 1, Len(s))) = Len(s)
        /\ \A i \in 1..Len(s) : SubSeq(t, 1, Len(s))[i] = t[i]
    BY <2>1, Beginning
  <2>3. (\A i \in 1..Len(s) : s[i] = t[i]) => s = SubSeq(t, 1, Len(s))
    BY <2>2, SeqEqual
  <2> QED
    BY <1>1, <2>2, <2>3 DEF HasPrefix
<1>2. CASE ~(Len(s) <= Len(t))
  BY <1>2 DEF HasPrefix
<1> QED
  BY <1>1, <1>2

\* Two sequences are the same when they have the same elements.
LEMMA SameElements ==
  ASSUME NEW S, NEW s \in Seq(S), NEW t \in Seq(S),
         Len(s) = Len(t), \A i \in 1..Len(s) : s[i] = t[i]
  PROVE  s = t
BY SeqEqual

\* What rename makes of a path at or below the one it moves.
LEMMA MovedElements ==
  ASSUME NEW from \in Seq(Names), NEW to \in Seq(Names), NEW p \in Seq(Names), HasPrefix(p, from)
  PROVE  LET q == Moved(from, to, p)
         IN  /\ q \in Seq(Names) /\ Len(q) = Len(to) + Len(p) - Len(from)
             /\ Len(from) <= Len(p)
             /\ \A i \in 1..Len(to) : q[i] = to[i]
             /\ \A i \in 1..(Len(p) - Len(from)) : q[Len(to) + i] = p[Len(from) + i]
<1> DEFINE rest == SubSeq(p, Len(from) + 1, Len(p))
<1>1. Len(from) \in 0..Len(p)
  BY PrefixElements, LenProperties
<1>2. /\ rest \in Seq(Names) /\ Len(rest) = Len(p) - Len(from)
      /\ \A i \in 1..(Len(p) - Len(from)) : rest[i] = p[Len(from) + i]
  BY <1>1, Ending
<1>3. Moved(from, to, p) = to \o rest
  BY DEF Moved
<1> HIDE DEF rest
<1>4. /\ to \o rest \in Seq(Names) /\ Len(to \o rest) = Len(to) + Len(rest)
      /\ \A i \in 1..(Len(to) + Len(rest)) :
           (to \o rest)[i] = IF i <= Len(to) THEN to[i] ELSE rest[i - Len(to)]
  BY <1>2, ConcatProperties, Zenon
<1>5. Len(to) \in Nat /\ Len(p) \in Nat /\ Len(from) \in Nat
  BY LenProperties
<1> QED
  BY <1>1, <1>2, <1>3, <1>4, <1>5

\* A tree of directories dd and files ff: no path is both, and everything
\* above an entry is a directory.
Tree(dd, ff) ==
  /\ dd \subseteq Paths /\ ff \subseteq Paths
  /\ dd \intersect ff = {}
  /\ \A p \in dd \union ff : \A n \in 1..(Len(p) - 1) : SubSeq(p, 1, n) \in dd

\* What lies below a path of a tree has the path for a directory.
LEMMA AboveIsDir ==
  ASSUME MaxDepth \in Nat, NEW dd, NEW ff, Tree(dd, ff),
         NEW p \in Paths, NEW q \in dd \union ff, Below(q, p)
  PROVE  p \in dd
<1>1. /\ p \in Seq(Names) /\ Len(p) \in 1..MaxDepth
      /\ q \in Seq(Names) /\ Len(q) \in 1..MaxDepth
  BY PathIsSeq DEF Tree
<1>2. Len(p) <= Len(q) /\ (\A i \in 1..Len(p) : p[i] = q[i]) /\ p # q
  BY <1>1, PrefixElements DEF Below
<1>3. Len(p) # Len(q)
  BY <1>1, <1>2, SameElements
<1>4. Len(p) \in 1..(Len(q) - 1)
  BY <1>1, <1>2, <1>3
<1>5. p = SubSeq(q, 1, Len(p))
  BY <1>1, <1>4, <1>2, Beginning, SameElements
<1> QED
  BY <1>4, <1>5, Zenon DEF Tree

\* Everything above a path in a directory of the tree is a directory.
LEMMA Ancestors ==
  ASSUME MaxDepth \in Nat, NEW dd, NEW ff, Tree(dd, ff),
         NEW p \in Paths, Parent(p) \in dd \union {<<>>}, NEW n \in 1..(Len(p) - 1)
  PROVE  SubSeq(p, 1, n) \in dd
<1> DEFINE u == SubSeq(p, 1, n)
           v == Parent(p)
<1>1. p \in Seq(Names) /\ Len(p) \in 1..MaxDepth
  BY PathIsSeq
<1>2. n \in 0..Len(p) /\ Len(p) - 1 \in 0..Len(p)
  BY <1>1
<1>3. u \in Seq(Names) /\ Len(u) = n /\ \A i \in 1..n : u[i] = p[i]
  BY <1>1, <1>2, Beginning
<1>4. v \in Seq(Names) /\ Len(v) = Len(p) - 1 /\ \A i \in 1..(Len(p) - 1) : v[i] = p[i]
  BY <1>1, <1>2, Beginning DEF Parent
<1> HIDE DEF u, v
<1>5. v \in dd
  <2>1. Len(v) # 0
    BY <1>1, <1>4
  <2>2. v # <<>>
    BY <2>1
  <2> QED
    BY <2>2 DEF v
<1>6. CASE n = Len(p) - 1
  <2>1. u = v
    BY <1>3, <1>4, <1>6, SameElements
  <2> QED
    BY <1>5, <2>1, Zenon DEF u
<1>7. CASE n # Len(p) - 1
  <2>1. n \in 1..(Len(v) - 1) /\ n \in 0..Len(v)
    BY <1>1, <1>4, <1>7
  <2>2. SubSeq(v, 1, n) \in dd
    BY <1>5, <2>1 DEF Tree
  <2>3. /\ SubSeq(v, 1, n) \in Seq(Names) /\ Len(SubSeq(v, 1, n)) = n
        /\ \A i \in 1..n : SubSeq(v, 1, n)[i] = v[i]
    BY <1>4, <2>1, Beginning
  <2>4. \A i \in 1..n : v[i] = p[i]
    BY <1>1, <1>4
  <2>5. u = SubSeq(v, 1, n)
    BY <1>3, <2>3, <2>4, SameElements
  <2> QED
    BY <2>2, <2>5, Zenon DEF u
<1> QED
  BY <1>6, <1>7

\* The same, for a path that is in the tree.
LEMMA ParentOfEntry ==
  ASSUME MaxDepth \in Nat, NEW dd, NEW ff, Tree(dd, ff), NEW p \in dd \union ff
  PROVE  Parent(p) \in dd \union {<<>>} /\ Len(p) <= MaxDepth
<1>1. p \in Seq(Names) /\ Len(p) \in 1..MaxDepth
  BY PathIsSeq DEF Tree
<1>2. CASE Len(p) - 1 < 1
  <2>1. Len(p) - 1 \in Int
    BY <1>1
  <2>2. Parent(p) = <<>>
    BY <1>2, <2>1, SubSeqEmpty DEF Parent
  <2> QED
    BY <1>1, <2>2
<1>3. CASE Len(p) - 1 >= 1
  <2>1. Len(p) - 1 \in 1..(Len(p) - 1)
    BY <1>1, <1>3
  <2> QED
    BY <1>1, <2>1 DEF Tree, Parent
<1> QED
  BY <1>1, <1>2, <1>3

\* A file or directory whose parent is there may be added to a tree ...
LEMMA TreeAdd ==
  ASSUME MaxDepth \in Nat, NEW dd, NEW ff, Tree(dd, ff),
         NEW p \in Paths, p \notin dd \union ff, Parent(p) \in dd \union {<<>>}
  PROVE  Tree(dd \union {p}, ff) /\ Tree(dd, ff \union {p})
<1>1. \A n \in 1..(Len(p) - 1) : SubSeq(p, 1, n) \in dd
  BY Ancestors
<1> QED
  BY <1>1 DEF Tree

\* ... a file may be removed from it ...
LEMMA TreeDropFile ==
  ASSUME NEW dd, NEW ff, Tree(dd, ff), NEW p
  PROVE  Tree(dd, ff \ {p})
BY DEF Tree

\* ... and so may a directory that nothing is below.
LEMMA TreeDropDir ==
  ASSUME MaxDepth \in Nat, NEW dd, NEW ff, Tree(dd, ff),
         NEW p \in dd, \A q \in dd \union ff : ~Below(q, p)
  PROVE  Tree(dd \ {p}, ff)
<1>1. ASSUME NEW q \in (dd \ {p}) \union ff, NEW n \in 1..(Len(q) - 1)
      PROVE  SubSeq(q, 1, n) \in dd \ {p}
  <2>1. q \in Seq(Names) /\ Len(q) \in 1..MaxDepth
    BY PathIsSeq DEF Tree
  <2>2. n \in 0..Len(q) /\ n < Len(q)
    BY <2>1
  <2>3. SubSeq(q, 1, n) \in dd /\ Len(SubSeq(q, 1, n)) = n
    BY <2>1, <2>2, Beginning DEF Tree
  <2>4. ASSUME SubSeq(q, 1, n) = p
        PROVE  FALSE
    BY <2>1, <2>2, <2>3, <2>4 DEF Below, HasPrefix
  <2> QED
    BY <2>3, <2>4
<1> QED
  BY <1>1 DEF Tree

\* What rename has checked before it moves from to to, in the tree of dd and ff.
Movable(dd, ff, from, to) ==
  /\ from \in dd \union ff /\ to \in Paths /\ from # to
  /\ from \in dd => /\ ~HasPrefix(to, from)
                    /\ \A p \in dd \union ff :
                         Below(p, from) => Len(Moved(from, to, p)) <= MaxDepth
  /\ Parent(to) \in dd \union {<<>>}
  /\ \A p \in dd \union ff : ~Below(p, to)

\* Below a file there is nothing, so only a directory takes paths with it.
LEMMA OnlyBelowDirs ==
  ASSUME MaxDepth \in Nat, NEW dd, NEW ff, Tree(dd, ff),
         NEW from \in dd \union ff, NEW p \in dd \union ff, HasPrefix(p, from), p # from
  PROVE  from \in dd
BY AboveIsDir DEF Below, Tree

\* A moved path is a path.
LEMMA MovedIsPath ==
  ASSUME MaxDepth \in Nat, NEW dd, NEW ff, Tree(dd, ff),
         NEW from, NEW to, Movable(dd, ff, from, to), NEW p \in dd \union ff
  PROVE  Moved(from, to, p) \in Paths
<1>1. CASE ~HasPrefix(p, from)
  BY <1>1 DEF Moved, Tree
<1>2. CASE HasPrefix(p, from)
  <2>1. /\ p \in Seq(Names) /\ Len(p) \in 1..MaxDepth
        /\ from \in Seq(Names) /\ Len(from) \in 1..MaxDepth
        /\ to \in Seq(Names) /\ Len(to) \in 1..MaxDepth
    BY PathIsSeq DEF Tree, Movable
  <2>2. /\ Moved(from, to, p) \in Seq(Names)
        /\ Len(Moved(from, to, p)) = Len(to) + Len(p) - Len(from)
        /\ Len(from) <= Len(p)
    BY <1>2, <2>1, MovedElements
  <2>3. Len(Moved(from, to, p)) <= MaxDepth
    <3>1. CASE p = from
      BY <2>1, <2>2, <3>1
    <3>2. CASE p # from
      BY <1>2, <3>2, OnlyBelowDirs DEF Movable, Below
    <3> QED
      BY <3>1, <3>2
  <2>4. Len(Moved(from, to, p)) \in 1..MaxDepth
    BY <2>1, <2>2, <2>3
  <2> QED
    BY <2>2, <2>4, PathIsSeq
<1> QED
  BY <1>1, <1>2

\* What is moved lands under to, and nothing else is there.
LEMMA MovedUnderTarget ==
  ASSUME MaxDepth \in Nat, NEW dd, NEW ff, Tree(dd, ff),
         NEW from, NEW to, Movable(dd, ff, from, to),
         NEW p \in (dd \union ff) \ {to}
  PROVE  HasPrefix(Moved(from, to, p), to) <=> HasPrefix(p, from)
<1>1. CASE ~HasPrefix(p, from)
  BY <1>1 DEF Moved, Movable, Below
<1>2. CASE HasPrefix(p, from)
  <2>1. p \in Seq(Names) /\ from \in Seq(Names) /\ to \in Seq(Names)
    BY PathIsSeq DEF Tree, Movable
  <2> DEFINE q == Moved(from, to, p)
  <2>2. /\ q \in Seq(Names) /\ Len(q) = Len(to) + Len(p) - Len(from)
        /\ Len(from) <= Len(p)
        /\ \A i \in 1..Len(to) : q[i] = to[i]
    BY <1>2, <2>1, MovedElements
  <2> HIDE DEF q
  <2>3. Len(to) <= Len(q)
    BY <2>1, <2>2, LenProperties
  <2>4. HasPrefix(q, to)
    BY <2>1, <2>2, <2>3, PrefixElements
  <2> QED
    BY <1>2, <2>4 DEF q
<1> QED
  BY <1>1, <1>2

\* No two paths are moved to one.
LEMMA MovedApart ==
  ASSUME MaxDepth \in Nat, NEW dd, NEW ff, Tree(dd, ff),
         NEW from, NEW to, Movable(dd, ff, from, to),
         NEW p \in (dd \union ff) \ {to}, NEW q \in (dd \union ff) \ {to},
         Moved(from, to, p) = Moved(from, to, q)
  PROVE  p = q
<1>1. HasPrefix(p, from) <=> HasPrefix(q, from)
  BY MovedUnderTarget
<1>2. CASE ~HasPrefix(p, from)
  BY <1>1, <1>2 DEF Moved
<1>3. CASE HasPrefix(p, from)
  <2>1. p \in Seq(Names) /\ q \in Seq(Names) /\ from \in Seq(Names) /\ to \in Seq(Names)
    BY PathIsSeq DEF Tree, Movable
  <2> DEFINE m == Moved(from, to, p)
  <2>2. /\ Len(m) = Len(to) + Len(p) - Len(from)
        /\ Len(from) <= Len(p)
        /\ \A i \in 1..(Len(p) - Len(from)) : m[Len(to) + i] = p[Len(from) + i]
    BY <1>3, <2>1, MovedElements, Zenon
  <2> DEFINE o == Moved(from, to, q)
  <2>3. /\ Len(o) = Len(to) + Len(q) - Len(from)
        /\ Len(from) <= Len(q)
        /\ \A i \in 1..(Len(q) - Len(from)) : o[Len(to) + i] = q[Len(from) + i]
    BY <1>1, <1>3, <2>1, MovedElements, Zenon
  <2>4. o = m
    OBVIOUS
  <2> HIDE DEF m, o
  <2>5. Len(p) \in Nat /\ Len(q) \in Nat /\ Len(to) \in Nat /\ Len(from) \in Nat
    BY <2>1, LenProperties
  <2>6. Len(p) = Len(q)
    BY <2>2, <2>3, <2>4, <2>5
  <2>7. \A i \in 1..Len(from) : p[i] = from[i] /\ q[i] = from[i]
    BY <1>1, <1>3, <2>1, PrefixElements
  <2>8. ASSUME NEW i \in 1..Len(p)
        PROVE  p[i] = q[i]
    <3>1. CASE i \in 1..Len(from)
      BY <2>7, <3>1
    <3>2. CASE i \notin 1..Len(from)
      <4>1. i - Len(from) \in 1..(Len(p) - Len(from)) /\ Len(from) + (i - Len(from)) = i
        BY <2>5, <3>2
      <4> QED
        BY <2>2, <2>3, <2>4, <2>6, <4>1, Zenon
    <3> QED
      BY <3>1, <3>2
  <2> QED
    BY <2>1, <2>6, <2>8, SameElements
<1> QED
  BY <1>2, <1>3

\* rename keeps the tree, whatever it moves and replaces.
LEMMA MoveKeepsTree ==
  ASSUME MaxDepth \in Nat, NEW dd, NEW ff, Tree(dd, ff),
         NEW from, NEW to, Movable(dd, ff, from, to)
  PROVE  Tree({Moved(from, to, p) : p \in dd \ {to}}, {Moved(from, to, p) : p \in ff \ {to}})
<1> DEFINE M(p) == Moved(from, to, p)
           dd2 == {M(p) : p \in dd \ {to}}
           ff2 == {M(p) : p \in ff \ {to}}
<1>1. dd2 \subseteq Paths /\ ff2 \subseteq Paths
  BY MovedIsPath
<1>2. dd2 \intersect ff2 = {}
  <2>1. ASSUME NEW p \in dd \ {to}, NEW q \in ff \ {to}, M(p) = M(q)
        PROVE  FALSE
    <3>1. p = q
      BY <2>1, MovedApart
    <3> QED
      BY <3>1 DEF Tree
  <2> QED
    BY <2>1
<1>3. from \in Seq(Names) /\ Len(from) \in 1..MaxDepth /\ to \in Seq(Names) /\ Len(to) \in 1..MaxDepth
  BY PathIsSeq DEF Movable, Tree
<1>4. ASSUME NEW p \in dd \ {to}, ~HasPrefix(p, from)
      PROVE  p \in dd2
  BY <1>4 DEF Moved
<1>5. ASSUME NEW n \in 1..(Len(to) - 1)
      PROVE  SubSeq(to, 1, n) \in dd2
  <2> DEFINE u == SubSeq(to, 1, n)
  <2>1. n \in 0..Len(to)
    BY <1>3
  <2>2. u \in Seq(Names) /\ Len(u) = n /\ \A i \in 1..n : u[i] = to[i]
    BY <1>3, <2>1, Beginning
  <2>5. u \in dd
    BY Ancestors DEF Movable
  <2>6. u # to
    BY <1>3, <2>2
  <2>7. ~HasPrefix(u, from)
    <3>1. SUFFICES ASSUME HasPrefix(u, from) PROVE FALSE
      OBVIOUS
    <3> HIDE DEF u
    <3>2. from \in dd
      <4>1. CASE u = from
        BY <2>5, <4>1
      <4>2. CASE u # from
        BY <2>5, <3>1, <4>2, OnlyBelowDirs DEF Movable
      <4> QED
        BY <4>1, <4>2
    <3>3. Len(from) <= n /\ \A i \in 1..Len(from) : from[i] = u[i]
      BY <1>3, <2>2, <3>1, PrefixElements
    <3>4. Len(from) <= Len(to) /\ \A i \in 1..Len(from) : from[i] = to[i]
      BY <1>3, <2>2, <3>3
    <3>5. HasPrefix(to, from)
      BY <1>3, <3>4, PrefixElements
    <3> QED
      BY <3>2, <3>5 DEF Movable
  <2> QED
    BY <1>4, <2>5, <2>6, <2>7, Zenon
<1>6. ASSUME NEW p \in (dd \union ff) \ {to}, NEW n \in 1..(Len(M(p)) - 1)
      PROVE  SubSeq(M(p), 1, n) \in dd2
  <2>1. p \in Seq(Names) /\ Len(p) \in 1..MaxDepth
    BY PathIsSeq DEF Tree
  <2>2. CASE ~HasPrefix(p, from)
    <3>1. M(p) = p
      BY <2>2 DEF Moved
    <3> DEFINE u == SubSeq(p, 1, n)
    <3>2. n \in 0..Len(p) /\ n \in 1..(Len(p) - 1)
      BY <2>1, <3>1
    <3>3. u \in dd
      BY <3>2 DEF Tree
    <3>4. u \in Seq(Names) /\ Len(u) = n /\ \A i \in 1..n : u[i] = p[i]
      BY <2>1, <3>2, Beginning
    <3> HIDE DEF u
    <3>5. u # to
      <4>1. SUFFICES ASSUME u = to PROVE FALSE
        OBVIOUS
      <4>2. Len(to) <= Len(p) /\ (\A i \in 1..Len(to) : to[i] = p[i]) /\ to # p
        BY <3>2, <3>4, <4>1
      <4>3. Below(p, to)
        BY <1>3, <2>1, <4>2, PrefixElements DEF Below
      <4> QED
        BY <4>3 DEF Movable
    <3>6. ~HasPrefix(u, from)
      <4>1. SUFFICES ASSUME HasPrefix(u, from) PROVE FALSE
        OBVIOUS
      <4>2. Len(from) <= n /\ \A i \in 1..Len(from) : from[i] = u[i]
        BY <1>3, <3>4, <4>1, PrefixElements
      <4>3. Len(from) <= Len(p) /\ \A i \in 1..Len(from) : from[i] = p[i]
        BY <1>3, <2>1, <3>2, <3>4, <4>2
      <4> QED
        BY <1>3, <2>1, <2>2, <4>3, PrefixElements
    <3> QED
      BY <1>4, <3>1, <3>3, <3>5, <3>6, Zenon DEF u
  <2>3. CASE HasPrefix(p, from)
    <3> DEFINE m == M(p)
    <3>1. /\ m \in Seq(Names) /\ Len(m) = Len(to) + Len(p) - Len(from)
          /\ Len(from) <= Len(p)
          /\ \A i \in 1..Len(to) : m[i] = to[i]
          /\ \A i \in 1..(Len(p) - Len(from)) : m[Len(to) + i] = p[Len(from) + i]
      BY <1>3, <2>1, <2>3, MovedElements, Zenon
    <3>2. n \in 1..(Len(m) - 1)
      OBVIOUS
    <3> HIDE DEF m
    <3> DEFINE u == SubSeq(m, 1, n)
    <3>3. u \in Seq(Names) /\ Len(u) = n /\ \A i \in 1..n : u[i] = m[i]
      <4>1. n \in 0..Len(m)
        BY <3>1, <3>2, <2>1, <1>3
      <4> QED
        BY <3>1, <4>1, Beginning
    <3>4. CASE n < Len(to)
      <4>1. n \in 1..(Len(to) - 1) /\ n \in 0..Len(to)
        BY <1>3, <3>2, <3>4
      <4>2. /\ SubSeq(to, 1, n) \in Seq(Names) /\ Len(SubSeq(to, 1, n)) = n
            /\ \A i \in 1..n : SubSeq(to, 1, n)[i] = to[i]
        BY <1>3, <4>1, Beginning
      <4>3. \A i \in 1..n : m[i] = to[i]
        BY <1>3, <3>1, <4>1
      <4> HIDE DEF u
      <4>4. u = SubSeq(to, 1, n)
        BY <3>3, <4>2, <4>3, SameElements
      <4> QED
        BY <1>5, <4>1, <4>4 DEF u, m
    <3>5. CASE n >= Len(to)
      <4> DEFINE k == n - Len(to) + Len(from)
                 v == SubSeq(p, 1, k)
      <4>1. k \in 1..(Len(p) - 1) /\ k \in 0..Len(p) /\ Len(from) <= k
        BY <1>3, <2>1, <3>1, <3>2, <3>5
      <4>2. v \in dd
        BY <4>1 DEF Tree
      <4>3. v \in Seq(Names) /\ Len(v) = k /\ \A i \in 1..k : v[i] = p[i]
        BY <2>1, <4>1, Beginning, SMTT(30)
      <4>4. HasPrefix(v, from)
        <5> HIDE DEF v, k, u
        <5>1. \A i \in 1..Len(from) : from[i] = p[i]
          BY <1>3, <2>1, <2>3, PrefixElements
        <5>2. Len(from) <= Len(v) /\ \A i \in 1..Len(from) : from[i] = v[i]
          BY <1>3, <4>1, <4>3, <5>1
        <5> QED
          BY <1>3, <4>3, <5>2, PrefixElements
      <4>5. from \in dd
        <5>1. p # from
          BY <1>3, <4>1
        <5> QED
          BY <2>3, <5>1, OnlyBelowDirs DEF Movable
      <4>6. v # to
        BY <4>4, <4>5, Zenon DEF Movable
      <4>7. M(v) = u
        <5> DEFINE w == M(v)
        <5>1. /\ w \in Seq(Names) /\ Len(w) = Len(to) + Len(v) - Len(from)
              /\ \A i \in 1..Len(to) : w[i] = to[i]
              /\ \A i \in 1..(Len(v) - Len(from)) : w[Len(to) + i] = v[Len(from) + i]
          BY <1>3, <4>3, <4>4, MovedElements, ZenonT(30)
        <5> HIDE DEF v, u, w
        <5>2. Len(w) = n
          BY <1>3, <4>3, <5>1, <3>2
        <5>3. ASSUME NEW i \in 1..n PROVE w[i] = u[i]
          <6>1. CASE i <= Len(to)
            <7>1. i \in 1..Len(to)
              BY <1>3, <6>1
            <7> QED
              BY <3>1, <3>3, <5>1, <7>1
          <6>2. CASE i > Len(to)
            <7> DEFINE j == i - Len(to)
            <7>1. /\ j \in 1..(Len(v) - Len(from)) /\ j \in 1..(Len(p) - Len(from))
                  /\ Len(to) + j = i /\ Len(from) + j \in 1..k
              BY <1>3, <2>1, <4>1, <4>3, <6>2
            <7> HIDE DEF j, k
            <7>2. w[i] = v[Len(from) + j] /\ m[i] = p[Len(from) + j]
              BY <3>1, <5>1, <7>1, SMTT(30)
            <7> QED
              BY <3>3, <4>3, <7>1, <7>2
          <6> QED
            BY <1>3, <6>1, <6>2
        <5>4. w = u
          BY <3>3, <5>1, <5>2, <5>3, SameElements
        <5> QED
          BY <5>4 DEF w
      <4> QED
        BY <4>2, <4>6, <4>7, Zenon DEF u, m
    <3> QED
      BY <1>3, <3>2, <3>4, <3>5
  <2> QED
    BY <2>2, <2>3
<1>7. ASSUME NEW q \in dd2 \union ff2, NEW n \in 1..(Len(q) - 1)
      PROVE  SubSeq(q, 1, n) \in dd2
  <2>1. PICK p \in (dd \union ff) \ {to} : q = M(p)
    OBVIOUS
  <2> QED
    BY <1>6, <2>1, Zenon
<1> HIDE DEF dd2, ff2
<1>8. Tree(dd2, ff2)
  BY <1>1, <1>2, <1>7 DEF Tree
<1> QED
  BY <1>8 DEF dd2, ff2

-----------------------------------------------------------------------------
(***************************************************************************)
(* Sums.  TotalLen counts the cells of a table with a column per index.    *)
(***************************************************************************)
Cells(len) == UNION {{x} \X (1..len[x]) : x \in DOMAIN len}

\* A table of lengths.
IsTable(len) ==
  IsFiniteSet(DOMAIN len) /\ len = [x \in DOMAIN len |-> len[x]] /\ \A x \in DOMAIN len : len[x] \in Nat

\* The cells of a table of lengths: one for each byte of each file.
LEMMA CellOf ==
  ASSUME NEW len, NEW c
  PROVE  c \in Cells(len) <=> \E x \in DOMAIN len : \E k \in 1..len[x] : c = <<x, k>>
BY DEF Cells

\* A file has as many cells as it has bytes.
LEMMA ColumnSize ==
  ASSUME NEW x, NEW n \in Nat
  PROVE  IsFiniteSet({x} \X (1..n)) /\ Cardinality({x} \X (1..n)) = n
<1>1. IsFiniteSet({x}) /\ Cardinality({x}) = 1
  BY FS_Singleton
<1>2. IsFiniteSet(1..n) /\ Cardinality(1..n) = n
  <2>1. 1 \in Int /\ n \in Int
    OBVIOUS
  <2>2. IsFiniteSet(1..n) /\ Cardinality(1..n) = IF 1 > n THEN 0 ELSE n - 1 + 1
    BY <2>1, FS_Interval
  <2> QED
    BY <2>2
<1>3. IsFiniteSet({x} \X (1..n)) /\ Cardinality({x} \X (1..n)) = Cardinality({x}) * Cardinality(1..n)
  BY <1>1, <1>2, FS_Product, Zenon
<1>4. 1 * n = n
  OBVIOUS
<1> QED
  BY <1>1, <1>2, <1>3, <1>4

\* The total of a finite table is the number of its cells.
LEMMA TotalIsCells ==
  ASSUME NEW len, IsTable(len)
  PROVE  IsFiniteSet(Cells(len)) /\ TotalLen(len) = Cardinality(Cells(len)) /\ TotalLen(len) \in Nat
<1> DEFINE Column == {{x} \X (1..len[x]) : x \in DOMAIN len}
           f == [x \in DOMAIN len |-> {x} \X (1..len[x])]
<1>1. f \in Surjection(DOMAIN len, Column)
  BY Zenon DEF Surjection
<1>2. IsFiniteSet(Column)
  BY <1>1, FS_Surjection DEF IsTable
<1>3. ASSUME NEW x \in DOMAIN len
      PROVE  IsFiniteSet({x} \X (1..len[x]))
  BY ColumnSize, Zenon DEF IsTable
<1>4. IsFiniteSet(UNION Column)
  BY <1>2, <1>3, FS_UNION, Zenon
<1> QED
  BY <1>4, FS_CardinalityType DEF Cells, TotalLen

\* A new entry adds its length to the total ...
LEMMA TotalWith ==
  ASSUME NEW len, IsTable(len), NEW x, x \notin DOMAIN len, NEW n \in Nat
  PROVE  IsTable(With(len, x, n)) /\ TotalLen(With(len, x, n)) = TotalLen(len) + n
<1> DEFINE new == With(len, x, n)
           column == {x} \X (1..n)
<1>1. IsTable(new)
  <2>1. IsFiniteSet(DOMAIN len \union {x})
    BY FS_AddElement DEF IsTable
  <2> QED
    BY <2>1 DEF IsTable, With
<1>2. Cells(new) = Cells(len) \union column
  <2>1. DOMAIN new = DOMAIN len \union {x} /\ new[x] = n /\ \A y \in DOMAIN len : new[y] = len[y]
    BY DEF With
  <2> HIDE DEF new
  <2>2. ASSUME NEW c \in Cells(new)
        PROVE  c \in Cells(len) \union column
    <3>1. PICK y \in DOMAIN new : \E k \in 1..new[y] : c = <<y, k>>
      BY CellOf
    <3> QED
      BY <2>1, <3>1, CellOf
  <2>3. ASSUME NEW c \in Cells(len)
        PROVE  c \in Cells(new)
    <3>1. PICK y \in DOMAIN len : \E k \in 1..len[y] : c = <<y, k>>
      BY CellOf
    <3> QED
      BY <2>1, <3>1, CellOf
  <2>4. ASSUME NEW c \in column
        PROVE  c \in Cells(new)
    BY <2>1, CellOf
  <2> QED
    BY <2>2, <2>3, <2>4
<1>3. Cells(len) \intersect column = {}
  <2>1. ASSUME NEW c \in Cells(len), c \in column
        PROVE  FALSE
    <3>1. PICK y \in DOMAIN len : \E k \in 1..len[y] : c = <<y, k>>
      BY CellOf
    <3> QED
      BY <2>1, <3>1
  <2> QED
    BY <2>1
<1>4. IsFiniteSet(column) /\ Cardinality(column) = n
  BY ColumnSize
<1>5. /\ IsFiniteSet(Cells(len)) /\ TotalLen(len) = Cardinality(Cells(len)) /\ TotalLen(len) \in Nat
      /\ TotalLen(new) = Cardinality(Cells(new))
  BY <1>1, TotalIsCells
<1> HIDE DEF new, column
<1>6. Cardinality(Cells(len) \union column)
        = Cardinality(Cells(len)) + Cardinality(column) - Cardinality(Cells(len) \intersect column)
  BY <1>4, <1>5, FS_Union
<1>7. Cardinality(Cells(len) \intersect column) = 0
  BY <1>3, FS_EmptySet
<1> QED
  BY <1>1, <1>2, <1>4, <1>5, <1>6, <1>7 DEF new

\* ... one that is removed takes its own from it ...
LEMMA TotalWithout ==
  ASSUME NEW len, IsTable(len), NEW x \in DOMAIN len
  PROVE  IsTable(Without(len, x)) /\ TotalLen(Without(len, x)) = TotalLen(len) - len[x]
<1> DEFINE rest == Without(len, x)
<1>1. IsTable(rest) /\ x \notin DOMAIN rest
  <2>1. IsFiniteSet(DOMAIN len \ {x})
    BY FS_RemoveElement DEF IsTable
  <2> QED
    BY <2>1 DEF IsTable, Without, Restrict
<1>2. With(rest, x, len[x]) = len
  BY DEF IsTable, With, Without, Restrict
<1>3. len[x] \in Nat
  BY DEF IsTable
<1> HIDE DEF rest
<1>4. TotalLen(len) = TotalLen(rest) + len[x]
  BY <1>1, <1>2, <1>3, TotalWith
<1>5. TotalLen(rest) \in Nat
  BY <1>1, TotalIsCells
<1>6. TotalLen(rest) = TotalLen(len) - len[x]
  BY <1>3, <1>4, <1>5
<1> QED
  BY <1>1, <1>6 DEF rest

\* ... and one that changes exchanges the two.
LEMMA TotalChanged ==
  ASSUME NEW len, IsTable(len), NEW x \in DOMAIN len, NEW n \in Nat
  PROVE  IsTable(With(len, x, n)) /\ TotalLen(With(len, x, n)) = TotalLen(len) - len[x] + n
<1> DEFINE rest == Without(len, x)
<1>1. IsTable(rest) /\ TotalLen(rest) = TotalLen(len) - len[x]
  BY TotalWithout
<1>2. x \notin DOMAIN rest /\ With(rest, x, n) = With(len, x, n)
  BY DEF With, Without, Restrict
<1> HIDE DEF rest
<1>3. IsTable(With(rest, x, n)) /\ TotalLen(With(rest, x, n)) = TotalLen(rest) + n
  BY <1>1, <1>2, TotalWith
<1> QED
  BY <1>1, <1>2, <1>3

\* A part sums up to no more than the whole.
LEMMA TotalPart ==
  ASSUME NEW len, IsTable(len), NEW T \in SUBSET (DOMAIN len)
  PROVE  IsTable(Restrict(len, T)) /\ TotalLen(Restrict(len, T)) <= TotalLen(len)
<1> DEFINE part == Restrict(len, T)
<1>1. IsTable(part)
  BY FS_Subset DEF IsTable, Restrict
<1>2. DOMAIN part = T /\ \A x \in T : part[x] = len[x]
  BY DEF Restrict
<1> HIDE DEF part
<1>3. ASSUME NEW c \in Cells(part)
      PROVE  c \in Cells(len)
  <2>1. PICK x \in DOMAIN part : \E k \in 1..part[x] : c = <<x, k>>
    BY CellOf
  <2> QED
    BY <1>2, <2>1, CellOf
<1>4. Cells(part) \in SUBSET Cells(len)
  BY <1>3
<1>5. IsFiniteSet(Cells(len)) /\ TotalLen(len) = Cardinality(Cells(len)) /\ TotalLen(part) = Cardinality(Cells(part))
  BY <1>1, TotalIsCells
<1>6. TotalLen(part) <= TotalLen(len)
  BY <1>4, <1>5, FS_Subset
<1> QED
  BY <1>1, <1>6 DEF part

\* A sum does not depend on the names of its terms.
LEMMA TotalRenamed ==
  ASSUME NEW len, IsTable(len), NEW D, NEW f \in Bijection(D, DOMAIN len)
  PROVE  TotalLen([d \in D |-> len[f[d]]]) = TotalLen(len)
<1> DEFINE other == [d \in D |-> len[f[d]]]
           g == [c \in Cells(other) |-> <<f[c[1]], c[2]>>]
<1>1. /\ f \in [D -> DOMAIN len]
      /\ \A a, b \in D : f[a] = f[b] => a = b
      /\ \A x \in DOMAIN len : \E d \in D : f[d] = x
  BY DEF Bijection, Injection, Surjection, IsInjective
<1>2. DOMAIN other = D /\ \A d \in D : other[d] = len[f[d]]
  OBVIOUS
<1> HIDE DEF other
<1>3. ASSUME NEW c \in Cells(other)
      PROVE  \E d \in D : \E k \in 1..len[f[d]] : c = <<d, k>>
  BY <1>2, CellOf
<1>4. \A c \in Cells(other) : <<f[c[1]], c[2]>> \in Cells(len)
  <2> TAKE c \in Cells(other)
  <2>1. PICK d \in D : \E k \in 1..len[f[d]] : c = <<d, k>>
    BY <1>3
  <2>2. f[d] \in DOMAIN len
    BY <1>1
  <2> QED
    BY <2>1, <2>2, CellOf
<1>5. ASSUME NEW a \in Cells(other), NEW b \in Cells(other), g[a] = g[b]
      PROVE  a = b
  <2>1. PICK d \in D : \E k \in 1..len[f[d]] : a = <<d, k>>
    BY <1>3
  <2>2. PICK e \in D : \E l \in 1..len[f[e]] : b = <<e, l>>
    BY <1>3
  <2>3. f[d] = f[e] /\ a[2] = b[2]
    BY <1>5, <2>1, <2>2
  <2> QED
    BY <1>1, <2>1, <2>2, <2>3
<1>6. ASSUME NEW c \in Cells(len)
      PROVE  \E a \in Cells(other) : g[a] = c
  <2>0. PICK x \in DOMAIN len : \E k \in 1..len[x] : c = <<x, k>>
    BY CellOf
  <2>1. PICK k \in 1..len[x] : c = <<x, k>>
    BY <2>0
  <2>2. PICK d \in D : f[d] = x
    BY <1>1
  <2>3. <<d, k>> \in Cells(other)
    BY <1>2, <2>1, <2>2, CellOf
  <2> QED
    BY <2>1, <2>2, <2>3
<1>7. g \in Bijection(Cells(other), Cells(len))
  BY <1>4, <1>5, <1>6, Zenon DEF Bijection, Injection, Surjection, IsInjective
<1>8. IsFiniteSet(Cells(len)) /\ TotalLen(len) = Cardinality(Cells(len))
  BY TotalIsCells
<1>9. Cardinality(Cells(other)) = Cardinality(Cells(len))
  <2>1. IsFiniteSet(Cells(other))
    BY <1>7, <1>8, FS_Injection DEF Bijection
  <2> QED
    BY <1>7, <2>1, FS_Bijection DEF ExistsBijection
<1>10. TotalLen(other) = Cardinality(Cells(other))
  BY DEF TotalLen, Cells
<1> QED
  BY <1>8, <1>9, <1>10 DEF other

-----------------------------------------------------------------------------
(***************************************************************************)
(* The inductive invariant.                                                *)
(***************************************************************************)
\* A file has at most one name, so a link count is 0 or 1.
Named(dd, names) ==
  /\ Tree(dd, DOMAIN names)
  /\ IsFiniteSet(dd) /\ IsFiniteSet(DOMAIN names)
  /\ names = [p \in DOMAIN names |-> names[p]]
  /\ \A p, q \in DOMAIN names : names[p] = names[q] => p = q

\* The names are a tree.
NamesInv == Named(dirs, entries)

\* Inode numbers are not used twice.
InodesInv ==
  /\ nextInode \in Nat \ {0} /\ DOMAIN files \subseteq 1..(nextInode - 1)
  /\ files \in [DOMAIN files -> FileNode]
  /\ Range(entries) \subseteq DOMAIN files
  /\ \A i \in DOMAIN files : files[i].links = IF i \in Range(entries) THEN 1 ELSE 0

\* The handles on an inode.
HandlesOf(table, i) == {h \in DOMAIN table : table[h].inode = i}

\* Handle numbers are not used twice, and a file is there as long as a name
\* or a handle needs it.
HandlesInv ==
  /\ nextHandle \in Nat \ {0} /\ DOMAIN handles \union retired \subseteq 1..(nextHandle - 1)
  /\ handles \in [DOMAIN handles -> Handle]
  /\ RetiredStayClosed
  /\ \A h \in DOMAIN handles : handles[h].inode \in DOMAIN files
  /\ \A i \in DOMAIN files :
       /\ files[i].open = Cardinality(HandlesOf(handles, i))
       /\ files[i].links + files[i].open > 0

\* The lengths of the files of a table.
Lens(table) == [i \in DOMAIN table |-> table[i].len]

\* The totals are those of the table, and within the quota.
Summed(dd, table, bytes, count) ==
  /\ bytes = TotalLen(Lens(table)) /\ bytes <= MaxBytes
  /\ count = Cardinality(dd) + Cardinality(DOMAIN table) /\ count <= MaxFiles
  /\ \A i \in DOMAIN table : table[i].len <= MaxFileSize

\* MemState: used_bytes and file_count are those of the files.
SumsInv == Summed(dirs, files, usedBytes, fileCount)

\* A snapshot is a file system without handles.
Restorable(state) ==
  /\ Named(state.dirs, state.entries)
  /\ DOMAIN state.size = Range(state.entries)
  /\ state.size \in [DOMAIN state.size -> Nat]
  /\ state.nextInode \in Nat \ {0} /\ DOMAIN state.size \subseteq 1..(state.nextInode - 1)
  /\ state.usedBytes = TotalLen(state.size)
  /\ state.fileCount = Cardinality(state.dirs) + Cardinality(DOMAIN state.size)
  /\ FitsQuota(state)

\* What restore and branch may put in place of the state is one.
SavedInv ==
  /\ saved = [s \in Snapshots |-> saved[s]]
  /\ \A s \in Snapshots : saved[s] # NoSnapshot => Restorable(saved[s])

\* The whole invariant: every operation relies on all of its parts.
MemInv == NamesInv /\ InodesInv /\ HandlesInv /\ SumsInv /\ SavedInv

-----------------------------------------------------------------------------
(***************************************************************************)
(* The inode table.                                                        *)
(***************************************************************************)
LEMMA LensTable ==
  ASSUME NEW table, IsFiniteSet(DOMAIN table), table \in [DOMAIN table -> FileNode]
  PROVE  IsTable(Lens(table))
BY DEF IsTable, Lens, FileNode

\* There are finitely many files, so that their lengths have a total.
LEMMA FilesFinite ==
  ASSUME InodesInv
  PROVE  IsFiniteSet(DOMAIN files) /\ IsTable(Lens(files))
<1>1. 1 \in Int /\ nextInode - 1 \in Int
  BY DEF InodesInv
<1>2. IsFiniteSet(1..(nextInode - 1))
  BY <1>1, FS_Interval
<1>3. IsFiniteSet(DOMAIN files)
  BY <1>2, FS_Subset DEF InodesInv
<1> QED
  BY <1>3, LensTable DEF InodesInv

\* release_inode keeps an inode that a name or a handle refers to and removes
\* any other.
LEMMA ReleaseTable ==
  ASSUME InodesInv, NEW i \in DOMAIN files, NEW node \in FileNode, Release(i, node)
  PROVE  /\ DOMAIN files' = IF node.links > 0 \/ node.open > 0 THEN DOMAIN files ELSE DOMAIN files \ {i}
         /\ files' \in [DOMAIN files' -> FileNode]
         /\ \A j \in DOMAIN files' : files'[j] = IF j = i THEN node ELSE files[j]
BY DEF InodesInv, Release, Without, Restrict

\* release_file_if_unreferenced takes out of the totals what it takes out of
\* the table.
LEMMA ReleaseSums ==
  ASSUME QuotaAssumption, InodesInv, SumsInv, IsFiniteSet(dirs),
         NEW i \in DOMAIN files, NEW node \in FileNode, node.len = files[i].len, Release(i, node)
  PROVE  Summed(dirs, files', usedBytes', fileCount')
<1>1. /\ IsFiniteSet(DOMAIN files) /\ IsTable(Lens(files)) /\ i \in DOMAIN Lens(files)
      /\ Lens(files)[i] = files[i].len
  BY FilesFinite DEF Lens
<1>2. CASE node.links > 0 \/ node.open > 0
  <2>1. files' = [files EXCEPT ![i] = node] /\ usedBytes' = usedBytes /\ fileCount' = fileCount
    BY <1>2 DEF Release, totals
  <2>2. DOMAIN files' = DOMAIN files /\ \A j \in DOMAIN files : files'[j].len = files[j].len
    BY <2>1 DEF InodesInv
  <2>3. Lens(files') = Lens(files)
    BY <2>2 DEF Lens
  <2> QED
    BY <2>1, <2>2, <2>3 DEF SumsInv, Summed
<1>3. CASE ~(node.links > 0 \/ node.open > 0)
  <2>1. /\ files' = Without(files, i)
        /\ usedBytes' = usedBytes - files[i].len /\ fileCount' = fileCount - 1
    BY <1>3 DEF Release
  <2>2. DOMAIN files' = DOMAIN files \ {i} /\ \A j \in DOMAIN files' : files'[j] = files[j]
    BY <2>1 DEF Without, Restrict
  <2>3. Lens(files') = Without(Lens(files), i)
    BY <2>2 DEF Lens, Without, Restrict
  <2>4. TotalLen(Lens(files')) = TotalLen(Lens(files)) - files[i].len
    BY <1>1, <2>3, TotalWithout, SMTT(30)
  <2>5. /\ Cardinality(DOMAIN files') = Cardinality(DOMAIN files) - 1
        /\ Cardinality(DOMAIN files) \in Nat /\ Cardinality(dirs) \in Nat
    BY <1>1, <2>2, FS_RemoveElement, FS_CardinalityType
  <2>6. TotalLen(Lens(files)) \in Nat /\ files[i].len \in Nat
    BY <1>1, TotalIsCells DEF InodesInv, FileNode
  <2>7. MaxBytes \in Nat /\ MaxFiles \in Nat
    BY DEF QuotaAssumption
  <2>8. usedBytes' = TotalLen(Lens(files')) /\ usedBytes' <= MaxBytes
    BY <2>1, <2>4, <2>6, <2>7, SMTT(30) DEF SumsInv, Summed
  <2>9. fileCount' = Cardinality(dirs) + Cardinality(DOMAIN files') /\ fileCount' <= MaxFiles
    BY <2>1, <2>5, <2>7 DEF SumsInv, Summed
  <2> QED
    BY <2>2, <2>8, <2>9 DEF SumsInv, Summed
<1> QED
  BY <1>2, <1>3

\* What a step does when it sets the length of one file.
LEMMA ResizeSums ==
  ASSUME QuotaAssumption, InodesInv, SumsInv, IsFiniteSet(dirs),
         NEW i \in DOMAIN files, NEW n \in Nat, n <= MaxFileSize,
         DOMAIN files' = DOMAIN files,
         \A j \in DOMAIN files : files'[j].len = IF j = i THEN n ELSE files[j].len,
         usedBytes' = usedBytes + n - files[i].len, usedBytes' <= MaxBytes,
         fileCount' = fileCount
  PROVE  Summed(dirs, files', usedBytes', fileCount')
<1>1. /\ IsTable(Lens(files)) /\ i \in DOMAIN Lens(files)
      /\ Lens(files)[i] = files[i].len
  BY FilesFinite DEF Lens
<1>2. Lens(files') = With(Lens(files), i, n)
  BY Zenon DEF Lens, With
<1>3. TotalLen(Lens(files')) = TotalLen(Lens(files)) - files[i].len + n
  BY <1>1, <1>2, TotalChanged
<1>4. TotalLen(Lens(files)) \in Nat /\ files[i].len \in Nat
  BY <1>1, TotalIsCells DEF InodesInv, FileNode
<1>5. usedBytes' = TotalLen(Lens(files'))
  BY <1>3, <1>4 DEF SumsInv, Summed
<1> QED
  BY <1>5 DEF SumsInv, Summed

-----------------------------------------------------------------------------
(***************************************************************************)
(* The handles of a file.                                                  *)
(***************************************************************************)
LEMMA HandlesFinite ==
  ASSUME HandlesInv
  PROVE  \A i : IsFiniteSet(HandlesOf(handles, i)) /\ Cardinality(HandlesOf(handles, i)) \in Nat
<1>1. 1 \in Int /\ nextHandle - 1 \in Int
  BY DEF HandlesInv
<1>2. IsFiniteSet(1..(nextHandle - 1))
  BY <1>1, FS_Interval
<1> TAKE i
<1>3. HandlesOf(handles, i) \in SUBSET (1..(nextHandle - 1))
  BY DEF HandlesInv, HandlesOf
<1>4. IsFiniteSet(HandlesOf(handles, i))
  BY <1>2, <1>3, FS_Subset, Zenon
<1> QED
  BY <1>4, FS_CardinalityType

\* A handle that is handed out is a new one, and counted on its inode.
LEMMA HandHandles ==
  ASSUME HandlesInv, NEW i \in Nat, NEW mode \in Modes, NEW node, NEW table,
         Hand(i, node, mode, table), retired' = retired
  PROVE  /\ nextHandle' \in Nat \ {0} /\ DOMAIN handles' \union retired' \subseteq 1..(nextHandle' - 1)
         /\ handles' \in [DOMAIN handles' -> Handle]
         /\ RetiredStayClosed'
         /\ \A h \in DOMAIN handles' : handles'[h].inode = i \/ (h \in DOMAIN handles /\ handles'[h] = handles[h])
         /\ \A j : Cardinality(HandlesOf(handles', j))
                    = Cardinality(HandlesOf(handles, j)) + (IF j = i THEN 1 ELSE 0)
<1> DEFINE new == [inode |-> i, writable |-> mode.write, append |-> mode.append]
<1>1. /\ handles' = With(handles, nextHandle, new)
      /\ nextHandle' = nextHandle + 1
  BY DEF Hand
<1>2. new \in Handle /\ new.inode = i
  BY DEF Handle, Modes
<1> HIDE DEF new
<1>3. nextHandle \notin DOMAIN handles /\ nextHandle \notin retired /\ nextHandle \in Nat \ {0}
  BY DEF HandlesInv
<1>4. /\ DOMAIN handles' = DOMAIN handles \union {nextHandle}
      /\ handles'[nextHandle] = new
      /\ \A h \in DOMAIN handles : handles'[h] = handles[h]
  BY <1>1, <1>3 DEF With
<1>5. handles' \in [DOMAIN handles' -> Handle]
  BY <1>1, <1>2, <1>4 DEF With, HandlesInv
<1>6. nextHandle' \in Nat \ {0} /\ DOMAIN handles' \union retired' \subseteq 1..(nextHandle' - 1)
  BY <1>1, <1>3, <1>4 DEF HandlesInv
<1>7. RetiredStayClosed'
  BY <1>3, <1>4 DEF HandlesInv, RetiredStayClosed
<1>8. ASSUME NEW j
      PROVE  Cardinality(HandlesOf(handles', j))
               = Cardinality(HandlesOf(handles, j)) + (IF j = i THEN 1 ELSE 0)
  <2>1. HandlesOf(handles', j) = HandlesOf(handles, j) \union (IF j = i THEN {nextHandle} ELSE {})
    BY <1>2, <1>3, <1>4 DEF HandlesOf
  <2>2. IsFiniteSet(HandlesOf(handles, j)) /\ Cardinality(HandlesOf(handles, j)) \in Nat
    BY HandlesFinite
  <2>3. nextHandle \notin HandlesOf(handles, j)
    BY <1>3 DEF HandlesOf
  <2>4. CASE j = i
    BY <2>1, <2>2, <2>3, <2>4, FS_AddElement, SMTT(30)
  <2>5. CASE j # i
    BY <2>1, <2>2, <2>5
  <2> QED
    BY <2>4, <2>5
<1> QED
  BY <1>2, <1>4, <1>5, <1>6, <1>7, <1>8

-----------------------------------------------------------------------------
(***************************************************************************)
(* A name goes: unlink, and rename over a file.                            *)
(***************************************************************************)
LEMMA UnnameInv ==
  ASSUME QuotaAssumption, NamesInv, InodesInv, HandlesInv, SumsInv, NEW p \in DOMAIN entries,
         Unname(entries[p]),
         Range(entries') = Range(entries) \ {entries[p]},
         UNCHANGED <<nextInode, handles, nextHandle, retired>>
  PROVE  InodesInv' /\ HandlesInv' /\ Summed(dirs, files', usedBytes', fileCount')
<1> DEFINE i == entries[p]
           node == [files[i] EXCEPT !.links = @ - 1]
<1>1. i \in Range(entries) /\ i \in DOMAIN files
  BY DEF Range, InodesInv
<1>2. files[i] \in FileNode /\ files[i].links = 1
  BY <1>1 DEF InodesInv
<1>3. node \in FileNode /\ node.links = 0 /\ node.open = files[i].open /\ node.len = files[i].len
  BY <1>2 DEF FileNode
<1>4. Release(i, node)
  BY DEF Unname
<1> HIDE DEF node, i
<1>5. /\ DOMAIN files' = IF node.links > 0 \/ node.open > 0 THEN DOMAIN files ELSE DOMAIN files \ {i}
      /\ files' \in [DOMAIN files' -> FileNode]
      /\ \A j \in DOMAIN files' : files'[j] = IF j = i THEN node ELSE files[j]
  BY <1>1, <1>3, <1>4, ReleaseTable, Zenon
<1>6. Range(entries') = Range(entries) \ {i}
  BY DEF i
<1>7. DOMAIN files \ {i} \subseteq DOMAIN files' /\ DOMAIN files' \subseteq DOMAIN files
  BY <1>5
<1>8. InodesInv'
  BY <1>3, <1>5, <1>6, <1>7 DEF InodesInv
<1>9. files[i].open \in Nat
  BY <1>2 DEF FileNode
<1>10. i \in DOMAIN files' <=> files[i].open > 0
  BY <1>1, <1>3, <1>5, <1>9
<1>11. ASSUME NEW h \in DOMAIN handles
       PROVE  handles[h].inode \in DOMAIN files'
  <2>1. handles[h].inode \in DOMAIN files
    BY DEF HandlesInv
  <2>2. CASE handles[h].inode = i
    <3>1. HandlesOf(handles, i) # {}
      BY <2>2 DEF HandlesOf
    <3>2. Cardinality(HandlesOf(handles, i)) # 0
      BY <3>1, HandlesFinite, FS_EmptySet
    <3>3. files[i].open = Cardinality(HandlesOf(handles, i))
      BY <1>1 DEF HandlesInv
    <3> QED
      BY <1>9, <1>10, <2>2, <3>2, <3>3
  <2>3. CASE handles[h].inode # i
    BY <1>7, <2>1, <2>3
  <2> QED
    BY <2>2, <2>3
<1>12. ASSUME NEW j \in DOMAIN files'
       PROVE  /\ files'[j].open = Cardinality(HandlesOf(handles, j))
              /\ files'[j].links + files'[j].open > 0
  <2>1. j \in DOMAIN files
    BY <1>7
  <2>2. files[j].open = Cardinality(HandlesOf(handles, j)) /\ files[j].links + files[j].open > 0
    BY <2>1 DEF HandlesInv
  <2>3. CASE j = i
    BY <1>3, <1>5, <1>9, <1>10, <2>2, <2>3, SMTT(30)
  <2>4. CASE j # i
    BY <1>5, <2>2, <2>4
  <2> QED
    BY <2>3, <2>4
<1>13. HandlesInv'
  BY <1>11, <1>12 DEF HandlesInv, RetiredStayClosed
<1>14. Summed(dirs, files', usedBytes', fileCount')
  BY <1>1, <1>3, <1>4, ReleaseSums DEF NamesInv, Named
<1> QED
  BY <1>8, <1>13, <1>14

-----------------------------------------------------------------------------
(***************************************************************************)
(* One lemma per action.                                                   *)
(***************************************************************************)
LEMMA MkdirInv ==
  ASSUME QuotaAssumption, MemInv, NEW p \in Paths, Mkdir(p)
  PROVE  MemInv'
<1>1. /\ dirs' = dirs \union {p} /\ fileCount' = fileCount + 1 /\ fileCount < MaxFiles
      /\ p \notin dirs \union DOMAIN entries /\ Parent(p) \in dirs \union {<<>>}
      /\ UNCHANGED <<entries, files, nextInode, handles, nextHandle, usedBytes, saved, retired>>
  BY DEF Mkdir, Exists, ParentIsDir, EntrySlotFree, history
<1>2. /\ IsFiniteSet(dirs') /\ Cardinality(dirs') = Cardinality(dirs) + 1
      /\ Cardinality(dirs) \in Nat
  BY <1>1, FS_AddElement, FS_CardinalityType DEF MemInv, NamesInv, Named
<1>3. NamesInv'
  <2>1. Tree(dirs', DOMAIN entries)
    BY <1>1, TreeAdd, Zenon DEF MemInv, NamesInv, Named, QuotaAssumption
  <2> QED
    BY <1>1, <1>2, <2>1 DEF MemInv, NamesInv, Named
<1>4. InodesInv' /\ HandlesInv'
  BY <1>1 DEF MemInv, InodesInv, HandlesInv, RetiredStayClosed
<1>5. SumsInv'
  <2>1. Cardinality(DOMAIN files) \in Nat /\ MaxFiles \in Nat
    BY FilesFinite, FS_CardinalityType DEF MemInv, QuotaAssumption
  <2> QED
    BY <1>1, <1>2, <2>1 DEF MemInv, SumsInv, Summed
<1>6. SavedInv'
  BY <1>1 DEF MemInv, SavedInv
<1> QED
  BY <1>3, <1>4, <1>5, <1>6, SMTT(30) DEF MemInv

\* unlink: the name goes, and the inode with its last reference.
LEMMA UnlinkInv ==
  ASSUME QuotaAssumption, MemInv, NEW p \in Paths, Unlink(p)
  PROVE  MemInv'
<1>1. /\ p \in DOMAIN entries /\ entries' = Without(entries, p) /\ Unname(entries[p])
      /\ UNCHANGED <<dirs, nextInode, handles, nextHandle, saved, retired>>
  BY DEF Unlink, history
<1>2. DOMAIN entries' = DOMAIN entries \ {p} /\ \A q \in DOMAIN entries' : entries'[q] = entries[q]
  BY <1>1 DEF Without, Restrict
<1>3. NamesInv'
  <2>1. Tree(dirs, DOMAIN entries \ {p}) /\ IsFiniteSet(DOMAIN entries \ {p})
    BY TreeDropFile, FS_RemoveElement, Zenon DEF MemInv, NamesInv, Named
  <2>2. entries' = [q \in DOMAIN entries' |-> entries'[q]]
    BY <1>1 DEF Without, Restrict
  <2> QED
    BY <1>1, <1>2, <2>1, <2>2 DEF MemInv, NamesInv, Named
<1>4. Range(entries') = Range(entries) \ {entries[p]}
  BY <1>1, <1>2 DEF Range, MemInv, NamesInv, Named
<1>5. InodesInv' /\ HandlesInv' /\ Summed(dirs, files', usedBytes', fileCount')
  BY <1>1, <1>4, UnnameInv DEF MemInv
<1>6. SavedInv'
  BY <1>1 DEF MemInv, SavedInv
<1> QED
  BY <1>1, <1>3, <1>5, <1>6 DEF MemInv, SumsInv

\* rmdir: only a directory that is empty goes.
LEMMA RmdirInv ==
  ASSUME QuotaAssumption, MemInv, NEW p \in Paths, Rmdir(p)
  PROVE  MemInv'
<1>1. /\ p \in dirs /\ dirs' = dirs \ {p} /\ fileCount' = fileCount - 1
      /\ \A q \in dirs \union DOMAIN entries : ~Below(q, p)
      /\ UNCHANGED <<entries, files, nextInode, handles, nextHandle, usedBytes, saved, retired>>
  BY DEF Rmdir, Children, history
<1>2. /\ IsFiniteSet(dirs') /\ Cardinality(dirs') = Cardinality(dirs) - 1
      /\ Cardinality(dirs) \in Nat
  BY <1>1, FS_RemoveElement, FS_CardinalityType DEF MemInv, NamesInv, Named
<1>3. NamesInv'
  <2>1. Tree(dirs', DOMAIN entries)
    BY <1>1, TreeDropDir DEF MemInv, NamesInv, Named, QuotaAssumption
  <2> QED
    BY <1>1, <1>2, <2>1 DEF MemInv, NamesInv, Named
<1>4. InodesInv' /\ HandlesInv'
  BY <1>1, SMTT(30) DEF MemInv, InodesInv, HandlesInv, RetiredStayClosed
<1>5. SumsInv'
  <2>1. Cardinality(DOMAIN files) \in Nat /\ MaxFiles \in Nat
    BY FilesFinite, FS_CardinalityType DEF MemInv, QuotaAssumption
  <2> QED
    BY <1>1, <1>2, <2>1 DEF MemInv, SumsInv, Summed
<1>6. SavedInv'
  BY <1>1 DEF MemInv, SavedInv
<1> QED
  BY <1>3, <1>4, <1>5, <1>6 DEF MemInv

\* rename: whatever was at the target is released, and what was below the source
\* moves with it.
LEMMA RenameInv ==
  ASSUME QuotaAssumption, MemInv, NEW from \in Paths, NEW to \in Paths, Rename(from, to)
  PROVE  MemInv'
<1> DEFINE M(p) == Moved(from, to, p)
           kept == DOMAIN entries \ {to}
<1>0. MaxDepth \in Nat /\ Tree(dirs, DOMAIN entries)
  BY SMTT(30) DEF QuotaAssumption, MemInv, NamesInv, Named
<1>1. /\ from \in dirs \union DOMAIN entries /\ from # to
      /\ MoveAllowed(from, to) /\ Parent(to) \in dirs \union {<<>>}
      /\ dirs' = {M(p) : p \in dirs \ {to}}
      /\ entries' = [q \in {M(p) : p \in kept} |-> entries[CHOOSE p \in kept : M(p) = q]]
      /\ UNCHANGED <<nextInode, handles, nextHandle, saved, retired>>
  BY DEF Rename, Exists, ParentIsDir, history
<1>2. \A p \in dirs \union DOMAIN entries : ~Below(p, to)
  <2>1. SUFFICES ASSUME NEW p \in dirs \union DOMAIN entries, Below(p, to)
                 PROVE  FALSE
    OBVIOUS
  <2>2. to \in dirs
    BY <1>0, <2>1, AboveIsDir
  <2>3. to \notin DOMAIN entries
    BY <1>0, <2>2 DEF Tree
  <2>4. Children(to) = {}
    BY <2>2, <2>3, SMTT(30) DEF Rename, Exists
  <2> QED
    BY <2>1, <2>4 DEF Children
<1>3. Movable(dirs, DOMAIN entries, from, to)
  BY <1>1, <1>2 DEF Movable, MoveAllowed, Children
<1>4. \A p, q \in (dirs \union DOMAIN entries) \ {to} : M(p) = M(q) => p = q
  BY <1>0, <1>3, MovedApart
<1>5. DOMAIN entries' = {M(p) : p \in kept} /\ \A p \in kept : entries'[M(p)] = entries[p]
  <2>1. DOMAIN entries' = {M(p) : p \in kept}
    BY <1>1
  <2>2. ASSUME NEW p \in kept
        PROVE  entries'[M(p)] = entries[p]
    <3> DEFINE c == CHOOSE q \in kept : M(q) = M(p)
    <3>1. c \in kept /\ M(c) = M(p)
      OBVIOUS
    <3>2. entries'[M(p)] = entries[c]
      BY <1>1
    <3> HIDE DEF c
    <3>3. c = p
      BY <1>4, <3>1
    <3> QED
      BY <3>2, <3>3
  <2> QED
    BY <2>1, <2>2, SMTT(30)
<1>6. entries' = [q \in DOMAIN entries' |-> entries'[q]]
  BY <1>1
<1>7. Range(entries') = {entries[p] : p \in kept}
  BY <1>5 DEF Range
<1>8. Tree(dirs', DOMAIN entries')
  BY <1>0, <1>1, <1>3, <1>5, MoveKeepsTree
<1> HIDE DEF M, kept
<1>9. IsFiniteSet(dirs') /\ Cardinality(dirs') = Cardinality(dirs \ {to}) /\ IsFiniteSet(dirs \ {to})
  <2> DEFINE f == [p \in dirs \ {to} |-> M(p)]
  <2>1. IsFiniteSet(dirs \ {to})
    BY FS_RemoveElement DEF MemInv, NamesInv, Named
  <2>2. f \in Bijection(dirs \ {to}, dirs')
    BY <1>1, <1>4, SMTT(30) DEF Bijection, Injection, Surjection, IsInjective
  <2> HIDE DEF f
  <2> QED
    BY <2>1, <2>2, FS_Bijection DEF ExistsBijection
<1>10. IsFiniteSet(DOMAIN entries')
  <2> DEFINE f == [p \in kept |-> M(p)]
  <2>1. IsFiniteSet(kept)
    BY FS_RemoveElement DEF MemInv, NamesInv, Named, kept
  <2>2. f \in Surjection(kept, DOMAIN entries')
    BY <1>5 DEF Surjection
  <2> HIDE DEF f
  <2> QED
    BY <2>1, <2>2, FS_Surjection
<1>11. \A p, q \in DOMAIN entries' : entries'[p] = entries'[q] => p = q
  BY <1>5 DEF kept, MemInv, NamesInv, Named
<1>12. NamesInv'
  BY <1>6, <1>8, <1>9, <1>10, <1>11, SMTT(30) DEF NamesInv, Named
<1>13. SavedInv'
  BY <1>1 DEF MemInv, SavedInv
<1>14. IsFiniteSet(dirs) /\ Cardinality(dirs) \in Nat /\ Cardinality(DOMAIN files) \in Nat /\ MaxFiles \in Nat
  BY FilesFinite, FS_CardinalityType DEF MemInv, NamesInv, Named, QuotaAssumption
<1>15. CASE ~Exists(to) /\ UNCHANGED <<files, totals>>
  <2>1. to \notin dirs /\ to \notin DOMAIN entries
    BY <1>15 DEF Exists
  <2>2. Range(entries') = Range(entries)
    BY <1>7, <2>1 DEF Range, kept
  <2>3. dirs \ {to} = dirs
    BY <2>1, SMTT(30)
  <2>4. InodesInv' /\ HandlesInv'
    BY <1>1, <1>15, <2>2, Zenon DEF MemInv, InodesInv, HandlesInv, RetiredStayClosed
  <2>5. SumsInv'
    BY <1>9, <1>15, <2>3 DEF totals, MemInv, SumsInv, Summed
  <2> QED
    BY <1>12, <1>13, <2>4, <2>5 DEF MemInv
<1>16. CASE {from, to} \subseteq DOMAIN entries /\ Unname(entries[to])
  <2>1. to \in DOMAIN entries /\ to \notin dirs
    BY <1>0, <1>16 DEF Tree
  <2>2. Range(entries') = Range(entries) \ {entries[to]}
    BY <1>7, <2>1, SMTT(30) DEF Range, kept, MemInv, NamesInv, Named
  <2>3. InodesInv' /\ HandlesInv' /\ Summed(dirs, files', usedBytes', fileCount')
    BY <1>1, <1>16, <2>1, <2>2, UnnameInv, Zenon DEF MemInv
  <2>4. dirs \ {to} = dirs
    BY <2>1
  <2>5. SumsInv'
    BY <1>9, <2>3, <2>4, SMTT(30) DEF SumsInv, Summed
  <2> QED
    BY <1>12, <1>13, <2>3, <2>5 DEF MemInv
<1>17. CASE /\ {from, to} \subseteq dirs /\ fileCount' = fileCount - 1
            /\ UNCHANGED <<files, usedBytes>>
  <2>1. to \in dirs /\ to \notin DOMAIN entries
    BY <1>0, <1>17 DEF Tree
  <2>2. Range(entries') = Range(entries)
    BY <1>7, <2>1, SMTT(30) DEF Range, kept
  <2>3. InodesInv' /\ HandlesInv'
    BY <1>1, <1>17, <2>2, Zenon DEF MemInv, InodesInv, HandlesInv, RetiredStayClosed
  <2>4. Cardinality(dirs') = Cardinality(dirs) - 1
    BY <1>9, <1>14, <2>1, FS_RemoveElement
  <2>5. SumsInv'
    BY <1>14, <1>17, <2>4 DEF MemInv, SumsInv, Summed
  <2> QED
    BY <1>12, <1>13, <2>3, <2>5 DEF MemInv
<1> QED
  BY <1>15, <1>16, <1>17, SMTT(30) DEF Rename

\* open of a file that is there: at most its length changes.
LEMMA OpenExistingInv ==
  ASSUME QuotaAssumption, MemInv, NEW p \in Paths, NEW mode \in Modes, OpenExisting(p, mode)
  PROVE  MemInv'
<1> DEFINE i == entries[p]
           n == IF mode.truncate THEN 0 ELSE files[i].len
           node == [files[i] EXCEPT !.len = n]
<1>1. /\ p \in DOMAIN entries /\ Hand(i, node, mode, files)
      /\ usedBytes' = usedBytes + n - files[i].len
      /\ UNCHANGED <<dirs, entries, nextInode, fileCount, saved, retired>>
  BY DEF OpenExisting, tree, history
<1>2. i \in DOMAIN files /\ files[i] \in FileNode
  BY <1>1 DEF MemInv, InodesInv, Range
<1>3. i \in Nat /\ n \in Nat /\ n <= files[i].len /\ files[i].len \in Nat /\ files[i].open \in Nat
  BY <1>2 DEF MemInv, InodesInv, FileNode
<1>4. files' = With(files, i, [node EXCEPT !.open = @ + 1])
  BY <1>1 DEF Hand
<1>5. /\ DOMAIN files' = DOMAIN files
      /\ \A j \in DOMAIN files : files'[j] = IF j = i THEN [node EXCEPT !.open = @ + 1] ELSE files[j]
  BY <1>2, <1>4 DEF With
<1> HIDE DEF i, n
<1>13. node \in FileNode /\ node.len = n /\ node.links = files[i].links /\ node.open = files[i].open
  BY <1>2, <1>3 DEF FileNode
<1> HIDE DEF node
<1>6. LET new == [node EXCEPT !.open = @ + 1]
      IN  new \in FileNode /\ new.len = n /\ new.links = files[i].links /\ new.open = files[i].open + 1
  BY <1>13, SMTT(30) DEF FileNode
<1>7. \A j \in DOMAIN files : /\ files'[j].len = IF j = i THEN n ELSE files[j].len
                              /\ files'[j].links = files[j].links
                              /\ files'[j].open = files[j].open + (IF j = i THEN 1 ELSE 0)
  <2> TAKE j \in DOMAIN files
  <2>1. CASE j = i
    BY <1>5, <1>6, <2>1, Zenon
  <2>2. CASE j # i
    <3>1. files'[j] = files[j] /\ files[j].open \in Nat
      BY <1>5, <2>2 DEF MemInv, InodesInv, FileNode
    <3> QED
      BY <2>2, <3>1
  <2> QED
    BY <2>1, <2>2
<1>8. files' \in [DOMAIN files' -> FileNode]
  BY <1>4, <1>5, <1>6 DEF With, MemInv, InodesInv
<1>9. NamesInv' /\ SavedInv'
  BY <1>1 DEF MemInv, NamesInv, SavedInv
<1>10. InodesInv'
  BY <1>1, <1>5, <1>7, <1>8 DEF MemInv, InodesInv
<1>11. HandlesInv'
  <2>1. /\ nextHandle' \in Nat \ {0} /\ DOMAIN handles' \union retired' \subseteq 1..(nextHandle' - 1)
        /\ handles' \in [DOMAIN handles' -> Handle]
        /\ RetiredStayClosed'
        /\ \A h \in DOMAIN handles' : handles'[h].inode = i \/ (h \in DOMAIN handles /\ handles'[h] = handles[h])
        /\ \A j : Cardinality(HandlesOf(handles', j))
                   = Cardinality(HandlesOf(handles, j)) + (IF j = i THEN 1 ELSE 0)
    BY <1>1, <1>3, HandHandles DEF MemInv
  <2>2. \A h \in DOMAIN handles' : handles'[h].inode \in DOMAIN files'
    BY <1>2, <1>5, <2>1 DEF MemInv, HandlesInv
  <2>3. ASSUME NEW j \in DOMAIN files'
        PROVE  /\ files'[j].open = Cardinality(HandlesOf(handles', j))
               /\ files'[j].links + files'[j].open > 0
    <3>1. /\ files[j].open = Cardinality(HandlesOf(handles, j)) /\ files[j].links + files[j].open > 0
          /\ files[j].open \in Nat /\ files[j].links \in Nat
      BY <1>5 DEF MemInv, HandlesInv, InodesInv, FileNode
    <3> QED
      BY <1>5, <1>7, <2>1, <3>1
  <2> QED
    BY <2>1, <2>2, <2>3, SMTT(30) DEF HandlesInv
<1>12. SumsInv'
  <2>1. files[i].len <= MaxFileSize /\ usedBytes <= MaxBytes /\ usedBytes \in Nat
    BY <1>2, FilesFinite, TotalIsCells, SMTT(30) DEF MemInv, SumsInv, Summed
  <2>2. n <= MaxFileSize /\ usedBytes' <= MaxBytes
    BY <1>1, <1>3, <2>1 DEF QuotaAssumption, i, n
  <2>3. Summed(dirs, files', usedBytes', fileCount')
    BY <1>1, <1>2, <1>3, <1>5, <1>7, <2>2, ResizeSums, SMTT(30) DEF MemInv, NamesInv, Named, i, n
  <2> QED
    BY <1>1, <2>3, SMTT(30) DEF SumsInv
<1> QED
  BY <1>9, <1>10, <1>11, <1>12 DEF MemInv

\* open of a new file: a new inode within the quota.
LEMMA OpenCreateInv ==
  ASSUME QuotaAssumption, MemInv, NEW p \in Paths, NEW mode \in Modes, OpenCreate(p, mode)
  PROVE  MemInv'
<1> DEFINE i == nextInode
           fresh == [len |-> 0, links |-> 1, open |-> 0]
           new == [len |-> 0, links |-> 1, open |-> 1]
<1>1. /\ p \notin dirs \union DOMAIN entries /\ Parent(p) \in dirs \union {<<>>}
      /\ fileCount < MaxFiles
      /\ Hand(i, fresh, mode, files)
      /\ entries' = With(entries, p, i)
      /\ nextInode' = nextInode + 1 /\ fileCount' = fileCount + 1
      /\ UNCHANGED <<dirs, usedBytes, saved, retired>>
  BY Zenon DEF OpenCreate, Exists, ParentIsDir, EntrySlotFree, history
<1>2. i \in Nat \ {0} /\ i \notin DOMAIN files /\ i \notin Range(entries)
  BY DEF MemInv, InodesInv
<1>3. new \in FileNode /\ [fresh EXCEPT !.open = @ + 1] = new
  BY DEF FileNode
<1>4. files' = With(files, i, new)
  BY <1>1, <1>3 DEF Hand
<1>5. /\ DOMAIN files' = DOMAIN files \union {i}
      /\ files'[i] = new /\ \A j \in DOMAIN files : files'[j] = files[j]
  BY <1>2, <1>4, SMTT(30) DEF With
<1>6. /\ DOMAIN entries' = DOMAIN entries \union {p}
      /\ entries'[p] = i /\ \A q \in DOMAIN entries : entries'[q] = entries[q]
      /\ entries' = [q \in DOMAIN entries' |-> entries'[q]]
  BY <1>1 DEF With
<1>7. Range(entries') = Range(entries) \union {i}
  BY <1>6 DEF Range
<1>8. files' \in [DOMAIN files' -> FileNode]
  BY <1>3, <1>4, <1>5 DEF With, MemInv, InodesInv
<1>9. new.links = 1 /\ new.open = 1 /\ new.len = 0
  OBVIOUS
<1> HIDE DEF i, fresh, new
<1>10. NamesInv'
  <2>1. Tree(dirs, DOMAIN entries \union {p}) /\ IsFiniteSet(DOMAIN entries \union {p})
    BY <1>1, TreeAdd, FS_AddElement, Zenon DEF MemInv, NamesInv, Named, QuotaAssumption
  <2>2. \A q \in DOMAIN entries : entries[q] # i
    BY <1>2 DEF Range
  <2>3. \A a, b \in DOMAIN entries' : entries'[a] = entries'[b] => a = b
    BY <1>6, <2>2 DEF MemInv, NamesInv, Named
  <2> QED
    BY <1>1, <1>6, <2>1, <2>3 DEF MemInv, NamesInv, Named
<1>11. SavedInv'
  BY <1>1 DEF MemInv, SavedInv
<1>12. InodesInv'
  <2>1. nextInode' \in Nat \ {0} /\ DOMAIN files' \subseteq 1..(nextInode' - 1)
    BY <1>1, <1>2, <1>5 DEF MemInv, InodesInv, i
  <2>2. Range(entries') \subseteq DOMAIN files'
    BY <1>5, <1>7 DEF MemInv, InodesInv
  <2>3. \A j \in DOMAIN files' : files'[j].links = IF j \in Range(entries') THEN 1 ELSE 0
    BY <1>2, <1>5, <1>7, <1>9, SMTT(30) DEF MemInv, InodesInv
  <2> QED
    BY <1>8, <2>1, <2>2, <2>3, SMTT(30) DEF InodesInv
<1>13. HandlesInv'
  <2>1. /\ nextHandle' \in Nat \ {0} /\ DOMAIN handles' \union retired' \subseteq 1..(nextHandle' - 1)
        /\ handles' \in [DOMAIN handles' -> Handle]
        /\ RetiredStayClosed'
        /\ \A h \in DOMAIN handles' : handles'[h].inode = i \/ (h \in DOMAIN handles /\ handles'[h] = handles[h])
        /\ \A j : Cardinality(HandlesOf(handles', j))
                   = Cardinality(HandlesOf(handles, j)) + (IF j = i THEN 1 ELSE 0)
    BY <1>1, <1>2, HandHandles DEF MemInv
  <2>2. \A h \in DOMAIN handles' : handles'[h].inode \in DOMAIN files'
    BY <1>5, <2>1 DEF MemInv, HandlesInv
  <2>3. Cardinality(HandlesOf(handles, i)) = 0
    <3>1. HandlesOf(handles, i) = {}
      BY <1>2 DEF HandlesOf, MemInv, HandlesInv
    <3> QED
      BY <3>1, FS_EmptySet
  <2>4. ASSUME NEW j \in DOMAIN files'
        PROVE  /\ files'[j].open = Cardinality(HandlesOf(handles', j))
               /\ files'[j].links + files'[j].open > 0
    <3>1. CASE j = i
      BY <1>5, <1>9, <2>1, <2>3, <3>1, SMTT(30)
    <3>2. CASE j # i
      <4>1. /\ j \in DOMAIN files
            /\ files[j].open = Cardinality(HandlesOf(handles, j)) /\ files[j].links + files[j].open > 0
            /\ files[j].open \in Nat /\ files[j].links \in Nat
        BY <1>5, <3>2, SMTT(30) DEF MemInv, HandlesInv, InodesInv, FileNode
      <4> QED
        BY <1>5, <2>1, <3>2, <4>1, SMTT(30)
    <3> QED
      BY <3>1, <3>2
  <2> QED
    BY <2>1, <2>2, <2>4 DEF HandlesInv
<1>14. SumsInv'
  <2>1. IsTable(Lens(files)) /\ IsFiniteSet(DOMAIN files) /\ i \notin DOMAIN Lens(files)
    BY <1>2, FilesFinite DEF MemInv, Lens
  <2>2. Lens(files') = With(Lens(files), i, 0)
    BY <1>2, <1>5, <1>9 DEF Lens, With
  <2>3. TotalLen(Lens(files')) = TotalLen(Lens(files)) + 0 /\ TotalLen(Lens(files)) \in Nat
    BY <2>1, <2>2, TotalWith, TotalIsCells, SMTT(30)
  <2>4. /\ Cardinality(DOMAIN files') = Cardinality(DOMAIN files) + 1
        /\ Cardinality(DOMAIN files) \in Nat /\ Cardinality(dirs) \in Nat
    BY <1>2, <1>5, <2>1, FS_AddElement, FS_CardinalityType DEF MemInv, NamesInv, Named
  <2>5. MaxFiles \in Nat /\ MaxFileSize \in Nat
    BY DEF QuotaAssumption
  <2>6. \A j \in DOMAIN files' : files'[j].len <= MaxFileSize
    BY <1>5, <1>9, <2>5, SMTT(30) DEF MemInv, SumsInv, Summed
  <2>7. usedBytes' = TotalLen(Lens(files')) /\ usedBytes' <= MaxBytes
    BY <1>1, <2>3, SMTT(30) DEF MemInv, SumsInv, Summed
  <2>8. fileCount' = Cardinality(dirs) + Cardinality(DOMAIN files') /\ fileCount' <= MaxFiles
    <3>1. fileCount = Cardinality(dirs) + Cardinality(DOMAIN files)
      BY DEF MemInv, SumsInv, Summed
    <3> QED
      BY <1>1, <2>4, <2>5, <3>1
  <2>9. Summed(dirs, files', usedBytes', fileCount')
    BY <2>6, <2>7, <2>8 DEF Summed
  <2> QED
    BY <1>1, <2>9 DEF SumsInv
<1> QED
  BY <1>10, <1>11, <1>12, <1>13, <1>14, SMTT(30) DEF MemInv

\* resize_file, for write_at and truncate.
LEMMA ResizeInv ==
  ASSUME QuotaAssumption, MemInv, NEW i \in DOMAIN files, NEW n \in Nat, Resize(i, n),
         UNCHANGED <<tree, nextInode, handles, nextHandle, fileCount, history>>
  PROVE  MemInv'
<1>1. /\ n <= MaxFileSize /\ usedBytes' <= MaxBytes
      /\ usedBytes' = usedBytes + n - files[i].len
      /\ files' = [files EXCEPT ![i].len = n]
  BY DEF Resize
<1>2. UNCHANGED <<dirs, entries, nextInode, handles, nextHandle, fileCount, saved, retired>>
  BY DEF tree, history
<1>3. DOMAIN files' = DOMAIN files /\ files' \in [DOMAIN files' -> FileNode]
  BY <1>1 DEF MemInv, InodesInv, FileNode
<1>4. \A j \in DOMAIN files : /\ files'[j].len = IF j = i THEN n ELSE files[j].len
                              /\ files'[j].links = files[j].links /\ files'[j].open = files[j].open
  BY <1>1 DEF MemInv, InodesInv, FileNode
<1>5. NamesInv' /\ SavedInv'
  BY <1>2 DEF MemInv, NamesInv, SavedInv
<1>6. InodesInv' /\ HandlesInv'
  BY <1>2, <1>3, <1>4 DEF MemInv, InodesInv, HandlesInv, RetiredStayClosed
<1>7. Summed(dirs, files', usedBytes', fileCount')
  BY <1>1, <1>2, <1>3, <1>4, ResizeSums, Zenon DEF MemInv, NamesInv, Named
<1> QED
  BY <1>2, <1>5, <1>6, <1>7 DEF MemInv, SumsInv

\* write_at and truncate: the totals follow the length.
LEMMA WriteInv ==
  ASSUME QuotaAssumption, MemInv, NEW h \in DOMAIN handles, NEW offset \in Offsets, NEW n \in Offsets,
         WriteAt(h, offset, n) \/ Truncate(h, n)
  PROVE  MemInv'
<1> DEFINE i == handles[h].inode
<1>1. i \in DOMAIN files /\ files[i].len \in Nat
  BY DEF MemInv, HandlesInv, InodesInv, FileNode
<1>2. offset \in Nat /\ n \in Nat
  BY ZenonT(30) DEF QuotaAssumption
<1>3. CASE WriteAt(h, offset, n)
  <2> DEFINE end == n + (IF handles[h].append THEN files[i].len ELSE offset)
             size == IF end > files[i].len THEN end ELSE files[i].len
  <2>1. size \in Nat
    BY <1>1, <1>2
  <2>2. Resize(i, size) /\ UNCHANGED <<tree, nextInode, handles, nextHandle, fileCount, history>>
    BY <1>3 DEF WriteAt
  <2> HIDE DEF size, i
  <2> QED
    BY <1>1, <2>1, <2>2, ResizeInv
<1>4. CASE Truncate(h, n)
  <2>1. Resize(i, n) /\ UNCHANGED <<tree, nextInode, handles, nextHandle, fileCount, history>>
    BY <1>4 DEF Truncate
  <2> HIDE DEF i
  <2> QED
    BY <1>1, <1>2, <2>1, ResizeInv
<1> QED
  BY <1>3, <1>4

\* close: the handle is retired, and an inode without a name goes with the last.
LEMMA CloseInv ==
  ASSUME QuotaAssumption, MemInv, NEW h \in DOMAIN handles, Close(h)
  PROVE  MemInv'
<1> DEFINE i == handles[h].inode
           node == [files[i] EXCEPT !.open = @ - 1]
<1>1. /\ handles' = Without(handles, h) /\ Release(i, node)
      /\ retired' = retired \union {h}
      /\ UNCHANGED <<dirs, entries, nextInode, nextHandle, saved>>
  BY DEF Close, tree
<1>2. /\ DOMAIN handles' = DOMAIN handles \ {h} /\ \A g \in DOMAIN handles' : handles'[g] = handles[g]
      /\ handles' \in [DOMAIN handles' -> Handle]
  BY <1>1 DEF Without, Restrict, MemInv, HandlesInv
<1>3. i \in DOMAIN files /\ files[i] \in FileNode
  BY DEF MemInv, HandlesInv, InodesInv
<1>4. files[i].open = Cardinality(HandlesOf(handles, i)) /\ h \in HandlesOf(handles, i)
  BY <1>3 DEF MemInv, HandlesInv, HandlesOf
<1>5. /\ IsFiniteSet(HandlesOf(handles, i)) /\ Cardinality(HandlesOf(handles, i)) \in Nat
      /\ Cardinality(HandlesOf(handles, i)) # 0
  BY <1>4, HandlesFinite, FS_EmptySet, SMTT(30) DEF MemInv
<1>6. Cardinality(HandlesOf(handles, i) \ {h}) = Cardinality(HandlesOf(handles, i)) - 1
  BY <1>4, <1>5, FS_RemoveElement, Zenon
<1>7. files[i].open - 1 \in Nat
  BY <1>4, <1>5
<1> HIDE DEF i
<1>8. node \in FileNode /\ node.len = files[i].len /\ node.links = files[i].links /\ node.open = files[i].open - 1
  BY <1>3, <1>7 DEF FileNode
<1> HIDE DEF node
<1>9. HandlesOf(handles', i) = HandlesOf(handles, i) \ {h}
  BY <1>2 DEF HandlesOf
<1>10. \A j : j # i => HandlesOf(handles', j) = HandlesOf(handles, j)
  BY <1>2 DEF HandlesOf, i
<1>11. node.open = Cardinality(HandlesOf(handles', i))
  BY <1>4, <1>6, <1>8, <1>9
<1>12. /\ DOMAIN files' = IF node.links > 0 \/ node.open > 0 THEN DOMAIN files ELSE DOMAIN files \ {i}
       /\ files' \in [DOMAIN files' -> FileNode]
       /\ \A j \in DOMAIN files' : files'[j] = IF j = i THEN node ELSE files[j]
  BY <1>1, <1>3, <1>8, ReleaseTable DEF MemInv
<1>13. DOMAIN files \ {i} \subseteq DOMAIN files' /\ DOMAIN files' \subseteq DOMAIN files
  BY <1>12
<1>14. i \in DOMAIN files' <=> (files[i].links > 0 \/ node.open > 0)
  BY <1>3, <1>8, <1>12
<1>15. NamesInv' /\ SavedInv'
  BY <1>1 DEF MemInv, NamesInv, SavedInv
<1>16. InodesInv'
  <2>1. i \in Range(entries) => i \in DOMAIN files'
    BY <1>3, <1>14 DEF MemInv, InodesInv
  <2>2. Range(entries) \subseteq DOMAIN files'
    BY <1>13, <2>1 DEF MemInv, InodesInv
  <2>3. \A j \in DOMAIN files' : files'[j].links = files[j].links
    BY <1>8, <1>12
  <2> QED
    BY <1>1, <1>12, <1>13, <2>2, <2>3, SMTT(30) DEF MemInv, InodesInv
<1>17. HandlesInv'
  <2>1. /\ nextHandle' \in Nat \ {0} /\ DOMAIN handles' \union retired' \subseteq 1..(nextHandle' - 1)
        /\ RetiredStayClosed'
    BY <1>1, <1>2, SMTT(30) DEF MemInv, HandlesInv, RetiredStayClosed
  <2>2. ASSUME NEW g \in DOMAIN handles'
        PROVE  handles'[g].inode \in DOMAIN files'
    <3>1. handles'[g] = handles[g] /\ handles[g].inode \in DOMAIN files
      BY <1>2, SMTT(30) DEF MemInv, HandlesInv
    <3>2. CASE handles[g].inode = i
      <4>1. HandlesOf(handles', i) # {}
        BY <3>1, <3>2 DEF HandlesOf
      <4>2. IsFiniteSet(HandlesOf(handles', i))
        BY <1>5, <1>9, FS_Subset
      <4>3. Cardinality(HandlesOf(handles', i)) # 0
        BY <4>1, <4>2, FS_EmptySet
      <4> QED
        BY <1>7, <1>8, <1>11, <1>14, <3>1, <3>2, <4>3, SMTT(30)
    <3>3. CASE handles[g].inode # i
      BY <1>13, <3>1, <3>3
    <3> QED
      BY <3>2, <3>3
  <2>3. ASSUME NEW j \in DOMAIN files'
        PROVE  /\ files'[j].open = Cardinality(HandlesOf(handles', j))
               /\ files'[j].links + files'[j].open > 0
    <3>1. CASE j = i
      <4>1. files'[j] = node /\ files[i].links \in Nat /\ (files[i].links > 0 \/ node.open > 0)
        BY <1>3, <1>12, <1>14, <3>1, SMTT(30) DEF FileNode
      <4> QED
        BY <1>7, <1>8, <1>11, <3>1, <4>1, SMTT(30)
    <3>2. CASE j # i
      BY <1>10, <1>12, <1>13, <3>2, SMTT(30) DEF MemInv, HandlesInv
    <3> QED
      BY <3>1, <3>2, SMTT(30)
  <2> QED
    BY <1>2, <2>1, <2>2, <2>3, SMTT(30) DEF HandlesInv
<1>18. Summed(dirs, files', usedBytes', fileCount')
  BY <1>1, <1>3, <1>8, ReleaseSums, SMTT(30) DEF MemInv, NamesInv, Named
<1> QED
  BY <1>1, <1>15, <1>16, <1>17, <1>18 DEF MemInv, SumsInv

\* What snapshot keeps is a file system of its own, within the quota: it
\* drops files, and never adds one.
LEMMA SnapshotRestorable ==
  ASSUME QuotaAssumption, MemInv
  PROVE  Restorable(SnapshotState)
<1> DEFINE size == [i \in Range(entries) |-> files[i].len]
<1>1. Range(entries) \subseteq DOMAIN files /\ IsFiniteSet(DOMAIN files) /\ IsTable(Lens(files))
  BY FilesFinite DEF MemInv, InodesInv
<1>2. size = Restrict(Lens(files), Range(entries)) /\ DOMAIN size = Range(entries)
  BY <1>1 DEF Lens, Restrict
<1>3. DOMAIN Lens(files) = DOMAIN files
  BY DEF Lens
<1>4. size \in [Range(entries) -> Nat] /\ \A i \in Range(entries) : size[i] <= MaxFileSize
  BY <1>1, SMTT(30) DEF MemInv, InodesInv, FileNode, SumsInv, Summed
<1>5. \A p \in DOMAIN entries : size[entries[p]] = files[entries[p]].len
  BY SMTT(30) DEF Range
<1> HIDE DEF size
<1>6. IsTable(size) /\ TotalLen(size) <= TotalLen(Lens(files))
  BY <1>1, <1>2, <1>3, TotalPart
<1>7. entries \in Bijection(DOMAIN entries, DOMAIN size)
  BY <1>2 DEF MemInv, NamesInv, Named, Range, Bijection, Injection, Surjection, IsInjective
<1>8. TotalLen([p \in DOMAIN entries |-> files[entries[p]].len]) = TotalLen(size)
  <2>1. [p \in DOMAIN entries |-> files[entries[p]].len] = [p \in DOMAIN entries |-> size[entries[p]]]
    BY <1>5
  <2> QED
    BY <1>6, <1>7, <2>1, TotalRenamed
<1>9. Cardinality(DOMAIN entries) = Cardinality(DOMAIN size)
  <2>1. IsFiniteSet(DOMAIN entries) /\ ExistsBijection(DOMAIN entries, DOMAIN size)
    BY <1>7 DEF MemInv, NamesInv, Named, ExistsBijection
  <2> QED
    BY <2>1, FS_Bijection
<1>10. /\ Cardinality(DOMAIN size) <= Cardinality(DOMAIN files)
       /\ Cardinality(DOMAIN size) \in Nat /\ Cardinality(DOMAIN files) \in Nat /\ Cardinality(dirs) \in Nat
  BY <1>1, <1>2, FS_Subset, FS_CardinalityType, SMTT(30) DEF MemInv, NamesInv, Named
<1>11. TotalLen(size) \in Nat /\ TotalLen(Lens(files)) \in Nat /\ MaxBytes \in Nat /\ MaxFiles \in Nat
  BY <1>1, <1>6, TotalIsCells, SMTT(30) DEF QuotaAssumption
<1>12. TotalLen(size) <= MaxBytes /\ Cardinality(dirs) + Cardinality(DOMAIN size) <= MaxFiles
  BY <1>6, <1>10, <1>11, SMTT(30) DEF MemInv, SumsInv, Summed
<1>13. SnapshotState = [dirs |-> dirs, entries |-> entries, nextInode |-> nextInode, size |-> size,
                        usedBytes |-> TotalLen(size),
                        fileCount |-> Cardinality(dirs) + Cardinality(DOMAIN size)]
  BY <1>8, <1>9 DEF SnapshotState, size
<1> QED
  BY <1>1, <1>2, <1>4, <1>12, <1>13, SMTT(30) DEF Restorable, FitsQuota, MemInv, NamesInv, InodesInv

\* snapshot: what is saved refers to no handle.
LEMMA SnapshotInv ==
  ASSUME QuotaAssumption, MemInv, NEW s \in Snapshots, Snapshot(s)
  PROVE  MemInv'
<1>1. UNCHANGED <<dirs, entries, files, nextInode, handles, nextHandle, usedBytes, fileCount, retired>>
  BY DEF Snapshot, tree, totals
<1>2. NamesInv' /\ InodesInv' /\ HandlesInv' /\ SumsInv'
  BY <1>1 DEF MemInv, NamesInv, InodesInv, HandlesInv, RetiredStayClosed, SumsInv
<1>3. saved' = [saved EXCEPT ![s] = SnapshotState]
  BY DEF Snapshot
<1>4. Restorable(SnapshotState)
  BY SnapshotRestorable
<1> HIDE DEF SnapshotState
<1>5. /\ saved' = [t \in Snapshots |-> saved'[t]]
      /\ \A t \in Snapshots : saved'[t] = IF t = s THEN SnapshotState ELSE saved[t]
  BY <1>3 DEF MemInv, SavedInv
<1>6. SavedInv'
  BY <1>4, <1>5 DEF MemInv, SavedInv
<1> QED
  BY <1>2, <1>6 DEF MemInv

\* The table that from_snapshot makes of the sizes in a snapshot.
LEMMA FreshTable ==
  ASSUME NEW size, NEW table, size \in [DOMAIN size -> Nat],
         table = [i \in DOMAIN size |-> [len |-> size[i], links |-> 1, open |-> 0]]
  PROVE  /\ DOMAIN table = DOMAIN size /\ table \in [DOMAIN table -> FileNode]
         /\ \A i \in DOMAIN table : table[i].len = size[i] /\ table[i].links = 1 /\ table[i].open = 0
<1>1. DOMAIN table = DOMAIN size
  OBVIOUS
<1>2. \A i \in DOMAIN size : size[i] \in Nat /\ table[i] = [len |-> size[i], links |-> 1, open |-> 0]
  OBVIOUS
<1>3. \A i \in DOMAIN table : table[i] \in FileNode
  BY <1>1, <1>2 DEF FileNode
<1>4. table = [i \in DOMAIN table |-> table[i]]
  BY <1>1, <1>2, SMTT(30)
<1> QED
  BY <1>1, <1>2, <1>3, <1>4

\* from_snapshot gives a file system without handles, whatever came before.
LEMMA FromSnapshotInv ==
  ASSUME QuotaAssumption, MemInv, NEW s \in Snapshots, saved[s] # NoSnapshot,
         NEW next \in Nat \ {0}, FromSnapshot(saved[s], next),
         retired' \subseteq 1..(next - 1), UNCHANGED saved
  PROVE  MemInv'
<1> DEFINE state == saved[s]
<1>1. Restorable(state)
  BY DEF MemInv, SavedInv
<1>2. /\ dirs' = state.dirs /\ entries' = state.entries /\ nextInode' = state.nextInode
      /\ usedBytes' = state.usedBytes /\ fileCount' = state.fileCount
      /\ handles' = <<>> /\ nextHandle' = next
      /\ files' = [i \in DOMAIN state.size |-> [len |-> state.size[i], links |-> 1, open |-> 0]]
  BY SMTT(30) DEF FromSnapshot
<1> HIDE DEF state
<1>3. NamesInv'
  BY <1>1, <1>2, ZenonT(30) DEF NamesInv, Restorable
<1>4. /\ DOMAIN files' = DOMAIN state.size /\ files' \in [DOMAIN files' -> FileNode]
      /\ \A i \in DOMAIN files' : files'[i].len = state.size[i] /\ files'[i].links = 1 /\ files'[i].open = 0
  BY <1>1, <1>2, FreshTable, ZenonT(30) DEF Restorable
<1>5. InodesInv'
  BY <1>1, <1>2, <1>4, Zenon DEF InodesInv, Restorable
<1>6. DOMAIN handles' = {} /\ handles' = [h \in {} |-> handles'[h]]
  BY <1>2
<1>7. \A i : Cardinality(HandlesOf(handles', i)) = 0
  <2> TAKE i
  <2>1. HandlesOf(handles', i) = {}
    BY <1>6 DEF HandlesOf
  <2> QED
    BY <2>1, FS_EmptySet
<1>8. handles' \in [DOMAIN handles' -> Handle]
  BY <1>6, SMTT(30)
<1>9. HandlesInv'
  BY <1>2, <1>4, <1>6, <1>7, <1>8, SMTT(30) DEF HandlesInv, RetiredStayClosed
<1>10. SumsInv'
  <2>1. Lens(files') = state.size
    BY <1>1, <1>4 DEF Lens, Restorable
  <2> QED
    BY <1>1, <1>2, <1>4, <2>1, SMTT(30) DEF SumsInv, Summed, Restorable, FitsQuota
<1>11. SavedInv'
  BY DEF MemInv, SavedInv
<1> QED
  BY <1>3, <1>5, <1>9, <1>10, <1>11, SMTT(30) DEF MemInv

\* restore and branch: every handle is retired, none is used again.
LEMMA RestoreInv ==
  ASSUME QuotaAssumption, MemInv, NEW s \in Snapshots, Restore(s) \/ Branch(s)
  PROVE  MemInv'
<1>1. saved[s] # NoSnapshot /\ UNCHANGED saved
  BY DEF Restore, Branch
<1>2. nextHandle \in Nat \ {0} /\ DOMAIN handles \union retired \subseteq 1..(nextHandle - 1)
  BY DEF MemInv, HandlesInv
<1>3. CASE Restore(s)
  <2>1. FromSnapshot(saved[s], nextHandle) /\ retired' \subseteq 1..(nextHandle - 1)
    BY <1>2, <1>3 DEF Restore
  <2> QED
    BY <1>1, <1>2, <2>1, FromSnapshotInv
<1>4. CASE Branch(s)
  <2>1. FromSnapshot(saved[s], 1) /\ retired' \subseteq 1..(1 - 1) /\ 1 \in Nat \ {0}
    BY <1>4 DEF Branch
  <2> QED
    BY <1>1, <2>1, FromSnapshotInv, SMTT(30)
<1> QED
  BY <1>3, <1>4

\* An empty file system satisfies the invariant, ...
LEMMA InitInv ==
  ASSUME QuotaAssumption, Init
  PROVE  MemInv
<1>1. /\ dirs = {} /\ DOMAIN entries = {} /\ DOMAIN files = {} /\ DOMAIN handles = {} /\ retired = {}
      /\ nextInode = 1 /\ nextHandle = 1 /\ usedBytes = 0 /\ fileCount = 0
      /\ entries = [p \in {} |-> entries[p]]
      /\ files = [i \in {} |-> files[i]] /\ handles = [h \in {} |-> handles[h]]
      /\ saved = [s \in Snapshots |-> NoSnapshot]
  BY DEF Init
<1>2. IsFiniteSet({}) /\ Cardinality({}) = 0
  BY FS_EmptySet
<1>3. Range(entries) = {}
  BY <1>1 DEF Range
<1>4. NamesInv
  BY <1>1, <1>2 DEF NamesInv, Named, Tree
<1>5. InodesInv
  BY <1>1, <1>3 DEF InodesInv
<1>6. HandlesInv
  BY <1>1 DEF HandlesInv, RetiredStayClosed
<1>7. TotalLen(Lens(files)) = 0
  <2>1. IsTable(Lens(files)) /\ DOMAIN Lens(files) = {}
    BY <1>1, <1>2 DEF IsTable, Lens
  <2>2. Cells(Lens(files)) = {}
    BY <2>1, CellOf
  <2> QED
    BY <1>2, <2>1, <2>2, TotalIsCells, Zenon
<1>8. SumsInv
  BY <1>1, <1>2, <1>7 DEF SumsInv, Summed, QuotaAssumption
<1>9. SavedInv
  BY <1>1 DEF SavedInv
<1> QED
  BY <1>4, <1>5, <1>6, <1>8, <1>9 DEF MemInv

\* ... and every operation keeps it.
LEMMA StepInv ==
  ASSUME QuotaAssumption, MemInv, [Next]_vars
  PROVE  MemInv'
<1>1. ASSUME NEW p \in Paths, Mkdir(p) \/ Unlink(p) \/ Rmdir(p)
      PROVE  MemInv'
  BY <1>1, MkdirInv, UnlinkInv, RmdirInv
<1>2. ASSUME NEW from \in Paths, NEW to \in Paths, Rename(from, to)
      PROVE  MemInv'
  BY <1>2, RenameInv
<1>3. ASSUME NEW p \in Paths, NEW mode \in Modes, OpenExisting(p, mode) \/ OpenCreate(p, mode)
      PROVE  MemInv'
  BY <1>3, OpenExistingInv, OpenCreateInv
<1>4. ASSUME NEW h \in DOMAIN handles, NEW offset \in Offsets, NEW n \in Offsets,
             WriteAt(h, offset, n) \/ Truncate(h, n)
      PROVE  MemInv'
  BY <1>4, WriteInv
<1>5. ASSUME NEW h \in DOMAIN handles, Close(h)
      PROVE  MemInv'
  BY <1>5, CloseInv
<1>6. ASSUME NEW s \in Snapshots, Snapshot(s) \/ Restore(s) \/ Branch(s)
      PROVE  MemInv'
  BY <1>6, SnapshotInv, RestoreInv, SMTT(30)
<1>7. CASE UNCHANGED vars
  BY <1>7 DEF vars, tree, totals, history, MemInv, NamesInv, InodesInv, HandlesInv, RetiredStayClosed,
              SumsInv, SavedInv
<1> QED
  BY <1>1, <1>2, <1>3, <1>4, <1>5, <1>6, <1>7, SMTT(30) DEF Next

\* The invariant holds in every reachable state of the file system, for every
\* set of names, every depth and every quota.
THEOREM MemInvariant ==
  ASSUME QuotaAssumption
  PROVE  Spec => []MemInv
<1>1. Init => MemInv
  BY InitInv
<1>2. MemInv /\ [Next]_vars => MemInv'
  BY StepInv
<1> QED
  BY <1>1, <1>2, PTL DEF Spec

\* Every variable has its type in every reachable state; none of the
\* unsigned counts of mem.rs ever wraps below zero.
THEOREM MemTypes ==
  ASSUME QuotaAssumption
  PROVE  Spec => []TypeOK
<1>1. ASSUME MemInv
      PROVE  TypeOK
  <2>1. dirs \subseteq Paths /\ DOMAIN entries \subseteq Paths
    BY <1>1 DEF MemInv, NamesInv, Named, Tree
  <2>2. DOMAIN files \subseteq Nat /\ Range(entries) \subseteq Nat /\ nextInode \in Nat
    BY <1>1 DEF MemInv, InodesInv
  <2>3. Range(files) \subseteq FileNode
    BY <1>1 DEF MemInv, InodesInv, Range
  <2>4. DOMAIN handles \subseteq Nat /\ Range(handles) \subseteq Handle /\ nextHandle \in Nat
    BY <1>1, SMTT(30) DEF MemInv, HandlesInv, Range
  <2>5. usedBytes \in Nat
    BY <1>1, FilesFinite, TotalIsCells, SMTT(30) DEF MemInv, SumsInv, Summed
  <2>6. fileCount \in Nat
    <3>1. Cardinality(dirs) \in Nat /\ Cardinality(DOMAIN files) \in Nat
      BY <1>1, FilesFinite, FS_CardinalityType, SMTT(30) DEF MemInv, NamesInv, Named
    <3> QED
      BY <1>1, <3>1 DEF MemInv, SumsInv, Summed
  <2> QED
    BY <2>1, <2>2, <2>3, <2>4, <2>5, <2>6, SMTT(30) DEF TypeOK
<1> QED
  BY <1>1, MemInvariant, PTL

\* used_bytes and file_count are exact and within the quota at every moment,
\* and every snapshot can be restored under the quota it was taken under.
THEOREM TotalsHold ==
  ASSUME QuotaAssumption
  PROVE  Spec => []TotalsWithinQuota
<1>1. ASSUME MemInv
      PROVE  TotalsWithinQuota
  <2>1. TotalsExact
    BY <1>1, SMTT(30) DEF MemInv, SumsInv, Summed, Lens, TotalsExact
  <2>2. WithinQuota
    BY <1>1, SMTT(30) DEF MemInv, SumsInv, Summed, SavedInv, Restorable, WithinQuota
  <2> QED
    BY <2>1, <2>2 DEF TotalsWithinQuota
<1> QED
  BY <1>1, MemInvariant, PTL

\* The names always form one tree, and links and open_handles count the names
\* and the handles of each file in the table, no more and no less.
THEOREM TreeHolds ==
  ASSUME QuotaAssumption
  PROVE  Spec => []TreeSound
<1>1. ASSUME MemInv
      PROVE  TreeSound
  <2>1. ASSUME NEW i \in DOMAIN files
        PROVE  files[i].links = Cardinality({p \in DOMAIN entries : entries[p] = i})
    <3>1. CASE i \in Range(entries)
      <4>1. PICK q \in DOMAIN entries : entries[q] = i
        BY <3>1 DEF Range
      <4>2. {p \in DOMAIN entries : entries[p] = i} = {q}
        BY <1>1, <4>1 DEF MemInv, NamesInv, Named
      <4>3. Cardinality({q}) = 1
        BY FS_Singleton, SMTT(30)
      <4> QED
        BY <1>1, <3>1, <4>2, <4>3, Zenon DEF MemInv, InodesInv
    <3>2. CASE i \notin Range(entries)
      <4>1. {p \in DOMAIN entries : entries[p] = i} = {}
        BY <3>2, SMTT(30) DEF Range
      <4> QED
        BY <1>1, <3>2, <4>1, FS_EmptySet, SMTT(30) DEF MemInv, InodesInv
    <3> QED
      BY <3>1, <3>2
  <2>2. References
    BY <1>1, <2>1, Zenon DEF MemInv, InodesInv, HandlesInv, HandlesOf, References
  <2>3. OneTree
    <3>1. Tree(dirs, DOMAIN entries) /\ MaxDepth \in Nat
      BY <1>1 DEF MemInv, NamesInv, Named, QuotaAssumption
    <3>2. ASSUME NEW p \in dirs \union DOMAIN entries
          PROVE  ParentIsDir(p) /\ Len(p) <= MaxDepth
      <4>1. p \in Paths
        BY <3>1 DEF Tree
      <4> QED
        BY <3>1, <4>1, ParentOfEntry, PathIsSeq DEF ParentIsDir
    <3> QED
      BY <3>1, <3>2 DEF OneTree, Tree
  <2> QED
    BY <2>2, <2>3 DEF TreeSound
<1> QED
  BY <1>1, MemInvariant, PTL

\* A handle number that close or restore took back is never handed out again.
THEOREM HandlesStayClosed ==
  ASSUME QuotaAssumption
  PROVE  Spec => []RetiredStayClosed
<1>1. MemInv => RetiredStayClosed
  BY DEF MemInv, HandlesInv
<1> QED
  BY <1>1, MemInvariant, PTL
=============================================================================
