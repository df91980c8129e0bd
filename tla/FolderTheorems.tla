---------------------------- MODULE FolderTheorems ---------------------------
(***************************************************************************)
(* Paths: prefixes, cuts, and where a copied folder puts what is below it. *)
(* Trees: sets of paths that hold all the folders on the way to each.      *)
(***************************************************************************)
EXTENDS Folders, FunctionTheorems, SequenceTheorems, FiniteSetTheorems, WellFoundedInduction, TLAPS

\* A path is a function on 1..Len(p).
LEMMA PathIs ==
  ASSUME NEW p, IsPath(p)
  PROVE  Len(p) \in Nat /\ DOMAIN p = 1..Len(p) /\ \A i \in 1..Len(p) : p[i] \in Range(p)
BY DEF IsPath

\* All sequences are paths.
LEMMA SeqIsPath ==
  ASSUME NEW S, NEW p \in Seq(S)
  PROVE  IsPath(p)
<1>1. Len(p) \in Nat /\ p \in [1..Len(p) -> S]
  OBVIOUS
<1>2. p \in [1..Len(p) -> Range(p)]
  BY <1>1 DEF Range
<1>3. QED BY <1>1, <1>2, SeqDef DEF IsPath

\* Two paths are sequences of names of one set.
LEMMA TwoPaths ==
  ASSUME NEW p, NEW q, IsPath(p), IsPath(q)
  PROVE  \E S : p \in Seq(S) /\ q \in Seq(S)
<1> DEFINE S == Range(p) \cup Range(q)
<1>1. p \in Seq(Range(p)) /\ q \in Seq(Range(q)) /\ Range(p) \subseteq S /\ Range(q) \subseteq S
  BY DEF IsPath
<1> HIDE DEF S
<1>2. p \in Seq(S) /\ q \in Seq(S)
  BY <1>1, SeqMonotonic
<1>3. QED BY <1>2

\* Paths with the same names are the same.
LEMMA SamePath ==
  ASSUME NEW p, NEW q, IsPath(p), IsPath(q), Len(p) = Len(q), \A i \in 1..Len(p) : p[i] = q[i]
  PROVE  p = q
<1>1. PICK S : p \in Seq(S) /\ q \in Seq(S)
  BY TwoPaths
<1>2. QED BY <1>1, SeqEqual

\* The first n names of a path.
LEMMA CutIs ==
  ASSUME NEW q, IsPath(q), NEW n \in 0..Len(q)
  PROVE  /\ IsPath(SubSeq(q, 1, n)) /\ Len(SubSeq(q, 1, n)) = n
         /\ \A i \in 1..n : SubSeq(q, 1, n)[i] = q[i]
<1> DEFINE S == Range(q)
<1>1. q \in Seq(S) /\ n \in Nat /\ n <= Len(q) /\ \A i \in 1..n : q[i] \in S
  BY PathIs DEF IsPath
<1> HIDE DEF S
<1>2. /\ SubSeq(q, 1, n) \in Seq(S) /\ Len(SubSeq(q, 1, n)) = n
      /\ \A i \in 1..n : SubSeq(q, 1, n)[i] = q[i]
  BY <1>1, SubSeqProperties
<1>3. QED BY <1>2, SeqIsPath

\* What begins with p.
LEMMA PrefixIs ==
  ASSUME NEW p, NEW q, IsPath(p), IsPath(q)
  PROVE  IsPrefix(p, q) <=> Len(p) <= Len(q) /\ \A i \in 1..Len(p) : q[i] = p[i]
<1>1. Len(p) \in Nat /\ Len(q) \in Nat /\ Len(p) \in 0..Len(p)
  BY PathIs
<1>2. SubSeq(p, 1, Len(p)) = p
  BY <1>1, CutIs, SamePath
<1>3. ASSUME Len(p) <= Len(q)
      PROVE  SubSeq(q, 1, Len(p)) = p <=> \A i \in 1..Len(p) : q[i] = p[i]
  <2>1. Len(p) \in 0..Len(q)
    BY <1>1, <1>3
  <2>2. /\ IsPath(SubSeq(q, 1, Len(p))) /\ Len(SubSeq(q, 1, Len(p))) = Len(p)
        /\ \A i \in 1..Len(p) : SubSeq(q, 1, Len(p))[i] = q[i]
    BY <2>1, CutIs
  <2>3. QED BY <2>2, SamePath
<1>4. QED BY <1>2, <1>3 DEF IsPrefix

\* A path begins with each of its cuts.
LEMMA CutIsPrefix ==
  ASSUME NEW q, IsPath(q), NEW n \in 0..Len(q)
  PROVE  IsPrefix(SubSeq(q, 1, n), q)
<1>1. n <= Len(q)
  BY PathIs
<1>2. QED BY <1>1, CutIs, PrefixIs

\* Prefixes are cuts.
LEMMA PrefixIsCut ==
  ASSUME NEW p, NEW q, IsPath(p), IsPath(q), IsPrefix(p, q)
  PROVE  Len(p) \in 0..Len(q) /\ p = SubSeq(q, 1, Len(p))
<1>1. Len(p) \in 0..Len(q) /\ \A i \in 1..Len(p) : q[i] = p[i]
  BY PrefixIs, PathIs
<1>2. /\ IsPath(SubSeq(q, 1, Len(p))) /\ Len(SubSeq(q, 1, Len(p))) = Len(p)
      /\ \A i \in 1..Len(p) : SubSeq(q, 1, Len(p))[i] = p[i]
  BY <1>1, CutIs
<1>3. QED BY <1>1, <1>2, SamePath

\* A path of the same length that begins alike is the same.
LEMMA PrefixSameLength ==
  ASSUME NEW p, NEW q, IsPath(p), IsPath(q), IsPrefix(p, q), Len(p) = Len(q)
  PROVE  p = q
BY PrefixIs, SamePath

\* The root is the path of no names.
LEMMA RootIs == IsPath(Root) /\ Len(Root) = 0
BY SeqIsPath, EmptySeq DEF Root

\* Every path begins with itself and with the root.
LEMMA PrefixReflexive ==
  ASSUME NEW p, IsPath(p)
  PROVE  IsPrefix(p, p) /\ IsPrefix(Root, p) /\ IsPath(Root)
<1>1. IsPath(Root) /\ Len(Root) = 0
  BY SeqIsPath, EmptySeq DEF Root
<1>2. QED BY <1>1, PathIs, PrefixIs

\* A prefix of a prefix.
LEMMA PrefixTransitive ==
  ASSUME NEW p, NEW q, NEW r, IsPath(p), IsPath(q), IsPath(r), IsPrefix(p, q), IsPrefix(q, r)
  PROVE  IsPrefix(p, r)
<1>1. /\ Len(p) \in Nat /\ Len(q) \in Nat /\ Len(r) \in Nat
      /\ Len(p) <= Len(q) /\ \A i \in 1..Len(p) : q[i] = p[i]
      /\ Len(q) <= Len(r) /\ \A i \in 1..Len(q) : r[i] = q[i]
  BY PathIs, PrefixIs
<1>2. Len(p) <= Len(r) /\ \A i \in 1..Len(p) : r[i] = p[i]
  BY <1>1
<1>3. QED BY <1>2, PrefixIs

\* Of two prefixes of a path one is a prefix of the other.
LEMMA PrefixesCompare ==
  ASSUME NEW p, NEW q, NEW r, IsPath(p), IsPath(q), IsPath(r), IsPrefix(p, r), IsPrefix(q, r)
  PROVE  IsPrefix(p, q) \/ IsPrefix(q, p)
<1>1. /\ Len(p) \in Nat /\ Len(q) \in Nat
      /\ \A i \in 1..Len(p) : r[i] = p[i]
      /\ \A i \in 1..Len(q) : r[i] = q[i]
  BY PathIs, PrefixIs
<1>2. CASE Len(p) <= Len(q)
  <2>1. \A i \in 1..Len(p) : q[i] = p[i]
    BY <1>1, <1>2
  <2>2. QED BY <1>2, <2>1, PrefixIs
<1>3. CASE Len(q) <= Len(p)
  <2>1. \A i \in 1..Len(q) : p[i] = q[i]
    BY <1>1, <1>3
  <2>2. QED BY <1>3, <2>1, PrefixIs
<1>4. QED BY <1>1, <1>2, <1>3

\* The first of the first names.
LEMMA CutOfCut ==
  ASSUME NEW q, IsPath(q), NEW n \in 0..Len(q), NEW m \in 0..n
  PROVE  SubSeq(SubSeq(q, 1, n), 1, m) = SubSeq(q, 1, m)
<1> DEFINE cut == SubSeq(q, 1, n)
<1>1. m \in 0..Len(q) /\ \A i \in 1..m : i \in 1..n
  BY PathIs
<1>2. IsPath(cut) /\ m \in 0..Len(cut) /\ \A i \in 1..n : cut[i] = q[i]
  BY CutIs
<1> HIDE DEF cut
<1>3. QED BY <1>1, <1>2, CutIs, SamePath DEF cut

\* A function on the first numbers is a sequence.
LEMMA FunctionIsPath ==
  ASSUME NEW k \in Nat, NEW f, f = [i \in 1..k |-> f[i]]
  PROVE  IsPath(f) /\ Len(f) = k
<1> DEFINE S == Range(f)
<1>1. \A i \in 1..k : f[i] \in S
  BY DEF Range
<1> HIDE DEF S
<1>2. f \in [1..k -> S]
  BY <1>1
<1>3. f \in Seq(S)
  BY <1>2, SeqDef
<1>4. Len(f) = k
  BY <1>2, <1>3
<1>5. QED BY <1>3, <1>4, SeqIsPath

\* A name after a path.
LEMMA AppendIs ==
  ASSUME NEW p, IsPath(p), NEW x
  PROVE  /\ IsPath(Append(p, x)) /\ Len(Append(p, x)) = Len(p) + 1
         /\ \A i \in 1..Len(p) : Append(p, x)[i] = p[i]
         /\ Append(p, x)[Len(p) + 1] = x
         /\ Append(p, x) # Root
<1> DEFINE S == Range(p) \cup {x}
           more == Append(p, x)
<1>1. p \in Seq(S) /\ x \in S
  BY SeqMonotonic DEF IsPath
<1> HIDE DEF S
<1>2. more \in Seq(S) /\ Len(more) = Len(p) + 1
  BY <1>1, AppendProperties
<1>3. /\ \A i \in 1..Len(p) : more[i] = p[i]
      /\ more[Len(p) + 1] = x
  BY <1>1, AppendProperties
<1>4. IsPath(more) /\ Len(p) \in Nat
  BY <1>2, PathIs, SeqIsPath
<1> HIDE DEF more
<1>5. more # Root
  BY <1>2, <1>4, EmptySeq DEF Root
<1>6. /\ IsPath(more) /\ Len(more) = Len(p) + 1 /\ more # Root
      /\ \A i \in 1..Len(p) : more[i] = p[i]
      /\ more[Len(p) + 1] = x
  BY <1>2, <1>3, <1>4, <1>5
<1>7. QED BY <1>6 DEF more

\* The folder of a path.
LEMMA FrontIs ==
  ASSUME NEW p, IsPath(p), p # Root
  PROVE  /\ Len(p) \in Nat \ {0}
         /\ IsPath(Front(p)) /\ Len(Front(p)) = Len(p) - 1
         /\ IsPrefix(Front(p), p)
         /\ \A i \in 1..(Len(p) - 1) : Front(p)[i] = p[i]
<1>1. Len(p) \in Nat \ {0}
  BY EmptySeq DEF IsPath, Root
<1>2. Len(p) - 1 \in 0..Len(p)
  BY <1>1
<1>3. QED BY <1>1, <1>2, CutIs, CutIsPrefix DEF Front

-----------------------------------------------------------------------------
(***************************************************************************)
(* Copies.                                                                 *)
(***************************************************************************)

\* A path below a path.
LEMMA JoinIs ==
  ASSUME NEW p, NEW r, IsPath(p), IsPath(r)
  PROVE  /\ IsPath(p \o r) /\ Len(p \o r) = Len(p) + Len(r)
         /\ \A i \in 1..Len(p) : (p \o r)[i] = p[i]
         /\ \A i \in 1..Len(r) : (p \o r)[Len(p) + i] = r[i]
         /\ IsPrefix(p, p \o r)
<1>1. PICK S : p \in Seq(S) /\ r \in Seq(S)
  BY TwoPaths
<1> DEFINE to == p \o r
<1>2. /\ to \in Seq(S) /\ Len(to) = Len(p) + Len(r)
      /\ \A i \in 1..(Len(p) + Len(r)) : to[i] = IF i <= Len(p) THEN p[i] ELSE r[i - Len(p)]
  BY <1>1, ConcatProperties
<1>3. IsPath(to)
  BY <1>2, SeqIsPath
<1>4. Len(p) \in Nat /\ Len(r) \in Nat
  BY PathIs
<1> HIDE DEF to
<1>5. \A i \in 1..Len(p) : to[i] = p[i]
  BY <1>2, <1>4
<1>6. \A i \in 1..Len(r) : to[Len(p) + i] = r[i]
  <2>1. TAKE i \in 1..Len(r)
  <2>2. Len(p) + i \in 1..(Len(p) + Len(r)) /\ ~(Len(p) + i <= Len(p)) /\ (Len(p) + i) - Len(p) = i
    BY <1>4
  <2>3. QED BY <1>2, <2>2
<1>7. IsPrefix(p, to)
  BY <1>2, <1>3, <1>4, <1>5, PrefixIs
<1>8. QED BY <1>2, <1>3, <1>5, <1>6, <1>7 DEF to

\* The names of a path after the first n.
LEMMA RestIs ==
  ASSUME NEW q, IsPath(q), NEW n \in 0..Len(q)
  PROVE  /\ IsPath(SubSeq(q, n + 1, Len(q))) /\ Len(SubSeq(q, n + 1, Len(q))) = Len(q) - n
         /\ \A i \in 1..(Len(q) - n) : SubSeq(q, n + 1, Len(q))[i] = q[n + i]
<1> DEFINE S == Range(q)
           rest == SubSeq(q, n + 1, Len(q))
<1>1. /\ q \in Seq(S) /\ Len(q) \in Nat /\ n \in Nat /\ n <= Len(q)
      /\ \A i \in (n + 1)..Len(q) : q[i] \in S
  BY PathIs DEF IsPath
<1> HIDE DEF S
<1>2. /\ rest \in Seq(S)
      /\ Len(rest) = IF n + 1 <= Len(q) THEN Len(q) - (n + 1) + 1 ELSE 0
      /\ \A i \in 1..(Len(q) - (n + 1) + 1) : rest[i] = q[(n + 1) + i - 1]
  BY <1>1, SubSeqProperties
<1> HIDE DEF rest
<1>3. IsPath(rest)
  BY <1>2, SeqIsPath
<1>4. Len(rest) = Len(q) - n
  BY <1>1, <1>2
<1>5. \A i \in 1..(Len(q) - n) : rest[i] = q[n + i]
  BY <1>1, <1>2
<1>6. QED BY <1>3, <1>4, <1>5 DEF rest

\* to stands below target as q does below source.
IsRebased(to, source, target, q) ==
  /\ IsPath(to) /\ IsPrefix(target, to)
  /\ Len(to) = Len(target) + (Len(q) - Len(source))
  /\ \A i \in 1..Len(target) : to[i] = target[i]
  /\ \A i \in 1..(Len(q) - Len(source)) : to[Len(target) + i] = q[Len(source) + i]

\* What is copied stands below the target as before below the source.
LEMMA RebasedIs ==
  ASSUME NEW source, NEW target, NEW q, IsPath(source), IsPath(target), IsPath(q), IsPrefix(source, q)
  PROVE  IsRebased(Rebased(source, target, q), source, target, q)
<1> DEFINE rest == SubSeq(q, Len(source) + 1, Len(q))
           to == target \o rest
<1>1. Len(source) \in 0..Len(q)
  BY PrefixIs, PathIs
<1>2. /\ IsPath(rest) /\ Len(rest) = Len(q) - Len(source)
      /\ \A i \in 1..(Len(q) - Len(source)) : rest[i] = q[Len(source) + i]
  BY <1>1, RestIs
<1> HIDE DEF rest
<1>3. /\ IsPath(to) /\ Len(to) = Len(target) + Len(rest)
      /\ \A i \in 1..Len(target) : to[i] = target[i]
      /\ \A i \in 1..Len(rest) : to[Len(target) + i] = rest[i]
      /\ IsPrefix(target, to)
  BY <1>2, JoinIs
<1>4. to = Rebased(source, target, q)
  BY DEF Rebased, rest
<1> HIDE DEF to
<1>5. QED BY <1>2, <1>3, <1>4 DEF IsRebased

\* Two paths do not get to one place.
LEMMA RebasedOnce ==
  ASSUME NEW source, NEW target, NEW p, NEW q, IsPath(source), IsPath(target), IsPath(p), IsPath(q),
         IsPrefix(source, p), IsPrefix(source, q), Rebased(source, target, p) = Rebased(source, target, q)
  PROVE  p = q
<1> DEFINE to == Rebased(source, target, p)
<1>1. /\ Len(to) = Len(target) + (Len(p) - Len(source)) /\ Len(to) = Len(target) + (Len(q) - Len(source))
      /\ \A i \in 1..(Len(p) - Len(source)) : to[Len(target) + i] = p[Len(source) + i]
      /\ \A i \in 1..(Len(q) - Len(source)) : to[Len(target) + i] = q[Len(source) + i]
  <2>1. IsRebased(to, source, target, p) /\ IsRebased(to, source, target, q)
    BY RebasedIs
  <2> HIDE DEF to
  <2>2. QED BY <2>1 DEF IsRebased
<1>2. /\ Len(source) \in Nat /\ Len(q) \in Nat /\ Len(p) \in Nat /\ Len(target) \in Nat
      /\ Len(source) <= Len(p) /\ \A i \in 1..Len(source) : p[i] = source[i] /\ q[i] = source[i]
  BY PrefixIs, PathIs
<1> HIDE DEF to
<1>3. Len(p) = Len(q)
  BY <1>1, <1>2
<1>4. ASSUME NEW i \in 1..Len(p) PROVE p[i] = q[i]
  <2>1. CASE i <= Len(source)
    BY <1>2, <2>1
  <2>2. CASE i > Len(source)
    <3> DEFINE k == i - Len(source)
    <3>1. k \in 1..(Len(p) - Len(source)) /\ Len(source) + k = i
      BY <1>2, <2>2
    <3> HIDE DEF k
    <3>2. QED BY <1>1, <1>3, <3>1
  <2>3. QED BY <1>2, <2>1, <2>2
<1>5. QED BY <1>3, <1>4, SamePath

\* The source itself gets to the target.
LEMMA RebasedSource ==
  ASSUME NEW source, NEW target, IsPath(source), IsPath(target)
  PROVE  Rebased(source, target, source) = target
<1>1. /\ IsPath(Rebased(source, target, source))
      /\ Len(Rebased(source, target, source)) = Len(target) + (Len(source) - Len(source))
      /\ \A i \in 1..Len(target) : Rebased(source, target, source)[i] = target[i]
  BY PrefixReflexive, RebasedIs DEF IsRebased
<1>2. Len(source) \in Nat /\ Len(target) \in Nat
  BY PathIs
<1>3. Len(Rebased(source, target, source)) = Len(target)
  BY <1>1, <1>2
<1>4. QED BY <1>1, <1>3, SamePath

\* What is copied back stands where it was.
LEMMA RebasedBack ==
  ASSUME NEW source, NEW target, NEW q, IsPath(source), IsPath(target), IsPath(q), IsPrefix(source, q)
  PROVE  Rebased(target, source, Rebased(source, target, q)) = q
<1> DEFINE to == Rebased(source, target, q)
           back == Rebased(target, source, to)
<1>1. /\ IsPath(to) /\ Len(to) = Len(target) + (Len(q) - Len(source)) /\ IsPrefix(target, to)
      /\ \A i \in 1..(Len(q) - Len(source)) : to[Len(target) + i] = q[Len(source) + i]
  <2>1. IsRebased(to, source, target, q)
    BY RebasedIs
  <2> HIDE DEF to
  <2>2. QED BY <2>1 DEF IsRebased
<1> HIDE DEF to
<1>2. /\ IsPath(back) /\ Len(back) = Len(source) + (Len(to) - Len(target))
      /\ \A i \in 1..Len(source) : back[i] = source[i]
      /\ \A i \in 1..(Len(to) - Len(target)) : back[Len(source) + i] = to[Len(target) + i]
  <2>1. IsRebased(back, target, source, to)
    BY <1>1, RebasedIs
  <2> HIDE DEF back
  <2>2. QED BY <2>1 DEF IsRebased
<1> HIDE DEF back
<1>3. /\ Len(source) \in Nat /\ Len(q) \in Nat /\ Len(target) \in Nat
      /\ Len(source) <= Len(q) /\ \A i \in 1..Len(source) : q[i] = source[i]
  BY PrefixIs, PathIs
<1>4. Len(back) = Len(q)
  BY <1>1, <1>2, <1>3
<1>5. ASSUME NEW i \in 1..Len(q) PROVE back[i] = q[i]
  <2>1. CASE i <= Len(source)
    BY <1>2, <1>3, <2>1
  <2>2. CASE i > Len(source)
    <3> DEFINE k == i - Len(source)
    <3>1. k \in 1..(Len(q) - Len(source)) /\ Len(source) + k = i
      BY <1>3, <2>2
    <3>2. k \in 1..(Len(to) - Len(target))
      BY <1>1, <1>3, <3>1
    <3> HIDE DEF k
    <3>3. QED BY <1>1, <1>2, <3>1, <3>2
  <2>3. QED BY <1>3, <2>1, <2>2
<1>6. QED BY <1>2, <1>4, <1>5, SamePath DEF back, to

\* The folders on the way to a copy are those to the target and copies of those
\* below the source.
LEMMA RebasedCut ==
  ASSUME NEW source, NEW target, NEW q, IsPath(source), IsPath(target), IsPath(q), IsPrefix(source, q),
         NEW n \in 0..Len(Rebased(source, target, q))
  PROVE  \/ n \in 0..Len(target) /\ SubSeq(Rebased(source, target, q), 1, n) = SubSeq(target, 1, n)
         \/ \E m \in 0..Len(q) :
              /\ IsPrefix(source, SubSeq(q, 1, m))
              /\ SubSeq(Rebased(source, target, q), 1, n) = Rebased(source, target, SubSeq(q, 1, m))
<1> DEFINE to == Rebased(source, target, q)
<1>1. /\ IsPath(to) /\ Len(to) = Len(target) + (Len(q) - Len(source))
      /\ \A i \in 1..Len(target) : to[i] = target[i]
      /\ \A i \in 1..(Len(q) - Len(source)) : to[Len(target) + i] = q[Len(source) + i]
  <2>1. IsRebased(to, source, target, q)
    BY RebasedIs
  <2> HIDE DEF to
  <2>2. QED BY <2>1 DEF IsRebased
<1>2. /\ Len(source) \in Nat /\ Len(q) \in Nat /\ Len(target) \in Nat /\ Len(source) <= Len(q)
      /\ \A i \in 1..Len(source) : q[i] = source[i]
  BY PrefixIs, PathIs
<1>3. n \in 0..Len(to)
  OBVIOUS
<1> HIDE DEF to
<1>4. /\ IsPath(SubSeq(to, 1, n)) /\ Len(SubSeq(to, 1, n)) = n
      /\ \A i \in 1..n : SubSeq(to, 1, n)[i] = to[i]
  BY <1>1, <1>3, CutIs
<1>5. CASE n <= Len(target)
  <2>1. n \in 0..Len(target)
    BY <1>2, <1>3, <1>5
  <2>2. /\ IsPath(SubSeq(target, 1, n)) /\ Len(SubSeq(target, 1, n)) = n
        /\ \A i \in 1..n : SubSeq(target, 1, n)[i] = target[i]
    BY <2>1, CutIs
  <2>3. \A i \in 1..n : SubSeq(to, 1, n)[i] = SubSeq(target, 1, n)[i]
    BY <1>1, <1>2, <1>4, <1>5, <2>2
  <2>4. SubSeq(to, 1, n) = SubSeq(target, 1, n)
    BY <1>4, <2>2, <2>3, SamePath
  <2>5. QED BY <2>1, <2>4 DEF to
<1>6. CASE n > Len(target)
  <2> DEFINE m == Len(source) + (n - Len(target))
             cut == SubSeq(q, 1, m)
             other == Rebased(source, target, cut)
  <2>1. m \in 0..Len(q) /\ m >= Len(source) /\ m - Len(source) = n - Len(target)
    BY <1>1, <1>2, <1>3, <1>6
  <2> HIDE DEF m
  <2>2. IsPath(cut) /\ Len(cut) = m /\ \A i \in 1..m : cut[i] = q[i]
    BY <2>1, CutIs
  <2> HIDE DEF cut
  <2>3. \A i \in 1..Len(source) : i \in 1..m
    BY <1>2, <2>1
  <2>4. IsPrefix(source, cut)
    BY <1>2, <2>1, <2>2, <2>3, PrefixIs
  <2>5. /\ IsPath(other) /\ Len(other) = Len(target) + (Len(cut) - Len(source))
        /\ \A i \in 1..Len(target) : other[i] = target[i]
        /\ \A i \in 1..(Len(cut) - Len(source)) : other[Len(target) + i] = cut[Len(source) + i]
    <3>1. IsRebased(other, source, target, cut)
      BY <2>2, <2>4, RebasedIs
    <3> HIDE DEF other
    <3>2. QED BY <3>1 DEF IsRebased
  <2> HIDE DEF other
  <2>6. Len(other) = n
    BY <1>2, <1>3, <2>1, <2>2, <2>5
  <2>7. ASSUME NEW i \in 1..n PROVE to[i] = other[i]
    <3>1. CASE i <= Len(target)
      BY <1>1, <1>2, <2>5, <3>1
    <3>2. CASE i > Len(target)
      <4> DEFINE k == i - Len(target)
      <4>1. /\ Len(target) + k = i
            /\ k \in 1..(m - Len(source)) /\ k \in 1..(Len(q) - Len(source)) /\ Len(source) + k \in 1..m
        BY <1>1, <1>2, <1>3, <2>1, <3>2
      <4> HIDE DEF k
      <4>2. to[i] = q[Len(source) + k]
        BY <1>1, <4>1
      <4>3. other[i] = cut[Len(source) + k]
        BY <2>2, <2>5, <4>1
      <4>4. QED BY <2>2, <4>1, <4>2, <4>3
    <3>3. QED BY <1>2, <3>1, <3>2
  <2>8. SubSeq(to, 1, n) = other
    BY <1>4, <2>5, <2>6, <2>7, SamePath
  <2>9. QED BY <2>1, <2>4, <2>8 DEF to, other, cut
<1>7. QED BY <1>2, <1>3, <1>5, <1>6

-----------------------------------------------------------------------------
(***************************************************************************)
(* Trees.                                                                  *)
(***************************************************************************)

\* A set of paths that holds the folders on the way to each.
Closed(D) == \A p \in D : IsPath(p) /\ Prefixed(p) \subseteq D

\* What stands in such a set, stands in it with what it begins with.
LEMMA PrefixInClosed ==
  ASSUME NEW D, Closed(D), NEW q \in D, NEW p, IsPath(p), IsPrefix(p, q)
  PROVE  p \in D
<1>1. IsPath(q) /\ Prefixed(q) \subseteq D
  BY DEF Closed
<1>2. Len(p) \in 0..Len(q) /\ p = SubSeq(q, 1, Len(p))
  BY <1>1, PrefixIsCut
<1>3. QED BY <1>1, <1>2 DEF Prefixed

\* The folders on the way to p are the paths that it begins with.
LEMMA PrefixedIs ==
  ASSUME NEW p, IsPath(p)
  PROVE  /\ \A q \in Prefixed(p) : IsPath(q) /\ IsPrefix(q, p) /\ Len(q) <= Len(p)
         /\ p \in Prefixed(p)
         /\ Closed(Prefixed(p))
<1>1. \A q \in Prefixed(p) : IsPath(q) /\ IsPrefix(q, p) /\ Len(q) <= Len(p)
  <2>1. SUFFICES ASSUME NEW n \in 0..Len(p)
                 PROVE  /\ IsPath(SubSeq(p, 1, n)) /\ IsPrefix(SubSeq(p, 1, n), p)
                        /\ Len(SubSeq(p, 1, n)) <= Len(p)
    BY DEF Prefixed
  <2>2. n <= Len(p)
    BY PathIs
  <2>3. QED BY <2>2, CutIs, CutIsPrefix
<1>2. p \in Prefixed(p)
  <2>1. Len(p) \in 0..Len(p) /\ p = SubSeq(p, 1, Len(p))
    BY PrefixReflexive, PrefixIsCut
  <2>2. QED BY <2>1 DEF Prefixed
<1>3. ASSUME NEW q \in Prefixed(p), NEW r \in Prefixed(q) PROVE r \in Prefixed(p)
  <2>1. PICK n \in 0..Len(p) : q = SubSeq(p, 1, n)
    BY DEF Prefixed
  <2>2. PICK m \in 0..Len(q) : r = SubSeq(q, 1, m)
    BY DEF Prefixed
  <2>3. Len(q) = n
    BY <2>1, CutIs
  <2>4. m \in 0..n /\ m \in 0..Len(p)
    BY <2>2, <2>3, PathIs
  <2>5. r = SubSeq(p, 1, m)
    BY <2>1, <2>2, <2>4, CutOfCut
  <2>6. QED BY <2>4, <2>5 DEF Prefixed
<1>4. Closed(Prefixed(p))
  BY <1>1, <1>3 DEF Closed
<1>5. QED BY <1>1, <1>2, <1>4

\* create_dir_all leaves no gap.
LEMMA ClosedMade ==
  ASSUME NEW D, Closed(D), NEW p, IsPath(p)
  PROVE  Closed(D \cup Prefixed(p))
BY PrefixedIs DEF Closed

\* Neither does remove_dir_all.
LEMMA ClosedRemoved ==
  ASSUME NEW D, Closed(D), NEW p, IsPath(p)
  PROVE  Closed({q \in D : ~IsPrefix(p, q)})
<1>1. SUFFICES ASSUME NEW q \in D, ~IsPrefix(p, q), NEW r \in Prefixed(q)
               PROVE  IsPath(q) /\ r \in D /\ ~IsPrefix(p, r)
  BY DEF Closed
<1>2. IsPath(q) /\ r \in D /\ IsPath(r) /\ IsPrefix(r, q)
  BY PrefixedIs DEF Closed
<1>3. QED BY <1>1, <1>2, PrefixTransitive

\* The folders of D below p, and their copies.
Inside(D, p) == {q \in D : IsPrefix(p, q)}

Copied(D, source, target) == {Rebased(source, target, q) : q \in Inside(D, source)}

\* Neither does copy_dir_recursive.
LEMMA ClosedCopied ==
  ASSUME NEW D, Closed(D), NEW source, NEW target, IsPath(source), IsPath(target)
  PROVE  Closed(D \cup Prefixed(target) \cup Copied(D, source, target))
<1>1. Closed(D \cup Prefixed(target))
  BY ClosedMade
<1>2. ASSUME NEW q \in Inside(D, source), NEW r \in Prefixed(Rebased(source, target, q))
      PROVE  r \in Prefixed(target) \cup Copied(D, source, target)
  <2>1. IsPath(q) /\ q \in D /\ IsPrefix(source, q) /\ Prefixed(q) \subseteq D
    BY DEF Closed, Inside
  <2>2. PICK n \in 0..Len(Rebased(source, target, q)) : r = SubSeq(Rebased(source, target, q), 1, n)
    BY DEF Prefixed
  <2>3. CASE n \in 0..Len(target) /\ r = SubSeq(target, 1, n)
    BY <2>3 DEF Prefixed
  <2>4. ASSUME NEW m \in 0..Len(q), IsPrefix(source, SubSeq(q, 1, m)),
               r = Rebased(source, target, SubSeq(q, 1, m))
        PROVE  r \in Copied(D, source, target)
    <3>1. SubSeq(q, 1, m) \in D
      BY <2>1 DEF Prefixed
    <3>2. QED BY <2>4, <3>1 DEF Copied, Inside
  <2>5. QED BY <2>1, <2>2, <2>3, <2>4, RebasedCut
<1>3. \A q \in Inside(D, source) : IsPath(Rebased(source, target, q))
  BY RebasedIs DEF Inside, Closed, IsRebased
<1>4. QED BY <1>1, <1>2, <1>3 DEF Closed, Copied

\* What is copied to the target is not below the source, unless one of them is below
\* the other.
LEMMA CopiedElsewhere ==
  ASSUME NEW source, NEW target, NEW q, IsPath(source), IsPath(target), IsPath(q), IsPrefix(target, q),
         ~IsPrefix(source, target), ~IsPrefix(target, source)
  PROVE  ~IsPrefix(source, q)
BY PrefixesCompare

\* Finitely many folders stay finitely many.
LEMMA FiniteCopied ==
  ASSUME NEW D, IsFiniteSet(D), NEW source, NEW target, IsPath(target)
  PROVE  IsFiniteSet(D \cup Prefixed(target) \cup Copied(D, source, target))
<1>1. IsFiniteSet(Prefixed(target))
  <2>1. Len(target) \in Nat
    BY PathIs
  <2>2. IsFiniteSet(0..Len(target))
    BY <2>1, FS_Interval
  <2> DEFINE f == [n \in 0..Len(target) |-> SubSeq(target, 1, n)]
  <2>3. f \in Surjection(0..Len(target), Prefixed(target))
    BY DEF Surjection, Prefixed
  <2>4. QED BY <2>2, <2>3, FS_Surjection
<1>2. IsFiniteSet(Inside(D, source))
  BY FS_Subset DEF Inside
<1>3. IsFiniteSet(Copied(D, source, target))
  <2> DEFINE f == [q \in Inside(D, source) |-> Rebased(source, target, q)]
  <2>1. f \in Surjection(Inside(D, source), Copied(D, source, target))
    BY DEF Surjection, Copied
  <2>2. QED BY <1>2, <2>1, FS_Surjection
<1>4. QED BY <1>1, <1>3, FS_Union

-----------------------------------------------------------------------------
\* Every set of natural numbers but the empty one has a least member.
LEMMA LeastNumber ==
  ASSUME NEW T \in SUBSET Nat, T # {}
  PROVE  \E n \in T : \A m \in T : n <= m
<1> DEFINE less == OpToRel(<, Nat)
<1>1. IsWellFoundedOn(less, Nat)
  BY NatLessThanWellFounded
<1>2. \A n, m \in Nat : n < m => <<n, m>> \in less
  BY DEF OpToRel
<1> HIDE DEF less
<1>3. PICK n \in T : \A m \in T : ~(<<m, n>> \in less)
  BY <1>1, WFMin
<1>4. \A m \in T : ~(m < n)
  BY <1>2, <1>3, Zenon
<1>5. QED BY <1>4, SMT

\* One with a bound has a greatest.
LEMMA GreatestNumber ==
  ASSUME NEW N \in Nat, NEW T \in SUBSET (0..N), T # {}
  PROVE  \E n \in T : \A m \in T : m <= n
<1> DEFINE above == {N - n : n \in T}
<1>1. above \in SUBSET Nat /\ above # {}
  <2>1. \A n \in T : N - n \in Nat
    OBVIOUS
  <2>2. QED BY <2>1
<1>2. PICK l \in above : \A m \in above : l <= m
  <2> HIDE DEF above
  <2>1. QED BY <1>1, LeastNumber
<1>3. PICK n \in T : l = N - n
  OBVIOUS
<1>4. ASSUME NEW m \in T PROVE m <= n
  <2>1. N - m \in above
    OBVIOUS
  <2>2. N - n <= N - m
    <3> HIDE DEF above
    <3>1. QED BY <1>2, <1>3, <2>1
  <2>3. m \in Nat /\ n \in Nat
    OBVIOUS
  <2>4. QED BY <2>2, <2>3
<1>5. QED BY <1>4

=============================================================================
