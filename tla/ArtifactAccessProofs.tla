------------------------- MODULE ArtifactAccessProofs -------------------------
(***************************************************************************)
(* Proofs about ArtifactAccess, for all names, paths, working directories, *)
(* recorded files and lengths.                                             *)
(*                                                                         *)
(* A path of any length is gone through segment by segment.  Seq(S) is the *)
(* least set that has the empty sequence and is closed under Append        *)
(* (SeqInduction), which follows from the well-foundedness of < on Nat; an *)
(* induction over paths is that lemma for the set of the paths for which   *)
(* the claim holds.                                                        *)
(***************************************************************************)
EXTENDS ArtifactAccess, SequenceTheorems, WellFoundedInduction, TLAPS

-----------------------------------------------------------------------------
(* Induction. *)

\* A set of natural numbers has a least one.
LEMMA LeastNumber ==
  ASSUME NEW T, T \subseteq Nat, T # {}
  PROVE  \E x \in T : \A y \in T : x <= y
<1>1. IsWellFoundedOn(OpToRel(<, Nat), Nat)
  BY NatLessThanWellFounded, Zenon
<1>2. \E x \in T : \A y \in T : ~(<<y, x>> \in OpToRel(<, Nat))
  BY <1>1, WFMin, Zenon
<1>3. ASSUME NEW x \in Nat, NEW y \in Nat, ~(<<y, x>> \in OpToRel(<, Nat)) PROVE x <= y
  BY <1>3 DEF OpToRel
<1>4. QED
  BY <1>2, <1>3

\* A set that has 0 and with every number the next one has them all.
LEMMA NumberInduction ==
  ASSUME NEW G, 0 \in G, \A n \in Nat : n \in G => n + 1 \in G
  PROVE  \A n \in Nat : n \in G
<1>1. SUFFICES ASSUME Nat \ G # {} PROVE FALSE
  OBVIOUS
<1>2. PICK x \in Nat \ G : \A y \in Nat \ G : x <= y
  BY <1>1, LeastNumber
<1>3. x # 0 /\ x - 1 \in Nat /\ (x - 1) + 1 = x
  BY <1>2
<1>4. x - 1 \in G
  BY <1>2, <1>3
<1>5. QED
  BY <1>2, <1>3, <1>4

\* A set that has the empty sequence and with every sequence the longer ones has them all.
LEMMA SeqInduction ==
  ASSUME NEW S, NEW G, <<>> \in G, \A q \in Seq(S) : \A s \in S : q \in G => Append(q, s) \in G
  PROVE  \A q \in Seq(S) : q \in G
<1> DEFINE N == {n \in Nat : \A q \in Seq(S) : Len(q) = n => q \in G}
<1>1. 0 \in N
  BY EmptySeq
<1>2. ASSUME NEW n \in Nat, n \in N PROVE n + 1 \in N
  <2>1. ASSUME NEW q \in Seq(S), Len(q) = n + 1 PROVE q \in G
    <3>1. q # <<>>
      BY <2>1, EmptySeq
    <3>2. PICK r \in Seq(S), s \in S : q = Append(r, s)
      BY <3>1, SequenceEmptyOrAppend
    <3>3. Len(r) = n
      BY <2>1, <3>2, AppendProperties, LenProperties
    <3>4. QED
      BY <1>2, <3>2, <3>3
  <2>2. QED
    BY <2>1
<1>3. \A n \in Nat : n \in N
  <2> HIDE DEF N
  <2>1. QED
    BY <1>1, <1>2, NumberInduction
<1>4. QED
  BY <1>3, LenProperties

-----------------------------------------------------------------------------
(* Going through a sequence. *)

\* h goes through p by the table g.
Goes(h, g, p) == \A i \in 1 .. Len(p) : h[i] = g[<<h[i - 1], p[i]>>]

\* There is a way through every sequence, from place to place.
LEMMA Way ==
  ASSUME NEW U, NEW g \in [Seq(U) \X U -> Seq(U)], NEW b \in Seq(U), NEW way \in Seq(U)
  PROVE  \E h \in [0 .. Len(way) -> Seq(U)] : h[0] = b /\ Goes(h, g, way)
<1> DEFINE S == Seq(U)
<1>a. g \in [S \X U -> S] /\ b \in S
  OBVIOUS
<1> HIDE DEF S
<1> DEFINE Has(p) == \E h \in [0 .. Len(p) -> S] : h[0] = b /\ Goes(h, g, p)
           G == {p \in Seq(U) : Has(p)}
<1>1. <<>> \in G
  <2>1. <<>> \in Seq(U) /\ Len(<<>>) = 0
    BY EmptySeq
  <2> DEFINE h == [i \in 0 .. 0 |-> b]
  <2>2. h \in [0 .. Len(<<>>) -> S] /\ h[0] = b /\ Goes(h, g, <<>>)
    BY <1>a, <2>1 DEF Goes
  <2>3. QED
    BY <2>1, <2>2
<1>2. ASSUME NEW p \in Seq(U), NEW s \in U, p \in G PROVE Append(p, s) \in G
  <2> DEFINE q == Append(p, s)
  <2>1. PICK h \in [0 .. Len(p) -> S] : h[0] = b /\ Goes(h, g, p)
    BY <1>2
  <2>2. /\ q \in Seq(U) /\ Len(q) = Len(p) + 1 /\ Len(p) \in Nat
        /\ \A i \in 1 .. Len(p) : q[i] = p[i] /\ p[i] \in U
        /\ q[Len(p) + 1] = s
    BY AppendProperties, LenProperties, ElementOfSeq
  <2> HIDE DEF q
  <2> DEFINE k == [i \in 0 .. Len(q) |-> IF i <= Len(p) THEN h[i] ELSE g[<<h[Len(p)], s>>]]
  <2>3. g[<<h[Len(p)], s>>] \in S
    <3>1. h[Len(p)] \in S
      BY <2>1, <2>2
    <3>2. <<h[Len(p)], s>> \in S \X U
      BY <3>1
    <3>3. QED
      BY <1>a, <3>2, Zenon
  <2>4. k \in [0 .. Len(q) -> S] /\ k[0] = b
    BY <2>1, <2>2, <2>3
  <2>5. Goes(k, g, q)
    <3>1. ASSUME NEW i \in 1 .. Len(q) PROVE k[i] = g[<<k[i - 1], q[i]>>]
      <4>1. i \in 0 .. Len(q) /\ i - 1 \in 0 .. Len(q) /\ i - 1 <= Len(p)
        BY <2>2
      <4>2. k[i - 1] = h[i - 1]
        BY <4>1
      <4>3. CASE i <= Len(p)
        BY <2>1, <2>2, <4>1, <4>2, <4>3 DEF Goes
      <4>4. CASE i = Len(p) + 1
        <5>1. k[i] = g[<<h[Len(p)], s>>] /\ i - 1 = Len(p) /\ q[i] = s
          BY <2>2, <4>1, <4>4
        <5>2. QED
          BY <4>2, <5>1
      <4>5. QED
        BY <2>2, <4>3, <4>4
    <3>2. QED
      BY <3>1 DEF Goes
  <2>6. Has(q)
    BY <2>4, <2>5
  <2>7. QED
    BY <2>2, <2>6 DEF q
<1>3. \A p \in Seq(U) : p \in G
  <2> HIDE DEF G
  <2>1. QED
    BY <1>1, <1>2, SeqInduction
<1>4. QED
  BY <1>3 DEF S

\* The way through a longer sequence begins with the way through the shorter one.
LEMMA WayOn ==
  ASSUME NEW T, NEW g, NEW p \in Seq(T), NEW s \in T, NEW h, NEW k, h[0] = k[0],
         Goes(h, g, p), Goes(k, g, Append(p, s))
  PROVE  k[Len(p) + 1] = g[<<h[Len(p)], s>>]
<1> DEFINE q == Append(p, s)
           G == {n \in Nat : n <= Len(p) => k[n] = h[n]}
<1>1. /\ q \in Seq(T) /\ Len(q) = Len(p) + 1 /\ Len(p) \in Nat
      /\ \A i \in 1 .. Len(p) : q[i] = p[i]
      /\ q[Len(p) + 1] = s
  BY AppendProperties, LenProperties
<1> HIDE DEF q
<1>2. 0 \in G
  OBVIOUS
<1>3. ASSUME NEW n \in Nat, n \in G PROVE n + 1 \in G
  <2>1. CASE n + 1 <= Len(p)
    <3>1. n + 1 \in 1 .. Len(p) /\ n + 1 \in 1 .. Len(q) /\ (n + 1) - 1 = n /\ n <= Len(p)
      BY <1>1, <2>1
    <3>2. k[n + 1] = g[<<k[n], q[n + 1]>>] /\ h[n + 1] = g[<<h[n], p[n + 1]>>]
      BY <3>1 DEF Goes, q
    <3>3. k[n] = h[n]
      BY <1>3, <3>1
    <3>4. q[n + 1] = p[n + 1]
      BY <1>1, <3>1
    <3>5. k[n + 1] = h[n + 1]
      BY <3>2, <3>3, <3>4
    <3>6. QED
      BY <3>5
  <2>2. CASE ~(n + 1 <= Len(p))
    BY <2>2
  <2>3. QED
    BY <2>1, <2>2
<1>4. Len(p) \in G
  <2> HIDE DEF G
  <2>1. QED
    BY <1>1, <1>2, <1>3, NumberInduction
<1>5. Len(p) + 1 \in 1 .. Len(q) /\ (Len(p) + 1) - 1 = Len(p)
  BY <1>1
<1>6. k[Len(p) + 1] = g[<<k[Len(p)], q[Len(p) + 1]>>]
  BY <1>5 DEF Goes, q
<1>7. k[Len(p)] = h[Len(p)]
  BY <1>1, <1>4
<1>8. QED
  BY <1>1, <1>6, <1>7

-----------------------------------------------------------------------------
(* One segment. *)

\* A sequence without its last element.
LEMMA FrontIs ==
  ASSUME NEW S, NEW q \in Seq(S), q # <<>>
  PROVE  /\ Front(q) \in Seq(S) /\ Len(Front(q)) = Len(q) - 1 /\ Len(q) \in Nat \ {0}
         /\ \A i \in 1 .. Len(q) - 1 : Front(q)[i] = q[i]
         /\ Last(q) \in S /\ Last(q) = q[Len(q)]
<1>1. Len(q) \in Nat \ {0}
  BY EmptySeq
<1>2. \A i \in 1 .. Len(q) : q[i] \in S
  BY ElementOfSeq
<1>3. 1 \in Int /\ Len(q) - 1 \in Int /\ (\A i \in 1 .. Len(q) - 1 : q[i] \in S)
  BY <1>1, <1>2
<1> DEFINE n == Len(q) - 1
           f == SubSeq(q, 1, n)
<1>4. /\ f \in Seq(S)
      /\ Len(f) = IF 1 <= n THEN n - 1 + 1 ELSE 0
      /\ \A i \in 1 .. n - 1 + 1 : f[i] = q[1 + i - 1]
  BY <1>3, SubSeqProperties
<1>5. n \in Nat /\ f = Front(q)
  BY <1>1 DEF Front
<1> HIDE DEF n, f
<1>6. Len(f) = n /\ \A i \in 1 .. n : f[i] = q[i]
  BY <1>4, <1>5
<1>7. QED
  BY <1>1, <1>2, <1>4, <1>5, <1>6 DEF n, Last

\* Front and Last undo Append.
LEMMA FrontOfAppend ==
  ASSUME NEW S, NEW q \in Seq(S), NEW s \in S
  PROVE  Front(Append(q, s)) = q /\ Last(Append(q, s)) = s /\ Append(q, s) # <<>>
<1> DEFINE r == Append(q, s)
<1>1. /\ r \in Seq(S) /\ r # <<>> /\ Len(r) = Len(q) + 1 /\ Len(q) \in Nat
      /\ \A i \in 1 .. Len(q) : r[i] = q[i]
      /\ r[Len(q) + 1] = s
  BY AppendProperties, LenProperties
<1> HIDE DEF r
<1>2. /\ Front(r) \in Seq(S) /\ Len(Front(r)) = Len(r) - 1
      /\ \A i \in 1 .. Len(r) - 1 : Front(r)[i] = r[i]
      /\ Last(r) = r[Len(r)]
  BY <1>1, FrontIs
<1>3. Front(r) = q
  <2>1. Len(Front(r)) = Len(q) /\ \A i \in 1 .. Len(Front(r)) : Front(r)[i] = q[i]
    BY <1>1, <1>2
  <2>2. QED
    BY <1>2, <2>1, SeqEqual
<1>4. QED
  BY <1>1, <1>2, <1>3 DEF r

\* Places and components stay sequences.
LEMMA StepTypes ==
  ASSUME NEW U, NEW q \in Seq(U), NEW s \in U
  PROVE  Enter(q, s) \in Seq(U) /\ \A lead : Push(lead, q, s) \in Seq(U)
<1>1. Append(q, s) \in Seq(U)
  BY AppendProperties
<1>2. q # <<>> => Front(q) \in Seq(U)
  BY FrontIs
<1>3. QED
  BY <1>1, <1>2 DEF Enter, Push

-----------------------------------------------------------------------------
(* Walks. *)

\* The equation by which Places is defined: a way by Enter.
LEMMA PlacesAre ==
  ASSUME NEW U, NEW from \in Seq(U), NEW p \in Seq(U)
  PROVE  /\ Places(from, p)[0] = from
         /\ \A i \in 1 .. Len(p) : Places(from, p)[i] = Enter(Places(from, p)[i - 1], p[i])
         /\ \A i \in 0 .. Len(p) : Places(from, p)[i] \in Seq(U)
<1> DEFINE g == [x \in Seq(U) \X U |-> Enter(x[1], x[2])]
           Equation(f) == f = [i \in 0 .. Len(p) |-> IF i = 0 THEN from ELSE Enter(f[i - 1], p[i])]
           f0 == Places(from, p)
           G == {n \in Nat : n <= Len(p) => f0[n] \in Seq(U)}
<1>1. Len(p) \in Nat /\ \A i \in 1 .. Len(p) : p[i] \in U
  BY LenProperties, ElementOfSeq
<1>2. g \in [Seq(U) \X U -> Seq(U)]
  BY StepTypes
<1>3. \E h \in [0 .. Len(p) -> Seq(U)] : h[0] = from /\ Goes(h, g, p)
  <2> HIDE DEF g
  <2>1. QED
    BY <1>2, Way, Zenon
<1>4. PICK h \in [0 .. Len(p) -> Seq(U)] : h[0] = from /\ Goes(h, g, p)
  BY <1>3
<1>5. ASSUME NEW i \in 1 .. Len(p) PROVE h[i] = Enter(h[i - 1], p[i])
  <2>1. i - 1 \in 0 .. Len(p) /\ p[i] \in U
    BY <1>1
  <2>2. h[i] = g[<<h[i - 1], p[i]>>] /\ <<h[i - 1], p[i]>> \in Seq(U) \X U
    BY <1>4, <2>1 DEF Goes
  <2>3. QED
    BY <2>2
<1>6. Equation(h)
  BY <1>1, <1>4, <1>5
<1>7. Equation(f0)
  <2>1. f0 = CHOOSE f : Equation(f)
    BY DEF Places
  <2> HIDE DEF Equation, f0
  <2>2. QED
    BY <1>6, <2>1
<1>8. /\ f0[0] = from
      /\ \A i \in 1 .. Len(p) : f0[i] = Enter(f0[i - 1], p[i])
  <2> HIDE DEF f0
  <2>1. QED
    BY <1>1, <1>7
<1> HIDE DEF f0
<1>9. 0 \in G
  BY <1>8
<1>10. ASSUME NEW n \in Nat, n \in G PROVE n + 1 \in G
  <2>1. CASE n + 1 <= Len(p)
    <3>1. f0[n] \in Seq(U) /\ p[n + 1] \in U /\ f0[n + 1] = Enter(f0[n], p[n + 1])
      BY <1>1, <1>8, <1>10, <2>1
    <3>2. Enter(f0[n], p[n + 1]) \in Seq(U)
      BY <3>1, StepTypes, Zenon
    <3>3. QED
      BY <3>1, <3>2
  <2>2. QED
    BY <2>1
<1>11. \A n \in Nat : n \in G
  <2> HIDE DEF G
  <2>1. QED
    BY <1>9, <1>10, NumberInduction
<1>12. QED
  BY <1>1, <1>8, <1>11 DEF f0

\* A walk ends at a place.
LEMMA WalkTypes ==
  ASSUME NEW U, NEW from \in Seq(U), NEW p \in Seq(U)
  PROVE  Walk(from, p) \in Seq(U)
<1>1. Len(p) \in 0 .. Len(p)
  BY LenProperties
<1>2. QED
  BY <1>1, PlacesAre DEF Walk

\* A walk begins where it begins.
LEMMA WalkStarts ==
  ASSUME NEW U, NEW from \in Seq(U)
  PROVE  Walk(from, <<>>) = from
<1>1. <<>> \in Seq(U) /\ Len(<<>>) = 0
  BY EmptySeq
<1>2. QED
  BY <1>1, PlacesAre DEF Walk

\* A walk is gone step by step.
LEMMA WalkOn ==
  ASSUME NEW U, NEW from \in Seq(U), NEW p \in Seq(U), NEW s \in U
  PROVE  Walk(from, Append(p, s)) = Enter(Walk(from, p), s)
<1> DEFINE g == [x \in Seq(U) \X U |-> Enter(x[1], x[2])]
<1>3. Walk(from, p) \in Seq(U)
  BY WalkTypes
<1>4. ASSUME NEW q \in Seq(U) PROVE Goes(Places(from, q), g, q)
  <2>1. ASSUME NEW i \in 1 .. Len(q)
        PROVE  Places(from, q)[i] = g[<<Places(from, q)[i - 1], q[i]>>]
    <3>1. Len(q) \in Nat /\ q[i] \in U /\ i - 1 \in 0 .. Len(q)
      BY LenProperties, ElementOfSeq
    <3>2. Places(from, q)[i - 1] \in Seq(U)
          /\ Places(from, q)[i] = Enter(Places(from, q)[i - 1], q[i])
      BY <3>1, PlacesAre
    <3>3. QED
      BY <3>1, <3>2
  <2>2. QED
    BY <2>1 DEF Goes
<1>5. Append(p, s) \in Seq(U) /\ Len(Append(p, s)) = Len(p) + 1
  BY AppendProperties
<1>6. Places(from, p)[0] = from /\ Places(from, Append(p, s))[0] = from
  BY <1>5, PlacesAre
<1>7. Goes(Places(from, p), g, p) /\ Goes(Places(from, Append(p, s)), g, Append(p, s))
  BY <1>4, <1>5
<1>8. Places(from, Append(p, s))[Len(p) + 1] = g[<<Places(from, p)[Len(p)], s>>]
  <2> HIDE DEF g
  <2>1. QED
    BY <1>6, <1>7, WayOn
<1>9. QED
  BY <1>3, <1>5, <1>8 DEF Walk

\* Concatenation and Append.
LEMMA ConcatAppend ==
  ASSUME NEW U, NEW p \in Seq(U), NEW r \in Seq(U), NEW s \in U
  PROVE  p \o Append(r, s) = Append(p \o r, s) /\ p \o r \in Seq(U)
<1>1. <<s>> \in Seq(U)
  OBVIOUS
<1>2. p \o r \in Seq(U)
  BY ConcatProperties
<1>3. Append(r, s) = r \o <<s>> /\ Append(p \o r, s) = (p \o r) \o <<s>>
  BY <1>2, AppendIsConcat
<1>4. (p \o r) \o <<s>> = p \o (r \o <<s>>)
  BY <1>1, ConcatAssociative
<1>5. QED
  BY <1>2, <1>3, <1>4

\* One walk after another is one walk.
LEMMA WalkThrough ==
  ASSUME NEW U, NEW from \in Seq(U), NEW p \in Seq(U), NEW q \in Seq(U)
  PROVE  Walk(from, p \o q) = Walk(Walk(from, p), q)
<1> DEFINE G == {r \in Seq(U) : Walk(from, p \o r) = Walk(Walk(from, p), r)}
<1>1. Walk(from, p) \in Seq(U)
  BY WalkTypes
<1>2. <<>> \in G
  <2>1. <<>> \in Seq(U) /\ p \o <<>> = p
    BY EmptySeq, ConcatEmptySeq
  <2>2. Walk(Walk(from, p), <<>>) = Walk(from, p)
    BY <1>1, WalkStarts
  <2>3. QED
    BY <2>1, <2>2
<1>3. ASSUME NEW r \in Seq(U), NEW s \in U, r \in G PROVE Append(r, s) \in G
  <2>1. /\ Append(r, s) \in Seq(U) /\ p \o r \in Seq(U)
        /\ p \o Append(r, s) = Append(p \o r, s)
    BY ConcatAppend, AppendProperties
  <2>2. Walk(from, Append(p \o r, s)) = Enter(Walk(from, p \o r), s)
    <3>1. \A x \in Seq(U) : Walk(from, Append(x, s)) = Enter(Walk(from, x), s)
      BY WalkOn
    <3>2. QED
      BY <2>1, <3>1
  <2>3. Walk(Walk(from, p), Append(r, s)) = Enter(Walk(Walk(from, p), r), s)
    BY <1>1, WalkOn
  <2>4. QED
    BY <1>3, <2>1, <2>2, <2>3
<1>4. \A r \in Seq(U) : r \in G
  <2> HIDE DEF G
  <2>1. QED
    BY <1>2, <1>3, SeqInduction
<1>5. QED
  BY <1>4

\* What the segments of a path are, and the places they lead to.
LEMMA SegmentFacts ==
  /\ FileNames \subseteq Segments /\ {"", ".", "..", " "} \subseteq Segments
  /\ \A s \in FileNames : s \notin {"", ".", ".."}
  /\ \A s \in Segments : s \in FileNames \/ s \in {"", ".", ".."}
  /\ Seq(FileNames) \subseteq Seq(Segments) /\ Seq({""}) \subseteq Seq(Segments)
<1>1. /\ FileNames \subseteq Segments /\ {"", ".", "..", " "} \subseteq Segments
      /\ \A s \in FileNames : s \notin {"", ".", ".."}
      /\ \A s \in Segments : s \in FileNames \/ s \in {"", ".", ".."}
  BY DEF FileNames, Segments
<1>2. {""} \subseteq Segments
  BY <1>1
<1>3. QED
  BY <1>1, <1>2, SeqMonotonic

\* Whatever a path is made of, it leads from places to places.
LEMMA WalkNames ==
  ASSUME NEW from \in Seq(FileNames), NEW p \in Seq(Segments)
  PROVE  Walk(from, p) \in Seq(FileNames)
<1> DEFINE G == {r \in Seq(Segments) : Walk(from, r) \in Seq(FileNames)}
<1>1. from \in Seq(Segments)
  BY SegmentFacts
<1>2. <<>> \in G
  BY <1>1, EmptySeq, WalkStarts
<1>3. ASSUME NEW r \in Seq(Segments), NEW s \in Segments, r \in G PROVE Append(r, s) \in G
  <2> DEFINE at == Walk(from, r)
  <2>1. Walk(from, Append(r, s)) = Enter(at, s) /\ Append(r, s) \in Seq(Segments)
    BY <1>1, WalkOn, AppendProperties
  <2>2. at \in Seq(FileNames)
    BY <1>3
  <2> HIDE DEF at
  <2>3. at # <<>> => Front(at) \in Seq(FileNames)
    BY <2>2, FrontIs
  <2>4. s \in FileNames => Append(at, s) \in Seq(FileNames)
    BY <2>2, AppendProperties
  <2>5. Enter(at, s) \in Seq(FileNames)
    BY <2>2, <2>3, <2>4, SegmentFacts DEF Enter
  <2>6. QED
    BY <2>1, <2>5
<1>4. \A r \in Seq(Segments) : r \in G
  <2> HIDE DEF G
  <2>1. QED
    BY <1>2, <1>3, SeqInduction
<1>5. QED
  BY <1>4

\* Names lead down, one by one.
LEMMA WalkDown ==
  ASSUME NEW from \in Seq(Segments), NEW p \in Seq(FileNames)
  PROVE  Walk(from, p) = from \o p
<1> DEFINE G == {r \in Seq(FileNames) : Walk(from, r) = from \o r}
<1>1. <<>> \in G
  BY EmptySeq, ConcatEmptySeq, WalkStarts
<1>2. ASSUME NEW r \in Seq(FileNames), NEW s \in FileNames, r \in G PROVE Append(r, s) \in G
  <2>1. r \in Seq(Segments) /\ s \in Segments /\ s \notin {"", ".", ".."}
    BY SegmentFacts
  <2>2. Walk(from, Append(r, s)) = Enter(Walk(from, r), s) /\ Append(r, s) \in Seq(FileNames)
    BY <2>1, WalkOn, AppendProperties
  <2>3. Enter(Walk(from, r), s) = Append(from \o r, s)
    BY <1>2, <2>1 DEF Enter
  <2>4. from \o Append(r, s) = Append(from \o r, s)
    <3>1. ASSUME NEW q \in Seq(Segments), NEW t \in Segments
          PROVE  from \o Append(q, t) = Append(from \o q, t)
      BY ConcatAppend
    <3>2. QED
      BY <2>1, <3>1
  <2>5. QED
    BY <2>2, <2>3, <2>4
<1>3. \A r \in Seq(FileNames) : r \in G
  <2> HIDE DEF G
  <2>1. QED
    BY <1>1, <1>2, SeqInduction
<1>4. QED
  BY <1>3

\* Slashes lead nowhere.
LEMMA WalkSlashes ==
  ASSUME NEW from \in Seq(Segments), NEW p \in Seq({""})
  PROVE  Walk(from, p) = from
<1> DEFINE G == {r \in Seq({""}) : Walk(from, r) = from}
<1>1. <<>> \in G
  BY EmptySeq, WalkStarts
<1>2. ASSUME NEW r \in Seq({""}), NEW s \in {""}, r \in G PROVE Append(r, s) \in G
  <2>1. r \in Seq(Segments) /\ s \in Segments
    BY SegmentFacts
  <2>2. Walk(from, Append(r, s)) = Enter(Walk(from, r), s) /\ Append(r, s) \in Seq({""})
    BY <2>1, WalkOn, AppendProperties
  <2>3. QED
    BY <1>2, <2>2 DEF Enter
<1>3. \A r \in Seq({""}) : r \in G
  <2> HIDE DEF G
  <2>1. QED
    BY <1>1, <1>2, SeqInduction
<1>4. QED
  BY <1>3

-----------------------------------------------------------------------------
(* Normal forms. *)

\* The components that normpath keeps of a path.
Comps(lead, p) == Pushed(lead, p)[Len(p)]

\* The equation by which Pushed is defined: a way by Push.
LEMMA PushedAre ==
  ASSUME NEW lead, NEW p \in Seq(Segments)
  PROVE  /\ Pushed(lead, p)[0] = <<>>
         /\ \A i \in 1 .. Len(p) : Pushed(lead, p)[i] = Push(lead, Pushed(lead, p)[i - 1], p[i])
         /\ \A i \in 0 .. Len(p) : Pushed(lead, p)[i] \in Seq(Segments)
<1> DEFINE g == [x \in Seq(Segments) \X Segments |-> Push(lead, x[1], x[2])]
           Equation(f) ==
             f = [i \in 0 .. Len(p) |-> IF i = 0 THEN <<>> ELSE Push(lead, f[i - 1], p[i])]
           f0 == Pushed(lead, p)
           G == {n \in Nat : n <= Len(p) => f0[n] \in Seq(Segments)}
<1>1. Len(p) \in Nat /\ <<>> \in Seq(Segments) /\ \A i \in 1 .. Len(p) : p[i] \in Segments
  BY LenProperties, ElementOfSeq, EmptySeq
<1>2. g \in [Seq(Segments) \X Segments -> Seq(Segments)]
  BY StepTypes
<1>3. \E h \in [0 .. Len(p) -> Seq(Segments)] : h[0] = <<>> /\ Goes(h, g, p)
  <2> HIDE DEF g
  <2>1. QED
    BY <1>1, <1>2, Way, Zenon
<1>4. PICK h \in [0 .. Len(p) -> Seq(Segments)] : h[0] = <<>> /\ Goes(h, g, p)
  BY <1>3
<1>5. ASSUME NEW i \in 1 .. Len(p) PROVE h[i] = Push(lead, h[i - 1], p[i])
  <2>1. i - 1 \in 0 .. Len(p) /\ p[i] \in Segments
    BY <1>1
  <2>2. h[i] = g[<<h[i - 1], p[i]>>] /\ <<h[i - 1], p[i]>> \in Seq(Segments) \X Segments
    BY <1>4, <2>1 DEF Goes
  <2>3. QED
    BY <2>2
<1>6. Equation(h)
  BY <1>1, <1>4, <1>5
<1>7. Equation(f0)
  <2>1. f0 = CHOOSE f : Equation(f)
    BY DEF Pushed
  <2> HIDE DEF Equation, f0
  <2>2. QED
    BY <1>6, <2>1
<1>8. /\ f0[0] = <<>>
      /\ \A i \in 1 .. Len(p) : f0[i] = Push(lead, f0[i - 1], p[i])
  <2> HIDE DEF f0
  <2>1. QED
    BY <1>1, <1>7
<1> HIDE DEF f0
<1>9. 0 \in G
  BY <1>1, <1>8
<1>10. ASSUME NEW n \in Nat, n \in G PROVE n + 1 \in G
  <2>1. CASE n + 1 <= Len(p)
    <3>1. f0[n] \in Seq(Segments) /\ p[n + 1] \in Segments
          /\ f0[n + 1] = Push(lead, f0[n], p[n + 1])
      BY <1>1, <1>8, <1>10, <2>1
    <3>2. Push(lead, f0[n], p[n + 1]) \in Seq(Segments)
      BY <3>1, StepTypes, Zenon
    <3>3. QED
      BY <3>1, <3>2
  <2>2. QED
    BY <2>1
<1>11. \A n \in Nat : n \in G
  <2> HIDE DEF G
  <2>1. QED
    BY <1>9, <1>10, NumberInduction
<1>12. QED
  BY <1>1, <1>8, <1>11 DEF f0

\* Normal forms are made segment by segment.
LEMMA CompsOn ==
  ASSUME NEW lead, NEW p \in Seq(Segments)
  PROVE  /\ Comps(lead, <<>>) = <<>>
         /\ Comps(lead, p) \in Seq(Segments)
         /\ \A s \in Segments : Comps(lead, Append(p, s)) = Push(lead, Comps(lead, p), s)
<1> DEFINE g == [x \in Seq(Segments) \X Segments |-> Push(lead, x[1], x[2])]
<1>1. Len(p) \in 0 .. Len(p) /\ <<>> \in Seq(Segments) /\ Len(<<>>) = 0
  BY LenProperties, EmptySeq
<1>2. Comps(lead, <<>>) = <<>> /\ Comps(lead, p) \in Seq(Segments)
  BY <1>1, PushedAre DEF Comps
<1>3. ASSUME NEW q \in Seq(Segments) PROVE Goes(Pushed(lead, q), g, q)
  <2>1. ASSUME NEW i \in 1 .. Len(q)
        PROVE  Pushed(lead, q)[i] = g[<<Pushed(lead, q)[i - 1], q[i]>>]
    <3>1. Len(q) \in Nat /\ q[i] \in Segments /\ i - 1 \in 0 .. Len(q)
      BY LenProperties, ElementOfSeq
    <3>2. Pushed(lead, q)[i - 1] \in Seq(Segments)
          /\ Pushed(lead, q)[i] = Push(lead, Pushed(lead, q)[i - 1], q[i])
      BY <3>1, PushedAre
    <3>3. QED
      BY <3>1, <3>2
  <2>2. QED
    BY <2>1 DEF Goes
<1>4. ASSUME NEW s \in Segments PROVE Comps(lead, Append(p, s)) = Push(lead, Comps(lead, p), s)
  <2>1. Append(p, s) \in Seq(Segments) /\ Len(Append(p, s)) = Len(p) + 1
    BY AppendProperties
  <2>2. Pushed(lead, p)[0] = <<>> /\ Pushed(lead, Append(p, s))[0] = <<>>
    BY <2>1, PushedAre
  <2>3. Goes(Pushed(lead, p), g, p) /\ Goes(Pushed(lead, Append(p, s)), g, Append(p, s))
    BY <1>3, <2>1
  <2>4. Pushed(lead, Append(p, s))[Len(p) + 1] = g[<<Pushed(lead, p)[Len(p)], s>>]
    <3> HIDE DEF g
    <3>1. QED
      BY <2>2, <2>3, WayOn
  <2>5. QED
    BY <1>2, <2>1, <2>4 DEF Comps
<1>5. QED
  BY <1>2, <1>4

\* From the root, the components are the places: normpath drops a ".." there.
LEMMA CompsAbsolute ==
  ASSUME NEW lead, lead # 0, NEW p \in Seq(Segments)
  PROVE  Comps(lead, p) = Walk(<<>>, p)
<1> DEFINE G == {r \in Seq(Segments) : Comps(lead, r) = Walk(<<>>, r)}
<1>1. <<>> \in Seq(Segments) /\ <<>> \in Seq(FileNames)
  BY EmptySeq
<1>2. <<>> \in G
  BY <1>1, WalkStarts, CompsOn
<1>3. ASSUME NEW r \in Seq(Segments), NEW s \in Segments, r \in G PROVE Append(r, s) \in G
  <2> DEFINE at == Walk(<<>>, r)
  <2>1. Comps(lead, Append(r, s)) = Push(lead, at, s) /\ Append(r, s) \in Seq(Segments)
    BY <1>3, CompsOn, AppendProperties
  <2>2. Walk(<<>>, Append(r, s)) = Enter(at, s)
    BY <1>1, WalkOn
  <2>3. at \in Seq(FileNames)
    BY <1>1, WalkNames
  <2> HIDE DEF at
  <2>4. at # <<>> => Last(at) # ".."
    BY <2>3, FrontIs, SegmentFacts
  <2>5. Push(lead, at, s) = Enter(at, s)
    BY <2>4 DEF Push, Enter
  <2>6. QED
    BY <2>1, <2>2, <2>5
<1>4. \A r \in Seq(Segments) : r \in G
  <2> HIDE DEF G
  <2>1. QED
    BY <1>2, <1>3, SeqInduction
<1>5. QED
  BY <1>4

\* What normpath keeps of a relative path: names, after those ".." that led nowhere.
Kept == FileNames \cup {".."}

Downward(c) == c \in Seq(FileNames) \/ (c # <<>> /\ c[1] = "..")

\* One round of normpath's loop on a relative path, step by step.
LEMMA PushRelative ==
  ASSUME NEW c \in Seq(Kept), Downward(c), NEW s \in Segments
  PROVE  /\ Push(0, c, s) \in Seq(Kept) /\ Downward(Push(0, c, s))
         /\ \A from \in Seq(Segments) : Walk(from, Push(0, c, s)) = Enter(Walk(from, c), s)
<1>1. Kept \subseteq Segments /\ FileNames \subseteq Kept /\ c \in Seq(Segments)
      /\ ".." \in Kept /\ ".." \notin FileNames
  <2>1. Kept \subseteq Segments /\ FileNames \subseteq Kept /\ ".." \in Kept /\ ".." \notin FileNames
    BY SegmentFacts DEF Kept
  <2>2. QED
    BY <2>1, SeqMonotonic
<1>2. CASE s \in {"", "."}
  BY <1>2 DEF Push, Enter
<1>3. CASE s = ".." /\ c # <<>> /\ Last(c) # ".."
  <2> DEFINE f == Front(c)
             l == Last(c)
  <2>1. /\ f \in Seq(Kept) /\ l \in Kept /\ Len(f) = Len(c) - 1 /\ Len(c) \in Nat \ {0}
        /\ l = c[Len(c)] /\ \A i \in 1 .. Len(c) - 1 : f[i] = c[i]
    BY <1>3, FrontIs
  <2>2. c = Append(f, l)
    <3>1. /\ Append(f, l) \in Seq(Kept) /\ Len(Append(f, l)) = Len(f) + 1
          /\ \A i \in 1 .. Len(f) : Append(f, l)[i] = f[i]
          /\ Append(f, l)[Len(f) + 1] = l
      BY <2>1, AppendProperties
    <3>2. Len(f) + 1 = Len(c)
      BY <2>1
    <3>3. ASSUME NEW i \in 1 .. Len(c) PROVE Append(f, l)[i] = c[i]
      <4>1. i \in 1 .. Len(f) \/ i = Len(f) + 1
        BY <2>1
      <4>2. QED
        BY <2>1, <3>1, <3>2, <4>1
    <3>4. QED
      BY <3>1, <3>2, <3>3, SeqEqual
  <2>3. Downward(f)
    <3>1. CASE c \in Seq(FileNames)
      BY <1>3, <3>1, FrontIs DEF Downward
    <3>2. CASE c \notin Seq(FileNames)
      <4>1. c[1] = ".."
        BY <3>2 DEF Downward
      <4>2. Len(c) # 1
        BY <1>3, <2>1, <4>1
      <4>3. f[1] = ".." /\ Len(f) # 0
        BY <2>1, <4>1, <4>2
      <4>4. f # <<>>
        BY <4>3, EmptySeq
      <4>5. QED
        BY <4>3, <4>4 DEF Downward
    <3>3. QED
      BY <3>1, <3>2
  <2>4. Push(0, c, s) = f
    BY <1>3 DEF Push
  <2>5. ASSUME NEW from \in Seq(Segments) PROVE Walk(from, f) = Enter(Walk(from, c), s)
    <3>1. f \in Seq(Segments) /\ l \in Segments /\ l \notin {"", ".", ".."}
      BY <1>1, <1>3, <2>1, SeqMonotonic, SegmentFacts DEF Kept
    <3> HIDE DEF f, l
    <3>2. Walk(from, f) \in Seq(Segments)
      BY <3>1, WalkTypes
    <3>3. Walk(from, c) = Enter(Walk(from, f), l)
      BY <2>2, <3>1, WalkOn
    <3>4. Walk(from, c) = Append(Walk(from, f), l)
      BY <3>1, <3>3 DEF Enter
    <3>5. Front(Append(Walk(from, f), l)) = Walk(from, f) /\ Append(Walk(from, f), l) # <<>>
      BY <3>1, <3>2, FrontOfAppend
    <3>6. QED
      BY <1>3, <3>4, <3>5 DEF Enter
  <2>6. QED
    BY <2>1, <2>3, <2>4, <2>5
<1>4. CASE /\ s \notin {"", "."}
           /\ ~(s = ".." /\ c # <<>> /\ Last(c) # "..")
  <2>1. Push(0, c, s) = Append(c, s)
    BY <1>4 DEF Push
  <2>2. s \in Kept
    BY <1>4, SegmentFacts DEF Kept
  <2>3. Append(c, s) \in Seq(Kept)
    BY <2>2, AppendProperties
  <2>4. Downward(Append(c, s))
    <3>1. /\ Append(c, s) # <<>> /\ Len(c) \in Nat /\ Append(c, s)[Len(c) + 1] = s
          /\ \A i \in 1 .. Len(c) : Append(c, s)[i] = c[i]
      BY <2>2, AppendProperties, LenProperties
    <3>2. CASE c \in Seq(FileNames)
      <4>1. CASE s \in FileNames
        BY <3>2, <4>1, AppendProperties DEF Downward
      <4>2. CASE s \notin FileNames
        <5>1. s = ".."
          BY <1>4, <4>2, SegmentFacts
        <5>2. c # <<>> => Last(c) \in FileNames
          BY <3>2, FrontIs
        <5>3. c = <<>>
          BY <1>1, <1>4, <5>1, <5>2
        <5>4. Append(c, s)[1] = ".."
          BY <3>1, <5>1, <5>3
        <5>5. QED
          BY <3>1, <5>4 DEF Downward
      <4>3. QED
        BY <4>1, <4>2
    <3>3. CASE c \notin Seq(FileNames)
      <4>1. c[1] = ".." /\ c # <<>>
        BY <3>3 DEF Downward
      <4>2. Len(c) # 0
        BY <4>1, EmptySeq
      <4>3. Append(c, s)[1] = ".."
        BY <3>1, <4>1, <4>2
      <4>4. QED
        BY <3>1, <4>3 DEF Downward
    <3>4. QED
      BY <3>2, <3>3
  <2>5. \A from \in Seq(Segments) : Walk(from, Append(c, s)) = Enter(Walk(from, c), s)
    BY <1>1, WalkOn
  <2>6. QED
    BY <2>1, <2>3, <2>4, <2>5
<1>5. QED
  BY <1>2, <1>3, <1>4

\* The normal form of a relative path leads where the path leads, from anywhere.
LEMMA CompsRelative ==
  ASSUME NEW p \in Seq(Segments)
  PROVE  /\ Comps(0, p) \in Seq(Kept) /\ Downward(Comps(0, p))
         /\ \A from \in Seq(Segments) : Walk(from, Comps(0, p)) = Walk(from, p)
<1> DEFINE Good(r) == /\ Comps(0, r) \in Seq(Kept) /\ Downward(Comps(0, r))
                      /\ \A from \in Seq(Segments) : Walk(from, Comps(0, r)) = Walk(from, r)
           G == {r \in Seq(Segments) : Good(r)}
<1>1. <<>> \in Seq(Segments) /\ <<>> \in Seq(Kept) /\ <<>> \in Seq(FileNames)
  BY EmptySeq
<1>2. <<>> \in G
  <2>1. Comps(0, <<>>) = <<>>
    BY <1>1, CompsOn
  <2>2. QED
    BY <1>1, <2>1 DEF Downward
<1>3. ASSUME NEW r \in Seq(Segments), NEW s \in Segments, r \in G PROVE Append(r, s) \in G
  <2>1. Comps(0, Append(r, s)) = Push(0, Comps(0, r), s) /\ Append(r, s) \in Seq(Segments)
    BY CompsOn, AppendProperties
  <2>2. Good(r)
    BY <1>3
  <2>3. /\ Push(0, Comps(0, r), s) \in Seq(Kept) /\ Downward(Push(0, Comps(0, r), s))
        /\ \A from \in Seq(Segments) :
             Walk(from, Push(0, Comps(0, r), s)) = Enter(Walk(from, Comps(0, r)), s)
    BY <2>2, PushRelative
  <2>4. \A from \in Seq(Segments) : Walk(from, Append(r, s)) = Enter(Walk(from, r), s)
    BY WalkOn
  <2>5. Good(Append(r, s))
    BY <2>1, <2>2, <2>3, <2>4
  <2>6. QED
    BY <2>1, <2>5
<1>4. \A r \in Seq(Segments) : r \in G
  <2> HIDE DEF G
  <2>1. QED
    BY <1>2, <1>3, SeqInduction
<1>5. QED
  BY <1>4

\* A path that never goes above where it began has names only in its normal form.
LEMMA CompsStay ==
  ASSUME NEW p \in Seq(Segments), \A i \in DOMAIN p : Places(<<"here">>, p)[i] # <<>>
  PROVE  Comps(0, p) \in Seq(FileNames)
<1> DEFINE U == Segments \cup {"here"}
           here == <<"here">>
           at == Places(here, p)
           c == Pushed(0, p)
           Stays(n) == c[n] \in Seq(FileNames) /\ at[n] = here \o c[n]
           G == {n \in Nat : n <= Len(p) => Stays(n)}
<1>1. /\ here \in Seq(U) /\ p \in Seq(U) /\ Segments \subseteq U /\ FileNames \subseteq U
      /\ Seq(FileNames) \subseteq Seq(U) /\ Seq(Segments) \subseteq Seq(U)
  <2>1. Segments \subseteq U /\ FileNames \subseteq U /\ "here" \in U
    BY SegmentFacts
  <2> HIDE DEF U
  <2>2. here \in Seq(U)
    BY <2>1
  <2>3. QED
    BY <2>1, <2>2, SeqMonotonic
<1> HIDE DEF U
<1>2. /\ at[0] = here
      /\ \A i \in 1 .. Len(p) : at[i] = Enter(at[i - 1], p[i])
  <2>1. ASSUME NEW from \in Seq(U)
        PROVE  /\ Places(from, p)[0] = from
               /\ \A i \in 1 .. Len(p) : Places(from, p)[i] = Enter(Places(from, p)[i - 1], p[i])
    BY <1>1, PlacesAre
  <2>2. QED
    BY <1>1, <2>1
<1>3. /\ c[0] = <<>>
      /\ \A i \in 1 .. Len(p) : c[i] = Push(0, c[i - 1], p[i])
  BY PushedAre
<1>4. /\ Len(p) \in Nat /\ \A i \in 1 .. Len(p) : p[i] \in Segments /\ at[i] # <<>>
  BY LenProperties, ElementOfSeq
<1>5. Front(here) = <<>> /\ here # <<>>
  BY DEF Front
<1> HIDE DEF here, at, c
<1>6. 0 \in G
  <2>1. here \o <<>> = here /\ <<>> \in Seq(FileNames)
    BY <1>1, ConcatEmptySeq, EmptySeq
  <2>2. QED
    BY <1>2, <1>3, <2>1
<1>7. ASSUME NEW n \in Nat, n \in G PROVE n + 1 \in G
  <2>1. SUFFICES ASSUME n + 1 <= Len(p) PROVE Stays(n + 1)
    OBVIOUS
  <2>2. n + 1 \in 1 .. Len(p) /\ (n + 1) - 1 = n /\ n <= Len(p)
    BY <1>4, <2>1
  <2>3. c[n] \in Seq(FileNames) /\ at[n] = here \o c[n]
    BY <1>7, <2>2
  <2> DEFINE s == p[n + 1]
             b == c[n]
  <2>4. /\ at[n + 1] = Enter(at[n], s) /\ c[n + 1] = Push(0, b, s)
        /\ s \in Segments /\ at[n + 1] # <<>>
    BY <1>2, <1>3, <1>4, <2>2
  <2>5. b \in Seq(FileNames) /\ at[n] = here \o b
    BY <2>3
  <2> HIDE DEF s, b
  <2>6. CASE s \in {"", "."}
    BY <2>4, <2>5, <2>6 DEF Enter, Push
  <2>7. CASE s = ".." /\ b = <<>>
    <3>1. at[n] = here
      BY <1>1, <2>5, <2>7, ConcatEmptySeq
    <3>2. QED
      BY <1>5, <2>4, <2>7, <3>1 DEF Enter
  <2>8. CASE s = ".." /\ b # <<>>
    <3>1. PICK f \in Seq(FileNames), l \in FileNames : b = Append(f, l)
      BY <2>5, <2>8, SequenceEmptyOrAppend
    <3>2. Front(b) = f /\ Last(b) = l
      BY <3>1, FrontOfAppend
    <3>3. f \in Seq(U) /\ l \in U /\ l # ".."
      BY <1>1, SegmentFacts
    <3>4. here \o b = Append(here \o f, l) /\ here \o f \in Seq(U)
      BY <1>1, <3>1, <3>3, ConcatAppend
    <3>5. Front(Append(here \o f, l)) = here \o f /\ Append(here \o f, l) # <<>>
      BY <3>3, <3>4, FrontOfAppend
    <3>6. at[n + 1] = here \o f
      BY <2>4, <2>5, <2>8, <3>4, <3>5 DEF Enter
    <3>7. c[n + 1] = f
      BY <2>4, <2>8, <3>2, <3>3 DEF Push
    <3>8. QED
      BY <3>6, <3>7
  <2>9. CASE s \in FileNames
    <3>1. s \notin {"", ".", ".."}
      BY <2>9, SegmentFacts
    <3>2. at[n + 1] = Append(here \o b, s) /\ c[n + 1] = Append(b, s)
      BY <2>4, <2>5, <3>1 DEF Enter, Push
    <3>3. b \in Seq(U) /\ s \in U
      BY <1>1, <2>5, <2>9
    <3>4. here \o Append(b, s) = Append(here \o b, s)
      BY <1>1, <3>3, ConcatAppend
    <3>5. Append(b, s) \in Seq(FileNames)
      BY <2>5, <2>9, AppendProperties
    <3>6. QED
      BY <3>2, <3>4, <3>5
  <2>10. QED
    BY <2>4, <2>6, <2>7, <2>8, <2>9, SegmentFacts
<1>8. Len(p) \in G
  <2> HIDE DEF G
  <2>1. QED
    BY <1>4, <1>6, <1>7, NumberInduction
<1>9. QED
  BY <1>4, <1>8 DEF c, Comps

\* As many slashes as a normal form begins with, and what comes after them.
Slashes(n) == [i \in 1 .. n |-> ""]

Body(c) == IF c = <<>> THEN <<"">> ELSE c

\* Slashes are segments that lead nowhere.
LEMMA SlashesAre ==
  ASSUME NEW n \in Nat
  PROVE  Slashes(n) \in Seq({""}) /\ Slashes(n) \in Seq(Segments) /\ Len(Slashes(n)) = n
<1>1. Slashes(n) \in Seq({""}) /\ Len(Slashes(n)) = n
  BY DEF Slashes
<1>2. QED
  BY <1>1, SegmentFacts

\* After some slashes, a body leads to its own place.
LEMMA SlashedLeads ==
  ASSUME NEW n \in Nat, NEW c \in Seq(FileNames)
  PROVE  /\ Body(c) \in Seq(Segments) /\ Body(c) # <<>>
         /\ Slashes(n) \o Body(c) \in Seq(Segments)
         /\ Len(Slashes(n) \o Body(c)) = n + Len(Body(c)) /\ Len(Body(c)) \in Nat \ {0}
         /\ Walk(<<>>, Slashes(n) \o Body(c)) = c
<1> DEFINE b == Body(c)
           l == Slashes(n)
<1>1. <<"">> \in Seq({""}) /\ <<"">> \in Seq(Segments) /\ <<"">> # <<>> /\ <<>> \in Seq(Segments)
  <2>1. <<"">> \in Seq({""}) /\ <<"">> # <<>>
    OBVIOUS
  <2>2. QED
    BY <2>1, SegmentFacts, EmptySeq
<1>2. b \in Seq(Segments) /\ b # <<>>
  BY <1>1, SegmentFacts DEF Body
<1>3. Walk(<<>>, b) = c
  <2>1. CASE c = <<>>
    BY <1>1, <2>1, WalkSlashes DEF Body
  <2>2. CASE c # <<>>
    <3>1. Walk(<<>>, c) = <<>> \o c
      BY <1>1, WalkDown
    <3>2. <<>> \o c = c
      BY ConcatEmptySeq
    <3>3. QED
      BY <2>2, <3>1, <3>2 DEF Body
  <2>3. QED
    BY <2>1, <2>2
<1>4. l \in Seq({""}) /\ l \in Seq(Segments) /\ Len(l) = n
  BY SlashesAre
<1> HIDE DEF b, l
<1>5. l \o b \in Seq(Segments) /\ Len(l \o b) = n + Len(b) /\ Len(b) \in Nat \ {0}
  BY <1>2, <1>4, ConcatProperties, LenProperties, EmptySeq
<1>6. Walk(<<>>, l \o b) = Walk(Walk(<<>>, l), b)
  <2>1. ASSUME NEW from \in Seq(Segments), NEW x \in Seq(Segments), NEW y \in Seq(Segments)
        PROVE  Walk(from, x \o y) = Walk(Walk(from, x), y)
    BY WalkThrough
  <2>2. QED
    BY <1>1, <1>2, <1>4, <2>1
<1>7. Walk(<<>>, l) = <<>>
  BY <1>1, <1>4, WalkSlashes
<1>8. QED
  BY <1>2, <1>3, <1>5, <1>6, <1>7 DEF b, l

\* Normal forms of absolute paths: one or two slashes, and the place.
LEMMA NormAbsolute ==
  ASSUME NEW p \in Seq(Segments), IsAbsolute(p)
  PROVE  /\ Lead(p) \in {1, 2} /\ Walk(<<>>, p) \in Seq(FileNames)
         /\ NormPath(p) = Slashes(Lead(p)) \o Body(Walk(<<>>, p))
<1>1. Lead(p) \in {1, 2}
  BY DEF Lead
<1>2. Comps(Lead(p), p) = Walk(<<>>, p)
  <2>1. Lead(p) # 0
    BY <1>1
  <2> DEFINE n == Lead(p)
  <2> HIDE DEF n
  <2>2. n # 0 => Comps(n, p) = Walk(<<>>, p)
    BY CompsAbsolute
  <2>3. QED
    BY <2>1, <2>2 DEF n
<1>3. Walk(<<>>, p) \in Seq(FileNames)
  BY EmptySeq, WalkNames
<1>4. NormPath(p) = CASE Comps(Lead(p), p) # <<>> -> Slashes(Lead(p)) \o Comps(Lead(p), p)
                      [] Comps(Lead(p), p) = <<>> /\ Lead(p) = 0 -> <<".">>
                      [] OTHER -> Slashes(Lead(p)) \o <<"">>
  BY DEF NormPath, Comps, Slashes
<1> DEFINE n == Lead(p)
           c == Walk(<<>>, p)
<1>5. NormPath(p) = CASE c # <<>> -> Slashes(n) \o c
                      [] c = <<>> /\ n = 0 -> <<".">>
                      [] OTHER -> Slashes(n) \o <<"">>
  BY <1>2, <1>4
<1>6. NormPath(p) = Slashes(n) \o Body(c)
  <2>n. n # 0
    BY <1>1
  <2> HIDE DEF n, c
  <2>1. CASE c = <<>>
    <3>1. NormPath(p) = Slashes(n) \o <<"">>
      BY <1>5, <2>n, <2>1
    <3>2. QED
      BY <2>1, <3>1 DEF Body
  <2>2. CASE c # <<>>
    BY <1>5, <2>2 DEF Body
  <2>3. QED
    BY <2>1, <2>2
<1>7. QED
  BY <1>1, <1>3, <1>6

\* Normal forms of relative paths: what is kept, or ".".
LEMMA NormRelative ==
  ASSUME NEW p \in Seq(Segments), ~IsAbsolute(p)
  PROVE  NormPath(p) = IF Comps(0, p) = <<>> THEN <<".">> ELSE Comps(0, p)
<1>1. Lead(p) = 0
  BY DEF Lead
<1>2. NormPath(p) = CASE Comps(0, p) # <<>> -> Slashes(0) \o Comps(0, p)
                      [] Comps(0, p) = <<>> /\ 0 = 0 -> <<".">>
                      [] OTHER -> Slashes(0) \o <<"">>
  BY <1>1 DEF NormPath, Comps, Slashes
<1>3. Slashes(0) = <<>>
  BY SlashesAre, EmptySeq
<1>4. <<>> \o Comps(0, p) = Comps(0, p)
  BY CompsOn, ConcatEmptySeq
<1>5. QED
  BY <1>2, <1>3, <1>4

\* Names are what is kept of them.
LEMMA CompsOfNames ==
  ASSUME NEW p \in Seq(FileNames)
  PROVE  Comps(0, p) = p
<1> DEFINE G == {r \in Seq(FileNames) : Comps(0, r) = r}
<1>1. <<>> \in G
  BY EmptySeq, CompsOn
<1>2. ASSUME NEW r \in Seq(FileNames), NEW s \in FileNames, r \in G PROVE Append(r, s) \in G
  <2>1. r \in Seq(Segments) /\ s \in Segments /\ s \notin {"", ".", ".."}
    BY SegmentFacts
  <2>2. Comps(0, Append(r, s)) = Push(0, r, s) /\ Append(r, s) \in Seq(FileNames)
    <3>1. Comps(0, Append(r, s)) = Push(0, Comps(0, r), s)
      BY <2>1, CompsOn
    <3>2. QED
      BY <1>2, <3>1, AppendProperties
  <2>3. Push(0, r, s) = Append(r, s)
    BY <2>1 DEF Push
  <2>4. QED
    BY <2>2, <2>3
<1>3. \A r \in Seq(FileNames) : r \in G
  <2> HIDE DEF G
  <2>1. QED
    BY <1>1, <1>2, SeqInduction
<1>4. QED
  BY <1>3

\* Names are a normal form.
LEMMA NamesAreNormal ==
  ASSUME NEW p \in Seq(FileNames), p # <<>>
  PROVE  ~IsAbsolute(p) /\ NormPath(p) = p
<1>1. p \in Seq(Segments) /\ "" \notin FileNames
  BY SegmentFacts
<1>2. ~IsAbsolute(p)
  <2>1. Len(p) \in Nat \ {0}
    BY EmptySeq
  <2>2. 1 \in 1 .. Len(p)
    BY <2>1
  <2>3. p[1] \in FileNames
    BY <2>2, ElementOfSeq
  <2>4. QED
    BY <1>1, <2>3 DEF IsAbsolute
<1>3. Comps(0, p) = p
  BY CompsOfNames
<1>4. QED
  BY <1>1, <1>2, <1>3, NormRelative

-----------------------------------------------------------------------------
(* Stripping. *)

\* A function on the first numbers is a sequence.
LEMMA IsSeq ==
  ASSUME NEW U, NEW n \in Nat, NEW f \in [1 .. n -> U]
  PROVE  f \in Seq(U) /\ Len(f) = n
<1>1. f \in Seq(U)
  BY SeqDef
<1>2. Len(f) \in Nat /\ 1 .. Len(f) = 1 .. n
  BY <1>1, LenProperties
<1>3. Len(f) = n
  <2>1. CASE Len(f) < n
    BY <1>2, <2>1, n \in 1 .. n, n \notin 1 .. Len(f)
  <2>2. CASE Len(f) > n
    BY <1>2, <2>2, Len(f) \in 1 .. Len(f), Len(f) \notin 1 .. n
  <2>3. QED
    BY <1>2, <2>1, <2>2
<1>4. QED
  BY <1>1, <1>3

\* A path without the blanks at its ends.
LEMMA StripTypes ==
  ASSUME NEW p \in Seq(Segments), p # <<>>
  PROVE  /\ Strip(p) \in Seq(Segments) /\ Strip(p) # <<>> /\ Len(Strip(p)) = Len(p)
         /\ Len(p) \in Nat \ {0} /\ DOMAIN p = 1 .. Len(p)
<1>1. Len(p) \in Nat \ {0} /\ DOMAIN p = 1 .. Len(p) /\ \A i \in 1 .. Len(p) : p[i] \in Segments
  BY LenProperties, ElementOfSeq, EmptySeq
<1>2. ASSUME NEW s \in Segments PROVE TrimLeft(s) \in Segments /\ TrimRight(s) \in Segments
  <2>1. "" \in Segments /\ Names \subseteq Segments
    BY DEF Segments
  <2>2. TrimLeft(s) \in Segments
    BY <2>1 DEF TrimLeft
  <2>3. CASE s = " "
    BY <2>1, <2>2, <2>3 DEF TrimRight
  <2>4. CASE s # " " /\ \E n \in Names : s = n \o " "
    <3>1. TrimRight(s) = CHOOSE n \in Names : s = n \o " "
      BY <2>4 DEF TrimRight
    <3>2. TrimRight(s) \in Names
      BY <2>4, <3>1
    <3>3. QED
      BY <2>1, <2>2, <3>2
  <2>5. CASE s # " " /\ ~(\E n \in Names : s = n \o " ")
    BY <2>2, <2>5 DEF TrimRight
  <2>6. QED
    BY <2>3, <2>4, <2>5
<1>3. Strip(p) \in [1 .. Len(p) -> Segments]
  BY <1>1, <1>2 DEF Strip
<1>4. Strip(p) \in Seq(Segments) /\ Len(Strip(p)) = Len(p)
  BY <1>1, <1>3, IsSeq
<1>5. QED
  BY <1>1, <1>4, EmptySeq

\* Two parts of a path.
LEMMA Parts ==
  ASSUME NEW U, NEW q \in Seq(U), NEW k \in 0 .. Len(q)
  PROVE  /\ SubSeq(q, 1, k) \in Seq(U) /\ Len(SubSeq(q, 1, k)) = k
         /\ \A i \in 1 .. k : SubSeq(q, 1, k)[i] = q[i]
         /\ SubSeq(q, k + 1, Len(q)) \in Seq(U) /\ Len(SubSeq(q, k + 1, Len(q))) = Len(q) - k
         /\ \A i \in 1 .. Len(q) - k : SubSeq(q, k + 1, Len(q))[i] = q[k + i]
         /\ q = SubSeq(q, 1, k) \o SubSeq(q, k + 1, Len(q))
<1>1. Len(q) \in Nat /\ k \in Nat /\ k <= Len(q) /\ \A i \in 1 .. Len(q) : q[i] \in U
  BY LenProperties, ElementOfSeq
<1> DEFINE n == Len(q)
           a == SubSeq(q, 1, k)
           b == SubSeq(q, k + 1, n)
<1>2. 1 \in Int /\ k \in Int /\ k + 1 \in Int /\ n \in Int
      /\ (\A i \in 1 .. k : q[i] \in U) /\ (\A i \in k + 1 .. n : q[i] \in U)
  BY <1>1
<1>3. /\ a \in Seq(U) /\ Len(a) = (IF 1 <= k THEN k - 1 + 1 ELSE 0)
      /\ \A i \in 1 .. k - 1 + 1 : a[i] = q[1 + i - 1]
  BY <1>2, SubSeqProperties
<1>4. /\ b \in Seq(U) /\ Len(b) = (IF k + 1 <= n THEN n - (k + 1) + 1 ELSE 0)
      /\ \A i \in 1 .. n - (k + 1) + 1 : b[i] = q[(k + 1) + i - 1]
  BY <1>2, SubSeqProperties
<1>n. n \in Nat /\ k \in Nat /\ k <= n /\ n = Len(q)
  BY <1>1
<1> HIDE DEF n, a, b
<1>5. Len(a) = k /\ \A i \in 1 .. k : a[i] = q[i]
  BY <1>n, <1>3
<1>6. Len(b) = n - k /\ \A i \in 1 .. n - k : b[i] = q[k + i]
  <2>1. Len(b) = n - k
    BY <1>n, <1>4
  <2>2. ASSUME NEW i \in 1 .. n - k PROVE b[i] = q[k + i]
    <3>1. i \in 1 .. n - (k + 1) + 1 /\ (k + 1) + i - 1 = k + i
      BY <1>n
    <3>2. QED
      BY <1>4, <3>1
  <2>3. QED
    BY <2>1, <2>2
<1>7. q = a \o b
  <2>1. a \o b \in Seq(U) /\ Len(a \o b) = n
        /\ \A i \in 1 .. n : (a \o b)[i] = IF i <= k THEN a[i] ELSE b[i - k]
    <3>1. /\ a \o b \in Seq(U) /\ Len(a \o b) = Len(a) + Len(b)
          /\ \A i \in 1 .. Len(a) + Len(b) :
               (a \o b)[i] = IF i <= Len(a) THEN a[i] ELSE b[i - Len(a)]
      BY <1>3, <1>4, ConcatProperties
    <3>2. Len(a) = k /\ Len(a) + Len(b) = n
      BY <1>n, <1>5, <1>6
    <3>3. QED
      BY <3>1, <3>2
  <2>2. ASSUME NEW i \in 1 .. n PROVE q[i] = (a \o b)[i]
    <3>1. CASE i <= k
      BY <1>n, <1>5, <2>1, <3>1
    <3>2. CASE ~(i <= k)
      <4>1. i - k \in 1 .. n - k /\ k + (i - k) = i
        BY <1>n, <3>2
      <4>2. QED
        BY <1>6, <2>1, <3>2, <4>1
    <3>3. QED
      BY <3>1, <3>2
  <2>3. QED
    BY <1>n, <2>1, <2>2, SeqEqual
<1>8. QED
  BY <1>3, <1>4, <1>5, <1>6, <1>7 DEF a, b, n

\* What begins with numbers of B ends somewhere, at the latest at n.
LEMMA FirstName ==
  ASSUME NEW n \in Nat, n # 0, NEW B
  PROVE  \E i \in 1 .. n : (i = n \/ i \notin B) /\ \A j \in 1 .. i - 1 : j \in B
<1> DEFINE T == {i \in 1 .. n : i = n \/ i \notin B}
<1>1. T \subseteq Nat /\ n \in T
  OBVIOUS
<1>2. \E i \in T : \A j \in T : i <= j
  <2> HIDE DEF T
  <2>1. QED
    BY <1>1, LeastNumber
<1>3. PICK i \in T : \A j \in T : i <= j
  BY <1>2
<1>4. ASSUME NEW j \in 1 .. i - 1 PROVE j \in B
  BY <1>3
<1>5. QED
  BY <1>3, <1>4

\* What ends with numbers of B begins somewhere, at the earliest at 1.
LEMMA LastName ==
  ASSUME NEW n \in Nat, n # 0, NEW B
  PROVE  \E i \in 1 .. n : (i = 1 \/ i \notin B) /\ \A j \in i + 1 .. n : j \in B
<1> DEFINE T == {i \in 1 .. n : \A j \in i + 1 .. n : j \in B}
<1>1. T \subseteq Nat /\ n \in T
  OBVIOUS
<1>2. \E i \in T : \A j \in T : i <= j
  <2> HIDE DEF T
  <2>1. QED
    BY <1>1, LeastNumber
<1>3. PICK i \in T : \A j \in T : i <= j
  BY <1>2
<1>4. ASSUME i # 1, i \in B PROVE FALSE
  <2>1. i - 1 \in 1 .. n /\ i \in 1 .. n /\ \A j \in i + 1 .. n : j \in B
    BY <1>3, <1>4
  <2>2. ASSUME NEW j \in (i - 1) + 1 .. n PROVE j \in B
    <3>1. j = i \/ j \in i + 1 .. n
      BY <2>1
    <3>2. QED
      BY <1>4, <2>1, <3>1
  <2>3. i - 1 \in T
    BY <2>1, <2>2
  <2>4. QED
    BY <1>3, <2>1, <2>3
<1>5. QED
  BY <1>3, <1>4

\* lstrip("/"): what is left of a path leads where the path leads from the root.
LEMMA LStripLeads ==
  ASSUME NEW p \in Seq(Segments), p # <<>>
  PROVE  /\ LStripSlashes(p) \in Seq(Segments)
         /\ Walk(<<>>, LStripSlashes(p)) = Walk(<<>>, p)
         /\ p[1] # "" => LStripSlashes(p) = p
<1> DEFINE First(i) == (i = Len(p) \/ p[i] # "") /\ \A j \in 1 .. i - 1 : p[j] = ""
           first == CHOOSE i \in DOMAIN p : First(i)
           k == first - 1
           a == SubSeq(p, 1, k)
           b == SubSeq(p, k + 1, Len(p))
<1>1. Len(p) \in Nat \ {0} /\ DOMAIN p = 1 .. Len(p)
  BY LenProperties, EmptySeq
<1>2. \E i \in DOMAIN p : First(i)
  <2> DEFINE B == {i \in 1 .. Len(p) : p[i] = ""}
  <2>1. \E i \in 1 .. Len(p) : (i = Len(p) \/ i \notin B) /\ \A j \in 1 .. i - 1 : j \in B
    <3> HIDE DEF B
    <3>1. QED
      BY <1>1, FirstName
  <2>2. QED
    BY <1>1, <2>1
<1>3. first \in DOMAIN p /\ First(first)
  <2> HIDE DEF First
  <2>1. QED
    BY <1>2
<1>4. LStripSlashes(p) = SubSeq(p, first, Len(p))
  BY DEF LStripSlashes
<1> HIDE DEF first
<1>5. k \in 0 .. Len(p) /\ k + 1 = first /\ first \in 1 .. Len(p)
  <2>1. first \in 1 .. Len(p) /\ Len(p) \in Nat
    BY <1>1, <1>3
  <2> HIDE DEF First
  <2>2. QED
    BY <2>1
<1>6. LStripSlashes(p) = b
  BY <1>4, <1>5
<1> HIDE DEF k
<1>7. /\ a \in Seq(Segments) /\ b \in Seq(Segments) /\ p = a \o b
      /\ Len(a) = k /\ \A i \in 1 .. k : a[i] = p[i]
  BY <1>5, Parts
<1>8. a \in Seq({""})
  <2>1. \A i \in 1 .. k : a[i] = ""
    BY <1>3, <1>7 DEF k
  <2> HIDE DEF a
  <2>2. a \in [1 .. k -> {""}] /\ k \in Nat
    BY <1>1, <1>5, <1>7, <2>1, LenProperties
  <2>3. QED
    BY <2>2, IsSeq
<1>9. Walk(<<>>, p) = Walk(Walk(<<>>, a), b)
  <2> HIDE DEF a, b
  <2>1. <<>> \in Seq(Segments)
    BY EmptySeq
  <2>2. ASSUME NEW from \in Seq(Segments), NEW x \in Seq(Segments), NEW y \in Seq(Segments)
        PROVE  Walk(from, x \o y) = Walk(Walk(from, x), y)
    BY WalkThrough
  <2>3. QED
    BY <1>7, <2>1, <2>2
<1>10. Walk(<<>>, a) = <<>>
  BY <1>8, EmptySeq, WalkSlashes
<1>11. ASSUME p[1] # "" PROVE LStripSlashes(p) = p
  <2>1. ~(1 \in 1 .. first - 1)
    BY <1>3, <1>11
  <2>2. first = 1
    BY <1>1, <1>5, <2>1
  <2>3. SubSeq(p, 1, Len(p)) = p
    BY SubSeqFull
  <2>4. QED
    BY <1>4, <2>2, <2>3
<1>12. QED
  BY <1>6, <1>7, <1>9, <1>10, <1>11

\* The lengths of what is not empty.
LEMMA Lengths ==
  /\ \A m, n \in Nat : m # 0 /\ n # 0 => 1 \in 1 .. m + n /\ 1 <= m /\ m + n > 1
  /\ \A n \in Nat : n > 1 => 1 \in 1 .. n - 1 /\ n - 1 # 0
OBVIOUS

\* An absolute path has a second segment, and an empty first one.
LEMMA AbsoluteFacts ==
  ASSUME NEW p \in Seq(Segments), IsAbsolute(p)
  PROVE  p # <<>> /\ Len(p) \in Nat \ {0} /\ Len(p) > 1 /\ p[1] = "" /\ DOMAIN p = 1 .. Len(p)
<1>0. p[1] = ""
  BY DEF IsAbsolute
<1>1. Len(p) > 1
  BY DEF IsAbsolute
<1>2. Len(p) \in Nat /\ DOMAIN p = 1 .. Len(p)
  BY LenProperties
<1>3. Len(p) # 0
  BY <1>1, <1>2
<1>4. p # <<>>
  BY <1>3, EmptySeq
<1>5. QED
  BY <1>0, <1>1, <1>2, <1>3, <1>4

\* A path after a slash is absolute.
LEMMA ConcatAbsolute ==
  ASSUME NEW a \in Seq(Segments), NEW b \in Seq(Segments), a # <<>>, b # <<>>, a[1] = ""
  PROVE  a \o b \in Seq(Segments) /\ IsAbsolute(a \o b)
<1>1. Len(a) \in Nat /\ Len(a) # 0 /\ Len(b) \in Nat /\ Len(b) # 0
  BY EmptySeq
<1>2. /\ a \o b \in Seq(Segments) /\ Len(a \o b) = Len(a) + Len(b)
      /\ \A i \in 1 .. Len(a) + Len(b) : (a \o b)[i] = IF i <= Len(a) THEN a[i] ELSE b[i - Len(a)]
  BY ConcatProperties
<1>3. 1 \in 1 .. Len(a) + Len(b) /\ 1 <= Len(a) /\ Len(a) + Len(b) > 1
  BY <1>1, Lengths, Zenon
<1>4. (a \o b)[1] = ""
  BY <1>2, <1>3
<1>5. QED
  BY <1>2, <1>3, <1>4 DEF IsAbsolute

\* One walk after another, from the root.
LEMMA FromRoot ==
  ASSUME NEW a \in Seq(Segments), NEW b \in Seq(Segments)
  PROVE  Walk(<<>>, a \o b) = Walk(Walk(<<>>, a), b)
<1>1. ASSUME NEW from \in Seq(Segments) PROVE Walk(from, a \o b) = Walk(Walk(from, a), b)
  BY WalkThrough
<1>2. QED
  BY <1>1, EmptySeq

\* rstrip("/"): a path is cut after its first segment or later.
LEMMA RStripAbsolute ==
  ASSUME NEW p \in Seq(Segments), IsAbsolute(p)
  PROVE  \/ RStripSlashes(p) = <<"">>
         \/ RStripSlashes(p) \in Seq(Segments) /\ IsAbsolute(RStripSlashes(p))
<1> DEFINE Ends(i) == (i = 1 \/ p[i] # "") /\ \A j \in i + 1 .. Len(p) : p[j] = ""
           last == CHOOSE i \in DOMAIN p : Ends(i)
           a == SubSeq(p, 1, last)
<1>1. p # <<>> /\ Len(p) \in Nat /\ Len(p) # 0 /\ DOMAIN p = 1 .. Len(p) /\ p[1] = ""
  BY AbsoluteFacts
<1>2. \E i \in DOMAIN p : Ends(i)
  <2> DEFINE B == {i \in 1 .. Len(p) : p[i] = ""}
  <2>1. \E i \in 1 .. Len(p) : (i = 1 \/ i \notin B) /\ \A j \in i + 1 .. Len(p) : j \in B
    <3> HIDE DEF B
    <3>1. QED
      BY <1>1, LastName
  <2>2. QED
    BY <1>1, <2>1
<1>3. last \in DOMAIN p
  <2> HIDE DEF Ends
  <2>1. QED
    BY <1>2
<1>4. RStripSlashes(p) = a
  BY DEF RStripSlashes
<1> HIDE DEF last
<1>5. last \in 0 .. Len(p) /\ last \in Nat /\ last # 0
  <2>1. last \in 1 .. Len(p)
    BY <1>1, <1>3
  <2>2. Len(p) \in Nat
    BY <1>1
  <2>3. QED
    BY <2>1, <2>2
<1>6. a \in Seq(Segments) /\ Len(a) = last /\ \A i \in 1 .. last : a[i] = p[i]
  BY <1>5, Parts
<1>7. a[1] = ""
  <2>1. 1 \in 1 .. last
    BY <1>5
  <2>2. QED
    BY <1>1, <1>6, <2>1
<1>8. CASE last = 1
  <2> HIDE DEF a
  <2>0. <<"">> \in Seq({""}) /\ Len(<<"">>) = 1 /\ <<"">>[1] = ""
    OBVIOUS
  <2>1. <<"">> \in Seq(Segments) /\ Len(<<"">>) = 1 /\ <<"">>[1] = ""
    BY <2>0, SegmentFacts
  <2>2. Len(a) = 1 /\ \A i \in 1 .. Len(a) : a[i] = <<"">>[i]
    <3>1. Len(a) = 1
      BY <1>6, <1>8
    <3>2. \A i \in 1 .. 1 : i = 1
      OBVIOUS
    <3>3. QED
      BY <1>7, <2>1, <3>1, <3>2
  <2>3. a = <<"">>
    BY <1>6, <2>1, <2>2, SeqEqual
  <2>4. QED
    BY <1>4, <2>3
<1>9. CASE last # 1
  <2> HIDE DEF a
  <2>1. last > 1
    BY <1>5, <1>9
  <2>2. IsAbsolute(a)
    BY <1>6, <1>7, <2>1 DEF IsAbsolute
  <2>3. QED
    BY <1>4, <1>6, <2>2
<1>10. QED
  BY <1>8, <1>9

\* Whatever working_dir a user gives, config.py refuses it or makes it an absolute path.
LEMMA WorkingDirsAreAbsolute ==
  ASSUME NEW wd \in WorkingDirs
  PROVE  wd \in Seq(Segments) /\ IsAbsolute(wd)
<1> DEFINE Clean(d) == RStripSlashes(Strip(d))
<1>1. PICK d \in Directories :
        IsAbsolute(Strip(d)) /\ wd = IF Clean(d) = <<"">> THEN <<"", "">> ELSE Clean(d)
  BY DEF WorkingDirs
<1>2. Strip(d) \in Seq(Segments)
  <2>1. d \in Seq(Segments) /\ d # <<>>
    BY PathsAssumption
  <2>2. QED
    BY <2>1, StripTypes
<1>3. CASE Clean(d) = <<"">>
  <2>1. wd = <<"", "">>
    BY <1>1, <1>3
  <2>2. <<"", "">> \in Seq({""}) /\ IsAbsolute(<<"", "">>)
    BY DEF IsAbsolute
  <2>3. QED
    BY <2>1, <2>2, SegmentFacts
<1>4. CASE Clean(d) # <<"">>
  <2>1. wd = Clean(d)
    BY <1>1, <1>4
  <2>2. QED
    BY <1>1, <1>2, <1>4, <2>1, RStripAbsolute
<1>5. QED
  BY <1>3, <1>4

-----------------------------------------------------------------------------
(* Joining and resolving. *)

\* A relative path joined to a working directory leads there from that directory.
LEMMA JoinLeads ==
  ASSUME NEW wd \in Seq(Segments), IsAbsolute(wd), NEW p \in Seq(Segments), p # <<>>, ~IsAbsolute(p)
  PROVE  /\ Join(wd, p) \in Seq(Segments) /\ IsAbsolute(Join(wd, p))
         /\ Walk(<<>>, Join(wd, p)) = Walk(Walk(<<>>, wd), p)
<1> DEFINE a == IF Last(wd) = "" THEN Front(wd) ELSE wd
<1>1. Join(wd, p) = a \o p
  BY DEF Join
<1>2. wd # <<>> /\ Len(wd) \in Nat /\ Len(wd) > 1 /\ wd[1] = "" /\ <<>> \in Seq(Segments)
  BY AbsoluteFacts, EmptySeq
<1>3. /\ Front(wd) \in Seq(Segments) /\ Len(Front(wd)) = Len(wd) - 1
      /\ \A i \in 1 .. Len(wd) - 1 : Front(wd)[i] = wd[i]
  BY <1>2, FrontIs
<1>4. a \in Seq(Segments) /\ a # <<>> /\ a[1] = ""
  <2>0. Len(wd) \in Nat /\ Len(wd) > 1
    BY <1>2
  <2>1. 1 \in 1 .. Len(wd) - 1 /\ Len(wd) - 1 # 0
    BY <2>0, Lengths, Zenon
  <2>2. Front(wd) # <<>> /\ Front(wd)[1] = ""
    BY <1>2, <1>3, <2>1, EmptySeq
  <2>3. QED
    BY <1>2, <1>3, <2>2
<1>5. Walk(<<>>, a) = Walk(<<>>, wd)
  <2>1. CASE Last(wd) = ""
    <3>1. PICK f \in Seq(Segments), l \in Segments : wd = Append(f, l)
      BY <1>2, SequenceEmptyOrAppend
    <3>2. Front(wd) = f /\ Last(wd) = l
      BY <3>1, FrontOfAppend
    <3>3. Walk(<<>>, Append(f, l)) = Enter(Walk(<<>>, f), l)
      BY <1>2, WalkOn
    <3>4. Walk(<<>>, wd) = Walk(<<>>, f)
      BY <2>1, <3>1, <3>2, <3>3 DEF Enter
    <3>5. QED
      BY <2>1, <3>2, <3>4
  <2>2. CASE Last(wd) # ""
    BY <2>2
  <2>3. QED
    BY <2>1, <2>2
<1> HIDE DEF a
<1>6. a \o p \in Seq(Segments) /\ IsAbsolute(a \o p)
  BY <1>4, ConcatAbsolute
<1>7. Walk(<<>>, a \o p) = Walk(Walk(<<>>, a), p)
  BY <1>4, FromRoot
<1>8. QED
  BY <1>1, <1>5, <1>6, <1>7

\* The remote path of a relative path: absolute, and below the working directory.
LEMMA RemoteLeads ==
  ASSUME NEW wd \in Seq(Segments), IsAbsolute(wd), NEW p \in Seq(Segments), p # <<>>, ~IsAbsolute(p)
  PROVE  /\ JoinRemotePath(wd, p) \in Seq(Segments) /\ IsAbsolute(JoinRemotePath(wd, p))
         /\ Walk(<<>>, JoinRemotePath(wd, p)) = Walk(Walk(<<>>, wd), p)
<1> DEFINE j == Join(wd, p)
           c == Walk(<<>>, j)
           n == Lead(j)
<1>1. j \in Seq(Segments) /\ IsAbsolute(j) /\ c = Walk(Walk(<<>>, wd), p)
  BY JoinLeads
<1> HIDE DEF j
<1>2. n \in {1, 2} /\ c \in Seq(FileNames) /\ NormPath(j) = Slashes(n) \o Body(c)
  BY <1>1, NormAbsolute
<1> HIDE DEF n, c
<1>3. n \in Nat
  BY <1>2
<1>4. Body(c) \in Seq(Segments) /\ Body(c) # <<>> /\ Walk(<<>>, Slashes(n) \o Body(c)) = c
  BY <1>2, <1>3, SlashedLeads
<1>5. Slashes(n) \in Seq(Segments) /\ Len(Slashes(n)) = n
  BY <1>3, SlashesAre
<1>6. Slashes(n)[1] = ""
  <2>1. 1 \in 1 .. n
    BY <1>2
  <2>2. QED
    BY <2>1 DEF Slashes
<1>7. Slashes(n) # <<>>
  BY <1>2, <1>5, EmptySeq
<1>8. Slashes(n) \o Body(c) \in Seq(Segments) /\ IsAbsolute(Slashes(n) \o Body(c))
  BY <1>4, <1>5, <1>6, <1>7, ConcatAbsolute
<1>9. JoinRemotePath(wd, p) = Slashes(n) \o Body(c)
  BY <1>2 DEF JoinRemotePath, j
<1>10. QED
  BY <1>1, <1>4, <1>8, <1>9

\* A sequence is a prefix of what is made by adding to it, and of nothing else.
LEMMA PrefixOfConcat ==
  ASSUME NEW U, NEW a \in Seq(U), NEW b \in Seq(U)
  PROVE  /\ a \o b \in Seq(U) /\ IsPrefix(a, a \o b)
         /\ b # <<>> => a \o b # a
<1>1. /\ a \o b \in Seq(U) /\ Len(a \o b) = Len(a) + Len(b)
      /\ \A i \in 1 .. Len(a) + Len(b) : (a \o b)[i] = IF i <= Len(a) THEN a[i] ELSE b[i - Len(a)]
      /\ Len(a) \in Nat /\ Len(b) \in Nat
  BY ConcatProperties, LenProperties
<1> DEFINE t == a \o b
           f == SubSeq(t, 1, Len(a))
<1>2. Len(a) \in 0 .. Len(t) /\ Len(a) <= Len(t)
  BY <1>1
<1>3. f \in Seq(U) /\ Len(f) = Len(a) /\ \A i \in 1 .. Len(a) : f[i] = t[i]
  BY <1>1, <1>2, Parts
<1>4. \A i \in 1 .. Len(f) : f[i] = a[i]
  <2>1. ASSUME NEW i \in 1 .. Len(a) PROVE t[i] = a[i]
    BY <1>1
  <2>2. QED
    BY <1>3, <2>1
<1>5. f = a
  <2> HIDE DEF f
  <2>1. QED
    BY <1>3, <1>4, SeqEqual
<1>6. SubSeq(a, 1, Len(a)) = a
  BY SubSeqFull
<1>7. ASSUME b # <<>> PROVE t # a
  <2>1. Len(b) # 0
    BY <1>7, EmptySeq
  <2>2. Len(t) # Len(a)
    BY <1>1, <2>1
  <2>3. QED
    BY <2>2
<1>8. QED
  BY <1>1, <1>2, <1>5, <1>6, <1>7 DEF IsPrefix

\* A prefix and what follows it make the sequence.
LEMMA ConcatOfPrefix ==
  ASSUME NEW U, NEW a \in Seq(U), NEW t \in Seq(U), IsPrefix(a, t)
  PROVE  /\ SubSeq(t, Len(a) + 1, Len(t)) \in Seq(U)
         /\ t = a \o SubSeq(t, Len(a) + 1, Len(t))
<1>1. Len(a) \in Nat /\ Len(t) \in Nat /\ Len(a) <= Len(t)
  BY LenProperties DEF IsPrefix
<1>2. Len(a) \in 0 .. Len(t)
  BY <1>1
<1>3. /\ SubSeq(t, Len(a) + 1, Len(t)) \in Seq(U)
      /\ t = SubSeq(t, 1, Len(a)) \o SubSeq(t, Len(a) + 1, Len(t))
  BY <1>2, Parts
<1>4. SubSeq(t, 1, Len(a)) = a
  BY SubSeqFull DEF IsPrefix
<1>5. QED
  BY <1>3, <1>4

\* What is added to the same is the same.
LEMMA Cancel ==
  ASSUME NEW U, NEW a \in Seq(U), NEW b \in Seq(U), NEW c \in Seq(U), a \o b = a \o c
  PROVE  b = c
<1>1. /\ Len(a \o b) = Len(a) + Len(b) /\ Len(a \o c) = Len(a) + Len(c)
      /\ Len(a) \in Nat /\ Len(b) \in Nat /\ Len(c) \in Nat
  BY ConcatProperties, LenProperties
<1>2. Len(b) = Len(c)
  BY <1>1
<1>3. ASSUME NEW i \in 1 .. Len(b) PROVE b[i] = c[i]
  <2>1. /\ Len(a) + i \in 1 .. Len(a) + Len(b) /\ Len(a) + i \in 1 .. Len(a) + Len(c)
        /\ ~(Len(a) + i <= Len(a)) /\ (Len(a) + i) - Len(a) = i
    BY <1>1, <1>2
  <2>2. (a \o b)[Len(a) + i] = b[(Len(a) + i) - Len(a)]
    BY <2>1, ConcatProperties
  <2>3. (a \o c)[Len(a) + i] = c[(Len(a) + i) - Len(a)]
    BY <2>1, ConcatProperties
  <2>4. QED
    BY <2>1, <2>2, <2>3
<1>4. QED
  BY <1>2, <1>3, SeqEqual

\* What is added does not change how a path begins.
LEMMA FirstOf ==
  ASSUME NEW U, NEW a \in Seq(U), NEW b \in Seq(U), a # <<>>
  PROVE  (a \o b)[1] = a[1] /\ a[1] \in U /\ a \o b # <<>>
<1>1. Len(a) \in Nat \ {0} /\ Len(b) \in Nat
  BY EmptySeq, LenProperties
<1>2. 1 \in 1 .. Len(a) /\ 1 \in 1 .. Len(a) + Len(b) /\ 1 <= Len(a) /\ Len(a) + Len(b) # 0
  BY <1>1
<1>3. /\ a \o b \in Seq(U) /\ Len(a \o b) = Len(a) + Len(b)
      /\ \A i \in 1 .. Len(a) + Len(b) : (a \o b)[i] = IF i <= Len(a) THEN a[i] ELSE b[i - Len(a)]
  BY ConcatProperties
<1>4. QED
  BY <1>2, <1>3, ElementOfSeq, EmptySeq

\* Slashes differ by their number only.
LEMMA OnlySlashes ==
  ASSUME NEW a \in Seq({""}), NEW b \in Seq({""}), Len(a) = Len(b)
  PROVE  a = b
<1>1. ASSUME NEW i \in 1 .. Len(a) PROVE a[i] = b[i]
  <2>1. a[i] \in {""} /\ b[i] \in {""}
    BY ElementOfSeq
  <2>2. QED
    BY <2>1
<1>2. QED
  BY <1>1, SeqEqual

\* Three parts of a path.
LEMMA ThreeParts ==
  \A a, b, c \in Seq(Segments) : (a \o b) \o c = a \o (b \o c)
<1>1. ASSUME NEW a \in Seq(Segments), NEW b \in Seq(Segments), NEW c \in Seq(Segments)
      PROVE  (a \o b) \o c = a \o (b \o c)
  BY ConcatAssociative
<1>2. QED
  BY <1>1

\* One slash, or two.
LEMMA OneOrTwo ==
  ASSUME NEW b \in Seq(Segments)
  PROVE  /\ Slashes(1) \o b = <<"">> \o b
         /\ Slashes(2) \o b = <<"">> \o (<<"">> \o b)
         /\ <<"">> \in Seq(Segments) /\ <<"">> \o b \in Seq(Segments)
<1>1. <<"">> \in Seq({""})
  OBVIOUS
<1>2. <<"">> \in Seq(Segments)
  BY <1>1, SegmentFacts
<1>3. Slashes(1) = <<"">> /\ Slashes(2) = <<"">> \o <<"">>
  <2>2. Len(<<"">>) = 1
    OBVIOUS
  <2>3. <<"">> \o <<"">> \in Seq({""}) /\ Len(<<"">> \o <<"">>) = Len(<<"">>) + Len(<<"">>)
    BY <1>1, ConcatProperties
  <2>4. Len(<<"">> \o <<"">>) = 2
    BY <2>2, <2>3
  <2>5. Slashes(1) \in Seq({""}) /\ Slashes(2) \in Seq({""})
        /\ Len(Slashes(1)) = 1 /\ Len(Slashes(2)) = 2
    BY SlashesAre
  <2>6. QED
    BY <1>1, <2>2, <2>3, <2>4, <2>5, OnlySlashes
<1>4. (<<"">> \o <<"">>) \o b = <<"">> \o (<<"">> \o b)
  BY <1>2, ThreeParts
<1>5. QED
  BY <1>2, <1>3, <1>4, ConcatProperties

\* The normal form of an absolute path, and a path in two parts.
Normal(n, c) == Slashes(n) \o Body(c)

Consists(x, a, b) == x = a \o b

\* A normal form that continues another one has as many slashes, and its place continues.
LEMMA PlaceContinues ==
  ASSUME NEW m \in Nat, NEW n \in Nat, m = 1 \/ m = 2, n = 1 \/ n = 2,
         NEW base \in Seq(FileNames), base # <<>>,
         NEW place \in Seq(FileNames), NEW rel \in Seq(Segments),
         Consists(Normal(m, place), Normal(n, base), rel)
  PROVE  Consists(place, base, rel)
<1>0. Slashes(m) \o Body(place) = (Slashes(n) \o base) \o rel
  BY DEF Consists, Normal, Body
<1> DEFINE B == Body(place)
           X == base \o rel
           e == <<"">>
<1>1. base \in Seq(Segments) /\ "" \notin FileNames
  BY SegmentFacts
<1>2. X \in Seq(Segments) /\ X # <<>> /\ X[1] # ""
  <2>1. X[1] = base[1] /\ X # <<>> /\ X \in Seq(Segments)
    <3>1. ASSUME NEW x \in Seq(Segments), NEW y \in Seq(Segments), x # <<>>
          PROVE  (x \o y)[1] = x[1] /\ x \o y # <<>> /\ x \o y \in Seq(Segments)
      BY <3>1, FirstOf, ConcatProperties
    <3>2. QED
      BY <1>1, <3>1
  <2>2. base[1] \in FileNames
    <3>1. Len(base) \in Nat \ {0}
      BY EmptySeq
    <3>2. 1 \in 1 .. Len(base)
      BY <3>1
    <3>3. QED
      BY <3>2, ElementOfSeq
  <2>3. QED
    BY <1>1, <2>1, <2>2
<1>3. B \in Seq(Segments) /\ B # <<>> /\ (place # <<>> => B = place) /\ (place = <<>> => B = e)
  <2>1. 0 \in Nat
    OBVIOUS
  <2>2. QED
    BY <2>1, SlashedLeads DEF Body
<1>4. e \in Seq(Segments) /\ e # <<>> /\ e[1] = "" /\ <<>> \in Seq(Segments) /\ e \o <<>> = e
  <2>1. e \in Seq(Segments)
    BY OneOrTwo, EmptySeq
  <2>2. QED
    BY <2>1, EmptySeq, ConcatEmptySeq
<1>5. Slashes(m) \o B = Slashes(n) \o X
  <2>1. Slashes(n) \in Seq(Segments)
    <3>1. n \in Nat
      OBVIOUS
    <3>2. QED
      BY <3>1, SlashesAre
  <2>2. (Slashes(n) \o base) \o rel = Slashes(n) \o (base \o rel)
    BY <1>1, <2>1, ThreeParts
  <2>3. QED
    BY <1>0, <2>2
<1> HIDE DEF B, X, e
<1>6. ASSUME NEW y \in Seq(Segments)
      PROVE  Slashes(1) \o y = e \o y /\ Slashes(2) \o y = e \o (e \o y)
             /\ e \o y \in Seq(Segments) /\ (e \o y)[1] = ""
  <2>1. Slashes(1) \o y = e \o y /\ Slashes(2) \o y = e \o (e \o y) /\ e \o y \in Seq(Segments)
    BY OneOrTwo DEF e
  <2>2. (e \o y)[1] = e[1]
    BY <1>4, FirstOf
  <2>3. QED
    BY <1>4, <2>1, <2>2
<1>7. ASSUME NEW y \in Seq(Segments), NEW z \in Seq(Segments), e \o y = e \o z PROVE y = z
  BY <1>4, <1>7, Cancel
<1>8. B = X
  <2>1. CASE m = 1 /\ n = 1
    BY <1>2, <1>3, <1>5, <1>6, <1>7, <2>1
  <2>2. CASE m = 2 /\ n = 2
    <3>1. e \o (e \o B) = e \o (e \o X)
      BY <1>2, <1>3, <1>5, <1>6, <2>2
    <3>2. e \o B = e \o X
      BY <1>2, <1>3, <1>6, <1>7, <3>1
    <3>3. QED
      BY <1>2, <1>3, <1>7, <3>2
  <2>3. CASE m = 2 /\ n = 1
    <3>1. e \o (e \o B) = e \o X
      BY <1>2, <1>3, <1>5, <1>6, <2>3
    <3>2. e \o B = X
      BY <1>2, <1>3, <1>6, <1>7, <3>1
    <3>3. QED
      BY <1>2, <1>3, <1>6, <3>2
  <2>4. CASE m = 1 /\ n = 2
    <3>1. e \o B = e \o (e \o X)
      BY <1>2, <1>3, <1>5, <1>6, <2>4
    <3>2. B = e \o X
      BY <1>2, <1>3, <1>6, <1>7, <3>1
    <3>3. B[1] = ""
      BY <1>2, <1>6, <3>2
    <3>4. place = <<>>
      <4>1. place # <<>> => place[1] \in FileNames
        BY FirstOf, EmptySeq
      <4>2. QED
        BY <1>1, <1>3, <3>3, <4>1
    <3>5. e \o <<>> = e \o X
      BY <1>3, <1>4, <3>2, <3>4
    <3>6. QED
      BY <1>2, <1>4, <1>7, <3>5
  <2>5. QED
    BY <2>1, <2>2, <2>3, <2>4
<1>9. place # <<>>
  BY <1>2, <1>3, <1>4, <1>8
<1>10. QED
  BY <1>3, <1>8, <1>9 DEF X, Consists

\* What an accepted request is answered with: a remote and a relative path that lead where
\* the path leads, below the working directory.
Leads(base, p, r) ==
  LET place == Walk(<<>>, r.remote)
  IN /\ (IsPrefix(base, place) /\ place # base) \/ base = <<>>
     /\ place = Walk(base, r.relative)
     /\ place = Walk(IF IsAbsolute(p) THEN <<>> ELSE base, p)

\* A relative path: a normal form without ".." is below the working directory.
LEMMA ResolveRelativeLeads ==
  ASSUME NEW wd \in Seq(Segments), IsAbsolute(wd),
         NEW p \in Seq(Segments), p # <<>>, ~IsAbsolute(p), ResolveRelative(wd, p).kind = "file"
  PROVE  Leads(Walk(<<>>, wd), p, ResolveRelative(wd, p))
<1> DEFINE base == Walk(<<>>, wd)
           c == Comps(0, p)
           r == ResolveRelative(wd, p)
           n == NormPath(p)
<1>1. /\ ~(p = <<"">> \/ n \in {<<"">>, <<".">>, Root}) /\ n[1] # ".."
      /\ r = File(JoinRemotePath(wd, n), n)
  <2>1. r = CASE p = <<"">> \/ n \in {<<"">>, <<".">>, Root} -> NotFound
              [] n[1] = ".." -> Outside
              [] OTHER -> File(JoinRemotePath(wd, n), n)
    BY DEF ResolveRelative
  <2> HIDE DEF n
  <2>2. NotFound.kind # "file" /\ Outside.kind # "file"
    BY DEF NotFound, Outside
  <2>3. r.kind = "file"
    OBVIOUS
  <2> HIDE DEF r
  <2>4. QED
    BY <2>1, <2>2, <2>3
<1>2. n = IF c = <<>> THEN <<".">> ELSE c
  BY NormRelative
<1>3. n = c /\ c # <<>>
  <2> HIDE DEF n, c
  <2>1. QED
    BY <1>1, <1>2
<1>4. /\ Downward(c) /\ \A from \in Seq(Segments) : Walk(from, c) = Walk(from, p)
  BY CompsRelative
<1>5. c \in Seq(FileNames)
  <2> HIDE DEF n, c
  <2>1. QED
    BY <1>1, <1>3, <1>4 DEF Downward
<1>6. base \in Seq(FileNames) /\ base \in Seq(Segments)
  BY EmptySeq, WalkNames, SegmentFacts
<1> HIDE DEF c, base, n, r
<1>7. c \in Seq(Segments) /\ ~IsAbsolute(c)
  BY <1>3, <1>5, NamesAreNormal, SegmentFacts
<1>8. Walk(<<>>, JoinRemotePath(wd, c)) = Walk(base, c)
  BY <1>3, <1>7, RemoteLeads DEF base
<1>9. Walk(base, c) = base \o c
  BY <1>5, <1>6, WalkDown
<1>10. IsPrefix(base, base \o c) /\ base \o c # base
  BY <1>3, <1>6, <1>7, PrefixOfConcat
<1>11. r.remote = JoinRemotePath(wd, c) /\ r.relative = c
  BY <1>1, <1>3 DEF File
<1>12. Leads(base, p, r)
  BY <1>4, <1>6, <1>8, <1>9, <1>10, <1>11 DEF Leads
<1>13. QED
  BY <1>12 DEF base, r

\* An absolute path: behind a common prefix the places are below one another as well.
LEMMA ResolveAbsoluteLeads ==
  ASSUME NEW wd \in Seq(Segments), IsAbsolute(wd),
         NEW p \in Seq(Segments), IsAbsolute(p), ResolveAbsolute(wd, p).kind = "file"
  PROVE  Leads(Walk(<<>>, wd), p, ResolveAbsolute(wd, p))
<1> DEFINE base == Walk(<<>>, wd)
           place == Walk(<<>>, p)
           r == ResolveAbsolute(wd, p)
           n == NormPath(p)
           d == NormPath(wd)
           rel == SubSeq(n, Len(d) + 1, Len(n))
           lp == Lead(p)
           lw == Lead(wd)
<1>1. \/ n # d /\ d = Root /\ r = File(n, LStripSlashes(n))
      \/ n # d /\ d # Root /\ IsPrefix(d, n) /\ r = File(n, rel)
  <2>1. r = CASE n = d -> NotFound
              [] n # d /\ d = Root -> File(n, LStripSlashes(n))
              [] n # d /\ d # Root /\ IsPrefix(d, n) -> File(n, rel)
              [] OTHER -> Outside
    BY DEF ResolveAbsolute
  <2>2. NotFound.kind # "file" /\ Outside.kind # "file"
    BY DEF NotFound, Outside
  <2>3. r.kind = "file"
    OBVIOUS
  <2> HIDE DEF r, n, d, rel
  <2>4. QED
    BY <2>1, <2>2, <2>3
<1>2. /\ lp \in {1, 2} /\ lw \in {1, 2} /\ place \in Seq(FileNames) /\ base \in Seq(FileNames)
      /\ n = Slashes(lp) \o Body(place) /\ d = Slashes(lw) \o Body(base)
  BY NormAbsolute
<1> HIDE DEF base, place, r, n, d, lp, lw
<1>3. /\ n \in Seq(Segments) /\ d \in Seq(Segments) /\ n # <<>>
      /\ Walk(<<>>, n) = place /\ Walk(<<>>, d) = base
  <2>1. lp \in Nat /\ lw \in Nat
    BY <1>2
  <2>2. n \in Seq(Segments) /\ Walk(<<>>, n) = place
    BY <1>2, <2>1, SlashedLeads
  <2>3. d \in Seq(Segments) /\ Walk(<<>>, d) = base
    BY <1>2, <2>1, SlashedLeads
  <2>4. n # <<>>
    <3>1. Slashes(lp) # <<>> /\ Slashes(lp) \in Seq(Segments)
      <4>1. Slashes(lp) \in Seq(Segments) /\ Len(Slashes(lp)) = lp
        BY <2>1, SlashesAre
      <4>2. lp # 0
        BY <1>2
      <4>3. QED
        BY <4>1, <4>2, EmptySeq
    <3>2. Body(place) \in Seq(Segments)
      BY <1>2, <2>1, SlashedLeads
    <3>3. QED
      BY <1>2, <3>1, <3>2, FirstOf
  <2>5. QED
    BY <2>2, <2>3, <2>4
<1>4. CASE n # d /\ d = Root /\ r = File(n, LStripSlashes(n))
  <2>1. base = <<>>
    <3>1. Root \in Seq({""})
      BY DEF Root
    <3>2. Walk(<<>>, Root) = <<>>
      BY <3>1, EmptySeq, WalkSlashes
    <3>3. QED
      BY <1>3, <1>4, <3>2
  <2>2. Walk(<<>>, LStripSlashes(n)) = Walk(<<>>, n)
    BY <1>3, LStripLeads
  <2>3. r.remote = n /\ r.relative = LStripSlashes(n)
    BY <1>4 DEF File
  <2>4. Leads(base, p, r)
    BY <1>3, <2>1, <2>2, <2>3 DEF Leads, place
  <2>5. QED
    BY <2>4 DEF base, r
<1>5. CASE n # d /\ d # Root /\ IsPrefix(d, n) /\ r = File(n, rel)
  <2>1. rel \in Seq(Segments) /\ n = d \o rel
    BY <1>3, <1>5, ConcatOfPrefix
  <2>2. r.remote = n /\ r.relative = rel
    BY <1>5 DEF File
  <2> HIDE DEF rel
  <2>3. place = Walk(base, rel)
    BY <1>3, <2>1, FromRoot
  <2>4. ASSUME base # <<>> PROVE IsPrefix(base, place) /\ place # base
    <3>1. Consists(Normal(lp, place), Normal(lw, base), rel)
      BY <1>2, <2>1 DEF Consists, Normal
    <3>2. Consists(place, base, rel)
      <4>1. lp \in Nat /\ lw \in Nat /\ (lp = 1 \/ lp = 2) /\ (lw = 1 \/ lw = 2)
        BY <1>2
      <4>2. place \in Seq(FileNames) /\ base \in Seq(FileNames) /\ rel \in Seq(Segments)
        BY <1>2, <2>1
      <4>3. QED
        BY <2>4, <3>1, <4>1, <4>2, PlaceContinues
    <3>3. rel # <<>>
      <4>1. rel = <<>> => n = d
        BY <1>3, <2>1, ConcatEmptySeq
      <4>2. QED
        BY <1>5, <4>1
    <3>4. base \in Seq(Segments)
      BY <1>2, SegmentFacts
    <3>5. IsPrefix(base, base \o rel) /\ base \o rel # base
      BY <2>1, <3>3, <3>4, PrefixOfConcat
    <3>6. QED
      BY <3>2, <3>5 DEF Consists
  <2>5. Leads(base, p, r)
    BY <1>3, <2>2, <2>3, <2>4 DEF Leads, place
  <2>6. QED
    BY <2>5 DEF base, r
<1>6. QED
  BY <1>1, <1>4, <1>5

\* Every path that a session accepts leads to the file it is answered with.
LEMMA ResolveLeads ==
  ASSUME NEW wd \in WorkingDirs, NEW q \in Seq(Segments), q # <<>>, Resolve(wd, q).kind = "file"
  PROVE  Leads(Walk(<<>>, wd), Strip(q), Resolve(wd, q))
<1> DEFINE p == Strip(q)
<1>1. wd \in Seq(Segments) /\ IsAbsolute(wd)
  BY WorkingDirsAreAbsolute
<1>2. p \in Seq(Segments) /\ p # <<>>
  BY StripTypes
<1>3. Resolve(wd, q) = IF IsAbsolute(p) THEN ResolveAbsolute(wd, p) ELSE ResolveRelative(wd, p)
  BY DEF Resolve
<1> HIDE DEF p
<1>4. CASE IsAbsolute(p)
  <2>1. ResolveAbsolute(wd, p).kind = "file" /\ Resolve(wd, q) = ResolveAbsolute(wd, p)
    BY <1>3, <1>4
  <2>2. Leads(Walk(<<>>, wd), p, ResolveAbsolute(wd, p))
    BY <1>1, <1>2, <1>4, <2>1, ResolveAbsoluteLeads
  <2>3. QED
    BY <2>1, <2>2 DEF p
<1>5. CASE ~IsAbsolute(p)
  <2>1. ResolveRelative(wd, p).kind = "file" /\ Resolve(wd, q) = ResolveRelative(wd, p)
    BY <1>3, <1>5
  <2>2. Leads(Walk(<<>>, wd), p, ResolveRelative(wd, p))
    BY <1>1, <1>2, <1>5, <2>1, ResolveRelativeLeads
  <2>3. QED
    BY <2>1, <2>2 DEF p
<1>6. QED
  BY <1>4, <1>5

\* A relative path that never leaves the working directory and ends below it is accepted.
LEMMA RelativeIsAccepted ==
  ASSUME NEW wd \in Seq(Segments), IsAbsolute(wd),
         NEW p \in Seq(Segments), p # <<>>, ~IsAbsolute(p),
         \A i \in DOMAIN p : Places(<<"here">>, p)[i] # <<>>,
         Walk(Walk(<<>>, wd), p) # Walk(<<>>, wd)
  PROVE  ResolveRelative(wd, p).kind = "file"
<1> DEFINE base == Walk(<<>>, wd)
           c == Comps(0, p)
           n == NormPath(p)
<1>1. base \in Seq(Segments)
  BY EmptySeq, WalkNames, SegmentFacts
<1>2. c \in Seq(FileNames)
  BY CompsStay
<1>3. \A from \in Seq(Segments) : Walk(from, c) = Walk(from, p)
  BY CompsRelative
<1>4. n = IF c = <<>> THEN <<".">> ELSE c
  BY NormRelative
<1>5. Walk(base, p) # base
  OBVIOUS
<1>6. p # <<"">>
  <2>1. <<"">> \in Seq({""})
    OBVIOUS
  <2>2. Walk(base, <<"">>) = base
    BY <1>1, <2>1, WalkSlashes
  <2>3. QED
    BY <1>5, <2>2
<1> HIDE DEF base, c, n
<1>7. c # <<>>
  <2>1. Walk(base, c) = Walk(base, p)
    BY <1>1, <1>3
  <2>2. Walk(base, <<>>) = base
    BY <1>1, WalkStarts
  <2>3. QED
    BY <1>5, <2>1, <2>2
<1>8. n \in Seq(FileNames) /\ n # <<>>
  BY <1>2, <1>4, <1>7
<1>9. n[1] \in FileNames
  BY <1>8, FirstOf, EmptySeq
<1>10. n[1] \notin {"", ".", ".."}
  BY <1>9, SegmentFacts
<1>11. n \notin {<<"">>, <<".">>, Root} /\ n[1] # ".."
  <2>1. <<"">>[1] = "" /\ <<".">>[1] = "." /\ Root[1] = ""
    BY DEF Root
  <2>2. QED
    BY <1>10, <2>1
<1>12. ResolveRelative(wd, p) = CASE p = <<"">> \/ n \in {<<"">>, <<".">>, Root} -> NotFound
                                  [] n[1] = ".." -> Outside
                                  [] OTHER -> File(JoinRemotePath(wd, n), n)
  BY DEF ResolveRelative, n
<1>13. ResolveRelative(wd, p) = File(JoinRemotePath(wd, n), n)
  BY <1>6, <1>11, <1>12
<1>14. QED
  BY <1>13 DEF File

\* An absolute path below the working directory, with as many slashes, is accepted.
LEMMA AbsoluteIsAccepted ==
  ASSUME NEW wd \in Seq(Segments), IsAbsolute(wd), NEW p \in Seq(Segments), IsAbsolute(p),
         Lead(p) = Lead(wd), Lead(p) = 2 => Walk(<<>>, wd) # <<>>,
         IsPrefix(Walk(<<>>, wd), Walk(<<>>, p)), Walk(<<>>, p) # Walk(<<>>, wd)
  PROVE  ResolveAbsolute(wd, p).kind = "file"
<1> DEFINE base == Walk(<<>>, wd)
           place == Walk(<<>>, p)
           n == NormPath(p)
           d == NormPath(wd)
           l == Lead(p)
           t == SubSeq(place, Len(base) + 1, Len(place))
<1>1. /\ l \in {1, 2} /\ place \in Seq(FileNames) /\ base \in Seq(FileNames)
      /\ n = Slashes(l) \o Body(place) /\ d = Slashes(l) \o Body(base)
  BY NormAbsolute
<1>2. IsPrefix(base, place) /\ place # base /\ (l = 2 => base # <<>>)
  OBVIOUS
<1>3. ResolveAbsolute(wd, p) = CASE n = d -> NotFound
                                 [] n # d /\ d = Root -> File(n, LStripSlashes(n))
                                 [] n # d /\ d # Root /\ IsPrefix(d, n)
                                      -> File(n, SubSeq(n, Len(d) + 1, Len(n)))
                                 [] OTHER -> Outside
  BY DEF ResolveAbsolute
<1> HIDE DEF base, place, n, d, l
<1>4. base \in Seq(Segments) /\ place \in Seq(Segments)
  BY <1>1, SegmentFacts
<1>5. t \in Seq(Segments) /\ Consists(place, base, t)
  BY <1>2, <1>4, ConcatOfPrefix DEF Consists
<1> HIDE DEF t
<1>6. l \in Nat /\ Slashes(l) \in Seq(Segments)
  <2>1. l \in Nat
    BY <1>1
  <2>2. QED
    BY <2>1, SlashesAre
<1>7. n # d
  <2>1. Walk(<<>>, n) = place
    BY <1>1, <1>6, SlashedLeads
  <2>2. Walk(<<>>, d) = base
    BY <1>1, <1>6, SlashedLeads
  <2>3. QED
    BY <1>2, <2>1, <2>2
<1>8. CASE base = <<>>
  <2>1. l = 1
    BY <1>1, <1>2, <1>8
  <2>2. d = Slashes(1) \o <<"">>
    BY <1>1, <1>8, <2>1 DEF Body
  <2>3. Root \in Seq({""}) /\ <<"">> \in Seq({""}) /\ Len(Root) = 2 /\ Len(<<"">>) = 1
    BY DEF Root
  <2>4. Slashes(1) \in Seq({""}) /\ Len(Slashes(1)) = 1
    BY SlashesAre
  <2>5. \A a, b \in Seq({""}) : a \o b \in Seq({""}) /\ Len(a \o b) = Len(a) + Len(b)
    BY ConcatProperties
  <2>6. d = Root
    <3>1. d \in Seq({""}) /\ Len(d) = Len(Slashes(1)) + Len(<<"">>)
      BY <2>2, <2>3, <2>4, <2>5
    <3>2. Len(d) = 2
      <4>1. Len(d) = 1 + 1
        BY <2>3, <2>4, <3>1, Zenon
      <4>2. 1 + 1 = 2
        OBVIOUS
      <4>3. QED
        BY <4>1, <4>2, Zenon
    <3>3. Len(d) = Len(Root)
      BY <2>3, <3>2
    <3>4. QED
      BY <2>3, <3>1, <3>3, OnlySlashes
  <2>7. ResolveAbsolute(wd, p) = File(n, LStripSlashes(n))
    BY <1>3, <1>7, <2>6
  <2>8. QED
    BY <2>7 DEF File
<1>9. CASE base # <<>>
  <2>1. place # <<>>
    <3>1. base \o t # <<>>
      BY <1>4, <1>5, <1>9, FirstOf
    <3>2. QED
      BY <1>5, <3>1 DEF Consists
  <2>2. n = Slashes(l) \o (base \o t) /\ d = Slashes(l) \o base
    BY <1>1, <1>5, <1>9, <2>1 DEF Body, Consists
  <2>3. Slashes(l) \o (base \o t) = (Slashes(l) \o base) \o t
    <3>1. Slashes(l) \in Seq(Segments) /\ base \in Seq(Segments) /\ t \in Seq(Segments)
      BY <1>4, <1>5, <1>6
    <3>2. QED
      BY <3>1, ThreeParts, Zenon
  <2>4. n = d \o t
    BY <2>2, <2>3
  <2>5. d \in Seq(Segments)
    BY <1>4, <1>6, <2>2, ConcatProperties
  <2>6. IsPrefix(d, d \o t)
    BY <1>5, <2>5, PrefixOfConcat
  <2>7. IsPrefix(d, n)
    BY <2>4, <2>6
  <2>8. \/ ResolveAbsolute(wd, p) = File(n, LStripSlashes(n))
        \/ ResolveAbsolute(wd, p) = File(n, SubSeq(n, Len(d) + 1, Len(n)))
    BY <1>3, <1>7, <2>7
  <2>9. QED
    BY <2>8 DEF File
<1>10. QED
  BY <1>8, <1>9

\* The path of a recorded artifact, as it is listed and without the blanks at its ends.
LEMMA NamesAreAccepted ==
  ASSUME NEW wd \in WorkingDirs, NEW f \in Seq(FileNames), f # <<>>
  PROVE  /\ f = Strip(f) => Resolve(wd, f) = File(JoinRemotePath(wd, f), f)
         /\ f[1] # " " => Resolve(wd, f).kind = "file"
<1>1. wd \in Seq(Segments) /\ IsAbsolute(wd)
  BY WorkingDirsAreAbsolute
<1>2. ASSUME NEW p \in Seq(Segments), p # <<>>, ~IsAbsolute(p), NEW c \in Seq(FileNames), c # <<>>,
             NormPath(p) = c, p # <<"">>
      PROVE  ResolveRelative(wd, p) = File(JoinRemotePath(wd, c), c)
  <2>1. c[1] \in FileNames
    BY <1>2, FirstOf, EmptySeq
  <2>2. c[1] \notin {"", ".", ".."}
    BY <2>1, SegmentFacts
  <2>3. c \notin {<<"">>, <<".">>, Root} /\ c[1] # ".."
    <3>1. <<"">>[1] = "" /\ <<".">>[1] = "." /\ Root[1] = ""
      BY DEF Root
    <3>2. QED
      BY <2>2, <3>1
  <2>4. ResolveRelative(wd, p) = CASE p = <<"">> \/ c \in {<<"">>, <<".">>, Root} -> NotFound
                                   [] c[1] = ".." -> Outside
                                   [] OTHER -> File(JoinRemotePath(wd, c), c)
    BY <1>2 DEF ResolveRelative
  <2>5. QED
    BY <1>2, <2>3, <2>4
<1>3. f \in Seq(Segments) /\ ~IsAbsolute(f) /\ NormPath(f) = f
  BY NamesAreNormal, SegmentFacts
<1>4. f[1] \in FileNames /\ f[1] # ""
  <2>1. f[1] \in FileNames
    BY FirstOf, EmptySeq
  <2>2. QED
    BY <2>1, SegmentFacts
<1>5. ASSUME f = Strip(f) PROVE Resolve(wd, f) = File(JoinRemotePath(wd, f), f)
  <2>1. f # <<"">>
    <3>1. <<"">>[1] = ""
      OBVIOUS
    <3>2. QED
      BY <1>4, <3>1
  <2>2. ResolveRelative(wd, f) = File(JoinRemotePath(wd, f), f)
    BY <1>2, <1>3, <2>1
  <2>3. Resolve(wd, f) = ResolveRelative(wd, f)
    BY <1>3, <1>5 DEF Resolve
  <2>4. QED
    BY <2>2, <2>3
<1>6. ASSUME f[1] # " " PROVE Resolve(wd, f).kind = "file"
  <2> DEFINE p == Strip(f)
  <2>1. /\ p \in Seq(Segments) /\ p # <<>> /\ Len(p) = Len(f)
        /\ Len(f) \in Nat /\ Len(f) # 0 /\ DOMAIN f = 1 .. Len(f)
    BY <1>3, StripTypes
  <2>2. \A i \in 1 .. Len(f) : i # Len(f) => p[i] = f[i]
    BY <1>6, <2>1 DEF Strip, TrimLeft
  <2>3. p[Len(f)] = TrimRight(f[Len(f)])
    <3>1. Len(f) \in 1 .. Len(f)
      BY <2>1
    <3>2. p[Len(f)] = LET s == IF Len(f) = 1 THEN TrimLeft(f[Len(f)]) ELSE f[Len(f)]
                      IN IF Len(f) = Len(f) THEN TrimRight(s) ELSE s
      BY <2>1, <3>1 DEF Strip
    <3>3. Len(f) = 1 => TrimLeft(f[Len(f)]) = f[Len(f)]
      BY <1>6 DEF TrimLeft
    <3>4. QED
      BY <3>2, <3>3
  <2>4. \A i \in 1 .. Len(f) : f[i] \in FileNames
    BY ElementOfSeq
  <2> HIDE DEF p
  <2>5. PICK g \in Seq(Segments), s \in Segments : p = Append(g, s)
    BY <2>1, SequenceEmptyOrAppend
  <2>6. Len(p) = Len(g) + 1 /\ Len(g) \in Nat /\ p[Len(g) + 1] = s
        /\ \A i \in 1 .. Len(g) : p[i] = g[i]
    BY <2>5, AppendProperties, LenProperties
  <2>7. g \in Seq(FileNames)
    <3>1. ASSUME NEW i \in 1 .. Len(g) PROVE g[i] \in FileNames
      <4>1. i \in 1 .. Len(f) /\ i # Len(f)
        BY <2>1, <2>6
      <4>2. QED
        BY <2>2, <2>4, <2>6, <4>1
    <3>2. g \in [1 .. Len(g) -> FileNames]
      BY <3>1, LenProperties
    <3>3. QED
      BY <2>6, <3>2, IsSeq
  <2>8. s = TrimRight(f[Len(f)]) /\ Len(f) \in 1 .. Len(f)
    BY <2>1, <2>3, <2>6
  <2>9. (s = "" /\ g # <<>>) \/ s \in FileNames
    <3>1. f[Len(f)] \in FileNames
      BY <2>4, <2>8
    <3>2. CASE f[Len(f)] = " "
      <4>1. s = ""
        BY <2>8, <3>2 DEF TrimRight
      <4>2. Len(f) # 1
        BY <1>6, <3>2
      <4>3. Len(g) # 0
        BY <2>1, <2>6, <4>2
      <4>4. QED
        BY <4>1, <4>3, EmptySeq
    <3>3. CASE f[Len(f)] # " " /\ \E n \in Names : f[Len(f)] = n \o " "
      <4>1. s = CHOOSE n \in Names : f[Len(f)] = n \o " "
        BY <2>8, <3>3 DEF TrimRight
      <4>2. s \in Names
        BY <3>3, <4>1
      <4>3. QED
        BY <4>2, NamesAssumption DEF FileNames, Segments
    <3>4. CASE f[Len(f)] # " " /\ ~(\E n \in Names : f[Len(f)] = n \o " ")
      BY <2>8, <3>1, <3>4 DEF TrimRight
    <3>5. QED
      BY <3>2, <3>3, <3>4
  <2>10. p[1] # ""
    <3>1. CASE g = <<>>
      <4>1. Len(g) = 0
        BY <3>1, EmptySeq
      <4>2. p[1] = s
        BY <2>6, <4>1
      <4>3. QED
        BY <2>9, <3>1, <4>2, SegmentFacts
    <3>2. CASE g # <<>>
      <4>1. g[1] \in FileNames /\ Len(g) \in Nat \ {0}
        BY <2>7, <3>2, FirstOf, EmptySeq
      <4>2. p[1] = g[1]
        BY <2>6, <4>1
      <4>3. QED
        BY <4>1, <4>2, SegmentFacts
    <3>3. QED
      BY <3>1, <3>2
  <2>11. ~IsAbsolute(p) /\ p # <<"">>
    <3>1. <<"">>[1] = ""
      OBVIOUS
    <3>2. QED
      BY <2>10, <3>1 DEF IsAbsolute
  <2>12. \E c \in Seq(FileNames) : c # <<>> /\ NormPath(p) = c
    <3>1. CASE s \in FileNames
      <4>1. p \in Seq(FileNames)
        BY <2>5, <2>7, <3>1, AppendProperties
      <4>2. QED
        BY <2>1, <4>1, NamesAreNormal
    <3>2. CASE s = "" /\ g # <<>>
      <4>1. NormPath(g) = g /\ ~IsAbsolute(g)
        BY <2>7, <3>2, NamesAreNormal
      <4>2. Comps(0, g) = g
        BY <2>7, <3>2, CompsOfNames
      <4>3. Comps(0, p) = Push(0, Comps(0, g), s)
        BY <2>5, CompsOn
      <4>4. Comps(0, p) = g
        BY <3>2, <4>2, <4>3 DEF Push
      <4>5. NormPath(p) = g
        BY <2>1, <2>11, <3>2, <4>4, NormRelative
      <4>6. QED
        BY <2>7, <3>2, <4>5
    <3>3. QED
      BY <2>9, <3>1, <3>2
  <2>13. PICK c \in Seq(FileNames) : c # <<>> /\ NormPath(p) = c
    BY <2>12
  <2>14. ResolveRelative(wd, p) = File(JoinRemotePath(wd, c), c)
    BY <1>2, <2>1, <2>11, <2>13
  <2>15. Resolve(wd, f) = ResolveRelative(wd, p)
    BY <2>11 DEF Resolve, p
  <2>16. QED
    BY <2>14, <2>15 DEF File
<1>7. QED
  BY <1>5, <1>6

-----------------------------------------------------------------------------
(* The inductive invariant. *)

\* No answer to a request by path is the answer of one that was never made, or of a preview.
LEMMA ResolveKinds ==
  ASSUME NEW wd, NEW q
  PROVE  Resolve(wd, q).kind \in {"file", "not found", "outside"}
<1> DEFINE p == Strip(q)
           n == NormPath(p)
           d == NormPath(wd)
<1>1. /\ NotFound.kind = "not found" /\ Outside.kind = "outside"
      /\ \A a, b : File(a, b).kind = "file"
  BY DEF NotFound, Outside, File
<1>2. ResolveRelative(wd, p) = CASE p = <<"">> \/ n \in {<<"">>, <<".">>, Root} -> NotFound
                                 [] n[1] = ".." -> Outside
                                 [] OTHER -> File(JoinRemotePath(wd, n), n)
  BY DEF ResolveRelative
<1>3. ResolveAbsolute(wd, p) = CASE n = d -> NotFound
                                 [] n # d /\ d = Root -> File(n, LStripSlashes(n))
                                 [] n # d /\ d # Root /\ IsPrefix(d, n)
                                      -> File(n, SubSeq(n, Len(d) + 1, Len(n)))
                                 [] OTHER -> Outside
  BY DEF ResolveAbsolute
<1>4. Resolve(wd, q) = IF IsAbsolute(p) THEN ResolveAbsolute(wd, p) ELSE ResolveRelative(wd, p)
  BY DEF Resolve
<1> HIDE DEF n, d, p
<1>5. ResolveRelative(wd, p).kind \in {"file", "not found", "outside"}
  <2>1. \/ ResolveRelative(wd, p) \in {NotFound, Outside}
        \/ ResolveRelative(wd, p) = File(JoinRemotePath(wd, n), n)
    BY <1>2
  <2>2. QED
    BY <1>1, <2>1
<1>6. ResolveAbsolute(wd, p).kind \in {"file", "not found", "outside"}
  <2>1. \/ ResolveAbsolute(wd, p) \in {NotFound, Outside}
        \/ ResolveAbsolute(wd, p) = File(n, LStripSlashes(n))
        \/ ResolveAbsolute(wd, p) = File(n, SubSeq(n, Len(d) + 1, Len(n)))
    BY <1>3
  <2>2. QED
    BY <1>1, <2>1
<1>7. QED
  BY <1>4, <1>5, <1>6

\* What was resolved is opened or, if it is asked for as a text, may be refused for its name.
LEMMA OpenedIs ==
  ASSUME NEW use, NEW r
  PROVE  /\ Opened(use, r) = r \/ (use = "text" /\ Opened(use, r) = NotText)
         /\ NotText.kind = "not text"
         /\ r.kind = "file" => Opened(use, r) = IF use = "text" /\ ~Previewable(r.relative)
                                                THEN NotText ELSE r
  BY DEF Opened, NotText

\* So the answer to a request by path has one of four kinds.
LEMMA OpenedKinds ==
  ASSUME NEW use, NEW wd, NEW q
  PROVE  Opened(use, Resolve(wd, q)).kind \in {"file", "not found", "outside", "not text"}
<1>1. Resolve(wd, q).kind \in {"file", "not found", "outside"}
  BY ResolveKinds
<1>2. Opened(use, Resolve(wd, q)) \in {Resolve(wd, q), NotText} /\ NotText.kind = "not text"
  BY OpenedIs
<1>3. QED
  BY <1>1, <1>2

\* The invariant holds before the first request.
LEMMA AccessInvInit == AccessInit => AccessInv
BY DEF AccessInit, AccessInv, Answered, Purposes

\* Every request, its end and a new run keep the invariant.
LEMMA AccessInvNext == AccessInv /\ [AccessNext]_accessVars => AccessInv'
<1> SUFFICES ASSUME AccessInv, [AccessNext]_accessVars PROVE AccessInv'
  OBVIOUS
<1>1. /\ workingDir \in WorkingDirs /\ purpose \in Purposes /\ Answered
      /\ \A a \in artifacts : \E f \in Files : a = Recorded(workingDir, f)
  BY DEF AccessInv
<1>2. ASSUME NEW f \in Files, NEW g \in Files, Run({f, g}) PROVE AccessInv'
  <2>1. /\ artifacts' = {Recorded(workingDir, h) : h \in {f, g}}
        /\ workingDir' = workingDir /\ asked' = asked /\ reply' = reply /\ reply = Ready
        /\ purpose' = purpose
    BY <1>2 DEF Run
  <2>2. asked = <<>>
    <3>1. \A use, q : Opened(use, Resolve(workingDir, q)) # Ready
      <4>1. \A use, q : Opened(use, Resolve(workingDir, q)).kind
                           \in {"file", "not found", "outside", "not text"}
        BY OpenedKinds
      <4>2. Ready.kind = "none"
        BY DEF Ready
      <4>3. QED
        BY <4>1, <4>2
    <3>2. NotFound # Ready
      <4>1. NotFound.kind = "not found" /\ Ready.kind = "none"
        BY DEF NotFound, Ready
      <4>2. QED
        BY <4>1
    <3>3. \A n, max : PreviewOf(n, max) # Ready
      <4>1. (\A n, max : PreviewOf(n, max).kind = "preview") /\ Ready.kind = "none"
        BY DEF PreviewOf, Ready
      <4>2. QED
        BY <4>1
    <3>4. QED
      BY <1>1, <2>1, <3>1, <3>2, <3>3 DEF Answered
  <2>3. \A a \in artifacts' : \E h \in Files : a = Recorded(workingDir, h)
    BY <2>1
  <2>4. Answered'
    BY <2>1, <2>2 DEF Answered, Ready
  <2>5. QED
    BY <1>1, <2>1, <2>3, <2>4 DEF AccessInv, Recorded, JoinRemotePath
<1>3. ASSUME NEW p \in Paths, NEW use \in Purposes, Read(p, use) PROVE AccessInv'
  <2>1. /\ artifacts = {} /\ artifacts' = artifacts /\ workingDir' = workingDir
        /\ asked' = p /\ purpose' = use /\ reply' = Opened(use, Resolve(workingDir, p))
    BY <1>3 DEF Read
  <2>2. Answered'
    BY <2>1 DEF Answered
  <2>3. QED
    BY <1>1, <2>1, <2>2 DEF AccessInv
<1>4. ASSUME NEW p \in Spellings, NEW use \in Purposes, Show(p, use) PROVE AccessInv'
  <2>1. artifacts' = artifacts /\ workingDir' = workingDir /\ asked' = p /\ purpose' = use
    BY <1>4 DEF Show
  <2>2. \/ Matches(p) = {} /\ reply' = NotFound
        \/ \E a \in Matches(p) : reply' = Opened(use, Resolve(workingDir, a.path))
    BY <1>4 DEF Show
  <2>3. Spellings' = Spellings /\ Matches(asked)' = Matches(p) /\ asked' \in Spellings'
    BY <2>1 DEF Spellings, Matches
  <2>4. Answered'
    BY <2>1, <2>2, <2>3 DEF Answered
  <2>5. QED
    BY <1>1, <2>1, <2>4 DEF AccessInv
<1>5. ASSUME NEW n \in 0 .. MaxLength, NEW max \in - MaxLength .. MaxLength, Preview(n, max)
      PROVE  AccessInv'
  <2>1. /\ artifacts = {} /\ artifacts' = artifacts /\ workingDir' = workingDir
        /\ asked' = <<n, max>> /\ purpose' = purpose /\ reply' = PreviewOf(n, max)
    BY <1>5 DEF Preview
  <2>2. Answered'
    BY <2>1 DEF Answered
  <2>3. QED
    BY <1>1, <2>1, <2>2 DEF AccessInv
<1>6. CASE Done
  <2>1. /\ artifacts' = {} /\ asked' = <<>> /\ reply' = Ready /\ workingDir' = workingDir
        /\ purpose' \in Purposes
    BY <1>6 DEF Done, Purposes
  <2>2. Answered'
    BY <2>1 DEF Answered
  <2>3. QED
    BY <1>1, <2>1, <2>2 DEF AccessInv
<1>7. CASE UNCHANGED accessVars
  <2>1. UNCHANGED <<artifacts, asked, purpose, reply, workingDir>>
    BY <1>7 DEF accessVars
  <2>2. QED
    BY <1>1, <2>1 DEF AccessInv, Answered, Spellings, Matches
<1>8. QED
  BY <1>2, <1>3, <1>4, <1>5, <1>6, <1>7 DEF AccessNext

-----------------------------------------------------------------------------
(* What the invariant implies. *)

\* Requests by path that were answered, and by what.
LEMMA ByPath ==
  ASSUME AccessInv, ReadByPath
  PROVE  asked \in Paths /\ asked \in Seq(Segments) /\ asked # <<>>
         /\ reply = Opened(purpose, Resolve(workingDir, asked))
<1>1. artifacts = {} /\ asked # <<>> /\ reply.kind # "preview" /\ Answered
  BY DEF ReadByPath, AccessInv
<1>2. Spellings = {}
  BY <1>1 DEF Spellings
<1>3. \A n, max : PreviewOf(n, max).kind = "preview"
  BY DEF PreviewOf
<1>4. asked \in Paths /\ reply = Opened(purpose, Resolve(workingDir, asked))
  BY <1>1, <1>2, <1>3 DEF Answered
<1>5. QED
  BY <1>4, PathsAssumption

\* An answer with a file is that of some path, which ResolveLeads is about.
LEMMA AcceptedFromInv == AccessInv => AcceptedIsTheFile
<1> SUFFICES ASSUME AccessInv, reply.kind = "file" PROVE AcceptedIsTheFile
  BY DEF AcceptedIsTheFile
<1>1. workingDir \in WorkingDirs /\ Answered
  BY DEF AccessInv
<1>2. \E q \in Seq(Segments) : /\ q # <<>> /\ reply = Opened(purpose, Resolve(workingDir, q))
                               /\ ReadByPath => asked = q
  <2>1. CASE ReadByPath
    BY <2>1, ByPath
  <2>2. CASE ~ReadByPath
    <3>1. Ready.kind # "file" /\ NotFound.kind # "file" /\ \A n, max : PreviewOf(n, max).kind # "file"
      BY DEF Ready, NotFound, PreviewOf
    <3>2. CASE asked \in Paths /\ reply = Opened(purpose, Resolve(workingDir, asked))
      BY <2>2, <3>2, PathsAssumption
    <3>3. CASE \E a \in Matches(asked) : reply = Opened(purpose, Resolve(workingDir, a.path))
      <4>1. PICK a \in artifacts : reply = Opened(purpose, Resolve(workingDir, a.path))
        BY <3>3 DEF Matches
      <4>2. PICK f \in Files : a = Recorded(workingDir, f)
        BY <4>1 DEF AccessInv
      <4>3. a.path = f
        BY <4>2 DEF Recorded
      <4>4. f \in Seq(Segments) /\ f # <<>>
        BY FilesAssumption, SegmentFacts
      <4>5. QED
        BY <2>2, <4>1, <4>3, <4>4
    <3>4. QED
      BY <1>1, <3>1, <3>2, <3>3 DEF Answered
  <2>3. QED
    BY <2>1, <2>2
<1>3. PICK q \in Seq(Segments) : /\ q # <<>> /\ reply = Resolve(workingDir, q)
                                 /\ ReadByPath => asked = q
  BY <1>2, OpenedIs
<1>4. Leads(Base, Strip(q), reply)
  BY <1>1, <1>3, ResolveLeads DEF Base
<1>5. QED
  BY <1>3, <1>4 DEF AcceptedIsTheFile, Leads, Inside, From

\* A refused path is not one of those that are accepted.
LEMMA InsideFromInv == AccessInv => InsideIsAccepted
<1> DEFINE p == Strip(asked)
<1> SUFFICES ASSUME AccessInv, ReadByPath, Inside(Walk(From(p), p)),
                    IF IsAbsolute(p) THEN Lead(p) = Lead(workingDir) /\ (Lead(p) = 2 => Base # <<>>)
                    ELSE \A i \in DOMAIN p : Places(<<"here">>, p)[i] # <<>>
             PROVE  reply.kind = "file" \/ (purpose = "text" /\ reply = NotText)
  BY DEF InsideIsAccepted
<1>1. workingDir \in Seq(Segments) /\ IsAbsolute(workingDir)
  BY WorkingDirsAreAbsolute DEF AccessInv
<1>2. /\ asked \in Seq(Segments) /\ asked # <<>>
      /\ reply = Opened(purpose, Resolve(workingDir, asked))
  BY ByPath
<1>3. p \in Seq(Segments) /\ p # <<>>
  BY <1>2, StripTypes
<1>4. Resolve(workingDir, asked) = IF IsAbsolute(p) THEN ResolveAbsolute(workingDir, p)
                                   ELSE ResolveRelative(workingDir, p)
  BY DEF Resolve
<1>5. IsPrefix(Base, Walk(From(p), p)) /\ Walk(From(p), p) # Base
  BY DEF Inside
<1> HIDE DEF p
<1>6. ASSUME IsAbsolute(p) PROVE Resolve(workingDir, asked).kind = "file"
  <2>1. /\ IsPrefix(Walk(<<>>, workingDir), Walk(<<>>, p)) /\ Walk(<<>>, p) # Walk(<<>>, workingDir)
        /\ Lead(p) = Lead(workingDir) /\ (Lead(p) = 2 => Walk(<<>>, workingDir) # <<>>)
    BY <1>5, <1>6 DEF From, Base
  <2>2. ResolveAbsolute(workingDir, p).kind = "file"
    BY <1>1, <1>3, <1>6, <2>1, AbsoluteIsAccepted
  <2>3. QED
    BY <1>4, <1>6, <2>2
<1>7. ASSUME ~IsAbsolute(p) PROVE Resolve(workingDir, asked).kind = "file"
  <2>1. Walk(Walk(<<>>, workingDir), p) # Walk(<<>>, workingDir)
    BY <1>5, <1>7 DEF From, Base
  <2>2. ResolveRelative(workingDir, p).kind = "file"
    BY <1>1, <1>3, <1>7, <2>1, RelativeIsAccepted
  <2>3. QED
    BY <1>4, <1>7, <2>2
<1>8. Resolve(workingDir, asked).kind = "file"
  BY <1>6, <1>7
<1>9. QED
  BY <1>2, <1>8, OpenedIs

\* Listed paths are relative and remote paths absolute: none is taken for another.
LEMMA RecordedFromInv == AccessInv => RecordedIsRead
<1> SUFFICES ASSUME AccessInv, NEW a \in artifacts
             PROVE  /\ asked = a.path /\ a.path = Strip(a.path)
                         => reply = IF purpose = "download" \/ Previewable(a.path)
                                    THEN File(a.remote, a.path) ELSE NotText
                    /\ asked = a.remote /\ (\A b \in Matches(asked) : b.path[1] # " ")
                         => reply.kind = "file" \/ (purpose = "text" /\ reply = NotText)
  BY DEF RecordedIsRead
<1>1. workingDir \in WorkingDirs /\ Answered
  BY DEF AccessInv
<1>2. workingDir \in Seq(Segments) /\ IsAbsolute(workingDir)
  BY <1>1, WorkingDirsAreAbsolute
<1>3. ASSUME NEW b \in artifacts
      PROVE  /\ b.path \in Seq(FileNames) /\ b.path \in Seq(Segments) /\ b.path # <<>>
             /\ b.path[1] # "" /\ ~IsAbsolute(b.path)
             /\ b.remote = JoinRemotePath(workingDir, b.path)
             /\ b.remote \in Seq(Segments) /\ IsAbsolute(b.remote) /\ b.remote # <<>>
  <2>1. PICK f \in Files : b = Recorded(workingDir, f)
    BY DEF AccessInv
  <2>2. b.path = f /\ b.remote = JoinRemotePath(workingDir, f)
    BY <2>1 DEF Recorded
  <2>3. f \in Seq(FileNames) /\ f # <<>> /\ f \in Seq(Segments)
    BY FilesAssumption, SegmentFacts
  <2>4. f[1] # ""
    <3>1. f[1] \in FileNames
      BY <2>3, FirstOf, EmptySeq
    <3>2. QED
      BY <3>1, SegmentFacts
  <2>5. ~IsAbsolute(f)
    BY <2>4 DEF IsAbsolute
  <2>6. JoinRemotePath(workingDir, f) \in Seq(Segments) /\ IsAbsolute(JoinRemotePath(workingDir, f))
    BY <1>2, <2>3, <2>5, RemoteLeads
  <2>7. JoinRemotePath(workingDir, f) # <<>>
    BY <2>6, AbsoluteFacts
  <2>8. QED
    BY <2>2, <2>3, <2>4, <2>5, <2>6, <2>7
<1>4. ASSUME asked \in {a.path, a.remote}
      PROVE  \E b \in Matches(asked) : reply = Opened(purpose, Resolve(workingDir, b.path))
  <2>1. artifacts # {} /\ asked # <<>>
    BY <1>3, <1>4
  <2>2. Matches(asked) # {}
    BY <1>4 DEF Matches
  <2>3. QED
    BY <1>1, <2>1, <2>2 DEF Answered
<1>5. ASSUME asked = a.path, a.path = Strip(a.path)
      PROVE  reply = IF purpose = "download" \/ Previewable(a.path)
                     THEN File(a.remote, a.path) ELSE NotText
  <2>1. PICK b \in Matches(asked) : reply = Opened(purpose, Resolve(workingDir, b.path))
    BY <1>4, <1>5
  <2>2. b \in artifacts /\ (asked \in {b.path, b.remote} \/ LStripSlashes(asked) = b.path)
    BY <2>1 DEF Matches
  <2>3. asked # b.remote
    BY <1>3, <1>5, <2>2
  <2>4. LStripSlashes(asked) = asked
    BY <1>3, <1>5, LStripLeads
  <2>5. b.path = a.path
    BY <1>5, <2>2, <2>3, <2>4
  <2>6. Resolve(workingDir, a.path) = File(JoinRemotePath(workingDir, a.path), a.path)
    BY <1>1, <1>3, <1>5, NamesAreAccepted
  <2>7. Resolve(workingDir, b.path) = File(a.remote, a.path)
    BY <1>3, <2>5, <2>6
  <2>8. File(a.remote, a.path).kind = "file" /\ File(a.remote, a.path).relative = a.path
    BY DEF File
  <2>9. purpose \in {"text", "download"}
    BY DEF AccessInv, Purposes
  <2>10. QED
    BY <2>1, <2>7, <2>8, <2>9, OpenedIs
<1>6. ASSUME asked = a.remote, \A b \in Matches(asked) : b.path[1] # " "
      PROVE  reply.kind = "file" \/ (purpose = "text" /\ reply = NotText)
  <2>1. PICK b \in Matches(asked) : reply = Opened(purpose, Resolve(workingDir, b.path))
    BY <1>4, <1>6
  <2>2. b \in artifacts
    BY <2>1 DEF Matches
  <2>3. b.path[1] # " "
    BY <1>6, <2>1
  <2>4. Resolve(workingDir, b.path).kind = "file"
    BY <1>1, <1>3, <2>2, <2>3, NamesAreAccepted
  <2>5. QED
    BY <2>1, <2>4, OpenedIs
<1>7. QED
  BY <1>5, <1>6

\* A preview is that of some text and some max_chars.
LEMMA PreviewFromInv == AccessInv => PreviewTellsTheTruth
<1> SUFFICES ASSUME AccessInv, reply.kind = "preview" PROVE PreviewTellsTheTruth
  BY DEF PreviewTellsTheTruth
<1>1. \E n \in 0 .. MaxLength, max \in - MaxLength .. MaxLength :
        asked = <<n, max>> /\ reply = PreviewOf(n, max)
  <2>1. \A use, q : Opened(use, Resolve(workingDir, q)).kind # "preview"
    <3>1. \A use, q : Opened(use, Resolve(workingDir, q)).kind
                         \in {"file", "not found", "outside", "not text"}
      BY OpenedKinds
    <3>2. QED
      BY <3>1
  <2>2. Ready.kind # "preview" /\ NotFound.kind # "preview"
    BY DEF Ready, NotFound
  <2>3. QED
    BY <2>1, <2>2 DEF AccessInv, Answered
<1>2. PICK n \in 0 .. MaxLength, max \in - MaxLength .. MaxLength :
        asked = <<n, max>> /\ reply = PreviewOf(n, max)
  BY <1>1
<1> DEFINE limit == PreviewLimit(max)
<1>3. /\ asked[1] = n /\ asked[2] = max
      /\ reply.shown = Shown(n, limit) /\ reply.truncated = Truncated(n, limit)
  BY <1>2 DEF PreviewOf
<1>4. /\ n \in Nat /\ max \in Int /\ limit \in Int
      /\ max > 0 => limit = max
      /\ max >= 0 => limit > 0
  BY LengthsAssumption DEF PreviewLimit
<1> HIDE DEF limit
<1>5. /\ Shown(n, limit) < n => Truncated(n, limit)
      /\ max >= 0 /\ Truncated(n, limit) => Shown(n, limit) < n
      /\ max > 0 => Shown(n, limit) <= max
  BY <1>4 DEF Shown, Truncated
<1>6. QED
  BY <1>3, <1>5 DEF PreviewTellsTheTruth

-----------------------------------------------------------------------------
(* The theorems. *)

\* What was asked last was answered by the code of its request, in a working directory as
\* config.py makes it, from artifacts as a manifest lists them.
LEMMA AccessInvariance == AccessSpec => []AccessInv
<1>1. QED
  BY AccessInvInit, AccessInvNext, PTL DEF AccessSpec

\* However a path is spelt, one that read_artifact_text or download_artifact accepts leads
\* below working_dir, and what is read and what is shown both lead where the path leads.
THEOREM AcceptedIsTheirFile == AccessSpec => []AcceptedIsTheFile
<1>1. QED
  BY AccessInvariance, AcceptedFromInv, PTL

\* No path is refused that stays inside working_dir and leads to something below it.
THEOREM InsideIsTaken == AccessSpec => []InsideIsAccepted
<1>1. QED
  BY AccessInvariance, InsideFromInv, PTL

\* A recorded artifact is read under the path it is listed under, by every download and by a
\* preview if it is one of text, and found by its remote path.
THEOREM RecordedAreRead == AccessSpec => []RecordedIsRead
<1>1. QED
  BY AccessInvariance, RecordedFromInv, PTL

\* For every length and every max_chars, a preview that lacks text says so.
THEOREM PreviewsTellTheTruth == AccessSpec => []PreviewTellsTheTruth
<1>1. QED
  BY AccessInvariance, PreviewFromInv, PTL
=============================================================================
