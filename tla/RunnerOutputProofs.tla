------------------------- MODULE RunnerOutputProofs -------------------------
(***************************************************************************)
(* Proofs about RunnerOutput, for any number of writers, any limit and any *)
(* texts: the flag is right however the writes of threads mix, and no      *)
(* character is missing but those that were cut.                           *)
(*                                                                         *)
(* A write counts what it will cut when it begins and raises the flag when *)
(* it ends, and nothing lowers the flag; so something was cut exactly if   *)
(* the flag is up or a write that cuts is on its way to it                 *)
(* (CutsAreFlagged).  The characters of the writes in progress are counted *)
(* as the elements of a set of pairs, so that the lemmas on the            *)
(* cardinality of finite sets take the place of a sum (CharactersCounted). *)
(***************************************************************************)
EXTENDS RunnerOutput, FiniteSetTheorems, TLAPS

\* Slicing: no more than the text, no more than the room.
LEMMA ChunkBounds ==
  ASSUME NEW n \in Nat, NEW room \in Int
  PROVE  /\ Chunk(n, room) \in Nat
         /\ n - Chunk(n, room) \in Nat
         /\ n > Chunk(n, room) <=> n > IF room > 0 THEN room ELSE 0
BY DEF Chunk

\* The parts of write() after it has taken its text.
LEMMA WriteFlagStep ==
  ASSUME FlagInv, NEW w \in Writers, Write(w)
  PROVE  FlagInv'
<1>a. TypeOK /\ CutsAreFlagged
  BY DEF FlagInv
<1>b. /\ Chunk(text[w], remaining[w]) \in Nat
      /\ text[w] > Chunk(text[w], remaining[w])
           <=> text[w] > IF remaining[w] > 0 THEN remaining[w] ELSE 0
  <2>1. text[w] \in Nat /\ remaining[w] \in Int
    BY <1>a DEF TypeOK
  <2>2. QED
    BY <2>1, ChunkBounds
<1>1. CASE AppendChunk(w) \/ Load(w) \/ Store(w)
  <2>1. TypeOK'
    <3>1. CASE AppendChunk(w)
      BY <1>a, <1>b, <3>1 DEF AppendChunk, Goto, ghostVars, TypeOK
    <3>2. CASE Load(w)
      BY <1>a, <3>2 DEF Load, Goto, selfVars, ghostVars, TypeOK
    <3>3. CASE Store(w)
      BY <1>a, <1>b, <3>3 DEF Store, Goto, ghostVars, TypeOK
    <3>4. QED
      BY <1>1, <3>1, <3>2, <3>3
  <2>2. \A v \in Writers : Cuts(v)' <=> Cuts(v)
    BY <1>1, <1>a DEF AppendChunk, Load, Store, Goto, TypeOK, Cuts, Part, Chunk
  <2>3. UNCHANGED <<truncated, dropped>>
    BY <1>1 DEF AppendChunk, Load, Store, selfVars, ghostVars
  <2>4. QED
    BY <1>a, <2>1, <2>2, <2>3 DEF FlagInv, CutsAreFlagged
<1>2. CASE Flag(w)
  <2>1. TypeOK'
    BY <1>a, <1>2 DEF Flag, Goto, ghostVars, TypeOK
  <2>2. /\ \A v \in Writers \ {w} : Cuts(v)' <=> Cuts(v)
        /\ ~Cuts(w)'
    BY <1>2, <1>a DEF Flag, Goto, TypeOK, Cuts, Part, Chunk
  <2>3. truncated' <=> truncated \/ Cuts(w)
    BY <1>2, <1>a, <1>b DEF Flag, Cuts, Part, TypeOK
  <2>4. QED
    BY <1>2, <1>a, <2>1, <2>2, <2>3 DEF Flag, ghostVars, FlagInv, CutsAreFlagged
<1>3. QED
  BY <1>1, <1>2 DEF Write

\* A write that begins.
LEMMA BeginFlagStep ==
  ASSUME FlagInv, NEW w \in Writers, NEW n \in Texts, Begin(w, n)
  PROVE  FlagInv'
<1> DEFINE room == Limit - length
<1>a. TypeOK /\ CutsAreFlagged /\ n \in Nat /\ room \in Int /\ Limit \in Nat \ {0}
  BY LimitAssumption, TextsAssumption DEF FlagInv, TypeOK
<1>b. Chunk(n, room) \in Nat /\ n - Chunk(n, room) \in Nat
  BY <1>a, ChunkBounds
<1>1. /\ text' = [text EXCEPT ![w] = n]
      /\ remaining' = [remaining EXCEPT ![w] = room]
      /\ pc' = [pc EXCEPT ![w] = IF room > 0 THEN "append" ELSE "flag"]
      /\ sent' = sent + n
      /\ dropped' = dropped + (n - Chunk(n, room))
      /\ pc[w] = "idle"
      /\ UNCHANGED <<selfVars, old>>
  BY DEF Begin, Goto
<1>2. TypeOK'
  <2>1. raced' \in BOOLEAN /\ UNCHANGED <<length, truncated, kept, old>>
    BY <1>a DEF Begin, selfVars, TypeOK
  <2>2. /\ text' \in [Writers -> Nat] /\ remaining' \in [Writers -> Int]
        /\ pc' \in [Writers -> {"idle", "append", "load", "store", "flag"}]
    BY <1>a, <1>1 DEF TypeOK
  <2>3. sent' \in Nat /\ dropped' \in Nat
    BY <1>a, <1>b, <1>1 DEF TypeOK
  <2>4. \A v \in Writers :
          pc'[v] \in {"append", "load", "store"} => remaining'[v] \in 1 .. Limit
    BY <1>a, <1>1 DEF TypeOK
  <2>5. QED
    BY <1>a, <2>1, <2>2, <2>3, <2>4 DEF TypeOK
<1>3. \A v \in Writers \ {w} : Cuts(v)' <=> Cuts(v)
  BY <1>a, <1>1 DEF TypeOK, Cuts, Part, Chunk
<1>4. Cuts(w)' <=> n > Chunk(n, room)
  BY <1>a, <1>1 DEF TypeOK, Cuts, Part, Chunk
<1>5. ~Cuts(w) /\ truncated' = truncated
  BY <1>1 DEF Cuts, selfVars
<1>6. dropped' > 0 <=> dropped > 0 \/ n > Chunk(n, room)
  BY <1>a, <1>b, <1>1 DEF TypeOK
<1>7. (\E v \in Writers : Cuts(v)') <=> (\E v \in Writers : Cuts(v)) \/ Cuts(w)'
  BY <1>3, <1>5
<1>8. dropped' > 0 <=> dropped > 0 \/ Cuts(w)'
  BY <1>4, <1>6
<1>9. CutsAreFlagged'
  BY <1>a, <1>5, <1>7, <1>8 DEF CutsAreFlagged
<1>10. QED
  BY <1>2, <1>9 DEF FlagInv

-----------------------------------------------------------------------------
(* Counting characters. *)

\* The characters of one write.
Slots(w, n) == {w} \X (1 .. n)

(* A writer's pairs with 1..n are n: how a sum over the writers becomes a cardinality. *)
LEMMA SlotsCount ==
  ASSUME NEW w, NEW n \in Nat
  PROVE  IsFiniteSet(Slots(w, n)) /\ Cardinality(Slots(w, n)) = n
<1>1. IsFiniteSet({w}) /\ Cardinality({w}) = 1
  BY FS_Singleton
<1>2. IsFiniteSet(1 .. n) /\ Cardinality(1 .. n) = n
  BY FS_Interval
<1>3. /\ IsFiniteSet({w} \X (1 .. n))
      /\ Cardinality({w} \X (1 .. n)) = Cardinality({w}) * Cardinality(1 .. n)
  BY <1>1, <1>2, FS_Product, Zenon
<1>4. Cardinality({w} \X (1 .. n)) = 1 * n
  BY <1>1, <1>2, <1>3, Zenon
<1>5. 1 * n = n
  OBVIOUS
<1>6. QED
  BY <1>3, <1>4, <1>5, Zenon DEF Slots

\* The characters of a write join a set in which it has none.
LEMMA SlotsJoin ==
  ASSUME NEW S, IsFiniteSet(S), NEW w, NEW n \in Nat, S \cap Slots(w, n) = {}
  PROVE  /\ IsFiniteSet(S \cup Slots(w, n))
         /\ Cardinality(S \cup Slots(w, n)) = Cardinality(S) + n
<1>1. IsFiniteSet(Slots(w, n)) /\ Cardinality(Slots(w, n)) = n
  BY SlotsCount
<1>2. Cardinality(S \cap Slots(w, n)) = 0 /\ Cardinality(S) \in Nat
  BY FS_EmptySet, FS_CardinalityType
<1>3. /\ IsFiniteSet(S \cup Slots(w, n))
      /\ Cardinality(S \cup Slots(w, n)) =
           Cardinality(S) + Cardinality(Slots(w, n)) - Cardinality(S \cap Slots(w, n))
  BY <1>1, FS_Union, Zenon
<1>4. QED
  BY <1>1, <1>2, <1>3

\* They leave a set in which they all are.
LEMMA SlotsLeave ==
  ASSUME NEW S, IsFiniteSet(S), NEW w, NEW n \in Nat, Slots(w, n) \subseteq S
  PROVE  /\ IsFiniteSet(S \ Slots(w, n))
         /\ Cardinality(S \ Slots(w, n)) = Cardinality(S) - n
<1>1. Cardinality(Slots(w, n)) = n /\ S \cap Slots(w, n) = Slots(w, n)
  BY SlotsCount
<1>2. /\ IsFiniteSet(S \ Slots(w, n))
      /\ Cardinality(S \ Slots(w, n)) = Cardinality(S) - Cardinality(S \cap Slots(w, n))
  BY FS_Difference, Zenon
<1>3. QED
  BY <1>1, <1>2

\* What a write keeps is some of its text, and no more than the limit.
LEMMA PartBounds ==
  ASSUME TypeOK, NEW w \in Writers
  PROVE  /\ Part(w) \in Nat
         /\ pc[w] \in {"append", "load", "store"} => Part(w) \in 0 .. Limit
<1>1. text[w] \in Nat /\ remaining[w] \in Int /\ Limit \in Nat
  BY LimitAssumption DEF TypeOK
<1>2. QED
  BY <1>1 DEF Part, Chunk, TypeOK

\* A write that arrives at one of the places, or leaves them, or does neither.
LEMMA CharactersMove ==
  ASSUME TypeOK, TypeOK', NEW w \in Writers, NEW places \in SUBSET {"append", "load", "store"},
         \A v \in Writers \ {w} : pc'[v] = pc[v] /\ Part(v)' = Part(v)
  PROVE  /\ pc[w] \notin places /\ pc'[w] \in places
              => /\ Characters(places)' = Characters(places) \cup Slots(w, Part(w)')
                 /\ Characters(places) \cap Slots(w, Part(w)') = {}
         /\ pc[w] \in places /\ pc'[w] \notin places
              => /\ Characters(places)' = Characters(places) \ Slots(w, Part(w))
                 /\ Slots(w, Part(w)) \subseteq Characters(places)
         /\ pc[w] \notin places /\ pc'[w] \notin places
              => Characters(places)' = Characters(places)
         /\ pc[w] \in places /\ pc'[w] \in places /\ Part(w)' = Part(w)
              => Characters(places)' = Characters(places)
<1>1. /\ \A c \in Writers \X (1 .. Limit) :
           /\ c \in Characters(places) <=> pc[c[1]] \in places /\ c[2] <= Part(c[1])
           /\ c \in Characters(places)' <=> pc'[c[1]] \in places /\ c[2] <= Part(c[1])'
      /\ Characters(places) \subseteq Writers \X (1 .. Limit)
      /\ Characters(places)' \subseteq Writers \X (1 .. Limit)
  BY DEF Characters
<1>2. ASSUME NEW n \in 0 .. Limit, NEW c
      PROVE  /\ c \in Slots(w, n) <=> c \in Writers \X (1 .. Limit) /\ c[1] = w /\ c[2] <= n
             /\ c \in Slots(w, n) => c[1] = w
  BY LimitAssumption DEF Slots
<1>3. /\ pc[w] \in places => Part(w) \in 0 .. Limit
      /\ pc'[w] \in places => Part(w)' \in 0 .. Limit
  BY PartBounds, LimitAssumption DEF TypeOK, Part, Chunk
<1>4. \A c \in Writers \X (1 .. Limit) :
        /\ c[1] \in Writers
        /\ c[1] # w => (c \in Characters(places) <=> c \in Characters(places)')
        /\ c[1] = w => /\ c \in Characters(places) <=> pc[w] \in places /\ c[2] <= Part(w)
                       /\ c \in Characters(places)' <=> pc'[w] \in places /\ c[2] <= Part(w)'
  BY <1>1
<1>5. QED
  BY <1>1, <1>2, <1>3, <1>4

\* A step of w changes no other write.
LEMMA OthersWrite ==
  ASSUME TypeOK, NEW w \in Writers, Write(w) \/ \E n \in Texts : Begin(w, n)
  PROVE  /\ \A v \in Writers \ {w} : pc'[v] = pc[v] /\ Part(v)' = Part(v)
         /\ Write(w) => Part(w)' = Part(w)
<1>1. CASE Write(w)
  BY <1>1 DEF Write, AppendChunk, Load, Store, Flag, Goto, TypeOK, Part, Chunk
<1>2. ASSUME NEW n \in Texts, Begin(w, n)
      PROVE  \A v \in Writers \ {w} : pc'[v] = pc[v] /\ Part(v)' = Part(v)
  <2>1. \A v \in Writers \ {w} : pc'[v] = pc[v] /\ text'[v] = text[v] /\ remaining'[v] = remaining[v]
    BY <1>2 DEF Begin, Goto, TypeOK
  <2>2. QED
    BY <2>1 DEF Part
<1>3. CASE \E n \in Texts : Begin(w, n)
  <2>1. Write(w) => Part(w)' = Part(w)
    BY <1>1
  <2>2. QED
    BY <1>2, <1>3, <2>1
<1>4. QED
  BY <1>1, <1>3

\* The sizes of the sets are numbers.
LEMMA CountTypes ==
  ASSUME CharactersCounted
  PROVE  Cardinality(Unkept) \in Nat /\ Cardinality(Uncounted) \in Nat
BY FS_CardinalityType DEF CharactersCounted

\* A write begins: what it will keep is not kept yet.
LEMMA BeginCounts ==
  ASSUME IInv, TypeOK', NEW w \in Writers, NEW n \in Texts, Begin(w, n)
  PROVE  CharactersCounted' /\ AloneIsExact'
<1> DEFINE room == Limit - length
           u == Cardinality(Unkept)
           c == Cardinality(Uncounted)
<1>a. /\ TypeOK /\ CharactersCounted /\ AloneIsExact
      /\ n \in Nat /\ room \in Int /\ Limit \in Nat \ {0} /\ u \in Nat /\ c \in Nat
      /\ length \in Nat /\ kept \in Nat /\ sent \in Nat /\ dropped \in Nat
  BY LimitAssumption, TextsAssumption, CountTypes DEF IInv, FlagInv, TypeOK
<1>1. /\ pc[w] = "idle" /\ pc'[w] = IF room > 0 THEN "append" ELSE "flag"
      /\ sent' = sent + n /\ dropped' = dropped + (n - Chunk(n, room))
      /\ UNCHANGED <<length, kept, old>>
      /\ raced' = (raced \/ \E v \in Writers : pc[v] # "idle")
  BY <1>a DEF Begin, Goto, TypeOK, selfVars
<1>2. Part(w)' = Chunk(n, room)
  BY <1>a DEF Begin, Part, TypeOK
<1>3. \A v \in Writers \ {w} : pc'[v] = pc[v] /\ Part(v)' = Part(v)
  BY <1>a, OthersWrite
<1>4. Chunk(n, room) = (IF room <= 0 THEN 0 ELSE IF n < room THEN n ELSE room)
      /\ Chunk(n, room) \in Nat
  BY <1>a DEF Chunk
<1>5. Uncounted' = Uncounted
  BY <1>a, <1>1, <1>3, CharactersMove DEF Uncounted
<1>6. IsFiniteSet(Unkept') /\ Cardinality(Unkept') = u + Chunk(n, room)
  <2>1. CASE room > 0
    <3>1. Unkept' = Unkept \cup Slots(w, Chunk(n, room)) /\ Unkept \cap Slots(w, Chunk(n, room)) = {}
      BY <1>a, <1>1, <1>2, <1>3, <2>1, CharactersMove DEF Unkept
    <3>2. QED
      BY <1>a, <1>4, <3>1, SlotsJoin DEF CharactersCounted
  <2>2. CASE ~(room > 0)
    <3>1. Unkept' = Unkept
      BY <1>a, <1>1, <1>3, <2>2, CharactersMove DEF Unkept
    <3>2. QED
      BY <1>a, <1>4, <2>2, <3>1 DEF CharactersCounted
  <2>3. QED
    BY <2>1, <2>2
<1>7. CharactersCounted'
  <2>1. kept' + Cardinality(Unkept') = sent' - dropped'
    BY <1>a, <1>1, <1>4, <1>6 DEF CharactersCounted
  <2>2. dropped' > 0 => kept' + Cardinality(Unkept') >= Limit
    <3>1. CASE dropped > 0
      BY <1>a, <1>1, <1>4, <1>6, <3>1 DEF CharactersCounted
    <3>2. CASE n > Chunk(n, room)
      <4>1. length + c <= kept /\ Limit = length + room
        BY <1>a DEF CharactersCounted
      <4>2. QED
        BY <1>a, <1>1, <1>4, <1>6, <3>2, <4>1
    <3>3. dropped' > 0 => dropped > 0 \/ n > Chunk(n, room)
      BY <1>a, <1>1, <1>4
    <3>4. QED
      BY <3>1, <3>2, <3>3
  <2>3. \A v \in Writers : pc'[v] = "store" => pc[v] = "store"
    BY <1>1, <1>3
  <2>4. QED
    BY <1>a, <1>1, <1>5, <1>6, <2>1, <2>2, <2>3 DEF CharactersCounted
<1>8. AloneIsExact'
  <2> SUFFICES ASSUME ~raced'
               PROVE  /\ \A v, x \in Writers : pc'[v] # "idle" /\ pc'[x] # "idle" => v = x
                      /\ length' + Cardinality(Uncounted') = kept'
                      /\ \A v \in Writers : pc'[v] = "store" => old'[v] = length'
                      /\ sent' - dropped' = IF sent' < Limit THEN sent' ELSE Limit
    BY DEF AloneIsExact
  <2>1. ~raced /\ \A v \in Writers : pc[v] = "idle"
    BY <1>1
  <2>2. length + c = kept /\ sent - dropped = IF sent < Limit THEN sent ELSE Limit
    BY <1>a, <2>1 DEF AloneIsExact
  <2>3. c = 0 /\ u = 0
    <3>1. Uncounted = {} /\ Unkept = {}
      BY <2>1 DEF Uncounted, Unkept, Characters
    <3>2. QED
      BY <3>1, FS_EmptySet
  <2>4. kept + u = sent - dropped
    BY <1>a DEF CharactersCounted
  <2>5. sent' - dropped' = IF sent' < Limit THEN sent' ELSE Limit
    BY <1>a, <1>1, <1>4, <2>2, <2>3, <2>4
  <2>6. \A v \in Writers \ {w} : pc'[v] = "idle"
    BY <1>3, <2>1
  <2>7. pc'[w] # "store"
    BY <1>1
  <2>8. QED
    BY <1>1, <1>5, <2>2, <2>5, <2>6, <2>7
<1>9. QED
  BY <1>7, <1>8

\* Its chunk is kept, and not counted yet.
LEMMA AppendCounts ==
  ASSUME IInv, TypeOK', NEW w \in Writers, AppendChunk(w)
  PROVE  CharactersCounted' /\ AloneIsExact'
<1> DEFINE u == Cardinality(Unkept)
           c == Cardinality(Uncounted)
<1>a. /\ TypeOK /\ CharactersCounted /\ AloneIsExact /\ u \in Nat /\ c \in Nat
      /\ length \in Nat /\ kept \in Nat /\ sent \in Nat /\ dropped \in Nat /\ Part(w) \in Nat
      /\ old \in [Writers -> Nat]
  BY CountTypes, PartBounds DEF IInv, FlagInv, TypeOK
<1>1. /\ pc[w] = "append" /\ pc'[w] = "load" /\ kept' = kept + Part(w)
      /\ UNCHANGED <<length, old, sent, dropped, raced>>
  BY <1>a DEF AppendChunk, Goto, TypeOK, Part, ghostVars
<1>2. Part(w)' = Part(w) /\ \A v \in Writers \ {w} : pc'[v] = pc[v] /\ Part(v)' = Part(v)
  BY <1>a, OthersWrite DEF Write
<1>3. IsFiniteSet(Unkept') /\ Cardinality(Unkept') = u - Part(w)
  <2>1. Unkept' = Unkept \ Slots(w, Part(w)) /\ Slots(w, Part(w)) \subseteq Unkept
    BY <1>a, <1>1, <1>2, CharactersMove DEF Unkept
  <2>2. QED
    BY <1>a, <2>1, SlotsLeave DEF CharactersCounted
<1>4. IsFiniteSet(Uncounted') /\ Cardinality(Uncounted') = c + Part(w)
  <2>1. Uncounted' = Uncounted \cup Slots(w, Part(w)) /\ Uncounted \cap Slots(w, Part(w)) = {}
    BY <1>a, <1>1, <1>2, CharactersMove DEF Uncounted
  <2>2. QED
    BY <1>a, <2>1, SlotsJoin DEF CharactersCounted
<1>5. \A v \in Writers : pc'[v] = "store" => pc[v] = "store"
  BY <1>1, <1>2
<1>6. Limit \in Nat
  BY LimitAssumption
<1>7. CharactersCounted'
  <2>1. \A v \in Writers : pc'[v] = "store" => old'[v] + Cardinality(Uncounted') <= kept'
    BY <1>a, <1>1, <1>4, <1>5 DEF CharactersCounted
  <2>2. kept' + Cardinality(Unkept') = kept + u
    BY <1>a, <1>1, <1>3
  <2>3. length' + Cardinality(Uncounted') <= kept'
    BY <1>a, <1>1, <1>4 DEF CharactersCounted
  <2>4. QED
    BY <1>a, <1>1, <1>3, <1>4, <1>6, <2>1, <2>2, <2>3 DEF CharactersCounted
<1>8. AloneIsExact'
  <2>1. \A v \in Writers : pc'[v] # "idle" => pc[v] # "idle"
    BY <1>1, <1>2
  <2>2. QED
    BY <1>a, <1>1, <1>4, <1>5, <2>1 DEF AloneIsExact
<1>9. QED
  BY <1>7, <1>8

\* The counter is read, and written back with the chunk: what others have counted in
\* between is lost, but nothing is counted that is not kept.
LEMMA LoadCounts ==
  ASSUME IInv, TypeOK', NEW w \in Writers, Load(w)
  PROVE  CharactersCounted' /\ AloneIsExact'
<1>a. /\ TypeOK /\ CharactersCounted /\ AloneIsExact /\ old \in [Writers -> Nat]
  BY DEF IInv, FlagInv, TypeOK
<1>1. /\ pc[w] = "load" /\ pc'[w] = "store" /\ old' = [old EXCEPT ![w] = length]
      /\ UNCHANGED <<length, kept, sent, dropped, raced>>
  BY <1>a DEF Load, Goto, TypeOK, selfVars, ghostVars
<1>2. Part(w)' = Part(w) /\ \A v \in Writers \ {w} : pc'[v] = pc[v] /\ Part(v)' = Part(v)
  BY <1>a, OthersWrite DEF Write
<1>3. Unkept' = Unkept /\ Uncounted' = Uncounted
  BY <1>a, <1>1, <1>2, CharactersMove DEF Unkept, Uncounted
<1>4. \A v \in Writers : pc'[v] = "store" => old'[v] = length \/ (pc[v] = "store" /\ old'[v] = old[v])
  BY <1>a, <1>1, <1>2
<1>5. CharactersCounted'
  BY <1>a, <1>1, <1>3, <1>4 DEF CharactersCounted
<1>6. AloneIsExact'
  <2>1. \A v \in Writers : pc'[v] # "idle" => pc[v] # "idle"
    BY <1>1, <1>2
  <2>2. QED
    BY <1>a, <1>1, <1>3, <1>4, <2>1 DEF AloneIsExact
<1>7. QED
  BY <1>5, <1>6

(* The write of `self.length`: what it had read, plus what it kept, replaces what is
   there now. *)
LEMMA StoreCounts ==
  ASSUME IInv, TypeOK', NEW w \in Writers, Store(w)
  PROVE  CharactersCounted' /\ AloneIsExact'
<1> DEFINE c == Cardinality(Uncounted)
<1>a. /\ TypeOK /\ CharactersCounted /\ AloneIsExact /\ c \in Nat
      /\ length \in Nat /\ kept \in Nat /\ Part(w) \in Nat /\ old \in [Writers -> Nat]
  BY CountTypes, PartBounds DEF IInv, FlagInv, TypeOK
<1>1. /\ pc[w] = "store" /\ pc'[w] = "flag" /\ length' = old[w] + Part(w)
      /\ UNCHANGED <<kept, old, sent, dropped, raced>>
  BY <1>a DEF Store, Goto, TypeOK, Part, ghostVars
<1>2. Part(w)' = Part(w) /\ \A v \in Writers \ {w} : pc'[v] = pc[v] /\ Part(v)' = Part(v)
  BY <1>a, OthersWrite DEF Write
<1>3. Unkept' = Unkept
  BY <1>a, <1>1, <1>2, CharactersMove DEF Unkept
<1>4. IsFiniteSet(Uncounted') /\ Cardinality(Uncounted') = c - Part(w)
  <2>1. Uncounted' = Uncounted \ Slots(w, Part(w)) /\ Slots(w, Part(w)) \subseteq Uncounted
    BY <1>a, <1>1, <1>2, CharactersMove DEF Uncounted
  <2>2. QED
    BY <1>a, <2>1, SlotsLeave DEF CharactersCounted
<1>5. \A v \in Writers : pc'[v] = "store" => pc[v] = "store" /\ v # w
  BY <1>1, <1>2
<1>6. CharactersCounted'
  <2>1. \A v \in Writers : pc'[v] = "store" => old'[v] + Cardinality(Uncounted') <= kept'
    BY <1>a, <1>1, <1>4, <1>5 DEF CharactersCounted
  <2>2. length' + Cardinality(Uncounted') <= kept'
    BY <1>a, <1>1, <1>4 DEF CharactersCounted
  <2>3. QED
    BY <1>a, <1>1, <1>3, <1>4, <2>1, <2>2 DEF CharactersCounted
<1>7. AloneIsExact'
  <2> SUFFICES ASSUME ~raced
               PROVE  /\ \A v, x \in Writers : pc'[v] # "idle" /\ pc'[x] # "idle" => v = x
                      /\ length' + Cardinality(Uncounted') = kept'
                      /\ \A v \in Writers : pc'[v] = "store" => old'[v] = length'
                      /\ sent' - dropped' = IF sent' < Limit THEN sent' ELSE Limit
    BY <1>1 DEF AloneIsExact
  <2>1. /\ \A v, x \in Writers : pc[v] # "idle" /\ pc[x] # "idle" => v = x
        /\ length + c = kept /\ old[w] = length
        /\ sent - dropped = IF sent < Limit THEN sent ELSE Limit
    BY <1>a, <1>1 DEF AloneIsExact
  <2>2. \A v \in Writers : pc'[v] # "idle" => pc[v] # "idle"
    BY <1>1, <1>2
  <2>3. length' + Cardinality(Uncounted') = kept'
    BY <1>a, <1>1, <1>4, <2>1
  <2>4. \A v \in Writers : pc'[v] # "store"
    BY <1>1, <1>5, <2>1
  <2>5. QED
    BY <1>1, <2>1, <2>2, <2>3, <2>4
<1>8. QED
  BY <1>6, <1>7

\* The flag is no matter of counting.
LEMMA FlagCounts ==
  ASSUME IInv, TypeOK', NEW w \in Writers, Flag(w)
  PROVE  CharactersCounted' /\ AloneIsExact'
<1>a. TypeOK /\ CharactersCounted /\ AloneIsExact
  BY DEF IInv, FlagInv
<1>1. /\ pc[w] = "flag" /\ pc'[w] = "idle"
      /\ UNCHANGED <<length, kept, old, sent, dropped, raced>>
  BY <1>a DEF Flag, Goto, TypeOK, ghostVars
<1>2. Part(w)' = Part(w) /\ \A v \in Writers \ {w} : pc'[v] = pc[v] /\ Part(v)' = Part(v)
  BY <1>a, OthersWrite DEF Write
<1>3. Unkept' = Unkept /\ Uncounted' = Uncounted
  BY <1>a, <1>1, <1>2, CharactersMove DEF Unkept, Uncounted
<1>4. \A v \in Writers : /\ pc'[v] = "store" => pc[v] = "store"
                         /\ pc'[v] # "idle" => pc[v] # "idle"
  BY <1>1, <1>2
<1>5. CharactersCounted'
  BY <1>a, <1>1, <1>3, <1>4 DEF CharactersCounted
<1>6. AloneIsExact'
  BY <1>a, <1>1, <1>3, <1>4 DEF AloneIsExact
<1>7. QED
  BY <1>5, <1>6

-----------------------------------------------------------------------------
(* The invariant, and the properties. *)

(* The invariant holds for an empty buffer. *)
LEMMA InitInv == Init => IInv
<1> SUFFICES ASSUME Init PROVE IInv
  OBVIOUS
<1>1. TypeOK
  <2>1. truncated \in BOOLEAN /\ raced \in BOOLEAN
    BY DEF Init
  <2>2. \A w \in Writers : pc[w] = "idle"
    BY DEF Init
  <2>3. /\ length \in Nat /\ kept \in Nat /\ sent \in Nat /\ dropped \in Nat
        /\ pc \in [Writers -> {"idle", "append", "load", "store", "flag"}]
        /\ text \in [Writers -> Nat] /\ old \in [Writers -> Nat]
    BY DEF Init
  <2>4. remaining \in [Writers -> Int]
    BY DEF Init
  <2>5. QED
    BY <2>1, <2>2, <2>3, <2>4 DEF TypeOK
<1>2. CutsAreFlagged
  <2>1. \A w \in Writers : ~Cuts(w)
    BY DEF Init, Cuts
  <2>2. ~truncated /\ ~(dropped > 0)
    BY DEF Init
  <2>3. QED
    BY <2>1, <2>2 DEF CutsAreFlagged
<1>3. /\ IsFiniteSet(Unkept) /\ Cardinality(Unkept) = 0
      /\ IsFiniteSet(Uncounted) /\ Cardinality(Uncounted) = 0
  <2>1. Unkept = {} /\ Uncounted = {}
    BY DEF Init, Unkept, Uncounted, Characters
  <2>2. QED
    BY <2>1, FS_EmptySet
<1>4. CharactersCounted /\ AloneIsExact
  BY <1>3, LimitAssumption DEF Init, CharactersCounted, AloneIsExact
<1>5. QED
  BY <1>1, <1>2, <1>4 DEF IInv, FlagInv

(* Every step of a write keeps the invariant. *)
LEMMA InvStep == IInv /\ [Next]_vars => IInv'
<1> SUFFICES ASSUME IInv, [Next]_vars PROVE IInv'
  OBVIOUS
<1>1. ASSUME NEW w \in Writers, Write(w) PROVE IInv'
  <2>1. FlagInv' /\ TypeOK'
    BY <1>1, WriteFlagStep DEF IInv, FlagInv
  <2>2. QED
    BY <1>1, <2>1, AppendCounts, LoadCounts, StoreCounts, FlagCounts DEF Write, IInv
<1>2. ASSUME NEW w \in Writers, NEW n \in Texts, Begin(w, n) PROVE IInv'
  <2>1. FlagInv' /\ TypeOK'
    BY <1>2, BeginFlagStep DEF IInv, FlagInv
  <2>2. QED
    BY <1>2, <2>1, BeginCounts DEF IInv
<1>3. CASE UNCHANGED vars
  <2>1. UNCHANGED <<length, truncated, kept, pc, text, remaining, old, sent, dropped, raced>>
    BY <1>3 DEF vars, selfVars, localVars, ghostVars
  <2>2. FlagInv'
    BY <2>1 DEF IInv, FlagInv, TypeOK, CutsAreFlagged, Cuts, Part, Chunk
  <2>3. Unkept' = Unkept /\ Uncounted' = Uncounted
    BY <2>1 DEF Unkept, Uncounted, Characters, Part, Chunk
  <2>4. QED
    BY <2>1, <2>2, <2>3 DEF IInv, CharactersCounted, AloneIsExact
<1>4. QED
  BY <1>1, <1>2, <1>3 DEF Next

\* In every reachable state the flag is up, or owed by a write in progress, exactly if
\* something was cut; and every character that was not cut is kept, or about to be.
THEOREM Invariance == Spec => []IInv
<1>1. QED
  BY InitInv, InvStep, PTL DEF Spec

\* Between the writes of any number of threads, the flag is up exactly if something was
\* cut.
THEOREM FlagIsRight == Spec => []FlaggedIffCut
<1>1. IInv => FlaggedIffCut
  BY DEF IInv, FlagInv, TypeOK, CutsAreFlagged, Cuts, AtRest, FlaggedIffCut
<1>2. QED
  BY Invariance, <1>1, PTL

\* However many updates of the length are lost, nothing is missing that was not cut, and
\* nothing is cut before a limit's worth is kept; without races, just that is kept.
THEOREM OutputKeptToTheLimit == Spec => []KeptToTheLimit
<1>1. IInv => KeptToTheLimit
  <2> SUFFICES ASSUME IInv, AtRest PROVE /\ kept = sent - dropped
                                         /\ dropped > 0 => kept >= Limit
                                         /\ ~raced => kept = IF sent < Limit THEN sent ELSE Limit
    BY DEF KeptToTheLimit
  <2>1. Cardinality(Unkept) = 0
    <3>1. Unkept = {}
      BY DEF AtRest, Unkept, Characters
    <3>2. QED
      BY <3>1, FS_EmptySet
  <2>2. kept \in Nat /\ sent \in Nat /\ dropped \in Nat
    BY DEF IInv, FlagInv, TypeOK
  <2>3. QED
    BY <2>1, <2>2 DEF IInv, CharactersCounted, AloneIsExact
<1>2. QED
  BY Invariance, <1>1, PTL
=============================================================================
