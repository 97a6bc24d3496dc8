---------------------------- MODULE RunnerOutput ----------------------------
(***************************************************************************)
(* TruncatingBuffer of the runner (execution/python_runner.py): what is    *)
(* kept of the text that user code writes to stdout (or stderr).           *)
(*                                                                         *)
(* The code may start threads, and they write to the same buffer.  write() *)
(* takes no lock, and the interpreter can change threads at the calls it   *)
(* makes, so its parts are steps of their own.  Texts are told apart by    *)
(* their lengths.                                                          *)
(***************************************************************************)
EXTENDS Integers, FiniteSets

CONSTANTS
  Writers,   \* the threads of the user's code
  Limit,     \* max_output_chars
  Texts,     \* lengths of the texts that are written
  MaxSent    \* bound: no text is written that makes the total exceed this

ASSUME LimitAssumption == Limit \in Nat \ {0}
ASSUME TextsAssumption == Texts \subseteq Nat
ASSUME MaxSentAssumption == MaxSent \in Nat

VARIABLES
  length,     \* self.length
  truncated,  \* self.truncated
  kept,       \* the characters in self.parts
  \* locals of the write thread w is in
  pc,         \* where it stands
  text,       \* the length of its text
  remaining,  \* what it found left of the limit
  old,        \* self.length as `self.length += ...` has read it
  \* for the properties and the bound
  sent,       \* characters given to write()
  dropped,    \* characters that write() has cut
  raced       \* a write has begun while another was going on

selfVars == <<length, truncated, kept>>
localVars == <<pc, text, remaining, old>>
ghostVars == <<sent, dropped, raced>>
vars == <<selfVars, localVars, ghostVars>>

\* The types; and a write that appends has found room.
TypeOK ==
  /\ length \in Nat /\ truncated \in BOOLEAN /\ kept \in Nat
  /\ pc \in [Writers -> {"idle", "append", "load", "store", "flag"}]
  /\ text \in [Writers -> Nat]
  /\ remaining \in [Writers -> Int]
  /\ \A w \in Writers : pc[w] \in {"append", "load", "store"} => remaining[w] \in 1 .. Limit
  /\ old \in [Writers -> Nat]
  /\ sent \in Nat /\ dropped \in Nat /\ raced \in BOOLEAN

Init ==
  /\ length = 0 /\ truncated = FALSE /\ kept = 0
  /\ pc = [w \in Writers |-> "idle"]
  /\ text = [w \in Writers |-> 0]
  /\ remaining = [w \in Writers |-> 0]
  /\ old = [w \in Writers |-> 0]
  /\ sent = 0 /\ dropped = 0 /\ raced = FALSE

Goto(w, place) == pc' = [pc EXCEPT ![w] = place]

\* text[:remaining]; nothing when the limit is used up
Chunk(n, room) == IF room <= 0 THEN 0 ELSE IF n < room THEN n ELSE room

\* Mutant: without `if remaining > 0`, a used-up limit slices from the end of the text.
BeginUnguarded(w, n) ==
  /\ pc[w] = "idle" /\ sent + n <= MaxSent
  /\ text' = [text EXCEPT ![w] = n]
  /\ remaining' = [remaining EXCEPT ![w] = Limit - length]
  /\ Goto(w, "append")
  /\ sent' = sent + n
  /\ dropped' = dropped + (n - Chunk(n, Limit - length))
  /\ raced' = (raced \/ \E v \in Writers : pc[v] # "idle")
  /\ UNCHANGED <<selfVars, old>>

\* write(text): remaining = self.limit - self.length
Begin(w, n) ==
  /\ pc[w] = "idle" /\ sent + n <= MaxSent
  /\ LET room == Limit - length IN
     /\ text' = [text EXCEPT ![w] = n]
     /\ remaining' = [remaining EXCEPT ![w] = room]
     /\ Goto(w, IF room > 0 THEN "append" ELSE "flag")
     /\ sent' = sent + n
     /\ dropped' = dropped + (n - Chunk(n, room))
  /\ raced' = (raced \/ \E v \in Writers : pc[v] # "idle")
  /\ UNCHANGED <<selfVars, old>>

\* self.parts.append(chunk)
AppendChunk(w) ==
  /\ pc[w] = "append"
  /\ kept' = kept + Chunk(text[w], remaining[w])
  /\ Goto(w, "load")
  /\ UNCHANGED <<length, truncated, text, remaining, old, ghostVars>>

\* self.length += len(chunk): read, and after the call of len(), added and written.
Load(w) ==
  /\ pc[w] = "load"
  /\ old' = [old EXCEPT ![w] = length]
  /\ Goto(w, "store")
  /\ UNCHANGED <<selfVars, text, remaining, ghostVars>>

\* Mutant: each text is counted as one character longer, as if with its newline.
StoreNewline(w) ==
  /\ pc[w] = "store"
  /\ length' = old[w] + Chunk(text[w], remaining[w]) + 1
  /\ Goto(w, "flag")
  /\ UNCHANGED <<truncated, kept, text, remaining, old, ghostVars>>

Store(w) ==
  /\ pc[w] = "store"
  /\ length' = old[w] + Chunk(text[w], remaining[w])
  /\ Goto(w, "flag")
  /\ UNCHANGED <<truncated, kept, text, remaining, old, ghostVars>>

\* Mutant: the flag tells of the last write only.
FlagLast(w) ==
  /\ pc[w] = "flag"
  /\ truncated' = (text[w] > Chunk(text[w], remaining[w]))
  /\ Goto(w, "idle")
  /\ UNCHANGED <<length, kept, text, remaining, old, ghostVars>>

\* if len(text) > max(remaining, 0)
Flag(w) ==
  /\ pc[w] = "flag"
  /\ truncated' = (truncated \/ text[w] > IF remaining[w] > 0 THEN remaining[w] ELSE 0)
  /\ Goto(w, "idle")
  /\ UNCHANGED <<length, kept, text, remaining, old, ghostVars>>

Write(w) == AppendChunk(w) \/ Load(w) \/ Store(w) \/ Flag(w)

Next == \E w \in Writers : Write(w) \/ \E n \in Texts : Begin(w, n)

Spec == Init /\ [][Next]_vars

-----------------------------------------------------------------------------
(* Properties *)

AtRest == \A w \in Writers : pc[w] = "idle"

\* "The truncation flags allow consumers to detect when output was cut off"
\* (docs/design-docs/design-decisions.md): however the writes of threads mix, once they
\* have returned the flag is up exactly if some text was cut.
FlaggedIffCut == AtRest => (truncated <=> dropped > 0)

\* Lost updates of the length included, no text is missing but what was cut, and text is
\* only cut when a whole limit's worth is kept.  As long as no two writes overlap, the
\* buffer holds the first Limit characters of what was written, and no more.
KeptToTheLimit ==
  AtRest
    => /\ kept = sent - dropped
       /\ dropped > 0 => kept >= Limit
       /\ ~raced => kept = IF sent < Limit THEN sent ELSE Limit

-----------------------------------------------------------------------------
(* The inductive invariant behind the properties. *)

\* What the write of w keeps of its text.
Part(w) == Chunk(text[w], remaining[w])

\* The write of w cuts its text.
Cuts(w) == pc[w] # "idle" /\ text[w] > Part(w)

\* A cut is flagged, or is about to be by the write that makes it; nothing else is.
CutsAreFlagged ==
  /\ dropped > 0 => truncated \/ \E w \in Writers : Cuts(w)
  /\ truncated \/ (\E w \in Writers : Cuts(w)) => dropped > 0

FlagInv == TypeOK /\ CutsAreFlagged

\* The characters of the writes that stand at these places, one by one.
Characters(places) == {c \in Writers \X (1 .. Limit) : pc[c[1]] \in places /\ c[2] <= Part(c[1])}

Unkept == Characters({"append"})
Uncounted == Characters({"load", "store"})

\* What is given to write() is cut, kept, or about to be kept; nothing is cut before a
\* limit's worth is or will be kept; and the length lags behind what is kept by what is
\* not counted yet, or by more: updates get lost.
CharactersCounted ==
  /\ IsFiniteSet(Unkept) /\ IsFiniteSet(Uncounted)
  /\ kept + Cardinality(Unkept) = sent - dropped
  /\ dropped > 0 => kept + Cardinality(Unkept) >= Limit
  /\ length + Cardinality(Uncounted) <= kept
  /\ \A w \in Writers : pc[w] = "store" => old[w] + Cardinality(Uncounted) <= kept

\* Without races no update gets lost.
AloneIsExact ==
  ~raced => /\ \A v, w \in Writers : pc[v] # "idle" /\ pc[w] # "idle" => v = w
            /\ length + Cardinality(Uncounted) = kept
            /\ \A w \in Writers : pc[w] = "store" => old[w] = length
            /\ sent - dropped = IF sent < Limit THEN sent ELSE Limit

\* In every reachable state the flag is up, or owed by a write in progress, exactly if
\* something was cut; and every character that was not cut is accounted for.
IInv == FlagInv /\ CharactersCounted /\ AloneIsExact
=============================================================================
