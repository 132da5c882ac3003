------------------------- MODULE FixedSetDictionary -------------------------
(***************************************************************************)
(* What FixedSetIncrementalLookup promises (header comments of Advance and *)
(* GetResultForCurrentSequence, spec 4.2): each cursor is the input fed to *)
(* it so far and whether that input is still viable, i.e. a prefix of a   *)
(* string of the fixed set.  Once not viable a cursor stays so.  Copying a *)
(* cursor copies both, constructing one resets both.                       *)
(***************************************************************************)
EXTENDS Integers, SequencesExt

CONSTANTS
  Words,      \* the fixed set: string -> result code
  Cursors,    \* cursor variables of the caller
  Alphabet,   \* char values fed to Advance
  MaxInput    \* bound on the input fed to one cursor

VARIABLES seq, viable

NotFound == -1

IsViable(s) == \E w \in DOMAIN Words : IsPrefix(s, w)

Init ==
  /\ seq    = [c \in Cursors |-> << >>]
  /\ viable = [c \in Cursors |-> TRUE]

Feed(c, input) ==
  /\ Len(seq[c]) < MaxInput
  /\ seq'    = [seq EXCEPT ![c] = Append(@, input)]
  /\ viable' = [viable EXCEPT ![c] = @ /\ IsViable(seq'[c])]

Copy(c, d) ==
  /\ seq'    = [seq EXCEPT ![c] = seq[d]]
  /\ viable' = [viable EXCEPT ![c] = viable[d]]

Restart(c) ==
  /\ seq'    = [seq EXCEPT ![c] = << >>]
  /\ viable' = [viable EXCEPT ![c] = TRUE]

Next ==
  \/ \E c \in Cursors, x \in Alphabet : Feed(c, x)
  \/ \E c, d \in Cursors : Copy(c, d)
  \/ \E c \in Cursors : Restart(c)

Spec == Init /\ [][Next]_<<seq, viable>>

\* The result code the set assigns to the input of cursor c.
Result(c) ==
  IF viable[c] /\ seq[c] \in DOMAIN Words THEN Words[seq[c]] ELSE NotFound
=============================================================================
