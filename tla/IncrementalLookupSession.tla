---------------------- MODULE IncrementalLookupSession ----------------------
(***************************************************************************)
(* A caller holding FixedSetIncrementalLookup objects, as in the usage     *)
(* examples of the header: it constructs cursors, feeds them characters    *)
(* with Advance and saves/restores positions by copy assignment.  The      *)
(* history variable `consumed` records what each cursor was fed; it is     *)
(* used only by the properties and the refinement mapping.                 *)
(***************************************************************************)
EXTENDS FixedSetIncrementalLookup

CONSTANTS
  Words,      \* the set the graph was compiled from: string -> code
  Cursors,    \* the caller's cursor variables
  Alphabet,   \* char values the caller feeds
  MaxInput,   \* bound on the characters fed to one cursor
  MaxFed      \* bound on the Advance calls of the whole session

ASSUME Alphabet \subseteq CharValues /\ MaxInput \in Nat /\ MaxFed \in Nat

VARIABLES
  lookup,     \* cursor variable -> its (bytes_, label) state
  consumed,   \* history: cursor variable -> characters fed since construction
  fed         \* number of Advance calls so far (bounded by MaxFed)

vars == <<lookup, consumed, fed>>

Init ==
  /\ lookup   = [c \in Cursors |-> FixedSetIncrementalLookupNew]
  /\ consumed = [c \in Cursors |-> << >>]
  /\ fed      = 0

\* lookup.Advance(input)
Advance(c, input) ==
  /\ Len(consumed[c]) < MaxInput /\ fed < MaxFed
  /\ lookup'   = [lookup EXCEPT ![c] = AdvanceCursor(@, input)]
  /\ consumed' = [consumed EXCEPT ![c] = Append(@, input)]
  /\ fed'      = fed + 1

\* c = d;  (copy assignment: save or restore a search position)
Assign(c, d) ==
  /\ c # d
  /\ lookup'   = [lookup EXCEPT ![c] = lookup[d]]
  /\ consumed' = [consumed EXCEPT ![c] = consumed[d]]
  /\ UNCHANGED fed

\* c = FixedSetIncrementalLookup(graph);
Construct(c) ==
  /\ lookup'   = [lookup EXCEPT ![c] = FixedSetIncrementalLookupNew]
  /\ consumed' = [consumed EXCEPT ![c] = << >>]
  /\ UNCHANGED fed

Next ==
  \/ \E c \in Cursors, x \in Alphabet : Advance(c, x)
  \/ \E c, d \in Cursors : Assign(c, d)
  \/ \E c \in Cursors : Construct(c)

Spec == Init /\ [][Next]_vars

-----------------------------------------------------------------------------
TypeOK ==
  /\ lookup   \in [Cursors -> Cursor]
  /\ consumed \in [Cursors -> Seq(Alphabet)]
  /\ fed      \in 0 .. MaxFed

(***************************************************************************)
(* The decoder state of a live cursor agrees with the byte graph: the flag *)
(* bytes_starts_with_label_character_ is set exactly when bytes_ is at a   *)
(* label or return-value byte.  A cursor whose flag went stale after a     *)
(* match would decode an offset list as characters or the reverse.         *)
(***************************************************************************)
DecoderStateConsistent ==
  \A c \in Cursors :
    ~Exhausted(lookup[c]) =>
       (lookup[c].label <=> Graph[lookup[c].bytes].kind = "byte")

(***************************************************************************)
(* GetResultForCurrentSequence() of every cursor is the code the fixed set *)
(* assigns to the characters fed to it, or kDafsaNotFound: through chains, *)
(* offset lists, shared nodes, exhaustion and copies.                      *)
(***************************************************************************)
Dict == INSTANCE FixedSetDictionary
          WITH seq    <- consumed,
               viable <- [c \in Cursors |-> ~Exhausted(lookup[c])]

ResultMatchesFixedSet ==
  \A c \in Cursors : GetResultForCurrentSequence(lookup[c]) = Dict!Result(c)

(***************************************************************************)
(* Refinement: the cursors implement the dictionary.  Advance returns true *)
(* exactly when the input so far is a prefix of a string of the set, and   *)
(* once it has returned false it keeps returning false (header lines on    *)
(* Advance, spec 8).                                                       *)
(***************************************************************************)
DictionarySpec == Dict!Spec
=============================================================================
