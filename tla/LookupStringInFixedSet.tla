----------------------- MODULE LookupStringInFixedSet -----------------------
(***************************************************************************)
(* LookupStringInFixedSet(graph, key, key_length) as a loop over one       *)
(* FixedSetIncrementalLookup (spec 4.3, and the membership example of the  *)
(* header): one Advance per character of key in order, NotFound as soon   *)
(* as an Advance fails, else the result for the whole key.                 *)
(***************************************************************************)
EXTENDS FixedSetIncrementalLookup

CONSTANTS
  Words,   \* the set the graph was compiled from: string -> code
  Keys     \* the keys looked up

VARIABLES
  key,     \* the argument
  i,       \* characters of key consumed so far
  lookup,  \* the cursor
  result,  \* the return value, once returned
  done     \* the function has returned

vars == <<key, i, lookup, result, done>>

Init ==
  /\ key    \in Keys
  /\ i      = 0
  /\ lookup = FixedSetIncrementalLookupNew
  /\ result = kDafsaNotFound
  /\ done   = FALSE

\* if (!lookup.Advance(key[i])) return kDafsaNotFound;
AdvanceFails ==
  /\ ~done /\ i < Len(key)
  /\ Exhausted(AdvanceCursor(lookup, key[i + 1]))
  /\ lookup' = AdvanceCursor(lookup, key[i + 1])
  /\ i'      = i + 1
  /\ result' = kDafsaNotFound
  /\ done'   = TRUE
  /\ UNCHANGED key

AdvanceSucceeds ==
  /\ ~done /\ i < Len(key)
  /\ ~Exhausted(AdvanceCursor(lookup, key[i + 1]))
  /\ lookup' = AdvanceCursor(lookup, key[i + 1])
  /\ i'      = i + 1
  /\ UNCHANGED <<key, result, done>>

\* (mutant: the loop stops one character short of the key)
ReturnResultEarly ==
  /\ ~done /\ i = Len(key) - 1
  /\ result' = GetResultForCurrentSequence(lookup)
  /\ done'   = TRUE
  /\ UNCHANGED <<key, i, lookup>>

\* return lookup.GetResultForCurrentSequence();
ReturnResult ==
  /\ ~done /\ i = Len(key)
  /\ result' = GetResultForCurrentSequence(lookup)
  /\ done'   = TRUE
  /\ UNCHANGED <<key, i, lookup>>

Next == AdvanceFails \/ AdvanceSucceeds \/ ReturnResult

Spec == Init /\ [][Next]_vars

-----------------------------------------------------------------------------
TypeOK ==
  /\ key    \in Keys
  /\ i      \in 0 .. Len(key)
  /\ lookup \in Cursor
  /\ result \in {kDafsaNotFound} \cup 0 .. 31
  /\ done   \in BOOLEAN

(***************************************************************************)
(* Every key comes back with the code the set gives it and every other     *)
(* key with kDafsaNotFound (spec 8): including the empty key, keys that    *)
(* are proper prefixes of members, keys running past a member and keys     *)
(* with characters outside the label range.                                *)
(***************************************************************************)
ReferenceLookup(k) == IF k \in DOMAIN Words THEN Words[k] ELSE kDafsaNotFound

ReturnsSetCode == done => result = ReferenceLookup(key)
=============================================================================
