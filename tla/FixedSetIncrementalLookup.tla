--------------------- MODULE FixedSetIncrementalLookup ---------------------
(***************************************************************************)
(* net::FixedSetIncrementalLookup (lookup_string_in_fixed_set.h) as values *)
(* and pure operators: a cursor is the pair of its private fields `bytes_` *)
(* (a position of the graph, NoPosition once exhausted) and                *)
(* `bytes_starts_with_label_character_`.  Copying a cursor copies the      *)
(* record.  The state machines that drive cursors are in                   *)
(* IncrementalLookupSession, LookupStringInFixedSet and                    *)
(* LookupSuffixInReversedSet.                                              *)
(***************************************************************************)
EXTENDS DafsaGraph, SequencesExt

\* Result codes of the enum at the top of the header.
kDafsaNotFound      == -1
kDafsaFound         == 0
kDafsaExceptionRule == 1
kDafsaWildcardRule  == 2
kDafsaPrivateRule   == 4

\* The value of a C++ char: signed, 8 bits wide.
CharValues == -128 .. 127

Cursor == [bytes : Positions \cup {NoPosition}, label : BOOLEAN]

\* The constructor: the whole graph, which starts with the root's offsets.
FixedSetIncrementalLookupNew == [bytes |-> 1, label |-> FALSE]

ExhaustedCursor == [bytes |-> NoPosition, label |-> FALSE]

Exhausted(cur) == cur.bytes = NoPosition

\* After input matched the label byte at p: the next byte continues the
\* label unless p ended it, in which case an offset list follows.
\* (mutant: the flag taken with the opposite sense)
MatchedAtFlagInverted(p) == [bytes |-> p + 1, label |-> IsEOL(Graph[p].val)]

MatchedAt(p) == [bytes |-> p + 1, label |-> ~IsEOL(Graph[p].val)]

\* The label byte that input matches from cur, 0 if there is none: the
\* byte at bytes_ inside a label, else the first child in offset order.
MatchingByte(cur, input) ==
  IF cur.label
  THEN IF IsMatch(Graph[cur.bytes].val, input) THEN cur.bytes ELSE 0
  ELSE LET kids == Children(cur.bytes)
           i    == SelectInSeq(kids, LAMBDA q : IsMatch(Graph[q].val, input))
       IN  IF i = 0 THEN 0 ELSE kids[i]

(***************************************************************************)
(* Advance(input): an exhausted cursor stays exhausted; characters below   *)
(* 0x20 (including every negative char) never match; otherwise the cursor *)
(* moves past the matching byte or becomes exhausted.  Advance returns     *)
(* ~Exhausted of the cursor it leaves.                                     *)
(***************************************************************************)
\* (mutant: no check that input is above the return-value range)
AdvanceCursorNoCharCheck(cur, input) ==
  LET p == IF Exhausted(cur) THEN 0 ELSE MatchingByte(cur, input)
  IN  IF p = 0 THEN ExhaustedCursor ELSE MatchedAt(p)

\* (mutant: a failed Advance leaves bytes_ where it was)
AdvanceCursorKeepOnMiss(cur, input) ==
  LET p == IF Exhausted(cur) \/ input < 32 THEN 0
           ELSE MatchingByte(cur, input)
  IN  IF p = 0 THEN cur ELSE MatchedAt(p)

AdvanceCursor(cur, input) ==
  LET p == IF Exhausted(cur) \/ input < 32 THEN 0
           ELSE MatchingByte(cur, input)
  IN  IF p = 0 THEN ExhaustedCursor ELSE MatchedAt(p)

\* GetResultForCurrentSequence(): the return value at bytes_ inside a
\* label, else the first return-value child of the offset list.
\* (mutant: only the first child of an offset list is looked at)
GetResultFirstChildOnly(cur) ==
  CASE Exhausted(cur) -> kDafsaNotFound
    [] cur.label ->
         IF IsReturnValue(Graph[cur.bytes].val)
         THEN GetReturnValue(Graph[cur.bytes].val) ELSE kDafsaNotFound
    [] OTHER ->
         LET q == Children(cur.bytes)[1]
         IN  IF IsReturnValue(Graph[q].val)
             THEN GetReturnValue(Graph[q].val) ELSE kDafsaNotFound

GetResultForCurrentSequence(cur) ==
  CASE Exhausted(cur) -> kDafsaNotFound
    [] cur.label ->
         IF IsReturnValue(Graph[cur.bytes].val)
         THEN GetReturnValue(Graph[cur.bytes].val) ELSE kDafsaNotFound
    [] OTHER ->
         LET kids == Children(cur.bytes)
             i    == SelectInSeq(kids, LAMBDA q : IsReturnValue(Graph[q].val))
         IN  IF i = 0 THEN kDafsaNotFound ELSE GetReturnValue(Graph[kids[i]].val)

HasPrivateRule(v) == v # kDafsaNotFound /\ (v \div kDafsaPrivateRule) % 2 = 1
=============================================================================
