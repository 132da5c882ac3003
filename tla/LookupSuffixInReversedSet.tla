--------------------- MODULE LookupSuffixInReversedSet ---------------------
(***************************************************************************)
(* LookupSuffixInReversedSet(graph, include_private, host, &suffix_length) *)
(* (header, spec 4.4): host is fed right to left to a cursor over a DAFSA  *)
(* of reversed strings; each accepting position that starts the host or   *)
(* follows a '.' is a candidate, private results are skipped unless       *)
(* include_private, and the last candidate (the longest suffix) is kept.  *)
(* `pos` is the number of characters of host not yet fed, so the          *)
(* character fed next is host[pos].                                        *)
(***************************************************************************)
EXTENDS FixedSetIncrementalLookup

CONSTANTS
  Words,   \* the reversed set the graph was compiled from: string -> code
  Hosts    \* the host arguments

Dot == 46   \* '.'

VARIABLES
  host, include_private,   \* the arguments
  pos,                     \* characters of host not fed yet
  lookup,                  \* the cursor
  suffix_length,           \* the out-parameter
  result,                  \* the best result so far, returned at the end
  done                     \* the function has returned

vars == <<host, include_private, pos, lookup, suffix_length, result, done>>

Init ==
  /\ host            \in Hosts
  /\ include_private \in BOOLEAN
  /\ pos             = Len(host)
  /\ lookup          = FixedSetIncrementalLookupNew
  /\ suffix_length   = 0
  /\ result          = kDafsaNotFound
  /\ done            = FALSE

Fed == AdvanceCursor(lookup, host[pos])

\* Only host itself or a part that follows a dot can match: true when the
\* characters left unfed, `rest` of them, are empty or end in a dot.
\* (mutant: only a part that follows a dot can match, never host itself)
AtComponentStartDotOnly(rest) == rest > 0 /\ host[rest] = Dot

AtComponentStart(rest) == rest = 0 \/ (rest > 0 /\ host[rest] = Dot)

\* A result the walk keeps at the component start `rest`.
Keeps(value, rest) ==
  /\ AtComponentStart(rest)
  /\ value # kDafsaNotFound
  /\ include_private \/ ~HasPrivateRule(value)

\* (mutant: the length measured from before the decrement of pos)
MatchLengthOffByOne(rest) == Len(host) - rest + 1

\* *suffix_length = host.end() - pos;
MatchLength(rest) == Len(host) - rest

\* One iteration of the loop whose Advance succeeded.
Step ==
  /\ ~done /\ pos # 0
  /\ ~Exhausted(Fed)
  /\ lookup' = Fed
  /\ pos'    = pos - 1
  /\ LET value == GetResultForCurrentSequence(Fed)
     IN  \/ /\ Keeps(value, pos - 1)
            /\ suffix_length' = MatchLength(pos - 1)
            /\ result'        = value
         \/ /\ ~Keeps(value, pos - 1)
            /\ UNCHANGED <<suffix_length, result>>
  /\ UNCHANGED <<host, include_private, done>>

\* The loop ends: the whole host was fed, or an Advance failed.
AllFed ==
  /\ ~done /\ pos = 0
  /\ done' = TRUE
  /\ UNCHANGED <<host, include_private, pos, lookup, suffix_length, result>>

AdvanceFails ==
  /\ ~done /\ pos # 0
  /\ Exhausted(Fed)
  /\ lookup' = Fed
  /\ pos'    = pos - 1
  /\ done'   = TRUE
  /\ UNCHANGED <<host, include_private, suffix_length, result>>

Next == Step \/ AllFed \/ AdvanceFails

Spec == Init /\ [][Next]_vars

-----------------------------------------------------------------------------
TypeOK ==
  /\ host            \in Hosts
  /\ include_private \in BOOLEAN
  /\ pos             \in 0 .. Len(host)
  /\ lookup          \in Cursor
  /\ suffix_length   \in 0 .. Len(host)
  /\ result          \in {kDafsaNotFound} \cup 0 .. 31
  /\ done            \in BOOLEAN

(***************************************************************************)
(* The reference answer, from the set itself: the longest suffix of host   *)
(* that starts the host or follows a '.', whose reversal is in the set,    *)
(* and that is not a private rule unless include_private.                  *)
(***************************************************************************)
ReversedSuffix(h, n) == Reverse(SubSeq(h, Len(h) - n + 1, Len(h)))

Candidates(h, ip) ==
  { n \in 1 .. Len(h) :
      /\ n = Len(h) \/ h[Len(h) - n] = Dot
      /\ ReversedSuffix(h, n) \in DOMAIN Words
      /\ ip \/ ~HasPrivateRule(Words[ReversedSuffix(h, n)]) }

LongestSuffixMatch(h, ip) ==
  IF Candidates(h, ip) = {} THEN <<kDafsaNotFound, 0>>
  ELSE LET n == Max(Candidates(h, ip))
       IN  <<Words[ReversedSuffix(h, n)], n>>

(***************************************************************************)
(* When it returns, LookupSuffixInReversedSet gives the type and length of *)
(* the longest component-aligned match, or kDafsaNotFound and 0 (header    *)
(* comment; spec 4.4 and 8: "om" never matches "foo.com", a private rule   *)
(* is passed over for a shorter non-private one unless include_private).   *)
(***************************************************************************)
ReturnsLongestSuffix ==
  done => <<result, suffix_length>> = LongestSuffixMatch(host, include_private)
=============================================================================
