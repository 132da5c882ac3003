---------------------------- MODULE DafsaFixture ----------------------------
(***************************************************************************)
(* A compiled graph for the model runs, written by hand in the layout of   *)
(* DafsaGraph, over a reversed public-suffix-like set (characters are C    *)
(* char values: 'a' = 97, 'b' = 98, '.' = 46):                             *)
(*     "a"      code 0   (rule "a")                                        *)
(*     "a.b"    code 4   (rule "b.a", private)                             *)
(*     "a.b.a"  code 0   (rule "a.b.a")                                    *)
(*     "ba"     code 2   (rule "ab", wildcard)                             *)
(* It has a node that is both accepting and has children (after "a"), a   *)
(* return value that is not the first child of its list (position 3), a   *)
(* return-value node shared by two parents (position 14, a minimised      *)
(* suffix) and a label chain of two characters that ends in a return      *)
(* value (positions 11 to 13).                                             *)
(***************************************************************************)
EXTENDS Integers, Sequences, TLC

ChA   == 97
ChB   == 98
ChDot == 46

B(v) == [kind |-> "byte", val |-> v]
O(s) == [kind |-> "offsets", to |-> s]

FixtureGraph ==
  << O(<<2, 11>>),          \* 1  root
     B(ChA + 128),          \* 2  label "a" (last)
     O(<<4, 14>>),          \* 3  children of "a": ".b" node, return 0
     B(ChDot),              \* 4  label ".b"
     B(ChB + 128),          \* 5
     O(<<7, 8>>),           \* 6  children of "a.b": return 4, ".a" node
     B(128 + 4),            \* 7  return value 4
     B(ChDot),              \* 8  label ".a"
     B(ChA + 128),          \* 9
     O(<<14>>),             \* 10 children of "a.b.a": the shared return 0
     B(ChB),                \* 11 label "ba" followed by return value 2
     B(ChA),                \* 12
     B(128 + 2),            \* 13 return value 2
     B(128) >>              \* 14 return value 0 (shared by 3 and 10)

FixtureWords ==
  (<<ChA>> :> 0) @@ (<<ChA, ChDot, ChB>> :> 4)
  @@ (<<ChA, ChDot, ChB, ChDot, ChA>> :> 0) @@ (<<ChB, ChA>> :> 2)

\* Host characters, plus NUL (the character of return value 0) and the
\* char whose unsigned byte is 'b' with the label-end bit (0xE2 = -30).
HostChars    == {ChA, ChB, ChDot}
FixtureChars == HostChars \cup {0, -30}
=============================================================================
