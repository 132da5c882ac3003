------------------------- MODULE MCFixedSetLookups -------------------------
(***************************************************************************)
(* One call of either whole-key function of lookup_string_in_fixed_set.h  *)
(* over the fixture graph: LookupStringInFixedSet for every key of up to  *)
(* six characters over the fixture alphabet (one longer than the longest  *)
(* member), or LookupSuffixInReversedSet for every host of up to six      *)
(* characters over 'a', 'b' and '.'.  `call` names the function; the      *)
(* other function's variables stay "idle", so the state space is the sum  *)
(* of the two, each checked as it would be alone.                          *)
(***************************************************************************)
EXTENDS DafsaFixture, SequencesExt

VARIABLES
  call,
  key, i, slookup, sresult, sdone,
  host, include_private, pos, xlookup, suffix_length, xresult, xdone

svars == <<key, i, slookup, sresult, sdone>>
xvars == <<host, include_private, pos, xlookup, suffix_length, xresult, xdone>>

MCKeys == SeqOf(FixtureChars, 6)
MCHosts == SeqOf(HostChars, 6)

S == INSTANCE LookupStringInFixedSet
       WITH Graph <- FixtureGraph, Words <- FixtureWords, Keys <- MCKeys,
            lookup <- slookup, result <- sresult, done <- sdone

X == INSTANCE LookupSuffixInReversedSet
       WITH Graph <- FixtureGraph, Words <- FixtureWords, Hosts <- MCHosts,
            lookup <- xlookup, result <- xresult, done <- xdone

SIdle == key = "idle" /\ i = "idle" /\ slookup = "idle" /\ sresult = "idle"
         /\ sdone = "idle"
XIdle == host = "idle" /\ include_private = "idle" /\ pos = "idle"
         /\ xlookup = "idle" /\ suffix_length = "idle" /\ xresult = "idle"
         /\ xdone = "idle"

Init ==
  \/ call = "string" /\ S!Init /\ XIdle
  \/ call = "suffix" /\ X!Init /\ SIdle

\* Each step is a step of the called function, one disjunct per action.
StringStep(A) == call = "string" /\ A /\ UNCHANGED <<call, xvars>>
SuffixStep(A) == call = "suffix" /\ A /\ UNCHANGED <<call, svars>>

Next ==
  \/ StringStep(S!AdvanceFails)
  \/ StringStep(S!AdvanceSucceeds)
  \/ StringStep(S!ReturnResult)
  \/ SuffixStep(X!Step)
  \/ SuffixStep(X!AllFed)
  \/ SuffixStep(X!AdvanceFails)

Spec == Init /\ [][Next]_<<call, svars, xvars>>

\* The variables of the called function keep their types (LookupString-
\* InFixedSet's and LookupSuffixInReversedSet's TypeOK).
TypeOK ==
  /\ call = "string" => S!TypeOK
  /\ call = "suffix" => X!TypeOK

\* LookupStringInFixedSet returns the code of the key in the fixed set, or
\* kDafsaNotFound, as the reference dictionary lookup does.
ReturnsSetCode == call = "string" => S!ReturnsSetCode

\* LookupSuffixInReversedSet returns the code and length of the longest
\* suffix of the host that starts at a label boundary and is in the set,
\* skipping private rules unless include_private.
ReturnsLongestSuffix == call = "suffix" => X!ReturnsLongestSuffix
=============================================================================
