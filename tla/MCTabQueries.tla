---------------------------- MODULE MCTabQueries ----------------------------
(* Two browsers and three tab ids: each browser's first tab and one more, *)
(* opened or prerendered.  Three group tokens whose 4-bit hashes are 3,  *)
(* 13 (the int -3, so the same group id as 3) and 8 (INT_MIN).           *)
EXTENDS TabQueries

CONSTANTS g1, g2, g3

MCBrowsers == {1, 2}
MCMaxTabs == 3
MCGroups == {g1, g2, g3}
MCGroupHash == (g1 :> 3) @@ (g2 :> 13) @@ (g3 :> 8)
MCHashBits == 4
MCGroupIdInputs == {-1, 3, -8}
\* A new group is grey, the first colour TabGroupModel hands out; an
\* extension passes any api::tab_groups::Color, none included.
MCNewGroupColors == {"kGrey"}
MCColorInputs == DOMAIN ColorToColorIdTable

\* The tab lookups and the group lookups act on disjoint parts of the
\* state (strips and prerendered pages, or group lists), so a behaviour
\* exercises one of them: `part`, chosen at the start, says which.  The
\* group lookups are checked twice: with the three tokens whose ids
\* collide, an extension setting orange or none ("groups"), and with the
\* one token g1, an extension setting every colour ("colours").  The
\* state space is the sum of the three.
VARIABLE part

GroupsColors == {"none", "orange"}

TabsStep(A) == part = "tabs" /\ A /\ UNCHANGED part
GroupsStep(A) ==
  /\ part = "groups" /\ A /\ UNCHANGED part
  /\ \A g \in Groups : colorSet'[g] \in GroupsColors
ColoursStep(A) ==
  /\ part = "colours" /\ A /\ UNCHANGED part
  /\ \A b \in Browsers, g \in Groups \ {g1} : ~Contains(groups'[b], g)

InitLookups ==
  \/ part = "tabs" /\ InitTabs
  \/ part \in {"groups", "colours"} /\ Init

NextLookups ==
  \/ TabsStep(QueryTabById)
  \/ TabsStep(QueryContents)
  \/ TabsStep(QueryActiveContents)
  \/ TabsStep(TabEnvironment)
  \/ GroupsStep(QueryGroupById)
  \/ GroupsStep(GroupEnvironment)
  \/ ColoursStep(QueryGroupById)
  \/ ColoursStep(GroupEnvironment)

SpecLookups == InitLookups /\ [][NextLookups]_<<vars, part>>
=============================================================================
