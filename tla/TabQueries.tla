----------------------------- MODULE TabQueries -----------------------------
(***************************************************************************)
(* The lookups of extension_tab_util.cc: by id, GetTabById with its       *)
(* prerender path and GetGroupById with GetGroupId; by WebContents,        *)
(* GetTabStripModel, GetWindowControllerOfTab and IsWebContentsInContext;  *)
(* by profile, GetAllActiveWebContentsForContext.                          *)
(*                                                                         *)
(* The browsers are fixed, each with a profile and a type; their tab      *)
(* strips change as tabs open and close, prerendered pages (which have a  *)
(* tab id but sit in no strip) start, are activated into a new tab or are *)
(* cancelled, and tab groups are created and closed.  There is one render *)
(* process per profile; it hosts the frames of that profile's tabs and    *)
(* prerendered pages.  Each lookup is a step that records its result in   *)
(* `last`; a step of the environment clears it.                           *)
(***************************************************************************)
EXTENDS Integers, Sequences, SequencesExt

CONSTANTS
  Reg,          \* a regular profile
  Otr,          \* its primary off-the-record profile
  Otr2,         \* another off-the-record profile of it (not the primary)
  NoProfile,    \* a null Profile*
  Browsers,     \* browser ids, in BrowserList order
  MaxTabs,      \* bound on the tab ids ever allocated
  Groups,       \* tab group tokens
  GroupHash,    \* GroupHash[g]: base::PersistentHash(g.ToString())
  HashBits,     \* the width of the hash and of int, scaled down from 32
  GroupIdInputs, \* the group ids the extension asks for
  NewGroupColors, \* the TabGroupColorIds TabGroupModel gives a new group
  ColorInputs   \* the api::tab_groups::Color values an extension sets

Profiles == {Reg, Otr, Otr2}
TabIds == 1..MaxTabs
TAB_ID_NONE == -1
TAB_INDEX_NONE == -1
NoTab == 0          \* a null WebContents*
NoBrowser == 0      \* a null Browser* / TabStripModel*
Types == {"normal", "app"}

\* Browser ids in the order BrowserList::GetInstance() holds them.
BrowserOrder == SetToSortSeq(Browsers, <)

VARIABLES
  bprofile,   \* bprofile[b]: the browser's profile
  btype,      \* btype[b]: its type
  open,       \* the browsers still in BrowserList
  strip,      \* strip[b]: the tab ids of its tab strip, in order
  active,     \* active[b]: the index (from 1) of its active tab
  prerender,  \* prerender[t]: the profile of the prerendered page t, or NoProfile
  groups,     \* groups[b]: ListTabGroups() of its strip, in creation order
  color,      \* color[g]: the TabGroupColorId of group g's visual data
  colorSet,   \* colorSet[g]: the api Color last set on g, or "none" (history)
  nextTab,    \* the last tab id allocated
  last        \* the result of the lookup this step made, or NoResult

vars == <<bprofile, btype, open, strip, active, prerender, groups, color, colorSet, nextTab, last>>

NoResult == [op |-> "none"]

-----------------------------------------------------------------------------
(* Profiles (profile.cc and off_the_record_profile_impl.cc, not in the     *)
(* repository).                                                            *)

GetOriginalProfile(p) == Reg
GetPrimaryOTRProfile(p) == Otr

\* Profile::IsSameOrParent(p): for a regular profile, p's original profile
\* is this one (so p is it or any of its off-the-record profiles); for an
\* off-the-record profile, p is this one or its parent.
IsSameOrParent(this, p) ==
  IF this = Reg THEN GetOriginalProfile(p) = this
                ELSE p \in {this, GetOriginalProfile(this)}

\* The calling function's profile and include_incognito_information().
\* Only a spanning-mode extension may cross into incognito
\* (util::CanCrossIncognito), and its functions run in the regular profile.
Callers ==
  [profile : {Reg}, include_incognito : BOOLEAN] \cup
  [profile : {Otr, Otr2}, include_incognito : {FALSE}]

\* TabStripModel::SupportsTabGroups: only tabbed browsers have groups.
SupportsTabGroups(b) == btype[b] = "normal"

\* The browsers of BrowserList, in its order.
BrowserList == SelectSeq(BrowserOrder, LAMBDA b : b \in open)

\* TabStripModel::GetActiveWebContents: null while the strip is empty
\* (active_index() is kNoTab, here 0).
GetActiveWebContents(b) == IF active[b] = 0 THEN NoTab ELSE strip[b][active[b]]

\* The browser whose strip holds tab t, or NoBrowser.
BrowserOfTab(t) ==
  LET holders == {b \in Browsers : Contains(strip[b], t)}
  IN  IF holders = {} THEN NoBrowser ELSE CHOOSE b \in holders : TRUE

\* The profile of the WebContents with id t.
ContentsProfile(t) ==
  IF prerender[t] # NoProfile THEN prerender[t] ELSE bprofile[BrowserOfTab(t)]

-----------------------------------------------------------------------------
(* extension_tab_util.cc                                                    *)

\* (mutant: the loop stops one tab short, i < count() - 1)
StripHoldsButLast(b, tab_id) ==
  Contains(SubSeq(strip[b], 1, Len(strip[b]) - 1), tab_id)

\* Lines 680-684: some i < count() has IdForTab(GetWebContentsAt(i)) == tab_id.
StripHolds(b, tab_id) == Contains(strip[b], tab_id)

\* Lines 713-718: the process's profile is the profile, or include_incognito
\* is set and the profile IsSameOrParent of it.
ProcessProfileAllowed(profile, include_incognito, process_profile) ==
  \/ process_profile = profile
  \/ include_incognito /\ IsSameOrParent(profile, process_profile)

\* (mutant: every frame of the process with the id counts, not only
\* prerendered ones)
FrameWithIdAny(tab_id, process_profile) ==
  \/ prerender[tab_id] = process_profile
  \/ \E b \in Browsers : bprofile[b] = process_profile /\ Contains(strip[b], tab_id)

\* Lines 720-733: a frame of the process whose WebContents has the id and
\* that is a prerendered frame.
PrerenderedFrameWithId(tab_id, process_profile) ==
  prerender[tab_id] = process_profile

NotFound == [found |-> FALSE, browser |-> NoBrowser, tab_strip |-> NoBrowser,
             contents |-> NoTab, tab_index |-> TAB_INDEX_NONE]

\* GetTabById with every out-parameter given and null on entry.  The
\* strips are searched first, in BrowserList order; then, with
\* kPrerender2InNewTab, the processes, whose callback sets tab_strip to
\* null, tab_index to TAB_INDEX_NONE and contents to the page, and leaves
\* browser alone.
GetTabById(tab_id, profile, include_incognito) ==
  LET incognito_profile == IF include_incognito THEN GetPrimaryOTRProfile(profile)
                                                ELSE NoProfile
      in_strips == SelectInSeq(BrowserList,
                     LAMBDA b : bprofile[b] \in {profile, incognito_profile}
                                /\ StripHolds(b, tab_id))
      target_browser == BrowserList[in_strips]
      processes == {pp \in Profiles :
                      /\ ProcessProfileAllowed(profile, include_incognito, pp)
                      /\ PrerenderedFrameWithId(tab_id, pp)}
  IN  CASE tab_id = TAB_ID_NONE -> NotFound
        [] in_strips # 0 ->
             [found |-> TRUE, browser |-> target_browser,
              tab_strip |-> target_browser, contents |-> tab_id,
              tab_index |-> IndexFirstSubSeq(<<tab_id>>, strip[target_browser]) - 1]
        [] processes # {} ->
             [found |-> TRUE, browser |-> NoBrowser, tab_strip |-> NoBrowser,
              contents |-> tab_id, tab_index |-> TAB_INDEX_NONE]
        [] OTHER -> NotFound

\* Lines 771-774: std::abs(static_cast<int>(hash)) at HashBits bits.  The
\* cast is two's complement; std::abs(INT_MIN) is undefined, and the
\* release build's negation wraps it back to INT_MIN.
GetGroupId(hash) ==
  LET int == IF hash >= 2^(HashBits - 1) THEN hash - 2^HashBits ELSE hash
      neg == IF int < 0 THEN -int ELSE int
  IN  IF neg = 2^(HashBits - 1) THEN neg - 2^HashBits ELSE neg

\* (mutant: any off-the-record profile of the caller's is searched)
GroupBrowserAllowedSameOrParent(b, profile, include_incognito) ==
  \/ bprofile[b] = profile
  \/ include_incognito /\ IsSameOrParent(profile, bprofile[b])

\* Lines 798-805: the profile, or its primary off-the-record profile when
\* include_incognito is set and it exists.
GroupBrowserAllowed(b, profile, include_incognito) ==
  \/ bprofile[b] = profile
  \/ include_incognito /\ bprofile[b] = GetPrimaryOTRProfile(profile)

\* (mutant: the browser out-parameter is never written)
GetGroupByIdNoBrowser(group_id, profile, include_incognito) ==
  LET order == BrowserList
      Matching(b) == SelectInSeq(groups[b], LAMBDA g : GetGroupId(GroupHash[g]) = group_id)
      i == SelectInSeq(order, LAMBDA b : GroupBrowserAllowed(b, profile, include_incognito)
                                         /\ SupportsTabGroups(b) /\ Matching(b) # 0)
  IN  IF group_id = -1 \/ i = 0
        THEN [found |-> FALSE, browser |-> NoBrowser, group |-> NoBrowser, visual |-> "none"]
        ELSE [found |-> TRUE, browser |-> NoBrowser,
              group |-> groups[order[i]][Matching(order[i])],
              visual |-> color[groups[order[i]][Matching(order[i])]]]

\* GetGroupById with browser, id and visual_data given: the first group,
\* in BrowserList and ListTabGroups order, of an allowed browser whose
\* strip supports groups and whose GetGroupId is group_id, with the colour
\* of its visual data.
GetGroupById(group_id, profile, include_incognito) ==
  LET order == BrowserList
      Matching(b) == SelectInSeq(groups[b], LAMBDA g : GetGroupId(GroupHash[g]) = group_id)
      i == SelectInSeq(order, LAMBDA b : GroupBrowserAllowed(b, profile, include_incognito)
                                         /\ SupportsTabGroups(b) /\ Matching(b) # 0)
  IN  IF group_id = -1 \/ i = 0
        THEN [found |-> FALSE, browser |-> NoBrowser, group |-> NoBrowser, visual |-> "none"]
        ELSE [found |-> TRUE, browser |-> order[i],
              group |-> groups[order[i]][Matching(order[i])],
              visual |-> color[groups[order[i]][Matching(order[i])]]]

\* (mutant: the search reports the index from 1, as the model counts)
GetTabStripModelFromOne(t) ==
  LET order == BrowserList
      i == SelectInSeq(order, LAMBDA b : StripHolds(b, t))
  IN  IF i = 0 THEN [found |-> FALSE, tab_strip |-> NoBrowser, tab_index |-> TAB_INDEX_NONE]
               ELSE [found |-> TRUE, tab_strip |-> order[i],
                     tab_index |-> IndexFirstSubSeq(<<t>>, strip[order[i]])]

\* Lines 629-646: the first browser in BrowserList order, of any profile,
\* whose strip holds the contents, and its index there.  On a miss the
\* out-parameters keep what CreateTabObject (line 444), the one caller,
\* passed: a null strip and TAB_INDEX_NONE.
GetTabStripModel(t) ==
  LET order == BrowserList
      i == SelectInSeq(order, LAMBDA b : StripHolds(b, t))
  IN  IF i = 0 THEN [found |-> FALSE, tab_strip |-> NoBrowser, tab_index |-> TAB_INDEX_NONE]
               ELSE [found |-> TRUE, tab_strip |-> order[i],
                     tab_index |-> IndexFirstSubSeq(<<t>>, strip[order[i]]) - 1]

\* Lines 1160-1162: a browser that is not a devtools window.
BrowserSupportsTabs(b) == b # NoBrowser /\ btype[b] # "devtools"

\* Lines 139-145: the tab id, or -1 for a tab of a browser without tabs.
GetTabIdForExtensions(t) ==
  IF BrowserOfTab(t) # NoBrowser /\ ~BrowserSupportsTabs(BrowserOfTab(t)) THEN -1 ELSE t

\* Lines 409-411: the window's session id, here the browser id.
GetWindowId(b) == b

\* Lines 413-420: the window id of the BrowserList browser whose strip it
\* is, or -1 (for a null strip too).
GetWindowIdOfTabStripModel(tab_strip) ==
  LET i == SelectInSeq(BrowserList, LAMBDA b : b = tab_strip)
  IN  IF i = 0 THEN -1 ELSE GetWindowId(BrowserList[i])

\* Lines 426-429: SessionTabHelper's id of the window holding the tab (here
\* the browser id), or -1 for a page in no window.
GetWindowIdOfTab(t) == IF BrowserOfTab(t) = NoBrowser THEN -1 ELSE BrowserOfTab(t)

\* (mutant: active compares the index from 0 with the index from 1)
CreateTabObjectPlacementOffByOne(t) ==
  LET sm == GetTabStripModel(t)
      is_active == sm.tab_strip # NoBrowser /\ sm.tab_index = active[sm.tab_strip]
  IN  [id |-> GetTabIdForExtensions(t), index |-> sm.tab_index,
       window_id |-> GetWindowIdOfTab(t), active |-> is_active, selected |-> is_active]

\* Lines 437-452: the placement fields of CreateTabObject for a caller that
\* passes no strip, TAB_INDEX_NONE: GetTabStripModel fills them in, and the
\* tab is active and selected when its index is the strip's active_index().
CreateTabObjectPlacement(t) ==
  LET sm == GetTabStripModel(t)
      is_active == sm.tab_strip # NoBrowser /\ sm.tab_index + 1 = active[sm.tab_strip]
  IN  [id |-> GetTabIdForExtensions(t), index |-> sm.tab_index,
       window_id |-> GetWindowIdOfTab(t), active |-> is_active, selected |-> is_active]

\* Lines 1126-1133: chrome::FindBrowserWithTab's browser (its window
\* controller stands for it), or null.
GetWindowControllerOfTab(t) == BrowserOfTab(t)

\* (mutant: only the same browser context counts)
IsWebContentsInContextSameOnly(t, profile, include_incognito) ==
  ContentsProfile(t) = profile

\* Lines 954-968: the contents' browser context is the caller's, or
\* include_incognito is set and the caller's profile IsSameOrParent of it.
IsWebContentsInContext(t, profile, include_incognito) ==
  \/ ContentsProfile(t) = profile
  \/ include_incognito /\ IsSameOrParent(profile, ContentsProfile(t))

\* (mutant: every off-the-record profile of the caller's counts)
GetAllActiveWebContentsForContextSameOrParent(profile, include_incognito) ==
  LET bs == SelectSeq(BrowserList,
                      LAMBDA b : \/ bprofile[b] = profile
                                 \/ include_incognito /\ IsSameOrParent(profile, bprofile[b]))
  IN  [i \in 1..Len(bs) |-> GetActiveWebContents(bs[i])]

\* Lines 930-951: the active WebContents of every browser, in BrowserList
\* order, of the profile or of its primary off-the-record profile when
\* include_incognito is set.
GetAllActiveWebContentsForContext(profile, include_incognito) ==
  LET incognito_profile == IF include_incognito THEN GetPrimaryOTRProfile(profile)
                                                ELSE NoProfile
      bs == SelectSeq(BrowserList,
                      LAMBDA b : bprofile[b] \in {profile, incognito_profile})
  IN  [i \in 1..Len(bs) |-> GetActiveWebContents(bs[i])]

\* Lines 869-897: the switch from tab_groups::TabGroupColorId to
\* api::tab_groups::Color; kNumEntries, not a colour, gives kGrey.
ColorIdToColorTable ==
  ("kGrey" :> "grey") @@ ("kBlue" :> "blue") @@ ("kRed" :> "red") @@
  ("kYellow" :> "yellow") @@ ("kGreen" :> "green") @@ ("kPink" :> "pink") @@
  ("kPurple" :> "purple") @@ ("kCyan" :> "cyan") @@ ("kOrange" :> "orange") @@
  ("kNumEntries" :> "grey")

\* Lines 900-925: the switch back; kNone is NOTREACHED and falls through to
\* kGrey in a release build.
ColorToColorIdTable ==
  ("grey" :> "kGrey") @@ ("blue" :> "kBlue") @@ ("red" :> "kRed") @@
  ("yellow" :> "kYellow") @@ ("green" :> "kGreen") @@ ("pink" :> "kPink") @@
  ("purple" :> "kPurple") @@ ("cyan" :> "kCyan") @@ ("orange" :> "kOrange") @@
  ("none" :> "kGrey")

\* (mutant: the kBlue and kRed cases return each other's colour)
ColorIdToColorSwapped(color_id) ==
  [ColorIdToColorTable EXCEPT !["kBlue"] = "red", !["kRed"] = "blue"][color_id]

ColorIdToColor(color_id) == ColorIdToColorTable[color_id]

ColorToColorId(c) == ColorToColorIdTable[c]

\* chrome::FindBrowserWithGroup (browser_finder.cc, not in the repository):
\* the first browser of BrowserList, of any profile, whose group model
\* holds the group, or NoBrowser.
FindBrowserWithGroup(g) ==
  LET i == SelectInSeq(BrowserList, LAMBDA b : Contains(groups[b], g))
  IN  IF i = 0 THEN NoBrowser ELSE BrowserList[i]

\* Lines 776-783: the session id of that browser's window, or -1.
GetWindowIdOfGroup(g) ==
  LET browser == FindBrowserWithGroup(g)
  IN  IF browser # NoBrowser THEN browser ELSE -1

\* No object: the lookup failed and tabGroups.get reports an error.
NoGroupObject == [id |-> -1, color |-> "none", window_id |-> -1]

\* Lines 837-847: CreateTabGroupObject(id, visual_data), with the fields
\* the lookups decide (collapsed and title are copied from the visual
\* data).
CreateTabGroupObject(g, visual_color) ==
  [id |-> GetGroupId(GroupHash[g]), color |-> ColorIdToColor(visual_color),
   window_id |-> GetWindowIdOfGroup(g)]

-----------------------------------------------------------------------------
(* The calls.                                                               *)

Unchanged == UNCHANGED <<bprofile, btype, open, strip, active, prerender, groups, color, colorSet, nextTab>>

\* The WebContents that exist: tabs of a strip and prerendered pages.
LiveContents == {t \in TabIds : BrowserOfTab(t) # NoBrowser \/ prerender[t] # NoProfile}

QueryTabById ==
  \E c \in Callers, tab_id \in {TAB_ID_NONE} \cup TabIds :
    /\ LET r == GetTabById(tab_id, c.profile, c.include_incognito)
       IN  last' = [op |-> "GetTabById", profile |-> c.profile,
                    include_incognito |-> c.include_incognito, tab_id |-> tab_id,
                    found |-> r.found, browser |-> r.browser,
                    tab_strip |-> r.tab_strip, contents |-> r.contents,
                    tab_index |-> r.tab_index]
    /\ Unchanged

QueryGroupById ==
  \E c \in Callers, group_id \in GroupIdInputs :
    /\ LET r == GetGroupById(group_id, c.profile, c.include_incognito)
       IN  last' = [op |-> "GetGroupById", profile |-> c.profile,
                    include_incognito |-> c.include_incognito, group_id |-> group_id,
                    found |-> r.found, browser |-> r.browser, group |-> r.group,
                    object |-> IF r.found THEN CreateTabGroupObject(r.group, r.visual)
                               ELSE NoGroupObject]
    /\ Unchanged

\* The calls that take a WebContents, for one that exists (the DCHECKs of
\* lines 632 and the dereference at line 959), made by a caller that
\* also has its tab id, and the tab object built for it with no strip.
QueryContents ==
  \E c \in Callers, t \in LiveContents :
    /\ last' = [op |-> "Contents", profile |-> c.profile,
                include_incognito |-> c.include_incognito, contents |-> t,
                strip_model |-> GetTabStripModel(t),
                strip_window |-> GetWindowIdOfTabStripModel(GetTabStripModel(t).tab_strip),
                controller |-> GetWindowControllerOfTab(t),
                in_context |-> IsWebContentsInContext(t, c.profile, c.include_incognito),
                by_id |-> GetTabById(t, c.profile, c.include_incognito),
                object |-> CreateTabObjectPlacement(t)]
    /\ Unchanged

QueryActiveContents ==
  \E c \in Callers :
    /\ last' = [op |-> "Active", profile |-> c.profile,
                include_incognito |-> c.include_incognito,
                active_contents |->
                  GetAllActiveWebContentsForContext(c.profile, c.include_incognito)]
    /\ Unchanged

-----------------------------------------------------------------------------
(* The environment.  A tab opens in the foreground or the background of  *)
(* a browser that still has tabs; when the active tab closes,            *)
(* TabStripModel (not in the repository) activates some remaining tab.   *)
(* Closing a strip's last tab leaves the browser in BrowserList with an   *)
(* empty strip until its window has closed.                               *)

NewTab ==
  \E b \in open :
    /\ strip[b] # <<>>
    /\ nextTab < MaxTabs
    /\ nextTab' = nextTab + 1
    /\ strip' = [strip EXCEPT ![b] = Append(@, nextTab + 1)]
    /\ active' \in {active, [active EXCEPT ![b] = Len(strip'[b])]}
    /\ UNCHANGED <<bprofile, btype, open, prerender, groups>>

CloseTab ==
  \E b \in Browsers : \E i \in 1..Len(strip[b]) :
    /\ strip' = [strip EXCEPT ![b] = RemoveAt(@, i)]
    /\ active' \in CASE strip'[b] = <<>> -> {[active EXCEPT ![b] = 0]}
                     [] i = active[b] -> {[active EXCEPT ![b] = j] : j \in 1..Len(strip'[b])}
                     [] OTHER -> {[active EXCEPT ![b] = IF i < @ THEN @ - 1 ELSE @]}
    /\ UNCHANGED <<bprofile, btype, open, prerender, groups, nextTab>>

\* A browser whose last tab closed leaves BrowserList later, when its
\* window has closed (Browser::TabStripEmpty posts the close).
RemoveBrowser ==
  \E b \in open :
    /\ strip[b] = <<>>
    /\ open' = open \ {b}
    /\ UNCHANGED <<bprofile, btype, strip, active, prerender, groups, nextTab>>

StartPrerender ==
  \E p \in Profiles :
    /\ nextTab < MaxTabs
    /\ nextTab' = nextTab + 1
    /\ prerender' = [prerender EXCEPT ![nextTab + 1] = p]
    /\ UNCHANGED <<bprofile, btype, open, strip, active, groups>>

\* A prerendered page is activated into a new tab of a browser of its
\* profile, keeping its id, or is cancelled.
EndPrerender ==
  \E t \in TabIds :
    /\ prerender[t] # NoProfile
    /\ prerender' = [prerender EXCEPT ![t] = NoProfile]
    /\ \/ \E b \in open :
            /\ bprofile[b] = prerender[t] /\ strip[b] # <<>>
            /\ strip' = [strip EXCEPT ![b] = Append(@, t)]
            /\ active' = [active EXCEPT ![b] = Len(strip'[b])]
       \/ UNCHANGED <<strip, active>>
    /\ UNCHANGED <<bprofile, btype, open, groups, nextTab>>

CreateGroup ==
  \E b \in Browsers, g \in Groups :
    /\ SupportsTabGroups(b)
    /\ \A c \in Browsers : ~Contains(groups[c], g)
    /\ groups' = [groups EXCEPT ![b] = Append(@, g)]
    /\ \E c \in NewGroupColors : color' = [color EXCEPT ![g] = c]
    /\ UNCHANGED <<bprofile, btype, strip, active, prerender, colorSet, nextTab>>

CloseGroup ==
  \E b \in Browsers, g \in Groups :
    /\ Contains(groups[b], g)
    /\ groups' = [groups EXCEPT ![b] = Remove(@, g)]
    /\ color' = [color EXCEPT ![g] = "kGrey"]
    /\ colorSet' = [colorSet EXCEPT ![g] = "none"]
    /\ UNCHANGED <<bprofile, btype, strip, active, prerender, nextTab>>

\* tabGroups.update with a colour (tab_groups_api.cc, not in the
\* repository): kNone leaves the colour; any other colour is converted by
\* ColorToColorId and stored in the group's visual data.
UpdateGroupColor ==
  \E b \in Browsers, g \in Groups, c \in ColorInputs :
    /\ Contains(groups[b], g)
    /\ c # "none"
    /\ color' = [color EXCEPT ![g] = ColorToColorId(c)]
    /\ colorSet' = [colorSet EXCEPT ![g] = c]
    /\ UNCHANGED <<bprofile, btype, strip, active, prerender, groups, nextTab>>

\* The tab lookups and the group lookups read disjoint parts of the state,
\* so each is checked with only the steps that change its part.
TabEnvironment ==
  /\ NewTab \/ CloseTab \/ RemoveBrowser \/ StartPrerender \/ EndPrerender
  /\ last' = NoResult
  /\ UNCHANGED <<color, colorSet>>

GroupEnvironment ==
  /\ CreateGroup \/ CloseGroup \/ UpdateGroupColor
  /\ last' = NoResult
  /\ UNCHANGED open

\* Each browser starts with one tab, whose id is the browser's.
Init ==
  /\ bprofile \in [Browsers -> Profiles]
  /\ btype \in [Browsers -> Types]
  /\ open = Browsers
  /\ strip = [b \in Browsers |-> <<b>>]
  /\ active = [b \in Browsers |-> 1]
  /\ prerender = [t \in TabIds |-> NoProfile]
  /\ groups = [b \in Browsers |-> <<>>]
  /\ color = [g \in Groups |-> "kGrey"]
  /\ colorSet = [g \in Groups |-> "none"]
  /\ nextTab = Max(Browsers)
  /\ last = NoResult

NextTabs == QueryTabById \/ QueryContents \/ QueryActiveContents \/ TabEnvironment

NextGroups == QueryGroupById \/ GroupEnvironment

\* A browser's type only decides SupportsTabGroups, so the tab lookups
\* start from tabbed browsers.
InitTabs == Init /\ \A b \in Browsers : btype[b] = "normal"

SpecTabs == InitTabs /\ [][NextTabs]_vars

SpecGroups == Init /\ [][NextGroups]_vars

-----------------------------------------------------------------------------
TypeOK ==
  /\ bprofile \in [Browsers -> Profiles]
  /\ \A b \in Browsers : strip[b] \in Seq(TabIds) /\ groups[b] \in Seq(Groups)
  /\ prerender \in [TabIds -> Profiles \cup {NoProfile}]
  /\ nextTab \in 0..MaxTabs
  /\ open \subseteq Browsers
  /\ \A b \in Browsers : active[b] \in IF strip[b] = <<>> THEN {0} ELSE 1..Len(strip[b])
  /\ last.op \in {"none", "GetTabById", "GetGroupById", "Contents", "Active"}
  /\ last.op = "GetGroupById" /\ last.found =>
       last.group \in Groups /\ last.browser \in Browsers

\* The profiles whose tabs and groups a caller may be given, by the
\* comment at lines 711-712: its own, and its primary incognito profile
\* when include_incognito is set.
Allowed(profile, include_incognito) ==
  {profile} \cup (IF include_incognito THEN {GetPrimaryOTRProfile(profile)} ELSE {})

\* What GetTabById returns describes the tab asked for: a tab found in a
\* strip comes with its browser, that strip and its index there; a tab
\* found by the prerender path is a prerendered page with no strip and
\* TAB_INDEX_NONE; and a tab of an allowed browser's strip is always found
\* there.  It takes a page prerendered, activated into a strip, and tabs
\* closed before it, to tell a strip hit from a prerender hit.
TabLookupResult ==
  [][last'.op = "GetTabById" =>
       LET r == last' IN
       /\ r.found =>
            /\ r.contents = r.tab_id
            /\ \/ /\ r.tab_strip # NoBrowser /\ r.browser = r.tab_strip
                  /\ r.tab_index \in 0..(Len(strip[r.tab_strip]) - 1)
                  /\ strip[r.tab_strip][r.tab_index + 1] = r.tab_id
               \/ /\ r.tab_strip = NoBrowser /\ r.tab_index = TAB_INDEX_NONE
                  /\ prerender[r.tab_id] # NoProfile
       /\ (\E b \in Browsers : bprofile[b] \in Allowed(r.profile, r.include_incognito)
                              /\ Contains(strip[b], r.tab_id))
            => r.found /\ r.tab_strip # NoBrowser]_vars

\* GetTabById never hands out a tab or prerendered page of a profile other
\* than the caller's or, with include_incognito, its primary incognito
\* profile (the comment at lines 711-712).
TabLookupProfileFilter ==
  [][last'.op = "GetTabById" /\ last'.found =>
       ContentsProfile(last'.contents) \in Allowed(last'.profile, last'.include_incognito)]_vars

\* GetGroupById finds a group of an allowed browser whose id is the one
\* asked for exactly when one exists.  Tokens whose hashes differ only in
\* sign give one id, so the group returned is the first in BrowserList
\* order.
GroupLookupSound ==
  [][last'.op = "GetGroupById" =>
       LET r == last'
           Exists == \E b \in Browsers, g \in Groups :
                       /\ Contains(groups[b], g)
                       /\ bprofile[b] \in Allowed(r.profile, r.include_incognito)
                       /\ GetGroupId(GroupHash[g]) = r.group_id
       IN  /\ r.found =>
                /\ Contains(groups[r.browser], r.group)
                /\ bprofile[r.browser] \in Allowed(r.profile, r.include_incognito)
                /\ GetGroupId(GroupHash[r.group]) = r.group_id
           /\ (Exists /\ r.group_id # -1) => r.found]_vars

\* A group id is never negative, so it is never mistaken for -1, the
\* "no group" value CreateTabObject writes at line 457.
GroupIdNonNegative ==
  \A b \in Browsers : \A i \in 1..Len(groups[b]) : GetGroupId(GroupHash[groups[b][i]]) >= 0

\* The lookups that start from a WebContents agree with each other and
\* with GetTabById: GetTabStripModel finds a contents exactly when
\* GetWindowControllerOfTab gives a window, which is the browser of the
\* strip it reports, and the index it reports (from 0) is where the
\* contents sits; when GetTabById finds the same contents in a strip it
\* reports that strip and index; and whatever GetTabById hands a caller
\* is in that caller's context by IsWebContentsInContext, though the two
\* filter profiles by different rules.  The tab object CreateTabObject
\* builds without a strip carries the tab's id, that index and window,
\* and is active exactly when the tab is its strip's active tab; a
\* prerendered page has index TAB_INDEX_NONE, window -1 and is inactive.
ContentsLookupsAgree ==
  [][last'.op = "Contents" =>
       LET r == last'
           sm == r.strip_model
       IN  /\ sm.found = (r.controller # NoBrowser)
           /\ sm.found => /\ r.controller = sm.tab_strip
                          /\ sm.tab_index + 1 \in DOMAIN strip[sm.tab_strip]
                          /\ strip[sm.tab_strip][sm.tab_index + 1] = r.contents
           /\ r.by_id.found /\ r.by_id.tab_strip # NoBrowser =>
                 /\ r.by_id.tab_strip = sm.tab_strip
                 /\ r.by_id.tab_index = sm.tab_index
           /\ r.by_id.found => r.in_context
           /\ r.object.id = r.contents /\ r.object.index = sm.tab_index
           /\ r.object.window_id = IF sm.found THEN r.controller ELSE -1
           /\ r.strip_window = r.object.window_id
           /\ r.object.active = r.object.selected
           /\ r.object.active = (sm.found /\ GetActiveWebContents(sm.tab_strip) = r.contents)]_vars

\* GetAllActiveWebContentsForContext returns one entry per browser of
\* BrowserList that GetTabById searches for the same caller.  An entry is
\* null exactly for such a browser whose last tab has closed and which
\* has not yet left BrowserList (line 945 pushes it unchecked); every
\* other entry is that browser's active tab, and GetTabById finds it by
\* its id there.  The two functions compute the caller's incognito
\* profile separately.
ActiveContentsFoundById ==
  [][last'.op = "Active" =>
       LET r == last'
           ac == r.active_contents
           searched == {b \in open : bprofile[b] \in Allowed(r.profile, r.include_incognito)}
           closing == {b \in searched : strip[b] = <<>>}
       IN  /\ Len(ac) = Cardinality(searched)
           /\ Len(SelectSeq(ac, LAMBDA x : x = NoTab)) = Cardinality(closing)
           /\ \A i \in 1..Len(ac) : ac[i] # NoTab =>
                 LET f == GetTabById(ac[i], r.profile, r.include_incognito)
                 IN  /\ f.found /\ f.tab_strip \in searched
                     /\ active[f.tab_strip] = f.tab_index + 1]_vars

\* The colour tabGroups.get reports for a group (CreateTabGroupObject on
\* the visual data GetGroupById returns) is the colour an extension last
\* set on it: the two switch tables of lines 869-925 are inverse on every
\* colour an extension can set, across creation, updates and closing.
GroupColorRoundTrip ==
  [][last'.op = "GetGroupById" /\ last'.found /\ colorSet[last'.group] # "none" =>
       last'.object.color = colorSet[last'.group]]_vars
=============================================================================
