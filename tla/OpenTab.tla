------------------------------- MODULE OpenTab -------------------------------
(***************************************************************************)
(* ExtensionTabUtil::OpenTab (chrome.tabs.create) and ExtensionTabUtil::   *)
(* CreateTab over the browser state of BrowserWorld, with the user opening *)
(* and closing windows in between.  Each call is one step: the code runs   *)
(* on the UI thread and does not yield.  `last` is what the latest call    *)
(* returned: a tab object's tab, window and index, or an error.            *)
(***************************************************************************)
EXTENDS BrowserWorld

CONSTANTS
  Indexes,  \* values of params.index tried, -1 being "no index"
  Urls,     \* values of params.url tried, "none" being no url
  UserWindowTypes  \* types of window the user opens

VARIABLES
  blist, bprofile, btype, shown, closing, strip, opener, tabUrl, tabOwner,
  nextBrowser, nextTab, last

vars == <<blist, bprofile, btype, shown, closing, strip, opener, tabUrl,
          tabOwner, nextBrowser, nextTab, last>>

kCurrentWindowId == -2
NoResult == [kind |-> "none"]
Error == [kind |-> "error"]

world == [list |-> blist, profile |-> bprofile, type |-> btype,
          shown |-> shown, closing |-> closing, strip |-> strip,
          opener |-> opener, url |-> tabUrl, owner |-> tabOwner,
          nextBrowser |-> nextBrowser, nextTab |-> nextTab, over |-> FALSE]

\* The world after a step is `w`, which must stay within the id bounds.
Become(w) ==
  /\ ~w.over
  /\ blist' = w.list /\ bprofile' = w.profile /\ btype' = w.type
  /\ shown' = w.shown /\ closing' = w.closing /\ strip' = w.strip
  /\ opener' = w.opener /\ tabUrl' = w.url /\ tabOwner' = w.owner
  /\ nextBrowser' = w.nextBrowser /\ nextTab' = w.nextTab

Init ==
  /\ blist = <<>>
  /\ bprofile = [b \in BrowserIds |-> NoProfile]
  /\ btype = [b \in BrowserIds |-> "normal"]
  /\ shown = [b \in BrowserIds |-> FALSE]
  /\ closing = [b \in BrowserIds |-> FALSE]
  /\ strip = [b \in BrowserIds |-> <<>>]
  /\ opener = [t \in TabIds |-> NoTab]
  /\ tabUrl = [t \in TabIds |-> "none"]
  /\ tabOwner = [t \in TabIds |-> "none"]
  /\ nextBrowser = 1
  /\ nextTab = 1
  /\ last = NoResult

-----------------------------------------------------------------------------
(* OpenTab, lines 221-361, one operator per decision the code makes.       *)

\* What a tab records of its URL: whether it is an extension URL.
UrlClass(u) == IF u = "ext" THEN "ext" ELSE "other"

\* GetControllerFromWindowID: the current window, or a window by id.
GetControllerFromWindowID(w, profile, window_id, include_incognito) ==
  IF window_id = kCurrentWindowId
    THEN GetCurrentWindowController(w, profile, include_incognito)
    ELSE GetControllerInProfileWithId(w, profile, window_id, include_incognito)

\* (mutant: the tabbed browser is looked up for the original profile while
\* matching original profiles, which also accepts its incognito windows)
FallbackBrowserMatchingOriginal(w, p) ==
  FindTabbedBrowser(w, GetOriginalProfile(p), TRUE)

\* The tabbed window that an extension URL falls back to, line 293.
FallbackBrowser(w, p) == FindTabbedBrowser(w, GetOriginalProfile(p), FALSE)

\* (mutant: the index of the new tab is looked up in the chosen browser's
\* strip rather than in the one Navigate put it in)
TabStripOfChosenBrowser(navigated, browser) == browser

\* navigate_params.browser->tab_strip_model(), line 338.
TabStripOf(navigated, browser) == navigated.b

\* (mutant: the opener is set without checking it is in the same strip)
OpenerInStripUnchecked(w, b, opener_tab) == TRUE

\* tab_strip->GetIndexOfWebContents(opener) != kNoTab, line 344.
OpenerInStrip(w, b, opener_tab) == GetIndexOfWebContents(w, b, opener_tab) # -1

\* Lines 245-248: a non-normal window that is closing is swapped for a
\* tabbed window of the function's profile (or its incognito one).
SelectNormalBrowser(w, b, profile, incognito) ==
  IF w.type[b] # "normal" /\ w.closing[b]
    THEN FindTabbedBrowser(w, profile, incognito)
    ELSE b

\* Lines 285-301: an extension URL of a caller that is not a split-mode
\* extension moves from an incognito window to a tabbed window of the
\* original profile, found, or created and shown.  Returns [w, b].
TabbedBrowserForUrl(w, b, url, ext, creatable) ==
  LET original == GetOriginalProfile(w.profile[b])
      found == FallbackBrowser(w, w.profile[b])
      created == CreateBrowser(w, original, creatable)
  IN  CASE ~(url = "ext" /\ ext \notin SplitMode /\ IsOffTheRecord(w.profile[b]))
             -> [w |-> w, b |-> b]
        [] found # NoBrowser -> [w |-> w, b |-> found]
        [] created.b = NoBrowser -> created
        [] OTHER -> [w |-> [created.w EXCEPT !.shown[created.b] = TRUE],
                     b |-> created.b]

\* (mutant: the index is clamped to 0 rather than -1 from below)
ClampIndexFromZero(w, b, index) == Max({0, Min({index, Len(w.strip[b])})})

\* Lines 308-311: std::clamp(index, -1, tab_strip->count()).
ClampIndex(w, b, index) == Max({-1, Min({index, Len(w.strip[b])})})

Fail(w) == Become(w) /\ last' = Error

\* Lines 336-360: after Navigate, the opener is set if the strip that got
\* the tab holds it, and the tab object reports the tab's index there.
SetOpenerAndReturn(navigated, browser, opener_tab_id, requested) ==
  LET tab_strip == TabStripOf(navigated, browser)
      w == IF opener_tab_id # NoTab
               /\ OpenerInStrip(navigated.w, tab_strip, opener_tab_id)
             THEN [navigated.w EXCEPT !.opener[navigated.tab] = opener_tab_id]
             ELSE navigated.w
  IN  /\ Become(w)
      /\ last' = [kind |-> "ok", tab |-> navigated.tab,
                  window |-> BrowserOfTab(w, navigated.tab),
                  index |-> GetIndexOfWebContents(navigated.w, tab_strip,
                                                  navigated.tab),
                  requested |-> requested, direct |-> navigated.b = browser]

\* A function calls OpenTab.  Its inputs: the profile and extension of
\* the calling function, include_incognito_information, params.window_id,
\* create_browser_if_needed (which only matters when no window was found),
\* opener_tab_id, url and index, and the browser's condition: browsers may
\* be created and it is not in locked fullscreen, GetCreationStatusFor-
\* Profile is not kOk, or it is in locked fullscreen.  A spanning-mode
\* extension's functions always run in the regular profile.  Each value
\* the handler computes is bound once; each early return is a disjunct.
OpenTab ==
  \E profile \in Profiles, ext \in Callers, incognito \in BOOLEAN,
     window_id \in {kCurrentWindowId} \cup BrowserIds :
  /\ IsOffTheRecord(profile) => ext \in SplitMode \cup {NoExtension}
  /\ \E controller \in {GetControllerFromWindowID(world, profile, window_id, incognito)} :
     \/ controller = NoBrowser /\ Fail(world)   \* create_browser_if_needed is false
     \/ \E opener_tab_id \in {NoTab} \cup TabIds, url_in \in Urls,
           index_in \in Indexes, condition \in {"ok", "no_creation", "locked"} :
        LET creatable == condition # "no_creation" IN
        /\ \E c1 \in {IF controller # NoBrowser THEN [w |-> world, b |-> controller]
                      ELSE CreateAndShowBrowser(world, profile, creatable)} :
           \/ c1.b = NoBrowser /\ Fail(c1.w)
           \/ /\ c1.b # NoBrowser
              /\ \E browser1 \in {SelectNormalBrowser(c1.w, c1.b, profile, incognito)},
                    opener_browser \in {IF opener_tab_id = NoTab THEN NoBrowser
                                        ELSE GetTabByIdInStrips(c1.w, opener_tab_id,
                                                                profile, incognito)},
                    url \in {IF url_in = "none"
                               THEN [ok |-> TRUE, url |-> "chrome_newtab"]
                               ELSE PrepareURLForNavigation(url_in, ext)} :
                 LET opener_found == opener_tab_id = NoTab \/ opener_browser # NoBrowser IN
                 \/ browser1 = NoBrowser /\ Fail(c1.w)
                 \/ browser1 # NoBrowser /\ ~opener_found /\ Fail(c1.w)
                 \/ browser1 # NoBrowser /\ opener_found /\ ~url.ok /\ Fail(c1.w)
                 \/ /\ browser1 # NoBrowser /\ opener_found /\ url.ok
                    /\ \E c3 \in {TabbedBrowserForUrl(c1.w, browser1, url.url, ext, creatable)} :
                       LET same_window == opener_browser = NoBrowser \/ c3.b = opener_browser IN
                       \/ c3.b = NoBrowser /\ Fail(c3.w)
                       \/ c3.b # NoBrowser /\ ~same_window /\ Fail(c3.w)
                       \/ /\ c3.b # NoBrowser /\ same_window
                          /\ \E navigated \in {NavigateNewTab(c3.w, c3.b,
                                                 ClampIndex(c3.w, c3.b, index_in),
                                                 UrlClass(url.url), ext,
                                                 condition = "locked")} :
                             \/ navigated.tab = NoTab /\ Fail(navigated.w)
                             \/ /\ navigated.tab # NoTab
                                /\ SetOpenerAndReturn(navigated, c3.b, opener_tab_id, index_in)

-----------------------------------------------------------------------------
(* CreateTab, lines 1082-1116: a page's new WebContents gets a window.     *)
(* A WebContents made by a page of profile p, opening a URL of some kind,  *)
(* is shown with `disposition`: "tab", "popup" or "window".               *)
CreateTabResult(w0, profile, url, disposition, creatable) ==
  LET found == FindTabbedBrowser(w0, profile, FALSE)
      browser_created == found = NoBrowser
      c == IF found # NoBrowser THEN [w |-> w0, b |-> found]
           ELSE CreateBrowser(w0, profile, creatable)
      nav == NavigateContents(c.w, c.b, disposition, url, "page")
  IN  CASE c.b = NoBrowser -> c.w
        [] browser_created /\ c.b # nav.b
             -> [nav.w EXCEPT !.closing[c.b] = TRUE]
        [] OTHER -> nav.w

CreateTab ==
  \E profile \in Profiles, url \in {"other"},
     disposition \in {"tab", "popup", "window"}, creatable \in BOOLEAN :
    /\ Become(CreateTabResult(world, profile, url, disposition, creatable))
    /\ last' = NoResult

-----------------------------------------------------------------------------
(* The user, outside the extension API.                                    *)

\* A window of any profile and type opens with one tab.
UserOpensWindow ==
  \E p \in Profiles, ty \in UserWindowTypes :
    LET b == nextBrowser
        t == nextTab
        w1 == NewBrowser(world, p, ty)
    IN  /\ b <= MaxBrowsers /\ t <= MaxTabs
        /\ Become([w1 EXCEPT !.strip[b] = <<t>>, !.shown[b] = TRUE,
                             !.url[t] = "other", !.owner[t] = "user",
                             !.nextTab = @ + 1])
        /\ last' = NoResult

\* The user starts closing a window: IsAttemptingToCloseBrowser().
UserClosesWindow ==
  \E b \in Browsers(world) :
    /\ ~closing[b]
    /\ closing' = [closing EXCEPT ![b] = TRUE]
    /\ last' = NoResult
    /\ UNCHANGED <<blist, bprofile, btype, shown, strip, opener, tabUrl,
                   tabOwner, nextBrowser, nextTab>>

\* A closing window goes away with its tabs; nothing refers to them again.
WindowDestroyed ==
  \E b \in Browsers(world) :
    LET gone(t) == Contains(strip[b], t) IN
    /\ closing[b]
    /\ blist' = Remove(blist, b)
    /\ bprofile' = [bprofile EXCEPT ![b] = NoProfile]
    /\ btype' = [btype EXCEPT ![b] = "normal"]
    /\ shown' = [shown EXCEPT ![b] = FALSE]
    /\ closing' = [closing EXCEPT ![b] = FALSE]
    /\ strip' = [strip EXCEPT ![b] = <<>>]
    /\ opener' = [t \in TabIds |-> IF gone(t) THEN NoTab ELSE opener[t]]
    /\ tabUrl' = [t \in TabIds |-> IF gone(t) THEN "none" ELSE tabUrl[t]]
    /\ tabOwner' = [t \in TabIds |-> IF gone(t) THEN "none" ELSE tabOwner[t]]
    /\ last' = NoResult
    /\ UNCHANGED <<nextBrowser, nextTab>>

Next ==
  \/ OpenTab
  \/ CreateTab
  \/ UserOpensWindow
  \/ UserClosesWindow
  \/ WindowDestroyed

Spec == Init /\ [][Next]_vars

-----------------------------------------------------------------------------
TabsIn(b) == ToSet(strip[b])

TypeOK ==
  /\ blist \in Seq(BrowserIds)
  /\ \A b \in BrowserIds :
       /\ strip[b] \in Seq(TabIds)
       /\ b \notin Browsers(world) => strip[b] = <<>>
       /\ b \in Browsers(world) => bprofile[b] \in Profiles
  /\ \A b, c \in BrowserIds : b # c => TabsIn(b) \cap TabsIn(c) = {}
  /\ opener \in [TabIds -> TabIds \cup {NoTab}]
  /\ last \in {NoResult, Error} \cup
       [kind : {"ok"}, tab : TabIds, window : BrowserIds, index : -1..MaxTabs,
        requested : Indexes, direct : BOOLEAN]

\* An extension URL opened by OpenTab for a caller that is not a split-mode
\* extension never sits in an off-the-record window (lines 285-301: the
\* fall back to a tabbed window of the original profile).  Getting there
\* takes an incognito window chosen as current or by id, possibly a popup
\* or one being closed, and a tabbed window found or created for it.
ExtensionUrlNeverInIncognito ==
  \A b \in Browsers(world) : \A t \in TabsIn(b) :
    tabUrl[t] = "ext" /\ tabOwner[t] \in Callers \ SplitMode
      => ~IsOffTheRecord(bprofile[b])

\* The tab object OpenTab returns names the tab it created, the window
\* that holds it and its index there, even when Navigate put the tab in
\* another window than the one OpenTab chose (comment at lines 336-337).
ResultDescribesCreatedTab ==
  last.kind = "ok" =>
    /\ last.window \in Browsers(world)
    /\ last.index \in 0..(Len(strip[last.window]) - 1)
    /\ strip[last.window][last.index + 1] = last.tab

\* A tab's opener is always in the same tab strip as the tab: OpenTab
\* rejects an opener in another window (line 303) and sets it only if
\* Navigate's strip holds it (line 344).
OpenerInSameStrip ==
  \A t \in TabIds : opener[t] # NoTab =>
    /\ BrowserOfTab(world, t) # NoBrowser
    /\ BrowserOfTab(world, t) = BrowserOfTab(world, opener[t])

\* A tab OpenTab places in the window it chose sits where params.index
\* asks, bounded to -1 <= index <= count() (the comment at lines 308-309):
\* at that index when it is within the strip, at the end for an index past
\* the end, and at the end for -1 and for any negative index, which the
\* clamp turns into the default placement.  The count is the strip's just
\* before the call; the window may have been created by the call.
TabAtClampedIndex ==
  [][last'.kind = "ok" /\ last'.direct =>
       last'.index = IF last'.requested < 0
                       THEN Len(strip[last'.window])
                       ELSE Min({last'.requested, Len(strip[last'.window])})]_vars

\* No shown window is left without tabs unless it is closing: CreateTab
\* closes the browser it created when Navigate used another (line 1113);
\* OpenTab creates and shows a window at lines 240 and 299 before checks
\* that may still fail.
NoStrayWindow ==
  \A b \in Browsers(world) : shown[b] /\ strip[b] = <<>> => closing[b]

=============================================================================
