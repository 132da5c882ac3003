---------------------------- MODULE BrowserWorld ----------------------------
(***************************************************************************)
(* The browser state that ExtensionTabUtil reads and changes, and the      *)
(* helpers of extension_tab_util.cc that act on it, as operators over a    *)
(* world record so that a handler can chain several of them:               *)
(*                                                                         *)
(*   list        the BrowserList, in creation order                        *)
(*   profile     profile of each browser (NoProfile before it exists)      *)
(*   type        "normal", "popup" or "devtools"                           *)
(*   shown       whether its window has been shown                         *)
(*   closing     IsAttemptingToCloseBrowser()                              *)
(*   strip       its TabStripModel, a sequence of tab ids                  *)
(*   opener      opener of each tab as set in the tab strip                *)
(*   url         the URL a tab was opened with, as a URL kind              *)
(*   owner       who opened the tab: an extension context, "user", "page"  *)
(*   nextBrowser, nextTab   the next session ids (ids are never reused)    *)
(*   over        a browser or tab id beyond the model's bound was needed   *)
(*                                                                         *)
(* Browser::Create, the browser finder and Navigate live outside the       *)
(* repository; they are modelled by the little of them that               *)
(* extension_tab_util.cc relies on, and say so where they are defined.     *)
(***************************************************************************)
EXTENDS Integers, Sequences, SequencesExt

CONSTANTS
  Reg, Otr,          \* a regular profile and its primary off-the-record one
  NoProfile,
  MaxBrowsers,       \* bound on window session ids
  MaxTabs,           \* bound on tab session ids
  Callers,           \* who calls the API: WebUI (no extension) or extensions
  NoExtension,       \* the caller that is a WebUI page, with no extension
  SplitMode,         \* callers whose extension uses incognito split mode
  DevtoolsPermitted, \* callers with the devtools or debugger permission
  FileAccess         \* callers allowed file access (or by policy)

Profiles == {Reg, Otr}
BrowserIds == 1..MaxBrowsers
TabIds == 1..MaxTabs
NoBrowser == 0
NoTab == 0
Types == {"normal", "popup", "devtools"}

IsOffTheRecord(p) == p = Otr
GetOriginalProfile(p) == Reg
\* Both profiles answer with the primary OTR profile, which exists here.
GetPrimaryOTRProfile(p) == Otr

Browsers(w) == ToSet(w.list)
BrowserOfTab(w, t) ==
  LET i == SelectInSeq(w.list, LAMBDA b : Contains(w.strip[b], t))
  IN  IF i = 0 THEN NoBrowser ELSE w.list[i]

\* TabStripModel::GetIndexOfWebContents: 0-based, kNoTab (-1) if absent.
GetIndexOfWebContents(w, b, t) == SelectInSeq(w.strip[b], LAMBDA x : x = t) - 1

-----------------------------------------------------------------------------
(* URLs.  A URL string is one of a few kinds; `ParseURL` is GURL's view of *)
(* it: "relative" does not parse and is invalid.                           *)
UrlInputs == {"http", "relative", "javascript", "chrome_quit",
              "chrome_crash", "chrome_settings", "devtools", "untrusted",
              "file", "view_source_file", "ext"}
Invalid == "invalid"
ParseURL(s) == IF s = "relative" THEN Invalid ELSE s

\* ResolvePossiblyRelativeURL: an invalid URL of an extension is taken as
\* a path into the extension's own resources.
ResolvePossiblyRelativeURL(s, e) ==
  IF ParseURL(s) = Invalid /\ e # NoExtension THEN "ext" ELSE ParseURL(s)

\* blink::IsRendererDebugURL: javascript: and chrome://crash and its kin.
IsRendererDebugURL(u) == u \in {"javascript", "chrome_crash"}
ChromeUIScheme == {"chrome_quit", "chrome_crash", "chrome_settings"}
KillHosts == {"chrome_quit"}

IsKillURL(u) ==
  \/ IsRendererDebugURL(u)
  \/ u \in ChromeUIScheme /\ u \in KillHosts

IsFileUrl(u) == u \in {"file", "view_source_file"}

\* (mutant: the kill-URL check is left out)
PrepareURLForNavigationNoKillCheck(s, e) ==
  LET u == ResolvePossiblyRelativeURL(s, e) IN
  CASE u = Invalid -> [ok |-> FALSE, url |-> u]
    [] u = "javascript" -> [ok |-> FALSE, url |-> u]
    [] u = "devtools" /\ e \notin DevtoolsPermitted -> [ok |-> FALSE, url |-> u]
    [] u = "untrusted" -> [ok |-> FALSE, url |-> u]
    [] e # NoExtension /\ IsFileUrl(u) /\ e \notin FileAccess
         -> [ok |-> FALSE, url |-> u]
    [] OTHER -> [ok |-> TRUE, url |-> u]

\* PrepareURLForNavigation: resolve, fix up (the identity on these kinds),
\* then reject in the code's order.  WebUI callers (no extension) are
\* trusted with file URLs.
PrepareURLForNavigation(s, e) ==
  LET u == ResolvePossiblyRelativeURL(s, e) IN
  CASE u = Invalid -> [ok |-> FALSE, url |-> u]
    [] u = "javascript" -> [ok |-> FALSE, url |-> u]
    [] IsKillURL(u) -> [ok |-> FALSE, url |-> u]
    [] u = "devtools" /\ e \notin DevtoolsPermitted -> [ok |-> FALSE, url |-> u]
    [] u = "untrusted" -> [ok |-> FALSE, url |-> u]
    [] e # NoExtension /\ IsFileUrl(u) /\ e \notin FileAccess
         -> [ok |-> FALSE, url |-> u]
    [] OTHER -> [ok |-> TRUE, url |-> u]

-----------------------------------------------------------------------------
(* Environment: Browser::Create and chrome::FindTabbedBrowser.             *)

\* A new browser of profile p and type ty, not yet shown, with no tabs.
NewBrowser(w, p, ty) ==
  LET b == w.nextBrowser IN
  [w EXCEPT !.list = Append(@, b),
            !.profile[b] = p, !.type[b] = ty,
            !.shown[b] = FALSE, !.closing[b] = FALSE, !.strip[b] = <<>>,
            !.nextBrowser = @ + 1]

CanAllocBrowser(w) == w.nextBrowser <= MaxBrowsers

\* The most recently created browser that is normal, not closing, and of
\* profile p (of p's original profile, with match_original_profiles).
\* Creation order stands in for the finder's activation order.
FindTabbedBrowser(w, p, match_original_profiles) ==
  LET Matches(b) ==
        /\ w.type[b] = "normal"
        /\ ~w.closing[b]
        /\ IF match_original_profiles
             THEN GetOriginalProfile(w.profile[b]) = GetOriginalProfile(p)
             ELSE w.profile[b] = p
      i == SelectLastInSeq(w.list, Matches)
  IN  IF i = 0 THEN NoBrowser ELSE w.list[i]

-----------------------------------------------------------------------------
(* extension_tab_util.cc helpers.  Each returns [w, b]: the new world and  *)
(* the browser, or NoBrowser.                                              *)

\* CreateBrowser: nullptr unless GetCreationStatusForProfile is kOk
\* (`creatable`); otherwise a TYPE_NORMAL browser.  Asking beyond the id
\* bound marks the world `over`.
CreateBrowser(w, p, creatable) ==
  CASE ~creatable -> [w |-> w, b |-> NoBrowser]
    [] ~CanAllocBrowser(w) -> [w |-> [w EXCEPT !.over = TRUE], b |-> NoBrowser]
    [] OTHER -> [w |-> NewBrowser(w, p, "normal"), b |-> w.nextBrowser]

CreateAndShowBrowser(w, p, creatable) ==
  LET r == CreateBrowser(w, p, creatable) IN
  IF r.b = NoBrowser THEN r
  ELSE [w |-> [r.w EXCEPT !.shown[r.b] = TRUE], b |-> r.b]

\* (mutant: any window id is taken as found, without the profile loop)
GetControllerInProfileWithIdAnyId(w, profile, window_id, also_match_incognito) ==
  window_id

\* GetControllerInProfileWithId: the first browser in the list whose
\* profile is `profile`, or its primary OTR profile when asked, and whose
\* window id is window_id.
GetControllerInProfileWithId(w, profile, window_id, also_match_incognito) ==
  LET incognito == IF also_match_incognito THEN GetPrimaryOTRProfile(profile)
                   ELSE NoProfile
      i == SelectInSeq(w.list, LAMBDA b : /\ w.profile[b] \in {profile, incognito}
                                          /\ b = window_id)
  IN  IF i = 0 THEN NoBrowser ELSE w.list[i]

\* ChromeExtensionFunctionDetails::GetCurrentWindowController (outside the
\* repository): the sender's window or the last active one, among the
\* browsers of `profile` or, when allowed, its OTR profile.  The most
\* recently created such browser stands in for both.
GetCurrentWindowController(w, profile, include_incognito) ==
  LET i == SelectLastInSeq(w.list,
             LAMBDA b : \/ w.profile[b] = profile
                        \/ include_incognito /\ w.profile[b] = GetPrimaryOTRProfile(profile))
  IN  IF i = 0 THEN NoBrowser ELSE w.list[i]

\* The tab-strip loop of GetTabById: the browser holding tab_id among the
\* browsers of `profile` or its primary OTR profile, or NoBrowser.
GetTabByIdInStrips(w, tab_id, profile, include_incognito) ==
  LET incognito == IF include_incognito THEN GetPrimaryOTRProfile(profile)
                   ELSE NoProfile
      i == SelectInSeq(w.list, LAMBDA b : /\ w.profile[b] \in {profile, incognito}
                                          /\ Contains(w.strip[b], tab_id))
  IN  IF tab_id = NoTab \/ i = 0 THEN NoBrowser ELSE w.list[i]

-----------------------------------------------------------------------------
(* Environment: Navigate with a new-tab disposition (browser_navigator.cc).*)
(* A browser without a tab strip hands the tab to a tabbed browser of its  *)
(* profile, found or created and shown.  The tab goes at tabstrip_index,   *)
(* or at the end for -1 or an index past the end.  In locked fullscreen    *)
(* nothing is inserted.  Returns [w, b, tab]: the browser that got the tab *)
(* (navigate_params.browser) and the tab, or NoTab.                        *)
NavigateNewTab(w, b, index, url, owner, locked) ==
  LET found == IF w.type[b] = "normal" THEN b
               ELSE FindTabbedBrowser(w, w.profile[b], FALSE)
      w1 == IF found = NoBrowser /\ CanAllocBrowser(w)
              THEN NewBrowser(w, w.profile[b], "normal") ELSE w
      target == IF found = NoBrowser THEN w.nextBrowser ELSE found
      t == w.nextTab
      s == w1.strip[target]
      at == IF index = -1 \/ index > Len(s) THEN Len(s) + 1 ELSE index + 1
  IN  CASE locked -> [w |-> w, b |-> b, tab |-> NoTab]
        [] (found = NoBrowser /\ ~CanAllocBrowser(w)) \/ t > MaxTabs
             -> [w |-> [w EXCEPT !.over = TRUE], b |-> b, tab |-> NoTab]
        [] OTHER ->
             [w |-> [w1 EXCEPT !.strip[target] = InsertAt(s, at, t),
                               !.shown[target] = TRUE,
                               !.url[t] = url, !.owner[t] = owner,
                               !.nextTab = @ + 1],
              b |-> target, tab |-> t]

\* Navigate with a WebContents that already exists (CreateTab): a tab
\* disposition puts it in `b` like NavigateNewTab; NEW_POPUP and NEW_WINDOW
\* make a new popup or normal browser of the same profile for it.  The
\* window is shown (SHOW_WINDOW).
NavigateContents(w, b, disposition, url, owner) ==
  LET t == w.nextTab
      p == w.profile[b]
      nb == w.nextBrowser
  IN  CASE disposition = "tab" -> NavigateNewTab(w, b, -1, url, owner, FALSE)
        [] ~CanAllocBrowser(w) \/ t > MaxTabs
             -> [w |-> [w EXCEPT !.over = TRUE], b |-> b, tab |-> NoTab]
        [] OTHER ->
             LET w1 == NewBrowser(w, p, IF disposition = "popup" THEN "popup"
                                        ELSE "normal")
             IN  [w |-> [w1 EXCEPT !.strip[nb] = <<t>>, !.shown[nb] = TRUE,
                                   !.url[t] = url, !.owner[t] = owner,
                                   !.nextTab = @ + 1],
                  b |-> nb, tab |-> t]
=============================================================================
