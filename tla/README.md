# TLA+ models of the fixed-set matcher and its neighbours

This directory holds TLA+ models of the code under `src/`, TLC configurations
that check them, and `PROJECT.json`, which records the components, runs,
mutants, the map from definitions to source lines, and the hazards.

## 1. The system

The repository has four source files:

| file | what it is |
|---|---|
| `net/base/lookup_string_in_fixed_set.h` | membership, prefix and suffix lookup against a fixed string set compiled into a DAFSA byte graph. This is the core named by `spec.md`. Only the header is in the repository. |
| `chrome/browser/extensions/extension_tab_util.cc` | helpers behind the `chrome.tabs` / `chrome.tabGroups` extension APIs: open a tab, find windows, tabs and groups by id, build the tab object with privacy scrubbing, check URLs before navigation, and create tabs. |
| `chrome/browser/download/android/download_manager_bridge.cc` | JNI bridge: hands a completed download to Java and runs a C++ callback when Java answers. |
| `third_party/blink/renderer/core/layout/anchor_evaluator_impl.h` | CSS anchor positioning: a query that concatenates two hash maps, anchor reference lists, and an evaluator with single-value caches. |

### 1.1 Fixed-set lookup (the core)

* **GraphDecoder** (no state). It reads one position of the immutable byte
  graph in one of three ways: a label character with an implied next
  position, a list of child offsets, or a return value (result code). The
  decoder body is not in the repository. `DafsaGraph` models it from
  spec §4.1 with one self-consistent layout:
  * a label byte holds its character in the low 7 bits and a label-end bit
    at 0x80;
  * a label-ending byte whose character is below 0x20 is a return value;
  * an offset list names the child positions in order.
* **FixedSetIncrementalLookup** (state: `bytes_`, `original_bytes_`, and
  `bytes_starts_with_label_character_`). Its operations are the
  constructor, `Advance(char)`, `GetResultForCurrentSequence()`, copy
  construction and copy assignment. `bytes_` is the current position and is
  empty once the cursor is exhausted. `original_bytes_` only guards against
  use-after-free. The flag says how to decode `bytes_`.
* **LookupStringInFixedSet** (stateless). It runs one cursor over the key and
  stops as soon as an `Advance` fails.
* **LookupSuffixInReversedSet** (stateless). It feeds the host right to left
  into a cursor over a graph of reversed strings. A match counts only if it
  is the whole host or starts right after a `.`. It skips private rules
  unless `include_private` is set, and keeps the longest match.

How they interact: the lookups are function calls over a read-only graph,
with no concurrency and no I/O (spec §5). Callers can copy a cursor to save a
search position and restore it later.

Hard behaviours:
* the signed `char` input at the edge of the label range;
* keeping the decoder flag in step with the position;
* making exhaustion absorbing;
* finding a return value that is not the first child;
* the component boundary at the start of the host;
* the length arithmetic after the iterator has been decremented;
* the private-rule skip.

Correctness conditions:
* the cursor agrees with the set: `Advance` returns true exactly on viable
  prefixes, and the result is the member's code;
* the decoder state stays consistent with the graph;
* a whole-key lookup returns the member's code;
* a suffix lookup returns the longest component-aligned, private-filtered
  match.

### 1.2 ExtensionTabUtil

It has no state of its own. It reads and changes the browser's global state:
* the `BrowserList`, where each browser has a profile, a type, a window and a
  tab strip;
* the tabs, which carry session ids, committed and pending URLs, and
  openers;
* the tab groups;
* the render process hosts, which carry prerendered frames.

Operations that change that state:
* `OpenTab`, which may create and show a browser and then navigates;
* `CreateTab`, which may create a browser, navigates, and may close the
  browser it created;
* `OpenOptionsPageFromAPI`;
* `ClearBackForwardCache`.

Read-only operations:
* `GetControllerFromWindowID` and `GetControllerInProfileWithId`;
* `GetTabById`, which also has a prerender path;
* `GetGroupById` and `GetGroupId`;
* `CreateTabObject`, `GetScrubTabBehavior` and `ScrubTabForExtension`;
* `PrepareURLForNavigation` and `IsKillURL`;
* `ColorIdToColor` and `ColorToColorId`;
* `IsTabStripEditable` and `TabIsInSavedTabGroup`.

Everything runs on the browser UI thread. The hard parts are sequences of
steps with side effects that come before an error return:
* a window is shown, and then the call fails;
* an index is clamped against one tab strip, and the tab lands in another;
* an out-parameter is never reset;
* two profile filters disagree;
* the integer edge of the group-id hash.

Correctness conditions:
* a tab object given to an extension without permission carries no URL,
  title or favicon;
* an extension URL never opens in an incognito window unless the extension
  uses split mode;
* the opener is in the same window as the new tab;
* lookups only return objects of the caller's profile, or of its incognito
  profile when that is allowed;
* no URL that `PrepareURLForNavigation` rejects is navigated to.

### 1.3 DownloadManagerBridge

State: callbacks in flight, each a heap object whose address is passed to
Java as a `jlong`. `AddCompletedDownload` allocates the callback and calls
Java. `OnAddCompletedDownloadDone` takes ownership of the callback, runs it,
and deletes it. Hazard: the ownership transfer assumes Java answers exactly
once. A duplicated answer is a use-after-free, and a lost answer is a leak.

### 1.4 Anchor evaluation

* `AnchorQueryBase` holds two hash maps. Its `insert` does not overwrite
  an existing entry. Its iterator walks the named map first and then the
  implicit map.
* `CachedValue` is a single-entry cache keyed by value equality.
* `AnchorEvaluatorImpl` holds the caches, the scroll-adjustment flags and
  the accessibility anchor (the last anchor evaluated, or null once two
  have been evaluated).

Most of the evaluator's bodies are in a `.cc` file that is not in the
repository.

## 2. Modules

| module | models | state / actions |
|---|---|---|
| `DafsaGraph` | GraphDecoder | constant `Graph` (a sequence of byte and offset-list cells); `IsEOL`, `IsMatch`, `IsReturnValue`, `GetReturnValue`, `Children`; `WellFormedGraph` is assumed |
| `FixedSetIncrementalLookup` | the cursor class as values | `Cursor` = `[bytes, label]` (`bytes_`, `bytes_starts_with_label_character_`, with 0 for the empty span); `FixedSetIncrementalLookupNew`, `AdvanceCursor`, `GetResultForCurrentSequence` |
| `IncrementalLookupSession` | a caller holding several cursors | `lookup`, history `consumed`, bound counter `fed`; actions `Advance`, `Assign` (copy assignment), `Construct` |
| `FixedSetDictionary` | the abstract contract of the cursor | `seq`, `viable` per cursor; `Feed`, `Copy`, `Restart` |
| `LookupStringInFixedSet` | the membership loop | `key`, `i`, `lookup`, `result`, `done`; `AdvanceSucceeds`, `AdvanceFails`, `ReturnResult` |
| `LookupSuffixInReversedSet` | the suffix walk | `host`, `include_private`, `pos`, `lookup`, `suffix_length`, `result`, `done`; `Step`, `AdvanceFails`, `AllFed` |
| `DafsaFixture` | a compiled graph for the runs | 14 cells encoding the reversed set {"a":0, "a.b":4 (private), "a.b.a":0, "ba":2} |
| `DownloadManagerBridge` | `download_manager_bridge.cc` | `heap` (address → download whose callback lives there), `java` (requests Java still owes an answer), `added`, `runs`, `javaList`; actions `AddCompletedDownload`, `JavaAnswers` (which calls `OnAddCompletedDownloadDone`), `RemoveCompletedDownload` |
| `BrowserWorld` | the browser state `ExtensionTabUtil` reads and changes, and its helpers | a world record: `list` (the `BrowserList` order), `profile`, `type`, `shown`, `closing`, `strip` (tab sequence) per browser; `opener`, `url`, `owner` per tab; id counters. Code helpers: `CreateBrowser`, `CreateAndShowBrowser`, `GetControllerInProfileWithId`, `GetTabByIdInStrips`, `PrepareURLForNavigation`, `IsKillURL`, `ResolvePossiblyRelativeURL`. Environment: `FindTabbedBrowser`, `NavigateNewTab`, `NavigateContents` (`Navigate` is not in the repository) |
| `OpenTab` | `OpenTab` and `CreateTab` | the world as variables plus `last` (the last call's result); actions `OpenTab`, `CreateTab`, and the user's `UserOpensWindow`, `UserClosesWindow`, `WindowDestroyed` |
| `TabQueries` | `GetTabById` (strip search and prerender path), `GetGroupById`, `GetGroupId`, `GetTabStripModel`, `GetWindowControllerOfTab`, `IsWebContentsInContext`, `GetAllActiveWebContentsForContext`, `ColorIdToColor`, `ColorToColorId`, `CreateTabGroupObject(id, visual_data)` with `GetWindowIdOfGroup` (and `FindBrowserWithGroup`, outside the repository), `GetWindowIdOfTabStripModel`, the placement fields of `CreateTabObject` (`GetTabIdForExtensions`, `GetWindowIdOfTab`) | `bprofile`, `btype` per browser (fixed after `Init`), `open` (the browsers still in BrowserList), `strip`, `active` (the active tab's index) and `groups` per browser, `color` per group (its visual data's colour) and `colorSet` (history: the colour an extension last set), `prerender` (the profile of each prerendered page), `nextTab`, `last`; lookups `QueryTabById`, `QueryContents` (the three calls that take a WebContents, together with `GetTabById` of its id), `QueryActiveContents`, `QueryGroupById`; environment `NewTab` (in the foreground or the background), `CloseTab` (a free choice of the next active tab when the active one closes; closing the last tab leaves an empty strip with no active tab), `RemoveBrowser` (an empty browser leaves BrowserList), `StartPrerender`, `EndPrerender`, `CreateGroup`, `CloseGroup`, `UpdateGroupColor` (`tabGroups.update`, outside the repository, through `ColorToColorId`). Two specifications: `SpecTabs` (tabs and prerendering) and `SpecGroups` (groups) |
| `AnchorQuery` | `AnchorQueryBase` | `named_anchors_`, `implicit_anchors_` (total functions to references or `Null`), `namedOrder`, `implicitOrder` (each map's iteration order), the range-for's `it`, `loop` and `visited`, and `last`; actions `Insert`, `Lookup`, `BeginLoop`, `LoopStep`, `LoopExit` |
| `AnchorCachedValue` | `CachedValue` and the three caches of `AnchorEvaluatorImpl` | `key_`, `value_` per cache and `last`; action `Get` with a hit and a miss disjunct |
| `TabObjectScrub` | the privacy fields of the tab object | per tab `committed`, `pending`, `rendererInit`, `pendingFav`; the extension's `hosts` and activeTab `granted`; `last` (the object the step returned, with the caller); actions `QueryTab` (`GetScrubTabBehavior` then `CreateTabObject`) and `QueryUrl` (the bare-URL `GetScrubTabBehavior` overload on the URL a tab shows), environment `StartNavigation`, `CommitNavigation`, `CancelNavigation`, `FaviconLoaded`, `ChangePermissions` |

`IncrementalLookupSession` instantiates `FixedSetDictionary` with
`seq <- consumed` and `viable <- ~Exhausted(lookup[c])`. The abstract
`Spec` is checked as a property, which is the refinement.

How the code maps onto actions:
* `OpenTab` is one action for one call. Each value the handler computes is
  bound once (`\E x \in {expr}`), and each early return is its own disjunct,
  in the order of the code: no controller and no creation (238), creation
  failed (242), no normal window (250), opener not found (261), URL
  rejected (272), fallback creation failed (297), opener in another window
  (304), locked fullscreen (333), then success (336-360). The side effects
  before an error (a window created and shown) are kept in the world that
  the error step installs.
* The inputs are the calling function's profile and extension,
  `include_incognito_information`, `window_id` (current or an id),
  `create_browser_if_needed` (false is the early return when no window
  was found, taken once before the other inputs are enumerated),
  the opener id, the URL class, the index, and the browser's condition
  (creation allowed, `GetCreationStatusForProfile` refusing, or locked
  fullscreen).
* URLs are abstracted to the classes the code tells apart: none (new tab
  page), relative (resolved against the extension), an extension URL, and
  a `javascript:` URL (rejected). Other classes (kill URLs, file URLs) are
  modelled in `PrepareURLForNavigation` but not enumerated in the run.
* In `TabObjectScrub` a URL is an origin and a path, and each field of the
  tab object holds the URL of the page it describes, so a property can
  tell whose page a field discloses.

* In `TabQueries` the callers are the pairs (profile,
  `include_incognito_information`) that can occur: only a spanning-mode
  extension may cross into incognito (`util::CanCrossIncognito`), and its
  functions run in the regular profile, so off-the-record callers never
  include incognito. There is one render process per profile. Profiles
  are a regular one, its primary off-the-record profile and a secondary
  one, which is where `IsSameOrParent` and the strip filter differ.
* In `AnchorQuery` the iteration order of a hash map is not specified, so
  an insert that adds a key may leave the map in any order of its keys
  (a rehash), and an insert of a present key keeps the order. Inserts are
  not interleaved with a running loop: an insert invalidates `HashMap`
  iterators, and the loops are in a `.cc` file outside the repository.
* In `AnchorCachedValue` the creation functions are in that `.cc` file;
  they read only fields the evaluator never changes after construction, so
  `Create` is a constant function of the key, assumed (an `ASSUME`) to give
  equal results for keys that `Equals` calls equal.

## 3. Runs

| run | checks | bounds |
|---|---|---|
| `incremental_lookup` | `TypeOK`, `DecoderStateConsistent`, `ResultMatchesFixedSet`, `DictionarySpec` (refinement) | 2 cursors, alphabet {'a','b','.',NUL,0xE2}, ≤6 characters per cursor, ≤6 `Advance` calls in all |
| `fixed_set_lookups` | `TypeOK`, `ReturnsSetCode`, `ReturnsLongestSuffix` | one call per behaviour (`MCFixedSetLookups` joins the two functions as a disjoint union: `call` picks one in `Init`): every key of ≤6 characters over the same alphabet, or every host of ≤6 characters over {'a','b','.'} with both values of `include_private` |
| `download_bridge` | `TypeOK`, `CallbackOwnership`, `CallbackEventuallyRuns` | 4 downloads, 3 addresses (the null one included) |
| `open_tab` | `TypeOK`, `ExtensionUrlNeverInIncognito`, `ResultDescribesCreatedTab`, `OpenerInSameStrip` | 2 browser ids, 2 tab ids, a regular and an incognito profile, a spanning-mode and a split-mode extension, index 1, 4 URL classes |
| `open_tab_stray_window` | `NoStrayWindow` (expected violation) | the same |
| `open_tab_index` | `TabAtClampedIndex` | as `open_tab`, with indexes {-3, 0, 2} and the default URL only |
| `tab_scrub` | `TypeOK`, `UrlFieldsScrubbed` | 2 tabs, 2 origins, one extension without the "tabs" permission, 4 callers |
| `tab_scrub_favicon` | `FavIconScrubbed` (expected violation) | the same |
| `tab_group_lookups` | `TypeOK`, `TabLookupResult`, `GroupLookupSound`, `ContentsLookupsAgree`, `ActiveContentsFoundById`, `GroupColorRoundTrip` | `SpecLookups` of `MCTabQueries`: `part` picks tab lookups (2 browsers of any profiles, normal type, 3 tab ids, every caller) or group lookups (2 browsers of any profiles and types, 3 group tokens with 4-bit hashes 3, 13 and 8, asked ids {-1, 3, -8}, new groups grey, colours set none or orange) or colours (the same browsers, the one token g1, every colour an extension can set) |
| `tab_lookup_prerender_profile` | `TabLookupProfileFilter` (expected violation) | the same |
| `group_id_int_min` | `GroupIdNonNegative` (expected violation) | the same |
| `anchor` | `TypeOK`, `IterationYieldsEntries`, `CachedGetReturnsCreate` | `MCAnchor`: `part` picks the query (2 names, 2 layout objects, 2 references; symmetry over each) or the three caches (2 offsets values, 3 name pointers, two to equal names, null keys, 3 results) |

What the properties say:
* `CallbackOwnership`: every download handed to the bridge has its
  callback alive at exactly one address that exactly one outstanding Java
  request names, or has run once and holds nothing. Address reuse after a
  free is allowed, which is why several downloads and few addresses are
  needed.
* `CallbackEventuallyRuns`: each callback runs, under weak fairness of
  Java's answer.
* `ExtensionUrlNeverInIncognito`: no tab that `OpenTab` opened for a
  caller other than a split-mode extension shows an extension URL in an
  incognito window. (`CreateTab` is run with ordinary URLs only.)
* `ResultDescribesCreatedTab`: the window and index `OpenTab` returns are
  those of the tab it created, even when `Navigate` placed it in another
  window.
* `OpenerInSameStrip`: an opener is only set to a tab of the same strip.
* `TabAtClampedIndex`: when `Navigate` keeps the window `OpenTab` chose,
  the tab sits at `params.index` if that is within the strip, and at the
  end for an index past the end or any negative index (the clamp to -1,
  the default placement).
* `TabLookupResult`: a strip hit of `GetTabById` reports the browser,
  strip and index that hold the tab; a prerender hit reports no strip and
  `TAB_INDEX_NONE`; a tab of an allowed browser is never missed.
* `GroupLookupSound`: `GetGroupById` finds a group whenever an allowed
  browser has one with the asked id (other than -1), and what it returns
  is a group of an allowed browser with that id, also when two tokens
  share an id.
* `ContentsLookupsAgree`: for an existing WebContents, `GetTabStripModel`
  finds it exactly when `GetWindowControllerOfTab` gives a window, which
  is the browser of the reported strip, and the reported index (from 0)
  is where the tab sits; a strip hit of `GetTabById` reports the same
  strip and index; and what `GetTabById` hands a caller is in the
  caller's context by `IsWebContentsInContext`. The two profile filters
  differ: `IsWebContentsInContext` also admits a secondary incognito
  profile, which `GetTabById` never searches. The tab object
  `CreateTabObject` builds without a strip has the tab's id, that index
  and window, and is active and selected exactly when the tab is its
  strip's active tab. A prerendered page gets `TAB_INDEX_NONE`, window -1
  and inactive. `GetWindowIdOfTabStripModel`, which finds the window by
  looping over BrowserList, gives the same window id as
  `GetWindowIdOfTab`, which reads the session id of the tab's window. Devtools browsers are not among the types, so the -1 id
  of `GetTabIdForExtensions` is not reached.
* `GroupColorRoundTrip`: the colour `GetGroupById` plus
  `CreateTabGroupObject` report for a group is the one an extension last
  set on it, across creation, updates and closing of groups. The two
  switch tables of lines 869-925 are written separately, so they must be
  inverse on every colour that can be set. The `colours` part lets an
  extension set each of the nine colours (and none) on one group, so a
  swap of any two cases is seen.
* `ActiveContentsFoundById`: `GetAllActiveWebContentsForContext` returns
  one entry per browser of BrowserList that `GetTabById` searches for the
  same caller. An entry is null exactly for a browser whose last tab has
  closed but which has not yet left BrowserList (line 945 pushes it
  unchecked). `GetTabById` finds every other entry by its id in that
  browser's strip, at the active index.
* `IterationYieldsEntries`: a range-for over an `AnchorQuery` reads only
  real entries, each once, named ones first, reads them all, and reads
  nothing exactly when `IsEmpty()` holds.
* `CachedGetReturnsCreate`: every `CachedValue::Get` returns `create()`'s
  value for its key, also on a hit through another pointer to an equal
  name.
* `UrlFieldsScrubbed`: a tab object carries the committed URL and title,
  and the pending URL, exactly when the caller may read that page.

Why the bounds are enough:
* The longest member has 5 characters, so 6 characters run past every
  member.
* The fixture graph contains each shape the decoder distinguishes:
  * a chain ending in a return value;
  * an accepting node that also has children;
  * a return value that is not the first child;
  * a return-value node shared by two parents;
  * a private rule on the path to a longer non-private rule (host
    "a.b.a"), which checks that the walk continues past a skipped private
    match.
* NUL has the low bits of return value 0. The character 0xE2 is `'b'` with
  the label-end bit set, and it is negative as a `char`.
* Download bridge: 2 usable addresses for 4 downloads force an address to
  be freed and reused while other callbacks are in flight.
* `OpenTab`: 2 browsers allow a popup or incognito window next to a
  tabbed one, which is what the fallbacks and the cross-window opener
  need; 2 tabs allow an opener and a new tab. Every disjunct of the action
  fires in the run.
* `open_tab_index`: with 2 tab ids a strip holds 0 or 1 tabs when a tab
  is added, so -3, 0 and 2 cover below -1, the front and past the end.
* `TabQueries`: 2 browsers and 3 tab ids give each browser a first tab
  plus one more id, which is a new tab or a prerendered page that may be
  activated into a strip. A strip of 2 tabs can lose its active tab or a
  tab before it, and a browser can empty and linger in BrowserList. A
  fourth id (a prerendered page beside a strip of 3) multiplied the tab
  part by 8 and took the run past its time budget; no check here needs
  both at once, and every mutant of the tab lookups is caught with 3 ids.
  Every browser profile
  assignment is an initial state. The hashes 3 and 13 (the int -3) give
  two groups the same id, and 8 is `INT_MIN` at 4 bits. With three
  tokens an extension sets only orange (the last case of both switches)
  or none: each extra colour multiplies that part by the number of groups
  that can hold it. The colour tables are exercised instead in the
  `colours` part, with one token and every colour, which is all the
  round trip needs.
* `AnchorQuery`: 2 keys per map allow both iteration orders and a rehash;
  2 references make a second insert under a key carry a different one.
* `AnchorCachedValue`: two pointers to equal names make a hit through a
  different pointer possible; distinct results for unequal keys make a
  value served for the wrong key visible.
* `TabObjectScrub`: 2 tabs separate an activeTab grant on one tab from
  the other; 2 origins separate the committed page from the pending one.
  With the "tabs" permission every read is allowed, so the run leaves it
  out.

Joined runs: `MCFixedSetLookups`, `MCTabQueries` (`SpecLookups`) and
`MCAnchor` each put two independent components into one run as a disjoint
union. A variable (`call` or `part`) chosen in `Init` selects the component,
and the other component's variables keep a constant idle value. The state
space is therefore the sum of the two components' state spaces, not their
product. Every property is guarded by that selector.

Fairness and deadlock:
* Deadlock checking is off for `fixed_set_lookups`. It models one call of
  a function that returns, so it really stops.
* The download bridge assumes weak fairness of `JavaAnswers` (the
  `download_bridge` run checks safety and liveness together): Java's answer is a task posted to the UI thread, which the
  message loop eventually runs. Lost answers are not modelled, because the
  JNI call is synchronous within Java's own task.
* No other run assumes fairness.

## 4. Findings

* `open_tab_stray_window`: `OpenTab` may create and show a window (line
  240, or 295-299 for the extension-URL fallback) and then return an
  error (opener not found, URL rejected, opener in another window, locked
  fullscreen). The window stays shown with no tab. `CreateTab` closes a
  browser it created and did not use; `OpenTab` does not.
* `tab_scrub_favicon`: `CreateTabObject` takes `fav_icon_url` from the
  visible entry (line 506). During a browser-initiated navigation, that is
  the pending entry. `ScrubTabForExtension` removes the favicon only by the
  committed URL's permission. An extension that may read only the
  committed origin learns the favicon URL of the pending page, whose
  `pending_url` it does not get.

* `tab_lookup_prerender_profile`: the strip search of `GetTabById`
  accepts the caller's profile and, with incognito allowed, its primary
  off-the-record profile (lines 672-679), and the comment at 711-712 says
  the prerender path does the same. The prerender path tests
  `IsSameOrParent` (line 716), which for a regular profile holds for
  every off-the-record profile. A page prerendered in a secondary
  off-the-record profile is returned to a regular caller.
* `group_id_int_min`: `GetGroupId` returns `std::abs(static_cast<int>(hash))`
  (line 773). For the hash 0x80000000 that is `std::abs(INT_MIN)`,
  undefined behaviour, and `INT_MIN` in the release build: a negative
  group id, while -1 means no group (line 457). At 4 bits the hash 8 gives
  the id -8.

## 5. Plan

Status, in order of importance:
1. Done: the DAFSA core.
2. Done: `OpenTab` and `CreateTab` (`OpenTab`, `BrowserWorld`). The index
   property of the first plan became `ResultDescribesCreatedTab`. WebUI
   callers are left out to keep the run within bounds; they take the same
   paths as a spanning-mode extension except in `PrepareURLForNavigation`.
3. Done: `TabQueries` (`GetTabById` with the prerender path,
   `GetGroupById`, `GetGroupId`, `GetTabStripModel`,
   `GetWindowControllerOfTab`, `IsWebContentsInContext`,
   `GetAllActiveWebContentsForContext`), with browsers that stay in
   BrowserList with an empty strip after their last tab closes. The out-parameter of the prerender path that is not reset
   (line 752) is not reachable from the repository's one caller, which
   passes a null `*contents`.
4. Done as far as it goes: `TabObjectScrub`, with both
   `GetScrubTabBehavior` overloads. The placement fields of the tab object
   are in `TabQueries`. The rest of its fields are copies of other
   components' state (see Not modelled).
5. Done: `DownloadManagerBridge`.
6. Done: `AnchorQuery` and `AnchorCachedValue`.
7. Done: `ColorIdToColor` and `ColorToColorId`, in `TabQueries`, checked
   by the round trip through a group's visual data (`GroupColorRoundTrip`).
8. Done: browsers that stay in BrowserList with an empty strip, and the placement fields of `CreateTabObject`, in `TabQueries`.
9. Done: `CreateTabGroupObject` on visual data, `GetWindowIdOfGroup`,
   `GetWindowId` and `GetWindowIdOfTabStripModel`, in `TabQueries`.

## 6. Not modelled

* `CreateTabGroupObject(id)` (lines 850-866), the overload that starts
  from a token alone: it finds the browser with `FindBrowserWithGroup`
  and calls the other overload on that group's visual data. Its `CHECK`
  that the strip supports groups cannot fail, since a group only exists
  in such a strip.
* The offline DAFSA compiler (`make_dafsa.py`), which is not part of the
  code. The fixture graph is written by hand.
* The variable-width offset encoding. Offsets are abstracted to absolute
  positions.
* `Navigate`, `FindTabbedBrowser` and the window controllers: they are
  outside `src/`, and `BrowserWorld` models what `OpenTab` and `CreateTab`
  rely on (which strip receives the tab, and when no tab is inserted).
* `NavigationController` and `WebContents::GetTitle`: the visible entry
  and the committed title follow content's rules, as stated in
  `TabObjectScrub`.
* Formatting in `ExtensionTabUtil`: error strings, histograms and UTF
  conversions.
* The tab object's fields that copy other components' state (status from
  `GetLoadingStatus`, audible, discarded, auto-discardable, muted info,
  size, incognito, group id from the strip's group model, opener id).
  Each is read from a component outside the repository and copied
  unchanged. Nothing in this file can make one disagree with its source.
* `OpenOptionsPageFromAPI`, `OpenOptionsPage`, `ClearBackForwardCache`,
  `IsTabStripEditable` and `TabIsInSavedTabGroup`. Each finds or creates
  a browser, or loops over browsers, and then hands the decision to a
  callee outside the repository: the window controller, the
  back/forward cache, `BrowserWindow`, or `TabGroupSyncService`. A model
  would check the callee's assumed behaviour, not this file.
* Prerendered pages as openers in `OpenTab`. `OpenTab` passes
  `&opener_browser`, initialised to null, to `GetTabById`. The prerender
  path leaves that out-parameter alone (line 685), so for a prerendered
  opener the same-window check at line 303 is skipped and the opener is
  not set. The comment at lines 342-343 intends exactly that for an
  opener outside the new tab's strip. `OpenTab`'s world holds no
  prerendered pages: they are in `TabQueries`, and adding them to
  `BrowserWorld` would multiply a run that already takes about two
  minutes.
* JNI string conversion in the download bridge.
* The geometry and writing-mode arithmetic of anchor evaluation, and
  every `AnchorEvaluatorImpl` method whose body is in the `.cc` file
  (`Evaluate`, `AccessibilityAnchor`, the scroll-adjustment flags): the
  file is not in the repository. `PhysicalAnchorReference` and
  `LogicalAnchorReference` are data; their list insertion is also in the
  `.cc` file.
