--------------------------- MODULE TabObjectScrub ---------------------------
(***************************************************************************)
(* The privacy scrubbing of the tab object that ExtensionTabUtil hands to  *)
(* an extension (extension_tab_util.cc): GetScrubTabBehaviorImpl, the two  *)
(* GetScrubTabBehavior overloads, the URL, pending URL, title and favicon  *)
(* fields of CreateTabObject, and ScrubTabForExtension.                    *)
(*                                                                         *)
(* The tabs and the extension's grants are the environment.  A tab has a   *)
(* last committed entry and may have a pending entry; navigations start,   *)
(* commit or are cancelled, and the favicon driver marks an entry's       *)
(* favicon valid.  The extension may hold the "tabs" API permission, host  *)
(* permissions on origins, and activeTab grants on single tabs; activeTab  *)
(* is withdrawn when the tab commits a navigation.  A URL is an origin     *)
(* and a path; a field of the tab object holds the URL whose page it       *)
(* describes, which is what a property needs to tell a leak.               *)
(***************************************************************************)
EXTENDS Integers, FiniteSets

CONSTANTS
  Origins,      \* the origins of the pages the tabs show
  Paths,        \* two paths, "/" among them
  Tabs,         \* the tabs (their session ids)
  Extension,    \* the calling extension
  NoExtension,  \* a call with function->extension() == nullptr
  NoUrl,        \* an absent optional field / no pending entry
  NoObject,     \* no tab object built yet
  HasTabsPermission  \* the extension holds the "tabs" API permission

\* mojom::ContextType values that GetScrubTabBehaviorImpl distinguishes.
Contexts == {"kPrivilegedExtension", "kWebUi", "kUntrustedWebUi"}

Urls == [origin : Origins, path : Paths]

\* The callers: an extension's privileged context, a context without an
\* extension, and WebUI and untrusted WebUI pages, which have none.
Callers ==
  {[extension |-> Extension, context |-> "kPrivilegedExtension"]} \cup
  [extension : {NoExtension}, context : Contexts]

\* GURL::DeprecatedGetOriginAsURL: the scheme, host and port, path "/".
OriginAsURL(u) == [origin |-> u.origin, path |-> "/"]

\* GURL(): the empty URL, with no origin.
EmptyGURL == [origin |-> NoUrl, path |-> NoUrl]

VARIABLES
  committed,   \* committed[t]: the last committed URL of tab t
  pending,     \* pending[t]: the pending entry's virtual URL, or NoUrl
  rendererInit,\* rendererInit[t]: the pending navigation is renderer-initiated
  pendingFav,  \* pendingFav[t]: the pending entry's favicon is valid
  hosts,       \* origins the extension has explicit host access to
  granted,     \* tabs on which activeTab granted the tab permission
  last         \* the tab object the step's call returned, with its inputs;
               \* NoObject after a step of the environment

vars == <<committed, pending, rendererInit, pendingFav, hosts, granted, last>>

Init ==
  /\ committed \in [Tabs -> Urls]
  /\ pending = [t \in Tabs |-> NoUrl]
  /\ rendererInit = [t \in Tabs |-> FALSE]
  /\ pendingFav = [t \in Tabs |-> FALSE]
  /\ hosts = {}
  /\ granted = {}
  /\ last = NoObject

-----------------------------------------------------------------------------
(* The content layer (not in the repository).                               *)

\* NavigationController::GetVisibleEntry: a pending entry of a browser-
\* initiated navigation is shown; otherwise the last committed one is.
VisibleEntry(t) ==
  IF pending[t] # NoUrl /\ ~rendererInit[t] THEN "pending" ELSE "committed"

EntryUrl(t, e) == IF e = "pending" THEN pending[t] ELSE committed[t]

\* PermissionsData::HasAPIPermissionForTab(tab_id, kTab): the API
\* permission, or the tab permission activeTab granted on that tab.
HasAPIPermissionForTab(tab_id) == HasTabsPermission \/ tab_id \in granted

\* PermissionsData::HasAPIPermission(kTab): the API permission alone.
HasAPIPermission == HasTabsPermission

TAB_ID_NONE == -1

-----------------------------------------------------------------------------
(* extension_tab_util.cc                                                    *)

\* Lines 151-187.  With no tab id (the URL overload) only the API
\* permission counts; with one, activeTab's grant on that tab counts too.
GetScrubTabBehaviorImpl(extension, context, url, tab_id) ==
  LET api_permission == IF tab_id = TAB_ID_NONE THEN HasAPIPermission
                                                ELSE HasAPIPermissionForTab(tab_id)
  IN  CASE context = "kWebUi" -> "kDontScrubTab"
        [] context = "kUntrustedWebUi" -> "kScrubTabFully"
        [] extension # NoExtension /\ (api_permission \/ url.origin \in hosts)
             -> "kDontScrubTab"
        [] OTHER -> "kScrubTabFully"

\* (mutant: the pending entry is judged by the committed URL)
GetScrubTabBehaviorCommittedOnly(extension, context, t) ==
  LET type == GetScrubTabBehaviorImpl(extension, context, committed[t], t)
  IN  [committed_info |-> type, pending_info |-> type]

\* The overload for a WebContents: the committed URL and the pending
\* entry's virtual URL (an empty GURL when there is none) are judged
\* separately, with the contents' tab id.
GetScrubTabBehavior(extension, context, t) ==
  [committed_info |-> GetScrubTabBehaviorImpl(extension, context, committed[t], t),
   pending_info |-> GetScrubTabBehaviorImpl(extension, context,
                      IF pending[t] # NoUrl THEN pending[t] ELSE EmptyGURL, t)]

\* Lines 582-590: the overload for a bare URL judges it with TAB_ID_NONE
\* and uses the result for both the committed and the pending info.
GetScrubTabBehaviorForUrl(extension, context, url) ==
  LET type == GetScrubTabBehaviorImpl(extension, context, url, TAB_ID_NONE)
  IN  [committed_info |-> type, pending_info |-> type]

\* (mutant: a field is emptied instead of reset)
ScrubbedToEmpty(field, type) ==
  CASE field = NoUrl -> NoUrl
    [] type = "kScrubTabFully" -> EmptyGURL
    [] type = "kScrubTabUrlToOrigin" -> OriginAsURL(field)
    [] OTHER -> field

\* One field under one scrub behaviour: reset, cut to its origin, or kept.
Scrubbed(field, type) ==
  CASE field = NoUrl -> NoUrl
    [] type = "kScrubTabFully" -> NoUrl
    [] type = "kScrubTabUrlToOrigin" -> OriginAsURL(field)
    [] OTHER -> field

\* Lines 598-625.  The title and favicon are reset with the URL and are
\* left alone by kScrubTabUrlToOrigin.
ScrubTabForExtension(tab, behavior) ==
  [tab EXCEPT
     !.url = Scrubbed(@, behavior.committed_info),
     !.title = IF behavior.committed_info = "kScrubTabFully" THEN NoUrl ELSE @,
     !.fav_icon_url = IF behavior.committed_info = "kScrubTabFully" THEN NoUrl ELSE @,
     !.pending_url = Scrubbed(@, behavior.pending_info)]

\* The privacy fields of CreateTabObject, lines 498-509 and 518: the URL
\* is the committed one, the pending URL the pending entry's, the title
\* the committed page's (WebContents::GetTitle keeps the old title while a
\* navigation is pending), and the favicon the visible entry's.
CreateTabObject(t, behavior) ==
  LET visible == VisibleEntry(t)
      tab == [url |-> committed[t],
              pending_url |-> pending[t],
              title |-> committed[t],
              fav_icon_url |-> IF visible = "committed" \/ pendingFav[t]
                                 THEN EntryUrl(t, visible) ELSE NoUrl]
  IN  ScrubTabForExtension(tab, behavior)

\* An API function asks for the tab object of tab t, as OpenTab does at
\* lines 351-359: GetScrubTabBehavior, then CreateTabObject.
QueryTab ==
  \E t \in Tabs, caller \in Callers :
    /\ LET obj == CreateTabObject(t, GetScrubTabBehavior(caller.extension,
                                                         caller.context, t))
       IN  last' = [op |-> "tab", tab |-> t, extension |-> caller.extension,
                    context |-> caller.context,
                    url |-> obj.url, pending_url |-> obj.pending_url,
                    title |-> obj.title, fav_icon_url |-> obj.fav_icon_url]
    /\ UNCHANGED <<committed, pending, rendererInit, pendingFav, hosts, granted>>

\* An API function judges a URL it has without its WebContents, the URL
\* a tab t now shows (as an event about t's navigation does).
QueryUrl ==
  \E t \in Tabs, caller \in Callers :
    /\ last' = [op |-> "url", tab |-> t, extension |-> caller.extension,
                context |-> caller.context, url |-> committed[t],
                behavior |-> GetScrubTabBehaviorForUrl(caller.extension,
                                                       caller.context, committed[t])]
    /\ UNCHANGED <<committed, pending, rendererInit, pendingFav, hosts, granted>>

-----------------------------------------------------------------------------
(* The environment's steps.                                                 *)

StartNavigation ==
  \E t \in Tabs, u \in Urls, renderer \in BOOLEAN :
    /\ pending' = [pending EXCEPT ![t] = u]
    /\ rendererInit' = [rendererInit EXCEPT ![t] = renderer]
    /\ pendingFav' = [pendingFav EXCEPT ![t] = FALSE]
    /\ UNCHANGED <<committed, hosts, granted>>
    /\ last' = NoObject

CommitNavigation ==
  \E t \in Tabs :
    /\ pending[t] # NoUrl
    /\ committed' = [committed EXCEPT ![t] = pending[t]]
    /\ pending' = [pending EXCEPT ![t] = NoUrl]
    /\ rendererInit' = [rendererInit EXCEPT ![t] = FALSE]
    /\ pendingFav' = [pendingFav EXCEPT ![t] = FALSE]
    /\ granted' = granted \ {t}
    /\ UNCHANGED hosts
    /\ last' = NoObject

CancelNavigation ==
  \E t \in Tabs :
    /\ pending[t] # NoUrl
    /\ pending' = [pending EXCEPT ![t] = NoUrl]
    /\ rendererInit' = [rendererInit EXCEPT ![t] = FALSE]
    /\ pendingFav' = [pendingFav EXCEPT ![t] = FALSE]
    /\ UNCHANGED <<committed, hosts, granted>>
    /\ last' = NoObject

\* The favicon driver finds the icon of a pending entry in the favicon
\* cache.  A committed entry is taken to have its icon, which only adds
\* a field for the scrubbing to remove.
FaviconLoaded ==
  \E t \in Tabs :
    /\ pending[t] # NoUrl
    /\ pendingFav' = [pendingFav EXCEPT ![t] = TRUE]
    /\ UNCHANGED <<committed, pending, rendererInit, hosts, granted>>
    /\ last' = NoObject

\* The user invokes the extension on a tab (activeTab), or grants or
\* withdraws an optional host permission.
ChangePermissions ==
  /\ \/ \E t \in Tabs : granted' = granted \cup {t} /\ UNCHANGED hosts
     \/ \E o \in Origins : hosts' = hosts \cup {o} /\ UNCHANGED granted
     \/ \E o \in Origins : hosts' = hosts \ {o} /\ UNCHANGED granted
  /\ UNCHANGED <<committed, pending, rendererInit, pendingFav>>
  /\ last' = NoObject

Next ==
  \/ QueryTab
  \/ QueryUrl
  \/ StartNavigation
  \/ CommitNavigation
  \/ CancelNavigation
  \/ FaviconLoaded
  \/ ChangePermissions

Spec == Init /\ [][Next]_vars

-----------------------------------------------------------------------------
TypeOK ==
  /\ committed \in [Tabs -> Urls]
  /\ pending \in [Tabs -> Urls \cup {NoUrl}]
  /\ pendingFav \in [Tabs -> BOOLEAN]
  /\ hosts \subseteq Origins
  /\ granted \subseteq Tabs
  /\ \/ last = NoObject
     \/ /\ last.op = "tab" /\ last.tab \in Tabs
        /\ {last.url, last.pending_url, last.title, last.fav_icon_url}
             \subseteq Urls \cup {NoUrl}
     \/ /\ last.op = "url" /\ last.tab \in Tabs /\ last.url \in Urls

\* Whether the caller may learn the page at URL u of tab t, by the
\* chrome.tabs documentation: WebUI may, untrusted WebUI may not, and an
\* extension may with the "tabs" permission, activeTab on t, or host
\* access to u's origin.
MayRead(extension, context, t, u) ==
  \/ context = "kWebUi"
  \/ /\ context # "kUntrustedWebUi"
     /\ extension # NoExtension
     /\ (HasTabsPermission \/ t \in granted \/ u.origin \in hosts)

\* When a tab object is built, its URL, title and pending URL each name a
\* page the caller may read at that moment, and none is withheld from a
\* caller that may read it.  A leak needs a pending navigation to an
\* origin the extension has no access to while it has access to the
\* committed one, or an activeTab grant on another tab.
UrlFieldsScrubbed ==
  [][last' # NoObject /\ last'.op = "tab" =>
       LET o == last' IN
       /\ (o.url # NoUrl) = MayRead(o.extension, o.context, o.tab, committed[o.tab])
       /\ (o.title # NoUrl) = (o.url # NoUrl)
       /\ (o.pending_url # NoUrl) =
            (pending[o.tab] # NoUrl
               /\ MayRead(o.extension, o.context, o.tab, pending[o.tab]))]_vars

\* A favicon URL reaches the caller only if it may read the page the icon
\* belongs to.  The icon is the visible entry's, which during a
\* browser-initiated navigation is the pending one, and it is scrubbed by
\* the committed URL's behaviour (the TODO at line 504 notes the entry).
FavIconScrubbed ==
  [][last' # NoObject /\ last'.op = "tab" =>
       LET o == last' IN
       o.fav_icon_url # NoUrl => MayRead(o.extension, o.context, o.tab, o.fav_icon_url)]_vars

=============================================================================
