------------------------------ MODULE MCOpenTab ------------------------------
EXTENDS OpenTab

\* Two windows and two tabs: enough for a popup holding the opener and the
\* tabbed window Navigate moves the new tab to, or an incognito window and
\* the regular one an extension URL falls back to.
MCMaxBrowsers == 2
MCMaxTabs == 2
\* A spanning extension, and a split-mode extension that also
\* has the devtools permission and file access.
MCCallers == {"spanning", "split"}
MCSplitMode == {"split"}
MCDevtoolsPermitted == {"split"}
MCFileAccess == {"split"}
MCIndexes == {1}
MCUrls == {"none", "relative", "ext", "javascript"}
MCUserWindowTypes == {"normal", "popup"}
\* For the index clamp: an index below -1, the front, and one past the end
\* of a strip of one tab; the default URL only.
MCIndexesClamp == {-3, 0, 2}
MCUrlsClamp == {"none"}
=============================================================================
