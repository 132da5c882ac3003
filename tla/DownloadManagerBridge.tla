------------------------ MODULE DownloadManagerBridge ------------------------
(***************************************************************************)
(* The JNI bridge of download_manager_bridge.cc.                            *)
(*                                                                         *)
(* AddCompletedDownload moves the caller's callback to the heap and passes *)
(* its address to Java as a jlong.  Java answers later on the UI thread    *)
(* through OnAddCompletedDownloadDone, which takes the address back into a *)
(* unique_ptr, runs the callback and frees it.  The heap is a function     *)
(* from addresses to the download whose callback lives there; the Java     *)
(* side is the set of requests it still owes an answer.  RemoveCompleted-  *)
(* Download only calls Java and keeps no C++ state; it is an action on the *)
(* Java side's list of downloads.                                          *)
(***************************************************************************)
EXTENDS Naturals, FiniteSets

CONSTANTS
  Downloads,    \* the DownloadItems handed to the bridge
  Addresses,    \* heap addresses, the null address among them
  NullAddress,  \* the address 0, never returned by new
  NoDownload    \* what a free address holds

VARIABLES
  heap,       \* heap[a]: the download whose callback lives at a, or NoDownload
  java,       \* the [cb, dl] requests Java still has to answer
  added,      \* downloads AddCompletedDownload was called for
  runs,       \* runs[d]: how often d's callback has run
  javaList    \* downloads in the Android download list

vars == <<heap, java, added, runs, javaList>>

Init ==
  /\ heap = [a \in Addresses |-> NoDownload]
  /\ java = {}
  /\ added = {}
  /\ runs = [d \in Downloads |-> 0]
  /\ javaList = {}

\* (mutant: the null address counts as free)
FreeAddressesWithNull == {a \in Addresses : heap[a] = NoDownload}

\* Addresses `new` may return: any non-null one that holds no live object.
FreeAddresses == {a \in Addresses \ {NullAddress} : heap[a] = NoDownload}

\* (mutant: the callback is allocated but the call into Java is skipped)
AddCompletedDownloadNoJavaCall(d) ==
  /\ d \notin added
  /\ \E a \in FreeAddresses : heap' = [heap EXCEPT ![a] = d]
  /\ added' = added \cup {d}
  /\ UNCHANGED <<java, runs, javaList>>

\* `new AddCompletedDownloadCallback(std::move(callback))`, then the call
\* into Java with the address as callback_id.  The file name, MIME type,
\* path, size, URLs and GUID are passed by value and are not modelled.
AddCompletedDownload(d) ==
  /\ d \notin added
  /\ \E a \in FreeAddresses :
       /\ heap' = [heap EXCEPT ![a] = d]
       /\ java' = java \cup {[cb |-> a, dl |-> d]}
  /\ added' = added \cup {d}
  /\ UNCHANGED <<runs, javaList>>

\* Java adds the download to the system list and answers with the id the
\* list gave it.  The answer is a JNI call on the UI thread.
\* (mutant: the unique_ptr is released instead of freeing the callback)
OnAddCompletedDownloadDoneNoFree(callback_id) ==
  LET d == heap[callback_id] IN
  /\ runs' = [runs EXCEPT ![d] = @ + 1]
  /\ UNCHANGED heap

\* DCHECK(callback_id); take ownership; std::move(*cb).Run(download_id);
\* the unique_ptr frees the callback at the end of the scope.
OnAddCompletedDownloadDone(callback_id) ==
  LET d == heap[callback_id] IN
  /\ callback_id # NullAddress
  /\ runs' = [runs EXCEPT ![d] = @ + 1]
  /\ heap' = [heap EXCEPT ![callback_id] = NoDownload]

JavaAnswers ==
  \E m \in java :
    /\ java' = java \ {m}
    /\ javaList' = javaList \cup {m.dl}
    /\ OnAddCompletedDownloadDone(m.cb)
    /\ UNCHANGED added

\* Java_DownloadManagerBridge_removeCompletedDownload(guid, externally
\* removed): the download leaves the Android list.
RemoveCompletedDownload(d) ==
  /\ d \in added
  /\ javaList' = javaList \ {d}
  /\ UNCHANGED <<heap, java, added, runs>>

Next ==
  \/ \E d \in Downloads : AddCompletedDownload(d)
  \/ JavaAnswers
  \/ \E d \in Downloads : RemoveCompletedDownload(d)

\* Java's answer is a posted task on the UI thread, which eventually runs.
Spec == Init /\ [][Next]_vars /\ WF_vars(JavaAnswers)

-----------------------------------------------------------------------------
TypeOK ==
  /\ heap \in [Addresses -> Downloads \cup {NoDownload}]
  /\ java \subseteq [cb : Addresses \ {NullAddress}, dl : Downloads]
  /\ added \subseteq Downloads
  /\ runs \in [Downloads -> Nat]
  /\ javaList \subseteq Downloads

\* Ownership of every callback passed through JNI: a download that was
\* handed to AddCompletedDownload either has its callback alive at exactly
\* one address that exactly one outstanding Java request names, and has not
\* run, or has run exactly once and holds no heap object and no request.
\* Breaking it needs two downloads in flight, or an answer and a new call.
CallbackOwnership ==
  \A d \in added :
    LET at == {a \in Addresses : heap[a] = d}
        owed == {m \in java : m.dl = d}
    IN  \/ /\ runs[d] = 0
           /\ Cardinality(at) = 1
           /\ owed = {[cb |-> CHOOSE a \in at : TRUE, dl |-> d]}
        \/ /\ runs[d] = 1
           /\ at = {}
           /\ owed = {}

\* Every callback handed to AddCompletedDownload eventually runs, provided
\* Java answers each call.
CallbackEventuallyRuns ==
  \A d \in Downloads : (d \in added) ~> (runs[d] = 1)
=============================================================================
