------------------------------ MODULE MCAnchor ------------------------------
(***************************************************************************)
(* The two stateful parts of anchor_evaluator_impl.h, each in behaviours  *)
(* of its own: an AnchorQuery (`part` = "query") or the CachedValue       *)
(* members of one AnchorEvaluatorImpl (`part` = "cache").  They share no  *)
(* state, so the state space is the sum of the two.                       *)
(*                                                                         *)
(* Query: two anchor names, two layout objects and two references, enough *)
(* for both maps to hold two entries in either order and for a second     *)
(* insert under a key to carry a different reference.                     *)
(* Caches: two offsets values; three name pointers of which p1 and p2     *)
(* point to equal names, so that a hit can come from a different pointer; *)
(* three results, Create giving different results to unequal keys so that *)
(* a value returned for the wrong key is visible.                         *)
(***************************************************************************)
EXTENDS TLC

CONSTANTS n1, n2, o1, o2, r1, r2, Null,
          off1, off2, NoOffsets, p1, p2, p3, nameA, nameB, v1, v2, v3, NoValue

VARIABLES
  part,
  named_anchors_, implicit_anchors_, namedOrder, implicitOrder,
  it, loop, visited, last,
  key_, value_, clast

qvars == <<named_anchors_, implicit_anchors_, namedOrder, implicitOrder,
           it, loop, visited, last>>
cvars == <<key_, value_, clast>>

MCNames == {n1, n2}
MCObjects == {o1, o2}
MCReferences == {r1, r2}
MCPointee == (p1 :> nameA) @@ (p2 :> nameA) @@ (p3 :> nameB)
MCCreate ==
  [c \in {"area", "anchor", "layer"} |->
     IF c = "area"
       THEN (NoOffsets :> v1) @@ (off1 :> v2) @@ (off2 :> v3)
       ELSE (Null :> v1) @@ (p1 :> v2) @@ (p2 :> v2) @@ (p3 :> v3)]

Q == INSTANCE AnchorQuery
       WITH Names <- MCNames, Objects <- MCObjects, References <- MCReferences

C == INSTANCE AnchorCachedValue
       WITH Offsets <- {off1, off2}, NamePtrs <- {p1, p2, p3},
            Pointee <- MCPointee, Values <- {v1, v2, v3}, Create <- MCCreate,
            last <- clast

QIdle == /\ named_anchors_ = "idle" /\ implicit_anchors_ = "idle"
         /\ namedOrder = "idle" /\ implicitOrder = "idle" /\ it = "idle"
         /\ loop = "idle" /\ visited = "idle" /\ last = Q!NoResult
CIdle == key_ = "idle" /\ value_ = "idle" /\ clast = C!NoResult

Init ==
  \/ part = "query" /\ Q!Init /\ CIdle
  \/ part = "cache" /\ C!Init /\ QIdle

QueryStep(A) == part = "query" /\ A /\ UNCHANGED <<part, cvars>>
CacheStep(A) == part = "cache" /\ A /\ UNCHANGED <<part, qvars>>

Next ==
  \/ QueryStep(\E k \in Q!AnchorKey, r \in MCReferences : Q!Insert(k, r))
  \/ QueryStep(\E k \in Q!AnchorKey : Q!Lookup(k))
  \/ QueryStep(Q!BeginLoop)
  \/ QueryStep(Q!LoopStep)
  \/ QueryStep(Q!LoopExit)
  \/ CacheStep(\E c \in C!Caches : \E k \in C!Keys(c) : C!Get(c, k))

Spec == Init /\ [][Next]_<<part, qvars, cvars>>

\* Keys and references are opaque pointers: renaming them is sound.
MCSymmetry == Permutations(MCNames) \cup Permutations(MCObjects)
              \cup Permutations(MCReferences)

\* The query's maps, iteration orders and iterator keep their types, and
\* the iterator never moves past end() (AnchorQuery's TypeOK).
TypeOK == part = "query" => Q!TypeOK

\* A range-for over the query reads only real entries, each once, named
\* ones first, reads them all, and reads nothing exactly when IsEmpty().
IterationYieldsEntries == part = "query" => Q!IterationYieldsEntries

\* Every CachedValue::Get returns create()'s value for its key.
CachedGetReturnsCreate == [][C!GetStepReturnsCreate]_<<part, qvars, cvars>>
=============================================================================
