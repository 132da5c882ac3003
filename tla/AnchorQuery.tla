---------------------------- MODULE AnchorQuery ----------------------------
(***************************************************************************)
(* AnchorQueryBase<AnchorReference> of                                    *)
(* third_party/blink/renderer/core/layout/anchor_evaluator_impl.h: one    *)
(* query made of two hash maps, named_anchors_ keyed by ScopedCSSName     *)
(* pointers and implicit_anchors_ keyed by LayoutObject pointers, with    *)
(* insert (which never overwrites), GetAnchorReference, IsEmpty and an    *)
(* Iterator that walks the named map and then the implicit map.           *)
(*                                                                         *)
(* A map is a total function to References \cup {Null}; Null marks an    *)
(* absent key, as find() == end() does.  The iteration order of a hash    *)
(* map is not specified: each map carries a sequence of its keys in that  *)
(* order, and an insert that adds a key may rehash, so it takes any order *)
(* of the new key set.  An iterator is a pair of positions, one per map,  *)
(* with Len + 1 standing for end().  A range-for over the query is        *)
(* modelled step by step (begin(), then operator!=, operator* and         *)
(* operator++ per element) with no insert while it runs, since an insert  *)
(* invalidates HashMap iterators; an insert after a finished loop starts *)
(* from an idle one.                                                       *)
(***************************************************************************)
EXTENDS Integers, Sequences, SequencesExt

CONSTANTS
    Names,       \* ScopedCSSName pointers, keys of named_anchors_
    Objects,     \* LayoutObject pointers, keys of implicit_anchors_
    References,  \* AnchorReference pointers stored as values
    Null         \* nullptr; also marks a key absent from a map

ASSUME Names \cap Objects = {} /\ Null \notin References

VARIABLES
    named_anchors_,    \* [Names -> References \cup {Null}]
    implicit_anchors_, \* [Objects -> References \cup {Null}]
    namedOrder,        \* the keys of named_anchors_ in iteration order
    implicitOrder,     \* the keys of implicit_anchors_ in iteration order
    it,                \* the range-for's Iterator: [named, implicit] positions
    loop,              \* "idle", "running" or "done"
    visited,           \* the Entry values the running range-for has read
    last               \* the result of the last insert/lookup, for properties

vars == <<named_anchors_, implicit_anchors_, namedOrder, implicitOrder,
          it, loop, visited, last>>

AnchorKey == Names \cup Objects
NoResult == [op |-> "none"]

Present(map) == {k \in DOMAIN map : map[k] # Null}

(* GetAnchorReference(anchors, key), lines 134-138: find, or nullptr. *)
FindIn(anchors, key) == anchors[key]

(* GetAnchorReference(const AnchorKey&), lines 51-58: the variant's      *)
(* alternative selects the map.                                            *)
GetAnchorReference(key) ==
    IF key \in Names THEN FindIn(named_anchors_, key)
                     ELSE FindIn(implicit_anchors_, key)

(* IsEmpty(), lines 47-49. *)
IsEmptyNamedOnly == Present(named_anchors_) = {}
IsEmpty == Present(named_anchors_) = {} /\ Present(implicit_anchors_) = {}

(* insert(anchors, key, reference), lines 140-146: HashMap::insert keeps  *)
(* an existing value and reports is_new_entry; a new key may rehash.      *)
(* It is a relation on (map, order) pairs: the map's insert.              *)
HashMapSet(anchors, key, reference) == [anchors EXCEPT ![key] = reference]
HashMapInsert(anchors, key, reference) ==
    IF anchors[key] = Null THEN [anchors EXCEPT ![key] = reference]
                           ELSE anchors

(* The iteration orders an insert may leave the map in. *)
OrdersAfter(anchors, order) ==
    IF Present(anchors) = Range(order) THEN {order}
                                       ELSE SetToSeqs(Present(anchors))

(* Iterator, lines 74-123.  NamedEnd/ImplicitEnd are the end() positions. *)
NamedEnd == Len(namedOrder) + 1
ImplicitEnd == Len(implicitOrder) + 1
Begin == [named |-> 1, implicit |-> 1]
End == [named |-> NamedEnd, implicit |-> ImplicitEnd]

(* operator==, lines 99-103. *)
IterEqualImplicitOnly(a, b) == a.implicit = b.implicit
IterEqual(a, b) == a.named = b.named /\ a.implicit = b.implicit

(* operator*, lines 93-97: an Entry <<key, value>>. *)
Deref(i) ==
    IF i.named # NamedEnd
    THEN <<namedOrder[i.named], named_anchors_[namedOrder[i.named]]>>
    ELSE <<implicitOrder[i.implicit], implicit_anchors_[implicitOrder[i.implicit]]>>

(* operator++, lines 105-111. *)
IncrementNamedAlways(i) == [i EXCEPT !.named = @ + 1]
Increment(i) ==
    IF i.named # NamedEnd THEN [i EXCEPT !.named = @ + 1]
                          ELSE [i EXCEPT !.implicit = @ + 1]

-----------------------------------------------------------------------------
Init ==
    /\ named_anchors_ = [k \in Names |-> Null]
    /\ implicit_anchors_ = [k \in Objects |-> Null]
    /\ namedOrder = <<>>
    /\ implicitOrder = <<>>
    /\ it = Begin
    /\ loop = "idle"
    /\ visited = <<>>
    /\ last = NoResult

(* insert(const AnchorKey&, reference), lines 65-72 with 140-146. *)
Insert(key, reference) ==
    /\ loop # "running"
    /\ \/ /\ key \in Names
          /\ named_anchors_' = HashMapInsert(named_anchors_, key, reference)
          /\ namedOrder' \in OrdersAfter(named_anchors_', namedOrder)
          /\ UNCHANGED <<implicit_anchors_, implicitOrder>>
       \/ /\ key \in Objects
          /\ implicit_anchors_' = HashMapInsert(implicit_anchors_, key, reference)
          /\ implicitOrder' \in OrdersAfter(implicit_anchors_', implicitOrder)
          /\ UNCHANGED <<named_anchors_, namedOrder>>
    /\ last' = [op |-> "insert", key |-> key, reference |-> reference,
                before |-> GetAnchorReference(key),
                stored_value |-> GetAnchorReference(key)',
                is_new_entry |-> GetAnchorReference(key) = Null]
    /\ loop' = "idle"
    /\ visited' = <<>>
    /\ UNCHANGED it

(* A lookup through GetAnchorReference(const AnchorKey&). *)
Lookup(key) ==
    /\ last' = [op |-> "get", key |-> key, result |-> GetAnchorReference(key)]
    /\ UNCHANGED <<named_anchors_, implicit_anchors_, namedOrder,
                   implicitOrder, it, loop, visited>>

(* for (auto entry : query): begin(). *)
BeginLoop ==
    /\ loop # "running"
    /\ it' = Begin
    /\ loop' = "running"
    /\ visited' = <<>>
    /\ last' = NoResult
    /\ UNCHANGED <<named_anchors_, implicit_anchors_, namedOrder, implicitOrder>>

(* One loop iteration: it != end(), *it, ++it. *)
LoopStep ==
    /\ loop = "running"
    /\ ~IterEqual(it, End)
    /\ visited' = Append(visited, Deref(it))
    /\ it' = Increment(it)
    /\ last' = NoResult
    /\ UNCHANGED <<named_anchors_, implicit_anchors_, namedOrder,
                   implicitOrder, loop>>

(* The loop condition fails: it == end(). *)
LoopExit ==
    /\ loop = "running"
    /\ IterEqual(it, End)
    /\ loop' = "done"
    /\ last' = NoResult
    /\ UNCHANGED <<named_anchors_, implicit_anchors_, namedOrder,
                   implicitOrder, it, visited>>

Next ==
    \/ \E k \in AnchorKey, r \in References : Insert(k, r)
    \/ \E k \in AnchorKey : Lookup(k)
    \/ BeginLoop
    \/ LoopStep
    \/ LoopExit

Spec == Init /\ [][Next]_vars

-----------------------------------------------------------------------------
TypeOK ==
    /\ named_anchors_ \in [Names -> References \cup {Null}]
    /\ implicit_anchors_ \in [Objects -> References \cup {Null}]
    /\ Range(namedOrder) = Present(named_anchors_) /\ IsInjective(namedOrder)
    /\ Range(implicitOrder) = Present(implicit_anchors_)
    /\ IsInjective(implicitOrder)
    /\ it \in [named : 1..NamedEnd, implicit : 1..ImplicitEnd]
    /\ loop \in {"idle", "running", "done"}

(* The entries of the query in the order the code's Iterator defines:    *)
(* every named entry in its map's order, then every implicit entry.      *)
Entries ==
    [i \in 1..Len(namedOrder) |-> <<namedOrder[i], named_anchors_[namedOrder[i]]>>]
    \o [i \in 1..Len(implicitOrder) |->
            <<implicitOrder[i], implicit_anchors_[implicitOrder[i]]>>]

(* A range-for over the query (begin(), end(), operator!=, operator* and *)
(* operator++ of Iterator) reads only real entries, each once, the named *)
(* ones first; when it stops it has read them all, and it reads nothing  *)
(* exactly when IsEmpty() holds.                                          *)
IterationYieldsEntries ==
    /\ loop # "idle" => IsPrefix(visited, Entries)
    /\ loop = "done" => /\ visited = Entries
                        /\ (visited = <<>>) = IsEmpty

=============================================================================
