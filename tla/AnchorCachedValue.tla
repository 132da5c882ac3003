------------------------- MODULE AnchorCachedValue -------------------------
(***************************************************************************)
(* AnchorEvaluatorImpl::CachedValue<KeyType, ValueType> of                *)
(* third_party/blink/renderer/core/layout/anchor_evaluator_impl.h, lines  *)
(* 398-442: a single-entry cache whose Get(key, create) returns the       *)
(* stored value when the key equals the stored key, and otherwise stores  *)
(* the key and create()'s result.  The evaluator holds three of them:     *)
(*   "area"   keyed by std::optional<PositionAreaOffsets>, compared with  *)
(*            operator== (the Equals(const T&, const T&) overload);       *)
(*   "anchor" and "layer" keyed by const ScopedCSSName*, compared with    *)
(*            base::ValuesEquivalent (the Equals overload for pointers):  *)
(*            equal pointers, or both non-null with equal                 *)
(*            pointees.                                                    *)
(* The creation functions (PositionAreaModifiedContainingBlock,           *)
(* DefaultAnchor, DefaultAnchorScrollContainerLayer) live outside this    *)
(* header; they read only fields the evaluator never changes, so each is  *)
(* a fixed function Create[c] of its key, assumed to give equal results   *)
(* for keys the cache's Equals calls equal.                               *)
(***************************************************************************)
EXTENDS Integers, FiniteSets

CONSTANTS
    Offsets,      \* PositionAreaOffsets values
    NoOffsets,    \* std::nullopt, the default-constructed optional key
    NamePtrs,     \* non-null ScopedCSSName pointers
    Null,         \* nullptr, the default-constructed pointer key
    Pointee,      \* [NamePtrs -> the ScopedCSSName each points to]
    Values,       \* cached results (rects, layout objects, paint layers)
    NoValue,      \* an empty std::optional<ValueType>
    Create        \* [Caches -> [key -> Values]], the creation function

Caches == {"area", "anchor", "layer"}

(* The key type of each cache and its default value KeyType key_{}. *)
Keys(c) == IF c = "area" THEN Offsets \cup {NoOffsets} ELSE NamePtrs \cup {Null}
DefaultKey(c) == IF c = "area" THEN NoOffsets ELSE Null

(* base::ValuesEquivalent(a, b). *)
ValuesEquivalent(a, b) ==
    \/ a = b
    \/ a # Null /\ b # Null /\ Pointee[a] = Pointee[b]

(* The two Equals overloads, lines 405-413. *)
Equals(c, a, b) == IF c = "area" THEN a = b ELSE ValuesEquivalent(a, b)

ASSUME \A c \in Caches : \A a, b \in Keys(c) :
            Equals(c, a, b) => Create[c][a] = Create[c][b]

VARIABLES
    key_,    \* [Caches -> the stored key]
    value_,  \* [Caches -> the stored value, or NoValue]
    last     \* the result of the last Get, for properties

vars == <<key_, value_, last>>

NoResult == [op |-> "none"]

(* The hit condition, line 418. *)
IsHit(c, key) == value_[c] # NoValue /\ Equals(c, key_[c], key)

(* The miss path, lines 422-423: store the key and the created value. *)
RefillKeepKey(c, key) ==
    /\ value_' = [value_ EXCEPT ![c] = Create[c][key]]
    /\ UNCHANGED key_
Refill(c, key) ==
    /\ key_' = [key_ EXCEPT ![c] = key]
    /\ value_' = [value_ EXCEPT ![c] = Create[c][key]]

Init ==
    /\ key_ = [c \in Caches |-> DefaultKey(c)]
    /\ value_ = [c \in Caches |-> NoValue]
    /\ last = NoResult

(* CachedValue::Get(key, create), lines 417-425. *)
Get(c, key) ==
    \/ /\ IsHit(c, key)
       /\ last' = [op |-> "Get", cache |-> c, key |-> key, hit |-> TRUE,
                   value |-> value_[c]]
       /\ UNCHANGED <<key_, value_>>
    \/ /\ ~IsHit(c, key)
       /\ Refill(c, key)
       /\ last' = [op |-> "Get", cache |-> c, key |-> key, hit |-> FALSE,
                   value |-> value_'[c]]

Next == \E c \in Caches : \E k \in Keys(c) : Get(c, k)

Spec == Init /\ [][Next]_vars

-----------------------------------------------------------------------------
(* Every Get returns what create() would return for its key, the claim   *)
(* of the comment at lines 398-400 and of DCHECK_EQ at line 419: a hit   *)
(* on a key stored by an earlier Get, possibly a different pointer to an *)
(* equal name, never returns a value created for some other key.         *)
GetStepReturnsCreate ==
    last'.op = "Get" => last'.value = Create[last'.cache][last'.key]
=============================================================================
