----------------------------- MODULE DafsaGraph -----------------------------
(***************************************************************************)
(* GraphDecoder of net/base/lookup_string_in_fixed_set: how a position of  *)
(* the compiled DAFSA byte graph is read.  Only the header of this code is *)
(* under src/; the decoder is modelled from the spec (section 4.1), which  *)
(* leaves the byte layout to a self-consistent encoder/decoder pair.  The  *)
(* layout modelled here:                                                   *)
(*   - a label byte carries a character in its low seven bits and, in its  *)
(*     high bit, whether it is the last byte of its label;                 *)
(*   - a label-ending byte whose character is below 0x20 is a return       *)
(*     value (result code), which is why only input >= 0x20 can match;     *)
(*   - an offset list names the child nodes of a node, in list order.  The *)
(*     variable-width relative offsets are abstracted to absolute child    *)
(*     positions.                                                          *)
(* The graph is a sequence of cells; a position is an index into it and 0  *)
(* stands for the empty span of an exhausted lookup.                       *)
(***************************************************************************)
EXTENDS Integers, Sequences

CONSTANT Graph

Positions  == 1 .. Len(Graph)
NoPosition == 0

\* The high bit of a label byte marks the last character of the label.
IsEOL(b) == b >= 128

\* The character a label byte stands for.
LabelChar(b) == b % 128

IsMatch(b, input) == LabelChar(b) = input

\* A label-ending byte below 0x80 + 0x20 encodes a return value.
IsReturnValue(b) == IsEOL(b) /\ LabelChar(b) < 32

\* (mutant: the label-end bit left in the result code)
GetReturnValueRaw(b) == b

GetReturnValue(b) == LabelChar(b)

\* The child positions named by the offset list at position p.
Children(p) == Graph[p].to

(***************************************************************************)
(* What the offline compiler guarantees of every graph it emits (spec 3,   *)
(* 4.1): offsets stay in the buffer, a child is a label or return-value    *)
(* byte, and the graph is acyclic (every offset points forward).           *)
(***************************************************************************)
WellFormedGraph ==
  /\ Len(Graph) >= 1
  /\ Graph[1].kind = "offsets"
  /\ \A p \in Positions :
        \/ Graph[p].kind = "byte" /\ Graph[p].val \in 0 .. 255
        \/ /\ Graph[p].kind = "offsets"
           /\ \A i \in DOMAIN Graph[p].to :
                 /\ Graph[p].to[i] \in Positions
                 /\ Graph[p].to[i] > p
                 /\ Graph[Graph[p].to[i]].kind = "byte"

ASSUME WellFormedGraph
=============================================================================
