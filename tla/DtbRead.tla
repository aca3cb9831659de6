------------------------------- MODULE DtbRead -------------------------------
(***************************************************************************)
(* The device-tree reader (dtb_read.rs): nodes, properties and strings of  *)
(* a flattened device tree.                                                *)
(*                                                                         *)
(* The blob maps the byte offset of every record to what it holds: tokens  *)
(* with the name or the property behind them, and the strings, including   *)
(* the ends of longer ones that a property may point at.  An offset that   *)
(* is no record's reads as junk.  Names and values stand for themselves    *)
(* and have a length in bytes.                                             *)
(***************************************************************************)
EXTENDS Integers, Sequences

CONSTANTS
  HeaderSize,  \* FDT_HEADER_SIZE (40)
  LengthOf     \* bytes of a name, without its zero

ASSUME HeaderAssumption ==
  /\ HeaderSize \in Nat
  /\ \A n \in DOMAIN LengthOf : LengthOf[n] \in Nat

VARIABLES
  blob,    \* records by byte offset
  header   \* FdtHeader

-----------------------------------------------------------------------------
None == -1
Bad == -2

BeginNode(name) == [kind |-> "begin", name |-> name]
EndNode == [kind |-> "end_node"]
Prop(length, nameoff, value) ==
  [kind |-> "prop", length |-> length, nameoff |-> nameoff, value |-> value]
Nop == [kind |-> "nop"]
End == [kind |-> "end"]
Str(name) == [kind |-> "string", name |-> name]
Junk == [kind |-> "junk"]

align4(n) == ((n + 3) \div 4) * 4

StructEnd(h) == h.off_dt_struct + h.size_dt_struct
StringsEnd(h) == h.off_dt_strings + h.size_dt_strings

\* Fdt::from_ptr.
HeaderError(h) ==
  IF ~h.magic THEN "BadMagic"
  ELSE IF h.version < 17 THEN "UnsupportedVersion"
  ELSE IF h.total_size < HeaderSize THEN "InvalidHeader"
  ELSE IF h.off_mem_rsvmap > h.total_size THEN "Truncated"
  ELSE IF \/ h.off_dt_struct < HeaderSize \/ StructEnd(h) > h.total_size
          \/ h.off_dt_strings < HeaderSize \/ StringsEnd(h) > h.total_size
       THEN "InvalidHeader"
  ELSE "none"

\* The record at an offset of the structure block.
TokenAt(o) ==
  IF o \in 0..(header.size_dt_struct - 1) /\ header.off_dt_struct + o \in DOMAIN blob
  THEN blob[header.off_dt_struct + o] ELSE Junk

\* The string at an offset of the strings block.
string_at(o) ==
  IF o \in 0..(header.size_dt_strings - 1) /\ header.off_dt_strings + o \in DOMAIN blob
  THEN blob[header.off_dt_strings + o] ELSE Junk

IsNamed(p, name) ==
  LET s == string_at(p.nameoff) IN s.kind = "string" /\ s.name = name

after_begin_node(o) == align4(o + 4 + LengthOf[TokenAt(o).name] + 1)

after_property(o) ==
  LET value_end == o + 12 + TokenAt(o).length
  IN IF value_end > header.size_dt_struct THEN None ELSE align4(value_end)

\* Offset of the FDT_END_NODE that matches the FDT_BEGIN_NODE at begin.
node_end_offset(begin) ==
  LET end[at \in Int \X Int] ==
        LET o == at[1]
            depth == at[2]
            t == TokenAt(o)
        IN CASE t.kind = "begin" -> end[<<after_begin_node(o), depth + 1>>]
             [] t.kind = "end_node" -> IF depth = 0 THEN None
                                       ELSE IF depth = 1 THEN o ELSE end[<<o + 4, depth - 1>>]
             [] t.kind = "prop" -> IF after_property(o) = None THEN None
                                   ELSE end[<<after_property(o), depth>>]
             [] t.kind = "nop" -> end[<<o + 4, depth>>]
             [] OTHER -> None
  IN end[<<begin, 0>>]

NoNode == [begin |-> None, end |-> None]

node_at_offset(o) ==
  IF TokenAt(o).kind # "begin" \/ node_end_offset(o) = None THEN NoNode
  ELSE [begin |-> o, end |-> node_end_offset(o)]

root_node == node_at_offset(0)

\* Mutant: the search goes on inside the first child.
find_child_nested(parent, name) ==
  LET from[o \in Int] ==
        LET t == TokenAt(o)
        IN IF o = None \/ o >= parent.end THEN NoNode
           ELSE CASE t.kind = "prop" -> from[after_property(o)]
                  [] t.kind = "nop" -> from[o + 4]
                  [] t.kind = "begin" -> IF t.name = name THEN node_at_offset(o)
                                         ELSE from[after_begin_node(o)]
                  [] OTHER -> NoNode
  IN from[after_begin_node(parent.begin)]

\* find_child with the loop of for_each_child.
find_child(parent, name) ==
  LET from[o \in Int] ==
        LET t == TokenAt(o)
            child == node_at_offset(o)
        IN IF o = None \/ o >= parent.end THEN NoNode
           ELSE CASE t.kind = "prop" -> from[after_property(o)]
                  [] t.kind = "nop" -> from[o + 4]
                  [] t.kind = "begin" -> IF child = NoNode \/ t.name = name THEN child
                                         ELSE from[child.end + 4]
                  [] OTHER -> NoNode
  IN from[after_begin_node(parent.begin)]

\* A path is what its text splits into at "/": an absolute one starts with "".
IsAbsolute(path) == path # <<>> /\ path[1] = ""
RootPath == <<"", "">>

find_node(path) ==
  LET at[k \in 1..Len(path)] ==
        IF k = 1 THEN root_node
        ELSE IF at[k - 1] = NoNode \/ path[k] = "" THEN NoNode
        ELSE find_child(at[k - 1], path[k])
  IN IF path = RootPath THEN root_node
     ELSE IF ~IsAbsolute(path) THEN NoNode
     ELSE at[Len(path)]

\* Value and length of a property, or Junk.
get_property(node, name) ==
  LET from[o \in Int] ==
        LET t == TokenAt(o)
        IN IF o >= node.end THEN Junk
           ELSE CASE t.kind = "prop" ->
                       IF string_at(t.nameoff).kind # "string" THEN Junk
                       ELSE IF ~IsNamed(t, name) THEN from[align4(o + 12 + t.length)]
                       ELSE IF o + 12 + t.length > header.size_dt_struct THEN Junk ELSE t
                  [] t.kind = "nop" -> from[o + 4]
                  [] OTHER -> Junk
  IN from[after_begin_node(node.begin)]
=============================================================================
