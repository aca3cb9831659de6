----------------------------- MODULE DtbWriteMC -----------------------------
(***************************************************************************)
(* Small device trees and the edits that are made of them.                 *)
(***************************************************************************)
EXTENDS DtbWrite, TLC

Lengths ==
  "" :> 0 @@ "chosen" :> 6 @@ "a" :> 1 @@ "b" :> 3 @@ "long" :> 256 @@ "bootargs" :> 8
  @@ "args" :> 4 @@ "linux,initrd-start" :> 18 @@ "linux,initrd-end" :> 16 @@ "x" :> 1

\* Records one behind the other.
Place(records, at) ==
  LET start[k \in 1..(Len(records) + 1)] ==
        IF k = 1 THEN at ELSE start[k - 1] + RecordLength(records[k - 1])
  IN [size |-> start[Len(records) + 1] - at,
      blob |-> [o \in {start[k] : k \in DOMAIN records} |->
                  records[CHOOSE k \in DOMAIN records : start[k] = o]]]

\* A blob with a structure block, a gap, strings, and the ends of strings that
\* properties point at.
Source(structure, gap, strings, ends, isSound) ==
  LET s == Place(structure, HeaderSize + 16)
      at == HeaderSize + 16 + s.size + gap
      t == Place([k \in DOMAIN strings |-> Str(strings[k])], at)
  IN [blob |-> s.blob @@ t.blob
               @@ [o \in {at + e : e \in DOMAIN ends} |-> Str(ends[o - at])],
      header |-> [magic |-> TRUE, version |-> 17, total_size |-> at + t.size,
                  off_mem_rsvmap |-> HeaderSize, off_dt_struct |-> HeaderSize + 16,
                  size_dt_struct |-> s.size, off_dt_strings |-> at, size_dt_strings |-> t.size],
      sound |-> isSound]

NoEnds == [e \in {} |-> e]

Empty == <<BeginNode(""), EndNode, End>>

\* /chosen in front of another node, with an old command line.
WithChosen ==
  <<BeginNode(""), Prop(5, 0, "old"), BeginNode("chosen"), Prop(3, 2, "old"), Nop,
    BeginNode("b"), Prop(0, 0, "old"), EndNode, EndNode, Nop, BeginNode("a"), EndNode, EndNode, End>>

\* /chosen behind another node, an initrd already in it, and a property named
\* by the end of a string.
WithInitrd ==
  <<BeginNode(""), Nop, Prop(4, 13, "old"), BeginNode("a"), BeginNode("chosen"), EndNode, EndNode,
    BeginNode("chosen"), Prop(8, 18, "old"), Prop(20, 9, "old"), EndNode, EndNode, End>>

SoundSources ==
  {Source(Empty, 0, <<>>, NoEnds, TRUE),
   Source(WithChosen, 4, <<"x", "bootargs">>, NoEnds, TRUE),
   Source(WithInitrd, 0, <<"a", "chosen", "bootargs", "linux,initrd-start">>, 13 :> "args", TRUE)}

Unsound ==
  {Source(<<BeginNode(""), End>>, 0, <<>>, NoEnds, FALSE),
   Source(<<BeginNode(""), Prop(4, 7, "old"), EndNode, End>>, 0, <<"x">>, NoEnds, FALSE),
   [Source(Empty, 0, <<"bootargs">>, NoEnds, FALSE) EXCEPT !.header.size_dt_strings = 20,
                                                          !.header.total_size = 200]}

\* Headers that are refused.
BadHeaders ==
  LET s == Source(Empty, 0, <<"x">>, NoEnds, FALSE)
  IN {[s EXCEPT !.header.magic = FALSE], [s EXCEPT !.header.version = 16],
      [s EXCEPT !.header.total_size = HeaderSize - 1],
      [s EXCEPT !.header.off_mem_rsvmap = 1000],
      [s EXCEPT !.header.off_dt_struct = 0], [s EXCEPT !.header.off_dt_strings = 0],
      [s EXCEPT !.header.size_dt_struct = 1000], [s EXCEPT !.header.size_dt_strings = 1000]}

AllSources == SoundSources \cup Unsound \cup BadHeaders

AllRequests ==
  {update_device_tree(TRUE, 5), update_device_tree(FALSE, 255), update_device_tree(FALSE, 256),
   <<CreateNode(<<"", "a", "b">>)>>, <<CreateNode(<<"", "chosen", "long">>)>>,
   <<CreateNode(<<"chosen">>)>>, <<CreateNode(RootPath)>>,
   <<SetProperty(RootPath, "x", 9, "new"), SetProperty(RootPath, "x", 4, "newer")>>,
   <<SetProperty(<<"", "a">>, "args", 0, "new")>>,
   <<SetProperty(<<"", "b", "">>, "args", 0, "new")>>,
   <<SetString(Chosen, "linux,initrd-start", 2, "text")>>}

\* Two of these requests fit into the room that boot asks for.
ASSUME RequestsFit == EditsFit
=============================================================================
