-------------------------- MODULE MCProgramContainer --------------------------
(***************************************************************************)
(* Containers for ProgramContainer: constants with a static part, without  *)
(* one and without any other, a network.elf that was converted before, and *)
(* a container without constants.                                          *)
(***************************************************************************)
EXTENDS ProgramContainer

HandleSet == {1, 2}
HomeOf    == [h \in HandleSet |-> 10000 + 1000 * h]
FlatBuffer == [d \in {"m"} |-> "fb of m"]

Sections3  == <<[name |-> "text", data |-> "t"], [name |-> Metadata, data |-> "m"],
                [name |-> "rodata", data |-> "r"]>>
Sections4  == <<Sections3[1], Sections3[2], [name |-> MetadataFb, data |-> "old"], Sections3[3]>>

Content(name, sections, static, dynamic) ==
  [name |-> name, sections |-> sections, static |-> static, dynamic |-> dynamic]

Body(name, sections, static, size) ==
  Slice(Content(name, IF name = "networkElf" THEN sections ELSE <<>>, static, size - static), 0,
        CASE name = "networkElf" -> 10 + Len(sections)
          [] name = "constants"  -> size
          [] OTHER               -> 5)

\* The segments of the names, with the names and the data at multiples of 20.
Container(names, sections, static, size, d) ==
  LET body(i) == Body(names[i], sections, static, size) IN
  [mem  |-> Block([o \in {20 * i : i \in DOMAIN names} |-> names[o \div 20]],
                  [o \in {400 + 20 * i : i \in DOMAIN names} |-> body((o - 400) \div 20)]),
   segs |-> [i \in DOMAIN names |->
               [name |-> 1000 + 20 * i, start |-> 1400 + 20 * i, size |-> body(i).len,
                offset |-> IF names[i] = "constants" THEN static ELSE 0]],
   desc |-> d]

Tensor(t, dims) == [type |-> t, dims |-> dims]
Transform(kind, t, dims, num, offset) ==
  [kind |-> kind, type |-> t, dims |-> dims, buffer_num |-> num, offset |-> offset]
Copy(t, dims, num, offset) == Transform(CopyDMABufferTransform, t, dims, num, offset)

\* An input that is quantized by the library and one that is only copied, an
\* output that is converted back, and a network whose buffers are not moved.
Description ==
  [inputs  |-> <<[name |-> "a", io_initial |-> Tensor("FloatTy", <<2, 3>>),
                  io_transformed |-> Tensor("Int8QTy", <<2, 3>>),
                  transformseq |-> <<Transform("QuantizeTransform", "Int8QTy", <<2, 3>>, 0, 0),
                                     Copy("Int8QTy", <<2, 3>>, 0, 0)>>,
                  partial |-> FALSE],
                 [name |-> "", io_initial |-> Tensor("Int64ITy", <<0, 2>>),
                  io_transformed |-> Tensor("Int64ITy", <<0, 2>>),
                  transformseq |-> <<Copy("Int64ITy", <<2>>, 0, 8)>>, partial |-> TRUE]>>,
   outputs |-> <<[name |-> "o", io_initial |-> Tensor("Int8QTy", <<4>>),
                  io_transformed |-> Tensor("FloatTy", <<4>>),
                  transformseq |-> <<Copy("Int8QTy", <<4>>, 1, 0),
                                     Transform("DequantizeTransform", "FloatTy", <<4>>, 0, 0)>>,
                  partial |-> FALSE]>>,
   dma_buffers |-> <<[size |-> 24, dir |-> In], [size |-> 4, dir |-> Out]>>,
   allowed_shapes |-> <<>>]

PlainDescription ==
  [Description EXCEPT !.inputs = <<[@[1] EXCEPT !.transformseq = <<>>]>>, !.outputs = <<>>]

All   == <<"networkElf", "networkDesc", "constantsDesc", "constants", "metadataCRC", "constantsCRC">>
NoCRC == SubSeq(All, 1, 4)
Compilers ==
  {Container(All, Sections3, 3, 8, Description), Container(NoCRC, Sections4, 0, 8, Description),
   Container(<<"constants", "constantsDesc", "networkElf", "networkDesc">>, Sections3, 8, 8,
             PlainDescription),
   Container(<<"networkElf", "constantsDesc", "networkDesc">>, Sections3, 0, 0, PlainDescription),
   Container(<<"networkElf", "constantsDesc">>, Sections3, 0, 0, PlainDescription)}

=============================================================================
