------------------------------- MODULE Lzwhat -------------------------------
(***************************************************************************)
(* The compressor of example/lzwhat/main.cc, the repository's user of      *)
(* BitArray and DynArray together: lzwhat_compress writes literals and     *)
(* references to the bytes it has passed, lzwhat_decompress reads them     *)
(* back through a ring of the last bytes it has written.  Both loops take  *)
(* one token per step.                                                     *)
(*                                                                         *)
(* The bit array is the sequence of its bits: push_back, set_byte and      *)
(* get_byte put and take bits lowest first (BitArray, WritesExactly and    *)
(* ReadsExact).  A number is the set of the positions of its ones, as the  *)
(* numbers of 64 bits are beyond TLC's integers.                           *)
(***************************************************************************)
EXTENDS Integers, Sequences, FiniteSetsExt

CONSTANTS Letters,     \* the bytes of the inputs
          MaxInput,    \* a bound on the length of the inputs
          DictSize,    \* dict_size
          EncodeSize   \* encode_buffer_size

ByteBits == 8
GroupBits == 7

(* A distance has to fit in one group (see VarintExact).                   *)
ASSUME LzwhatAssumption ==
  /\ Letters \subseteq 0 .. 2 ^ ByteBits - 1 /\ MaxInput \in Nat
  /\ DictSize \in 2 .. 2 ^ GroupBits - 1 /\ EncodeSize \in Nat

VARIABLES buf,        \* the input
          i,          \* compress: the byte it has come to; decompress: the bit
          bit_array,  \* the compressed stream
          data_out, dict, cur_dict_index,
          pc          \* the loop that runs, or how it ended

vars == <<buf, i, bit_array, data_out, dict, cur_dict_index, pc>>
-----------------------------------------------------------------------------
(* Numbers in the stream. *)
Low(width) == 0 .. width - 1
Number(n) == {k \in Low(GroupBits + 1) : (n \div 2 ^ k) % 2 = 1}
Value(number) == MapThenSumSet(LAMBDA k : 2 ^ k, number)

(* The bits of a number from the one at a position on, and back.           *)
Bits(number, from, width) ==
  [k \in 1 .. width |-> IF from + k - 1 \in number THEN 1 ELSE 0]
Zeros(n) == [k \in 1 .. n |-> 0]
NumberAt(bits, at, width) == {k \in Low(width) : bits[at + k + 1] = 1}

(* lzwhat_encode_varint64: a prefix that tells how many groups follow, and *)
(* the groups, lowest first.  The seventh group of seven is written over   *)
(* the prefix; after eight groups come seven more bits, a zero, and a bit  *)
(* that is not written, as are those junk stands for.                      *)
Prefix(groups) == <<1>> \o Zeros(groups - 1)
GroupsOf_OneShort(number) ==
  Min({m \in 1 .. 8 : number \subseteq Low(GroupBits * m) /\ number # Low(GroupBits * m)}
        \cup {9})
GroupsOf(number) == Min({m \in 1 .. 8 : number \subseteq Low(GroupBits * m)} \cup {9})

EncodeVarint(number, junk) ==
  LET m == GroupsOf(number)
  IN CASE m \in {1, 2, 3, 4, 5, 6, 8} -> Prefix(m) \o Bits(number, 0, m * GroupBits)
       [] m = 7 -> Bits(number, 6 * GroupBits, GroupBits)
                     \o Bits(number, 0, 6 * GroupBits) \o Bits(junk, 0, GroupBits)
       [] m = 9 -> Zeros(8) \o Bits(number, 0, 9 * GroupBits) \o <<0>> \o Bits(junk, 0, 1)

(* lzwhat_decode_varint64: zeros up to the first one, at most eight; then  *)
(* the groups, highest first; after eight zeros a last byte replaces them. *)
LeadingZeros(bits, at) ==
  Max({z \in 0 .. 8 : at + z <= Len(bits) /\ \A k \in 1 .. z : bits[at + k] = 0})

ReadGroups(bits, at, groups) ==
  UNION {{k + GroupBits * (groups - 1 - g) : k \in NumberAt(bits, at + g * GroupBits, GroupBits)} :
           g \in 0 .. groups - 1}

DecodeVarint(bits, at) ==
  LET z == LeadingZeros(bits, at)
      first == at + (IF z = 8 THEN 8 ELSE z + 1)
      end == first + (IF z = 8 THEN 8 * GroupBits + 8 ELSE (z + 1) * GroupBits)
  IN IF end > Len(bits) THEN [ok |-> FALSE]
     ELSE [ok |-> TRUE, at |-> end,
           data |-> IF z = 8 THEN NumberAt(bits, end - 8, 8)
                    ELSE ReadGroups(bits, first, z + 1)]
-----------------------------------------------------------------------------
Inputs == UNION {[1 .. n -> Letters] : n \in 0 .. MaxInput}

Init ==
  /\ buf \in Inputs /\ i = 0 /\ pc = "compress"
  /\ bit_array = <<>> /\ data_out = <<>>
  /\ dict = [k \in 0 .. DictSize - 1 |-> 0] /\ cur_dict_index = 0

(* Any push, resize or encoding may find no memory. *)
NoMemory ==
  /\ pc \in {"compress", "decompress"} /\ pc' = "no_memory"
  /\ UNCHANGED <<buf, i, bit_array, data_out, dict, cur_dict_index>>

(* lzwhat_compress. *)
SearchSize_All == i
SearchSize == IF i < DictSize THEN i ELSE DictSize
MatchSize == Min({EncodeSize, Len(buf) - i})

(* The bytes len long at off_start of the search buffer are those to come. *)
Matches(off_start, len) ==
  \A k \in 1 .. len : buf[i - SearchSize + off_start + k] = buf[i + k]
OffStarts_UpToEnd(len) == 0 .. SearchSize - len
OffStarts(len) == 0 .. SearchSize - len - 1
References ==
  {<<off_start, len>> \in (0 .. DictSize) \X (1 .. Min({SearchSize, MatchSize})) :
     off_start \in OffStarts(len) /\ Matches(off_start, len)}
(* The longest, and of those the one that begins first. *)
Best(r) == \A s \in References : s[2] < r[2] \/ (s[2] = r[2] /\ s[1] >= r[1])

Emit(bits, len) ==
  /\ bit_array' = bit_array \o bits /\ i' = i + len
  /\ UNCHANGED <<buf, data_out, dict, cur_dict_index, pc>>

CompressReference ==
  /\ pc = "compress" /\ i < Len(buf)
  /\ \E r \in References :
       /\ Best(r)
       /\ Emit(<<0>> \o EncodeVarint(Number(SearchSize - r[1]), {})
                    \o EncodeVarint(Number(r[2]), {}), r[2])

CompressByte ==
  /\ pc = "compress" /\ i < Len(buf) /\ References = {}
  /\ Emit(<<1>> \o Bits(Number(buf[i + 1]), 0, ByteBits), 1)

Compressed ==
  /\ pc = "compress" /\ i >= Len(buf)
  /\ pc' = "decompress" /\ i' = 0
  /\ UNCHANGED <<buf, bit_array, data_out, dict, cur_dict_index>>

(* lzwhat_decompress.  The ring: calc_dict_index, copy_to_dict and         *)
(* copy_from_dict, which wrap around once.                                 *)
DictIndex(at, delta) == IF at + delta >= DictSize THEN at + delta - DictSize ELSE at + delta
CopyToDict_Cut(at, bytes) ==
  [k \in DOMAIN dict |-> IF k - at \in 0 .. Len(bytes) - 1 THEN bytes[k - at + 1] ELSE dict[k]]
CopyToDict(at, bytes) ==
  [k \in DOMAIN dict |->
     LET n == IF k >= at THEN k - at ELSE k + DictSize - at
     IN IF n < Len(bytes) THEN bytes[n + 1] ELSE dict[k]]
CopyFromDict(at, len) == [k \in 1 .. len |-> dict[DictIndex(at, k - 1)]]

Output(bytes, at) ==
  /\ data_out' = data_out \o bytes
  /\ dict' = CopyToDict(cur_dict_index, bytes)
  /\ cur_dict_index' = DictIndex(cur_dict_index, Len(bytes))
  /\ i' = at
  /\ UNCHANGED <<buf, bit_array, pc>>

Stop(how) == pc' = how /\ UNCHANGED <<buf, i, bit_array, data_out, dict, cur_dict_index>>

DecompressByte ==
  /\ pc = "decompress" /\ i < Len(bit_array) /\ bit_array[i + 1] = 1
  /\ IF i + 1 + ByteBits > Len(bit_array) THEN Stop("aborted")
     ELSE Output(<<Value(NumberAt(bit_array, i + 1, ByteBits))>>, i + 1 + ByteBits)

DecompressReference ==
  /\ pc = "decompress" /\ i < Len(bit_array) /\ bit_array[i + 1] = 0
  /\ LET disp == DecodeVarint(bit_array, i + 1)
         len == DecodeVarint(bit_array, disp.at)
         back == Value(disp.data)
         n == Value(len.data)
         from == DictIndex(cur_dict_index, DictSize - back)
     IN CASE ~disp.ok -> Stop("failed")
          [] disp.ok /\ back > DictSize -> Stop("aborted")
          [] disp.ok /\ back <= DictSize /\ ~len.ok -> Stop("failed")
          [] OTHER ->
               IF back = 0 \/ n >= DictSize THEN Stop("aborted")
               ELSE Output(CopyFromDict(from, n), len.at)

Decompressed == pc = "decompress" /\ i >= Len(bit_array) /\ Stop("done")

Next == \/ NoMemory \/ CompressReference \/ CompressByte \/ Compressed
        \/ DecompressByte \/ DecompressReference \/ Decompressed

(* One thread runs the two loops. *)
Spec == Init /\ [][Next]_vars /\ WF_vars(Next)
-----------------------------------------------------------------------------
(* Properties. *)

(* What is decompressed is the input: no wrong byte on the way, nothing    *)
(* missing or left over at the end, and no assertion or error stops the    *)
(* decompressor on a stream the compressor wrote.                          *)
RoundTrip ==
  /\ pc \notin {"failed", "aborted"}
  /\ Len(data_out) <= Len(buf) /\ data_out = SubSeq(buf, 1, Len(data_out))
  /\ pc = "done" => data_out = buf

(* The ring holds the last bytes of the output, ending before              *)
(* cur_dict_index, also when a copy wrapped around: distances mean the     *)
(* same to the compressor, which looks back in the input.                  *)
WindowExact ==
  \A k \in 1 .. Min({Len(data_out), DictSize}) :
    dict[(cur_dict_index - k) % DictSize] = data_out[Len(data_out) + 1 - k]

(* Of the numbers written behind a stream, those of one group come back,   *)
(* with the stream left where they end, and no others, unless the bits that*)
(* are not written happen to help (of 2 ^ 48 + 64, the seventh group, all  *)
(* of the prefix, makes seven groups be read, in reverse; it comes back if *)
(* the unwritten one holds 64): the prefix of a longer number is written   *)
(* with its lowest bit, the one, first.  The samples are the numbers around*)
(* the powers of two at which the encoding changes, and those that have    *)
(* two ones, the higher of them in the first, the seventh or the ninth     *)
(* group.                                                                  *)
Samples ==
  {Low(GroupBits * m) : m \in 0 .. 9} \cup {Low(64)}
    \cup {{k} : k \in Low(64)} \cup {{0, GroupBits * m} : m \in 1 .. 9}
    \cup {{k, j} : k \in Low(GroupBits), j \in {6, 48, 62}}
ComesBack(number, junk) ==
  LET bits == bit_array \o EncodeVarint(number, junk)
  IN DecodeVarint(bits, Len(bit_array)) = [ok |-> TRUE, at |-> Len(bits), data |-> number]
VarintExact ==
  pc = "done" =>
    \A number \in Samples :
      (\A junk \in {{}, {6}, Low(GroupBits)} : ComesBack(number, junk))
        <=> number \subseteq Low(GroupBits)

(* Both loops end. *)
Finishes == <>(pc \in {"done", "no_memory"})
=============================================================================
