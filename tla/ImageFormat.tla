----------------------------- MODULE ImageFormat -----------------------------
(***************************************************************************)
(* The bytes of a volume image: a header, one record per file (a fixed     *)
(* part and two strings, each after its length), and the compressed files. *)
(* What Serializer writes, where PackVolumeInternal places it, and what    *)
(* MountVolume and Serializer make of it.                                  *)
(*                                                                         *)
(* A byte is a cell that says which field of which file it belongs to and  *)
(* which byte of the field it is.  The lengths are constants, so that small*)
(* ones can be checked; 32-bit fields are numbers modulo Word.             *)
(***************************************************************************)
EXTENDS Integers, SequencesExt

CONSTANTS
    Files,         \* files that can be packed
    NameLen,       \* [Files -> Nat]: bytes of file_name
    DataLen,       \* [Files -> Nat]: compressed_size
    SuffixLen,     \* what compressed_file_name adds to the name (".zst")
    HeaderLen,     \* VOLUME_METADATA_SIZE (56)
    FixedLen,      \* the fixed part of a record of version 2 (51)
    LengthLen,     \* the length in front of a string (4)
    VolumeSize,    \* volume_size_
    Word,          \* 2^32
    NoFile         \* the "file" of a byte of the header

ASSUME LengthsAssumption ==
    /\ NameLen \in [Files -> Nat] /\ DataLen \in [Files -> Nat]
    /\ SuffixLen \in Nat /\ HeaderLen \in Nat
    /\ FixedLen \in Nat \ {0} /\ LengthLen \in Nat \ {0}
    /\ VolumeSize \in Nat /\ Word \in Nat \ {0}
    /\ NoFile \notin Files

CURRENT_VERSION == 2

\* Version 1 has no compression_algorithm.
FixedLenOf(version) == IF version >= 2 THEN FixedLen ELSE FixedLen - 1

\* What a byte can be: of the header, of a field of a file, or nobody's.
FieldNames == {"fixed", "length1", "name", "length2", "compressed_name", "data"}
Cells == ({"header", "hole"} \X {NoFile} \X Nat) \cup (FieldNames \X Files \X Nat)

Field(part, f, n) == [k \in 1..n |-> <<part, f, k>>]

EncodeHeader == Field("header", NoFile, HeaderLen)
EncodeData(f) == Field("data", f, DataLen[f])

SerializeFileMetadata(f, version) ==
    Field("fixed", f, FixedLenOf(version))
      \o Field("length1", f, LengthLen) \o Field("name", f, NameLen[f])
      \o Field("length2", f, LengthLen) \o Field("compressed_name", f, NameLen[f] + SuffixLen)

Records(files, version) ==
    FlattenSeq([k \in DOMAIN files |-> SerializeFileMetadata(files[k], version)])
UserData(files) == FlattenSeq([k \in DOMAIN files |-> EncodeData(files[k])])

\* An image as it should be, whatever the width of its fields.
ReferenceImage(files, version) ==
    EncodeHeader \o Records(files, version) \o UserData(files)

-----------------------------------------------------------------------------
\* The layout a pack computes, in 32-bit arithmetic.
UserDataOffset(files, version) == (HeaderLen + Len(Records(files, version))) % Word

OffsetInVolume(files, version, k) ==
    (UserDataOffset(files, version) + Len(UserData(SubSeq(files, 1, k - 1)))) % Word

VolumeMetadata(files, version) ==
    [version |-> version,
     metadata_offset |-> HeaderLen,
     metadata_size |-> Len(Records(files, version)) % Word,
     directory_offset |-> UserDataOffset(files, version),
     directory_size |-> 0,
     user_data_offset |-> UserDataOffset(files, version),
     user_data_size |-> Len(UserData(files)) % Word,
     volume_size |-> VolumeSize,
     file_count |-> Len(files) % Word]

\* Magic number and volume id are right in every header that was written whole.
ValidateVolumeMetadata(m) ==
    /\ m.version \in 1..CURRENT_VERSION
    /\ m.metadata_offset >= HeaderLen
    /\ m.directory_offset >= (m.metadata_offset + m.metadata_size) % Word
    /\ m.user_data_offset >= (m.directory_offset + m.directory_size) % Word
    /\ m.user_data_offset + m.user_data_size <= m.volume_size

-----------------------------------------------------------------------------
Bytes(bytes, pos, n) == SubSeq(bytes, pos + 1, pos + n)

\* The stream is still good after a read of n bytes at pos.
Good(bytes, pos, n) == pos + n <= Len(bytes)

\* Mutant: the fixed part of a record has one length.
FileMetaFixedSizeNew(version) == FixedLen

FileMetaFixedSize(version) == IF version >= 2 THEN FixedLen ELSE FixedLen - 1

\* MountVolume and DeserializeFileMetadata on the record at pos.  The first string's
\* length is found after the fixed part; it belongs to some file f, and the rest of
\* the record is read with the lengths of f.  Fields that are not where they are looked
\* for are "garbled": whatever comes of them.
ParseRecord(bytes, pos, version) ==
    LET strings == pos + FileMetaFixedSize(version)
        f == bytes[strings + 1][2]
        size == FileMetaFixedSize(version) + 2 * LengthLen + 2 * NameLen[f] + SuffixLen
    IN IF ~Good(bytes, strings, LengthLen) THEN [code |-> "short"]
       ELSE IF bytes[strings + 1] # <<"length1", f, 1>> THEN [code |-> "garbled"]
       ELSE IF ~Good(bytes, pos, size) THEN [code |-> "short"]
       ELSE IF Bytes(bytes, pos, size) # SerializeFileMetadata(f, version)
            THEN [code |-> "garbled"]
       ELSE [code |-> "record", file |-> f, end |-> pos + size]

\* The header: file_count and the offsets are those of the image it was written for.
ParseHeader(bytes) ==
    IF ~Good(bytes, 0, HeaderLen) THEN "short"
    ELSE IF Bytes(bytes, 0, HeaderLen) # EncodeHeader THEN "garbled"
    ELSE "header"
=============================================================================
