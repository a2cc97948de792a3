------------------------------ MODULE Archive -------------------------------
(* The archives of lib/ustar.c, and the commands of filesys/fsutil.c that    *)
(* move files between them and the file system, over any number of boots.    *)
(* A sector of the scratch device holds a header, or bytes; which bytes make *)
(* a header is the subject of the first part.                                *)
EXTENDS Integers, Sequences, SequencesExt, FiniteSets, TLC

CONSTANTS NameSize, SizeSize, ChksumSize,   \* sizes of fields of a header
          ULONG_MAX, INT_MAX,
          BLOCK_SECTOR_SIZE, DeviceSize,    \* of the scratch device, in sectors
          Name, Given                       \* Given: archives that a host may leave on it

VARIABLES files,             \* the file system: a function from names to contents
          scratch,           \* the scratch device
          extract_sector,    \* the static variable sector of fsutil_extract
          append_sector,     \* and that of fsutil_append
          panic,
          model,             \* the files that there should be
          sent,              \* what was appended since the machine was booted
          mixed              \* an extract came after an append

vars == <<files, scratch, extract_sector, append_sector, panic, model, sent, mixed>>
-----------------------------------------------------------------------------
(* Headers: a record of fields, each a sequence of character codes. *)

NUL == 0
Space == 32
Dot == 46
Slash == 47
Digit(d) == 48 + d
Magic == 7             \* the sum of the fields with one right value only
REGULAR == 48
DIRECTORY == 53

StartsWith(s, p) == Len(s) >= Len(p) /\ SubSeq(s, 1, Len(p)) = p

RECURSIVE Strip(_)
Strip(s) ==
  IF StartsWith(s, <<Slash>>) \/ StartsWith(s, <<Dot, Slash>>) \/ StartsWith(s, <<Dot, Dot, Slash>>)
    THEN Strip(SubSeq(s, SelectInSeq(s, LAMBDA c : c = Slash) + 1, Len(s)))
    ELSE s

strip_antisocial_prefixes(s) == IF Strip(s) \in {<<>>, <<Dot, Dot>>} THEN <<Dot>> ELSE Strip(s)

(* snprintf of n with "%0<w>o" into a field of w + 1 bytes. *)
Octal(n, w) == [i \in 1 .. w + 1 |-> IF i > w THEN NUL ELSE Digit((n \div 8^(w - i)) % 8)]

Total(s) == FoldLeft(LAMBDA a, b : a + b, 0, s)

calculate_chksum(h) == Total(h.name) + Total(h.size) + h.typeflag + h.magic + h.prefix + ChksumSize * Space

(* The header, or <<>> if the name is too long. *)
ustar_make_header(file_name, type, size) ==
  LET name == strip_antisocial_prefixes(file_name)
      h == [name |-> [i \in 1 .. NameSize |-> IF i <= Len(name) THEN name[i] ELSE NUL],
            size |-> Octal(size, SizeSize - 1), chksum |-> <<>>, typeflag |-> type, magic |-> Magic, prefix |-> NUL]
  IN  IF Len(name) > NameSize - 1 THEN <<>>
      ELSE <<[h EXCEPT !.chksum = Octal(calculate_chksum(h), ChksumSize - 1)]>>

(* The value of an octal field, or -1.  ofs counts the characters read. *)
RECURSIVE OctalFrom(_, _, _)
OctalFrom(s, ofs, value) ==
  IF ofs = Len(s) THEN -1
  ELSE LET c == s[ofs + 1]
       IN  IF c \in Digit(0) .. Digit(7)
             THEN IF value > ULONG_MAX \div 8 THEN -1 ELSE OctalFrom(s, ofs + 1, c - Digit(0) + value * 8)
             ELSE IF c \in {Space, NUL} /\ ofs > 0 THEN value ELSE -1

parse_octal_field(s) == OctalFrom(s, 0, 0)

(* What a header that is not all zeros says, or <<>>. *)
ustar_parse_header(h) ==
  LET size == IF h.typeflag = REGULAR THEN parse_octal_field(h.size) ELSE 0
      end == SelectInSeq(h.name, LAMBDA c : c = NUL)
  IN  IF /\ h.magic = Magic
         /\ parse_octal_field(h.chksum) = calculate_chksum(h)
         /\ h.name[NameSize] = NUL /\ h.prefix = NUL
         /\ h.typeflag \in {REGULAR, DIRECTORY}
         /\ size \in 0 .. INT_MAX
        THEN <<[name |-> strip_antisocial_prefixes(SubSeq(h.name, 1, end - 1)), type |-> h.typeflag, size |-> size]>>
        ELSE <<>>
-----------------------------------------------------------------------------
(* Commands.  They run one after another, so each is one step. *)

Zeros == [i \in 1 .. BLOCK_SECTOR_SIZE |-> 0]
Bytes(data) == [type |-> "data", name |-> "", size |-> 0, data |-> data]
Header(type, name, size) == [type |-> type, name |-> name, size |-> size, data |-> <<>>]
ZeroSector == Bytes(Zeros)
AtMost(n, m) == IF n < m THEN n ELSE m

(* A command's working state: what it changes, its position, and whether it  *)
(* has panicked, as block_read and block_write do past the end.              *)
Panic(s) == [s EXCEPT !.panic = TRUE]

(* The copy loop of fsutil_extract, with size bytes to go. *)
RECURSIVE CopyIn(_, _, _)
CopyIn(s, name, size) ==
  IF size = 0 THEN s
  ELSE IF s.sector >= DeviceSize THEN Panic(s)
  ELSE LET chunk_size == AtMost(size, BLOCK_SECTOR_SIZE)
           pos == Len(s.files[name]) - size
       IN  CopyIn([s EXCEPT !.sector = @ + 1,
                            !.files[name] = [i \in DOMAIN @ |-> IF i \in pos + 1 .. pos + chunk_size
                                                                  THEN s.disk[s.sector].data[i - pos] ELSE @[i]]],
                  name, size - chunk_size)

(* The loop over the headers; fails are the names whose creation fails for   *)
(* want of room.  At the end of the archive its start is erased.             *)
RECURSIVE Extract(_, _)
Extract(s, fails) ==
  IF s.panic \/ s.sector >= DeviceSize THEN Panic(s)
  ELSE LET h == s.disk[s.sector]
           s1 == [s EXCEPT !.sector = @ + 1]
       IN  CASE h = ZeroSector -> [s1 EXCEPT !.disk[0] = ZeroSector, !.disk[1] = ZeroSector]
             [] h.type = "data" /\ h # ZeroSector -> Panic(s1)
             [] h.type = "dir" -> Extract(s1, fails)
             [] h.type = "file" ->
                  IF h.name \in fails \cup DOMAIN s.files THEN Panic(s1)
                  ELSE Extract(CopyIn([s1 EXCEPT !.files = (h.name :> [i \in 1 .. h.size |-> 0]) @@ @],
                                      h.name, h.size), fails)

Put(s, sector) == IF s.sector >= DeviceSize THEN Panic(s)
                  ELSE [s EXCEPT !.disk[s.sector] = sector, !.sector = @ + 1]

(* The copy loop of fsutil_append. *)
RECURSIVE CopyOut(_, _)
CopyOut(s, content) ==
  IF content = <<>> \/ s.panic THEN s
  ELSE LET chunk_size == AtMost(Len(content), BLOCK_SECTOR_SIZE)
           data == [i \in 1 .. BLOCK_SECTOR_SIZE |-> IF i <= chunk_size THEN content[i] ELSE 0]
       IN  CopyOut(Put(s, Bytes(data)), SubSeq(content, chunk_size + 1, Len(content)))

(* Both sectors of the end marker go to the same place, and the second one   *)
(* is taken from buffer + 1: its last byte is what follows buffer in the     *)
(* heap.                                                                     *)
AppendTo(s, name, beyond) ==
  LET s1 == CopyOut(Put(s, Header("file", name, Len(s.files[name]))), s.files[name])
      s2 == IF s1.panic THEN s1 ELSE Put(s1, Bytes([Zeros EXCEPT ![BLOCK_SECTOR_SIZE] = beyond]))
  IN  [s2 EXCEPT !.sector = s1.sector]
-----------------------------------------------------------------------------
(* What the sectors from i on contain: the files up to the first sector that *)
(* is no header.                                                             *)
RECURSIVE Decode(_, _)
Decode(disk, i) ==
  IF i >= DeviceSize \/ disk[i].type = "data" THEN <<>>
  ELSE IF disk[i].type = "dir" THEN Decode(disk, i + 1)
  ELSE LET n == (disk[i].size + BLOCK_SECTOR_SIZE - 1) \div BLOCK_SECTOR_SIZE
           data == FlattenSeq([k \in 1 .. n |-> IF i + k < DeviceSize THEN disk[i + k].data ELSE <<>>])
       IN  <<[name |-> disk[i].name, content |-> SubSeq(data, 1, AtMost(disk[i].size, Len(data)))]>>
             \o Decode(disk, i + 1 + n)

AsFiles(archive) ==
  [n \in {archive[i].name : i \in DOMAIN archive} |-> (CHOOSE i \in 1 .. Len(archive) : archive[i].name = n)]

Contents(archive) == [n \in DOMAIN AsFiles(archive) |-> archive[AsFiles(archive)[n]].content]

Init ==
  /\ files = <<>> /\ model = <<>>
  /\ scratch \in Given
  /\ extract_sector = 0 /\ append_sector = 0
  /\ panic = FALSE /\ sent = <<>> /\ mixed = FALSE

fsutil_extract ==
  \E fails \in SUBSET Name :
    LET s == Extract([files |-> files, disk |-> scratch, sector |-> extract_sector, panic |-> FALSE], fails)
    IN  /\ ~panic
        /\ files' = s.files /\ scratch' = s.disk /\ extract_sector' = s.sector /\ panic' = s.panic
        /\ model' = Contents(Decode(scratch, extract_sector)) @@ model
        /\ mixed' = (sent # <<>>)
        /\ UNCHANGED <<append_sector, sent>>

fsutil_append ==
  \E name \in DOMAIN files, beyond \in {0, 1} :
    LET s == AppendTo([files |-> files, disk |-> scratch, sector |-> append_sector, panic |-> FALSE], name, beyond)
    IN  /\ ~panic
        /\ scratch' = s.disk /\ append_sector' = s.sector /\ panic' = s.panic
        /\ sent' = Append(sent, [name |-> name, content |-> files[name]])
        /\ UNCHANGED <<files, extract_sector, model, mixed>>

(* fsutil_cat, fsutil_rm and fsutil_append of a file that is not there. *)
NoFile == ~panic /\ panic' = TRUE
          /\ UNCHANGED <<files, scratch, extract_sector, append_sector, model, sent, mixed>>

fsutil_rm ==
  \E name \in DOMAIN files :
    /\ ~panic
    /\ files' = [n \in DOMAIN files \ {name} |-> files[n]]
    /\ model' = [n \in DOMAIN model \ {name} |-> model[n]]
    /\ UNCHANGED <<scratch, extract_sector, append_sector, panic, sent, mixed>>

(* The machine is booted again, with the scratch device as it was or with a  *)
(* new archive on it.                                                        *)
Boot ==
  /\ scratch' \in Given \cup {scratch}
  /\ extract_sector' = 0 /\ append_sector' = 0 /\ panic' = FALSE
  /\ model' = files /\ sent' = <<>> /\ mixed' = FALSE
  /\ UNCHANGED files

Next == fsutil_extract \/ fsutil_append \/ NoFile \/ fsutil_rm \/ Boot
-----------------------------------------------------------------------------
(* Unless a command panics, extraction puts exactly the files of the archive *)
(* into the file system and leaves an empty archive, so that it can be done  *)
(* again, and what was appended since the machine was booted lies from the   *)
(* start of the scratch device on, each file's header and contents in their  *)
(* order.  (An extract after an append erases the start of the archive: the  *)
(* comment of fsutil_append asks for the other order.)  Nothing is said of   *)
(* the end of the archive: where the comment has "two consecutive sectors    *)
(* full of zeros", fsutil_append leaves one, whose last byte may be any, and *)
(* if it is not zero fsutil_extract panics there.                            *)
ArchiveKept ==
  ~panic =>
    /\ files = model
    /\ extract_sector > 0 /\ sent = <<>> => scratch[0] = ZeroSector /\ scratch[1] = ZeroSector
    /\ sent # <<>> /\ ~mixed => Decode(scratch, 0) = sent

(* Reading a header gives what it was made from; a header of which one byte  *)
(* has changed is refused or means the same; and names that come out of an   *)
(* archive lead nowhere above the directory they are extracted in.           *)
HeaderIsRight(name, type, size) ==
  LET made == ustar_make_header(name, type, size)
      stripped == strip_antisocial_prefixes(name)
      read == [name |-> stripped, type |-> type, size |-> IF type = REGULAR THEN size ELSE 0]
      Damaged(h) ==
        {[h EXCEPT !.name[i] = c] : i \in 1 .. NameSize, c \in {NUL, Dot, Slash, 97}}
        \cup {[h EXCEPT !.size[i] = c] : i \in 1 .. SizeSize, c \in {NUL, Space} \cup (Digit(0) .. Digit(8))}
        \cup {[h EXCEPT !.chksum[i] = c] : i \in 1 .. ChksumSize, c \in {NUL, Space} \cup (Digit(0) .. Digit(8))}
        \cup {[h EXCEPT !.typeflag = c] : c \in 48 .. 55} \cup {[h EXCEPT !.prefix = 97], [h EXCEPT !.magic = 8]}
  IN  /\ stripped \notin {<<>>, <<Dot, Dot>>} /\ stripped[1] # Slash
      /\ ~StartsWith(stripped, <<Dot, Slash>>) /\ ~StartsWith(stripped, <<Dot, Dot, Slash>>)
      /\ (made = <<>>) = (Len(stripped) >= NameSize)
      /\ made # <<>> => /\ ustar_parse_header(made[1]) = <<read>>
                        /\ \A d \in Damaged(made[1]) : ustar_parse_header(d) \in {<<>>, <<read>>}

(* An octal field has the value of its digits, unless that is too large.     *)
OctalIsRight(digits) ==
  LET value == FoldLeft(LAMBDA a, d : 8 * a + d, 0, digits)
      field == [i \in 1 .. Len(digits) + 1 |-> IF i > Len(digits) THEN NUL ELSE Digit(digits[i])]
  IN  parse_octal_field(field) = IF digits # <<>> /\ value <= ULONG_MAX THEN value ELSE -1
=============================================================================
