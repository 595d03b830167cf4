----------------------------- MODULE ByteClaims -----------------------------
(***************************************************************************)
(* The claims judged by the bytes alone: addresses are translated through   *)
(* the section table (reverify/binary.py) and the bytes compared            *)
(* (bytes_at, u16_at and its like, pattern_present, string_present in       *)
(* reverify/verifier.py).                                                   *)
(*                                                                          *)
(* An image is [data, sections, base, parsed]: data[i + 1] is the byte at   *)
(* file offset i; a section is [va, vsize, offset, raw].                    *)
(***************************************************************************)
EXTENDS Integers, FiniteSets, Sequences, SequencesExt

IsImage(image) ==
  /\ image.data \in Seq(Nat) /\ image.base \in Nat /\ image.parsed \in BOOLEAN
  /\ image.sections \in Seq([va : Nat, vsize : Nat, offset : Nat, raw : Nat])

Nowhere == -99        \* no file offset: None in the code
Wild == -1           \* "??" in a pattern

Larger(a, b) == IF a > b THEN a ELSE b

\* data[from : from + n], as far as there are bytes
Slice(data, from, n) ==
  SubSeq(data, from + 1, IF from + n < Len(data) THEN from + n ELSE Len(data))

-----------------------------------------------------------------------------
(***************************************************************************)
(* Address translation.                                                     *)
(***************************************************************************)
\* The positions of the sections that count: ELF sections that are not
\* mapped report address 0.
Loaded(image) == {i \in DOMAIN image.sections : image.sections[i].va # 0}

Span(s) == s.va..(s.va + Larger(s.vsize, s.raw) - 1)
Raw(s) == s.offset..(s.offset + s.raw - 1)

\* The first section that holds the address decides.
RvaToOffset(image, rva) ==
  LET found == {i \in Loaded(image) : rva \in Span(image.sections[i])}
      s == image.sections[Min(found)]
  IN  IF found = {} THEN Nowhere ELSE s.offset + (rva - s.va)

OffsetToRva(image, off) ==
  LET found == {i \in Loaded(image) : off \in Raw(image.sections[i])}
      s == image.sections[Min(found)]
  IN  IF found = {} THEN Nowhere ELSE s.va + (off - s.offset)

\* _resolve_offset: a file offset is taken as it is, an address needs a
\* parsed binary and a section
Resolve(image, space, given) ==
  CASE space = "file" -> given
    [] space = "rva" /\ image.parsed -> RvaToOffset(image, given)
    [] space = "va" /\ image.parsed  -> RvaToOffset(image, given - image.base)
    [] OTHER -> Nowhere

-----------------------------------------------------------------------------
(***************************************************************************)
(* Verdicts.                                                                *)
(***************************************************************************)
Judged(holds) == IF holds THEN "verified" ELSE "refuted"

\* Mutant: a read that runs past the end of the file is judged by what is there.
BytesAtShort(image, space, given, expected, n) ==
  LET off == Resolve(image, space, given)
  IN  IF off < 0 THEN "inconclusive"
      ELSE Judged(Slice(image.data, off, n) = expected)

\* _check_bytes_at and _check_int_at; n is the claimed length or the width
BytesAt(image, space, given, expected, n) ==
  LET off == Resolve(image, space, given)
  IN  IF off < 0 \/ off + n > Len(image.data) THEN "inconclusive"
      ELSE Judged(Slice(image.data, off, n) = expected)

OccursAt(data, pattern, off) ==
  /\ off >= 0 /\ off + Len(pattern) <= Len(data)
  /\ \A i \in DOMAIN pattern : pattern[i] \in {Wild, data[off + i]}

\* re.finditer: each search starts where the last match ended; start[o] is
\* where that was for the matches before o.
Scan(data, pattern) ==
  LET start[o \in 0..(Len(data) + 1)] ==
        IF o = 0 THEN 0
        ELSE IF start[o - 1] <= o - 1 /\ OccursAt(data, pattern, o - 1)
             THEN o - 1 + Larger(1, Len(pattern))
             ELSE start[o - 1]
  IN  {o \in 0..Len(data) : start[o] <= o /\ OccursAt(data, pattern, o)}

\* data.find, each search starting one byte further
FindAll(data, needle) == {o \in 0..Len(data) : OccursAt(data, needle, o)}

\* _check_pattern_present and _check_string_present, after the matches were
\* found; a claim may name the place, the count, or nothing more
PlaceVerdict(image, matches, space, given) ==
  LET off == Resolve(image, space, given)
  IN  IF off = Nowhere THEN "inconclusive" ELSE Judged(off \in matches)

PatternVerdict(image, pattern, claim) ==
  LET matches == Scan(image.data, pattern)
  IN  CASE claim.by = "place" -> PlaceVerdict(image, matches, claim.space, claim.given)
        [] claim.by = "count" -> Judged(Cardinality(matches) = claim.given)
        [] OTHER              -> Judged(matches # {})

StringVerdict(image, needle, claim) ==
  LET matches == FindAll(image.data, needle)
  IN  IF claim.by = "place" THEN PlaceVerdict(image, matches, claim.space, claim.given)
      ELSE Judged(matches # {})

-----------------------------------------------------------------------------
(***************************************************************************)
(* The reference: what a program sees at an address once the image is       *)
(* loaded.  Behind a section's bytes in the file its memory is zero.        *)
(***************************************************************************)
Mapped(image, rva) == \E i \in Loaded(image) : rva \in Span(image.sections[i])

\* every address of the range is backed by the file
InFile(image, rva, n) ==
  \E i \in Loaded(image) : LET s == image.sections[i]
                           IN  rva >= s.va /\ rva + n <= s.va + s.raw

\* spans that overlap leave open which section an address means
Disjoint(image) ==
  \A i, j \in Loaded(image) :
    LET s == image.sections[i]  t == image.sections[j]
    IN  s # t => Span(s) \cap Span(t) = {} /\ Raw(s) \cap Raw(t) = {}

(***************************************************************************)
(* The two translations undo each other exactly on the addresses that are   *)
(* backed by the file.  An address behind a section's bytes in the file,    *)
(* zero once loaded, is translated too: to the file offset where some       *)
(* other section's bytes, or nothing, may be.                               *)
(***************************************************************************)
TranslationsAgree(image, addr) ==
  LET off == RvaToOffset(image, addr)
      rva == OffsetToRva(image, addr)
  IN  /\ off = Nowhere <=> ~ Mapped(image, addr)
      /\ Disjoint(image) =>
           /\ InFile(image, addr, 1) <=> off # Nowhere /\ OffsetToRva(image, off) = addr
           /\ rva # Nowhere => RvaToOffset(image, rva) = addr

(***************************************************************************)
(* A verdict about bytes is the truth about the bytes: verified and refuted *)
(* mean they are, or are not, there; a read that leaves the file is never   *)
(* judged; the address space a place is given in makes no difference as     *)
(* long as the file backs the address.                                      *)
(***************************************************************************)
BytesTruthful(image, off, expected, n) ==
  LET verdict == BytesAt(image, "file", off, expected, n)
      rva == OffsetToRva(image, off)
  IN  /\ verdict = "inconclusive" <=> off < 0 \/ off + n > Len(image.data)
      /\ n = Len(expected) /\ verdict # "inconclusive" =>
           (verdict = "verified" <=> OccursAt(image.data, expected, off))
      /\ Disjoint(image) /\ image.parsed /\ rva # Nowhere =>
           /\ BytesAt(image, "rva", rva, expected, n) = verdict
           /\ BytesAt(image, "va", image.base + rva, expected, n) = verdict

(***************************************************************************)
(* A string or a pattern is verified at a place only where it occurs, and   *)
(* somewhere only if it occurs somewhere.  A refutation is the truth for a  *)
(* string.  For a pattern it is not: an occurrence that overlaps one before *)
(* it is refuted, and not counted.                                          *)
(***************************************************************************)
SearchTruthful(image, pattern, off) ==
  LET there == OccursAt(image.data, pattern, off)
      places == FindAll(image.data, pattern)
      claim(by, given) == [by |-> by, space |-> "file", given |-> given]
      earlier == {o \in places : o < off /\ off < o + Len(pattern)}
      patternThere == PatternVerdict(image, pattern, claim("place", off))
  IN  /\ Wild \notin ToSet(pattern) =>
           /\ StringVerdict(image, pattern, claim("place", off)) = Judged(there)
           /\ StringVerdict(image, pattern, claim("any", 0)) = Judged(places # {})
      /\ PatternVerdict(image, pattern, claim("any", 0)) = Judged(places # {})
      /\ patternThere = "verified" => there
      /\ there /\ patternThere = "refuted" => earlier # {}
      /\ \A k \in 0..Cardinality(places) :
           PatternVerdict(image, pattern, claim("count", k)) = "verified" =>
             /\ k <= Cardinality(places)
             /\ k < Cardinality(places) =>
                  \E o, p \in places : o < p /\ p < o + Len(pattern)
=============================================================================
