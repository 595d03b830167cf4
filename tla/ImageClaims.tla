---------------------------- MODULE ImageClaims ----------------------------
(***************************************************************************)
(* Claims about the tables of a PE, ELF or Mach-O file (parse_binary and    *)
(* the queries of BinaryInfo in reverify/binary.py, and the import, export  *)
(* and section checks of reverify/verifier.py).                             *)
(*                                                                          *)
(* A file is [magic, sound, imports, libs, last, exports, sections]; sound  *)
(* is FALSE for headers that do not parse, sections is a set of <<name,     *)
(* address>>.  An import has a library, a function, the descriptor it is    *)
(* listed in, and no name of its own if it is by ordinal; last says which   *)
(* descriptor of a library is the last.                                     *)
(***************************************************************************)
EXTENDS Sequences

CONSTANT NoClaim        \* a parameter a claim leaves out
Anywhere == "*"         \* the one library ELF and Mach-O imports are listed under

IsFile(file) ==
  /\ file.magic \in {"PE", "ELF", "MachO", "raw"} /\ file.sound \in BOOLEAN
  /\ \A i \in file.imports : i.lib \in file.libs

\* A descriptor replaces what an earlier one of the same library lists; lief
\* reads no imports by ordinal, PEParser calls them Ordinal_n.
Lost(file, lief) ==
  {i \in file.imports : file.magic = "PE" /\ (i.at # file.last[i.lib] \/ (lief /\ ~i.named))}

Info(file, lief) ==
  [format |-> file.magic, error |-> FALSE, libs |-> file.libs, exports |-> file.exports,
   sections |-> file.sections,
   imports |-> {<<IF file.magic = "PE" THEN i.lib ELSE Anywhere, i.function>> :
                  i \in file.imports \ Lost(file, lief)}]

NoTables(format, error) ==
  [format |-> format, error |-> error, libs |-> {}, exports |-> {}, sections |-> {},
   imports |-> {}]

\* Without lief, an ELF file is read as far as its header.
ParseElfPure(file) == NoTables("ELF", ~file.sound)
ParsePePure(file) == IF file.sound THEN Info(file, FALSE) ELSE NoTables("PE", TRUE)

ParseBinary(file, lief) ==
  IF lief /\ file.sound /\ file.magic # "raw" THEN Info(file, TRUE)
  ELSE CASE file.magic = "PE" -> ParsePePure(file)
         [] file.magic = "ELF" -> ParseElfPure(file)
         [] file.magic = "MachO" -> NoTables("MachO", TRUE)
         [] OTHER -> NoTables("raw", FALSE)

NotParseable(info) == info.format = "raw" \/ info.error

HasImport(info, function, lib) ==
  \E i \in info.imports : i[2] = function /\ lib \in {NoClaim, i[1]}

LibKnown(info, lib) == lib \in info.libs \union {i[1] : i \in info.imports}

\* Only PE lists functions by library; elsewhere the function and the
\* library are looked up apart.
ImportPresent(info, claim) ==
  IF claim.function = NoClaim THEN LibKnown(info, claim.lib)
  ELSE IF claim.lib # NoClaim /\ info.format = "PE"
       THEN HasImport(info, claim.function, claim.lib)
       ELSE /\ HasImport(info, claim.function, NoClaim)
            /\ claim.lib = NoClaim \/ LibKnown(info, claim.lib)

ExportPresent(info, claim) == claim.name \in info.exports

\* Several sections may share a name: all of them are looked at.
SectionPresent(info, claim) ==
  \E s \in info.sections : s[1] = claim.name /\ claim.va \in {NoClaim, s[2]}

Found(info, claim) ==
  CASE claim.kind = "import" -> ImportPresent(info, claim)
    [] claim.kind = "export" -> ExportPresent(info, claim)
    [] OTHER -> SectionPresent(info, claim)

TableVerdict(file, lief, claim) ==
  LET info == ParseBinary(file, lief)
  IN  IF NotParseable(info) THEN "inconclusive"
      ELSE IF Found(info, claim) THEN "verified" ELSE "refuted"

-----------------------------------------------------------------------------
\* The imports a claim is about, and the claim read as a statement about the
\* file.
Meant(file, claim) ==
  {i \in file.imports : i.function = claim.function /\ claim.lib \in {NoClaim, i.lib}}

TrueOf(file, claim) ==
  CASE claim.kind = "import" ->
         IF claim.function = NoClaim THEN claim.lib \in file.libs ELSE Meant(file, claim) # {}
    [] claim.kind = "export" -> claim.name \in file.exports
    [] OTHER -> \E s \in file.sections : s[1] = claim.name /\ claim.va \in {NoClaim, s[2]}

(***************************************************************************)
(* A verified claim holds of the file, except that for ELF and Mach-O the   *)
(* function may come from another of the linked libraries, and * passes for *)
(* a library.  A refuted one does not hold, except of an ELF file read      *)
(* without lief, where nothing behind the header was read and every claim   *)
(* is refuted, and of a PE file that imports the function by a descriptor   *)
(* which another of the same library follows, or, with lief, by ordinal.    *)
(***************************************************************************)
TablesTruthful(file, claim) ==
  \A lief \in BOOLEAN :
    LET verdict == TableVerdict(file, lief, claim)
    IN  /\ verdict = "verified" =>
             \/ TrueOf(file, claim)
             \/ /\ file.magic # "PE" /\ claim.kind = "import"
                /\ \/ claim.lib = Anywhere
                   \/ /\ claim.lib \in file.libs
                      /\ \E i \in file.imports : i.function = claim.function
        /\ verdict = "refuted" =>
             \/ ~TrueOf(file, claim)
             \/ file.magic = "ELF" /\ ~lief
             \/ /\ claim.kind = "import" /\ claim.function # NoClaim
                /\ Meant(file, claim) \subseteq Lost(file, lief)
        /\ ~lief /\ file.magic = "ELF" => verdict # "verified"
=============================================================================
