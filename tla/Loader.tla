------------------------------- MODULE Loader --------------------------------
(* From the arguments to a core that can run: start() of htif_t loads the    *)
(* program and its payloads through memif_t, and setup_rom writes the code   *)
(* that the core comes up in.  A word is one byte, also of the file.         *)
EXTENDS MemIf, Arguments

CONSTANTS
  FILES,       \* the ELF files that there are, by path
  NONE,        \* the path "none"
  DEFAULT_ENTRY,
  RESET_VEC,   \* 0x1000
  RESET_CODE   \* what setup_rom writes before the start address

\* The tables of a file, of either class.  `phend', `shend' and `end' are where
\* a table or a section ends; a name is not `named' when it leaves its table.
Phdr == [type : Nat, offset : Nat, paddr : Address, filesz : Nat, memsz : Nat]
Shdr == [named : BOOLEAN, name : STRING, type : Nat, end : Nat]
Sym  == [named : BOOLEAN, name : STRING, value : Address]
ElfFile(f) ==
  /\ {f.class, f.data, f.type, f.machine, f.version, f.entry, f.phend, f.shend, f.shstrndx, f.size} \subseteq Nat
  /\ f.ph \in Seq(Phdr) /\ f.sh \in Seq(Shdr) /\ f.sym \in Seq(Sym)
  /\ \A i \in Span(0, f.size) : f.bytes[i] \in BYTE

\* A segment is not larger in the file than in memory, and lies in memory.  An
\* address is a word.
ASSUME LoaderAssumption ==
  /\ \A path \in DOMAIN FILES :
       /\ ElfFile(FILES[path])
       /\ \A p \in {FILES[path].ph[i] : i \in DOMAIN FILES[path].ph} :
            p.filesz <= p.memsz /\ p.paddr + p.memsz <= SPACE
  /\ RESET_CODE \in Seq(BYTE) /\ RESET_VEC \in Nat /\ Len(RESET_CODE) + 1 + RESET_VEC <= SPACE
  /\ DEFAULT_ENTRY \in Nat /\ Address \subseteq BYTE

VARIABLES
  load,       \* where start() and setup_rom are; "failed": the simulation died
  todo,       \* paths of the files to load, the current one first
  ph, half,   \* the segment, and its half, that is written next
  symbols, addr2symbol, entry, tohost_addr, fromhost_addr
loadVars == <<load, todo, ph, half, symbols, addr2symbol, entry, tohost_addr, fromhost_addr>>

NoSymbols == [n \in {} |-> 0]
LoadInit ==
  /\ load = "start" /\ todo = <<>> /\ ph = 1 /\ half = "file"
  /\ symbols = NoSymbols /\ addr2symbol = NoSymbols
  /\ entry = DEFAULT_ENTRY /\ tohost_addr = 0 /\ fromhost_addr = 0

program == targs[1].val
file == FILES[Head(todo)]
\* The program comes first, its payloads behind it.
IsProgram == symbols = NoSymbols

Die == load' = "failed"
       /\ UNCHANGED <<todo, ph, half, symbols, addr2symbol, entry, tohost_addr, fromhost_addr>>

Start ==
  /\ load = "start" /\ parsing = "done"
  /\ load' = IF program = NONE THEN "loaded" ELSE "open"
  /\ todo' = IF program = NONE THEN <<>> ELSE <<program>>
  /\ UNCHANGED <<ph, half, symbols, addr2symbol, entry, tohost_addr, fromhost_addr, memifVars>>

-----------------------------------------------------------------------------
(* load_elf.                                                                 *)

IS_ELF(f) == f.magic /\ f.class \in {1, 2} /\ f.data \in {1, 2}
\* ET_EXEC, EM_RISCV or EM_NONE, EV_CURRENT.
IS_ELF_EXEC(f) == f.type = 2 /\ f.machine \in {243, 0} /\ f.version = 1
LittleEndian(f) == f.data = 1

HeaderOk(f) == IS_ELF(f) /\ IS_ELF_EXEC(f) /\ LittleEndian(f) /\ f.size >= f.phend

\* A missing file and a big endian one are thrown out, a bad one is asserted.
OpenElf ==
  /\ load = "open"
  /\ IF Head(todo) \in DOMAIN FILES /\ HeaderOk(file)
     THEN /\ load' = "segments" /\ ph' = 1 /\ half' = "file"
          /\ entry' = IF IsProgram THEN file.entry ELSE entry
          /\ UNCHANGED <<todo, symbols, addr2symbol, tohost_addr, fromhost_addr>>
     ELSE Die
  /\ UNCHANGED memifVars

\* A segment is written in two halves, the bytes of the file and zeros.
Write(a, n, f) == Call([wr |-> TRUE, word |-> FALSE, addr |-> a, len |-> n,
                        data |-> [i \in Span(0, n) |-> f[i]]])
FileHalf(p) ==
  /\ half = "file" /\ p.filesz # 0
  /\ IF file.size < p.offset + p.filesz
     THEN Die /\ UNCHANGED memifVars
     ELSE /\ Write(p.paddr, p.filesz, [i \in Span(0, p.filesz) |-> file.bytes[p.offset + i]])
          /\ half' = "zeros"
          /\ UNCHANGED <<load, todo, ph, symbols, addr2symbol, entry, tohost_addr, fromhost_addr>>
ZeroHalf_AtStart(p) ==
  /\ half = "zeros" \/ p.filesz = 0
  /\ Write(p.paddr, p.memsz - p.filesz, [i \in Span(0, p.memsz - p.filesz) |-> 0])
  /\ half' = "file" /\ ph' = ph + 1
  /\ UNCHANGED <<load, todo, symbols, addr2symbol, entry, tohost_addr, fromhost_addr>>
ZeroHalf(p) ==
  /\ half = "zeros" \/ p.filesz = 0
  /\ Write(p.paddr + p.filesz, p.memsz - p.filesz, [i \in Span(0, p.memsz - p.filesz) |-> 0])
  /\ half' = "file" /\ ph' = ph + 1
  /\ UNCHANGED <<load, todo, symbols, addr2symbol, entry, tohost_addr, fromhost_addr>>

PT_LOAD(p) == p.type = 1 /\ p.memsz # 0
SkipSegment ==
  /\ ph' = ph + 1
  /\ UNCHANGED <<load, todo, half, symbols, addr2symbol, entry, tohost_addr, fromhost_addr, memifVars>>

Segment ==
  /\ load = "segments" /\ stage = "idle" /\ ph <= Len(file.ph)
  /\ LET p == file.ph[ph] IN
     IF PT_LOAD(p) THEN FileHalf(p) \/ ZeroHalf(p) ELSE SkipSegment

\* Bit 3 of the type marks a section without bytes.
NOBITS(s) == (s.type \div 8) % 2 = 1
SectionsOk(f) ==
  /\ f.size >= f.shend /\ f.shstrndx < Len(f.sh) /\ f.size >= f.sh[f.shstrndx + 1].end
  /\ \A i \in DOMAIN f.sh : f.sh[i].named /\ (~NOBITS(f.sh[i]) => f.size >= f.sh[i].end)

\* Index 0 stands for a table that there is not.
HasTable(f, name) == \E i \in 2..Len(f.sh) : f.sh[i].name = name /\ ~NOBITS(f.sh[i])
HasSymbols(f) == HasTable(f, ".strtab") /\ HasTable(f, ".symtab")
\* The last symbol of a name counts.
Symbols(f) ==
  IF ~HasSymbols(f) THEN NoSymbols
  ELSE [n \in {f.sym[i].name : i \in DOMAIN f.sym} |->
          LET same == {i \in DOMAIN f.sym : f.sym[i].name = n}
          IN f.sym[CHOOSE i \in same : \A j \in same : j <= i].value]

-----------------------------------------------------------------------------
(* load_program.                                                             *)

SegmentsDone == load = "segments" /\ stage = "idle" /\ ph > Len(file.ph)
ElfOk(f) == SectionsOk(f) /\ (HasSymbols(f) => \A i \in DOMAIN f.sym : f.sym[i].named)

\* Without tohost and fromhost the simulation exits.  An address is known by
\* one of its symbols.
ProgramLoaded ==
  LET s == Symbols(file)
      values == {s[n] : n \in DOMAIN s}
  IN /\ SegmentsDone /\ IsProgram
     /\ IF ElfOk(file) /\ {"tohost", "fromhost"} \subseteq DOMAIN s
        THEN /\ symbols' = s /\ tohost_addr' = s["tohost"] /\ fromhost_addr' = s["fromhost"]
             /\ \E name \in [values -> DOMAIN s] :
                  (\A v \in values : s[name[v]] = v) /\ addr2symbol' = name
             /\ todo' = payloads /\ load' = IF payloads = <<>> THEN "loaded" ELSE "open"
             /\ UNCHANGED <<ph, half, entry>>
        ELSE Die
     /\ UNCHANGED memifVars

PayloadLoaded_Unasserted ==
  /\ SegmentsDone /\ ~IsProgram
  /\ todo' = Tail(todo) /\ load' = IF todo' = <<>> THEN "loaded" ELSE "open"
  /\ UNCHANGED <<ph, half, symbols, addr2symbol, entry, tohost_addr, fromhost_addr, memifVars>>
PayloadLoaded ==
  /\ SegmentsDone /\ ~IsProgram
  /\ IF ElfOk(file)
     THEN /\ todo' = Tail(todo) /\ load' = IF todo' = <<>> THEN "loaded" ELSE "open"
          /\ UNCHANGED <<ph, half, symbols, addr2symbol, entry, tohost_addr, fromhost_addr>>
     ELSE Die
  /\ UNCHANGED memifVars

-----------------------------------------------------------------------------
(* setup_rom, which goes past memif_t: its bytes are one chunk.              *)

reset_vec == [i \in Span(0, Len(RESET_CODE) + 1) |->
                IF i < Len(RESET_CODE) THEN RESET_CODE[i + 1] ELSE entry % SPACE]
SetupRom ==
  LET n == Len(RESET_CODE) + 1 IN
  /\ load = "loaded" /\ stage = "idle"
  /\ call' = [wr |-> TRUE, word |-> FALSE, addr |-> RESET_VEC, len |-> n, data |-> reset_vec]
  /\ stage' = "body" /\ addr' = RESET_VEC /\ off' = 0 /\ len' = n /\ pos' = 0 /\ left' = n
  /\ out' = [i \in Span(0, n) |-> 0] /\ before' = mem
  /\ load' = "rom"
  /\ UNCHANGED <<align, mem, thrown, todo, ph, half, symbols, addr2symbol, entry,
                 tohost_addr, fromhost_addr>>

RomDone ==
  /\ load = "rom" /\ stage = "idle" /\ load' = "ready"
  /\ UNCHANGED <<todo, ph, half, symbols, addr2symbol, entry, tohost_addr, fromhost_addr, memifVars>>

\* fesvr450.cc has no boot code.
NoRom ==
  /\ load = "loaded" /\ stage = "idle" /\ load' = "bare"
  /\ UNCHANGED <<todo, ph, half, symbols, addr2symbol, entry, tohost_addr, fromhost_addr, memifVars>>

\* The loops of memif_t run while the loader waits for them.
LoadStep ==
  \/ Start \/ OpenElf \/ Segment \/ ProgramLoaded \/ PayloadLoaded \/ RomDone
  \/ MemStep /\ UNCHANGED loadVars

-----------------------------------------------------------------------------
(* Properties.                                                               *)

\* The segments of all that is loaded, <<file, segment>>, those over x, which of
\* two is not the later one, and what it has at x.
Paths == IF program = NONE THEN <<>> ELSE <<program>> \o payloads
PathFile(k) == FILES[Paths[k]]
Pieces == UNION {{<<k, i>> : i \in DOMAIN PathFile(k).ph} : k \in DOMAIN Paths}
Seg(p) == PathFile(p[1]).ph[p[2]]
Over(x) == {p \in Pieces : PT_LOAD(Seg(p)) /\ x \in Span(Seg(p).paddr, Seg(p).memsz)}
UpTo(q, p) == q[1] < p[1] \/ (q[1] = p[1] /\ q[2] <= p[2])
SegByte(f, s, x) == IF x - s.paddr < s.filesz THEN f.bytes[s.offset + x - s.paddr] ELSE 0
Shown(S, x) == IF S = {} THEN 0
               ELSE LET last == CHOOSE p \in S : \A q \in S : UpTo(q, p)
                    IN SegByte(PathFile(last[1]), Seg(last), x)

\* htif.cc:127, sim.cc:26: when the core comes up, memory is what the segments
\* of the program and then of its payloads made of it, each byte by the last
\* one over it and zero where the file has none, whatever the segments'
\* lengths are to chunks and buckets; and the boot code over all leads to the
\* program's entry, not to that of a payload.
ImageLoaded ==
  load \in {"ready", "bare"} =>
    /\ entry = IF program = NONE THEN DEFAULT_ENTRY ELSE FILES[program].entry
    /\ \A x \in Address :
         mem[x] = IF load = "ready" /\ x \in Span(RESET_VEC, Len(RESET_CODE) + 1)
                  THEN Append(RESET_CODE, entry % SPACE)[x - RESET_VEC + 1]
                  ELSE Shown(Over(x), x)

\* Every byte of a segment that the file has is in the file.
SizesOk(f) == \A i \in DOMAIN f.ph :
  PT_LOAD(f.ph[i]) /\ f.ph[i].filesz # 0 => f.size >= f.ph[i].offset + f.ph[i].filesz
Sound(k) == Paths[k] \in DOMAIN FILES /\ HeaderOk(PathFile(k)) /\ SizesOk(PathFile(k)) /\ ElfOk(PathFile(k))

\* elfloader.cc:24-103, htif.cc:95-141: a core comes up only when every file,
\* the program and all of its payloads, has passed every assertion of load_elf,
\* also those that are made after some of its segments are in memory, and the
\* program has both words for the host.
OnlySoundFiles ==
  load \in {"ready", "bare"} =>
    /\ \A k \in DOMAIN Paths : Sound(k)
    /\ program # NONE => {"tohost", "fromhost"} \subseteq DOMAIN Symbols(FILES[program])
=============================================================================
