----------------------------- MODULE MCSession -----------------------------
EXTENDS Session

\* Memory of four buckets: a program's segments, the boot code, a block for a
\* system call at 20, a place for names at 22, and the words for the host.
Header(e) == [magic |-> TRUE, class |-> 1, data |-> 1, type |-> 2, machine |-> 243, version |-> 1,
              entry |-> e, phend |-> 6, shend |-> 16, shstrndx |-> 1, size |-> 16,
              bytes |-> [i \in 0..15 |-> (i % 3) + 1]]
Segments(s) == [i \in DOMAIN s |-> [type |-> 1, offset |-> s[i][1], paddr |-> s[i][2],
                                    filesz |-> s[i][3], memsz |-> s[i][4]]]
Section(n, t) == [named |-> TRUE, name |-> n, type |-> t, end |-> 16]
Tables == <<Section("", 0), Section(".strtab", 3), Section(".bss", 8), Section(".symtab", 2)>>
Symbol(n, v) == [named |-> TRUE, name |-> n, value |-> v]
Io == <<Symbol("tohost", 0), Symbol("tohost", 24), Symbol("fromhost", 26)>>
Elf(e, segs, tables, syms) ==
  Header(e) @@ [ph |-> Segments(segs), sh |-> tables, sym |-> syms]

\* The program crosses a bucket, has a .bss and a block with a call in it, in the
\* second one that of SYS_EXIT; the second segment of the payload lies over it.
Program == Elf(5, <<<<6, 3, 6, 9>>, <<7, 20, 2, 2>>, <<0, 0, 0, 0>>>>, Tables, Io)
Exiting == Elf(5, <<<<8, 20, 2, 4>>>>, Tables, Io \o <<Symbol("main", 24)>>)
Overlay == [Elf(9, <<<<6, 30, 1, 1>>, <<8, 5, 1, 2>>>>, <<Section("", 0)>>, <<>>) EXCEPT !.shstrndx = 0]
\* These are refused, or stop the simulation.
Cut      == [Program EXCEPT !.size = 11]
Big      == [Program EXCEPT !.data = 2]
Shared   == [Program EXCEPT !.type = 3]
NoTables == Elf(5, <<<<6, 3, 6, 9>>>>, <<Section("", 0), Section(".strtab", 3)>>, Io)
Odd      == Elf(5, <<>>, Tables, <<Symbol("tohost", 17), Symbol("fromhost", 28)>>)
Unnamed  == Elf(5, <<>>, <<Section("", 0), [Section("", 1) EXCEPT !.named = FALSE]>>, <<>>)

Files == [program |-> Program, exiting |-> Exiting, overlay |-> Overlay, cut |-> Cut, big |-> Big,
          shared |-> Shared, notables |-> NoTables, odd |-> Odd, unnamed |-> Unnamed]

Token(k, v) == [kind |-> k, val |-> v]
WithPayload(f) == <<Token("payload=", f), Token("plain", "program")>>
Single(f) == <<Token("plain", f)>>
Argvs ==
  UNION {[1..n -> {Token(k, "none") : k \in Kinds}] : n \in 0..3}
  \cup {Single(f) : f \in DOMAIN Files \cup {"missing"}}
  \cup {WithPayload("overlay"), WithPayload("unnamed"), WithPayload("cut"),
        <<Token("payload=", "overlay"), Token("payload=", "exiting")>> \o Single("exiting")}

Byte == 0..127
Code == <<1, 2>>
Name == [w \in 0..3 |-> [j \in 0..1 |-> CASE w = 0 -> 3 [] w = 3 -> 4 [] OTHER -> 0]]
Do(p, d, c) == [payload |-> p, device |-> d, cmd |-> c]
\* An exit, system calls, identifications, and a command nobody handles.
Asked == {Do(7, 0, 0), Do(20, 0, 0), Do(10, 0, 0), Do(4 * 22 + 3, 0, 3), Do(4 * 23, 1, 3),
             Do(4 * 22, 1, 3), Do(20, 1, 0)}
FesvrExit == Do(17, 0, 0)
Drivers == {"sim_main2", "fesvr450"}
=============================================================================
