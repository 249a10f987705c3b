------------------------------ MODULE Programs -------------------------------
(* The programs of the repository, one statement of main after the other,    *)
(* and the host that carries out their system calls; a call is one step      *)
(* here, as RemoteCalls has it.  The programs of ANY make any system calls.  *)
EXTENDS Syscalls, ExecLib, Sobel, Harness

CONSTANTS
  PROGS,      \* the programs that are run
  MESSAGE,    \* str2 of moreThanExit, and msg of c_hello
  ARRAYS,     \* values of A of insertionSort
  IMAGES,     \* what there is at IMGADDR
  ANY         \* bound: calls of programs of any system calls, and their numbers

BYTE == 0..255
ASSUME ProgramsAssumption ==
  /\ MESSAGE \in Seq(CHAR \ {0}) /\ MESSAGE # <<>> /\ CHAR \subseteq BYTE
  /\ \A p \in DOMAIN ANY : ANY[p].calls \in Nat /\ ANY[p].numbers \subseteq Numbers
\* The arrays of the programs are 0 at the start, but that of the message; no
\* path is the terminal, and none leads to the file of another.
ASSUME ArraysAssumption ==
  /\ {"buf", "ibuf", "ifm_buf", "str2"} \subseteq DOMAIN BUFFERS
  /\ BUFFERS \in [DOMAIN BUFFERS -> Seq(BYTE)]
  /\ BUFFERS["ifm_buf"] = [i \in 1..FM_SIZE |-> 0]
  /\ Len(BUFFERS["buf"]) > Len(MESSAGE) + 1 /\ \A i \in 1..Len(BUFFERS["buf"]) : BUFFERS["buf"][i] = 0
  /\ Len(BUFFERS["str2"]) > Len(MESSAGE) /\ SubSeq(BUFFERS["str2"], 1, Len(MESSAGE)) = MESSAGE
  /\ ARRAYS \subseteq Seq(Int) /\ IMAGES \subseteq [1..FM_SIZE -> BYTE]
ASSUME DisksAssumption ==
  /\ \A d \in DISKS : /\ \A n \in DOMAIN d : d[n] \in FILES \ {STDIN, STDOUT}
                      /\ \A m, n \in DOMAIN d : d[m] = d[n] => m = n
  /\ DATAS \subseteq [FILES -> Seq(BYTE)]
\* An unsigned holds a power of ten that is greater than any checksum.
ASSUME WordAssumption == \E m \in 4..9 : 255 * FM_SIZE < Pow(10, m) /\ Pow(10, m) < WORD

VARIABLES
  prog, pc,   \* the program, and its next statement; 0: it hangs
  fd,         \* its variable fd
  ifm_use, ofm_x, ofm_y,  \* the arrays of the sobel programs
  A,          \* that of insertionSort and of simple, and what is at OUTADDR
  failed, input  \* a call has failed; A at the start: no action reads them
progVars == <<fd, ifm_use, ofm_x, ofm_y, A>>
programsVars == <<sysVars, harnessVars, prog, pc, progVars, failed, input>>

-----------------------------------------------------------------------------
(* Statements.                                                               *)

\* What a statement is, with what it is done on.
St(op, x, n) == [op |-> op, x |-> x, n |-> n]
Say(text) == St("print", text, 0)
Do(op) == St(op, "", 0)

\* main of moreThanExit: a file is written, and read again.
moreThanExit == <<
  Say("open to write"),
  St("create", "Test", 0),
  Say("got"), St("number", "buf", 0), St("printbuf", "buf", 0), Say("from host"),
  St("write", "str2", strlen_e(MESSAGE)),
  Do("close"),
  Say("open to read"),
  St("open", "Test", 0),
  Say("got"), St("number", "buf", 0), St("printbuf", "buf", 0), Say("from host"),
  St("read", "buf", Len(MESSAGE)),
  St("terminate", "buf", Len(MESSAGE) + 1),
  St("printbuf", "buf", 0),
  Do("close"),
  St("exit", "", 0)>>

\* main of sobel.
sobel == <<
  Say("read"),
  St("open", "lena.img.bin", 0),
  St("read", "ifm_buf", FM_SIZE),
  Do("close"),
  Do("widen"),
  Say("read done"), Say("idx"), Do("conv_x"),
  Say("idy"), Do("conv_y"),
  Say("combine"), Do("combine"),
  Say("checksum"), St("checksum", "ibuf", 0), St("printbuf", "ibuf", 0), Say("line"),
  Say("output"),
  St("create", "sobel.out", 0),
  St("write", "ifm_buf", FM_SIZE),
  Do("close"),
  St("exit", "", 0)>>
\* main of sobel-approx is the same.
sobel_approx == sobel
exact == prog # "sobel-approx"

\* main of the sobel.c of src/software, between two places in memory.  It
\* returns to start.s, which sends nothing to the host.
sobel_bare == <<Do("conv_x"), Do("conv_y"), Do("combine"), Do("return")>>

\* insertionSort: the turns of the loop of insertion.  start.S of spike-software
\* sends to the host what main returns.
insertionSort(n) == [i \in 1..n |-> IF i < n THEN St("select", "", i) ELSE St("exit", "", 0)]

\* simple: an array is filled and summed up, and the sum is not used.
simple == <<Do("fill"), St("exit", "", 0)>>

\* The others, of src/software, compute alone what they return.
c_example == LET x == 100
                 y == x + 500 IN <<St("return", "", y)>>
hello == <<St("return", "", 1 + 1)>>

\* Those that sim_main.cc runs, by their stores: the first never halts.
c_hello == [i \in DOMAIN MESSAGE |-> SW(CONSOLE_ADDR, MESSAGE[i])]
asm_example == <<SW(4, 120 * 6), SW(CONSOLE_ADDR, 72), SW(CONSOLE_ADDR, 72), SW(CONSOLE_ADDR, 10), SW(HALT_ADDR, 1)>>
Bare == [c_hello |-> c_hello, asm_example |-> asm_example]
ASSUME StoresAssumption == 4 \in PORTS \ {CONSOLE_ADDR, HALT_ADDR}

Main ==
  CASE prog = "moreThanExit" -> moreThanExit
    [] prog = "sobel" -> sobel
    [] prog = "sobel-approx" -> sobel_approx
    [] prog = "sobel-bare" -> sobel_bare
    [] prog = "insertionSort" -> insertionSort(Len(A))
    [] prog = "simple" -> simple
    [] prog = "c_example" -> c_example
    [] prog = "hello" -> hello
    [] prog \in DOMAIN ANY \cup DOMAIN Bare -> <<>>

\* Each is one of these.
Named == {"moreThanExit", "sobel", "sobel-approx", "sobel-bare", "insertionSort", "simple", "c_example", "hello"}
ASSUME NamesAssumption ==
  /\ PROGS \subseteq Named \cup DOMAIN Bare \cup DOMAIN ANY
  /\ DOMAIN ANY \cap (Named \cup DOMAIN Bare) = {}

Zeros == [i \in 1..FM_SIZE |-> 0]
ProgramsInit ==
  /\ SysInit /\ HarnessInit
  /\ prog \in PROGS /\ pc = 1 /\ fd = 0 /\ failed = FALSE
  /\ prog \notin {"sobel", "sobel-approx"} => data = CHOOSE d \in DATAS : TRUE
  /\ prog \in DOMAIN ANY \cup DOMAIN Bare => dir = CHOOSE d \in DISKS : TRUE
  /\ ifm_use \in IF prog = "sobel-bare" THEN IMAGES ELSE {Zeros}
  /\ ofm_x = Zeros /\ ofm_y = Zeros
  /\ A \in (IF prog = "insertionSort" THEN ARRAYS ELSE {<<>>}) /\ input = A

-----------------------------------------------------------------------------
(* Steps.                                                                    *)

st == Main[pc]
Now(op) == pc \in 1..Len(Main) /\ st.op = op
Called == pc' = pc + 1 /\ failed' = (failed \/ ret' < 0) /\ UNCHANGED <<prog, input, harnessVars>>
\* What main does by itself.
Done == pc' = pc + 1 /\ UNCHANGED <<prog, failed, input, table, disk, ret, printed, harnessVars>>

tohost_printstr ==
  /\ \/ Now("print") /\ sys_printstr(<<st.x>>)
     \/ Now("printbuf") /\ sys_printstr(CString(tmem[st.x]))
  /\ Called /\ UNCHANGED progVars
\* The flags are O_RDWR, O_RDONLY or O_WRONLY, and O_CREAT, but never O_TRUNC.
tohost_open ==
  /\ Now("open") \/ Now("create")
  /\ sys_openat(AT_FDCWD, st.x, st.op = "create")
  /\ fd' = ret' /\ Called /\ UNCHANGED <<ifm_use, ofm_x, ofm_y, A>>
tohost_read == Now("read") /\ sys_read(fd, st.x, st.n) /\ Called /\ UNCHANGED progVars
tohost_write == Now("write") /\ sys_write(fd, st.x, st.n) /\ Called /\ UNCHANGED progVars
tohost_close == Now("close") /\ sys_close(fd) /\ Called /\ UNCHANGED progVars

\* A number is written into a buffer: the descriptor, or the checksum.
Number ==
  LET val == IF st.op = "number" THEN fd ELSE checksum(ifm_use)
  IN /\ Now("number") \/ Now("checksum")
     /\ IF Hangs(val)
        THEN pc' = 0 /\ UNCHANGED <<prog, failed, input, sysVars, harnessVars>>
        ELSE Store(st.x, Append(uint64_to_str(val), 0)) /\ Done /\ UNCHANGED exit
     /\ UNCHANGED progVars

\* buf[strlen_e(str2) + 1] = 0, one behind the byte that has to be 0.
Terminate ==
  /\ Now("terminate") /\ tmem' = [tmem EXCEPT ![st.x][st.n + 1] = 0]
  /\ Done /\ UNCHANGED <<exit, progVars>>

Widen ==
  /\ Now("widen") /\ ifm_use' = SubSeq(tmem["ifm_buf"], 1, FM_SIZE)
  /\ Done /\ UNCHANGED <<tmem, exit, fd, ofm_x, ofm_y, A>>
Convolve ==
  /\ \/ Now("conv_x") /\ ofm_x' = conv2D_sw(exact, ifm_use, wt_x) /\ UNCHANGED ofm_y
     \/ Now("conv_y") /\ ofm_y' = conv2D_sw(exact, ifm_use, wt_y) /\ UNCHANGED ofm_x
  /\ Done /\ UNCHANGED <<tmem, exit, fd, ifm_use, A>>
CombineFeatures ==
  LET mag == Combine(exact, ofm_x, ofm_y) IN
  /\ Now("combine")
  /\ IF prog = "sobel-bare"
     THEN A' = mag /\ UNCHANGED <<tmem, ifm_use>>
     ELSE ifm_use' = mag /\ Store("ifm_buf", mag) /\ UNCHANGED A
  /\ Done /\ UNCHANGED <<exit, fd, ofm_x, ofm_y>>

\* The least of the rest, the first one of them, changes places with arr[i].
Insertion_Lost ==
  LET i == st.n
      min_idx == CHOOSE j \in i..Len(A) : /\ \A k \in i..Len(A) : A[j] <= A[k]
                                         /\ \A k \in i..(j - 1) : A[j] < A[k]
  IN /\ Now("select") /\ A' = [A EXCEPT ![i] = A[min_idx], ![min_idx] = A[min_idx]]
     /\ Done /\ UNCHANGED <<tmem, exit, fd, ifm_use, ofm_x, ofm_y>>
Insertion ==
  LET i == st.n
      min_idx == CHOOSE j \in i..Len(A) : /\ \A k \in i..Len(A) : A[j] <= A[k]
                                         /\ \A k \in i..(j - 1) : A[j] < A[k]
  IN /\ Now("select") /\ A' = [A EXCEPT ![i] = A[min_idx], ![min_idx] = A[i]]
     /\ Done /\ UNCHANGED <<tmem, exit, fd, ifm_use, ofm_x, ofm_y>>

Fill ==
  /\ Now("fill") /\ A' = [i \in 1..5 |-> i - 1]
  /\ Done /\ UNCHANGED <<tmem, exit, fd, ifm_use, ofm_x, ofm_y>>

\* It goes on writing the exit code until the host stops the simulation.
tohost_exit == Now("exit") /\ exit' = st.n /\ Done /\ UNCHANGED <<tmem, progVars>>
\* Nobody looks at what main returns to start.s.
Leave == Now("return") /\ Done /\ UNCHANGED <<tmem, exit, progVars>>

AnyCall ==
  /\ prog \in DOMAIN ANY /\ pc <= ANY[prog].calls
  /\ \E n \in ANY[prog].numbers : dispatch(n)
  /\ Called /\ UNCHANGED progVars

\* The core comes to its next store, or not yet.  Behind the last one of c_hello
\* it may go on with its loop, until it finds that this is the wrong path.
BareTurn ==
  /\ prog \in DOMAIN Bare
  /\ \/ LoopTurn(Idle) /\ UNCHANGED pc
     \/ CoreMoves /\ pc <= Len(Bare[prog]) /\ LoopTurn(Bare[prog][pc]) /\ pc' = pc + 1
     \/ CoreMoves /\ prog = "c_hello" /\ pc > Len(c_hello) /\ LoopTurn(SW(CONSOLE_ADDR, 0)) /\ UNCHANGED pc
  /\ UNCHANGED <<sysVars, prog, progVars, failed, input>>

ProgramsNext ==
  \/ tohost_printstr \/ tohost_open \/ tohost_read \/ tohost_write \/ tohost_close
  \/ Number \/ Terminate \/ Widen \/ Convolve \/ CombineFeatures
  \/ Insertion \/ Fill \/ tohost_exit \/ Leave \/ AnyCall \/ BareTurn
ProgramsSpec == ProgramsInit /\ [][ProgramsNext]_programsVars

-----------------------------------------------------------------------------
(* Properties.                                                               *)

Ended == prog \notin DOMAIN ANY \cup DOMAIN Bare /\ pc > Len(Main)
Padded(bytes) == [i \in 1..FM_SIZE |-> IF i <= Len(bytes) THEN bytes[i] ELSE 0]
FileAt(name) == data[dir[name]]

\* sobel.c:147 "result = sqrt(ofm_x ^ 2 + ofm_y ^ 2)": the output of a program
\* that got all that it asked for is the magnitude of the gradients of the
\* image, pixel for pixel and cut off at 255, the borders and a file that is
\* too short included; and what it prints are the digits of the checksum of this
\* output, but for the zeros at its end, which uint64_to_str loses (ExecLib.c:115):
\* a checksum of 410 is printed as 41.
SobelExact ==
  /\ prog \in {"sobel", "sobel-approx"} /\ Ended /\ ~failed =>
       LET out == SubSeq(FileAt("sobel.out"), 1, FM_SIZE) IN
       /\ IsSobel(exact, Padded(FileAt("lena.img.bin")), out)
       /\ IsTrimmedNumeral(printed[7], checksum(out))
  /\ prog = "sobel-bare" /\ Ended => IsSobel(TRUE, ifm_use, A)

MessageBack ==
  /\ IsTrimmedNumeral(printed[3], 3) /\ IsTrimmedNumeral(printed[7], 3) /\ printed[9] = MESSAGE
  /\ SubSeq(FileAt("Test"), 1, Len(MESSAGE)) = MESSAGE
Sorted ==
  /\ \A i, j \in DOMAIN A : i < j => A[i] <= A[j]
  /\ DOMAIN A = DOMAIN input
  /\ \E from \in [DOMAIN A -> DOMAIN input] :
       /\ \A i, j \in DOMAIN A : from[i] = from[j] => i = j
       /\ \A i \in DOMAIN A : A[i] = input[from[i]]
ScreenExact ==
  LET asks[k \in 0..Len(Bare[prog])] ==
        IF k = 0 THEN <<>>
        ELSE IF Bare[prog][k].addr = CONSOLE_ADDR THEN Append(asks[k - 1], Bare[prog][k]) ELSE asks[k - 1]
      asked == asks[pc - 1]
      all == pc > Len(Bare[prog])
  IN /\ Len(screen) >= Len(asked) - (IF bus.addr = CONSOLE_ADDR THEN 1 ELSE 0)
     /\ \A i \in DOMAIN screen : i <= Len(asked) => screen[i] = asked[i].data
     /\ Len(screen) > Len(asked) => all /\ prog = "c_hello" /\ screen[Len(screen)] = 0
     /\ finish_flag /\ time <= TIME_LIMIT => all /\ Len(screen) = Len(asked) /\ kept[4] = 120 * 6

\* moreThanExit.c:12-13, insertionSort.c:11: a program that ends has done what it
\* is for, if no call failed.  The message comes back from the file, whatever was
\* in the file and in the buffer; the array is sorted and none of its values is lost; and all
\* that was opened is closed.  sim_main.cc:78: a character that is stored to the
\* console is printed once and in its turn, whenever the core comes to it, though
\* it is on the bus twice; what is printed too much comes last; and a program
\* that stops by itself has got all its stores done.
ResultsExact ==
  /\ Ended => /\ ~failed => DOMAIN holds = {0, 1, 2}
              /\ prog = "moreThanExit" /\ ~failed => MessageBack
              /\ prog = "insertionSort" => Sorted
  /\ prog \in DOMAIN Bare => ScreenExact

Numbered == 0..1999
HexExact(size, v, m) ==
  LET s == to_ascii_hex(size, v, m) IN
  /\ strlen(s) < m /\ (m > 2 * size => ascii_hex_to(size, s) = v)
  /\ \A w \in {0, 9, 10, 90, 171, 255} :
       (strcmp(s, to_ascii_hex(size, w, m)) = 0) = (s = to_ascii_hex(size, w, m))
DecExact(d) == ascii_dec_to(1, [i \in 1..3 |-> ASCII_0 + d[i]]) = 100 * d[1] + 10 * d[2] + d[3]

\* ascii.c, ExecLib.c:104: a number that is written in hexadecimal digits and
\* read again is itself, whatever of its type, as long as the buffer holds it;
\* one in decimal digits is read as its value, when it has no more digits than
\* are read; uint64_to_str writes the digits of every number that is less than
\* the first power of ten which an unsigned does not hold, but for its zeros
\* at the end; strings are equal when no character differs.
LibraryExact ==
  prog = "hello" /\ pc = 1 =>
    /\ \A v \in Numbered : IsTrimmedNumeral(uint64_to_str(v), v)
    /\ \A size \in 1..2, v \in {0, 9, 10, 90, 171, 255} : \A m \in 1..(2 * size + 2) : HexExact(size, v, m)
    /\ \A d \in [1..3 -> 0..2] : DecExact(d)
=============================================================================
