------------------------------ MODULE Session -------------------------------
(* A whole run of a simulator: the arguments, the loader, the main loop of   *)
(* sim_main2.cc or of fesvr450.cc with the host's side of the conversation   *)
(* through tohost and fromhost, and stop().  The host and the target take    *)
(* turns in one thread.  tohost and fromhost are words of two bytes: the     *)
(* payload, and device and command.  The target reads and writes such a word *)
(* at once.  The core stores 32 bits at a time; but each program of the      *)
(* repository uses the first device and its first command alone, so that its *)
(* upper half is always zero, and the store of the lower one the message.    *)
(* A program that wrote other halves could be polled between the two stores, *)
(* which is not modelled.                                                    *)
EXTENDS Loader, SequencesExt

CONSTANTS
  DRIVERS,        \* which of the main programs is run
  COMMANDS,       \* what the target writes to tohost: [payload, device, cmd]
  MAX_COMMANDS,   \* commands of a device, the last of which identifies it: 256
  IDENTITY_SIZE,  \* bytes of a name: 64
  NAME,           \* the bytes of the name of each command of the first device
  MAGICMEM,       \* bytes of the block of a system call
  SYSCALLS,       \* numbers of the system calls that there are
  SYS_EXIT,       \* one of them
  FESVR_TURNS,    \* turns after which fesvr450.cc writes its own exit: 101
  FESVR_TOHOST, FESVR_EXIT,  \* where it writes which command
  STOP_ADDR,      \* where stop() reads
  SIM_TIME        \* turns of the loop of sim_main2.cc: 30000

VARIABLES
  driver,
  turn,           \* "target", or where the host is in its turn
  turns,          \* turns done
  cmd,            \* the command that is handled
  fromhost_queue,
  exitcode, stopped, signal_exit,
  commands, taken   \* what the target wrote and took: no action reads them
hostVars == <<turn, cmd, fromhost_queue, exitcode, stopped>>
loopVars == <<driver, turns, signal_exit, commands, taken>>
vars == <<argVars, memifVars, loadVars, hostVars, loopVars>>

Commands == [payload : Nat, device : Nat, cmd : 0..(MAX_COMMANDS - 1)]
Command(p, route) == [payload |-> p, device |-> route \div MAX_COMMANDS, cmd |-> route % MAX_COMMANDS]
Bytes(c) == [j \in Span(0, 2) |-> IF j = 0 THEN c.payload ELSE c.device * MAX_COMMANDS + c.cmd]
NoCommand == Command(0, 0)
Zeros(n) == [j \in Span(0, n) |-> 0]

\* The first command of the first device is a system call, or, when its payload
\* is odd, an exit.  The last one of a device identifies it.
IsSyscall(c) == c.device = 0 /\ c.cmd = 0
Exits(c) == IsSyscall(c) /\ c.payload % 2 = 1
Answered(c) == c.cmd = MAX_COMMANDS - 1 \/ (IsSyscall(c) /\ c.payload % 2 = 0)
NamePlace(c) == c.payload \div MAX_COMMANDS

\* The words for the host, by file, and all their bytes: those of a simulator
\* without a program are at 0.
HasIo(f) == {"tohost", "fromhost"} \subseteq DOMAIN Symbols(f)
tohost(f) == Symbols(f)["tohost"]
fromhost(f) == Symbols(f)["fromhost"]
ElfFiles == {FILES[path] : path \in DOMAIN FILES}
IoPairs == {<<0, 0>>} \cup {<<tohost(f), fromhost(f)>> : f \in {f \in ElfFiles : HasIo(f)}}
IoBytes == UNION {Span(io[1], 2) \cup Span(io[2], 2) : io \in IoPairs}
Apart(a, n) == a \in Nat /\ a + n <= SPACE /\ Span(a, n) \cap IoBytes = {}

\* Commands are not zero, and what the host writes for one is not over the words
\* themselves.
ASSUME SessionAssumption ==
  /\ DRIVERS \subseteq {"sim_main2", "fesvr450"} /\ MAX_COMMANDS \in Nat \ {0, 1}
  /\ IDENTITY_SIZE \in Nat \ {0} /\ MAGICMEM \in Nat \ {0, 1} /\ SIM_TIME \in Nat /\ FESVR_TURNS \in Nat
  /\ SYS_EXIT \in SYSCALLS /\ NAME \in [0..(MAX_COMMANDS - 1) -> [Span(0, IDENTITY_SIZE) -> BYTE]]
  /\ 1 \in BYTE /\ STOP_ADDR \in Nat /\ STOP_ADDR + 2 <= SPACE
  /\ FESVR_EXIT \in Commands /\ Exits(FESVR_EXIT) /\ COMMANDS \subseteq Commands
  /\ \A c \in COMMANDS \cup {FESVR_EXIT} :
       /\ Bytes(c) \in [Span(0, 2) -> BYTE] /\ Bytes(c) # Zeros(2)
       /\ IsSyscall(c) /\ ~Exits(c) => Apart(c.payload, MAGICMEM)
       /\ c.cmd = MAX_COMMANDS - 1 /\ NamePlace(c) % IDENTITY_SIZE = 0 => Apart(NamePlace(c), IDENTITY_SIZE)

\* tohost and fromhost of a program are words of their own, which are zero in
\* the file, as far as they are in it, and in those that are loaded with it.
ASSUME IoAssumption ==
  /\ \A f \in {f \in ElfFiles : HasIo(f)} : Span(tohost(f), 2) \cap Span(fromhost(f), 2) = {}
  /\ \A io \in IoPairs : {io[1], io[2]} \subseteq 0..(SPACE - 2)
  /\ \A f \in ElfFiles : \A i \in DOMAIN f.ph : \A x \in IoBytes :
       PT_LOAD(f.ph[i]) /\ x \in Span(f.ph[i].paddr, f.ph[i].memsz) => SegByte(f, f.ph[i], x) = 0
  /\ Span(RESET_VEC, Len(RESET_CODE) + 1) \cap IoBytes = {}
  /\ FESVR_TOHOST \in 1..(SPACE - 2)
  /\ \A io \in IoPairs : /\ Span(FESVR_TOHOST, 2) \cap Span(io[2], 2) = {}
                         /\ FESVR_TOHOST # io[1] => Span(FESVR_TOHOST, 2) \cap Span(io[1], 2) = {}

Init ==
  /\ ArgsInit /\ MemInit /\ LoadInit
  /\ driver \in DRIVERS /\ turn = "target" /\ turns = 0 /\ cmd = NoCommand
  /\ fromhost_queue = <<>> /\ exitcode = 0 /\ stopped = FALSE /\ signal_exit = FALSE
  /\ commands = <<>> /\ taken = <<>>

ParseStep == ParseArguments /\ UNCHANGED <<memifVars, loadVars, hostVars, loopVars>>
Boot ==
  /\ LoadStep \/ (IF driver = "sim_main2" THEN SetupRom ELSE NoRom)
  /\ UNCHANGED <<argVars, hostVars, loopVars>>
EnterLoop ==
  /\ load \in {"ready", "bare"} /\ load' = "running"
  /\ UNCHANGED <<argVars, memifVars, todo, ph, half, symbols, addr2symbol, entry, tohost_addr,
                 fromhost_addr, hostVars, loopVars>>

-----------------------------------------------------------------------------
(* The main loop.                                                            *)

Running == load = "running" /\ stage = "idle" /\ ~thrown
Loops ==
  /\ ~signal_exit
  /\ driver = "sim_main2" => ~stopped
  /\ driver = "fesvr450" => exitcode \div 2 = 0

Poke(a, w) == mem' = [x \in Address |-> IF x \in Span(a, 2) THEN w[x - a] ELSE mem[x]]

\* A program that was loaded may write a command, and may take an answer.  Its
\* stores do not go through memif_t; one to the halting address ends the loop.
Word(a) == [j \in Span(0, 2) |-> mem[a + j]]
TargetRuns ==
  /\ driver = "sim_main2"
  /\ \/ \E c \in COMMANDS :
          /\ ~IsProgram /\ Poke(tohost_addr, Bytes(c))
          /\ commands' = Append(commands, c) /\ UNCHANGED taken
     \/ /\ ~IsProgram /\ Word(fromhost_addr) # Zeros(2)
        /\ Poke(fromhost_addr, Zeros(2))
        /\ taken' = Append(taken, Command(mem[fromhost_addr], mem[fromhost_addr + 1]))
        /\ UNCHANGED commands
     \/ UNCHANGED <<mem, commands, taken>>
  /\ turn' \in IF turns = SIM_TIME THEN {"left"} ELSE {"poll", "left"}

\* fesvr450.cc has no target: from its 101st turn on it writes an exit itself.
NoTarget ==
  /\ driver = "fesvr450"
  /\ IF turns >= FESVR_TURNS
     THEN /\ Poke(FESVR_TOHOST, Bytes(FESVR_EXIT))
          /\ commands' = IF tohost_addr = FESVR_TOHOST THEN Append(commands, FESVR_EXIT) ELSE commands
     ELSE UNCHANGED <<mem, commands>>
  /\ turn' = "poll" /\ UNCHANGED taken

Turn ==
  /\ Running /\ turn = "target" /\ Loops
  /\ TargetRuns \/ NoTarget
  /\ before' = mem' /\ call' = NoCall /\ out' = Zeros(0)
  /\ UNCHANGED <<argVars, loadVars, align, stage, addr, off, len, pos, left, thrown,
                 cmd, fromhost_queue, exitcode, stopped, driver, turns, signal_exit>>

\* A first signal ends the loop, a second one the process.
Signal ==
  /\ load # "failed" /\ parsing # "rejected" /\ turn # "over" /\ ~thrown
  /\ IF signal_exit THEN Die /\ UNCHANGED signal_exit
                     ELSE signal_exit' = TRUE /\ UNCHANGED loadVars
  /\ UNCHANGED <<argVars, memifVars, hostVars, driver, turns, commands, taken>>

-----------------------------------------------------------------------------
(* process_htio.                                                             *)

Host == UNCHANGED <<argVars, loadVars, loopVars>>
ReadWord(a, n) == Call([wr |-> FALSE, word |-> TRUE, addr |-> a, len |-> n, data |-> Zeros(n)])
WriteWord(a, w) == Call([wr |-> TRUE, word |-> TRUE, addr |-> a, len |-> 2, data |-> w])
ReadBytes(a, n) == Call([wr |-> FALSE, word |-> FALSE, addr |-> a, len |-> n, data |-> Zeros(n)])
WriteBytes(a, n, f) == Call([wr |-> TRUE, word |-> FALSE, addr |-> a, len |-> n, data |-> f])

Poll ==
  /\ Running /\ turn = "poll" /\ ReadWord(tohost_addr, 2) /\ turn' = "clear"
  /\ Host /\ UNCHANGED <<cmd, fromhost_queue, exitcode, stopped>>

\* What is found is cleared before it is handled.
Clear ==
  /\ Running /\ turn = "clear"
  /\ IF out = Zeros(2)
     THEN turn' = "check" /\ UNCHANGED <<cmd, memifVars>>
     ELSE WriteWord(tohost_addr, Zeros(2)) /\ cmd' = Command(out[0], out[1]) /\ turn' = "handle"
  /\ Host /\ UNCHANGED <<fromhost_queue, exitcode, stopped>>

\* A response carries the device and the command that it is for.
Response(c) == [c EXCEPT !.payload = 1]
respond == fromhost_queue' = Append(fromhost_queue, Response(cmd))

\* handle_syscall.
TestEnds ==
  /\ Running /\ turn = "handle" /\ Exits(cmd)
  /\ exitcode' = cmd.payload /\ stopped' = TRUE /\ turn' = "check"
  /\ Host /\ UNCHANGED <<cmd, fromhost_queue, memifVars>>
Dispatch ==
  /\ Running /\ turn = "handle" /\ IsSyscall(cmd) /\ ~Exits(cmd)
  /\ ReadBytes(cmd.payload, MAGICMEM) /\ turn' = "dispatch"
  /\ Host /\ UNCHANGED <<cmd, fromhost_queue, exitcode, stopped>>

\* The number is in the block and the result takes its place.  SYSCALL_EXIT
\* sets the exit code, but only an odd payload stops the simulation.
Return ==
  LET n == out[0]
      result == IF n = SYS_EXIT THEN 0 ELSE n
  IN /\ Running /\ turn = "dispatch" /\ n \in SYSCALLS
     /\ WriteBytes(cmd.payload, MAGICMEM, [out EXCEPT ![0] = result])
     /\ exitcode' = IF n = SYS_EXIT THEN 2 * out[1] + 1 ELSE exitcode
     /\ respond /\ turn' = "check"
     /\ Host /\ UNCHANGED <<cmd, stopped>>
BadSyscall ==
  /\ Running /\ turn = "dispatch" /\ out[0] \notin SYSCALLS
  /\ Die /\ UNCHANGED <<argVars, memifVars, hostVars, loopVars>>

\* The last command of every device, those that are not there too, writes the
\* name of one of its commands.
handle_identify ==
  LET what == cmd.payload % MAX_COMMANDS
      a == NamePlace(cmd)
      id == IF cmd.device = 0 THEN NAME[what] ELSE Zeros(IDENTITY_SIZE)
  IN /\ Running /\ turn = "handle" /\ cmd.cmd = MAX_COMMANDS - 1
     /\ IF a % IDENTITY_SIZE # 0
        THEN Die /\ UNCHANGED <<argVars, memifVars, hostVars, loopVars>>
        ELSE /\ WriteBytes(a, IDENTITY_SIZE, id)
             /\ respond /\ turn' = "check"
             /\ Host /\ UNCHANGED <<cmd, exitcode, stopped>>

\* Any other command is a null command, which nobody answers.
handle_null_command_Answers ==
  /\ Running /\ turn = "handle" /\ ~IsSyscall(cmd) /\ cmd.cmd # MAX_COMMANDS - 1
  /\ respond /\ turn' = "check"
  /\ Host /\ UNCHANGED <<cmd, exitcode, stopped, memifVars>>
handle_null_command ==
  /\ Running /\ turn = "handle" /\ ~IsSyscall(cmd) /\ cmd.cmd # MAX_COMMANDS - 1
  /\ turn' = "check"
  /\ Host /\ UNCHANGED <<cmd, fromhost_queue, exitcode, stopped, memifVars>>

\* One response goes to fromhost, when that is free.
\* All turns of fesvr450.cc from FESVR_TURNS on are alike.
EndTurn ==
  /\ turns' = IF driver = "fesvr450" THEN smaller(turns + 1, FESVR_TURNS) ELSE turns + 1
  /\ UNCHANGED <<argVars, loadVars, driver, signal_exit, commands, taken>>
Check ==
  /\ Running /\ turn = "check"
  /\ IF fromhost_queue = <<>>
     THEN turn' = "target" /\ EndTurn /\ UNCHANGED memifVars
     ELSE ReadWord(fromhost_addr, 2) /\ turn' = "deliver" /\ Host
  /\ UNCHANGED <<cmd, fromhost_queue, exitcode, stopped>>
Deliver ==
  /\ Running /\ turn = "deliver" /\ turn' = "target"
  /\ IF out = Zeros(2)
     THEN WriteWord(fromhost_addr, Bytes(Head(fromhost_queue))) /\ fromhost_queue' = Tail(fromhost_queue)
     ELSE UNCHANGED <<fromhost_queue, memifVars>>
  /\ EndTurn /\ UNCHANGED <<cmd, exitcode, stopped>>

ProcessHtio == Poll \/ Clear \/ TestEnds \/ Dispatch \/ Return \/ BadSyscall
               \/ handle_identify \/ handle_null_command \/ Check \/ Deliver

\* stop() reads a word of memory.  It has no signature to write.
Stop ==
  /\ Running /\ (turn = "left" \/ (turn = "target" /\ ~Loops))
  /\ ReadBytes(STOP_ADDR, 2) /\ turn' = "over" /\ stopped' = TRUE
  /\ Host /\ UNCHANGED <<cmd, fromhost_queue, exitcode>>

Work == MemStep /\ load = "running" /\ UNCHANGED <<argVars, loadVars, hostVars, loopVars>>

Next == ParseStep \/ Boot \/ EnterLoop \/ Turn \/ Signal \/ ProcessHtio \/ Stop \/ Work
Spec == Init /\ [][Next]_vars

-----------------------------------------------------------------------------
(* Properties.                                                               *)

\* The answers to the first n commands.
Answers == LET to[n \in 0..Len(commands)] ==
                 IF n = 0 THEN <<>>
                 ELSE IF Answered(commands[n]) THEN Append(to[n - 1], Response(commands[n]))
                 ELSE to[n - 1]
           IN to

Message(word) == IF word = Zeros(2) THEN <<>> ELSE <<Command(word[0], word[1])>>

\* device.h:20, 23 and htif.cc:222: between two turns of the host, what the
\* target has taken, the word in fromhost and the queue are the answers to the
\* commands so far: one each, in order, to the device and command that asked,
\* none to a command that nobody handles, and no word that was not taken is
\* written over.  And the exit code is that of the program's last exit.
ConversationExact ==
  (Running /\ turn = "target") =>
    /\ taken \o Message(Word(fromhost_addr)) \o fromhost_queue = Answers[Len(commands)]
    /\ \A k \in DOMAIN commands :
         Exits(commands[k]) /\ (\A j \in DOMAIN commands : j > k => ~Exits(commands[j]))
           => stopped /\ exitcode = commands[k].payload
=============================================================================
