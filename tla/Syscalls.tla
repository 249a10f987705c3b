------------------------------ MODULE Syscalls -------------------------------
(* syscall_t: the system calls of a program, and the table through which it  *)
(* reaches the host's files.  A name stands for the string at its address,   *)
(* and a negative number for the reg_t of the same bits.  The host's files   *)
(* are external: any call of the host may fail, with any of its errors; a    *)
(* close that fails may have released the host's descriptor or not.          *)
(* set_chroot is never called, so that do_chroot and undo_chroot change      *)
(* nothing.                                                                  *)
EXTENDS Integers, Sequences

CONSTANTS
  HOST,           \* descriptors that the host can hand out, but its own 0 to 2
  FILES,          \* files of the host
  STDIN, STDOUT,  \* two of them
  CWD,            \* the path of the working directory at the start; paths are absolute
  TEXT,           \* the bytes of a path
  DISKS, DATAS,   \* at the start: the file of some paths, and each file's bytes
  MAX_FILE,       \* bytes that a file can have
  ERRNO,          \* errors of the host
  CHAR,           \* values of a byte, also of what is not initialized
  BUFFERS,        \* the program's buffers, with their bytes at the start
  TARGS,          \* target_args(): the bytes of each of the program's arguments
  FDS, SIZES,     \* what a program passes as a descriptor, as a number of bytes,
  DIRS, PATHS, PLACES  \* as a directory's descriptor, as a path and as a buffer

AT_FDCWD == -100
EPERM  == 1
ENOMEM == 12
ENOSYS == 38

ASSUME SyscallsAssumption ==
  /\ HOST \subseteq Nat /\ \E g \in [1..3 -> HOST] : \A i, j \in 1..3 : g[i] = g[j] => i = j
  /\ STDIN \in FILES /\ STDOUT \in FILES
  /\ ERRNO \subseteq Nat \ {0} /\ MAX_FILE \in Nat

VARIABLES
  fds,     \* fds[fd + 1] is the host's descriptor of fd; -1: it is free
  open,    \* the file of each descriptor that the host has handed out
  offset,  \* and where it is in its file
  raw,     \* those of them that fcntl has handed to the program itself
  dir, data, cwd,  \* the host's files: by path, their bytes, the directory
  tmem,    \* the program's buffers
  printed, \* what printstr has printed
  ret,     \* what the last call has returned
  exit,
  \* No action reads the others:
  holds,   \* the file of each fd that the program was given and has not closed
  torn,    \* those whose close failed when the host had released its descriptor
  retried  \* one of these was closed again
table == <<fds, open, offset, raw, holds, torn, retried>>
disk == <<dir, data, cwd>>
rest == <<printed, exit>>
sysVars == <<table, disk, tmem, ret, rest>>

\* syscall_t(): stdin, and stdout twice, are duplicated and put in the table.
SysInit ==
  /\ \E g \in [1..3 -> HOST] :
       /\ \A i, j \in 1..3 : i < j => g[i] < g[j]
       /\ \A i \in 1..3, h \in HOST : h < g[i] => \E j \in 1..3 : h = g[j]
       /\ fds = <<g[1], g[2], g[3]>>
       /\ open = [h \in {g[1], g[2], g[3]} |-> IF h = g[1] THEN STDIN ELSE STDOUT]
       /\ offset = [h \in {g[1], g[2], g[3]} |-> 0]
  /\ raw = {} /\ holds = [fd \in 0..2 |-> IF fd = 0 THEN STDIN ELSE STDOUT]
  /\ torn = {} /\ retried = FALSE
  /\ dir \in DISKS /\ data \in DATAS /\ cwd = CWD
  /\ tmem = BUFFERS /\ printed = <<>> /\ ret = 0 /\ exit = -1

-----------------------------------------------------------------------------
(* fds_t.                                                                    *)

lookup(fd) ==
  IF fd = AT_FDCWD THEN AT_FDCWD
  ELSE IF fd \in 0..(Len(fds) - 1) THEN fds[fd + 1] ELSE -1

\* The first free place, or one behind all.
alloc(h) == \E i \in 1..(Len(fds) + 1) :
  /\ \A j \in 1..(i - 1) : fds[j] # -1
  /\ i <= Len(fds) => fds[i] = -1
  /\ fds' = IF i > Len(fds) THEN Append(fds, h) ELSE [fds EXCEPT ![i] = h]
  /\ ret' = i - 1

dealloc(fd) == fds' = [fds EXCEPT ![fd + 1] = -1]

-----------------------------------------------------------------------------
(* The calls.                                                                *)

\* The host fails.
sysret_errno == \E e \in ERRNO : ret' = -e

IsOpen(h) == h \in DOMAIN open
\* The host hands out the least descriptor that is free, from `least' on.
Hands(h, least) ==
  LET free == {g \in HOST : ~IsOpen(g) /\ g >= least} IN h \in free /\ \A g \in free : h <= g
\* A path is looked up in the working directory, or in an open one.
AtOk(dirfd) == lookup(dirfd) = AT_FDCWD \/ IsOpen(lookup(dirfd))

Store(p, bytes) ==
  tmem' = [tmem EXCEPT ![p] = bytes \o SubSeq(@, Len(bytes) + 1, Len(@))]
Overwrite(bytes, at, new) ==
  [i \in 1..(IF Len(bytes) > at + Len(new) THEN Len(bytes) ELSE at + Len(new)) |->
     IF i \in (at + 1)..(at + Len(new)) THEN new[i - at]
     ELSE IF i <= Len(bytes) THEN bytes[i] ELSE 0]

\* The bytes of file f from `at' on, n at most.
Bytes(f, at, n) ==
  SubSeq(data[f], at + 1, IF at + n > Len(data[f]) THEN Len(data[f]) ELSE at + n)
Got(p, bytes) == ret' = Len(bytes) /\ IF bytes = <<>> THEN UNCHANGED tmem ELSE Store(p, bytes)

\* Standard input and output are a terminal, which keeps nothing.
IsFile(h) == IsOpen(h) /\ open[h] \notin {STDIN, STDOUT}
IsTerminal(h) == IsOpen(h) /\ ~IsFile(h)

sys_read(fd, p, n) ==
  /\ LET h == lookup(fd)
         got == Bytes(open[h], offset[h], n)
     IN \/ IsFile(h) /\ Got(p, got) /\ offset' = [offset EXCEPT ![h] = @ + Len(got)]
        \/ \E m \in 0..n, b \in CHAR :
             IsTerminal(h) /\ Got(p, [i \in 1..m |-> b]) /\ UNCHANGED offset
        \/ sysret_errno /\ UNCHANGED <<offset, tmem>>
  /\ UNCHANGED <<fds, open, raw, holds, torn, retried, disk, rest>>

sys_pread(fd, p, n, at) ==
  /\ \/ LET h == lookup(fd) IN IsFile(h) /\ Got(p, Bytes(open[h], at, n))
     \/ sysret_errno /\ UNCHANGED tmem
  /\ UNCHANGED <<table, disk, rest>>

WriteAt(h, p, n, at) ==
  /\ at + n <= MAX_FILE /\ ret' = n
  /\ data' = [data EXCEPT ![open[h]] = IF n = 0 THEN @ ELSE Overwrite(@, at, SubSeq(tmem[p], 1, n))]

sys_write(fd, p, n) ==
  /\ LET h == lookup(fd) IN
     \/ IsFile(h) /\ WriteAt(h, p, n, offset[h]) /\ offset' = [offset EXCEPT ![h] = @ + n]
     \/ IsTerminal(h) /\ ret' = n /\ UNCHANGED <<offset, data>>
     \/ sysret_errno /\ UNCHANGED <<offset, data>>
  /\ UNCHANGED <<fds, open, raw, holds, torn, retried, dir, cwd, tmem, rest>>

sys_pwrite(fd, p, n, at) ==
  /\ \/ IsFile(lookup(fd)) /\ WriteAt(lookup(fd), p, n, at)
     \/ sysret_errno /\ UNCHANGED data
  /\ UNCHANGED <<table, dir, cwd, tmem, rest>>

\* The host's descriptor h is free again.
Releases(h) ==
  /\ IsOpen(h) /\ raw' = raw \ {h}
  /\ open' = [g \in DOMAIN open \ {h} |-> open[g]]
  /\ offset' = [g \in DOMAIN offset \ {h} |-> offset[g]]
\* The place of fd is free again only when the host's close has succeeded.
sys_close_FreesFirst(fd) ==
  /\ \/ Releases(lookup(fd)) /\ ret' = 0
     \/ sysret_errno /\ UNCHANGED <<open, offset, raw>>
  /\ IF fd + 1 \in DOMAIN fds THEN dealloc(fd) ELSE UNCHANGED fds
  /\ holds' = [f \in DOMAIN holds \ {fd} |-> holds[f]] /\ torn' = torn \ {fd}
  /\ UNCHANGED <<retried, disk, tmem, rest>>
sys_close(fd) ==
  /\ \/ /\ Releases(lookup(fd)) /\ ret' = 0 /\ dealloc(fd)
        /\ holds' = [f \in DOMAIN holds \ {fd} |-> holds[f]] /\ torn' = torn \ {fd}
     \/ /\ Releases(lookup(fd)) /\ sysret_errno /\ UNCHANGED <<fds, holds>>
        /\ torn' = torn \cup {fd}
     \/ sysret_errno /\ UNCHANGED <<fds, open, offset, raw, holds, torn>>
  /\ retried' = (retried \/ fd \in torn)
  /\ UNCHANGED <<disk, tmem, rest>>

\* SEEK_SET, SEEK_CUR and SEEK_END.
sys_lseek(fd, off, whence) ==
  LET h == lookup(fd)
      to == off + (CASE whence = 0 -> 0 [] whence = 1 -> offset[h] [] whence = 2 -> Len(data[open[h]]))
  IN /\ \/ IsFile(h) /\ to \in 0..MAX_FILE /\ ret' = to /\ offset' = [offset EXCEPT ![h] = to]
        \/ sysret_errno /\ UNCHANGED offset
     /\ UNCHANGED <<fds, open, raw, holds, torn, retried, disk, tmem, rest>>

\* Of its fields, the size.
riscv_stat(f) == <<Len(data[f])>>
\* ret is never -1 but for EPERM: any other failure sends to the program what
\* happens to be in the host's buffer.
StatInto(ok, f, p) ==
  /\ \/ ok /\ ret' = 0 /\ Store(p, riscv_stat(f))
     \/ /\ sysret_errno
        /\ IF ret' = -EPERM THEN UNCHANGED tmem
                            ELSE \E b \in CHAR : Store(p, <<b>>)
  /\ UNCHANGED <<table, disk, rest>>
sys_fstat(fd, p) == LET h == lookup(fd) IN StatInto(IsOpen(h), open[h], p)
sys_lstat(n, p) == StatInto(n \in DOMAIN dir, dir[n], p)
sys_fstatat(dirfd, n, p) == StatInto(AtOk(dirfd) /\ n \in DOMAIN dir, dir[n], p)

\* fcntl goes to the host as it is: a descriptor that it duplicates (F_DUPFD)
\* is not put in the table.
sys_fcntl(fd, dup, least) ==
  LET h == lookup(fd) IN
  /\ \/ IsOpen(h) /\ ~dup /\ ret' = 0 /\ UNCHANGED <<open, offset, raw>>
     \/ \E g \in HOST :
          /\ IsOpen(h) /\ dup /\ Hands(g, least) /\ ret' = g /\ raw' = raw \cup {g}
          /\ open' = [i \in DOMAIN open \cup {g} |-> IF i = g THEN open[h] ELSE open[i]]
          /\ offset'  = [i \in DOMAIN open \cup {g} |-> IF i = g THEN offset[h] ELSE offset[i]]
     \/ sysret_errno /\ UNCHANGED <<open, offset, raw>>
  /\ UNCHANGED <<fds, holds, torn, retried, disk, tmem, rest>>

sys_ftruncate(fd, n) ==
  LET h == lookup(fd)
      new(old) == [i \in 1..n |-> IF i <= Len(old) THEN old[i] ELSE 0]
  IN /\ \/ IsFile(h) /\ n <= MAX_FILE /\ ret' = 0 /\ data' = [data EXCEPT ![open[h]] = new(@)]
        \/ sysret_errno /\ UNCHANGED data
     /\ UNCHANGED <<table, dir, cwd, tmem, rest>>

\* HAVE_STATX is not defined.
sys_statx == ret' = -ENOSYS /\ UNCHANGED <<table, disk, tmem, rest>>

\* A new file is empty.
Unused(f) == f \notin {STDIN, STDOUT} \cup {dir[n] : n \in DOMAIN dir} \cup {open[h] : h \in DOMAIN open}
Names(n, f) == [m \in DOMAIN dir \cup {n} |-> IF m = n THEN f ELSE dir[m]]
sys_openat(dirfd, n, creat) ==
  /\ \/ \E h \in HOST, f \in FILES :
          /\ AtOk(dirfd) /\ Hands(h, 0)
          /\ \/ n \in DOMAIN dir /\ f = dir[n] /\ UNCHANGED <<dir, data>>
             \/ /\ n \notin DOMAIN dir /\ creat /\ Unused(f)
                /\ dir' = Names(n, f) /\ data' = [data EXCEPT ![f] = <<>>]
          /\ open' = [g \in DOMAIN open \cup {h} |-> IF g = h THEN f ELSE open[g]]
          /\ offset'  = [g \in DOMAIN open \cup {h} |-> IF g = h THEN 0 ELSE offset[g]]
          /\ alloc(h)
          /\ holds' = [fd \in DOMAIN holds \cup {ret'} |-> IF fd = ret' THEN f ELSE holds[fd]]
     \/ sysret_errno /\ UNCHANGED <<fds, open, offset, holds, dir, data>>
  /\ UNCHANGED <<raw, torn, retried, cwd, tmem, rest>>

\* The calls on paths.
OnPath(ok, newdir) ==
  /\ \/ ok /\ ret' = 0 /\ dir' = newdir
     \/ sysret_errno /\ UNCHANGED dir
  /\ UNCHANGED <<table, data, cwd, tmem, rest>>
Without(n) == [m \in DOMAIN dir \ {n} |-> dir[m]]

sys_faccessat(dirfd, n) == OnPath(AtOk(dirfd) /\ n \in DOMAIN dir, dir)
sys_renameat(odirfd, o, ndirfd, n) ==
  OnPath(AtOk(odirfd) /\ AtOk(ndirfd) /\ o \in DOMAIN dir,
         IF o = n THEN dir ELSE [m \in (DOMAIN dir \ {o}) \cup {n} |-> IF m = n THEN dir[o] ELSE dir[m]])
sys_linkat(odirfd, o, ndirfd, n) ==
  OnPath(AtOk(odirfd) /\ AtOk(ndirfd) /\ o \in DOMAIN dir /\ n \notin DOMAIN dir, Names(n, dir[o]))
sys_unlinkat(dirfd, n) == OnPath(AtOk(dirfd) /\ n \in DOMAIN dir, Without(n))
\* A directory is a file without bytes.
sys_mkdirat(dirfd, n) == \E f \in FILES :
  OnPath(AtOk(dirfd) /\ n \notin DOMAIN dir /\ Unused(f) /\ data[f] = <<>>, Names(n, f))

sys_chdir(n) ==
  /\ \/ n \in DOMAIN dir /\ ret' = 0 /\ cwd' = n
     \/ sysret_errno /\ UNCHANGED cwd
  /\ UNCHANGED <<table, dir, data, tmem, rest>>

\* With the byte that ends it.
sys_getcwd(p, size) ==
  /\ \/ /\ size > Len(TEXT[cwd]) /\ ret' = Len(TEXT[cwd]) + 1
        /\ Store(p, Append(TEXT[cwd], 0))
     \/ sysret_errno /\ UNCHANGED tmem
  /\ UNCHANGED <<table, disk, rest>>

\* argc, the addresses of the arguments, two zeros, and the arguments, each
\* with the byte that ends it; a word is one byte and the buffer is at 0.
mainvars ==
  LET n == Len(TARGS)
      size[i \in 0..n] == IF i = 0 THEN n + 3 ELSE size[i - 1] + Len(TARGS[i]) + 1
      text[i \in 0..n] == IF i = 0 THEN <<>> ELSE text[i - 1] \o TARGS[i] \o <<0>>
  IN <<n>> \o [i \in 1..n |-> size[i - 1]] \o <<0, 0>> \o text[n]
sys_getmainvars(p, limit) ==
  /\ IF Len(mainvars) > limit THEN ret' = -ENOMEM /\ UNCHANGED tmem
                              ELSE ret' = 0 /\ Store(p, mainvars)
  /\ UNCHANGED <<table, disk, rest>>

\* It prints up to the first zero.
CString(bytes) ==
  LET ends == {i \in 1..Len(bytes) : bytes[i] = 0 /\ \A j \in 1..(i - 1) : bytes[j] # 0}
  IN SubSeq(bytes, 1, IF ends = {} THEN Len(bytes) ELSE (CHOOSE i \in ends : TRUE) - 1)
sys_printstr(text) ==
  printed' = Append(printed, text) /\ ret' = 0 /\ UNCHANGED <<table, disk, tmem, exit>>

\* It sets the exit code alone: see Return of Session.
sys_exit(code) == exit' = code /\ ret' = 0 /\ UNCHANGED <<table, disk, tmem, printed>>
-----------------------------------------------------------------------------
(* Any program.                                                              *)

\* The numbers of the handlers in the table, and dispatch to them.
Numbers == {17, 25, 34, 35, 37, 38, 46, 48, 49, 56, 57, 62, 63, 64, 67, 68, 79, 80, 93,
            291, 1039, 2011, 2012}
\* A program's buffers are as long as it says.
dispatch(n) == LET Buffer(size) == {p \in PLACES : size <= Len(BUFFERS[p])} IN
  \/ n = 17   /\ \E size \in SIZES : \E p \in Buffer(size) : sys_getcwd(p, size)
  \/ n = 25   /\ \E fd \in FDS, dup \in BOOLEAN, least \in SIZES : sys_fcntl(fd, dup, least)
  \/ n = 34   /\ \E fd \in DIRS, m \in PATHS : sys_mkdirat(fd, m)
  \/ n = 35   /\ \E fd \in DIRS, m \in PATHS : sys_unlinkat(fd, m)
  \/ n = 37   /\ \E fd, gd \in DIRS, m, o \in PATHS : sys_linkat(fd, m, gd, o)
  \/ n = 38   /\ \E fd, gd \in DIRS, m, o \in PATHS : sys_renameat(fd, m, gd, o)
  \/ n = 46   /\ \E fd \in FDS, size \in SIZES : sys_ftruncate(fd, size)
  \/ n = 48   /\ \E fd \in DIRS, m \in PATHS : sys_faccessat(fd, m)
  \/ n = 49   /\ \E m \in PATHS : sys_chdir(m)
  \/ n = 56   /\ \E fd \in DIRS, m \in PATHS, creat \in BOOLEAN : sys_openat(fd, m, creat)
  \/ n = 57   /\ \E fd \in FDS : sys_close(fd)
  \/ n = 62   /\ \E fd \in FDS, off \in SIZES, whence \in 0..2 : sys_lseek(fd, off, whence)
  \/ n = 63   /\ \E fd \in FDS, size \in SIZES : \E p \in Buffer(size) : sys_read(fd, p, size)
  \/ n = 64   /\ \E fd \in FDS, size \in SIZES : \E p \in Buffer(size) : sys_write(fd, p, size)
  \/ n = 67   /\ \E fd \in FDS, size, off \in SIZES : \E p \in Buffer(size) : sys_pread(fd, p, size, off)
  \/ n = 68   /\ \E fd \in FDS, size, off \in SIZES : \E p \in Buffer(size) : sys_pwrite(fd, p, size, off)
  \/ n = 79   /\ \E fd \in DIRS, m \in PATHS, p \in Buffer(1) : sys_fstatat(fd, m, p)
  \/ n = 80   /\ \E fd \in FDS, p \in Buffer(1) : sys_fstat(fd, p)
  \/ n = 93   /\ \E code \in SIZES : sys_exit(code)
  \/ n = 291  /\ sys_statx
  \/ n = 1039 /\ \E m \in PATHS, p \in Buffer(1) : sys_lstat(m, p)
  \/ n = 2011 /\ \E limit \in SIZES : \E p \in Buffer(limit) : sys_getmainvars(p, limit)
  \/ n = 2012 /\ \E p \in Buffer(1) : sys_printstr(CString(tmem[p]))

SysNext == \E n \in Numbers : dispatch(n)
SysSpec == SysInit /\ [][SysNext]_sysVars

-----------------------------------------------------------------------------
(* Properties.                                                               *)

Live == {fd \in 0..(Len(fds) - 1) : fds[fd + 1] # -1}

\* syscall.h:16, syscall.cc:268, 484: each descriptor that the program was given
\* and has not closed leads to the file it was opened for; no two share one of
\* the host's, so that a close never takes the file of another; what the program
\* has closed leads nowhere until it is given again, and no descriptor of the
\* host is lost or left open: whatever other calls failed, and whatever places of
\* the table were used again.  A close that fails when the host has released its
\* descriptor harms this one alone: it keeps the place, with a number that the
\* host may give to another.  All this ends when the program closes it again.
FdsExact ==
  LET sound == Live \ torn IN
  /\ DOMAIN holds = Live
  /\ ~retried =>
       /\ \A fd \in sound : fds[fd + 1] \in DOMAIN open \ raw /\ open[fds[fd + 1]] = holds[fd]
       /\ \A fd, gd \in sound : fds[fd + 1] = fds[gd + 1] => fd = gd
       /\ \A h \in DOMAIN open \ raw : \E fd \in sound : fds[fd + 1] = h
=============================================================================
