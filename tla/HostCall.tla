----------------------------- MODULE HostCall -------------------------------
(* A program calls the host: it fills tohost_cmd, stores its address in      *)
(* tohost, polls fromhost, clears it and loads the answer.  The core fetches *)
(* past the poll on a prediction and issues memory accesses out of order;    *)
(* the host looks at memory between any two of its cycles.  A 64-bit         *)
(* variable is modelled by its low word: all its high words stay 0.          *)
EXTENDS Integers, Sequences

CONSTANTS PROGRAM,       \* the calls: a sequence of [num, arg]
          Answer(_, _),  \* what a system call returns
          TOHOST_CMD,    \* address of tohost_cmd, as it is stored in tohost
          EXIT_CODE,
          WINDOW         \* bound: accesses in flight

ASSUME HostCallAssumption ==
  /\ PROGRAM \in Seq([num : Int, arg : Int]) /\ EXIT_CODE \in Nat /\ WINDOW \in Nat \ {0}
  /\ TOHOST_CMD \in Nat \ {0} /\ TOHOST_CMD % 2 = 0
  /\ \A c \in DOMAIN PROGRAM : Answer(PROGRAM[c].num, PROGRAM[c].arg) \in Int

VARIABLES
  fetch,     \* call and step that is fetched next
  window,    \* the accesses in flight, oldest first; the executed stores
             \* among them are the store buffer (LoadStore: BufferExact)
  words,     \* memory, by word
  fromhost_queue, exitcode, stopped,  \* the host
  served, results                     \* what was done: no action reads them
core == <<fetch, window>>
host == <<fromhost_queue, exitcode, stopped>>
vars == <<core, words, host, served, results>>

-----------------------------------------------------------------------------
(* The program.                                                              *)

Word == [num |-> "num", arg |-> "arg", ring |-> "tohost", poll |-> "fromhost",
         ack |-> "fromhost", result |-> "num", exit |-> "tohost"]
IsLoad(e) == e.step \in {"poll", "result"}

\* What a store of call c stores.
Data(c, step) ==
  CASE step = "num"  -> PROGRAM[c].num
    [] step = "arg"  -> PROGRAM[c].arg
    [] step = "ring" -> TOHOST_CMD
    [] step = "ack"  -> 0
    [] step = "exit" -> 2 * EXIT_CODE + 1

Enter(c) == [call |-> c, step |-> IF c > Len(PROGRAM) THEN "exit" ELSE "num"]

\* Where the program goes on: it polls until it finds an answer.
After(c, step, found) ==
  LET to(s) == [call |-> c, step |-> s] IN
  CASE step = "num"    -> to("arg")
    [] step = "arg"    -> to("ring")
    [] step = "ring"   -> to("poll")
    [] step = "poll"   -> to(IF found THEN "ack" ELSE "poll")
    [] step = "ack"    -> to("result")
    [] step = "result" -> Enter(c + 1)
    [] step = "exit"   -> to("exit")

-----------------------------------------------------------------------------
(* The core.                                                                 *)

\* The next access, with the prediction that the poll finds an answer or not.
Fetch == \E found \in BOOLEAN :
  /\ ~stopped /\ Len(window) < WINDOW
  /\ fetch.step # "poll" => found
  /\ window' = Append(window, [call |-> fetch.call, step |-> fetch.step,
                               found |-> found, issued |-> FALSE, val |-> 0])
  /\ fetch' = After(fetch.call, fetch.step, found)
  /\ UNCHANGED <<words, host, served, results>>

\* Loads overtake loads, but nothing overtakes a store and a store nothing.
MayIssue_LoadsPassStores(k) == \A j \in 1..(k - 1) :
  window[j].issued \/ IsLoad(window[k])
MayIssue(k) == \A j \in 1..(k - 1) :
  window[j].issued \/ (IsLoad(window[j]) /\ IsLoad(window[k]))

\* A load takes the youngest store of the buffer, or memory.
Buffered(w) == {k \in DOMAIN window : window[k].issued /\ ~IsLoad(window[k]) /\ Word[window[k].step] = w}
LoadData(w) ==
  IF Buffered(w) = {} THEN words[w]
  ELSE window[CHOOSE k \in Buffered(w) : \A j \in Buffered(w) : j <= k].val

Issue == \E k \in DOMAIN window :
  LET e == window[k] IN
  /\ ~stopped /\ ~e.issued /\ MayIssue(k)
  /\ window' = [window EXCEPT ![k].issued = TRUE,
                              ![k].val = IF IsLoad(e) THEN LoadData(Word[e.step]) ELSE Data(e.call, e.step)]
  /\ UNCHANGED <<fetch, words, host, served, results>>

\* The oldest access retires.  A store goes to memory; a poll whose branch was
\* mispredicted throws away all that was fetched behind it.
Retire ==
  LET e == Head(window)
      recover == e.step = "poll" /\ (e.val # 0) # e.found
  IN /\ ~stopped /\ window # <<>> /\ e.issued
     /\ window' = IF recover THEN <<>> ELSE Tail(window)
     /\ fetch'  = IF recover THEN After(e.call, e.step, e.val # 0) ELSE fetch
     /\ words' = IF IsLoad(e) THEN words ELSE [words EXCEPT ![Word[e.step]] = e.val]
     /\ results' = IF e.step = "result" THEN Append(results, e.val) ELSE results
     /\ UNCHANGED <<host, served>>

-----------------------------------------------------------------------------
(* The host.                                                                 *)

\* The callback of a command queues its response.
respond_Lost(q) == q
respond(q) == Append(q, 1)

\* An odd payload ends the simulation and is not answered; any other is the
\* address of a call: all of its words are read, and all are written back.
handle_syscall(m, payload) ==
  IF payload % 2 = 1
  THEN [mem |-> m, exitcode |-> payload, stopped |-> TRUE,
        queue |-> fromhost_queue, calls |-> <<>>]
  ELSE [mem |-> [m EXCEPT !["num"] = Answer(m["num"], m["arg"])],
        exitcode |-> exitcode, stopped |-> stopped,
        queue |-> respond(fromhost_queue), calls |-> <<[num |-> m["num"], arg |-> m["arg"]]>>]

Nothing == [mem |-> words, exitcode |-> exitcode, stopped |-> stopped,
            queue |-> fromhost_queue, calls |-> <<>>]

\* What is found in tohost is cleared and carried out.
Taken ==
  IF words["tohost"] = 0 THEN Nothing
  ELSE handle_syscall([words EXCEPT !["tohost"] = 0], words["tohost"])

\* process_htio: then one response goes to fromhost, if that is free.
HostIo ==
  LET t == Taken
      free == t.queue # <<>> /\ t.mem["fromhost"] = 0
  IN /\ ~stopped
     /\ words' = IF free THEN [t.mem EXCEPT !["fromhost"] = Head(t.queue)] ELSE t.mem
     /\ fromhost_queue' = IF free THEN Tail(t.queue) ELSE t.queue
     /\ exitcode' = t.exitcode /\ stopped' = t.stopped
     /\ served' = served \o t.calls
     /\ UNCHANGED <<core, results>>

-----------------------------------------------------------------------------
Init ==
  /\ fetch = Enter(1) /\ window = <<>>
  /\ words = [w \in {"tohost", "fromhost", "num", "arg"} |-> 0]
  /\ fromhost_queue = <<>> /\ exitcode = 0 /\ stopped = FALSE
  /\ served = <<>> /\ results = <<>>

Next == Fetch \/ Issue \/ Retire \/ HostIo
Spec == Init /\ [][Next]_vars
\* The clock runs, and the host looks at memory after every change of it.
FairSpec == Spec /\ WF_vars(Fetch) /\ WF_vars(Issue) /\ WF_vars(Retire) /\ WF_vars(HostIo)

-----------------------------------------------------------------------------
(* Properties.                                                               *)

\* The whole exchange (ExecLib.c:13 send_syscall, htif.cc:240 process_htio)
\* carries out each call once and returns its own answer, although the load of
\* the answer is fetched, and may be issued, before the poll has found one:
\* only the store that clears fromhost, which lies between them, holds it back.
Remote == INSTANCE RemoteCalls
ImplementsRemoteCalls == Remote!Spec

\* The program always gets through, whatever is predicted: each poll that
\* failed is made again, no response is lost between the two sides, and the
\* host ends the simulation with the program's own exit code.
EveryCallReturns == <>(Len(results) = Len(PROGRAM) /\ stopped /\ exitcode \div 2 = EXIT_CODE)
=============================================================================
