----------------------------- MODULE Arguments ------------------------------
(* parse_arguments of htif_t: what of an argument vector is for the host and *)
(* what for the target.  One action is one turn of its loop.  A token is     *)
(* [kind, val]: "help" is any of -h, --help, +h and +help; "payload" is      *)
(* --payload, whose value is the next token; "payload=" has its own; "plus"  *)
(* is one of the other options with a +, whose code is not there any more.   *)
EXTENDS Integers, Sequences, FiniteSets

CONSTANT ARGVS   \* argument vectors, without the program's name

VARIABLES argv, optind,
          permissive,  \* getopt's opterr is 0
          payloads, targs,
          parsing      \* "options", "done", or "rejected": it has thrown
argVars == <<argv, optind, permissive, payloads, targs, parsing>>

Kinds == {"help", "payload", "payload=", "plus", "unknown", "permissive",
          "permissive-off", "plain", "--"}

ASSUME ArgumentsAssumption == ARGVS \subseteq Seq([kind : Kinds, val : STRING])

ArgsInit ==
  /\ argv \in ARGVS /\ optind = 1 /\ permissive = FALSE
  /\ payloads = <<>> /\ targs = <<>> /\ parsing = "options"

\* getopt_long stands at a token of one of these kinds.
At(kinds) == parsing = "options" /\ optind <= Len(argv) /\ argv[optind].kind \in kinds

Skip == optind' = optind + 1 /\ UNCHANGED <<argv, payloads, targs, parsing>>
Throw == parsing' = "rejected" /\ UNCHANGED <<argv, optind, permissive, payloads, targs>>

\* The rest is for the target, and there has to be one.
Targets(first) ==
  /\ targs' = SubSeq(argv, first, Len(argv)) /\ optind' = Len(argv) + 1
  /\ parsing' = IF targs' = <<>> THEN "rejected" ELSE "done"
  /\ UNCHANGED <<argv, permissive, payloads>>

Help == At({"help"}) /\ Throw

\* A value is not looked at, whatever it is.
Payload ==
  LET own == argv[optind].kind = "payload=" IN
  /\ At({"payload", "payload="}) /\ (own \/ optind < Len(argv))
  /\ payloads' = Append(payloads, argv[IF own THEN optind ELSE optind + 1].val)
  /\ optind' = IF own THEN optind + 1 ELSE optind + 2
  /\ UNCHANGED <<argv, permissive, targs, parsing>>

\* getopt_long answers '?' also to a --payload at the end.
Unknown ==
  /\ At({"unknown"}) \/ (At({"payload"}) /\ optind = Len(argv))
  /\ IF permissive THEN Skip /\ UNCHANGED permissive ELSE Throw

Plus == At({"plus"}) /\ Skip /\ UNCHANGED permissive

Permissive ==
  /\ At({"permissive", "permissive-off"})
  /\ IF permissive = (argv[optind].kind = "permissive")
     THEN Throw ELSE Skip /\ permissive' = ~permissive

\* getopt_long is past a token that it hands out.
Plain_NotPutBack ==
  /\ At({"plain"})
  /\ IF permissive THEN Skip /\ UNCHANGED permissive ELSE Targets(optind + 1)
Plain ==
  /\ At({"plain"})
  /\ IF permissive THEN Skip /\ UNCHANGED permissive ELSE Targets(optind)

End ==
  /\ At({"--"}) \/ (parsing = "options" /\ optind > Len(argv))
  /\ Targets(optind + 1)

ParseArguments == Help \/ Payload \/ Unknown \/ Plus \/ Permissive \/ Plain \/ End

-----------------------------------------------------------------------------
(* Properties.                                                               *)

\* A token that is the value of the option before it, one that is read as what
\* it is, and whether the toggles so far make the reading strict.
IsValue == LET v[i \in 0..Len(argv)] == i > 1 /\ argv[i - 1].kind = "payload" /\ ~v[i - 1] IN v
Is(i, kinds) == ~IsValue[i] /\ argv[i].kind \in kinds
Strict(i) == Cardinality({j \in 1..(i - 1) : Is(j, {"permissive", "permissive-off"})}) % 2 = 0

\* Where the options end, and what ends everything before.
Ends(i) == Is(i, {"--"}) \/ (Is(i, {"plain"}) /\ Strict(i))
Bad(i) ==
  \/ Is(i, {"help"})
  \/ Strict(i) /\ (Is(i, {"unknown"}) \/ (Is(i, {"payload"}) /\ i = Len(argv)))
  \/ Is(i, {"permissive"}) /\ ~Strict(i)
  \/ Is(i, {"permissive-off"}) /\ Strict(i)

\* The payloads of the first i tokens, in order.
Given == LET given[i \in 0..Len(argv)] ==
               IF i = 0 THEN <<>>
               ELSE IF IsValue[i] \/ argv[i].kind = "payload=" THEN Append(given[i - 1], argv[i].val)
               ELSE given[i - 1]
         IN given

\* The first token that ends the options, or the place behind all, the first of
\* the target's arguments, and whether the vector is refused.
Ending == {i \in DOMAIN argv : Ends(i)}
First == IF Ending = {} THEN Len(argv) + 1 ELSE CHOOSE i \in Ending : \A j \in Ending : i <= j
Behind == IF Ending # {} /\ Is(First, {"--"}) THEN First + 1 ELSE First
Refused == Ending = {} \/ Behind > Len(argv) \/ \E i \in 1..(First - 1) : Bad(i)

\* htif.cc:354 "the remaining args that are not options are all payloads" of
\* the target: its arguments begin with the first plain token that is read
\* strictly, or behind "--", and are all that follows.  No option of its own is
\* taken by the host, no value for a token, and each payload is kept in order.
ArgumentsSplit ==
  /\ parsing # "options" => (parsing = "rejected" <=> Refused)
  /\ parsing = "done" => targs = SubSeq(argv, Behind, Len(argv)) /\ payloads = Given[First - 1]
=============================================================================
