----------------------------- MODULE MCPrograms ------------------------------
(* Files 1 and 2 are the terminal.  The file that a program writes may be    *)
(* there before, and be longer than what is written.                         *)
EXTENDS Programs, TLC

Progs == {"any", "files", "moreThanExit", "sobel", "sobel-approx", "sobel-bare", "insertionSort",
          "simple", "c_example", "hello", "c_hello", "asm_example"}
\* It rounds down to even numbers.
Mula(a, b) == 2 * ((a * b) \div 2)

Dot(k, v) == [i \in 1..16 |-> IF i = k THEN v ELSE 0]
Pictures == {Dot(k, v) : k \in {1, 4, 6}, v \in {1, 255}}
            \cup {[i \in 1..16 |-> (i * i * 37) % 256], [i \in 1..16 |-> IF i % 4 < 2 THEN 0 ELSE 40],
                  [i \in 1..16 |-> 255]}
Arrays == {a \in [1..4 -> 1..4] : \A i \in 1..3 : a[i] # a[i + 1]} \cup {<<2, 2, 1, 2>>, <<1>>}

Dir(names) == [n \in DOMAIN names |-> names[n]]
Disks == {("." :> 3) @@ ("lena.img.bin" :> 4),
          ("." :> 3) @@ ("lena.img.bin" :> 4) @@ ("Test" :> 5) @@ ("sobel.out" :> 6)}
Content(pic) == (1 :> <<>>) @@ (2 :> <<>>) @@ (3 :> <<>>) @@ (4 :> pic)
                @@ (5 :> <<9, 9, 9, 9>>) @@ (6 :> [i \in 1..18 |-> 9])
Datas == {Content(pic) : pic \in Pictures \cup {<<7, 200>>}}
Text == [n \in {".", "lena.img.bin", "Test", "sobel.out"} |-> IF n = "." THEN <<46>> ELSE <<46, 65>>]
Buffers == [buf |-> <<0, 0, 0, 0, 0, 0>>, ibuf |-> [i \in 1..10 |-> 0], ifm_buf |-> [i \in 1..16 |-> 0],
            str2 |-> <<77, 13, 0>>]
Message == <<77, 13>>
Targs == <<<<65>>, <<66>>>>
Fds == {-2, 0, 1, 3, 4}
Dirs == {-100, 3}
AnyCalls == [any   |-> [calls |-> 3, numbers |-> Numbers],
             files |-> [calls |-> 6, numbers |-> {25, 56, 57}]]
=============================================================================
