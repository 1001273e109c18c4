---- MODULE MCPrimes ----
(* 8-bit words. Up to 120 all squares fit; 251 is a prime that is_prime      *)
(* rejects. There are ranges on both sides of 120, across the middle of the  *)
(* words, up to the last word but one, and up to the last, where main starts *)
(* again at 0 until memory is full; reversed and one-number ranges.          *)
EXTENDS Primes

MCRanges ==
    {<<0, 23>>, <<1, 10>>, <<1, 1>>, <<2, 2>>, <<119, 122>>, <<100, 99>>, <<2, 1>>, <<2, 0>>,
     <<5, 40>>, <<124, -126>>, <<-90, -84>>, <<-7, -2>>, <<-5, 3>>, <<-1, -2>>,
     <<-7, -1>>}
====
