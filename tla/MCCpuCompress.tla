---------------------------- MODULE MCCpuCompress ----------------------------
(* Small requests on blocks of four elements and chunks of eight words.     *)
EXTENDS CpuCompress

Ask(n, values(_), bits, given, givenWords, idsFit, overflows) ==
  [count |-> n, values |-> [i \in 0..(n - 1) |-> values(i)], bits |-> bits,
   given |-> given, givenWords |-> givenWords, idsFit |-> idsFit,
   overflows |-> overflows]

\* Element counts around the block and padding boundaries: empty, one, a
\* short block, a full one, one more, two full, three (padded to four), five
\* and six (padded to eight).
MCCounts == {0, 1, 3, 4, 5, 8, 9, 17, 21}

AllZero(i) == 0
Mixed(i) == i % 3
FirstBad(i) == IF i = 0 THEN NonFinite ELSE 1

\* Computed scales on every count, and every prescribed one on a few.
MCInputs ==
  {Ask(n, Mixed, b, "none", FALSE, TRUE, o) : n \in MCCounts, b \in {4, 8}, o \in BOOLEAN}
  \cup {Ask(n, AllZero, b, "none", FALSE, TRUE, FALSE) : n \in {1, 5}, b \in {4, 8}}
  \cup {Ask(n, FirstBad, b, g, TRUE, TRUE, FALSE) :
          n \in {1, 9}, b \in {4, 8}, g \in {"none", "positive"}}
  \cup {Ask(n, Mixed, 4, g, w, f, FALSE) :
          n \in {0, 5}, g \in {"zero", "positive", "invalid"}, w \in BOOLEAN, f \in BOOLEAN}
  \cup {Ask(5, AllZero, 4, g, TRUE, TRUE, FALSE) : g \in {"zero", "positive"}}
=============================================================================
