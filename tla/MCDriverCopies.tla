--------------------------- MODULE MCDriverCopies ---------------------------
(* The program that DriverCopies is checked with: a queue with managed     *)
(* pages, one with a page of the GPU.                                      *)
EXTENDS DriverCopies

CONSTANTS A, B

Do(kind, pages) == [kind |-> kind, pages |-> pages]
TwoQueues ==
  [q \in Queues |->
     IF q = A THEN <<Do("H2D", {1}), Do("Kernel", {1, 2}), Do("H2D", {2}), Do("D2H", {1, 2})>>
              ELSE <<Do("H2D", {3}), Do("Kernel", {3}), Do("D2H", {3})>>]
=============================================================================
