---------------------------- MODULE MCPageTables ----------------------------
(* Tables of a few pages, so that a mapping soon needs a new one, and pages *)
(* of a few list entries.  As in the code, the entries that are left when a *)
(* refill starts are hardly more than what it can take: with 4 orders it    *)
(* splits at most 3 blocks and puts 4 pages into the page pool.             *)
EXTENDS PageTables

MCSizes == [o \in 0 .. 3 |-> 2 ^ o]

\* Blocks of the largest order, and a block of every order below some.
Blocks == {[o \in 0 .. 3 |-> IF o = 3 THEN 12 ELSE IF o < k THEN 1 ELSE 0] : k \in 0 .. 3}
=============================================================================
