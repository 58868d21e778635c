----------------------------- MODULE MCDownload -----------------------------
(* Small instances of Download: headers of 2 bytes, chunks of 3, words of 2, *)
(* a sector of 8 bytes that ends inside chunk 3.                             *)
EXTENDS Download

\* "fits" ends in chunk 2, "fills" in the last byte of the sector, "over" is a
\* byte too long and "far" has a chunk behind the sector.
MCFrames == [f \in File |-> CASE f = "fits" -> 2 [] f = "far" -> 4 [] OTHER -> 3]
MCTail   == [f \in File |-> CASE f = "over" -> 3 [] f = "fits" -> 3 [] f = "fills" -> 2 [] f = "far" -> 2]

Times(c, f, b, x, e, s, p, r) ==
    [ev \in Event |-> CASE ev = "connect" -> c [] ev = "file" -> f
                        [] ev = "badplc" -> b  [] ev = "fault" -> x
                        [] ev = "erase" -> e   [] ev = "stop" -> s
                        [] ev = "pause" -> p   [] ev = "reset" -> r]
\* A server meets a second connection, a second file, a wrong PLC number and a
\* loss of power, with a flash that works.
ServerBudgets == {Times(2, 1, 1, 0, 0, 0, 0, 1)}
\* A client meets in two connections flash operations that fail, erasures from
\* the console and a loss of power; in one, all the commands of the console.
ClientBudgets == {Times(2, 0, 0, 1, 1, 0, 0, 1), Times(1, 0, 1, 0, 1, 1, 1, 1)}
=============================================================================
