--------------------------- MODULE MCDocumentStore ---------------------------
(* Small histories of a store for TLC. *)
EXTENDS DocumentStore, TLC

CONSTANTS r1, r2, r3, l1, l2

\* The requests are alike.
MCSymmetry == Permutations(Requests)

Setup(ops, overlaps, requests, split, deaths, refusals, astrays) ==
    [ops |-> ops, overlap |-> overlaps, requests |-> requests, split |-> split,
     crashes |-> deaths, faults |-> refusals, astray |-> astrays]

\* Every operation: two requests, one after the other, with a crash and a call
\* that the database refuses, or three; chunks asked for under any loader; two
\* requests that process, upsert and configure at the same time, and three that
\* only process.
MCSetups == {Setup(DOMAIN First, FALSE, 2, 2, 1, 1, FALSE),
             Setup(DOMAIN First, FALSE, 3, 1, 0, 0, FALSE),
             Setup({"process", "deleteChunk"}, FALSE, 3, 1, 0, 0, TRUE),
             Setup({"process", "upsert", "config"}, TRUE, 2, 2, 0, 0, FALSE),
             Setup({"process"}, TRUE, 3, 1, 0, 0, FALSE)}
=============================================================================
