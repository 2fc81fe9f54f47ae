------------------------------ MODULE MCJournal -----------------------------
(* Small instances of Journal. *)
EXTENDS Journal, TLC

CONSTANTS w1, w2, f1, f2, f3

\* Two processes of different storage domains, given one journal path.
TwoDomains == w1 :> "a" @@ w2 :> "b"
OneWriterDomain == w1 :> "a"

FileSymmetry == Permutations({f1, f2})

=============================================================================
