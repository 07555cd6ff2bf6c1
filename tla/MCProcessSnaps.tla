--------------------------- MODULE MCProcessSnaps ---------------------------
(* Instances of ProcessSnaps for TLC. *)
EXTENDS ProcessSnaps, Sequences, TLC

\* Like mir-test-tools 26/beta and mesa-2404 stable.
TwoSnaps == <<[ppa |-> TRUE, non_uniform |-> FALSE, check_usns |-> TRUE, check_paths |-> FALSE,
               processors |-> {"amd64", "arm64"}],
              [ppa |-> FALSE, non_uniform |-> FALSE, check_usns |-> FALSE, check_paths |-> TRUE,
               processors |-> {"amd64"}]>>
\* The second has always been in the store, the first on both architectures or on none.
InStoreOrNot == {s \in [1..2 -> [{"amd64", "arm64"} -> {0, 1}]] :
                   /\ s[1]["amd64"] = s[1]["arm64"]
                   /\ s[2]["amd64"] = 1 /\ s[2]["arm64"] = 0}
\* USNs for one of the architectures, the same for both, or one for each.
SameOrNot == {"amd64" :> "one", "arm64" :> "one", "amd64" :> "one" @@ "arm64" :> "one",
              "amd64" :> "one" @@ "arm64" :> "other"}
\* The recipe of the first may be missing.
AllOrOne == {{2}, {1, 2}}
=============================================================================
