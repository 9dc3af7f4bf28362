--------------------------- MODULE MCExportLeases ---------------------------
(* Instances of ExportLeases for TLC.                                      *)
EXTENDS ExportLeases, TLC

CONSTANTS w1, w2, o1, o2

\* Two workers on different export roots share one database: only the worker
\* row keeps them apart.
TwoRoots == w1 :> "root1" @@ w2 :> "root2"

\* One export root: the flock on .worker.lock lets one worker run at a time.
OneRoot == w1 :> "root1"

\* Workers are interchangeable: Root only says whether two of them exclude each other.
WorkerSymmetry == Permutations({w1, w2})

\* Accounts are interchangeable.
OwnerSymmetry == Permutations({o1, o2})
=============================================================================
