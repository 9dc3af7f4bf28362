---------------------------- MODULE MediaCutover ----------------------------
(* What the migration of an old installation promises, whatever its worker   *)
(* has to survive: rows that no pin shows and whose file is missing go first *)
(* or never, the other rows are switched to the new paths in key order and   *)
(* never back, an image is registered when no row holds an old path any      *)
(* more, an old directory leaves its place when every image is registered,   *)
(* the migration is complete when all have left, and until then the          *)
(* application does not run.                                                 *)
EXTENDS Integers

CONSTANTS Images,      \* a set of numbers, the primary keys
          Orphans,     \* images to remove
          Registrable, \* images the registry can take
          M            \* old directories

VARIABLES old,        \* images whose rows hold old paths
          switched,   \* images whose rows hold new paths
          registered, \* registered images
          archived,   \* old directories that have left their place, in order
          complete,   \* the run is complete
          open        \* the application may start

cutover == <<old, switched, registered, archived, complete, open>>

Evidence == old # {} \/ archived < M

CutoverInit ==
  /\ old \subseteq Images /\ switched \subseteq Images
  /\ old \cap switched = {}
  /\ registered = {} /\ archived = 0 /\ ~complete /\ ~open

(* Orphaned rows are removed before any other row is touched.                *)
RemoveOrphans ==
  /\ old \cap Orphans # {} /\ old' = old \ Orphans
  /\ registered = {} /\ archived = 0 /\ ~complete /\ ~open
  /\ UNCHANGED <<switched, registered, archived, complete, open>>

(* A batch of rows is switched, the first of those left.                     *)
Switch ==
  /\ old \cap Orphans = {}
  /\ \E b \in SUBSET old :
       /\ b # {} /\ \A i \in b, j \in old \ b : i < j
       /\ old' = old \ b /\ switched' = switched \cup b
  /\ registered = {} /\ archived = 0 /\ ~complete /\ ~open
  /\ UNCHANGED <<registered, archived, complete, open>>

(* A batch of images is registered, the first of those left.                 *)
Register ==
  /\ old = {}
  /\ LET left == (switched \cap Registrable) \ registered
     IN  \E b \in SUBSET left :
           /\ b # {} /\ \A i \in b, j \in left \ b : i < j
           /\ registered' = registered \cup b
  /\ archived = 0 /\ ~complete /\ ~open
  /\ UNCHANGED <<old, switched, archived, complete, open>>

(* The next old directory leaves its place.                                  *)
ArchiveNext ==
  /\ old = {} /\ switched \cap Registrable \subseteq registered
  /\ archived < M /\ archived' = archived + 1
  /\ ~complete /\ ~open
  /\ UNCHANGED <<old, switched, registered, complete, open>>

Complete ==
  /\ ~Evidence /\ switched \cap Registrable \subseteq registered
  /\ ~complete /\ complete' = TRUE
  /\ UNCHANGED <<old, switched, registered, archived, open>>

(* The application is started and stopped.                                   *)
OpenApplication ==
  /\ ~Evidence /\ ~open /\ open' = TRUE
  /\ UNCHANGED <<old, switched, registered, archived, complete>>

CloseApplication ==
  /\ open /\ open' = FALSE
  /\ UNCHANGED <<old, switched, registered, archived, complete>>

CutoverNext ==
  \/ RemoveOrphans \/ Switch \/ Register \/ ArchiveNext \/ Complete
  \/ OpenApplication \/ CloseApplication

CutoverSpec == CutoverInit /\ [][CutoverNext]_cutover
=============================================================================
