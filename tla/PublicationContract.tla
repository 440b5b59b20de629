------------------------- MODULE PublicationContract -------------------------
(***************************************************************************)
(* What approving a run promises, without the calls, checkpoints, crashes  *)
(* and retries that deliver it (apps/api/src/changesafe/publication):      *)
(*                                                                         *)
(*   - a publication key is claimed at most once, by one run, for one      *)
(*     fixed mode and one fixed set of destinations;                       *)
(*   - a claimed key is sealed at most once, with a receipt that names     *)
(*     every destination the claim requires;                               *)
(*   - a run is completed only with the receipt of its own key, and keeps  *)
(*     it for ever.                                                        *)
(*                                                                         *)
(* Publication.tla is shown to implement this module.                      *)
(***************************************************************************)
EXTENDS Naturals

CONSTANTS Runs, Keys, KeyOf, Repos, Servers, None

VARIABLES claim,      \* claim[k]: owner and intent of key k, or None
          sealed,     \* sealed[k]: the final receipt of key k, or None
          delivered   \* delivered[r]: the receipt run r completed with, or None

vars == <<claim, sealed, delivered>>

Claims == [owner  : Runs,
           mode   : {"live", "preview"},
           repo   : Repos \cup {None},
           server : Servers \cup {None}]

\* The receipt r answers every destination of the claim c.
Answers(r, c) ==
  /\ r.mode = c.mode
  /\ c.repo # None => r.pull > 0
  /\ c.server # None => r.writeback = "written"

Init ==
  /\ claim = [k \in Keys |-> None]
  /\ sealed = [k \in Keys |-> None]
  /\ delivered = [r \in Runs |-> None]

Claim(k) ==
  /\ claim[k] = None
  /\ \E c \in Claims : /\ KeyOf[c.owner] = k
                       /\ claim' = [claim EXCEPT ![k] = c]
  /\ UNCHANGED <<sealed, delivered>>

Seal(k) ==
  /\ claim[k] # None
  /\ sealed[k] = None
  /\ sealed'[k] # None
  /\ Answers(sealed'[k], claim[k])
  /\ sealed' = [sealed EXCEPT ![k] = sealed'[k]]
  /\ UNCHANGED <<claim, delivered>>

\* A run that meets a sealed key may be told that the receipt is reused.
Deliver(r) ==
  /\ delivered[r] = None
  /\ sealed[KeyOf[r]] # None
  /\ \E reused \in BOOLEAN :
       delivered' =
         [delivered EXCEPT ![r] = [sealed[KeyOf[r]] EXCEPT !.reused = reused]]
  /\ UNCHANGED <<claim, sealed>>

Next ==
  \/ \E k \in Keys : Claim(k) \/ Seal(k)
  \/ \E r \in Runs : Deliver(r)

Spec == Init /\ [][Next]_vars
=============================================================================
