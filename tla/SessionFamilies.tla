--------------------------- MODULE SessionFamilies ---------------------------
(***************************************************************************)
(* What the identity session service promises, without tokens, clocks or   *)
(* calls: sessions belong to families, a rotation moves a family's one     *)
(* usable session to a new one in a single step, a kill reaches the whole  *)
(* family, and nothing that stopped being usable is ever usable again.     *)
(***************************************************************************)
CONSTANTS Sessions,  \* the sessions there will ever be
          None       \* the family of a session that has no record

VARIABLES status,  \* how far each session has come
          family   \* the session each session's family started with

Recorded == {"live", "rotated", "revoked"}

PromiseTypeOK ==
  /\ status \in [Sessions -> Recorded \cup {"unused", "gone"}]
  /\ family \in [Sessions -> Sessions \cup {None}]

PromiseInit ==
  /\ status = [s \in Sessions |-> "unused"]
  /\ family = [s \in Sessions |-> None]

Open(s) ==
  /\ status[s] = "unused"
  /\ status' = [status EXCEPT ![s] = "live"]
  /\ family' = [family EXCEPT ![s] = s]

Rotate(s, t) ==
  /\ status[s] = "live"
  /\ status[t] = "unused"
  /\ status' = [status EXCEPT ![s] = "rotated", ![t] = "live"]
  /\ family' = [family EXCEPT ![t] = family[s]]

Kill(f) ==
  /\ status' = [s \in Sessions |-> IF status[s] \in Recorded /\ family[s] = f
                                   THEN "revoked" ELSE status[s]]
  /\ UNCHANGED family

Forget(s) ==
  /\ status[s] \in Recorded
  /\ status' = [status EXCEPT ![s] = "gone"]
  /\ family' = [family EXCEPT ![s] = None]

PromiseNext ==
  \/ \E s \in Sessions : Open(s)
  \/ \E s, t \in Sessions : Rotate(s, t)
  \/ \E f \in Sessions : Kill(f)
  \/ \E s \in Sessions : Forget(s)

Promise == PromiseInit /\ [][PromiseNext]_<<status, family>>

=============================================================================
