----------------------------- MODULE FrameFeed -----------------------------
(***************************************************************************)
(* What a ring of frames promises its subscribers, whatever the ring, the  *)
(* locks and the channels in between (src/buffer/circularBuffer.go).       *)
(*                                                                         *)
(* Frames are numbered as they are published.  A reader that joins is owed *)
(* the newest frames, without a hole, down to some frame, and then every   *)
(* frame published.  It is given the frames it is owed oldest first; a     *)
(* frame may be lost to it, but then it is never given later.              *)
(***************************************************************************)
EXTENDS Integers, Sequences

CONSTANT Readers

VARIABLES
  newest,   (* number of the newest frame                                  *)
  joined,   (* the readers that take part                                  *)
  due,      (* the frames each reader is still owed                        *)
  seen      (* the frames each reader was given                            *)

vars == <<newest, joined, due, seen>>

Init ==
  /\ newest = 0
  /\ joined = {}
  /\ due = [r \in Readers |-> {}]
  /\ seen = [r \in Readers |-> <<>>]

Publish ==
  /\ newest' = newest + 1
  /\ due' = [r \in Readers |-> IF r \in joined THEN due[r] \cup {newest + 1}
                                               ELSE due[r]]
  /\ UNCHANGED <<joined, seen>>

Join(r) ==
  /\ r \notin joined
  /\ seen[r] = <<>>
  /\ joined' = joined \cup {r}
  /\ \E first \in 1 .. newest + 1 : due' = [due EXCEPT ![r] = first .. newest]
  /\ UNCHANGED <<newest, seen>>

Deliver(r) ==
  /\ \E f \in due[r] :
       /\ \A g \in due[r] : f <= g
       /\ seen' = [seen EXCEPT ![r] = Append(@, f)]
       /\ due' = [due EXCEPT ![r] = @ \ {f}]
  /\ UNCHANGED <<newest, joined>>

(* Readers lose frames they were owed.                                      *)
Lose ==
  /\ \E lost \in [Readers -> SUBSET UNION {due[r] : r \in Readers}] :
       due' = [r \in Readers |-> due[r] \ lost[r]]
  /\ UNCHANGED <<newest, joined, seen>>

(* Readers leave: nothing new is owed to them, and what was may be lost.    *)
Leave ==
  /\ \E gone \in SUBSET joined :
       /\ joined' = joined \ gone
       /\ \A r \in Readers : due'[r] \subseteq due[r]
       /\ due' = [r \in Readers |-> IF r \in gone THEN due'[r] ELSE due[r]]
  /\ UNCHANGED <<newest, seen>>

Next ==
  \/ Publish
  \/ Lose
  \/ Leave
  \/ \E r \in Readers : Join(r) \/ Deliver(r)

Spec == Init /\ [][Next]_vars
=============================================================================
